------------------------------ MODULE Commands ------------------------------
(***************************************************************************)
(* The loglab commands that leave reports behind (cmd/loglab): `run',      *)
(* started again and again with the same --result-dir, and `memory-sweep'. *)
(* The children of a run and the search of a sweep are outcomes here: Lab  *)
(* and Sweep model them.  Any command may be killed, with its children, or *)
(* cut short by a power failure.                                           *)
(***************************************************************************)
EXTENDS AtomicFile

CONSTANTS
  Invocations,  \* bound: commands started
  Accidents,    \* bound: kills and power failures
  Lower, Upper, \* --lower-mib, --upper-mib, in steps
  Needs         \* what the strategies may need, in steps

ASSUME CommandsAssumption ==
  /\ Paths = {"state", "integrity", "summary", "output"}
  /\ Invocations \in Nat /\ Accidents \in Nat
  /\ Lower \in Nat \ {0} /\ Upper \in Nat /\ Lower <= Upper
  /\ Needs \subseteq 0..Upper

VARIABLES
  pc,         \* where the command is
  run,        \* the number of the command: a run's id
  got,        \* run: the id in the writer state that was read
  order,      \* sweep: the strategies still to be searched
  reports,    \* sweep: combined.Reports
  status,     \* exit status of the last command, -1 while it runs or if killed
  accidents   \* kills and power failures so far

commandVars == <<pc, run, got, order, reports, status, accidents>>
vars == <<fileVars, commandVars>>

Strategies == <<"baseline", "copytruncate", "rename-reopen">>

Init ==
  /\ FileInit
  /\ pc = "shell" /\ run = 0 /\ got = 0 /\ order = <<>>
  /\ reports = <<>> /\ status = -1 /\ accidents = 0

Goto(label) == pc' = label /\ UNCHANGED <<run, got, order, reports, status, accidents>>
Exit(code)  == /\ pc' = "shell" /\ status' = code
               /\ UNCHANGED <<run, got, order, reports, accidents>>

-----------------------------------------------------------------------------
(* runCommand: harness.Run starts the children ... *)
StartRun ==
  /\ pc = "shell" /\ run < Invocations
  /\ pc' = "children" /\ run' = run + 1 /\ status' = -1
  /\ got' = 0 /\ order' = <<>> /\ reports' = <<>>
  /\ UNCHANGED <<fileVars, accidents>>

(* ... the writer writes its state when it ends ... *)
WriterEnds ==
  /\ pc = "children"
  /\ BeginWrite("state", run)
  /\ Goto("ending")

WriterExits ==
  /\ pc = "ending"
  /\ Returned("written")
  /\ Goto("reaped")

(* Mutation of ChildFails: the writer's exit status is ignored. *)
ChildFailsUnseen ==
  /\ \/ pc \in {"children", "reaped"} /\ UNCHANGED fileVars
     \/ pc = "ending" /\ Returned("failed")
  /\ Goto("reaped")

(* ... any of them may fail, before or after that, which ends the run ... *)
ChildFails ==
  /\ \/ pc \in {"children", "reaped"} /\ UNCHANGED fileVars
     \/ pc = "ending" /\ Returned("failed")
  /\ Exit(1)

(* ... and the harness reads the state back. *)
ReadState ==
  /\ pc = "reaped" /\ IsWhole("state")
  /\ got' = view["state"].value
  /\ pc' = "analyze"
  /\ UNCHANGED <<fileVars, run, order, reports, status, accidents>>

(* A file that is missing or does not parse, a log that cannot be scanned, *)
(* events or samples that cannot be read.                                  *)
ReadFails ==
  /\ pc \in {"analyze", "events"} \/ (pc = "reaped" /\ ~IsWhole("state"))
  /\ UNCHANGED fileVars
  /\ Exit(1)

WriteIntegrity ==
  /\ pc = "analyze"
  /\ BeginWrite("integrity", <<run, got>>)
  /\ Goto("integrity")

IntegrityWritten ==
  /\ pc = "integrity"
  /\ Returned("written")
  /\ Goto("events")

(* Mutation of WriteSummary: an earlier step already writes the summary. *)
WriteSummaryFirst ==
  /\ pc = "analyze"
  /\ BeginWrite("summary", <<run, got>>)
  /\ Goto("summary")

WriteSummary ==
  /\ pc = "events"
  /\ BeginWrite("summary", <<run, got>>)
  /\ Goto("summary")

(* Mutation of RunEnds: a summary that cannot be written goes unnoticed. *)
RunEndsAnyway ==
  /\ pc = "summary"
  /\ Returned("written") \/ Returned("failed")
  /\ \E accepted \in BOOLEAN : Exit(IF accepted THEN 0 ELSE 1)

(* The status is 0 only if the run was accepted. *)
RunEnds ==
  /\ pc = "summary"
  /\ Returned("written")
  /\ \E accepted \in BOOLEAN : Exit(IF accepted THEN 0 ELSE 1)

ReportFails ==
  /\ pc \in {"integrity", "summary", "output"}
  /\ Returned("failed")
  /\ Exit(1)

-----------------------------------------------------------------------------
(* memorySweepCommand: one search per strategy, the baseline first. *)
StartSweep ==
  /\ pc = "shell" /\ run < Invocations
  /\ order' \in {Strategies} \cup {<<Strategies[i]>> : i \in 1..3}
  /\ pc' = "search" /\ run' = run + 1 /\ status' = -1
  /\ got' = 0 /\ reports' = <<>>
  /\ UNCHANGED <<fileVars, accidents>>

(* A SweepReport.  Two fields are history: what the strategy needs, and     *)
(* whether something else than memory made an attempt of its search fail.  *)
Report(s, need, disturbed, minimum, resolved) ==
  [strategy |-> s, need |-> need, disturbed |-> disturbed, minimum |-> minimum,
   resolved |-> resolved, baseline |-> 0, delta |-> 0, deltaResolved |-> FALSE]

(* What sweep.Search may return as the minimum (see Sweep): the least limit *)
(* that is enough, the lower bound from below; but any limit that is enough *)
(* when the search was disturbed.                                          *)
Minima(need, disturbed) ==
  IF disturbed THEN {m \in Lower..Upper : need <= m}
  ELSE {IF need <= Lower THEN Lower ELSE need}

(* A lower bound that passes is no resolved boundary.                      *)
SearchReturns ==
  /\ pc = "search" /\ order # <<>>
  /\ \E need \in Needs, disturbed \in BOOLEAN : \E minimum \in Minima(need, disturbed) :
       reports' = Append(reports, Report(Head(order), need, disturbed, minimum,
                                         minimum > Lower))
  /\ order' = Tail(order)
  /\ UNCHANGED <<fileVars, pc, run, got, status, accidents>>

(* The upper bound fails, or the context is cancelled: what there is is    *)
(* written, this empty report too, and how that write ends is ignored.     *)
SearchFails ==
  /\ pc = "search" /\ order # <<>>
  /\ BeginWrite("output", Append(reports, Report(Head(order), 0, TRUE, 0, FALSE)))
  /\ Goto("abandoned")

(* Mutation of Delta: the baseline's minimum is used as it stands. *)
DeltaUnresolved(r, base) ==
  IF r.resolved
  THEN [r EXCEPT !.baseline = base.minimum, !.delta = r.minimum - base.minimum, !.deltaResolved = TRUE]
  ELSE r

(* The increase over the baseline, when both minima are known. *)
Delta(r, base) ==
  IF base.resolved /\ r.resolved
  THEN [r EXCEPT !.baseline = base.minimum, !.delta = r.minimum - base.minimum,
                 !.deltaResolved = TRUE]
  ELSE [r EXCEPT !.baseline = base.minimum]

Compared ==
  [i \in DOMAIN reports |->
     IF reports[1].strategy = "baseline" /\ i > 1
     THEN Delta(reports[i], reports[1]) ELSE reports[i]]

WriteSweep ==
  /\ pc = "search" /\ order = <<>>
  /\ BeginWrite("output", Compared)
  /\ Goto("output")

SweepEnds ==
  \/ pc = "output" /\ Returned("written") /\ Exit(0)
  \/ pc = "abandoned" /\ (Returned("written") \/ Returned("failed")) /\ Exit(1)

-----------------------------------------------------------------------------
(* The command, or the container it runs in, is killed; or power is lost. *)
Interrupt ==
  /\ accidents < Accidents
  /\ accidents' = accidents + 1
  /\ \/ pc # "shell" /\ Killed
     \/ PowerFails
  /\ pc' = "shell" /\ status' = -1
  /\ UNCHANGED <<run, got, order, reports>>

(* Nobody starts another command. *)
Idle == pc = "shell" /\ run = Invocations /\ UNCHANGED vars

Next ==
  \/ StartRun \/ WriterEnds \/ WriterExits \/ ChildFails
  \/ ReadState \/ ReadFails \/ WriteIntegrity \/ IntegrityWritten
  \/ WriteSummary \/ RunEnds \/ ReportFails
  \/ StartSweep \/ SearchReturns \/ SearchFails \/ WriteSweep \/ SweepEnds
  \/ FileNext /\ UNCHANGED commandVars
  \/ Interrupt
  \/ Idle

Spec == Init /\ [][Next]_vars

-----------------------------------------------------------------------------
(* No report is ever found torn, whatever kills the command and however     *)
(* late the disk sees the renames: a report is absent, old or new.          *)
ReportsWhole == \A p \in Paths : view[p].state # "torn" /\ disk[p].state # "torn"

(* A summary never outlives what it rests on: even after a power failure    *)
(* the integrity report and the writer state beside it are those of its own *)
(* run or of a later one, and it was computed from its own writer's state,  *)
(* never from one an earlier run in the directory left behind.              *)
SummaryBacked ==
  \A files \in {view, disk} :
    files["summary"].state = "whole"
      => LET s == files["summary"].value
         IN  /\ s[2] = s[1]
             /\ files["integrity"].state = "whole" /\ files["integrity"].value[1] >= s[1]
             /\ files["state"].state = "whole" /\ files["state"].value >= s[1]

(* A sweep reads summary.json when the run's status is 0: then the summary  *)
(* there is the one of this run, not one left by an earlier run in the same *)
(* directory.                                                               *)
StatusZeroMeansOwnSummary ==
  status = 0 /\ reports = <<>>
    => IsWhole("summary") /\ view["summary"].value[1] = run

(* A resolved delta in the combined report is the difference of two         *)
(* resolved minima, although a search may stop at its lower bound, fail, or *)
(* be cut short between two strategies.  It overstates what the strategy    *)
(* needs more than the baseline only if the strategy's own search was       *)
(* disturbed, and understates it only if the baseline's was.                *)
DeltaFollowsSearches ==
  IsWhole("output")
    => \A i \in DOMAIN view["output"].value :
         LET r == view["output"].value[i]
             b == view["output"].value[1]
         IN  r.deltaResolved
               => /\ b.strategy = "baseline" /\ b.resolved /\ r.resolved
                  /\ r.delta = r.minimum - b.minimum
                  /\ r.delta > r.need - b.need => r.disturbed
                  /\ r.delta < r.need - b.need => b.disturbed
=============================================================================
