------------------------------- MODULE Sweep --------------------------------
(***************************************************************************)
(* The search for the smallest memory limit a strategy runs in,            *)
(* internal/sweep/search.go: test the upper bound, then the lower bound,   *)
(* then bisect between a failing and a passing limit.  A limit passes when *)
(* all its repetitions pass.                                               *)
(***************************************************************************)
EXTENDS DockerAttempt, Sequences

CONSTANTS
  Ranges,      \* the bounds to search: --lower-mib, --upper-mib, --step-mib
  Repetitions  \* --repetitions

ASSUME SweepAssumption ==
  /\ Ranges \subseteq [lower : Int, upper : Int, step : Int]
  /\ Repetitions \in Nat \ {0}
  /\ Needs \subseteq Int

VARIABLES
  range,       \* the sweep's configuration, chosen once
  spc,         \* where Search is
  phase,       \* which call of test: the upper or lower bound, or the bisection
  repetition,  \* attempts made at the current limit
  passed,      \* all of them passed
  tested,      \* limit -> passed, for the limits tested so far
  fail, pass,  \* the bracket of the bisection
  attempts,    \* report.Attempts
  report       \* report.MinimumPassMiB, GreatestFailMiB, BoundaryResolved

searchVars == <<range, spc, phase, repetition, passed, tested, fail, pass,
                attempts, report>>
vars == <<attemptVars, searchVars>>

step == range.step

alignUp(value)   == ((value + step - 1) \div step) * step
alignDown(value) == (value \div step) * step

lower == alignUp(range.lower)
upper == alignDown(range.upper)

(* Repetitions is positive by assumption. *)
Valid == range.lower > 0 /\ range.upper >= range.lower /\ step > 0

TypeOK ==
  /\ AttemptTypeOK
  /\ range \in Ranges
  /\ spc \in {"begin", "test", "attempt", "decide", "narrow", "done", "error"}
  /\ phase \in {"upper", "lower", "bisect"}
  /\ repetition \in 0..Repetitions
  /\ passed \in BOOLEAN
  /\ DOMAIN tested \subseteq Int /\ \A l \in DOMAIN tested : tested[l] \in BOOLEAN
  /\ fail \in Int /\ pass \in Int
  /\ attempts \in Seq([limit : Int, repetition : 1..Repetitions,
                       passed : BOOLEAN, kind : Kinds, timedOut : BOOLEAN])
  /\ report \in [minimum : Int, greatest : Int, resolved : BOOLEAN]

SweepInit ==
  /\ AttemptInit
  /\ range \in Ranges
  /\ spc = "begin"
  /\ phase = "upper"
  /\ repetition = 0
  /\ passed = TRUE
  /\ tested = [l \in {} |-> TRUE]
  /\ fail = 0 /\ pass = 0
  /\ attempts = <<>>
  /\ report = [minimum |-> 0, greatest |-> 0, resolved |-> FALSE]

(* An invalid configuration, or no aligned limit between the bounds. *)
Reject ==
  /\ spc = "begin"
  /\ Valid => lower > upper
  /\ spc' = "error"
  /\ UNCHANGED <<attemptVars, range, phase, repetition, passed, tested, fail,
                 pass, attempts, report>>

(* Call test(l). *)
Test(l) ==
  /\ limit' = l
  /\ repetition' = 0
  /\ passed' = TRUE
  /\ spc' = "test"
  /\ UNCHANGED <<strategy, need, cancelled, apc, container, exitCode,
                 oomKilled, written, result, range, tested, attempts, report>>

TestUpper ==
  /\ spc = "begin"
  /\ Valid /\ lower <= upper
  /\ Test(upper)
  /\ UNCHANGED <<phase, fail, pass>>

(* The limit was tested before: the lower bound equals the upper one. *)
Cached ==
  /\ spc = "test"
  /\ repetition = 0 /\ limit \in DOMAIN tested
  /\ passed' = tested[limit]
  /\ spc' = "decide"
  /\ UNCHANGED <<attemptVars, range, phase, repetition, tested, fail, pass,
                 attempts, report>>

Untested == spc = "test" /\ ~(repetition = 0 /\ limit \in DOMAIN tested)

(* The context is only looked at before an attempt. *)
Abandon ==
  /\ Untested
  /\ repetition < Repetitions
  /\ cancelled
  /\ spc' = "error"
  /\ UNCHANGED <<attemptVars, range, phase, repetition, passed, tested, fail,
                 pass, attempts, report>>

(* Mutation of Attempt: one repetition too many. *)
AttemptOnceMore ==
  /\ Untested
  /\ repetition <= Repetitions
  /\ ~cancelled
  /\ repetition' = repetition + 1
  /\ apc' = "prepare"
  /\ spc' = "attempt"
  /\ UNCHANGED <<strategy, need, cancelled, limit, container, exitCode,
                 oomKilled, written, result, range, phase, passed, tested,
                 fail, pass, attempts, report>>

Attempt ==
  /\ Untested
  /\ repetition < Repetitions
  /\ ~cancelled
  /\ repetition' = repetition + 1
  /\ apc' = "prepare"
  /\ spc' = "attempt"
  /\ UNCHANGED <<strategy, need, cancelled, limit, container, exitCode,
                 oomKilled, written, result, range, phase, passed, tested,
                 fail, pass, attempts, report>>

(* Mutation of Record: a later repetition forgives an earlier failure. *)
RecordLast ==
  /\ spc = "attempt"
  /\ apc = "returned"
  /\ attempts' = Append(attempts, [limit |-> limit, repetition |-> repetition,
                                   passed |-> result.passed, kind |-> result.kind,
                                   timedOut |-> result.timedOut])
  /\ passed' = result.passed
  /\ apc' = "idle"
  /\ spc' = "test"
  /\ UNCHANGED <<strategy, need, cancelled, limit, container, exitCode,
                 oomKilled, written, result, range, phase, repetition, tested,
                 fail, pass, report>>

Record ==
  /\ spc = "attempt"
  /\ apc = "returned"
  /\ attempts' = Append(attempts, [limit |-> limit, repetition |-> repetition,
                                   passed |-> result.passed, kind |-> result.kind,
                                   timedOut |-> result.timedOut])
  /\ passed' = (passed /\ result.passed)
  /\ apc' = "idle"
  /\ spc' = "test"
  /\ UNCHANGED <<strategy, need, cancelled, limit, container, exitCode,
                 oomKilled, written, result, range, phase, repetition, tested,
                 fail, pass, report>>

(* Every repetition is made even after one has failed. *)
Tested ==
  /\ Untested
  /\ repetition = Repetitions
  /\ tested' = [l \in DOMAIN tested \cup {limit} |->
                  IF l = limit THEN passed ELSE tested[l]]
  /\ spc' = "decide"
  /\ UNCHANGED <<attemptVars, range, phase, repetition, passed, fail, pass,
                 attempts, report>>

UpperFailed ==
  /\ spc = "decide" /\ phase = "upper" /\ ~passed
  /\ report' = [report EXCEPT !.greatest = upper]
  /\ spc' = "error"
  /\ UNCHANGED <<attemptVars, range, phase, repetition, passed, tested, fail,
                 pass, attempts>>

TestLower ==
  /\ spc = "decide" /\ phase = "upper" /\ passed
  /\ phase' = "lower"
  /\ Test(lower)
  /\ UNCHANGED <<fail, pass>>

(* Mutation of LowerPassed: the lower bound is taken whatever its test said. *)
LowerTaken ==
  /\ spc = "decide" /\ phase = "lower"
  /\ report' = [report EXCEPT !.minimum = lower]
  /\ spc' = "done"
  /\ UNCHANGED <<attemptVars, range, phase, repetition, passed, tested, fail,
                 pass, attempts>>

LowerPassed ==
  /\ spc = "decide" /\ phase = "lower" /\ passed
  /\ report' = [report EXCEPT !.minimum = lower]
  /\ spc' = "done"
  /\ UNCHANGED <<attemptVars, range, phase, repetition, passed, tested, fail,
                 pass, attempts>>

LowerFailed ==
  /\ spc = "decide" /\ phase = "lower" /\ ~passed
  /\ fail' = lower /\ pass' = upper
  /\ phase' = "bisect"
  /\ spc' = "narrow"
  /\ UNCHANGED <<attemptVars, range, repetition, passed, tested, attempts,
                 report>>

(* Mutation of Middle: the midpoint is not aligned. *)
MiddleUnaligned == (fail + pass) \div 2

Middle ==
  LET mid == alignDown((fail + pass) \div 2)
  IN  IF mid <= fail THEN fail + step ELSE mid

(* Mutation of TestMiddle: the loop goes on when the ends are adjacent. *)
TestMiddleAgain ==
  /\ spc = "narrow"
  /\ pass - fail >= step
  /\ Test(Middle)
  /\ UNCHANGED <<phase, fail, pass>>

TestMiddle ==
  /\ spc = "narrow"
  /\ pass - fail > step
  /\ Test(Middle)
  /\ UNCHANGED <<phase, fail, pass>>

MiddlePassed ==
  /\ spc = "decide" /\ phase = "bisect" /\ passed
  /\ pass' = limit
  /\ spc' = "narrow"
  /\ UNCHANGED <<attemptVars, range, phase, repetition, passed, tested, fail,
                 attempts, report>>

MiddleFailed ==
  /\ spc = "decide" /\ phase = "bisect" /\ ~passed
  /\ fail' = limit
  /\ spc' = "narrow"
  /\ UNCHANGED <<attemptVars, range, phase, repetition, passed, tested, pass,
                 attempts, report>>

(* Mutation of Resolve: the bisection stops one step early. *)
ResolveEarly ==
  /\ spc = "narrow"
  /\ pass - fail <= 2 * step
  /\ report' = [minimum |-> pass, greatest |-> fail, resolved |-> TRUE]
  /\ spc' = "done"
  /\ UNCHANGED <<attemptVars, range, phase, repetition, passed, tested, fail,
                 pass, attempts>>

Resolve ==
  /\ spc = "narrow"
  /\ pass - fail <= step
  /\ report' = [minimum |-> pass, greatest |-> fail, resolved |-> TRUE]
  /\ spc' = "done"
  /\ UNCHANGED <<attemptVars, range, phase, repetition, passed, tested, fail,
                 pass, attempts>>

Returned == spc \in {"done", "error"}

SearchNext ==
  \/ Reject
  \/ TestUpper
  \/ Cached
  \/ Abandon
  \/ Attempt
  \/ Record
  \/ Tested
  \/ UpperFailed
  \/ TestLower
  \/ LowerPassed
  \/ LowerFailed
  \/ TestMiddle
  \/ MiddlePassed
  \/ MiddleFailed
  \/ Resolve

Next ==
  \/ SearchNext
  \/ ~Returned /\ AttemptNext /\ UNCHANGED searchVars
  \/ Returned /\ UNCHANGED vars

Spec == SweepInit /\ [][Next]_vars

(* The search and the attempt's waiting run on; the container ends or       *)
(* hangs, and a hanging one is ended by the poll or the deadline.  Nobody   *)
(* has to cancel the sweep.                                                 *)
FairSpec ==
  /\ Spec
  /\ WF_vars(SearchNext)
  /\ WF_vars(~Returned /\ AttemptNext /\ ~Cancel /\ UNCHANGED searchVars)

-----------------------------------------------------------------------------
AttemptsAt(l) == {i \in DOMAIN attempts : attempts[i].limit = l}

Aligned == {l \in lower..upper : l % step = 0}

(* Every limit the bisection probes is aligned, strictly inside the bracket *)
(* and untested, so that every probe shrinks the bracket; and the bracket's *)
(* ends have failed and passed.                                             *)
ProbesAreNew ==
  phase = "bisect" /\ ~Returned
    => /\ fail \in DOMAIN tested /\ ~tested[fail]
       /\ pass \in DOMAIN tested /\ tested[pass]
       /\ spc \in {"test", "attempt"}
            => fail < limit /\ limit < pass /\ limit \in Aligned
               /\ limit \notin DOMAIN tested

(* A resolved boundary was measured: the two limits are one step apart, the *)
(* minimum passed in all its repetitions, and the limit below it failed at  *)
(* least once, whatever the attempts met.                                   *)
BoundaryMeasured ==
  report.resolved
    => /\ report.minimum = report.greatest + step
       /\ \A r \in 1..Repetitions :
            \E i \in AttemptsAt(report.minimum) : attempts[i].repetition = r
       /\ \A i \in AttemptsAt(report.minimum) : attempts[i].passed
       /\ \E i \in AttemptsAt(report.greatest) : ~attempts[i].passed

(* When only memory decides, Search finds the least aligned limit that is   *)
(* enough, or says that none is, or that the lower bound already is.        *)
LeastLimitFound ==
  Valid =>
  LET enough == {l \in Aligned : l >= need}
  IN  /\ spc = "done" => /\ report.minimum \in enough
                         /\ \A l \in enough : report.minimum <= l
                         /\ report.resolved <=> lower < need
      /\ spc = "error" => enough = {}

(* An attempt that says it was cut off: it is marked as timed out, or it is *)
(* the last one of a sweep that was cancelled.                              *)
CutOff(i) == attempts[i].timedOut \/ (cancelled /\ i = Len(attempts))

(* The sweep removes containers itself, and the status they then end with   *)
(* is that of an OOM kill.  An OOM in the report is one all the same, below *)
(* what the workload needs, unless the attempt says that it was cut off.    *)
OOMMeansMemory ==
  \A i \in DOMAIN attempts :
    attempts[i].kind = "oom" => attempts[i].limit < need \/ CutOff(i)

(* Whatever goes wrong, a search errs on one side only and the report shows *)
(* it.  Its minimum is enough; and if the limit below a resolved minimum is *)
(* enough too, an attempt there failed for another reason than memory, and  *)
(* says so, be it that it had no chance to start, or was cancelled after    *)
(* the context had been looked at for the last time.                        *)
BoundaryErrsHigh ==
  /\ spc = "done" => need <= report.minimum
  /\ report.resolved /\ need <= report.greatest
       => \E i \in AttemptsAt(report.greatest) :
            ~attempts[i].passed /\ (attempts[i].kind # "oom" \/ CutOff(i))

(* Search returns, though containers hang and attempts fail. *)
SearchEnds == <>Returned

(* Design, section 11: "Other non-zero exits are recorded as functional     *)
(* failures and are not mislabelled as memory thresholds."  The failing end *)
(* of a resolved boundary then has an attempt that failed otherwise.        *)
FunctionalFailuresAreNoThreshold ==
  report.resolved
    => \E i \in AttemptsAt(report.greatest) :
          attempts[i].kind \notin {"", "functional"}
=============================================================================
