--------------------------- MODULE CommandsProofs ---------------------------
(***************************************************************************)
(* What the reports of one result directory say, for any number of         *)
(* commands, kills and power failures and any bounds of a sweep: none is   *)
(* torn, a summary rests on the reports of its own run or of later ones,   *)
(* status 0 means the run's own summary, and a resolved delta errs only as *)
(* the searches did.                                                       *)
(*                                                                         *)
(* The invariant has two halves.  Stored relates what processes see, what  *)
(* the disk holds and the renames in between, as the reports' run numbers; *)
(* it changes only when a report is renamed, a rename is committed or      *)
(* power is lost.  Doing says what the command has done so far.            *)
(***************************************************************************)
EXTENDS Commands, SequenceTheorems, TLAPS

SweepReport ==
  [strategy : {Strategies[i] : i \in 1..3}, need : Int, disturbed : BOOLEAN, minimum : Int,
   resolved : BOOLEAN, baseline : Int, delta : Int, deltaResolved : BOOLEAN]

(* What a search leaves: a resolved minimum is enough, and when nothing    *)
(* disturbed the search no more than enough.                               *)
ErrsHigh(r) ==
  r.resolved => r.need <= r.minimum /\ (r.minimum # r.need => r.disturbed)

(* A combined report in which every resolved delta is true. *)
TrueDelta(r, b) ==
  r.deltaResolved
    => /\ b.strategy = "baseline" /\ b.resolved /\ r.resolved
       /\ r.delta = r.minimum - b.minimum
       /\ r.delta > r.need - b.need => r.disturbed
       /\ r.delta < r.need - b.need => b.disturbed

TrueDeltas(v) == \A i \in DOMAIN v : TrueDelta(v[i], v[1])

Values ==
  [state     |-> Nat,
   integrity |-> Nat \X Nat,
   summary   |-> {s \in Nat \X Nat : s[2] = s[1]},
   output    |-> {v \in Seq(SweepReport) : TrueDeltas(v)}]

(* The reports that carry the number of their run, and that number. *)
Numbered     == {"state", "integrity", "summary"}
Number(p, v) == IF p = "state" THEN v ELSE v[1]

Jobs(p) == [path : {p}, value : Values[p]]
Entries == UNION {[job : Jobs(p), synced : {TRUE}] : p \in Paths}

FilesOK(files) ==
  /\ files = [p \in Paths |-> files[p]]
  /\ \A p \in Paths : /\ files[p].state \in {"absent", "whole"}
                      /\ files[p].state = "whole" => files[p].value \in Values[p]

(* The report p of run n, or of a later one, is on disk or will be when    *)
(* the first k renames have been committed.                                *)
OnDisk(p, n) == disk[p].state = "whole" /\ Number(p, disk[p].value) >= n

Promised(p, n, k) ==
  \E i \in DOMAIN journal :
    i <= k /\ journal[i].job.path = p /\ Number(p, journal[i].job.value) >= n

Kept(p, n, k) == OnDisk(p, n) \/ Promised(p, n, k)

StoredOK == FilesOK(view) /\ FilesOK(disk) /\ journal \in Seq(Entries)

(* No report is of a run that has not begun. *)
PastRuns ==
  \A p \in Numbered :
    /\ view[p].state = "whole" => Number(p, view[p].value) <= run
    /\ disk[p].state = "whole" => Number(p, disk[p].value) <= run
    /\ \A i \in DOMAIN journal :
         journal[i].job.path = p => Number(p, journal[i].job.value) <= run

(* Renames reach the disk in the order of their runs. *)
Rising ==
  \A p \in Numbered : \A i \in DOMAIN journal :
    journal[i].job.path = p
      => /\ disk[p].state = "whole"
              => Number(p, disk[p].value) <= Number(p, journal[i].job.value)
         /\ \A k \in DOMAIN journal :
              k < i /\ journal[k].job.path = p
                => Number(p, journal[k].job.value) <= Number(p, journal[i].job.value)

(* What a process sees will be on disk, *)
SeenIsKept ==
  \A p \in Numbered :
    view[p].state = "whole" => Kept(p, Number(p, view[p].value), Len(journal))

(* and what a summary rests on is there before the summary. *)
SummariesKept ==
  \A i \in DOMAIN journal :
    journal[i].job.path = "summary"
      => \A p \in {"state", "integrity"} : Kept(p, Number("summary", journal[i].job.value), i - 1)

Backed(files) ==
  files["summary"].state = "whole"
    => \A p \in {"state", "integrity"} :
         /\ files[p].state = "whole"
         /\ Number(p, files[p].value) >= Number("summary", files["summary"].value)

Stored ==
  /\ StoredOK
  /\ PastRuns
  /\ Rising
  /\ SeenIsKept
  /\ SummariesKept
  /\ Backed(view) /\ Backed(disk)

-----------------------------------------------------------------------------
Writing == {"ending", "integrity", "summary", "output", "abandoned"}

ControlOK ==
  /\ pc \in {"shell", "children", "reaped", "analyze", "events", "search"} \cup Writing
  /\ step \in {"idle", "encode", "sync", "rename", "written", "failed"}
  /\ temp \in {"none", "partial", "full", "synced"}
  /\ run \in Nat /\ got \in Nat /\ accidents \in Nat
  /\ status \in {-1, 0, 1}
  /\ order \in Seq({Strategies[i] : i \in 1..3})
  /\ reports \in Seq(SweepReport)

(* A write is under way exactly while the command waits for it, it is the  *)
(* one the command asked for, and it is synced before it is renamed.       *)
WriteUnderWay ==
  /\ step # "idle" <=> pc \in Writing
  /\ step = "rename" => temp = "synced"
  /\ pc = "ending" => job = Job("state", run)
  /\ pc = "integrity" => job = Job("integrity", <<run, run>>)
  /\ pc = "summary" => job = Job("summary", <<run, run>>)
  /\ pc \in {"output", "abandoned"} => job = Job("output", job.value) /\ job.value \in Values.output

(* The report of this run is in place. *)
Current(p) == view[p].state = "whole" /\ Number(p, view[p].value) = run

RunSoFar ==
  /\ pc \in {"analyze", "integrity", "events", "summary"} => got = run
  /\ pc \in {"reaped", "analyze", "integrity", "events", "summary"}
       \/ (pc = "ending" /\ step = "written") => Current("state")
  /\ pc \in {"events", "summary"} \/ (pc = "integrity" /\ step = "written")
       => Current("integrity")
  /\ pc = "summary" /\ step = "written" => Current("summary")

SweepSoFar ==
  /\ pc = "search" => order # <<>> \/ reports # <<>>
  /\ pc = "output" => reports # <<>>
  /\ \A i \in DOMAIN reports :
       ~reports[i].deltaResolved /\ ErrsHigh(reports[i])

StatusTold ==
  /\ status # -1 => pc = "shell"
  /\ status = 0 /\ reports = <<>> => Current("summary")

Doing == ControlOK /\ WriteUnderWay /\ RunSoFar /\ SweepSoFar /\ StatusTold

IndInv == Stored /\ Doing

-----------------------------------------------------------------------------
(* What a rename carries: a report's path, a value that report may have,   *)
(* and data that was synced (RenameTemp, after Sync).                      *)
LEMMA EntryFacts ==
  ASSUME NEW e \in Entries
  PROVE  /\ e.job.path \in Paths /\ e.job.value \in Values[e.job.path]
         /\ e.job = Job(e.job.path, e.job.value) /\ e.synced = TRUE
<1>1. PICK p \in Paths : e \in [job : Jobs(p), synced : {TRUE}]
  BY DEF Entries
<1>2. e.job \in Jobs(p) /\ e.synced = TRUE
  BY <1>1
<1>3. e.job.path = p /\ e.job.value \in Values[p] /\ e.job = Job(p, e.job.value)
  BY <1>2 DEF Jobs, Job
<1> QED
  BY <1>2, <1>3

(* A synced rename of a report to one of its values is such an entry.      *)
LEMMA EntryMade ==
  ASSUME NEW p \in Paths, NEW v \in Values[p]
  PROVE  [job |-> Job(p, v), synced |-> TRUE] \in Entries
<1>1. Job(p, v) \in Jobs(p)
  BY DEF Jobs, Job
<1> QED
  BY <1>1 DEF Entries

(* The run number of a numbered report is a number.                        *)
LEMMA NumberFacts ==
  ASSUME NEW p \in Numbered, NEW v \in Values[p]
  PROVE  p \in Paths /\ Number(p, v) \in Nat
<1>1. p \in Paths
  BY CommandsAssumption DEF Numbered
<1>2. CASE p = "state"
  BY <1>1, <1>2 DEF Values, Number
<1>3. CASE p = "integrity"
  BY <1>1, <1>3 DEF Values, Number
<1>4. CASE p = "summary"
  BY <1>1, <1>4 DEF Values, Number
<1> QED
  BY <1>2, <1>3, <1>4 DEF Numbered

(* The numbers in view, on disk and in the journal are numbers.            *)
LEMMA StoredNumbers ==
  ASSUME StoredOK, NEW p \in Numbered
  PROVE  /\ p \in Paths
         /\ view[p].state = "whole" => Number(p, view[p].value) \in Nat
         /\ disk[p].state = "whole" => Number(p, disk[p].value) \in Nat
         /\ \A i \in DOMAIN journal :
              journal[i].job.path = p => Number(p, journal[i].job.value) \in Nat
<1>1. p \in Paths
  BY CommandsAssumption DEF Numbered
<1>2. \A i \in DOMAIN journal : journal[i] \in Entries
  BY ElementOfSeq, LenProperties DEF StoredOK
<1>3. \A i \in DOMAIN journal : journal[i].job.path = p => journal[i].job.value \in Values[p]
  BY <1>2, EntryFacts
<1> QED
  BY <1>1, <1>3, NumberFacts DEF StoredOK, FilesOK

(* A command that begins, or a step that stores nothing, leaves all this.  *)
LEMMA StoredUnchanged ==
  ASSUME Stored, UNCHANGED <<view, disk, journal>>,
         run \in Nat, run' \in Nat, run <= run'
  PROVE  Stored'
<1>1. StoredOK /\ StoredOK'
  BY DEF Stored, StoredOK, FilesOK
<1>2. PastRuns'
  <2> SUFFICES ASSUME NEW p \in Numbered
               PROVE /\ view[p].state = "whole" => Number(p, view[p].value) <= run'
                     /\ disk[p].state = "whole" => Number(p, disk[p].value) <= run'
                     /\ \A i \in DOMAIN journal :
                          journal[i].job.path = p => Number(p, journal[i].job.value) <= run'
    BY DEF PastRuns
  <2>1. /\ view[p].state = "whole" => Number(p, view[p].value) <= run
        /\ disk[p].state = "whole" => Number(p, disk[p].value) <= run
        /\ \A i \in DOMAIN journal :
             journal[i].job.path = p => Number(p, journal[i].job.value) <= run
    BY DEF Stored, PastRuns
  <2> QED
    BY <1>1, <2>1, StoredNumbers
<1>3. Rising' /\ SeenIsKept' /\ SummariesKept' /\ Backed(view)' /\ Backed(disk)'
  BY DEF Stored, Rising, SeenIsKept, SummariesKept, Backed, Kept, OnDisk, Promised
<1> QED
  BY <1>1, <1>2, <1>3 DEF Stored

(* A power failure: what was on disk is what there is.                     *)
LEMMA StoredAfterPowerFailure ==
  ASSUME Stored, view' = disk, journal' = <<>>, disk' = disk,
         run \in Nat, run' = run
  PROVE  Stored'
<1>1. DOMAIN journal' = {}
  OBVIOUS
<1>2. StoredOK'
  BY DEF Stored, StoredOK, FilesOK
<1>3. PastRuns'
  BY <1>1 DEF Stored, PastRuns
<1>4. Rising' /\ SummariesKept'
  BY <1>1 DEF Rising, SummariesKept
<1>5. SeenIsKept'
  <2> SUFFICES ASSUME NEW p \in Numbered, disk[p].state = "whole"
               PROVE  OnDisk(p, Number(p, disk[p].value))
    BY DEF SeenIsKept, Kept, OnDisk
  <2>1. Number(p, disk[p].value) \in Nat
    BY StoredNumbers DEF Stored
  <2> QED
    BY <2>1 DEF OnDisk
<1>6. Backed(view)' /\ Backed(disk)'
  BY DEF Stored, Backed
<1> QED
  BY <1>2, <1>3, <1>4, <1>5, <1>6 DEF Stored

(* Kept of a next state, of a number taken in either state. *)
KeptNext(p, n, k) ==
  \/ disk'[p].state = "whole" /\ Number(p, disk'[p].value) >= n
  \/ \E i \in DOMAIN journal' :
       i <= k /\ journal'[i].job.path = p /\ Number(p, journal'[i].job.value) >= n

(* SeenIsKept and SummariesKept of a next state, said with KeptNext.       *)
LEMMA KeptInNextState ==
  /\ (\A p \in Numbered :
        view'[p].state = "whole" => KeptNext(p, Number(p, view'[p].value), Len(journal')))
       => SeenIsKept'
  /\ (\A i \in DOMAIN journal' :
        journal'[i].job.path = "summary"
          => \A p \in {"state", "integrity"} :
               KeptNext(p, Number("summary", journal'[i].job.value), i - 1))
       => SummariesKept'
BY DEF SeenIsKept, SummariesKept, Kept, OnDisk, Promised, KeptNext

(* RenameTemp of a report of this run, of a summary only once the reports  *)
(* it rests on are in place.                                               *)
LEMMA StoredAfterRename ==
  ASSUME Stored, NEW p \in Paths, NEW v \in Values[p],
         p \in Numbered => Number(p, v) = run,
         p = "summary" => Current("state") /\ Current("integrity"),
         view' = [view EXCEPT ![p] = Whole(v)],
         journal' = Append(journal, [job |-> Job(p, v), synced |-> TRUE]),
         disk' = disk, run \in Nat, run' = run
  PROVE  Stored'
<1> DEFINE e == [job |-> Job(p, v), synced |-> TRUE]
           n == Len(journal)
<1>1. StoredOK /\ e \in Entries /\ n \in Nat
  BY EntryMade, LenProperties DEF Stored, StoredOK
<1>2. /\ DOMAIN journal = 1..n /\ DOMAIN journal' = 1..n + 1 /\ Len(journal') = n + 1
      /\ journal' \in Seq(Entries)
      /\ \A i \in 1..n : journal'[i] = journal[i]
      /\ journal'[n + 1] = e
  BY <1>1, AppendProperties DEF StoredOK
<1>3. e.job.path = p /\ e.job.value = v
  BY DEF Job
<1>4. \A q \in Paths : view'[q] = IF q = p THEN Whole(v) ELSE view[q]
  BY <1>1 DEF StoredOK, FilesOK
<1>5. Whole(v).state = "whole" /\ Whole(v).value = v
  BY DEF Whole
<1>6. StoredOK'
  <2>1. FilesOK(view)'
    BY <1>1, <1>4, <1>5 DEF StoredOK, FilesOK
  <2> QED
    BY <1>1, <1>2, <2>1 DEF StoredOK, FilesOK
<1>n. ASSUME NEW q \in Numbered
      PROVE  /\ q \in Paths
             /\ view[q].state = "whole" => Number(q, view[q].value) \in Nat
             /\ disk[q].state = "whole" => Number(q, disk[q].value) \in Nat
             /\ \A i \in 1..n : journal[i].job.path = q => Number(q, journal[i].job.value) \in Nat
  BY <1>1, <1>2, StoredNumbers
<1> HIDE DEF e, n
<1>7. PastRuns'
  <2> SUFFICES ASSUME NEW q \in Numbered
               PROVE /\ view'[q].state = "whole" => Number(q, view'[q].value) <= run
                     /\ disk[q].state = "whole" => Number(q, disk[q].value) <= run
                     /\ \A i \in DOMAIN journal' :
                          journal'[i].job.path = q => Number(q, journal'[i].job.value) <= run
    BY DEF PastRuns
  <2>1. /\ view[q].state = "whole" => Number(q, view[q].value) <= run
        /\ disk[q].state = "whole" => Number(q, disk[q].value) <= run
        /\ \A i \in 1..n :
             journal[i].job.path = q => Number(q, journal[i].job.value) <= run
    BY <1>2 DEF Stored, PastRuns
  <2>2. view'[q].state = "whole" => Number(q, view'[q].value) <= run
    BY <1>4, <1>5, <1>n, <2>1
  <2>3. \A i \in DOMAIN journal' :
           journal'[i].job.path = q => Number(q, journal'[i].job.value) <= run
    BY <1>1, <1>2, <1>3, <2>1
  <2> QED
    BY <2>1, <2>2, <2>3
<1>8. Rising'
  <2> SUFFICES ASSUME NEW q \in Numbered, NEW i \in DOMAIN journal', journal'[i].job.path = q
               PROVE /\ disk[q].state = "whole"
                          => Number(q, disk[q].value) <= Number(q, journal'[i].job.value)
                     /\ \A k \in DOMAIN journal' :
                          k < i /\ journal'[k].job.path = q
                            => Number(q, journal'[k].job.value) <= Number(q, journal'[i].job.value)
    BY DEF Rising
  <2>1. CASE i = n + 1
    <3>1. q = p /\ Number(q, journal'[i].job.value) = run
      BY <1>2, <1>3, <2>1
    <3> QED
      BY <1>1, <1>2, <2>1, <3>1 DEF Stored, PastRuns
  <2>2. CASE i \in 1..n
    <3>1. \A k \in DOMAIN journal' : k < i => k \in 1..n
      BY <1>1, <1>2, <2>2
    <3> QED
      BY <1>2, <2>2, <3>1 DEF Stored, Rising
  <2> QED
    BY <1>1, <1>2, <2>1, <2>2
<1>9. ASSUME NEW q, NEW m, NEW k \in 0..n, Kept(q, m, k)
      PROVE  /\ KeptNext(q, m, k)
             /\ KeptNext(q, m, n + 1)
  <2>1. CASE OnDisk(q, m)
    BY <2>1 DEF OnDisk, KeptNext
  <2>2. CASE Promised(q, m, k)
    <3>1. PICK i \in 1..n : i <= k /\ journal[i].job.path = q /\ Number(q, journal[i].job.value) >= m
      BY <1>2, <2>2 DEF Promised
    <3>2. i \in DOMAIN journal' /\ journal'[i] = journal[i] /\ i <= n + 1
      BY <1>1, <1>2, <3>1
    <3> QED
      BY <3>1, <3>2 DEF KeptNext
  <2> QED
    BY <1>9, <2>1, <2>2 DEF Kept
<1>10. SeenIsKept'
  <2> SUFFICES ASSUME NEW q \in Numbered, view'[q].state = "whole"
               PROVE  KeptNext(q, Number(q, view'[q].value), n + 1)
    BY <1>2, KeptInNextState
  <2>1. CASE q = p
    <3>1. Number(q, view'[q].value) = run
      BY <1>4, <1>5, <1>n, <2>1
    <3>2. n + 1 \in DOMAIN journal' /\ n + 1 <= n + 1
          /\ journal'[n + 1].job.path = q /\ Number(q, journal'[n + 1].job.value) >= run
      BY <1>1, <1>2, <1>3, <2>1
    <3> QED
      BY <3>1, <3>2 DEF KeptNext
  <2>2. CASE q # p
    <3>1. view'[q] = view[q]
      BY <1>4, <1>n, <2>2
    <3>2. Kept(q, Number(q, view[q].value), n)
      BY <3>1 DEF Stored, SeenIsKept, n
    <3>3. n \in 0..n
      BY <1>1
    <3> QED
      BY <1>9, <3>1, <3>2, <3>3
  <2> QED
    BY <2>1, <2>2
<1>11. SummariesKept'
  <2> SUFFICES ASSUME NEW i \in DOMAIN journal', journal'[i].job.path = "summary",
                      NEW q \in {"state", "integrity"}
               PROVE  KeptNext(q, Number("summary", journal'[i].job.value), i - 1)
    BY KeptInNextState
  <2>1. CASE i = n + 1
    <3>1. p = "summary" /\ Number("summary", journal'[i].job.value) = run /\ i - 1 = n
      BY <1>1, <1>2, <1>3, <2>1 DEF Numbered
    <3>2. Kept(q, run, n)
      BY <3>1 DEF Stored, SeenIsKept, Current, Numbered, n
    <3>3. n \in 0..n
      BY <1>1
    <3> QED
      BY <1>9, <3>1, <3>2, <3>3
  <2>2. CASE i \in 1..n
    <3>1. journal'[i] = journal[i] /\ i \in DOMAIN journal /\ i - 1 \in 0..n
      BY <1>1, <1>2, <2>2
    <3>2. Kept(q, Number("summary", journal[i].job.value), i - 1)
      BY <3>1 DEF Stored, SummariesKept
    <3> QED
      BY <1>9, <3>1, <3>2
  <2> QED
    BY <1>1, <1>2, <2>1, <2>2
<1>12. Backed(view)'
  <2>1. /\ "state" \in Paths /\ "integrity" \in Paths /\ "summary" \in Paths
        /\ "state" \in Numbered /\ "integrity" \in Numbered /\ "summary" \in Numbered
    BY <1>n DEF Numbered
  <2>2. CASE p = "summary"
    BY <1>4, <1>5, <2>1, <2>2 DEF Backed, Current
  <2>3. CASE p # "summary"
    <3> SUFFICES ASSUME view["summary"].state = "whole", NEW q \in {"state", "integrity"}
                 PROVE  /\ view'[q].state = "whole"
                        /\ Number(q, view'[q].value) >= Number("summary", view["summary"].value)
      BY <1>4, <2>1, <2>3 DEF Backed
    <3>1. CASE q = p
      <4>1. Number("summary", view["summary"].value) <= run
        BY <2>1 DEF Stored, PastRuns
      <4>2. view'[q] = Whole(v) /\ Number(q, v) = run
        BY <1>4, <2>1, <3>1
      <4> QED
        BY <1>5, <1>n, <2>1, <4>1, <4>2
    <3>2. CASE q # p
      BY <1>4, <2>1, <3>2 DEF Stored, Backed
    <3> QED
      BY <3>1, <3>2
  <2> QED
    BY <2>2, <2>3
<1>13. Backed(disk)'
  BY DEF Stored, Backed
<1> QED
  BY <1>6, <1>7, <1>8, <1>10, <1>11, <1>12, <1>13 DEF Stored

(* Commit of the oldest rename: it was synced, so the disk then holds the  *)
(* whole report; the others move up.                                       *)
LEMMA StoredAfterCommit ==
  ASSUME Stored, Commit, run \in Nat, run' = run
  PROVE  Stored'
<1> DEFINE r == Head(journal)
           n == Len(journal)
           p == r.job.path
           v == r.job.value
<1>1. StoredOK /\ journal # <<>> /\ n \in Nat /\ n >= 1
  BY LenProperties, EmptySeq DEF Stored, StoredOK, Commit
<1>2. /\ DOMAIN journal = 1..n /\ DOMAIN journal' = 1..n - 1 /\ Len(journal') = n - 1
      /\ journal' \in Seq(Entries) /\ 1 \in DOMAIN journal
      /\ \A i \in 1..n - 1 : journal'[i] = journal[i + 1] /\ i + 1 \in DOMAIN journal
      /\ r = journal[1] /\ r \in Entries
  <2>1. journal \in Seq(Entries) /\ journal' = Tail(journal)
    BY <1>1 DEF StoredOK, Commit
  <2>2. r = journal[1]
    BY <1>1, <2>1 DEF r
  <2> QED
    BY <1>1, <2>1, <2>2, HeadTailProperties, LenProperties
<1>3. p \in Paths /\ v \in Values[p] /\ r.synced = TRUE
  BY <1>2, EntryFacts
<1>4. view' = view /\ disk' = [disk EXCEPT ![p] = Whole(v)]
  BY <1>3 DEF Commit
<1>5. \A q \in Paths : disk'[q] = IF q = p THEN Whole(v) ELSE disk[q]
  BY <1>1, <1>4 DEF StoredOK, FilesOK
<1>6. Whole(v).state = "whole" /\ Whole(v).value = v
  BY DEF Whole
<1>7. StoredOK'
  <2>1. FilesOK(disk)'
    BY <1>1, <1>3, <1>4, <1>5, <1>6 DEF StoredOK, FilesOK
  <2> QED
    BY <1>1, <1>2, <1>4, <2>1 DEF StoredOK, FilesOK
<1>n. ASSUME NEW q \in Numbered
      PROVE  /\ q \in Paths
             /\ view[q].state = "whole" => Number(q, view[q].value) \in Nat
             /\ disk[q].state = "whole" => Number(q, disk[q].value) \in Nat
             /\ \A i \in DOMAIN journal : journal[i].job.path = q => Number(q, journal[i].job.value) \in Nat
  BY <1>1, StoredNumbers
<1>v. v = journal[1].job.value /\ p = journal[1].job.path
  BY <1>2
<1> HIDE DEF r, p, v, n
<1>8. PastRuns'
  <2> SUFFICES ASSUME NEW q \in Numbered
               PROVE /\ view[q].state = "whole" => Number(q, view[q].value) <= run
                     /\ disk'[q].state = "whole" => Number(q, disk'[q].value) <= run
                     /\ \A i \in DOMAIN journal' :
                          journal'[i].job.path = q => Number(q, journal'[i].job.value) <= run
    BY <1>4 DEF PastRuns
  <2>1. /\ view[q].state = "whole" => Number(q, view[q].value) <= run
        /\ disk[q].state = "whole" => Number(q, disk[q].value) <= run
        /\ \A i \in DOMAIN journal :
             journal[i].job.path = q => Number(q, journal[i].job.value) <= run
    BY DEF Stored, PastRuns
  <2>2. disk'[q].state = "whole" => Number(q, disk'[q].value) <= run
    BY <1>2, <1>5, <1>6, <1>n, <1>v, <2>1
  <2>3. \A i \in DOMAIN journal' :
           journal'[i].job.path = q => Number(q, journal'[i].job.value) <= run
    BY <1>2, <2>1
  <2> QED
    BY <2>1, <2>2, <2>3
<1>9. ASSUME NEW q \in Numbered, q = p, disk[q].state = "whole"
      PROVE  Number(q, disk[q].value) <= Number(q, v)
  BY <1>2, <1>9, <1>v DEF Stored, Rising
<1>10. Rising'
  <2> SUFFICES ASSUME NEW q \in Numbered, NEW i \in DOMAIN journal', journal'[i].job.path = q
               PROVE /\ disk'[q].state = "whole"
                          => Number(q, disk'[q].value) <= Number(q, journal'[i].job.value)
                     /\ \A k \in DOMAIN journal' :
                          k < i /\ journal'[k].job.path = q
                            => Number(q, journal'[k].job.value) <= Number(q, journal'[i].job.value)
    BY DEF Rising
  <2>1. /\ i + 1 \in DOMAIN journal /\ journal'[i] = journal[i + 1] /\ 1 < i + 1
        /\ \A k \in DOMAIN journal' :
             k < i => k + 1 < i + 1 /\ k + 1 \in DOMAIN journal /\ journal'[k] = journal[k + 1]
    BY <1>1, <1>2
  <2>2. /\ disk[q].state = "whole"
             => Number(q, disk[q].value) <= Number(q, journal[i + 1].job.value)
        /\ \A k \in DOMAIN journal :
             k < i + 1 /\ journal[k].job.path = q
               => Number(q, journal[k].job.value) <= Number(q, journal[i + 1].job.value)
    BY <2>1 DEF Stored, Rising
  <2>3. disk'[q].state = "whole"
          => Number(q, disk'[q].value) <= Number(q, journal'[i].job.value)
    BY <1>2, <1>5, <1>6, <1>n, <1>v, <2>1, <2>2
  <2> QED
    BY <2>1, <2>2, <2>3
<1>11. ASSUME NEW q \in Numbered, NEW m \in Int, OnDisk(q, m)
       PROVE  disk'[q].state = "whole" /\ Number(q, disk'[q].value) >= m
  <2>1. CASE q = p
    <3>1. Number(q, disk[q].value) <= Number(q, v) /\ Number(q, disk[q].value) >= m
      BY <1>9, <1>11, <2>1 DEF OnDisk
    <3>2. Number(q, v) \in Nat /\ Number(q, disk[q].value) \in Nat
      BY <1>2, <1>11, <1>n, <1>v, <2>1 DEF OnDisk
    <3> QED
      BY <1>5, <1>6, <1>n, <2>1, <3>1, <3>2
  <2>2. CASE q # p
    BY <1>5, <1>11, <1>n, <2>2 DEF OnDisk
  <2> QED
    BY <2>1, <2>2
<1>12. ASSUME NEW q \in Numbered, NEW m \in Int, NEW k \in 0..n, Kept(q, m, k)
       PROVE  KeptNext(q, m, k - 1)
  <2>1. CASE OnDisk(q, m)
    BY <1>11, <2>1 DEF KeptNext
  <2>2. CASE Promised(q, m, k)
    <3>1. PICK i \in DOMAIN journal : i <= k /\ journal[i].job.path = q
                                      /\ Number(q, journal[i].job.value) >= m
      BY <2>2 DEF Promised
    <3>2. CASE i = 1
      BY <1>5, <1>6, <1>n, <1>v, <3>1, <3>2 DEF KeptNext
    <3>3. CASE i # 1
      <4>1. i - 1 \in DOMAIN journal' /\ journal'[i - 1] = journal[i] /\ i - 1 <= k - 1
        BY <1>1, <1>2, <3>1, <3>3
      <4> QED
        BY <3>1, <4>1 DEF KeptNext
    <3> QED
      BY <3>2, <3>3
  <2> QED
    BY <1>12, <2>1, <2>2 DEF Kept
<1>13. SeenIsKept'
  <2> SUFFICES ASSUME NEW q \in Numbered, view[q].state = "whole"
               PROVE  KeptNext(q, Number(q, view[q].value), n - 1)
    BY <1>2, <1>4, KeptInNextState
  <2>1. Kept(q, Number(q, view[q].value), n)
    BY DEF Stored, SeenIsKept, n
  <2>2. n \in 0..n /\ Number(q, view[q].value) \in Int
    BY <1>1, <1>n
  <2> QED
    BY <1>12, <2>1, <2>2
<1>14. SummariesKept'
  <2> SUFFICES ASSUME NEW i \in DOMAIN journal', journal'[i].job.path = "summary",
                      NEW q \in {"state", "integrity"}
               PROVE  KeptNext(q, Number("summary", journal'[i].job.value), i - 1)
    BY KeptInNextState
  <2>1. journal'[i] = journal[i + 1] /\ i + 1 \in DOMAIN journal /\ i \in 0..n /\ (i + 1) - 1 = i
    BY <1>1, <1>2
  <2>2. Kept(q, Number("summary", journal[i + 1].job.value), i)
    BY <2>1 DEF Stored, SummariesKept
  <2>3. q \in Numbered /\ Number("summary", journal[i + 1].job.value) \in Int
    BY <1>n, <2>1 DEF Numbered
  <2> QED
    BY <1>12, <2>1, <2>2, <2>3
<1>15. Backed(view)'
  BY <1>4 DEF Stored, Backed
<1>16. Backed(disk)'
  <2>1. /\ "state" \in Paths /\ "integrity" \in Paths /\ "summary" \in Paths
        /\ "state" \in Numbered /\ "integrity" \in Numbered /\ "summary" \in Numbered
    BY <1>n DEF Numbered
  <2>2. CASE p = "summary"
    <3>1. Number("summary", v) \in Nat /\ disk'["summary"] = Whole(v)
      BY <1>2, <1>5, <1>n, <1>v, <2>1, <2>2
    <3>2. ASSUME NEW q \in {"state", "integrity"}
          PROVE  OnDisk(q, Number("summary", v))
      <4>1. Kept(q, Number("summary", v), 0)
        <5>1. Kept(q, Number("summary", journal[1].job.value), 1 - 1)
          BY <1>2, <1>v, <2>2 DEF Stored, SummariesKept
        <5> QED
          BY <1>v, <5>1
      <4>2. ~Promised(q, Number("summary", v), 0)
        BY <1>1, <1>2 DEF Promised
      <4> QED
        BY <4>1, <4>2 DEF Kept
    <3>3. ASSUME NEW q \in {"state", "integrity"}
          PROVE  disk'[q].state = "whole" /\ Number(q, disk'[q].value) >= Number("summary", v)
      BY <1>11, <2>1, <3>1, <3>2
    <3> QED
      BY <1>6, <3>1, <3>3 DEF Backed
  <2>3. CASE p # "summary"
    <3> SUFFICES ASSUME disk["summary"].state = "whole", NEW q \in {"state", "integrity"}
                 PROVE  /\ disk'[q].state = "whole"
                        /\ Number(q, disk'[q].value) >= Number("summary", disk["summary"].value)
      BY <1>5, <2>1, <2>3 DEF Backed
    <3>1. OnDisk(q, Number("summary", disk["summary"].value))
      BY DEF Stored, Backed, OnDisk
    <3>2. Number("summary", disk["summary"].value) \in Int
      BY <1>n, <2>1
    <3> QED
      BY <1>11, <2>1, <3>1, <3>2
  <2> QED
    BY <2>2, <2>3
<1> QED
  BY <1>7, <1>8, <1>10, <1>13, <1>14, <1>15, <1>16 DEF Stored

-----------------------------------------------------------------------------
(* Nothing is stored before the first command.                             *)
LEMMA InitEstablishes == Init => IndInv
<1> SUFFICES ASSUME Init PROVE IndInv
  OBVIOUS
<1>1. /\ view = [p \in Paths |-> Absent] /\ disk = view /\ journal = <<>>
      /\ step = "idle" /\ temp = "none" /\ pc = "shell" /\ run = 0 /\ got = 0
      /\ order = <<>> /\ reports = <<>> /\ status = -1 /\ accidents = 0
  BY DEF Init, FileInit
<1>2. \A p \in Paths : view[p].state = "absent" /\ disk[p].state = "absent"
  BY <1>1 DEF Absent
<1>3. Numbered \subseteq Paths /\ DOMAIN journal = {}
  BY <1>1, CommandsAssumption DEF Numbered
<1>4. StoredOK
  BY <1>1, <1>2 DEF StoredOK, FilesOK
<1>5. PastRuns /\ Rising /\ SeenIsKept /\ SummariesKept
  BY <1>2, <1>3 DEF PastRuns, Rising, SeenIsKept, SummariesKept
<1>6. Backed(view) /\ Backed(disk)
  BY <1>2, <1>3 DEF Backed, Numbered
<1>7. Doing
  BY <1>1 DEF Doing, ControlOK, WriteUnderWay, RunSoFar, SweepSoFar, StatusTold, Writing
<1> QED
  BY <1>4, <1>5, <1>6, <1>7 DEF IndInv, Stored

(* What RenameTemp renames is a report of this run, and a summary comes    *)
(* after the reports it rests on.                                          *)
LEMMA RenamedReport ==
  ASSUME Doing, step = "rename"
  PROVE  /\ job.path \in Paths /\ job.value \in Values[job.path]
         /\ job = Job(job.path, job.value)
         /\ job.path \in Numbered => Number(job.path, job.value) = run
         /\ job.path = "summary" => Current("state") /\ Current("integrity")
<1>1. pc \in Writing /\ run \in Nat
  BY DEF Doing, WriteUnderWay, ControlOK
<1>2. CASE pc = "ending"
  <2>1. job = Job("state", run)
    BY <1>2 DEF Doing, WriteUnderWay
  <2> QED
    BY <1>1, <2>1, CommandsAssumption DEF Job, Values, Number
<1>3. CASE pc = "integrity"
  <2>1. job = Job("integrity", <<run, run>>)
    BY <1>3 DEF Doing, WriteUnderWay
  <2> QED
    BY <1>1, <2>1, CommandsAssumption DEF Job, Values, Number
<1>4. CASE pc = "summary"
  <2>1. job = Job("summary", <<run, run>>)
    BY <1>4 DEF Doing, WriteUnderWay
  <2>2. Current("state") /\ Current("integrity")
    BY <1>4 DEF Doing, RunSoFar
  <2> QED
    BY <1>1, <2>1, <2>2, CommandsAssumption DEF Job, Values, Number
<1>5. CASE pc \in {"output", "abandoned"}
  <2>1. job = Job("output", job.value) /\ job.value \in Values.output
    BY <1>5 DEF Doing, WriteUnderWay
  <2>2. job.path = "output" /\ "output" \notin Numbered
    BY <2>1 DEF Job, Numbered
  <2>3. Values.output = Values["output"]
    BY DEF Values
  <2> QED
    BY <2>1, <2>2, <2>3, CommandsAssumption
<1> QED
  BY <1>1, <1>2, <1>3, <1>4, <1>5 DEF Writing

(* Most steps store nothing.                                               *)
LEMMA StoresNothing ==
  ASSUME [Next]_vars
  PROVE  \/ UNCHANGED <<view, disk, journal>> /\ (run' = run \/ run' = run + 1)
         \/ RenameTemp /\ UNCHANGED commandVars
         \/ Commit /\ UNCHANGED commandVars
         \/ PowerFails /\ run' = run
<1> USE DEF fileVars, commandVars, BeginWrite, Returned, Goto, Exit
<1>1. CASE UNCHANGED vars
  BY <1>1 DEF vars
<1>2. CASE StartRun \/ StartSweep
  BY <1>2 DEF StartRun, StartSweep
<1>3. CASE WriterEnds \/ WriterExits \/ ChildFails
  BY <1>3 DEF WriterEnds, WriterExits, ChildFails
<1>4. CASE ReadState \/ ReadFails \/ WriteIntegrity \/ IntegrityWritten
  BY <1>4 DEF ReadState, ReadFails, WriteIntegrity, IntegrityWritten
<1>5. CASE WriteSummary \/ RunEnds \/ ReportFails
  BY <1>5 DEF WriteSummary, RunEnds, ReportFails
<1>6. CASE SearchReturns \/ SearchFails \/ WriteSweep \/ SweepEnds
  BY <1>6 DEF SearchReturns, SearchFails, WriteSweep, SweepEnds
<1>7. CASE FileNext /\ UNCHANGED commandVars
  BY <1>7 DEF FileNext, Encode, Sync, WriteFails
<1>8. CASE Interrupt
  BY <1>8 DEF Interrupt, Killed
<1>9. CASE Idle
  BY <1>9 DEF Idle, vars
<1> QED
  BY <1>1, <1>2, <1>3, <1>4, <1>5, <1>6, <1>7, <1>8, <1>9 DEF Next

(* The stored half is kept by every step.                                  *)
LEMMA StoredPreserved ==
  ASSUME IndInv, [Next]_vars
  PROVE  Stored'
<1>1. Stored /\ Doing /\ run \in Nat
  BY DEF IndInv, Doing, ControlOK
<1>2. CASE UNCHANGED <<view, disk, journal>> /\ (run' = run \/ run' = run + 1)
  <2>1. run' \in Nat /\ run <= run'
    BY <1>1, <1>2
  <2> QED
    BY <1>1, <1>2, <2>1, StoredUnchanged
<1>3. CASE RenameTemp /\ UNCHANGED commandVars
  <2>1. step = "rename" /\ temp = "synced" /\ run' = run /\ disk' = disk
    BY <1>1, <1>3 DEF RenameTemp, Doing, WriteUnderWay, commandVars
  <2>2. /\ job.path \in Paths /\ job.value \in Values[job.path]
        /\ job = Job(job.path, job.value)
        /\ job.path \in Numbered => Number(job.path, job.value) = run
        /\ job.path = "summary" => Current("state") /\ Current("integrity")
    BY <1>1, <2>1, RenamedReport
  <2>3. /\ view' = [view EXCEPT ![job.path] = Whole(job.value)]
        /\ journal' = Append(journal, [job |-> Job(job.path, job.value), synced |-> TRUE])
    BY <1>3, <2>1, <2>2 DEF RenameTemp
  <2> QED
    BY <1>1, <2>1, <2>2, <2>3, StoredAfterRename
<1>4. CASE Commit /\ UNCHANGED commandVars
  BY <1>1, <1>4, StoredAfterCommit DEF commandVars
<1>5. CASE PowerFails /\ run' = run
  BY <1>1, <1>5, StoredAfterPowerFailure DEF PowerFails
<1> QED
  BY <1>2, <1>3, <1>4, <1>5, StoresNothing

-----------------------------------------------------------------------------
(* The reports with one more: no delta is resolved in them yet.            *)
LEMMA AppendedReports ==
  ASSUME ControlOK, SweepSoFar, NEW r \in SweepReport, ~r.deltaResolved
  PROVE  /\ Append(reports, r) \in Values.output
         /\ \A i \in DOMAIN Append(reports, r) : i \in DOMAIN reports \/ i = Len(reports) + 1
         /\ \A i \in DOMAIN reports : Append(reports, r)[i] = reports[i]
         /\ Append(reports, r)[Len(reports) + 1] = r
         /\ Append(reports, r) # <<>>
<1> DEFINE o == Append(reports, r)
           n == Len(reports)
<1>0. reports \in Seq(SweepReport)
  BY DEF ControlOK
<1>1. /\ o \in Seq(SweepReport) /\ DOMAIN o = 1..n + 1 /\ DOMAIN reports = 1..n /\ n \in Nat
      /\ \A i \in 1..n : o[i] = reports[i]
      /\ o[n + 1] = r /\ Len(o) = n + 1
  BY <1>0, AppendProperties, LenProperties
<1>2. \A i \in DOMAIN o : ~o[i].deltaResolved
  BY <1>1 DEF SweepSoFar
<1>3. o # <<>>
  BY <1>1
<1>4. o \in Values.output
  <2> HIDE DEF o
  <2> QED
    BY <1>1, <1>2 DEF Values, TrueDeltas, TrueDelta
<1>5. \A i \in 1..n + 1 : i \in 1..n \/ i = n + 1
  BY <1>1
<1> QED
  BY <1>1, <1>3, <1>4, <1>5

(* The delta between two minima errs as the minima do.                     *)
LEMMA DeltaErrs ==
  ASSUME NEW r \in SweepReport, NEW b \in SweepReport, ErrsHigh(r), ErrsHigh(b),
         r.resolved, b.resolved
  PROVE  /\ r.minimum - b.minimum > r.need - b.need => r.disturbed
         /\ r.minimum - b.minimum < r.need - b.need => b.disturbed
<1>1. PICK m \in Int, k \in Int, l \in Int, j \in Int :
        m = r.minimum /\ k = r.need /\ l = b.minimum /\ j = b.need
  BY DEF SweepReport
<1>2. k <= m /\ (m # k => r.disturbed) /\ j <= l /\ (l # j => b.disturbed)
  BY <1>1 DEF ErrsHigh
<1> QED
  BY <1>1, <1>2

(* What WriteSweep writes: a delta is resolved only between two resolved   *)
(* minima, and it errs as they do.                                         *)
LEMMA ComparedOutput ==
  ASSUME ControlOK, SweepSoFar, reports # <<>>
  PROVE  Compared \in Values.output
<1> DEFINE n == Len(reports)
           b == reports[1]
<1>1. /\ n \in Nat /\ n >= 1 /\ DOMAIN reports = 1..n
      /\ \A i \in 1..n : reports[i] \in SweepReport
  BY EmptySeq, LenProperties, ElementOfSeq DEF ControlOK
<1>2. b \in SweepReport /\ 1 \in 1..n
  BY <1>1
<1>3. DOMAIN Compared = 1..n /\ Compared = [i \in 1..n |-> Compared[i]]
  BY <1>1 DEF Compared
<1>4. ASSUME NEW i \in 1..n
      PROVE  /\ Compared[i] \in SweepReport
             /\ TrueDelta(Compared[i], b)
             /\ i = 1 => Compared[i] = b
  <2>1. reports[i] \in SweepReport /\ ~reports[i].deltaResolved /\ ErrsHigh(reports[i])
        /\ ErrsHigh(b)
    BY <1>1, <1>2 DEF SweepSoFar
  <2>2. CASE b.strategy = "baseline" /\ i > 1
    <3>1. Compared[i] = Delta(reports[i], b)
      BY <1>1, <2>2 DEF Compared
    <3>2. CASE b.resolved /\ reports[i].resolved
      <4>1. PICK r \in SweepReport : r = reports[i]
        BY <2>1
      <4>2. PICK d \in Int, m \in Int : d = r.minimum - b.minimum /\ m = b.minimum
        BY <1>2, <4>1 DEF SweepReport
      <4>3. Compared[i] = [r EXCEPT !.baseline = m, !.delta = d, !.deltaResolved = TRUE]
        BY <3>1, <3>2, <4>1, <4>2 DEF Delta
      <4>4. /\ d > r.need - b.need => r.disturbed
            /\ d < r.need - b.need => b.disturbed
        BY <1>2, <2>1, <3>2, <4>1, <4>2, DeltaErrs
      <4>5. /\ Compared[i] \in SweepReport
            /\ Compared[i].need = r.need /\ Compared[i].disturbed = r.disturbed
            /\ Compared[i].minimum = r.minimum /\ Compared[i].resolved = r.resolved
            /\ Compared[i].delta = d
        BY <4>3 DEF SweepReport
      <4>6. TrueDelta(Compared[i], b)
        BY <2>2, <3>2, <4>1, <4>2, <4>4, <4>5 DEF TrueDelta
      <4> QED
        BY <2>2, <4>5, <4>6
    <3>3. CASE ~(b.resolved /\ reports[i].resolved)
      <4>1. Compared[i] = [reports[i] EXCEPT !.baseline = b.minimum]
        BY <3>1, <3>3 DEF Delta
      <4>2. Compared[i] \in SweepReport /\ ~Compared[i].deltaResolved
        BY <1>2, <2>1, <4>1 DEF SweepReport
      <4> QED
        BY <2>2, <4>2 DEF TrueDelta
    <3> QED
      BY <3>2, <3>3
  <2>3. CASE ~(b.strategy = "baseline" /\ i > 1)
    <3>1. Compared[i] = reports[i]
      BY <1>1, <2>3 DEF Compared
    <3> QED
      BY <2>1, <3>1 DEF TrueDelta
  <2> QED
    BY <2>2, <2>3
<1>5. Compared \in Seq(SweepReport)
  BY <1>1, <1>3, <1>4, SeqDef
<1>6. TrueDeltas(Compared)
  BY <1>2, <1>3, <1>4 DEF TrueDeltas
<1> QED
  BY <1>5, <1>6 DEF Values

-----------------------------------------------------------------------------
(* The command is told of no report but its own: starting a command and    *)
(* each of its steps keep the second half.  First the steps of a run,      *)
LEMMA RunKeepsDoing ==
  ASSUME IndInv,
         StartRun \/ WriterEnds \/ WriterExits \/ ChildFails \/ ReadState \/ ReadFails
           \/ WriteIntegrity \/ IntegrityWritten \/ WriteSummary \/ RunEnds
  PROVE  Doing'
<1>0. Stored /\ ControlOK /\ WriteUnderWay /\ RunSoFar /\ SweepSoFar /\ StatusTold
  BY DEF IndInv, Doing
<1> USE <1>0 DEF fileVars, BeginWrite, Returned, Goto, Exit, Job, Writing
<1> USE DEF Doing, ControlOK, WriteUnderWay, RunSoFar, SweepSoFar, StatusTold
<1>1. CASE StartRun
  BY <1>1 DEF StartRun
<1>2. CASE WriterEnds
  BY <1>2 DEF WriterEnds
<1>3. CASE WriterExits
  BY <1>3 DEF WriterExits, Current
<1>4. CASE ChildFails
  BY <1>4 DEF ChildFails
<1>5. CASE ReadState
  BY <1>5 DEF ReadState, Current, Number
<1>6. CASE ReadFails
  BY <1>6 DEF ReadFails
<1>7. CASE WriteIntegrity
  BY <1>7 DEF WriteIntegrity, Current
<1>8. CASE IntegrityWritten
  BY <1>8 DEF IntegrityWritten, Current
<1>9. CASE WriteSummary
  BY <1>9 DEF WriteSummary, Current
<1>10. CASE RunEnds
  BY <1>10 DEF RunEnds, Current
<1> QED
  BY <1>1, <1>2, <1>3, <1>4, <1>5, <1>6, <1>7, <1>8, <1>9, <1>10

(* those of a sweep and a report that cannot be written,                   *)
LEMMA SweepKeepsDoing ==
  ASSUME IndInv,
         StartSweep \/ SearchReturns \/ SearchFails \/ WriteSweep \/ SweepEnds \/ ReportFails
  PROVE  Doing'
<1>0. Stored /\ ControlOK /\ WriteUnderWay /\ RunSoFar /\ SweepSoFar /\ StatusTold
  BY DEF IndInv, Doing
<1> DEFINE Names == {Strategies[i] : i \in 1..3}
<1>n. order \in Seq(Names) /\ (order # <<>> => Head(order) \in Names /\ Tail(order) \in Seq(Names))
  BY <1>0, HeadTailProperties DEF ControlOK
<1>b. Lower \in Int /\ Upper \in Int /\ Needs \subseteq Int
  BY CommandsAssumption
<1> HIDE DEF Names
<1> USE DEF fileVars, BeginWrite, Returned, Goto, Exit, Job, Writing
<1>1. CASE StartSweep
  <2>1. \A i \in 1..3 : <<Strategies[i]>> \in Seq(Names) /\ <<Strategies[i]>> # <<>>
    BY DEF Names
  <2>2. Strategies \in Seq(Names) /\ Strategies # <<>>
    BY DEF Names, Strategies
  <2>3. order' \in Seq(Names) /\ order' # <<>>
    BY <1>1, <2>1, <2>2 DEF StartSweep
  <2> QED
    BY <1>0, <1>1, <2>3 DEF StartSweep, Names, Doing, ControlOK, WriteUnderWay, RunSoFar,
                            SweepSoFar, StatusTold
<1>2. CASE SearchReturns
  <2>1. PICK r \in SweepReport :
          reports' = Append(reports, r) /\ ~r.deltaResolved /\ ErrsHigh(r)
    <3>1. Head(order) \in Names
      BY <1>2, <1>n DEF SearchReturns
    <3>2. PICK need \in Needs, disturbed \in BOOLEAN :
             \E minimum \in Minima(need, disturbed) :
               reports' = Append(reports, Report(Head(order), need, disturbed, minimum,
                                                 minimum > Lower))
      BY <1>2 DEF SearchReturns
    <3>3. PICK minimum \in Minima(need, disturbed) :
            reports' = Append(reports, Report(Head(order), need, disturbed, minimum,
                                              minimum > Lower))
      BY <3>2
    <3>4. /\ need \in Int /\ minimum \in Int
          /\ minimum > Lower => need <= minimum /\ (minimum # need => disturbed)
      BY <1>b, <3>3 DEF Minima
    <3> DEFINE r == Report(Head(order), need, disturbed, minimum, minimum > Lower)
    <3>5. r \in SweepReport /\ ~r.deltaResolved
      BY <3>1, <3>4 DEF Names, Report, SweepReport
    <3>6. ErrsHigh(r)
      BY <3>4 DEF Report, ErrsHigh
    <3> HIDE DEF r
    <3> QED
      BY <3>3, <3>5, <3>6 DEF r
  <2>2. reports' \in Seq(SweepReport) /\ reports' # <<>>
    BY <1>0, <2>1, AppendedReports DEF Values
  <2>3. SweepSoFar'
    <3>1. \A i \in DOMAIN reports' : /\ ~reports'[i].deltaResolved
                                     /\ ErrsHigh(reports'[i])
      BY <1>0, <2>1, AppendedReports DEF SweepSoFar
    <3> QED
      BY <2>2, <3>1 DEF SweepSoFar
  <2>4. order' \in Seq(Names)
    BY <1>2, <1>n DEF SearchReturns
  <2> QED
    BY <1>0, <1>2, <2>2, <2>3, <2>4 DEF SearchReturns, Names, Doing, ControlOK, WriteUnderWay,
                                        RunSoFar, StatusTold
<1>3. CASE SearchFails
  <2>1. Append(reports, Report(Head(order), 0, TRUE, 0, FALSE)) \in Values.output
    <3>1. Head(order) \in Names
      BY <1>3, <1>n DEF SearchFails
    <3>2. /\ Report(Head(order), 0, TRUE, 0, FALSE) \in SweepReport
          /\ ~Report(Head(order), 0, TRUE, 0, FALSE).deltaResolved
      BY <1>b, <3>1 DEF Names, Report, SweepReport
    <3> QED
      BY <1>0, <3>2, AppendedReports
  <2> DEFINE o == Append(reports, Report(Head(order), 0, TRUE, 0, FALSE))
  <2>2. /\ step = "idle" /\ step' = "encode" /\ temp' = "partial" /\ pc = "search" /\ pc' = "abandoned"
        /\ job' = Job("output", o) /\ o \in Values.output
        /\ UNCHANGED <<view, run, got, order, reports, status, accidents>>
    BY <1>3, <2>1 DEF SearchFails
  <2> HIDE DEF o
  <2> QED
    BY <1>0, <2>2 DEF Doing, ControlOK, WriteUnderWay, RunSoFar, SweepSoFar,
                            StatusTold
<1>4. CASE WriteSweep
  <2>1. reports # <<>>
    BY <1>0, <1>4 DEF WriteSweep, SweepSoFar
  <2>2. Compared \in Values.output
    BY <1>0, <2>1, ComparedOutput
  <2> QED
    BY <1>0, <1>4, <2>1, <2>2 DEF WriteSweep, Doing, ControlOK, WriteUnderWay, RunSoFar,
                                  SweepSoFar, StatusTold
<1>5. CASE SweepEnds
  BY <1>0, <1>5 DEF SweepEnds, Doing, ControlOK, WriteUnderWay, RunSoFar, SweepSoFar, StatusTold
<1>6. CASE ReportFails
  BY <1>0, <1>6 DEF ReportFails, Doing, ControlOK, WriteUnderWay, RunSoFar, SweepSoFar, StatusTold
<1> QED
  BY <1>1, <1>2, <1>3, <1>4, <1>5, <1>6

(* and the steps of a write, of the file system, and what cuts them short. *)
LEMMA FilesKeepDoing ==
  ASSUME IndInv, (FileNext /\ UNCHANGED commandVars) \/ Interrupt \/ UNCHANGED vars
  PROVE  Doing'
<1>0. Stored /\ ControlOK /\ WriteUnderWay /\ RunSoFar /\ SweepSoFar /\ StatusTold
  BY DEF IndInv, Doing
<1> USE <1>0 DEF Writing, commandVars
<1>1. CASE (Encode \/ Sync \/ WriteFails \/ Commit) /\ UNCHANGED commandVars
  BY <1>1 DEF Encode, Sync, WriteFails, Commit, Current, Doing, ControlOK, WriteUnderWay,
              RunSoFar, SweepSoFar, StatusTold
<1>2. CASE RenameTemp /\ UNCHANGED commandVars
  <2>1. /\ job.path \in Paths /\ job.value \in Values[job.path]
        /\ job.path \in Numbered => Number(job.path, job.value) = run
    BY <1>2, RenamedReport DEF RenameTemp, Doing
  <2>2. /\ Numbered \subseteq Paths
        /\ \A q \in Paths : view'[q] = IF q = job.path THEN Whole(job.value) ELSE view[q]
    BY <1>2, CommandsAssumption DEF RenameTemp, Stored, StoredOK, FilesOK, Numbered
  <2>3. \A q \in Numbered : Current(q) \/ q = job.path => Current(q)'
    BY <1>2, <2>1, <2>2 DEF Current, Whole
  <2>4. /\ pc = "ending" => Current("state")'
        /\ pc = "integrity" => Current("integrity")'
        /\ pc = "summary" => Current("summary")'
    BY <2>3 DEF WriteUnderWay, Job, Numbered
  <2>5. \A q \in {"state", "integrity", "summary"} : Current(q) => Current(q)'
    BY <2>3 DEF Numbered
  <2>6. RunSoFar'
    BY <1>2, <2>4, <2>5 DEF RenameTemp, RunSoFar
  <2>7. StatusTold'
    BY <1>2, <2>5 DEF StatusTold
  <2> QED
    BY <1>2, <2>6, <2>7 DEF RenameTemp, Doing, ControlOK, WriteUnderWay, SweepSoFar
<1>3. CASE Interrupt
  BY <1>3 DEF Interrupt, Killed, PowerFails, Doing, ControlOK, WriteUnderWay, RunSoFar,
              SweepSoFar, StatusTold
<1>4. CASE UNCHANGED vars
  BY <1>4 DEF vars, fileVars, Current, Doing, ControlOK, WriteUnderWay, RunSoFar, SweepSoFar,
              StatusTold
<1> QED
  BY <1>1, <1>2, <1>3, <1>4 DEF FileNext

(* Both halves together are inductive.                                     *)
LEMMA NextPreserves == IndInv /\ [Next]_vars => IndInv'
<1> SUFFICES ASSUME IndInv, [Next]_vars PROVE IndInv'
  OBVIOUS
<1>1. Stored'
  BY StoredPreserved
<1>2. Doing'
  BY RunKeepsDoing, SweepKeepsDoing, FilesKeepDoing DEF Next, Idle
<1> QED
  BY <1>1, <1>2 DEF IndInv

(* In every behaviour the reports that are stored, seen and promised, and  *)
(* what the command has done, are as the invariant says.                   *)
THEOREM Inductive == Spec => []IndInv
BY InitEstablishes, NextPreserves, PTL DEF Spec

-----------------------------------------------------------------------------
(* No report is torn, for any number of commands, kills and power          *)
(* failures: WriteJSONAtomic syncs before it renames.                      *)
THEOREM ReportsAreWhole == Spec => []ReportsWhole
<1>1. IndInv => ReportsWhole
  BY DEF IndInv, Stored, StoredOK, FilesOK, ReportsWhole
<1> QED
  BY <1>1, Inductive, PTL

(* A summary in the directory, or on its disk, rests on the integrity      *)
(* report and the writer state of its own run or of later ones.            *)
THEOREM SummaryIsBacked == Spec => []SummaryBacked
<1>1. ASSUME IndInv PROVE SummaryBacked
  <2> SUFFICES ASSUME NEW files \in {view, disk}, files["summary"].state = "whole"
               PROVE  LET s == files["summary"].value
                      IN  /\ s[2] = s[1]
                          /\ files["integrity"].state = "whole"
                          /\ files["integrity"].value[1] >= s[1]
                          /\ files["state"].state = "whole" /\ files["state"].value >= s[1]
    BY DEF SummaryBacked
  <2>1. FilesOK(files) /\ Backed(files)
    BY <1>1 DEF IndInv, Stored, StoredOK
  <2>2. files["summary"].value \in Values["summary"]
    BY <2>1, CommandsAssumption DEF FilesOK
  <2> QED
    BY <2>1, <2>2 DEF Backed, Number, Values
<1> QED
  BY <1>1, Inductive, PTL

(* After `run' has exited with status 0 the summary is that run's own.     *)
THEOREM StatusZeroIsOwn == Spec => []StatusZeroMeansOwnSummary
<1>1. IndInv => StatusZeroMeansOwnSummary
  BY DEF IndInv, Doing, StatusTold, Current, Number, StatusZeroMeansOwnSummary, IsWhole
<1> QED
  BY <1>1, Inductive, PTL

(* A resolved delta compares two resolved minima, for any bounds and any   *)
(* needs; it is too high only by the fault of the strategy's search, and   *)
(* too low only by that of the baseline's.                                 *)
THEOREM DeltaErrsAsSearches == Spec => []DeltaFollowsSearches
<1>1. ASSUME IndInv PROVE DeltaFollowsSearches
  <2> SUFFICES ASSUME view["output"].state = "whole"
               PROVE  TrueDeltas(view["output"].value)
    BY DEF DeltaFollowsSearches, IsWhole, TrueDeltas, TrueDelta
  <2>1. view["output"].value \in Values["output"]
    BY <1>1, CommandsAssumption DEF IndInv, Stored, StoredOK, FilesOK
  <2> QED
    BY <2>1 DEF Values
<1> QED
  BY <1>1, Inductive, PTL
=============================================================================
