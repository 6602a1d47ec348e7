----------------------------- MODULE LabStream ------------------------------
(***************************************************************************)
(* The whole log of a run, across its rotated files, and what the run      *)
(* promises about it.                                                      *)
(***************************************************************************)
EXTENDS Lab, SequencesExt

Contents(n) == IF Exists(n) THEN data[dir[n]] ELSE <<>>

(* The units on disk in rotation order: backups by ordinal, then the       *)
(* active log.                                                             *)
LogOnDisk ==
  FlattenSeq([k \in 1..Rotations + 1 |->
                Contents(IF k <= Rotations THEN k ELSE Active)])

(* copytruncate makes no such promise: it maps to a log nobody writes. *)
Stream == INSTANCE LogStream WITH log  <- IF Copy THEN <<>> ELSE LogOnDisk,
                                  last <- IF Copy THEN 0 ELSE flushed + off

(* The baseline and rename-reopen keep an unbroken stream: while the reopen *)
(* is queued the writer goes on appending to the newest backup, the         *)
(* replacement stays empty, and only afterwards does it receive the rest.   *)
KeepsStream == Stream!Spec

(* The verdict of a run that must not lose anything is exact: it passes if  *)
(* and only if the files hold every unit of every generated record once and *)
(* in order, although the analyzer looks only at the first fields of lines. *)
VerdictIsExact ==
  summary # "none" /\ ~Copy
    => (summary = "pass" <=> LogOnDisk = [i \in 1..generated * RecordBytes |-> i])

(* Copytruncate may lose units but, outside the window between copy and     *)
(* truncate, no unit is on disk twice or behind a later one.                *)
CopytruncateKeepsOrder ==
  Copy /\ rpc \notin {"copy", "truncate", "failed", "killed"}
    => \A i \in 1..Len(LogOnDisk) - 1 : LogOnDisk[i] < LogOnDisk[i + 1]

(* Loss is all a judged run can show, whatever its strategy and retention:  *)
(* no record twice, none behind a later one and none under a foreign run    *)
(* id, although a truncate or a rename may cut a record and the analyzer    *)
(* reads the active log before its backups.  So the memory sweep, which     *)
(* also looks at order and run ids, accepts every run the harness accepts.  *)
OnlyLossIsReported ==
  summary # "none"
    => Duplicates = 0 /\ WrongRunID = 0 /\ DescendingTransitions = 0

(* The per-file ranges of a judged run follow the rotations: each file      *)
(* begins after everything in the files rotated before it, and a file of a  *)
(* run that does not truncate holds its whole range.                        *)
RangesFollowRotations ==
  summary # "none"
    => \A n, m \in {k \in Names : FileSet(k).records > 0} :
         /\ n # Active /\ (n < m \/ m = Active) => FileSet(n).max < FileSet(m).min
         /\ ~Copy => FileSet(n).records = FileSet(n).max - FileSet(n).min + 1
=============================================================================
