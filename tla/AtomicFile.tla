----------------------------- MODULE AtomicFile -----------------------------
(***************************************************************************)
(* WriteJSONAtomic (internal/report) and its C++ twin write_state_atomic:  *)
(* a report is written to a temporary file, synced, closed and renamed     *)
(* over its path.  Readers see the page cache (`view'); a power failure    *)
(* leaves what has reached the disk.  The file system, which is external,  *)
(* commits renames in order but later, and a file whose data nobody synced *)
(* may then be torn.  The directory itself is never synced by the code.    *)
(***************************************************************************)
EXTENDS Integers, Sequences

CONSTANT Paths  \* the reports of one result directory

VARIABLES
  view,     \* path -> contents, as a process reads it
  disk,     \* path -> contents, as a power failure would leave it
  journal,  \* renames the disk has not yet seen, oldest first
  job,      \* the write under way: its path and value
  temp,     \* the temporary file: "none", "partial", "full" or "synced"
  step      \* where the write is

fileVars == <<view, disk, journal, job, temp, step>>

Absent      == [state |-> "absent", value |-> <<>>]
Whole(v)    == [state |-> "whole", value |-> v]
Torn(v)     == [state |-> "torn", value |-> v]
Job(p, v)   == [path |-> p, value |-> v]
NoJob       == Job("none", <<>>)
IsWhole(p)  == view[p].state = "whole"

FileInit ==
  /\ view = [p \in Paths |-> Absent] /\ disk = view /\ journal = <<>>
  /\ job = NoJob /\ temp = "none" /\ step = "idle"

(* The call, up to a temporary file in the report's directory. *)
BeginWrite(p, v) ==
  /\ step = "idle"
  /\ job' = Job(p, v) /\ temp' = "partial" /\ step' = "encode"
  /\ UNCHANGED <<view, disk, journal>>

Encode ==
  /\ step = "encode"
  /\ temp' = "full" /\ step' = "sync"
  /\ UNCHANGED <<view, disk, journal, job>>

(* Mutation of Sync: the file is closed without having been synced. *)
SyncSkipped ==
  /\ step = "sync"
  /\ step' = "rename"
  /\ UNCHANGED <<view, disk, journal, job, temp>>

Sync ==
  /\ step = "sync"
  /\ temp' = "synced" /\ step' = "rename"
  /\ UNCHANGED <<view, disk, journal, job>>

RenameTemp ==
  /\ step = "rename"
  /\ view' = [view EXCEPT ![job.path] = Whole(job.value)]
  /\ journal' = Append(journal, [job |-> job, synced |-> temp = "synced"])
  /\ temp' = "none" /\ step' = "written"
  /\ UNCHANGED <<disk, job>>

(* Any of the calls fails: the temporary file is removed, the error goes   *)
(* to the caller.                                                          *)
WriteFails ==
  /\ step \in {"encode", "sync", "rename"}
  /\ temp' = "none" /\ step' = "failed"
  /\ UNCHANGED <<view, disk, journal, job>>

(* The caller takes the result. *)
Returned(result) ==
  /\ step = result
  /\ step' = "idle" /\ job' = NoJob
  /\ UNCHANGED <<view, disk, journal, temp>>

(* The file system commits the oldest rename.  What nobody synced may or   *)
(* may not be there.                                                       *)
Commit ==
  /\ journal # <<>>
  /\ LET r == Head(journal)
     IN  \E c \in {Whole(r.job.value)} \cup IF r.synced THEN {} ELSE {Torn(r.job.value)} :
           disk' = [disk EXCEPT ![r.job.path] = c]
  /\ journal' = Tail(journal)
  /\ UNCHANGED <<view, job, temp, step>>

(* The process is killed: its temporary file stays behind, unused. *)
Killed ==
  /\ job' = NoJob /\ temp' = "none" /\ step' = "idle"
  /\ UNCHANGED <<view, disk, journal>>

PowerFails ==
  /\ view' = disk /\ journal' = <<>>
  /\ job' = NoJob /\ temp' = "none" /\ step' = "idle"
  /\ UNCHANGED disk

FileNext == Encode \/ Sync \/ RenameTemp \/ WriteFails \/ Commit
=============================================================================
