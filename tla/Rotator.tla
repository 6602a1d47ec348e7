------------------------------ MODULE Rotator -------------------------------
(***************************************************************************)
(* The rotator process, internal/rotator: it polls the size of the active  *)
(* log and, Rotations times, rotates it by the run's strategy and removes  *)
(* backups beyond the retention limit.  Every step that another process    *)
(* can observe is an action; appendEvent is part of the step it follows.   *)
(***************************************************************************)
EXTENDS Host

VARIABLES
  rpc,      \* where the rotator is
  ordinal,  \* the rotation it is at, from 1
  copied,   \* units io.Copy has read from the active log
  events    \* events.csv: the ordinal and phase of every row

rotatorVars == <<rpc, ordinal, copied, events>>

Rotating   == {"rotate", "copyStart", "copy", "truncate", "rename", "create",
               "request", "await", "retention", "retained"}
RotatorPCs == {"off", "poll", "done", "failed", "killed"} \cup Rotating
Phases     == {"threshold", "baseline-complete", "copy-start", "copy-synced",
               "truncate", "rename", "replacement-created", "reopen-requested",
               "retention-complete", "rotation-failed"}

RotatorTypeOK ==
  /\ rpc \in RotatorPCs
  /\ ordinal \in 1..Rotations + 1
  /\ copied \in Nat
  /\ events \in Seq([ordinal : 1..Rotations, phase : Phases])

RotatorInit ==
  /\ rpc = "off"
  /\ ordinal = 1
  /\ copied = 0
  /\ events = <<>>

RotatorExited == rpc \in {"done", "failed", "killed"}

Event(phase) == [ordinal |-> ordinal, phase |-> phase]
Log(phase)   == events' = Append(events, Event(phase))

(* What the active log must reach: the baseline never rotates and waits    *)
(* for the volume of all rotations.                                        *)
Target  == IF Baseline THEN MaxFileBytes * Rotations ELSE MaxFileBytes

(* Mutation of AtLimit: any existing log is rotated, even an empty one. *)
AtLimitAnySize == Exists(Active)

AtLimit == Exists(Active) /\ Size(Active) >= Target

(* A poll that finds no file, or one below the limit: continue. *)
PollAgain ==
  /\ rpc = "poll"
  /\ ~AtLimit
  /\ UNCHANGED <<hostVars, rotatorVars>>

BaselineComplete ==
  /\ rpc = "poll"
  /\ Baseline
  /\ AtLimit
  /\ events' = events \o <<Event("threshold"), Event("baseline-complete")>>
  /\ rpc' = "done"
  /\ UNCHANGED <<hostVars, ordinal, copied>>

PollFull ==
  /\ rpc = "poll"
  /\ ~Baseline
  /\ AtLimit
  /\ rpc' = "rotate"
  /\ UNCHANGED <<hostVars, ordinal, copied, events>>

(* RotateOnce: stat the log again, log the threshold, choose a strategy;   *)
(* copytruncate begins by logging its start.                               *)
RotateOnce ==
  /\ rpc = "rotate"
  /\ Exists(Active)
  /\ events' = events \o <<Event("threshold")>>
                     \o (IF Copy THEN <<Event("copy-start")>> ELSE <<>>)
  /\ rpc' = IF Copy THEN "copyStart" ELSE "rename"
  /\ UNCHANGED <<hostVars, ordinal, copied>>

(* Open the active log and create the backup, which must not exist. *)
CopyStart ==
  /\ rpc = "copyStart"
  /\ Exists(Active) /\ ~Exists(ordinal)
  /\ CreateFile(ordinal)
  /\ copied' = 0
  /\ rpc' = "copy"
  /\ UNCHANGED <<config, data, http, served, ordinal, events>>

(* Mutations of CopyChunk: every read starts at the beginning of the log,  *)
(* and a short write of the backup goes unnoticed.                         *)
CopyChunkRewinds(n) ==
  /\ rpc = "copy"
  /\ copied + n <= Size(Active)
  /\ data' = [data EXCEPT ![dir[ordinal]] = @ \o SubSeq(data[dir[Active]], 1, n)]
  /\ copied' = copied + n
  /\ UNCHANGED <<config, dir, inodes, http, served, rpc, ordinal, events>>

CopyChunkShort(n) ==
  /\ rpc = "copy"
  /\ copied + n <= Size(Active)
  /\ data' = [data EXCEPT ![dir[ordinal]] =
                @ \o SubSeq(data[dir[Active]], copied + 1, copied + n - 1)]
  /\ copied' = copied + n
  /\ UNCHANGED <<config, dir, inodes, http, served, rpc, ordinal, events>>

(* io.Copy moves n units, while the writer goes on appending. *)
CopyChunk(n) ==
  /\ rpc = "copy"
  /\ copied + n <= Size(Active)
  /\ data' = [data EXCEPT ![dir[ordinal]] =
                @ \o SubSeq(data[dir[Active]], copied + 1, copied + n)]
  /\ copied' = copied + n
  /\ UNCHANGED <<config, dir, inodes, http, served, rpc, ordinal, events>>

(* io.Copy reads end of file; the backup is synced and closed. *)
CopySync ==
  /\ rpc = "copy"
  /\ copied = Size(Active)
  /\ Log("copy-synced")
  /\ rpc' = "truncate"
  /\ UNCHANGED <<hostVars, ordinal, copied>>

(* Mutation of Truncate: the active log keeps what was copied. *)
TruncateForgotten ==
  /\ rpc = "truncate"
  /\ Log("truncate")
  /\ rpc' = "retention"
  /\ UNCHANGED <<hostVars, ordinal, copied>>

(* os.Truncate(active, 0) drops whatever the file holds by now. *)
Truncate ==
  /\ rpc = "truncate"
  /\ data' = [data EXCEPT ![dir[Active]] = <<>>]
  /\ Log("truncate")
  /\ rpc' = "retention"
  /\ UNCHANGED <<config, dir, inodes, http, served, ordinal, copied>>

(* os.Rename(active, backup) replaces the backup name. *)
RenameActive ==
  /\ rpc = "rename"
  /\ Exists(Active)
  /\ dir' = [dir EXCEPT ![ordinal] = dir[Active], ![Active] = None]
  /\ Log("rename")
  /\ rpc' = "create"
  /\ UNCHANGED <<config, data, inodes, http, served, ordinal, copied>>

(* O_EXCL creation of the replacement, then its owner and mode. *)
CreateReplacement ==
  /\ rpc = "create"
  /\ ~Exists(Active)
  /\ CreateFile(Active)
  /\ Log("replacement-created")
  /\ rpc' = "request"
  /\ UNCHANGED <<config, data, http, served, ordinal, copied>>

(* client.Do(POST /reopen-logs) *)
RequestReopen ==
  /\ rpc = "request"
  /\ served
  /\ http' = "sent"
  /\ rpc' = "await"
  /\ UNCHANGED <<config, dir, data, inodes, served, ordinal, copied, events>>

(* 200: the reopen is queued, not done. *)
ReopenQueued ==
  /\ rpc = "await"
  /\ http = "ok"
  /\ http' = "idle"
  /\ Log("reopen-requested")
  /\ rpc' = "retention"
  /\ UNCHANGED <<config, dir, data, inodes, served, ordinal, copied>>

Backups == {n \in Names \ {Active} : Exists(n)}

(* Mutation of Expired: one backup too few is kept. *)
ExpiredTooMany ==
  {n \in Backups : config.maxBackups > 0
                   /\ Cardinality({m \in Backups : m >= n}) >= config.maxBackups}

(* The backups EnforceRetention removes: the lowest ordinals, until at     *)
(* most maxBackups are left.                                               *)
Expired ==
  {n \in Backups : config.maxBackups > 0
                   /\ Cardinality({m \in Backups : m >= n}) > config.maxBackups}

EnforceRetention ==
  /\ rpc = "retention"
  /\ dir' = [n \in Names |-> IF n \in Expired THEN None ELSE dir[n]]
  /\ rpc' = "retained"
  /\ UNCHANGED <<config, data, inodes, http, served, ordinal, copied, events>>

(* Mutation of RotationDone: one rotation too many. *)
RotationDoneOneMore ==
  /\ rpc = "retained"
  /\ Log("retention-complete")
  /\ ordinal' = ordinal + 1
  /\ rpc' = IF ordinal > Rotations THEN "done" ELSE "poll"
  /\ UNCHANGED <<hostVars, copied>>

(* RotateOnce returns; Run goes on to the next rotation or ends. *)
RotationDone ==
  /\ rpc = "retained"
  /\ Log("retention-complete")
  /\ ordinal' = ordinal + 1
  /\ rpc' = IF ordinal = Rotations THEN "done" ELSE "poll"
  /\ UNCHANGED <<hostVars, copied>>

(* The ways a rotation goes wrong: a refused or lost request, a request    *)
(* that outlives the client's two seconds, a name that is not as expected, *)
(* a failing system call.  The request may still reach the writer later.   *)
Fails ==
  \/ rpc \in Rotating /\ "rotator" \in Faults
  \/ rpc = "await" /\ http = "busy"
  \/ rpc = "await" /\ http = "sent" /\ (~served \/ "timeout" \in Faults)
  \/ rpc = "request" /\ ~served
  \/ rpc \in {"rotate", "copyStart", "rename"} /\ ~Exists(Active)
  \/ rpc = "copyStart" /\ Exists(ordinal)
  \/ rpc = "create" /\ Exists(Active)

RotationFailed ==
  /\ Fails
  /\ Log("rotation-failed")
  /\ rpc' = "failed"
  /\ UNCHANGED <<hostVars, ordinal, copied>>

(* os.Stat of the active log fails in the poll itself. *)
PollFailed ==
  /\ rpc = "poll"
  /\ "rotator" \in Faults
  /\ rpc' = "failed"
  /\ UNCHANGED <<hostVars, ordinal, copied, events>>

RotatorNext ==
  \/ PollAgain
  \/ BaselineComplete
  \/ PollFull
  \/ RotateOnce
  \/ CopyStart
  \/ \E n \in 1..FileCap : CopyChunk(n)
  \/ CopySync
  \/ Truncate
  \/ RenameActive
  \/ CreateReplacement
  \/ RequestReopen
  \/ ReopenQueued
  \/ EnforceRetention
  \/ RotationDone
  \/ RotationFailed
  \/ PollFailed
=============================================================================
