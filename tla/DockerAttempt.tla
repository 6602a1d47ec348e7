---------------------------- MODULE DockerAttempt ---------------------------
(***************************************************************************)
(* One attempt of the memory sweep, internal/sweep/docker.go: prepare a    *)
(* volume, run the lab in a container with a memory limit, wait for its    *)
(* end while polling for an OOM kill, and classify what happened.          *)
(*                                                                         *)
(* The container itself is external.  Below `need' the kernel kills some   *)
(* process of it: the main one, a child whose loss the lab reports with    *)
(* status 1, or the writer, whose loss leaves the lab hanging (see Lab).   *)
(***************************************************************************)
EXTENDS Integers

CONSTANTS
  Strategies,  \* the strategies to sweep
  Needs,       \* the memory the workload may need, in MiB
  RunFaults    \* failures that are not about memory

VARIABLES
  strategy, need,  \* of this sweep, chosen once
  cancelled,       \* the sweep's context is cancelled
  limit,           \* attempt.LimitMiB
  apc,             \* where dockerAttempt is
  container,       \* the container's process
  exitCode,        \* the status docker run ends with
  oomKilled,       \* State.OOMKilled of the container
  written,         \* what the container's summary.json says
  result           \* attempt.Passed, attempt.FailureKind, attempt.TimedOut

attemptVars == <<strategy, need, cancelled, limit, apc, container, exitCode,
                 oomKilled, written, result>>

Kinds   == {"", "oom", "functional", "integrity", "timeout"}
Results == [passed : BOOLEAN, kind : Kinds, timedOut : BOOLEAN]

AttemptTypeOK ==
  /\ strategy \in Strategies
  /\ need \in Needs
  /\ cancelled \in BOOLEAN
  /\ limit \in Int
  /\ apc \in {"idle", "prepare", "wait", "returned"}
  /\ container \in {"absent", "running", "hung", "exited"}
  /\ exitCode \in {-1, 0, 1, 137}
  /\ oomKilled \in BOOLEAN
  /\ written \in {"none", "ok", "reopen-failure", "damaged"}
  /\ result \in Results

AttemptInit ==
  /\ strategy \in Strategies
  /\ need \in Needs
  /\ cancelled = FALSE
  /\ limit = 0
  /\ apc = "idle"
  /\ container = "absent"
  /\ exitCode = -1
  /\ oomKilled = FALSE
  /\ written = "none"
  /\ result = [passed |-> FALSE, kind |-> "", timedOut |-> FALSE]

(* dockerAttempt returns; the deferred docker rm removes the container. *)
Return(passed, kind, timedOut) ==
  /\ result' = [passed |-> passed, kind |-> kind, timedOut |-> timedOut]
  /\ apc' = "returned"
  /\ container' = "absent"
  /\ UNCHANGED <<strategy, need, cancelled, limit, exitCode, oomKilled, written>>

(* The result directory, the volume or the docker command itself fails; a  *)
(* cancelled context fails the last two.  Only some of these name a kind.  *)
NotStarted ==
  /\ apc = "prepare"
  /\ "prepare" \in RunFaults \/ cancelled
  /\ \E kind \in {"", "functional"} : Return(FALSE, kind, FALSE)

Started ==
  /\ apc = "prepare"
  /\ ~cancelled
  /\ apc' = "wait"
  /\ container' = "running"
  /\ exitCode' = -1
  /\ oomKilled' = FALSE
  /\ written' = "none"
  /\ UNCHANGED <<strategy, need, cancelled, limit, result>>

ContainerOOM ==
  /\ container = "running"
  /\ limit < need
  /\ oomKilled' = TRUE
  /\ \/ container' = "hung" /\ UNCHANGED exitCode
     \/ container' = "exited" /\ exitCode' \in {1, 137}
  /\ UNCHANGED <<strategy, need, cancelled, limit, apc, written, result>>

(* With enough memory: status 0 and a good summary, unless something else  *)
(* goes wrong.  "damaged" is what only the sweep rejects: records of       *)
(* another run or out of order.                                            *)
ContainerExits ==
  /\ container = "running"
  /\ limit >= need
  /\ container' = "exited"
  /\ \/ exitCode' = 0 /\ written' = "ok"
     \/ exitCode' = 1 /\ written' = "none" /\ "exit" \in RunFaults
     \/ exitCode' = 0 /\ "summary" \in RunFaults
        /\ written' \in {"none", "reopen-failure", "damaged"}
  /\ UNCHANGED <<strategy, need, cancelled, limit, apc, oomKilled, result>>

ContainerHangs ==
  /\ container = "running"
  /\ limit >= need
  /\ "hang" \in RunFaults
  /\ container' = "hung"
  /\ UNCHANGED <<strategy, need, cancelled, limit, apc, exitCode, oomKilled,
                 written, result>>

classifyProcessFailure(code, timedOut, oom) ==
  IF oom \/ code = 137 THEN "oom"
  ELSE IF timedOut THEN "timeout"
  ELSE "functional"

(* summary.json decides an attempt that exits with status 0. *)
classifySummary ==
  LET integrityPassed == written = "ok"
      passed == written # "none" /\ written # "reopen-failure"
                /\ (strategy = "copytruncate" \/ integrityPassed)
  IN  Return(passed, IF passed THEN ""
                     ELSE IF written = "damaged" THEN "integrity" ELSE "functional", FALSE)

(* The docker command has ended with this status.                          *)
Finish(status, timedOut) ==
  IF status = 0 THEN classifySummary
  ELSE Return(FALSE, classifyProcessFailure(status, timedOut, FALSE), timedOut)

(* case err = <-done *)
AttemptExited ==
  /\ apc = "wait"
  /\ container = "exited"
  /\ Finish(exitCode, FALSE)

(* The deadline may pass at any time when the instance allows it, and it   *)
(* does when a container hangs that the poll does not end.                 *)
DeadlinePasses == "timeout" \in RunFaults \/ (container = "hung" /\ ~oomKilled)

(* case <-ticker.C, and docker inspect reports an OOM kill: remove the     *)
(* container and wait for the command, past the deadline perhaps.          *)
PolledOOM ==
  /\ apc = "wait"
  /\ oomKilled
  /\ \E timedOut \in BOOLEAN :
       /\ timedOut => DeadlinePasses
       /\ Return(FALSE, classifyProcessFailure(137, timedOut, TRUE), timedOut)

(* The status of the docker command when its context ends.  Nothing orders *)
(* what happens then: the context kills the command (-1), and docker rm -f *)
(* kills its container, which a command that still lives reports as 137.   *)
(* It may also just have ended by itself.                                  *)
RemovedStatus == IF container = "exited" THEN {exitCode, -1} ELSE {-1, 137}

(* Mutation of Expired: the attempt does not say that it was cut off.      *)
ExpiredUnmarked ==
  /\ apc = "wait"
  /\ DeadlinePasses
  /\ \E status \in RemovedStatus : Finish(status, FALSE)

(* case <-attemptCtx.Done(), deadline. *)
Expired ==
  /\ apc = "wait"
  /\ DeadlinePasses
  /\ \E status \in RemovedStatus : Finish(status, TRUE)

(* case <-attemptCtx.Done(), the sweep is cancelled. *)
Interrupted ==
  /\ apc = "wait"
  /\ cancelled
  /\ \E status \in RemovedStatus : Finish(status, FALSE)

(* SIGINT or SIGTERM to the sweep. *)
Cancel ==
  /\ "cancel" \in RunFaults
  /\ ~cancelled
  /\ cancelled' = TRUE
  /\ UNCHANGED <<strategy, need, limit, apc, container, exitCode, oomKilled,
                 written, result>>

AttemptNext ==
  \/ NotStarted
  \/ Started
  \/ ContainerOOM
  \/ ContainerExits
  \/ ContainerHangs
  \/ AttemptExited
  \/ PolledOOM
  \/ Expired
  \/ Interrupted
  \/ Cancel
=============================================================================
