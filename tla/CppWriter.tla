----------------------------- MODULE CppWriter ------------------------------
(***************************************************************************)
(* The C++ writer, cpp/writer/main.cc, the one the container image runs:   *)
(* a polling loop that sleeps 10 ms, generates, and then either reopens or *)
(* flushes; one server thread sets the reopen flag with a compare-and-swap.*)
(***************************************************************************)
EXTENDS WriterCore

Cpp == config.writer = "cpp"

CppStart        == Cpp /\ Start
CppStartFailure == Cpp /\ StartFailure
CppHandleReopen == Cpp /\ HandleReopen

(* while (!stop_requested): the signal is only looked at here. *)
CppBegin ==
  /\ Cpp
  /\ wpc = "loop"
  /\ ~stopping
  /\ wpc' = "tick"
  /\ UNCHANGED <<hostVars, fd, generated, flushed, off, reopen,
                 reopenRequests, reopenFailures, stopping, werr, stateFile>>

(* The body of the loop up to its first system call: n records, then the   *)
(* reopen if one is queued, otherwise a flush if the buffer is full or the *)
(* flush interval has elapsed.                                             *)
CppTick(n, elapsed) ==
  /\ Cpp
  /\ wpc = "tick"
  /\ n = 0 \/ Fits(n)
  /\ generated' = generated + n
  /\ \/ TakeReopen
     \/ /\ ~reopen
        /\ LET size == Buffered + n * RecordBytes
           IN  wpc' = IF size > 0 /\ (size >= BufferBytes \/ elapsed)
                      THEN "flush" ELSE "loop"
        /\ UNCHANGED <<fd, reopen, reopenRequests>>
  /\ UNCHANGED <<hostVars, flushed, off, reopenFailures, stopping, werr,
                 stateFile>>

(* Mutation of CppOpen: the buffer is discarded when the file changes. *)
CppOpenDropsBuffer ==
  /\ Cpp
  /\ wpc = "open"
  /\ OpenActive
  /\ wpc' = "loop"
  /\ flushed' = flushed + Buffered
  /\ UNCHANGED <<config, data, http, served, generated, off, reopen,
                 reopenRequests, reopenFailures, stopping, werr, stateFile>>

CppOpen ==
  /\ Cpp
  /\ wpc = "open"
  /\ OpenActive
  /\ wpc' = IF Buffered > 0 THEN "flush" ELSE "loop"
  /\ UNCHANGED <<config, data, http, served, generated, flushed, off, reopen,
                 reopenRequests, reopenFailures, stopping, werr, stateFile>>

(* The close fails (not counted) or the open fails (counted): leave the    *)
(* loop with ok = false, without another flush.                            *)
CppReopenError ==
  /\ Cpp
  /\ wpc = "open"
  /\ "open" \in Faults
  /\ \E counted \in 0..1 : reopenFailures' = reopenFailures + counted
  /\ werr' = TRUE
  /\ wpc' = "close"
  /\ UNCHANGED <<hostVars, fd, generated, flushed, off, reopen,
                 reopenRequests, stopping, stateFile>>

(* One write(2) of write_all, which may be short. *)
CppWrite(n) ==
  /\ Cpp
  /\ wpc \in {"flush", "final"}
  /\ WriteUnits(n, IF wpc = "flush" THEN "loop" ELSE "close")

(* write(2) fails: ok = false, and nothing is flushed again. *)
CppWriteError ==
  /\ Cpp
  /\ wpc \in {"flush", "final"}
  /\ "write" \in Faults
  /\ werr' = TRUE
  /\ wpc' = "close"
  /\ UNCHANGED <<hostVars, fd, generated, flushed, off, reopen,
                 reopenRequests, reopenFailures, stopping, stateFile>>

(* Mutation of CppStop: no last flush. *)
CppStopUnflushed ==
  /\ Cpp
  /\ wpc = "loop"
  /\ stopping
  /\ wpc' = "close"
  /\ UNCHANGED <<hostVars, fd, generated, flushed, off, reopen,
                 reopenRequests, reopenFailures, stopping, werr, stateFile>>

(* The loop ends on SIGTERM; the last flush goes to the file now open. *)
CppStop ==
  /\ Cpp
  /\ wpc = "loop"
  /\ stopping
  /\ wpc' = IF Buffered > 0 THEN "final" ELSE "close"
  /\ UNCHANGED <<hostVars, fd, generated, flushed, off, reopen,
                 reopenRequests, reopenFailures, stopping, werr, stateFile>>

CppExit == Cpp /\ Exit

CppNext ==
  \/ CppStart
  \/ CppStartFailure
  \/ CppHandleReopen
  \/ CppBegin
  \/ \E n \in 0..Burst, elapsed \in BOOLEAN : CppTick(n, elapsed)
  \/ CppOpen
  \/ CppReopenError
  \/ \E n \in 1..FileCap : CppWrite(n)
  \/ CppWriteError
  \/ CppStop
  \/ CppExit
=============================================================================
