------------------------------ MODULE GoWriter ------------------------------
(***************************************************************************)
(* The Go writer, internal/writer/writer.go: one goroutine selects over    *)
(* cancellation, the generation ticker, the flush ticker and the reopen    *)
(* channel; HTTP handlers run on goroutines of the server.                 *)
(***************************************************************************)
EXTENDS WriterCore

Go == config.writer = "go"

GoStart        == Go /\ Start
GoStartFailure == Go /\ StartFailure
GoHandleReopen == Go /\ HandleReopen

(* finish(): the last flush, when there is something left to flush. *)
GoFinish == wpc' = IF Buffered > 0 THEN "final" ELSE "close"

(* case <-ctx.Done() *)
GoStop ==
  /\ Go
  /\ wpc = "loop"
  /\ stopping
  /\ GoFinish
  /\ UNCHANGED <<hostVars, fd, generated, flushed, off, reopen,
                 reopenRequests, reopenFailures, stopping, werr, stateFile>>

(* case <-generateTicker.C: n records, and a flush when the buffer is full. *)
GoTick(n) ==
  /\ Go
  /\ wpc = "loop"
  /\ Fits(n)
  /\ generated' = generated + n
  /\ wpc' = IF Buffered + n * RecordBytes >= BufferBytes THEN "flush" ELSE "loop"
  /\ UNCHANGED <<hostVars, fd, flushed, off, reopen, reopenRequests,
                 reopenFailures, stopping, werr, stateFile>>

(* record.Encode rejects the run id or the record size: the record was     *)
(* counted but not buffered, and finish() has nothing to flush.  The sizes *)
(* never change, so only the first record can be the rejected one.         *)
GoEncodeError ==
  /\ Go
  /\ wpc = "loop"
  /\ generated = 0
  /\ "encode" \in Faults
  /\ generated' = 1
  /\ werr' = TRUE
  /\ wpc' = "close"
  /\ UNCHANGED <<hostVars, fd, flushed, off, reopen, reopenRequests,
                 reopenFailures, stopping, stateFile>>

(* case <-flushTicker.C; flushing an empty buffer does nothing. *)
GoFlushTick ==
  /\ Go
  /\ wpc = "loop"
  /\ Buffered > 0
  /\ wpc' = "flush"
  /\ UNCHANGED <<hostVars, fd, generated, flushed, off, reopen,
                 reopenRequests, reopenFailures, stopping, werr, stateFile>>

(* case <-w.reopen: count the request and close the old file ... *)
GoReopen ==
  /\ Go
  /\ wpc = "loop"
  /\ TakeReopen
  /\ UNCHANGED <<hostVars, generated, flushed, off, reopenFailures, stopping,
                 werr, stateFile>>

(* ... then open whatever the active name is now, and flush. *)
GoOpen ==
  /\ Go
  /\ wpc = "open"
  /\ OpenActive
  /\ wpc' = IF Buffered > 0 THEN "flush" ELSE "loop"
  /\ UNCHANGED <<config, data, http, served, generated, flushed, off, reopen,
                 reopenRequests, reopenFailures, stopping, werr, stateFile>>

(* The close fails (not counted) or the open fails (counted); file is      *)
(* unusable in both cases and finish() still tries to flush to it.         *)
GoReopenError ==
  /\ Go
  /\ wpc = "open"
  /\ "open" \in Faults
  /\ \E counted \in 0..1 : reopenFailures' = reopenFailures + counted
  /\ werr' = TRUE
  /\ GoFinish
  /\ UNCHANGED <<hostVars, fd, generated, flushed, off, reopen,
                 reopenRequests, stopping, stateFile>>

(* One file.Write of flush(), which may be short. *)
GoWrite(n) ==
  /\ Go
  /\ wpc \in {"flush", "final"}
  /\ WriteUnits(n, IF wpc = "flush" THEN "loop" ELSE "close")

(* file.Write fails.  The buffer is kept and finish() flushes all of it    *)
(* again, what was already written included.                               *)
GoWriteError ==
  /\ Go
  /\ wpc \in {"flush", "final"}
  /\ "write" \in Faults \/ fd = None
  /\ off' = 0
  /\ werr' = TRUE
  /\ wpc' = IF wpc = "flush" THEN "final" ELSE "close"
  /\ UNCHANGED <<hostVars, fd, generated, flushed, reopen, reopenRequests,
                 reopenFailures, stopping, stateFile>>

GoExit == Go /\ Exit

GoNext ==
  \/ GoStart
  \/ GoStartFailure
  \/ GoHandleReopen
  \/ GoStop
  \/ \E n \in 1..Burst : GoTick(n)
  \/ GoEncodeError
  \/ GoFlushTick
  \/ GoReopen
  \/ GoOpen
  \/ GoReopenError
  \/ \E n \in 1..FileCap : GoWrite(n)
  \/ GoWriteError
  \/ GoExit
=============================================================================
