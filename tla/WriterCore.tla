----------------------------- MODULE WriterCore -----------------------------
(***************************************************************************)
(* The state both log writers keep and the steps they share.  The Go       *)
(* writer (internal/writer/writer.go) and the C++ writer                   *)
(* (cpp/writer/main.cc) are drop-in replacements for each other; their     *)
(* control flow differs and is in modules GoWriter and CppWriter.          *)
(***************************************************************************)
EXTENDS Host

VARIABLES
  wpc,             \* where the writer's main thread is
  fd,              \* the open log file
  generated,       \* state.Generated: records encoded into the buffer
  flushed,         \* units of the stream the completed flushes wrote
  off,             \* units of the buffer the current flush has written
  reopen,          \* a queued reopen: the channel of capacity 1, the flag
  reopenRequests,  \* state.ReopenRequests
  reopenFailures,  \* state.ReopenFailures
  stopping,        \* SIGTERM received
  werr,            \* the exit status will be non-zero
  stateFile        \* writer-state.json has been written

writerVars == <<wpc, fd, generated, flushed, off, reopen, reopenRequests,
                reopenFailures, stopping, werr, stateFile>>

WriterPCs == {"off", "start", "loop", "tick", "flush", "open", "final",
              "close", "exited", "killed"}

WriterTypeOK ==
  /\ wpc \in WriterPCs
  /\ fd \in inodes \cup {None}
  /\ generated \in Nat
  /\ flushed \in Nat
  /\ off \in Nat
  /\ reopen \in BOOLEAN
  /\ reopenRequests \in Nat
  /\ reopenFailures \in Nat
  /\ stopping \in BOOLEAN
  /\ werr \in BOOLEAN
  /\ stateFile \in BOOLEAN

WriterInit ==
  /\ wpc = "off"
  /\ fd = None
  /\ generated = 0
  /\ flushed = 0
  /\ off = 0
  /\ reopen = FALSE
  /\ reopenRequests = 0
  /\ reopenFailures = 0
  /\ stopping = FALSE
  /\ werr = FALSE
  /\ stateFile = FALSE

WriterGone == wpc \in {"exited", "killed"}

(* The in-memory buffer holds the units flushed+1 .. generated*RecordBytes. *)
Buffered == generated * RecordBytes - flushed

(* The bound on generation: the open file never outgrows FileCap. *)
Fits(n) == fd # None /\ Len(data[fd]) + Buffered + n * RecordBytes <= FileCap

(* open(O_CREAT|O_APPEND) of the active log. *)
OpenActive ==
  IF Exists(Active)
  THEN fd' = dir[Active] /\ UNCHANGED <<dir, inodes>>
  ELSE CreateFile(Active) /\ fd' = FreshInode

(* The process opens its log and starts its HTTP server. *)
Start ==
  /\ wpc = "start"
  /\ OpenActive
  /\ wpc' = "loop"
  /\ served' = TRUE
  /\ UNCHANGED <<config, data, http, generated, flushed, off, reopen,
                 reopenRequests, reopenFailures, stopping, werr, stateFile>>

(* The log cannot be opened or the address cannot be bound. *)
StartFailure ==
  /\ wpc = "start"
  /\ "open" \in Faults
  /\ wpc' = "exited"
  /\ werr' = TRUE
  /\ UNCHANGED <<hostVars, fd, generated, flushed, off, reopen,
                 reopenRequests, reopenFailures, stopping, stateFile>>

(* One write(2) of n units at the end of the open file.  When it completes *)
(* the buffer the buffer is cleared and the flush returns to `after'.      *)
WriteUnits(n, after) ==
  /\ fd # None
  /\ n <= Buffered - off
  /\ data' = [data EXCEPT ![fd] = @ \o [i \in 1..n |-> flushed + off + i]]
  /\ IF n = Buffered - off
     THEN flushed' = flushed + Buffered /\ off' = 0 /\ wpc' = after
     ELSE off' = off + n /\ UNCHANGED <<flushed, wpc>>
  /\ UNCHANGED <<config, dir, inodes, http, served, fd, generated, reopen,
                 reopenRequests, reopenFailures, stopping, werr, stateFile>>

(* POST /reopen-logs, on the server's thread: queue one reopen or refuse. *)
HandleReopen ==
  /\ http = "sent"
  /\ served
  /\ http' = IF reopen THEN "busy" ELSE "ok"
  /\ reopen' = TRUE
  /\ UNCHANGED <<config, dir, data, inodes, served, wpc, fd, generated,
                 flushed, off, reopenRequests, reopenFailures, stopping, werr,
                 stateFile>>

(* Mutation of TakeReopen: the queued request is never cleared. *)
TakeReopenSticky ==
  /\ reopen
  /\ reopenRequests' = reopenRequests + 1
  /\ fd' = None
  /\ wpc' = "open"
  /\ UNCHANGED reopen

(* Take the queued reopen, count it and close the old file. *)
TakeReopen ==
  /\ reopen
  /\ reopen' = FALSE
  /\ reopenRequests' = reopenRequests + 1
  /\ fd' = None
  /\ wpc' = "open"

(* Close the log, stop the server, save writer-state.json and exit. *)
Exit ==
  /\ wpc = "close"
  /\ \E closed, saved \in Outcome("exit") :
       /\ werr' = (werr \/ ~closed \/ ~saved)
       /\ stateFile' = saved
  /\ fd' = None
  /\ wpc' = "exited"
  /\ served' = FALSE
  /\ UNCHANGED <<config, dir, data, inodes, http, generated, flushed, off,
                 reopen, reopenRequests, reopenFailures, stopping>>
=============================================================================
