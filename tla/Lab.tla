-------------------------------- MODULE Lab ---------------------------------
(***************************************************************************)
(* One run of the lab: internal/harness/run.go starts a writer and a       *)
(* rotator, waits for the rotator, stops the writer and judges the files   *)
(* they left.  The processes interact through the log directory, the       *)
(* reopen request and signals.                                             *)
(***************************************************************************)
EXTENDS GoWriter, CppWriter, Rotator, Integrity

VARIABLES
  hpc,     \* where harness.Run is
  summary  \* summary.json: absent, or its Success field

harnessVars == <<hpc, summary>>
vars == <<hostVars, writerVars, rotatorVars, harnessVars>>

HarnessPCs == {"start", "health", "abort", "wait", "reopens", "stop",
               "collect", "done", "error"}

LabInit ==
  /\ HostInit
  /\ WriterInit
  /\ RotatorInit
  /\ hpc = "start"
  /\ summary = "none"

(* startChild(writer) *)
StartWriter ==
  /\ hpc = "start"
  /\ hpc' = "health"
  /\ wpc' = "start"
  /\ UNCHANGED <<hostVars, fd, generated, flushed, off, reopen,
                 reopenRequests, reopenFailures, stopping, werr, stateFile,
                 rotatorVars, summary>>

(* GET /healthz answers; the monitor and the rotator are started. *)
Healthy ==
  /\ hpc = "health"
  /\ served
  /\ hpc' = "wait"
  /\ rpc' = "poll"
  /\ UNCHANGED <<hostVars, writerVars, ordinal, copied, events, summary>>

(* The writer does not answer in 5 s, or a child cannot be started. *)
StartupFailed ==
  /\ hpc = "health"
  /\ "startup" \in Faults \/ WriterGone
  /\ hpc' = "abort"
  /\ stopping' = TRUE
  /\ UNCHANGED <<hostVars, wpc, fd, generated, flushed, off, reopen,
                 reopenRequests, reopenFailures, werr, stateFile,
                 rotatorVars, summary>>

(* Mutation of Aborted: the writer is signalled but not waited for. *)
AbortedAtOnce ==
  /\ hpc = "abort"
  /\ hpc' = "error"
  /\ UNCHANGED <<hostVars, writerVars, rotatorVars, summary>>

Aborted ==
  /\ hpc = "abort"
  /\ WriterGone
  /\ hpc' = "error"
  /\ UNCHANGED <<hostVars, writerVars, rotatorVars, summary>>

(* Mutations of RotatorReaped: reopens are awaited whatever the strategy,  *)
(* and only a successful rotator is noticed.                               *)
RotatorReapedThenReopens ==
  /\ hpc = "wait"
  /\ rpc \in {"done", "failed"}
  /\ hpc' = "reopens"
  /\ UNCHANGED <<hostVars, writerVars, rotatorVars, summary>>

RotatorReapedIfDone ==
  /\ hpc = "wait"
  /\ rpc = "done"
  /\ IF Rename
     THEN hpc' = "reopens" /\ UNCHANGED stopping
     ELSE hpc' = "stop" /\ stopping' = TRUE
  /\ UNCHANGED <<hostVars, wpc, fd, generated, flushed, off, reopen,
                 reopenRequests, reopenFailures, werr, stateFile,
                 rotatorVars, summary>>

(* waitCommand returns: the rotator's exit, whatever its status.  Only a   *)
(* successful rename-reopen rotator is followed by waitReopens.            *)
RotatorReaped ==
  /\ hpc = "wait"
  /\ rpc \in {"done", "failed"}
  /\ IF rpc = "done" /\ Rename
     THEN hpc' = "reopens" /\ UNCHANGED stopping
     ELSE hpc' = "stop" /\ stopping' = TRUE
  /\ UNCHANGED <<hostVars, wpc, fd, generated, flushed, off, reopen,
                 reopenRequests, reopenFailures, werr, stateFile,
                 rotatorVars, summary>>

(* waitCommand, context cancelled: the rotator is killed where it stands. *)
Cancel ==
  /\ hpc = "wait"
  /\ "cancel" \in Faults
  /\ rpc' = "killed"
  /\ hpc' = "stop"
  /\ stopping' = TRUE
  /\ UNCHANGED <<hostVars, wpc, fd, generated, flushed, off, reopen,
                 reopenRequests, reopenFailures, werr, stateFile,
                 ordinal, copied, events, summary>>

(* waitReopens sees the count in GET /state, or gives up after 2 s: its    *)
(* result is discarded either way.  Then SIGTERM.                          *)
ReopensAwaited ==
  /\ hpc = "reopens"
  /\ served => reopenRequests >= Rotations \/ "timeout" \in Faults
  /\ hpc' = "stop"
  /\ stopping' = TRUE
  /\ UNCHANGED <<hostVars, wpc, fd, generated, flushed, off, reopen,
                 reopenRequests, reopenFailures, werr, stateFile,
                 rotatorVars, summary>>

(* The writer dies by SIGKILL: the kernel's OOM killer at any time, or     *)
(* stopChild when the writer has not left in time.                         *)
WriterKilled ==
  /\ wpc \notin {"off", "exited", "killed"}
  /\ "oom" \in Faults \/ ("kill" \in Faults /\ hpc \in {"abort", "stop"})
  /\ wpc' = "killed"
  /\ fd' = None
  /\ served' = FALSE
  /\ UNCHANGED <<config, dir, data, inodes, http, generated, flushed, off,
                 reopen, reopenRequests, reopenFailures, stopping, werr,
                 stateFile, rotatorVars, harnessVars>>

(* stopChild returns; any child's failure ends the run without a summary. *)
WriterReaped ==
  /\ hpc = "stop"
  /\ WriterGone
  /\ \E monitorOK \in Outcome("monitor") :
       hpc' = IF rpc = "done" /\ wpc = "exited" /\ ~werr /\ monitorOK
              THEN "collect" ELSE "error"
  /\ UNCHANGED <<hostVars, writerVars, rotatorVars, summary>>

(* Mutation of Success: missing records are tolerated. *)
SuccessIgnoringMissing ==
  /\ reopenFailures = 0
  /\ ~Copy => Duplicates = 0 /\ Malformed = 0

(* Acceptance of the run. *)
Success ==
  /\ reopenFailures = 0
  /\ ~Copy => Missing(generated) = 0 /\ Duplicates = 0 /\ Malformed = 0

(* Read the state file, the logs and the events; write summary.json. *)
Collect ==
  /\ hpc = "collect"
  /\ \E readable \in Outcome("report") :
       IF readable /\ stateFile /\ Exists(Active)
       THEN hpc' = "done" /\ summary' = IF Success THEN "pass" ELSE "fail"
       ELSE hpc' = "error" /\ UNCHANGED summary
  /\ UNCHANGED <<hostVars, writerVars, rotatorVars>>

HarnessNext ==
  \/ StartWriter
  \/ Healthy
  \/ StartupFailed
  \/ Aborted
  \/ RotatorReaped
  \/ Cancel
  \/ ReopensAwaited
  \/ WriterReaped
  \/ Collect

(* harness.Run has returned. *)
Returned == hpc \in {"done", "error"} /\ UNCHANGED vars

Next ==
  \/ GoNext /\ UNCHANGED <<rotatorVars, harnessVars>>
  \/ CppNext /\ UNCHANGED <<rotatorVars, harnessVars>>
  \/ RotatorNext /\ UNCHANGED <<writerVars, harnessVars>>
  \/ HarnessNext
  \/ WriterKilled
  \/ Returned

Spec == LabInit /\ [][Next]_vars

(***************************************************************************)
(* Fairness.  Processes that can run do run.  Go's select picks uniformly  *)
(* among the ready cases, and its tickers are ready again and again, so no *)
(* case is passed over for ever (strong fairness); the C++ loop earns      *)
(* byte credit and flush time on the wall clock, so some iteration         *)
(* generates and some iteration finds the interval elapsed.  The server    *)
(* threads answer as long as the writer has not been told to stop.  The    *)
(* faults nobody schedules (a failing poll, a cancelled context, a kill)   *)
(* are under no fairness: they may happen and need not.                    *)
(***************************************************************************)
WriterStep(A) == A /\ UNCHANGED <<rotatorVars, harnessVars>>

GoFairness ==
  /\ WF_vars(WriterStep(GoStart \/ GoStartFailure \/ GoOpen \/ GoReopenError
                        \/ GoWriteError \/ GoExit
                        \/ \E n \in 1..FileCap : GoWrite(n)))
  /\ WF_vars(WriterStep(~stopping /\ GoHandleReopen))
  /\ SF_vars(WriterStep(GoStop))
  /\ SF_vars(WriterStep(\E n \in 1..Burst : GoTick(n)))
  /\ SF_vars(WriterStep(GoFlushTick))
  /\ SF_vars(WriterStep(GoReopen))

CppFairness ==
  /\ WF_vars(WriterStep(CppStart \/ CppStartFailure \/ CppBegin \/ CppOpen
                        \/ CppReopenError \/ CppWriteError \/ CppStop \/ CppExit
                        \/ (\E n \in 1..FileCap : CppWrite(n))
                        \/ (\E n \in 0..Burst, elapsed \in BOOLEAN :
                              CppTick(n, elapsed))))
  /\ WF_vars(WriterStep(~stopping /\ CppHandleReopen))
  /\ SF_vars(WriterStep(\E n \in 1..Burst, elapsed \in BOOLEAN :
                           CppTick(n, elapsed)))
  /\ SF_vars(WriterStep(\E n \in 0..Burst : CppTick(n, TRUE)))

FairSpec ==
  /\ Spec
  /\ GoFairness
  /\ CppFairness
  /\ WF_vars(RotatorNext /\ ~PollFailed /\ UNCHANGED <<writerVars, harnessVars>>)
  /\ WF_vars(HarnessNext /\ ~Cancel)

-----------------------------------------------------------------------------
(* Every variable has a value of its type: pc labels, names, files and      *)
(* counters stay within what the processes can hold.                        *)
TypeOK ==
  /\ HostTypeOK
  /\ WriterTypeOK
  /\ RotatorTypeOK
  /\ hpc \in HarnessPCs
  /\ summary \in {"none", "pass", "fail"}

(* The writer queues one reopen and answers 503 to a second.  The rotator   *)
(* never meets that answer: it does not wait for the writer to process a    *)
(* request, but a new rotation needs data in the replacement file, and only *)
(* a writer that has processed the last request puts data there.            *)
ReopenNeverRefused == http # "busy"

(* Between rename and the O_EXCL creation of the replacement nobody else    *)
(* creates the active name: no writer reopen (O_CREAT) falls in the window. *)
ReplacementPathFree == rpc = "create" => ~Exists(Active)

(* A rename-reopen rotation starts only after the writer has taken every    *)
(* earlier reopen request, though nothing makes the rotator wait for it.    *)
NextRotationWaitsForReopen ==
  Rename /\ rpc \in {"rotate", "rename", "create", "request"}
    => reopenRequests = ordinal - 1 /\ ~reopen /\ wpc # "open"

(* The file the writer has open always has a name: a rotation and its       *)
(* retention never unlink a file that is still being written, even with     *)
(* one backup kept and the reopen still queued.                             *)
OpenFileStaysLinked == fd # None => \E n \in Names : dir[n] = fd

(* When harness.Run returns, with a summary or an error, no child is left   *)
(* running.                                                                 *)
ChildrenReaped ==
  hpc \in {"done", "error"} => WriterGone /\ (RotatorExited \/ rpc = "off")

(* A writer that exits with status zero has written every record it         *)
(* generated, to the last unit, and has left its state file.                *)
CleanExitWroteEverything ==
  wpc = "exited" /\ ~werr => flushed = generated * RecordBytes /\ stateFile

(* While copytruncate copies and until it truncates, the backup is exactly  *)
(* the first `copied' units of the active log, whatever the writer appends. *)
CopyIsPrefix ==
  rpc \in {"copy", "truncate"}
    => data[dir[ordinal]] = SubSeq(data[dir[Active]], 1, copied)

(* A truncate loses only what arrived after io.Copy read end of file: every *)
(* unit of the active log that was copied is in the backup afterwards.      *)
CopiedUnitsSurvive ==
  [][rpc = "truncate" /\ rpc' = "retention"
       => \A i \in 1..copied :
            \E j \in DOMAIN data'[dir'[ordinal]] :
               data'[dir'[ordinal]][j] = data[dir[Active]][i]]_vars

-----------------------------------------------------------------------------
(* Without faults every run ends with a summary.  copytruncate runs and     *)
(* runs that keep all their backups are accepted; a rename-reopen run whose *)
(* retention removed a backup is rejected, because the analyzer counts the  *)
(* removed records as missing.                                              *)
FaultFreeRunJudged ==
  <>(summary = IF Rename /\ config.maxBackups \in 1..Rotations - 1
               THEN "fail" ELSE "pass")

(* The run ends even though requests time out, the rotator or a collecting  *)
(* step fails, the context is cancelled or the writer has to be killed.     *)
RunEnds == <>(hpc \in {"done", "error"})

(* Design, section 6.2: "A reopen failure invalidates the run."  The run    *)
(* must then come to its end with an error.                                 *)
ReopenFailureInvalidatesRun == reopenFailures > 0 ~> hpc = "error"
=============================================================================
