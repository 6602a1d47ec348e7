---------------------------- MODULE LabMonitor ------------------------------
(***************************************************************************)
(* A run with its monitor: harness.Run starts it between the health check  *)
(* and the rotator, and signals it once the writer is gone.  In Lab the    *)
(* monitor is an outcome of WriterReaped; here it is a process that reads  *)
(* the directory between any two steps of the others.                      *)
(***************************************************************************)
EXTENDS Lab, Monitor

monitoredVars == <<vars, monitorVars>>

MonitoredInit == LabInit /\ MonitorInit

(* startChild(monitor) *)
StartMonitor ==
  /\ hpc = "health" /\ served
  /\ mpc = "off"
  /\ mpc' = "boot"
  /\ UNCHANGED <<vars, sample, pending, rows, before, mstop>>

(* stopChild(monitor) begins when stopChild(writer) has returned. *)
SignalMonitor ==
  /\ hpc \in {"abort", "stop"} /\ WriterGone
  /\ mpc # "off" /\ ~mstop
  /\ mstop' = TRUE
  /\ UNCHANGED <<vars, mpc, sample, pending, rows, before>>

(* What the harness's own steps ask of the monitor: the rotator is started *)
(* after it, and Run returns, or goes on to collect, only when stopChild   *)
(* has reaped it; its error is the run's.                                  *)
MonitorAllows ==
  /\ hpc = "health" /\ hpc' = "wait" => mpc # "off"
  /\ hpc = "abort" /\ hpc' = "error" => mpc = "off" \/ (mstop /\ MonitorExited)
  /\ hpc = "stop" /\ hpc' # "stop" => mstop /\ MonitorExited
  /\ hpc' = "collect" => mpc = "stopped" \/ hpc = "collect"
  /\ hpc = "stop" /\ hpc' = "error" => ~(rpc = "done" /\ wpc = "exited" /\ ~werr
                                         /\ mpc = "stopped")

MonitoredNext ==
  \/ Next /\ MonitorAllows /\ UNCHANGED monitorVars
  \/ MonitorNext /\ UNCHANGED vars
  \/ StartMonitor
  \/ SignalMonitor

MonitoredSpec == MonitoredInit /\ [][MonitoredNext]_monitoredVars

-----------------------------------------------------------------------------
(* A sample taken while the rotator works misses nothing: every unit that   *)
(* is on disk when the sample begins and still there when it ends is        *)
(* counted at least once, although it may move from the active name to a    *)
(* backup, or be copied and truncated, between two of the monitor's calls.  *)
(* The active log must be measured before the backups are listed.           *)
SampleCoversLog ==
  mpc = "row" => sample.active + sample.backup >= Cardinality(before \cap UnitsOnDisk)

(* Nor does it count a unit in two backups, although between two of its      *)
(* calls a backup may be renamed from the active log, filled by a copy, or  *)
(* removed by the retention: the backups of a row never hold more than the  *)
(* writer has written, so a row exceeds it by the active log at most.       *)
SampleCountsOnce == mpc = "row" => sample.backup <= flushed + off
=============================================================================
