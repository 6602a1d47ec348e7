---------------------------- MODULE MCLabMonitor ----------------------------
(***************************************************************************)
(* A monitored run for TLC: both strategies that rotate, with and without  *)
(* retention.  The writers look alike to the monitor.                      *)
(***************************************************************************)
EXTENDS LabMonitor

MCMonitored ==
  [strategy : {"copytruncate", "rename-reopen"}, writer : {"go"}, maxBackups : {0, 1}]
=============================================================================
