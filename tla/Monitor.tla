------------------------------ MODULE Monitor -------------------------------
(***************************************************************************)
(* The monitor process, internal/monitor: at every tick it reads the       *)
(* cgroup's counters and measures the log directory, one system call after *)
(* the other, while the rotator renames, truncates and unlinks in it.      *)
(* The counters are external and left out here; Observation has them.      *)
(***************************************************************************)
EXTENDS Host

CONSTANT Samples  \* bound: ticks answered in one run

VARIABLES
  mpc,      \* where the monitor is
  sample,   \* report.Sample being filled: bytes of the active log, of backups
  pending,  \* backups the glob returned that are not yet measured
  rows,     \* rows written to samples.csv
  before,   \* history: the units on disk when the sample was begun
  mstop     \* SIGTERM has been sent

monitorVars == <<mpc, sample, pending, rows, before, mstop>>

MonitorPCs == {"off", "boot", "tick", "active", "glob", "stat", "row",
               "stopped", "failed", "killed"}
NoSample   == [active |-> 0, backup |-> 0, count |-> 0]

MonitorInit ==
  /\ mpc = "off" /\ sample = NoSample /\ pending = {} /\ rows = 0
  /\ before = {} /\ mstop = FALSE

MonitorExited == mpc \in {"stopped", "failed", "killed"}

UnitsOnDisk ==
  UNION {{data[dir[n]][i] : i \in DOMAIN data[dir[n]]} : n \in {m \in Names : Exists(m)}}

(* Signal handling is in place, the cgroup found, samples.csv created. *)
MonitorBoots ==
  /\ mpc = "boot"
  /\ mpc' = "tick"
  /\ UNCHANGED <<sample, pending, rows, before, mstop>>

(* The ticker's case of the select, which may win over a signal that has   *)
(* arrived.                                                                *)
Tick ==
  /\ mpc = "tick"
  /\ rows < Samples
  /\ mpc' = "active"
  /\ before' = UnitsOnDisk
  /\ UNCHANGED <<sample, pending, rows, mstop>>

(* LogFileStats: stat the active log, which counts nothing when absent ... *)
StatActive ==
  /\ mpc = "active"
  /\ sample' = [sample EXCEPT !.active = IF Exists(Active) THEN Size(Active) ELSE 0]
  /\ mpc' = "glob"
  /\ UNCHANGED <<pending, rows, before, mstop>>

(* Mutation of Glob: the pattern also fits the active log. *)
GlobAll ==
  /\ mpc = "glob"
  /\ pending' = {n \in Names : Exists(n)}
  /\ mpc' = "stat"
  /\ UNCHANGED <<sample, rows, before, mstop>>

(* ... then list the backups ... *)
Glob ==
  /\ mpc = "glob"
  /\ pending' = {n \in Names \ {Active} : Exists(n)}
  /\ mpc' = "stat"
  /\ UNCHANGED <<sample, rows, before, mstop>>

(* Mutation of StatBackup: the loop ends at a backup that has vanished. *)
StatBackupBreaks ==
  /\ mpc = "stat"
  /\ \E n \in pending :
       /\ \A m \in pending : n <= m
       /\ pending' = IF Exists(n) THEN pending \ {n} ELSE {}
       /\ sample' = IF Exists(n)
                    THEN [sample EXCEPT !.backup = @ + Size(n), !.count = @ + 1]
                    ELSE sample
  /\ UNCHANGED <<mpc, rows, before, mstop>>

(* ... and stat each, in order; one that has vanished is passed over. *)
StatBackup ==
  /\ mpc = "stat"
  /\ \E n \in pending :
       /\ \A m \in pending : n <= m
       /\ pending' = pending \ {n}
       /\ sample' = IF Exists(n)
                    THEN [sample EXCEPT !.backup = @ + Size(n), !.count = @ + 1]
                    ELSE sample
  /\ UNCHANGED <<mpc, rows, before, mstop>>

Measured ==
  /\ mpc = "stat"
  /\ pending = {}
  /\ mpc' = "row"
  /\ UNCHANGED <<sample, pending, rows, before, mstop>>

(* sampleRow is written and flushed. *)
WriteRow ==
  /\ mpc = "row"
  /\ rows' = rows + 1
  /\ sample' = NoSample
  /\ before' = {}
  /\ mpc' = "tick"
  /\ UNCHANGED <<pending, mstop>>

(* ctx.Done: flush and return. *)
MonitorStops ==
  /\ mpc = "tick"
  /\ mstop
  /\ mpc' = "stopped"
  /\ UNCHANGED <<sample, pending, rows, before, mstop>>

(* Any read or write that fails ends the monitor with an error. *)
MonitorFails ==
  /\ "monitor" \in Faults
  /\ mpc \in {"boot", "active", "glob", "row"}
  /\ mpc' = "failed"
  /\ UNCHANGED <<sample, pending, rows, before, mstop>>

(* SIGKILL after stopChild's timeout, or SIGTERM before its handler is in  *)
(* place.                                                                  *)
MonitorKilled ==
  /\ "monitor" \in Faults
  /\ mstop /\ ~MonitorExited
  /\ mpc' = "killed"
  /\ UNCHANGED <<sample, pending, rows, before, mstop>>

MonitorNext ==
  \/ MonitorBoots
  \/ Tick
  \/ StatActive
  \/ Glob
  \/ StatBackup
  \/ Measured
  \/ WriteRow
  \/ MonitorStops
  \/ MonitorFails
  \/ MonitorKilled
=============================================================================
