--------------------------- MODULE MCObservation ----------------------------
(***************************************************************************)
(* Kernels for TLC: no memory controller, cgroup v2 with and without an    *)
(* anonymous counter, v1 with and without the totals, and v1 without any   *)
(* cache counter.                                                          *)
(***************************************************************************)
EXTENDS Observation

MCKernels ==
  {[files |-> {}, stat |-> {}],
   [files |-> {"memory.current"}, stat |-> {"file", "anon"}],
   [files |-> {"memory.current", "memory.usage_in_bytes"}, stat |-> {"file"}],
   [files |-> {"memory.usage_in_bytes"}, stat |-> {"cache", "total_cache", "total_rss"}],
   [files |-> {"memory.usage_in_bytes"}, stat |-> {"cache"}],
   [files |-> {"memory.usage_in_bytes"}, stat |-> {"total_rss"}]}
=============================================================================
