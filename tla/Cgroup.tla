------------------------------- MODULE Cgroup -------------------------------
(***************************************************************************)
(* internal/cgroup: which accounting files are read, and which counter     *)
(* stands for the cache.  A kernel is the set of usage files it shows and  *)
(* the counters of its memory.stat; Nil is a counter it does not have.     *)
(***************************************************************************)
EXTENDS Integers

Nil == -1

(* Discover: v2 if its file is there, else v1 at either of its roots. *)
Discover(files) ==
  CASE "memory.current" \in files                      -> "v2"
    [] "memory.current" \notin files
       /\ "memory.usage_in_bytes" \in files            -> "v1"
    [] OTHER                                           -> "none"

CacheSource(version, stat) ==
  IF version = "v2" THEN "file"
  ELSE IF "total_cache" \in DOMAIN stat THEN "total_cache" ELSE "cache"

HasCache(version, stat) == CacheSource(version, stat) \in DOMAIN stat

(* Mutation of statPtr: a missing counter reads as zero. *)
statPtrZero(stat, first, second) ==
  IF first \in DOMAIN stat THEN stat[first]
  ELSE IF second \in DOMAIN stat THEN stat[second] ELSE 0

(* The first of two names that memory.stat has. *)
statPtr(stat, first, second) ==
  IF first \in DOMAIN stat THEN stat[first]
  ELSE IF second \in DOMAIN stat THEN stat[second] ELSE Nil

(* Reader.Sample, for the counters the summary draws on. *)
MemorySample(version, stat) ==
  [cache |-> stat[CacheSource(version, stat)],
   anon  |-> statPtr(stat, "anon", "total_rss")]
=============================================================================
