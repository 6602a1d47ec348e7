---------------------------- MODULE Observation -----------------------------
(***************************************************************************)
(* How a run is observed: the monitor appends samples and the rotator      *)
(* appends events to two files, each stamped with the wall clock by its    *)
(* own process, and the harness joins the files by those stamps when the   *)
(* run is over.  The start time crosses a command line, so it carries no   *)
(* monotonic reading and a clock that is set back shows in the stamps.     *)
(***************************************************************************)
EXTENDS Metrics, Cgroup

CONSTANTS
  Kernels,    \* kernels to run on: their usage files and memory.stat counters
  Levels,     \* values the cache may be charged with
  StartPhase, \* the event a rotation starts with: copy-start or rename
  Rotations,  \* --rotations
  Samples,    \* bound: samples taken
  MaxTime,    \* bound: the clock
  StepsBack   \* bound: times the clock is set back

ASSUME ObservationAssumption ==
  /\ Levels \subseteq Nat /\ Rotations \in Nat
  /\ StartPhase \in {"copy-start", "rename"}
  /\ Kernels \subseteq [files : SUBSET STRING, stat : SUBSET STRING]

VARIABLES
  kernel,    \* the kernel
  now,       \* the wall clock, since the start of the run
  back,      \* times the clock was set back
  stamp,     \* the tick the monitor is answering, or Nil
  rows,      \* samples.csv
  actual,    \* history: the group's charge at each row
  events,    \* events.csv
  rotating,  \* TRUE between a rotation's start and its completion
  done       \* the harness reads the files

vars == <<kernel, now, back, stamp, rows, actual, events, rotating, done>>

Init ==
  /\ kernel \in Kernels
  /\ now = 0 /\ back = 0 /\ stamp = Nil
  /\ rows = <<>> /\ actual = <<>> /\ events = <<>>
  /\ rotating = FALSE /\ done = FALSE

Advance ==
  /\ ~done /\ now < MaxTime
  /\ now' = now + 1
  /\ UNCHANGED <<kernel, back, stamp, rows, actual, events, rotating, done>>

SetBack ==
  /\ ~done /\ back < StepsBack /\ now > 0
  /\ now' = now - 1 /\ back' = back + 1
  /\ UNCHANGED <<kernel, stamp, rows, actual, events, rotating, done>>

(* The ticker fires; the reading follows.  Two ticks are an interval apart *)
(* unless the clock was set back between them.                             *)
TickFires ==
  /\ ~done /\ stamp = Nil /\ Len(rows) < Samples
  /\ back = 0 /\ rows # <<>> => now > rows[Len(rows)].t
  /\ stamp' = now
  /\ UNCHANGED <<kernel, now, back, rows, actual, events, rotating, done>>

(* csv columns: an absent counter is an empty one. *)
ptrString(v) == IF v = Nil THEN <<>> ELSE <<v>>
parsePtr(c)  == IF c = <<>> THEN Nil ELSE c[1]

(* The charge is all the group's; v1's plain cache counter excludes the    *)
(* group's children.                                                       *)
StatAt(level) ==
  [n \in kernel.stat |-> IF n = "cache" /\ "total_cache" \in kernel.stat THEN 0 ELSE level]

(* A kernel without a supported controller or a cache counter ends the     *)
(* monitor, and with it the run, with an error.                            *)
Readable ==
  LET version == Discover(kernel.files)
  IN  version # "none" /\ HasCache(version, StatAt(0))

TakeSample ==
  /\ stamp # Nil
  /\ Readable
  /\ \E level \in Levels :
       LET memory == MemorySample(Discover(kernel.files), StatAt(level))
       IN  /\ rows' = Append(rows, [t |-> stamp, cache |-> memory.cache,
                                    anon |-> ptrString(memory.anon)])
           /\ actual' = Append(actual, level)
  /\ stamp' = Nil
  /\ UNCHANGED <<kernel, now, back, events, rotating, done>>

Event(phase) ==
  [t |-> now, phase |-> phase,
   ordinal |-> Cardinality({k \in DOMAIN events : events[k].phase = StartPhase})
               + IF phase = StartPhase THEN 1 ELSE 0]

StartRotation ==
  /\ ~rotating
  /\ Cardinality({k \in DOMAIN events : events[k].phase = StartPhase}) < Rotations
  /\ events' = Append(events, Event(StartPhase))
  /\ rotating' = TRUE
  /\ UNCHANGED <<kernel, now, back, stamp, rows, actual, done>>

CompleteRotation ==
  /\ rotating
  /\ events' = Append(events, Event("retention-complete"))
  /\ rotating' = FALSE
  /\ UNCHANGED <<kernel, now, back, stamp, rows, actual, done>>

(* The rotator is done and the monitor stopped between two samples. *)
Collect ==
  /\ ~done /\ ~rotating /\ stamp = Nil
  /\ Len(events) = 2 * Rotations
  /\ done' = TRUE
  /\ UNCHANGED <<kernel, now, back, stamp, rows, actual, events, rotating>>

(* The run is over, or its monitor cannot read the kernel. *)
Over == (done \/ ~Readable) /\ UNCHANGED vars

Next ==
  \/ Advance
  \/ SetBack
  \/ TickFires
  \/ TakeSample
  \/ StartRotation
  \/ CompleteRotation
  \/ Collect
  \/ Over

Spec == Init /\ [][Next]_vars

(* What ReadSamples returns. *)
samples == [i \in DOMAIN rows |-> [t     |-> rows[i].t, cache |-> rows[i].cache,
                                   anon  |-> parsePtr(rows[i].anon)]]

(* updatePeaks: absent counters do not take part. *)
PeakAnon == Max({samples[i].anon : i \in {k \in DOMAIN samples : samples[k].anon # Nil}} \cup {0})

-----------------------------------------------------------------------------
Judged == done /\ samples # <<>>

(* Whatever the clock does, a rate above zero was reached: in some interval *)
(* in which time went forward the cache changed at least that fast.  And as *)
(* long as the clock is not set back, what the cache gained and lost        *)
(* accounts for its whole change.                                           *)
RatesFitSteps ==
  Judged
    => LET s == samples
           n == Len(s)
           Reached(bytes, seconds, sign) ==
             bytes > 0 => \E i \in 2..n :
               /\ seconds > 0 /\ s[i].t > s[i - 1].t
               /\ sign * (s[i].cache - s[i - 1].cache) * seconds >= bytes * (s[i].t - s[i - 1].t)
       IN  /\ Reached(positiveBytes(s), positiveSeconds(s), 1)
           /\ Reached(reclaimBytes(s), reclaimSeconds(s), -1)
           /\ back = 0 => positiveBytes(s) - reclaimBytes(s) = s[n].cache - s[1].cache

(* The median and p95 are what counting says: at most half the samples lie  *)
(* below the median and more than half do not exceed it; p95 is the least   *)
(* value that 95 % of the samples do not exceed, for any number of samples. *)
RanksByCounting ==
  Judged
    => LET s == samples
           n == Len(s)
           Below(v)  == Cardinality({i \in DOMAIN s : s[i].cache < v})
           UpTo(v)   == Cardinality({i \in DOMAIN s : s[i].cache <= v})
       IN  /\ 2 * Below(MedianBytes(s)) <= n /\ 2 * UpTo(MedianBytes(s)) > n
           /\ 20 * Below(P95Bytes(s)) < 19 * n /\ 20 * UpTo(P95Bytes(s)) >= 19 * n
           /\ \A k \in 1..60 : 20 * nearestRank(k) < 19 * k /\ 20 * nearestRank(k) + 20 >= 19 * k

(* Sample i lies between the start of a rotation, event k, and its end.     *)
Ends(k) == {c \in DOMAIN events : /\ events[c].ordinal = events[k].ordinal
                                  /\ events[c].phase = "retention-complete"}
Within(i, k) == /\ samples[i].t >= events[k].t
                /\ \E c \in Ends(k) : samples[i].t <= events[c].t

(* Sample j lies that much above sample i, an earlier one. *)
Rises(i, j, bytes) == i < j /\ samples[j].cache - samples[i].cache = bytes

(* A reported transient is a rise between two samples of one rotation, from *)
(* its start to its own end, later rotations not included.  (If the clock   *)
(* was set back so far that a rotation ended before it began, the code      *)
(* looks at all samples stamped after its start.)  And no rotation rose     *)
(* higher above its first sample.                                           *)
TransientHappened ==
  Judged
    => /\ rotationTransient(samples, events) > 0
            => \E k \in Starts(events), i, j \in DOMAIN samples :
                 /\ Rises(i, j, rotationTransient(samples, events))
                 /\ \/ Within(i, k) /\ Within(j, k)
                    \/ /\ \A c \in Ends(k) : events[c].t < events[k].t
                       /\ Ends(k) # {} /\ back > 0
                       /\ samples[i].t >= events[k].t /\ samples[j].t >= events[k].t
       /\ \A k \in Starts(events), i, j \in DOMAIN samples :
            Within(i, k) /\ Within(j, k) /\ (\A h \in DOMAIN samples : Within(h, k) => i <= h)
              => samples[j].cache - samples[i].cache <= rotationTransient(samples, events)

(* With a clock that only advances every sample lies in an interval whose   *)
(* slope is computed, or alone in one: none falls outside the boundaries.   *)
SegmentsCoverSamples ==
  Judged /\ back = 0 => UNION Segments(samples, events) = DOMAIN samples

Pairs(w) == {p \in w \X w : p[1] < p[2]}
pairBytes(s, w) ==
  SumOf([p \in Pairs(w) |-> (s[p[2]].t - s[p[1]].t) * (s[p[2]].cache - s[p[1]].cache)])
pairTimes(s, w) ==
  SumOf([p \in Pairs(w) |-> (s[p[2]].t - s[p[1]].t) * (s[p[2]].t - s[p[1]].t)])

(* Each slope equals the mean of the slopes between all pairs of samples of *)
(* its interval, weighted by the squares of their distances in time: it     *)
(* lies between the steepest fall and the steepest rise.                    *)
SlopeIsPairwise ==
  Judged
    => \A x \in intervalSlopes(samples, events) :
         LET num == pairBytes(samples, x[1])
             den == pairTimes(samples, x[1])
         IN  IF den = 0 THEN x[2] = <<0, 1>> ELSE x[2][1] * den = num * x[2][2]

(* Design: "Missing nonessential counters are emitted as null, not silently *)
(* converted to zero": what the harness reads back is what the kernel had,  *)
(* on both versions, and the cache is always the group's whole charge.      *)
CountersSurvive ==
  \A i \in DOMAIN samples :
    /\ samples[i].cache = actual[i]
    /\ IF kernel.stat \cap {"anon", "total_rss"} = {}
       THEN samples[i].anon = Nil /\ PeakAnon = 0
       ELSE samples[i].anon = actual[i] /\ PeakAnon >= actual[i]
=============================================================================
