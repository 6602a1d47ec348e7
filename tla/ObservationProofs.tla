------------------------- MODULE ObservationProofs --------------------------
(***************************************************************************)
(* What the harness reads back from samples.csv and events.csv, for every  *)
(* kernel, every number of samples and rotations and any clock.            *)
(***************************************************************************)
EXTENDS Observation, DataLemmas

NoAnon == kernel.stat \cap {"anon", "total_rss"} = {}

SampleRow == [t : Nat, cache : Levels, anon : Seq(Levels)]
EventRow  == [t : Nat, phase : {StartPhase, "retention-complete"}, ordinal : Nat]

Kinds ==
  /\ kernel \in Kernels
  /\ now \in Nat /\ back \in Nat /\ stamp \in Nat \cup {Nil}
  /\ rows \in Seq(SampleRow) /\ actual \in Seq(Levels) /\ Len(actual) = Len(rows)
  /\ events \in Seq(EventRow)

(* Every row says what the kernel had. *)
RowTrue(r, level, absent) ==
  r.cache = level /\ r.anon = IF absent THEN <<>> ELSE <<level>>

RowsTrue == \A i \in DOMAIN rows : RowTrue(rows[i], actual[i], NoAnon)

Observed == Kinds /\ RowsTrue

-----------------------------------------------------------------------------
(* What is appended comes last and changes nothing before.                 *)
LEMMA AppendFacts ==
  ASSUME NEW S, NEW s \in Seq(S), NEW x \in S
  PROVE  /\ Append(s, x) \in Seq(S) /\ Len(Append(s, x)) = Len(s) + 1 /\ Len(s) \in Nat
         /\ DOMAIN s = 1..Len(s) /\ DOMAIN Append(s, x) = 1..Len(s) + 1
         /\ \A i \in 1..Len(s) : Append(s, x)[i] = s[i]
         /\ Append(s, x)[Len(s) + 1] = x
OBVIOUS

(* The counter that stands for the cache holds the group's whole charge,   *)
(* on v1 with the totals and without.                                      *)
LEMMA SampleFacts ==
  ASSUME ObservationAssumption, kernel \in Kernels, Readable, NEW level \in Levels
  PROVE  LET m == MemorySample(Discover(kernel.files), StatAt(level))
         IN  /\ m.cache = level
             /\ m.anon = IF NoAnon THEN Nil ELSE level
<1>1. \A l : DOMAIN StatAt(l) = kernel.stat
  BY DEF StatAt
<1>2. PICK v : v = Discover(kernel.files)
  OBVIOUS
<1>3. CacheSource(v, StatAt(level)) = CacheSource(v, StatAt(0))
  BY <1>1 DEF CacheSource
<1>4. PICK c : c = CacheSource(v, StatAt(level)) /\ c \in kernel.stat
  BY <1>1, <1>2, <1>3 DEF Readable, HasCache
<1>5. c = "cache" => "total_cache" \notin kernel.stat
  BY <1>1, <1>4 DEF CacheSource
<1>6. StatAt(level)[c] = level
  BY <1>4, <1>5 DEF StatAt
<1>7. statPtr(StatAt(level), "anon", "total_rss") = IF NoAnon THEN Nil ELSE level
  BY <1>1 DEF statPtr, NoAnon, StatAt
<1> QED
  BY <1>2, <1>4, <1>6, <1>7 DEF MemorySample

LEMMA OrdinalType ==
  ASSUME Kinds, NEW phase \in {StartPhase, "retention-complete"}
  PROVE  Event(phase) \in EventRow
<1> DEFINE S == {k \in DOMAIN events : events[k].phase = StartPhase}
<1>1. IsFiniteSet(DOMAIN events)
  <2>1. DOMAIN events = 1..Len(events) /\ Len(events) \in Nat
    BY DEF Kinds
  <2> QED
    BY <2>1, FS_Interval
<1>2. Cardinality(S) \in Nat
  BY <1>1, FS_Subset, FS_CardinalityType
<1> HIDE DEF S
<1>3. Event(phase).ordinal \in Nat
  BY <1>2 DEF Event, S
<1> QED
  BY <1>3 DEF Kinds, Event, EventRow

LEMMA ObservedKept ==
  ASSUME Observed, [Next]_vars
  PROVE  Observed'
<1> USE ObservationAssumption
<1>0. Kinds /\ RowsTrue
  BY DEF Observed
<1>1. CASE Advance \/ SetBack \/ TickFires \/ Collect \/ UNCHANGED vars
  <2>1. UNCHANGED <<kernel, rows, actual, events>>
    BY <1>1 DEF Advance, SetBack, TickFires, Collect, vars
  <2>2. now' \in Nat /\ back' \in Nat /\ stamp' \in Nat \cup {Nil}
    BY <1>0, <1>1 DEF Kinds, Advance, SetBack, TickFires, Collect, vars
  <2> QED
    BY <1>0, <2>1, <2>2 DEF Observed, Kinds, RowsTrue, RowTrue, NoAnon
<1>2. CASE TakeSample
  <2>1. PICK level \in Levels :
          LET memory == MemorySample(Discover(kernel.files), StatAt(level))
          IN  /\ rows' = Append(rows, [t |-> stamp, cache |-> memory.cache,
                                       anon |-> ptrString(memory.anon)])
              /\ actual' = Append(actual, level)
    BY <1>2 DEF TakeSample
  <2>2. level \in Nat /\ level # Nil /\ stamp \in Nat
    BY <1>0, <1>2 DEF Kinds, TakeSample, Nil
  <2>3. ptrString(IF NoAnon THEN Nil ELSE level) = IF NoAnon THEN <<>> ELSE <<level>>
    BY <2>2 DEF ptrString
  <2>4. PICK r : r = [t |-> stamp, cache |-> level, anon |-> IF NoAnon THEN <<>> ELSE <<level>>]
    OBVIOUS
  <2>5. rows' = Append(rows, r)
    BY <1>0, <1>2, <2>1, <2>3, <2>4, SampleFacts DEF TakeSample, Kinds
  <2>6. r \in SampleRow
    <3>1. (IF NoAnon THEN <<>> ELSE <<level>>) \in Seq(Levels)
      OBVIOUS
    <3> QED
      BY <2>2, <2>4, <3>1, Zenon DEF SampleRow
  <2>7. /\ UNCHANGED <<kernel, now, back, events>> /\ stamp' = Nil
        /\ actual' = Append(actual, level)
    BY <1>2, <2>1 DEF TakeSample
  <2>8. PICK l \in Nat : l = Len(rows) /\ l = Len(actual)
    BY <1>0, AppendFacts DEF Kinds
  <2>9. /\ rows' \in Seq(SampleRow) /\ Len(rows') = l + 1
        /\ DOMAIN rows = 1..l /\ DOMAIN rows' = 1..l + 1
        /\ \A i \in 1..l : rows'[i] = rows[i]
        /\ rows'[l + 1] = r
    BY <1>0, <2>5, <2>6, <2>8, AppendFacts DEF Kinds
  <2>10. /\ actual' \in Seq(Levels) /\ Len(actual') = l + 1
         /\ \A i \in 1..l : actual'[i] = actual[i]
         /\ actual'[l + 1] = level
    BY <1>0, <2>7, <2>8, AppendFacts DEF Kinds
  <2>11. NoAnon' = NoAnon
    BY <2>7 DEF NoAnon
  <2>12. RowsTrue'
    <3> SUFFICES ASSUME NEW i \in 1..l + 1 PROVE RowTrue(rows'[i], actual'[i], NoAnon)
      BY <2>9, <2>11 DEF RowsTrue
    <3>1. i \in 1..l \/ i = l + 1
      OBVIOUS
    <3>2. CASE i \in 1..l
      BY <1>0, <2>9, <2>10, <3>2 DEF RowsTrue
    <3>3. CASE i = l + 1
      BY <2>4, <2>9, <2>10, <3>3 DEF RowTrue
    <3> QED
      BY <3>1, <3>2, <3>3
  <2>13. Kinds'
    BY <1>0, <2>7, <2>9, <2>10 DEF Kinds
  <2> QED
    BY <2>12, <2>13 DEF Observed
<1>3. CASE StartRotation \/ CompleteRotation
  <2>1. PICK phase \in {StartPhase, "retention-complete"} :
          events' = Append(events, Event(phase))
    BY <1>3 DEF StartRotation, CompleteRotation
  <2>2. UNCHANGED <<kernel, now, back, stamp, rows, actual>>
    BY <1>3 DEF StartRotation, CompleteRotation
  <2>3. events' \in Seq(EventRow)
    BY <1>0, <2>1, OrdinalType, AppendFacts DEF Kinds
  <2> QED
    BY <1>0, <2>2, <2>3 DEF Observed, Kinds, RowsTrue, RowTrue, NoAnon
<1> QED
  BY <1>1, <1>2, <1>3 DEF Next, Over

LEMMA ObservedAlways == Spec => []Observed
<1>1. Init => Observed
  BY DEF Init, Observed, Kinds, RowsTrue
<1>2. Observed /\ [Next]_vars => Observed'
  BY ObservedKept
<1> QED
  BY <1>1, <1>2, PTL DEF Spec

-----------------------------------------------------------------------------
(* What ReadSamples returns: one sample for each row, with the stamp that  *)
(* the row has, the charge and, where the kernel counts it, the anonymous  *)
(* memory.                                                                 *)
LEMMA SamplesRead ==
  ASSUME Observed
  PROVE  /\ DOMAIN samples = 1..Len(rows) /\ Len(rows) \in Nat
         /\ samples \in Seq([t : Nat, cache : Levels, anon : Levels \cup {Nil}])
         /\ Len(samples) = Len(rows)
         /\ \A i \in 1..Len(rows) :
              /\ samples[i].t = rows[i].t
              /\ samples[i].cache = actual[i] /\ actual[i] \in Levels
              /\ samples[i].anon = IF NoAnon THEN Nil ELSE actual[i]
<1> DEFINE read(i) == [t |-> rows[i].t, cache |-> rows[i].cache, anon |-> parsePtr(rows[i].anon)]
<1>1. PICK l \in Nat : l = Len(rows) /\ DOMAIN rows = 1..l /\ DOMAIN actual = 1..l
  BY DEF Observed, Kinds
<1>2. samples = [i \in 1..l |-> read(i)]
  BY <1>1 DEF samples
<1>3. ASSUME NEW i \in 1..l
      PROVE  /\ rows[i].t \in Nat
             /\ rows[i].cache = actual[i] /\ actual[i] \in Levels
             /\ parsePtr(rows[i].anon) = IF NoAnon THEN Nil ELSE actual[i]
  <2>1. RowTrue(rows[i], actual[i], NoAnon) /\ rows[i] \in SampleRow /\ actual[i] \in Levels
    BY <1>1, <1>3 DEF Observed, Kinds, RowsTrue
  <2> QED
    BY <2>1 DEF RowTrue, SampleRow, parsePtr
<1>4. \A i \in 1..l : read(i) \in [t : Nat, cache : Levels, anon : Levels \cup {Nil}]
  BY <1>3
<1>5. \A i \in 1..l : samples[i] = read(i)
  BY <1>2
<1>6. ASSUME NEW i \in 1..l
      PROVE  /\ samples[i].t = rows[i].t
             /\ samples[i].cache = rows[i].cache
             /\ samples[i].anon = parsePtr(rows[i].anon)
  <2>1. PICK a, b, c : a = rows[i].t /\ b = rows[i].cache /\ c = parsePtr(rows[i].anon)
    OBVIOUS
  <2>2. samples[i] = [t |-> a, cache |-> b, anon |-> c]
    BY <1>5, <2>1
  <2>3. samples[i].t = a /\ samples[i].cache = b /\ samples[i].anon = c
    BY <2>2
  <2> QED
    BY <2>1, <2>3
<1> HIDE DEF read
<1>7. samples \in Seq([t : Nat, cache : Levels, anon : Levels \cup {Nil}])
  BY <1>2, <1>4
<1>8. DOMAIN samples = 1..l /\ Len(samples) = l
  BY <1>2, <1>7
<1> QED
  BY <1>1, <1>3, <1>6, <1>7, <1>8

(* Without the counter the peak is zero; with it no sample lies above it.   *)
LEMMA PeakFacts ==
  ASSUME Observed
  PROVE  IF NoAnon THEN PeakAnon = 0
         ELSE \A i \in DOMAIN samples : PeakAnon >= actual[i]
<1> USE ObservationAssumption
<1> DEFINE K == {k \in DOMAIN samples : samples[k].anon # Nil}
           A == {samples[i].anon : i \in K}
           f == [i \in K |-> samples[i].anon]
<1>1. K \in SUBSET (1..Len(rows)) /\ Len(rows) \in Nat
  BY SamplesRead
<1>2. IsFiniteSet(K)
  <2>1. IsFiniteSet(1..Len(rows))
    BY <1>1, FS_Interval
  <2> QED
    BY <1>1, <2>1, FS_Subset
<1>3. A = {f[i] : i \in K}
  OBVIOUS
<1>4. \A i \in K : samples[i].anon \in Nat
  BY SamplesRead DEF Observed, Kinds
<1>5. A \in SUBSET Nat
  BY <1>4
<1>6. PeakAnon = Max(A \cup {0})
  BY DEF PeakAnon
<1> HIDE DEF f, K
<1>7. IsFiniteSet(A)
  <2>1. IsFiniteSet({f[i] : i \in K})
    BY <1>2, FiniteImage
  <2> QED
    BY <1>3, <2>1
<1> HIDE DEF A
<1>8. IsFiniteSet(A \cup {0}) /\ A \cup {0} # {} /\ A \cup {0} \in SUBSET Int
  BY <1>5, <1>7, FS_AddElement
<1>9. PICK m \in A \cup {0} : PeakAnon = m /\ \A y \in A \cup {0} : y <= m
  BY <1>6, <1>8, ExtremeFacts
<1>10. CASE NoAnon
  <2>1. K = {}
    BY <1>10, SamplesRead DEF K
  <2>2. A = {}
    BY <2>1 DEF A
  <2> QED
    BY <1>9, <1>10, <2>2
<1>11. CASE ~NoAnon
  <2> SUFFICES ASSUME NEW i \in DOMAIN samples PROVE PeakAnon >= actual[i]
    BY <1>11
  <2>1. samples[i].anon = actual[i] /\ actual[i] \in Nat
    BY <1>11, SamplesRead
  <2>2. actual[i] \in A
    <3>1. i \in K
      BY <2>1 DEF Nil, K
    <3> QED
      BY <2>1, <3>1 DEF A
  <2>3. m \in Nat
    BY <1>5, <1>9
  <2> QED
    BY <1>9, <2>1, <2>2, <2>3
<1> QED
  BY <1>10, <1>11

(* What the harness reads back is what the kernel had at each tick: the    *)
(* cache is the group's whole charge on every kernel, an absent counter    *)
(* stays absent, and a present one bounds the peak from below.             *)
THEOREM CountersRead == Spec => []CountersSurvive
<1>1. ASSUME Observed PROVE CountersSurvive
  <2>1. ASSUME NEW i \in DOMAIN samples
        PROVE  /\ samples[i].cache = actual[i]
               /\ samples[i].anon = IF NoAnon THEN Nil ELSE actual[i]
    BY <1>1, <2>1, SamplesRead
  <2>2. IF NoAnon THEN PeakAnon = 0
        ELSE \A i \in DOMAIN samples : PeakAnon >= actual[i]
    BY <1>1, PeakFacts
  <2>3. NoAnon <=> kernel.stat \cap {"anon", "total_rss"} = {}
    BY DEF NoAnon
  <2> HIDE DEF NoAnon
  <2> QED
    BY <2>1, <2>2, <2>3 DEF CountersSurvive
<1> QED
  BY <1>1, ObservedAlways, PTL

-----------------------------------------------------------------------------
(* Sequences of samples and of events whose values are natural numbers.    *)
SampleKind == [t : Nat, cache : Nat, anon : Nat \cup {Nil}]
Seen(s)    == s \in Seq(SampleKind)
Heard(e)   == e \in Seq(EventRow)

LEMMA SeenFacts ==
  ASSUME NEW s, Seen(s)
  PROVE  /\ Len(s) \in Nat /\ DOMAIN s = 1..Len(s) /\ IsFiniteSet(DOMAIN s)
         /\ DOMAIN s \in SUBSET Int
         /\ \A i \in DOMAIN s : s[i].t \in Nat /\ s[i].cache \in Nat
<1>1. Len(s) \in Nat /\ DOMAIN s = 1..Len(s)
  BY DEF Seen
<1>2. \A i \in DOMAIN s : s[i] \in SampleKind
  BY DEF Seen
<1>3. \A i \in DOMAIN s : s[i].t \in Nat /\ s[i].cache \in Nat
  BY <1>2 DEF SampleKind
<1> QED
  BY <1>1, <1>3, FS_Interval

LEMMA SamplesSeen ==
  ASSUME Observed
  PROVE  Seen(samples) /\ Heard(events)
<1> USE ObservationAssumption
<1> DEFINE K == [t : Nat, cache : Levels, anon : Levels \cup {Nil}]
<1>1. \A x \in K : x \in SampleKind
  BY DEF SampleKind
<1>2. samples \in Seq(K)
  BY SamplesRead
<1> HIDE DEF K
<1>3. samples \in Seq(SampleKind)
  BY <1>1, <1>2
<1> QED
  BY <1>3 DEF Seen, Heard, Observed, Kinds

(* A rise that is not zero is reached at a sample after the window's first, *)
(* and no sample lies higher above the first.                               *)
LEMMA RiseReached ==
  ASSUME NEW s, Seen(s), NEW w \in SUBSET DOMAIN s
  PROVE  /\ Rise(s, w) \in Nat
         /\ \A i \in w : s[i].cache - s[Min(w)].cache <= Rise(s, w)
         /\ Rise(s, w) > 0
              => \E i, j \in w : i < j /\ s[j].cache - s[i].cache = Rise(s, w)
<1> DEFINE m == Min(w)
           D == {s[i].cache - s[m].cache : i \in w}
           f == [i \in w |-> s[i].cache - s[m].cache]
<1>1. IsFiniteSet(w) /\ w \in SUBSET Int
  BY SeenFacts, FS_Subset
<1>2. CASE w = {}
  <2>1. D = {}
    BY <1>2
  <2>2. IsFiniteSet({0}) /\ {0} \in SUBSET Int /\ {0} # {}
    BY FS_Singleton
  <2>3. Max({0}) = 0
    BY <2>2, ExtremeFacts
  <2>4. D \cup {0} = {0}
    BY <2>1
  <2> HIDE DEF D
  <2>5. Rise(s, w) = 0
    BY <2>3, <2>4 DEF Rise, D
  <2> QED
    BY <1>2, <2>5
<1>3. CASE w # {}
  <2>1. m \in w /\ \A i \in w : m <= i
    BY <1>1, <1>3, ExtremeFacts
  <2> HIDE DEF m
  <2>2. \A i \in w : i \in Int /\ s[i].cache \in Nat
    BY <1>1, SeenFacts
  <2>3. D \in SUBSET Int
    BY <2>1, <2>2
  <2>4. D = {f[i] : i \in w}
    OBVIOUS
  <2> HIDE DEF f
  <2>5. IsFiniteSet(D)
    <3>1. IsFiniteSet({f[i] : i \in w})
      BY <1>1, FiniteImage
    <3> QED
      BY <2>4, <3>1
  <2>6. Rise(s, w) = Max(D \cup {0})
    BY DEF Rise, m
  <2>7. /\ \A d \in D : \E i \in w : d = s[i].cache - s[m].cache
        /\ \A i \in w : s[i].cache - s[m].cache \in D
    OBVIOUS
  <2> HIDE DEF D
  <2>8. IsFiniteSet(D \cup {0}) /\ D \cup {0} # {} /\ D \cup {0} \in SUBSET Int
    BY <2>3, <2>5, FS_AddElement
  <2>9. PICK r \in D \cup {0} : Rise(s, w) = r /\ \A d \in D \cup {0} : d <= r
    BY <2>6, <2>8, ExtremeFacts
  <2>10. r \in Nat
    BY <2>3, <2>9
  <2>11. ASSUME r > 0 PROVE \E i, j \in w : i < j /\ s[j].cache - s[i].cache = r
    <3>1. r \in D
      BY <2>9, <2>11
    <3>2. PICK j \in w : r = s[j].cache - s[m].cache
      BY <2>7, <3>1
    <3>3. m # j
      BY <2>1, <2>2, <2>11, <3>2
    <3>4. m < j
      BY <2>1, <2>2, <3>3
    <3> QED
      BY <2>1, <3>2, <3>4
  <2>12. \A i \in w : s[i].cache - s[m].cache <= r
    BY <2>7, <2>9
  <2> QED
    BY <2>9, <2>10, <2>11, <2>12 DEF m
<1> QED
  BY <1>2, <1>3

(* A transient that is not zero is the rise of one rotation's window, and  *)
(* no window has a higher rise.                                            *)
LEMMA TransientReached ==
  ASSUME NEW s, NEW e, Seen(s), Heard(e)
  PROVE  /\ rotationTransient(s, e) > 0
              => \E k \in Starts(e) : /\ rotationTransient(s, e) = Rise(s, Window(s, e, k))
                                      /\ Rise(s, Window(s, e, k)) > 0
         /\ \A k \in Starts(e) : Rise(s, Window(s, e, k)) <= rotationTransient(s, e)
         /\ rotationTransient(s, e) \in Int
<1> DEFINE D == {Rise(s, Window(s, e, k)) : k \in Starts(e)}
           f == [k \in Starts(e) |-> Rise(s, Window(s, e, k))]
<1>1. \A k : Window(s, e, k) \in SUBSET DOMAIN s
  BY DEF Window
<1>2. \A k \in Starts(e) : Rise(s, Window(s, e, k)) \in Nat
  BY <1>1, RiseReached
<1>3. IsFiniteSet(Starts(e))
  <2>1. Len(e) \in Nat /\ DOMAIN e = 1..Len(e)
    BY DEF Heard
  <2>2. Starts(e) \subseteq DOMAIN e
    BY DEF Starts
  <2>3. IsFiniteSet(DOMAIN e)
    BY <2>1, FS_Interval
  <2> QED
    BY <2>2, <2>3, FS_Subset
<1>4. D = {f[k] : k \in Starts(e)}
  OBVIOUS
<1> HIDE DEF f
<1>5. IsFiniteSet(D)
  <2>1. IsFiniteSet({f[k] : k \in Starts(e)})
    BY <1>3, FiniteImage
  <2> QED
    BY <1>4, <2>1
<1>6. D \in SUBSET Int
  BY <1>2
<1>7. /\ \A d \in D : \E k \in Starts(e) : d = Rise(s, Window(s, e, k))
      /\ \A k \in Starts(e) : Rise(s, Window(s, e, k)) \in D
  OBVIOUS
<1>8. rotationTransient(s, e) = Max(D \cup {0})
  BY DEF rotationTransient
<1> HIDE DEF D
<1>9. IsFiniteSet(D \cup {0}) /\ D \cup {0} # {} /\ D \cup {0} \in SUBSET Int
  BY <1>5, <1>6, FS_AddElement
<1>10. PICK r \in D \cup {0} : rotationTransient(s, e) = r /\ \A d \in D \cup {0} : d <= r
  BY <1>8, <1>9, ExtremeFacts
<1>11. r \in Int /\ \A k \in Starts(e) : Rise(s, Window(s, e, k)) <= r
  BY <1>7, <1>9, <1>10
<1> SUFFICES ASSUME r > 0
             PROVE  \E k \in Starts(e) : /\ r = Rise(s, Window(s, e, k))
                                         /\ Rise(s, Window(s, e, k)) > 0
  BY <1>10, <1>11
<1>12. r \in D
  OBVIOUS
<1> QED
  BY <1>7, <1>12

-----------------------------------------------------------------------------
(* The events of rotation q are the (2q - 1)th and the (2q)th, and while   *)
(* the clock only advances none is stamped earlier than one before it.     *)
EventOf(e, k, q) ==
  \/ k = 2 * q - 1 /\ e[k].phase = StartPhase /\ e[k].ordinal = q
  \/ k = 2 * q /\ e[k].phase = "retention-complete" /\ e[k].ordinal = q

Begun == {k \in DOMAIN events : events[k].phase = StartPhase}

PairedUpTo(q) ==
  /\ Len(events) = IF rotating THEN 2 * q - 1 ELSE 2 * q
  /\ Cardinality(Begun) = q
  /\ \A k \in 1..Len(events) : \E p \in 1..q : EventOf(events, k, p)
  /\ done => ~rotating /\ q = Rotations

InStampOrder ==
  back = 0
    => /\ \A k \in 1..Len(events) : events[k].t <= now
       /\ \A k, l \in 1..Len(events) : k <= l => events[k].t <= events[l].t

Paired ==
  /\ rotating \in BOOLEAN
  /\ \E q \in Nat : PairedUpTo(q)
  /\ InStampOrder

LEMMA PairedKept ==
  ASSUME Observed, Paired, [Next]_vars
  PROVE  Paired'
<1> USE ObservationAssumption
<1>0. /\ now \in Nat /\ back \in Nat /\ events \in Seq(EventRow)
      /\ now' \in Nat /\ back' \in Nat /\ events' \in Seq(EventRow)
  BY ObservedKept DEF Observed, Kinds
<1>1. PICK q \in Nat : PairedUpTo(q)
  BY DEF Paired
<1>2. PICK n \in Nat : n = Len(events) /\ DOMAIN events = 1..n
                      /\ \A k \in 1..n : events[k].t \in Nat
  <2>1. \A k \in 1..Len(events) : events[k] \in EventRow
    BY <1>0
  <2>2. \A x \in EventRow : x.t \in Nat
    BY DEF EventRow
  <2> QED
    BY <1>0, <2>1, <2>2
<1>3. CASE Advance \/ SetBack \/ TickFires \/ TakeSample \/ UNCHANGED vars
  <2>1. UNCHANGED <<events, rotating, done>>
    BY <1>3 DEF Advance, SetBack, TickFires, TakeSample, vars
  <2>2. back' = 0 => back = 0 /\ now' >= now
    BY <1>0, <1>3 DEF Advance, SetBack, TickFires, TakeSample, vars
  <2>3. InStampOrder'
    BY <1>0, <1>2, <2>1, <2>2 DEF Paired, InStampOrder
  <2>4. PairedUpTo(q)'
    BY <1>1, <2>1 DEF PairedUpTo, Begun
  <2> QED
    BY <2>1, <2>3, <2>4 DEF Paired
<1>4. CASE Collect
  <2>1. UNCHANGED <<events, rotating, now, back>> /\ ~rotating /\ n = 2 * Rotations
    BY <1>2, <1>4 DEF Collect
  <2>2. InStampOrder'
    BY <2>1 DEF Paired, InStampOrder
  <2>3. q = Rotations
    BY <1>1, <1>2, <2>1 DEF PairedUpTo
  <2>4. PairedUpTo(q)'
    BY <1>1, <2>1, <2>3 DEF PairedUpTo, Begun
  <2> QED
    BY <2>1, <2>2, <2>4 DEF Paired
<1>5. ASSUME NEW phase \in {StartPhase, "retention-complete"},
             events' = Append(events, Event(phase)), UNCHANGED <<now, back, done>>
      PROVE  /\ Len(events') = n + 1 /\ DOMAIN events' = 1..n + 1
             /\ \A k \in 1..n : events'[k] = events[k]
             /\ events'[n + 1].phase = phase
             /\ events'[n + 1].ordinal = q + IF phase = StartPhase THEN 1 ELSE 0
             /\ InStampOrder'
  <2>1. PICK ev \in EventRow : ev = Event(phase)
    BY OrdinalType DEF Observed
  <2>2. ev.phase = phase /\ ev.t = now /\ ev.ordinal = q + IF phase = StartPhase THEN 1 ELSE 0
    BY <1>1, <2>1 DEF Event, PairedUpTo, Begun
  <2>3. /\ Len(events') = n + 1 /\ DOMAIN events' = 1..n + 1
        /\ \A k \in 1..n : events'[k] = events[k]
        /\ events'[n + 1] = ev
    BY <1>0, <1>2, <1>5, <2>1, AppendFacts
  <2>4. InStampOrder'
    <3> SUFFICES ASSUME back = 0
                 PROVE  /\ \A k \in 1..n + 1 : events'[k].t <= now
                        /\ \A k, l \in 1..n + 1 : k <= l => events'[k].t <= events'[l].t
      BY <1>5, <2>3 DEF InStampOrder
    <3>1. \A k \in 1..n + 1 : k \in 1..n \/ k = n + 1
      OBVIOUS
    <3>2. /\ \A k \in 1..n : events[k].t <= now
          /\ \A k, l \in 1..n : k <= l => events[k].t <= events[l].t
      BY <1>2 DEF Paired, InStampOrder
    <3>3. \A k \in 1..n + 1 : events'[k].t <= now
      BY <1>0, <2>2, <2>3, <3>1, <3>2
    <3>4. ASSUME NEW k \in 1..n + 1, NEW l \in 1..n + 1, k <= l
          PROVE  events'[k].t <= events'[l].t
      <4>1. CASE l \in 1..n
        <5>1. k \in 1..n
          BY <3>4, <4>1
        <5> QED
          BY <2>3, <3>2, <3>4, <4>1, <5>1
      <4>2. CASE l = n + 1
        BY <2>2, <2>3, <3>3, <4>2
      <4> QED
        BY <3>1, <4>1, <4>2
    <3> QED
      BY <3>3, <3>4
  <2> QED
    BY <2>2, <2>3, <2>4
<1>6. ASSUME NEW r \in Nat, r >= q, NEW p \in 1..r, Len(events') = n + 1,
             \A k \in 1..n : events'[k] = events[k], EventOf(events', n + 1, p)
      PROVE  \A k \in 1..Len(events') : \E o \in 1..r : EventOf(events', k, o)
  <2> SUFFICES ASSUME NEW k \in 1..n + 1 PROVE \E o \in 1..r : EventOf(events', k, o)
    BY <1>6
  <2>1. CASE k \in 1..n
    <3>1. PICK o \in 1..q : EventOf(events, k, o)
      BY <1>1, <1>2, <2>1 DEF PairedUpTo
    <3>2. o \in 1..r /\ EventOf(events', k, o)
      BY <1>6, <2>1, <3>1 DEF EventOf
    <3> QED
      BY <3>2
  <2>2. CASE k = n + 1
    BY <1>6, <2>2
  <2> QED
    BY <2>1, <2>2
<1>7. CASE StartRotation
  <2>1. /\ events' = Append(events, Event(StartPhase)) /\ ~rotating /\ rotating' = TRUE
        /\ UNCHANGED <<now, back, done>> /\ Cardinality(Begun) < Rotations
    BY <1>7 DEF StartRotation, Begun
  <2>2. /\ Len(events') = n + 1 /\ DOMAIN events' = 1..n + 1
        /\ \A k \in 1..n : events'[k] = events[k]
        /\ events'[n + 1].phase = StartPhase /\ events'[n + 1].ordinal = q + 1
        /\ InStampOrder'
    BY <1>5, <2>1
  <2>3. n = 2 * q /\ ~done
    BY <1>1, <1>2, <2>1 DEF PairedUpTo
  <2>4. Begun' = Begun \cup {n + 1} /\ n + 1 \notin Begun
    <3>1. Begun' = {k \in 1..n + 1 : events'[k].phase = StartPhase}
      BY <2>2 DEF Begun
    <3>2. Begun = {k \in 1..n : events[k].phase = StartPhase}
      BY <1>2 DEF Begun
    <3> QED
      BY <2>2, <3>1, <3>2
  <2>5. Cardinality(Begun') = q + 1
    <3>1. IsFiniteSet(Begun)
      <4>1. Begun \in SUBSET (1..n) /\ IsFiniteSet(1..n)
        BY <1>2, FS_Interval DEF Begun
      <4> QED
        BY <4>1, FS_Subset
    <3> QED
      BY <1>1, <2>4, <3>1, FS_AddElement DEF PairedUpTo
  <2>6. \A k \in 1..Len(events') : \E o \in 1..q + 1 : EventOf(events', k, o)
    <3>1. EventOf(events', n + 1, q + 1)
      BY <2>2, <2>3 DEF EventOf
    <3> QED
      BY <1>6, <2>2, <3>1
  <2>7. PairedUpTo(q + 1)'
    BY <2>1, <2>2, <2>3, <2>5, <2>6 DEF PairedUpTo
  <2> QED
    BY <2>1, <2>2, <2>7 DEF Paired
<1>8. CASE CompleteRotation
  <2>1. /\ events' = Append(events, Event("retention-complete")) /\ rotating /\ rotating' = FALSE
        /\ UNCHANGED <<now, back, done>>
    BY <1>8 DEF CompleteRotation
  <2>2. /\ Len(events') = n + 1 /\ DOMAIN events' = 1..n + 1
        /\ \A k \in 1..n : events'[k] = events[k]
        /\ events'[n + 1].phase = "retention-complete" /\ events'[n + 1].ordinal = q
        /\ InStampOrder'
    BY <1>5, <2>1
  <2>3. n + 1 = 2 * q /\ ~done /\ q \in 1..q
    BY <1>1, <1>2, <2>1 DEF PairedUpTo
  <2>4. Begun' = Begun
    BY <1>2, <2>2 DEF Begun
  <2>5. \A k \in 1..Len(events') : \E o \in 1..q : EventOf(events', k, o)
    <3>1. EventOf(events', n + 1, q)
      BY <2>2, <2>3 DEF EventOf
    <3>2. q \in Nat /\ q >= q
      OBVIOUS
    <3> QED
      BY <1>6, <2>2, <2>3, <3>1, <3>2
  <2>6. PairedUpTo(q)'
    BY <1>1, <2>1, <2>2, <2>3, <2>4, <2>5 DEF PairedUpTo
  <2> QED
    BY <2>1, <2>2, <2>6 DEF Paired
<1> QED
  BY <1>3, <1>4, <1>7, <1>8 DEF Next, Over

LEMMA PairedAlways == Spec => []Paired
<1>1. Init => Paired
  <2> SUFFICES ASSUME Init PROVE Paired
    OBVIOUS
  <2>1. Begun = {} /\ Len(events) = 0 /\ ~rotating /\ ~done
    BY DEF Init, Begun
  <2>2. PairedUpTo(0)
    BY <2>1, FS_EmptySet DEF PairedUpTo
  <2>3. InStampOrder
    <3>1. 1..Len(events) = {}
      BY <2>1
    <3> QED
      BY <3>1, Zenon DEF InStampOrder
  <2>4. rotating \in BOOLEAN
    BY DEF Init
  <2> QED
    BY <2>2, <2>3, <2>4 DEF Paired
<1>2. Observed /\ Paired /\ [Next]_vars => Paired'
  BY PairedKept
<1> QED
  BY <1>1, <1>2, ObservedAlways, PTL DEF Spec

(* When the run is over each rotation has one completion of its own: its   *)
(* window ends there, unless that is stamped before the rotation began.    *)
LEMMA WindowFacts ==
  ASSUME Observed, Paired, done, NEW k \in Starts(events)
  PROVE  /\ Window(samples, events, k) \in SUBSET DOMAIN samples
         /\ \/ \A i \in DOMAIN samples : i \in Window(samples, events, k) <=> Within(i, k)
            \/ /\ \A c \in Ends(k) : events[c].t < events[k].t
               /\ Ends(k) # {} /\ back > 0
               /\ \A i \in Window(samples, events, k) : samples[i].t >= events[k].t
               /\ \A i \in DOMAIN samples : ~Within(i, k)
<1> USE ObservationAssumption
<1>1. PICK q \in Nat : PairedUpTo(q)
  BY DEF Paired
<1>2. PICK n \in Nat : n = Len(events) /\ DOMAIN events = 1..n
                      /\ \A c \in 1..n : events[c].t \in Nat
  <2>1. events \in Seq(EventRow)
    BY DEF Observed, Kinds
  <2>2. \A c \in 1..Len(events) : events[c] \in EventRow
    BY <2>1
  <2>3. \A x \in EventRow : x.t \in Nat
    BY DEF EventRow
  <2> QED
    BY <2>1, <2>2, <2>3
<1>3. n = 2 * q
  BY <1>1, <1>2 DEF PairedUpTo
<1>4. \A c \in 1..n : \E p \in 1..q : EventOf(events, c, p)
  BY <1>1, <1>2 DEF PairedUpTo
<1>5. k \in 1..n /\ events[k].phase # "retention-complete"
  BY <1>2 DEF Starts
<1>6. PICK r \in 1..q : k = 2 * r - 1 /\ events[k].ordinal = r
  BY <1>4, <1>5 DEF EventOf
<1>7. PICK c : c = 2 * r /\ c \in 1..n
  BY <1>3
<1>8. events[c].phase = "retention-complete" /\ events[c].ordinal = r
  <2>1. PICK p \in 1..q : EventOf(events, c, p)
    BY <1>4, <1>7
  <2>2. p = r
    BY <1>7, <2>1 DEF EventOf
  <2> QED
    BY <1>7, <2>1, <2>2 DEF EventOf
<1>9. ASSUME NEW d \in 1..n, events[d].ordinal = r, events[d].phase = "retention-complete"
      PROVE  d = c
  <2>1. PICK p \in 1..q : EventOf(events, d, p)
    BY <1>4
  <2> QED
    BY <1>7, <1>9, <2>1 DEF EventOf
<1>10. Ends(k) = {c}
  BY <1>2, <1>6, <1>7, <1>8, <1>9 DEF Ends
<1>11. Completions(events, k) = IF events[c].t >= events[k].t THEN {c} ELSE {}
  BY <1>2, <1>6, <1>7, <1>8, <1>9 DEF Completions
<1>12. Window(samples, events, k) \in SUBSET DOMAIN samples
  BY DEF Window
<1>13. CASE events[c].t >= events[k].t
  <2>1. Min({c}) = c
    <3>1. IsFiniteSet({c})
      BY FS_Singleton
    <3>2. {c} \in SUBSET Int /\ {c} # {}
      BY <1>7
    <3>3. Min({c}) \in {c}
      BY <3>1, <3>2, ExtremeFacts
    <3> QED
      BY <3>3
  <2>2. Completions(events, k) = {c} /\ Min(Completions(events, k)) = c
    BY <1>11, <1>13, <2>1
  <2>3. \A i \in DOMAIN samples :
          i \in Window(samples, events, k)
            <=> samples[i].t >= events[k].t /\ samples[i].t <= events[c].t
    BY <2>2 DEF Window
  <2>4. \A i \in DOMAIN samples : i \in Window(samples, events, k) <=> Within(i, k)
    BY <1>10, <2>3 DEF Within
  <2> QED
    BY <1>12, <2>4
<1>14. CASE ~(events[c].t >= events[k].t)
  <2>1. events[c].t < events[k].t /\ events[c].t \in Nat /\ events[k].t \in Nat
    BY <1>2, <1>5, <1>7, <1>14
  <2>2. back > 0
    <3>1. back # 0
      BY <1>2, <1>5, <1>6, <1>7, <2>1 DEF Paired, InStampOrder
    <3> QED
      BY <3>1 DEF Observed, Kinds
  <2>3. \A i \in Window(samples, events, k) : samples[i].t >= events[k].t
    BY DEF Window
  <2>4. \A i \in DOMAIN samples : ~Within(i, k)
    <3> SUFFICES ASSUME NEW i \in DOMAIN samples, Within(i, k) PROVE FALSE
      OBVIOUS
    <3>1. samples[i].t >= events[k].t /\ samples[i].t <= events[c].t
      BY <1>10 DEF Within
    <3>2. samples[i].t \in Nat
      BY SamplesSeen, SeenFacts
    <3> QED
      BY <2>1, <3>1, <3>2
  <2> QED
    BY <1>10, <1>12, <2>1, <2>2, <2>3, <2>4
<1> QED
  BY <1>13, <1>14

(* A transient that the harness reports is a rise between two samples that *)
(* lie between the start and the completion of one rotation, or the clock  *)
(* was set back so far that the rotation was over before it began; and no  *)
(* rotation's samples rose higher above its first: for every number of     *)
(* samples and rotations.                                                  *)
THEOREM TransientsAreRises == Spec => []TransientHappened
<1>1. ASSUME Observed, Paired PROVE TransientHappened
  <2> DEFINE s == samples
             m == rotationTransient(s, events)
             w(k) == Window(s, events, k)
  <2> SUFFICES ASSUME Judged
               PROVE  /\ m > 0
                           => \E k \in Starts(events), i, j \in DOMAIN s :
                                /\ Rises(i, j, m)
                                /\ \/ Within(i, k) /\ Within(j, k)
                                   \/ /\ \A c \in Ends(k) : events[c].t < events[k].t
                                      /\ Ends(k) # {} /\ back > 0
                                      /\ s[i].t >= events[k].t /\ s[j].t >= events[k].t
                      /\ \A k \in Starts(events), i, j \in DOMAIN s :
                           Within(i, k) /\ Within(j, k)
                             /\ (\A h \in DOMAIN s : Within(h, k) => i <= h)
                             => s[j].cache - s[i].cache <= m
    BY DEF TransientHappened
  <2>1. Seen(s) /\ Heard(events)
    BY <1>1, SamplesSeen
  <2>2. ASSUME NEW k \in Starts(events)
        PROVE  /\ w(k) \in SUBSET DOMAIN s
               /\ \/ \A i \in DOMAIN s : i \in w(k) <=> Within(i, k)
                  \/ /\ \A c \in Ends(k) : events[c].t < events[k].t
                     /\ Ends(k) # {} /\ back > 0
                     /\ \A i \in w(k) : s[i].t >= events[k].t
                     /\ \A i \in DOMAIN s : ~Within(i, k)
    BY <1>1, WindowFacts DEF Judged
  <2>3. \A i, j, b : Rises(i, j, b) <=> i < j /\ s[j].cache - s[i].cache = b
    BY DEF Rises
  <2>4. /\ m > 0 => \E k \in Starts(events) : m = Rise(s, w(k)) /\ Rise(s, w(k)) > 0
        /\ \A k \in Starts(events) : Rise(s, w(k)) <= m
        /\ m \in Int
    BY <2>1, TransientReached
  <2> HIDE DEF s, m, w
  <2>5. ASSUME m > 0
        PROVE  \E k \in Starts(events), i, j \in DOMAIN s :
                 /\ Rises(i, j, m)
                 /\ \/ Within(i, k) /\ Within(j, k)
                    \/ /\ \A c \in Ends(k) : events[c].t < events[k].t
                       /\ Ends(k) # {} /\ back > 0
                       /\ s[i].t >= events[k].t /\ s[j].t >= events[k].t
    <3>1. PICK k \in Starts(events) : m = Rise(s, w(k)) /\ Rise(s, w(k)) > 0
      BY <2>4, <2>5
    <3>2. PICK i, j \in w(k) : i < j /\ s[j].cache - s[i].cache = Rise(s, w(k))
      BY <2>1, <2>2, <3>1, RiseReached
    <3>3. Rises(i, j, m) /\ i \in DOMAIN s /\ j \in DOMAIN s
      BY <2>2, <2>3, <3>1, <3>2
    <3>4. \/ Within(i, k) /\ Within(j, k)
          \/ /\ \A c \in Ends(k) : events[c].t < events[k].t
             /\ Ends(k) # {} /\ back > 0
             /\ s[i].t >= events[k].t /\ s[j].t >= events[k].t
      BY <2>2, <3>2, <3>3
    <3> QED
      BY <3>3, <3>4
  <2>6. ASSUME NEW k \in Starts(events), NEW i \in DOMAIN s, NEW j \in DOMAIN s,
               Within(i, k), Within(j, k), \A h \in DOMAIN s : Within(h, k) => i <= h
        PROVE  s[j].cache - s[i].cache <= m
    <3>1. i \in w(k) /\ j \in w(k) /\ w(k) \in SUBSET DOMAIN s
      BY <2>2, <2>6
    <3>2. \A h \in w(k) : i <= h
      BY <2>2, <2>6
    <3>3. IsFiniteSet(w(k)) /\ w(k) \in SUBSET Int
      BY <2>1, <3>1, SeenFacts, FS_Subset
    <3>4. Min(w(k)) = i
      <4>1. Min(w(k)) \in w(k) /\ Min(w(k)) <= i
        BY <3>1, <3>3, ExtremeFacts
      <4>2. i \in Int /\ Min(w(k)) \in Int /\ i <= Min(w(k))
        BY <3>1, <3>2, <3>3, <4>1
      <4> QED
        BY <4>1, <4>2
    <3>5. Rise(s, w(k)) \in Nat /\ s[j].cache - s[i].cache <= Rise(s, w(k))
      BY <2>1, <3>1, <3>4, RiseReached
    <3>6. s[j].cache \in Nat /\ s[i].cache \in Nat
      BY <2>1, SeenFacts
    <3> QED
      BY <2>4, <3>5, <3>6
  <2> QED
    BY <2>5, <2>6
<1> QED
  BY <1>1, ObservedAlways, PairedAlways, PTL

-----------------------------------------------------------------------------
(* While the clock only advances, every sample is stamped later than the   *)
(* one before, the one being taken included.                               *)
Ordered ==
  back = 0
    => /\ \A i \in 2..Len(rows) : rows[i].t > rows[i - 1].t
       /\ stamp # Nil /\ rows # <<>> => stamp > rows[Len(rows)].t

LEMMA OrderedKept ==
  ASSUME Observed, Ordered, [Next]_vars
  PROVE  Ordered'
<1>1. CASE Advance \/ StartRotation \/ CompleteRotation \/ Collect \/ UNCHANGED vars
  <2>1. UNCHANGED <<back, stamp, rows>>
    BY <1>1 DEF Advance, StartRotation, CompleteRotation, Collect, vars
  <2> QED
    BY <2>1 DEF Ordered
<1>2. CASE SetBack
  <2>1. back' # 0
    BY <1>2 DEF Observed, Kinds, SetBack
  <2> QED
    BY <2>1 DEF Ordered
<1>3. CASE TickFires
  <2>1. UNCHANGED <<back, rows>> /\ stamp' = now
        /\ (back = 0 /\ rows # <<>> => now > rows[Len(rows)].t)
    BY <1>3 DEF TickFires
  <2> QED
    BY <2>1 DEF Ordered
<1>4. CASE TakeSample
  <2>1. PICK r : rows' = Append(rows, r) /\ r.t = stamp /\ stamp # Nil
    BY <1>4 DEF TakeSample
  <2>2. back' = back /\ stamp' = Nil
    BY <1>4 DEF TakeSample
  <2>3. PICK l \in Nat : l = Len(rows) /\ (l = 0 <=> rows = <<>>)
    BY DEF Observed, Kinds
  <2>4. Len(rows') = l + 1 /\ rows'[l + 1] = r /\ \A i \in 1..l : rows'[i] = rows[i]
    BY <2>1, <2>3 DEF Observed, Kinds
  <2> SUFFICES ASSUME back = 0, NEW i \in 2..l + 1
               PROVE  rows'[i].t > rows'[i - 1].t
    BY <2>2, <2>4 DEF Ordered
  <2>5. CASE i \in 2..l
    <3>1. i \in 1..l /\ i - 1 \in 1..l
      BY <2>5
    <3>2. rows[i].t > rows[i - 1].t
      BY <2>3, <2>5 DEF Ordered
    <3> QED
      BY <2>4, <3>1, <3>2
  <2>6. CASE i = l + 1 /\ l # 0
    <3>1. i - 1 = l /\ l \in 1..l
      BY <2>6
    <3>2. stamp > rows[l].t
      BY <2>1, <2>3, <2>6 DEF Ordered
    <3> QED
      BY <2>1, <2>4, <2>6, <3>1, <3>2
  <2> QED
    BY <2>5, <2>6
<1> QED
  BY <1>1, <1>2, <1>3, <1>4 DEF Next, Over

LEMMA OrderedAlways == Spec => []Ordered
<1>1. Init => Ordered
  BY DEF Init, Ordered
<1>2. Observed /\ Ordered /\ [Next]_vars => Ordered'
  BY OrderedKept
<1> QED
  BY <1>1, <1>2, ObservedAlways, PTL DEF Spec

-----------------------------------------------------------------------------
(* SumOf adds up a function's values.                                      *)
LEMMA SumOfIsSum ==
  ASSUME NEW S, IsFiniteSet(S), NEW f \in [S -> Int]
  PROVE  SumsTo(f, S, SumOf(f))
<1> DEFINE rule(h) == [T \in SUBSET S |->
                         IF T = {} THEN 0
                         ELSE LET x == CHOOSE y \in T : TRUE IN f[x] + h[T \ {x}]]
           iter == CHOOSE h : h = rule(h)
<1>1. SumOf(f) = iter[S]
  <2>1. DOMAIN f = S
    OBVIOUS
  <2> QED
    BY <2>1 DEF SumOf, FoldFunction, FoldFunctionOnSet, MapThenFoldSet
<1>2. \A h : SumRule(h, f, S) <=> h = rule(h)
  BY DEF SumRule, Taken
<1>3. \E h : SumRule(h, f, S)
  BY SumExists
<1> HIDE DEF rule
<1>4. iter = rule(iter)
  BY <1>2, <1>3
<1>5. SumRule(iter, f, S)
  BY <1>2, <1>4
<1> QED
  BY <1>1, <1>5 DEF SumsTo

(* The steps between samples that the harness sums up.                     *)
Bytes(s, S)   == [i \in S |-> Step(s, i).bytes]
Seconds(s, S) == [i \in S |-> Step(s, i).seconds]
Lost(s, S)    == [i \in S |-> -Step(s, i).bytes]

LEMMA StepsType ==
  ASSUME NEW s, Seen(s)
  PROVE  /\ Rising(s) \in SUBSET (2..Len(s)) /\ IsFiniteSet(Rising(s))
         /\ Falling(s) \in SUBSET (2..Len(s)) /\ IsFiniteSet(Falling(s))
         /\ \A S \in SUBSET (2..Len(s)) :
              /\ Bytes(s, S) \in [S -> Int] /\ Seconds(s, S) \in [S -> Int]
              /\ Lost(s, S) \in [S -> Int]
<1>1. ASSUME NEW i \in 2..Len(s)
      PROVE  Step(s, i).bytes \in Int /\ Step(s, i).seconds \in Int
  <2>1. i \in DOMAIN s /\ i - 1 \in DOMAIN s
    BY SeenFacts
  <2>2. s[i].t \in Nat /\ s[i - 1].t \in Nat /\ s[i].cache \in Nat /\ s[i - 1].cache \in Nat
    BY <2>1, SeenFacts
  <2> QED
    BY <2>2 DEF Step
<1>2. Rising(s) \in SUBSET (2..Len(s)) /\ Falling(s) \in SUBSET (2..Len(s))
  BY DEF Rising, Falling, Forward
<1>3. IsFiniteSet(2..Len(s))
  BY SeenFacts, FS_Interval
<1>4. IsFiniteSet(Rising(s)) /\ IsFiniteSet(Falling(s))
  BY <1>2, <1>3, FS_Subset
<1>5. ASSUME NEW S \in SUBSET (2..Len(s))
      PROVE  /\ Bytes(s, S) \in [S -> Int] /\ Seconds(s, S) \in [S -> Int]
             /\ Lost(s, S) \in [S -> Int]
  <2>1. Bytes(s, S) \in [S -> Int] /\ Seconds(s, S) \in [S -> Int]
    BY <1>1 DEF Bytes, Seconds
  <2>2. Lost(s, S) \in [S -> Int]
    BY <1>1 DEF Lost
  <2> QED
    BY <2>1, <2>2
<1> QED
  BY <1>2, <1>4, <1>5

(* With increasing stamps every step counts, for a gain or for a loss.     *)
LEMMA StepsSplit ==
  ASSUME NEW s, Seen(s), \A i \in 2..Len(s) : s[i].t > s[i - 1].t
  PROVE  Rising(s) \cup Falling(s) = 2..Len(s) /\ Rising(s) \cap Falling(s) = {}
<1>1. ASSUME NEW i \in 2..Len(s)
      PROVE  Step(s, i).seconds > 0 /\ Step(s, i).bytes \in Int
  <2>1. i \in DOMAIN s /\ i - 1 \in DOMAIN s /\ s[i].t > s[i - 1].t
    BY SeenFacts
  <2>2. s[i].t \in Nat /\ s[i - 1].t \in Nat /\ s[i].cache \in Nat /\ s[i - 1].cache \in Nat
    BY <2>1, SeenFacts
  <2> QED
    BY <2>1, <2>2 DEF Step
<1>2. Forward(s) = 2..Len(s)
  BY <1>1 DEF Forward
<1>3. \A i \in 2..Len(s) : (Step(s, i).bytes >= 0) <=> ~(Step(s, i).bytes < 0)
  BY <1>1
<1> QED
  BY <1>2, <1>3, Zenon DEF Rising, Falling

(* With increasing stamps the sums account for the whole change of the     *)
(* cache and for the whole time.                                           *)
LEMMA SumsAccount ==
  ASSUME NEW s, Seen(s), s # <<>>, \A i \in 2..Len(s) : s[i].t > s[i - 1].t
  PROVE  /\ positiveBytes(s) - reclaimBytes(s) = s[Len(s)].cache - s[1].cache
         /\ positiveSeconds(s) + reclaimSeconds(s) = s[Len(s)].t - s[1].t
<1>1. PICK n \in Nat : n = Len(s) /\ n # 0 /\ DOMAIN s = 1..n
  BY SeenFacts DEF Seen
<1> DEFINE c == [i \in 1..n |-> s[i].cache]
           t == [i \in 1..n |-> s[i].t]
<1>2. c \in [1..n -> Int] /\ t \in [1..n -> Int]
  BY <1>1, SeenFacts
<1>3. \A i \in 2..n : /\ i \in 1..n /\ i - 1 \in 1..n
                      /\ s[i].cache \in Nat /\ s[i - 1].cache \in Nat
  BY <1>1, SeenFacts
<1>4. ASSUME NEW i \in 2..n
      PROVE  /\ Step(s, i).bytes = c[i] - c[i - 1]
             /\ Step(s, i).seconds = t[i] - t[i - 1]
             /\ -Step(s, i).bytes = c[i - 1] - c[i]
  <2>1. c[i] = s[i].cache /\ c[i - 1] = s[i - 1].cache /\ t[i] = s[i].t /\ t[i - 1] = s[i - 1].t
    BY <1>3
  <2> HIDE DEF c, t
  <2>2. Step(s, i).bytes = c[i] - c[i - 1] /\ Step(s, i).seconds = t[i] - t[i - 1]
    BY <2>1 DEF Step
  <2>3. -(c[i] - c[i - 1]) = c[i - 1] - c[i]
    BY <1>3, <2>1
  <2> QED
    BY <2>2, <2>3
<1>5. c[n] = s[n].cache /\ c[1] = s[1].cache /\ t[n] = s[n].t /\ t[1] = s[1].t
  BY <1>1
<1> HIDE DEF c, t
<1>6. PICK A, B : A = Rising(s) /\ B = Falling(s)
  OBVIOUS
<1>7. /\ A \in SUBSET (2..n) /\ B \in SUBSET (2..n) /\ A \cup B = 2..n /\ A \cap B = {}
      /\ IsFiniteSet(A) /\ IsFiniteSet(B)
      /\ Bytes(s, A) \in [A -> Int] /\ Lost(s, B) \in [B -> Int]
      /\ Seconds(s, A) \in [A -> Int] /\ Seconds(s, B) \in [B -> Int]
  BY <1>1, <1>6, StepsType, StepsSplit
<1>8. Together(positiveBytes(s), reclaimBytes(s), c[n] - c[1], FALSE)
  <2>1. positiveBytes(s) = SumOf(Bytes(s, A)) /\ reclaimBytes(s) = SumOf(Lost(s, B))
    BY <1>6 DEF positiveBytes, reclaimBytes, Bytes, Lost
  <2>2. SumsTo(Bytes(s, A), A, positiveBytes(s)) /\ SumsTo(Lost(s, B), B, reclaimBytes(s))
    BY <1>7, <2>1, SumOfIsSum
  <2>3. \A i \in A : Bytes(s, A)[i] = c[i] - c[i - 1]
    BY <1>4, <1>7 DEF Bytes
  <2>4. \A i \in B : Lost(s, B)[i] = Down(c, i, FALSE)
    BY <1>4, <1>7 DEF Lost, Down
  <2> QED
    BY <1>1, <1>2, <1>7, <2>2, <2>3, <2>4, Telescope
<1>9. Together(positiveSeconds(s), reclaimSeconds(s), t[n] - t[1], TRUE)
  <2>1. positiveSeconds(s) = SumOf(Seconds(s, A)) /\ reclaimSeconds(s) = SumOf(Seconds(s, B))
    BY <1>6 DEF positiveSeconds, reclaimSeconds, Seconds
  <2>2. SumsTo(Seconds(s, A), A, positiveSeconds(s)) /\ SumsTo(Seconds(s, B), B, reclaimSeconds(s))
    BY <1>7, <2>1, SumOfIsSum
  <2>3. \A i \in A : Seconds(s, A)[i] = t[i] - t[i - 1]
    BY <1>4, <1>7 DEF Seconds
  <2>4. \A i \in B : Seconds(s, B)[i] = Down(t, i, TRUE)
    BY <1>4, <1>7 DEF Seconds, Down
  <2> QED
    BY <1>1, <1>2, <1>7, <2>2, <2>3, <2>4, Telescope
<1> QED
  BY <1>1, <1>5, <1>8, <1>9 DEF Together

(* What two sums over a set have for a ratio, some element reaches.        *)
LEMMA Mediant ==
  ASSUME NEW S, IsFiniteSet(S), NEW f \in [S -> Int], NEW g \in [S -> Int],
         \A i \in S : g[i] > 0,
         NEW F \in Int, NEW G \in Int, SumsTo(f, S, F), SumsTo(g, S, G), F > 0
  PROVE  G > 0 /\ \E i \in S : f[i] * G >= F * g[i]
<1>1. PICK a : SumRule(a, f, S) /\ F = a[S]
  BY DEF SumsTo
<1>2. PICK b : SumRule(b, g, S) /\ G = b[S]
  BY DEF SumsTo
<1>3. \A U \in SUBSET S : IsFiniteSet(U) /\ Cardinality(U) \in Nat
  BY FS_Subset, FS_CardinalityType
<1>4. a[{}] = 0 /\ \A U \in SUBSET S : a[U] \in Int
  BY <1>1, <1>3, SumPart
<1>5. b[{}] = 0 /\ \A U \in SUBSET S : b[U] \in Int
  BY <1>2, <1>3, SumPart
<1>6. Removes(a, f, S) /\ Removes(b, g, S)
  BY <1>1, <1>2, SumRemove
<1> DEFINE below(U) == U # {} => b[U] > 0 /\ (a[U] * G < F * b[U] \/ \E i \in S : f[i] * G >= F * g[i])
           N == {n \in Nat : \A U \in SUBSET S : Cardinality(U) = n => below(U)}
<1>7. 0 \in N
  BY <1>3, FS_EmptySet
<1>8. ASSUME NEW n \in Nat, n \in N PROVE n + 1 \in N
  <2> SUFFICES ASSUME NEW U \in SUBSET S, Cardinality(U) = n + 1 PROVE below(U)
    OBVIOUS
  <2>1. U # {} /\ IsFiniteSet(U)
    BY <1>3, FS_EmptySet
  <2>2. PICK i : i \in U /\ i \in S
    BY <2>1
  <2>3. PICK R : R = U \ {i}
    OBVIOUS
  <2>4. R \in SUBSET S /\ Cardinality(R) = n
    <3>1. Cardinality(U \ {i}) = Cardinality(U) - 1
      BY <2>1, <2>2, FS_RemoveElement
    <3> QED
      BY <2>3, <3>1
  <2>5. a[U] = f[i] + a[R] /\ b[U] = g[i] + b[R]
    BY <1>6, <2>1, <2>2, <2>3 DEF Removes
  <2>6. below(R)
    BY <1>8, <2>4
  <2>7. PICK x, y, u, v \in Int : x = f[i] /\ y = g[i] /\ u = a[R] /\ v = b[R]
    BY <1>4, <1>5, <2>2, <2>4
  <2>8. y > 0
    BY <2>2, <2>7
  <2>9. (x + u) * G = x * G + u * G /\ F * (y + v) = F * y + F * v
    OBVIOUS
  <2>10. x * G < F * y \/ \E j \in S : f[j] * G >= F * g[j]
    BY <2>2, <2>7
  <2>11. PICK p, q, m, r \in Int : p = x * G /\ q = u * G /\ m = F * y /\ r = F * v
    OBVIOUS
  <2>12. CASE R = {}
    <3>1. u = 0 /\ v = 0
      BY <1>4, <1>5, <2>7, <2>12
    <3>2. q = 0 /\ r = 0
      BY <2>11, <3>1
    <3> QED
      BY <2>5, <2>7, <2>8, <2>9, <2>10, <2>11, <3>1, <3>2
  <2>13. CASE R # {}
    <3>1. v > 0 /\ (q < r \/ \E j \in S : f[j] * G >= F * g[j])
      BY <2>6, <2>7, <2>11, <2>13
    <3> HIDE DEF below
    <3>2. (x + u) * G < F * (y + v) \/ \E j \in S : f[j] * G >= F * g[j]
      BY <2>9, <2>10, <2>11, <3>1
    <3>3. y + v > 0
      BY <2>8, <3>1
    <3> QED
      BY <2>5, <2>7, <3>2, <3>3 DEF below
  <2> QED
    BY <2>12, <2>13
<1>9. below(S)
  <2> HIDE DEF N
  <2>1. Nat \subseteq N
    BY <1>7, <1>8, SetInduction
  <2>2. Cardinality(S) \in N
    BY <1>3, <2>1
  <2> QED
    BY <2>2 DEF N
<1>10. S # {}
  BY <1>1, <1>4
<1>11. PICK z \in Int : z = F * G
  OBVIOUS
<1> QED
  BY <1>1, <1>2, <1>9, <1>10, <1>11

(* A rate above zero is reached in an interval in which time went forward. *)
ReachedBy(s, bytes, seconds, sign) ==
  bytes > 0 => \E i \in 2..Len(s) :
    /\ seconds > 0 /\ s[i].t > s[i - 1].t
    /\ sign * (s[i].cache - s[i - 1].cache) * seconds >= bytes * (s[i].t - s[i - 1].t)

LEMMA RatesReached ==
  ASSUME NEW s, Seen(s)
  PROVE  /\ ReachedBy(s, positiveBytes(s), positiveSeconds(s), 1)
         /\ ReachedBy(s, reclaimBytes(s), reclaimSeconds(s), -1)
<1>1. \A i \in 2..Len(s) : /\ s[i].t \in Nat /\ s[i - 1].t \in Nat
                           /\ s[i].cache \in Nat /\ s[i - 1].cache \in Nat
  BY SeenFacts
<1>2. ASSUME NEW S \in SUBSET (2..Len(s)), IsFiniteSet(S),
             \A i \in S : Step(s, i).seconds > 0,
             NEW f \in [S -> Int], NEW sign \in Int,
             \A i \in S : f[i] = sign * Step(s, i).bytes,
             NEW bytes, NEW seconds, bytes = SumOf(f), seconds = SumOf(Seconds(s, S))
      PROVE  ReachedBy(s, bytes, seconds, sign)
  <2>1. Seconds(s, S) \in [S -> Int]
    BY StepsType
  <2>2. SumsTo(f, S, bytes) /\ SumsTo(Seconds(s, S), S, seconds)
    BY <1>2, <2>1, SumOfIsSum
  <2>3. bytes \in Int /\ seconds \in Int
    <3>1. ASSUME NEW h \in [S -> Int], NEW x, SumsTo(h, S, x) PROVE x \in Int
      <4>1. PICK g : SumRule(g, h, S) /\ x = g[S]
        BY <3>1 DEF SumsTo
      <4> QED
        BY <1>2, <4>1, SumPart
    <3> QED
      BY <2>1, <2>2, <3>1
  <2>4. \A i \in S : Seconds(s, S)[i] > 0
    BY <1>2 DEF Seconds
  <2> SUFFICES ASSUME bytes > 0
               PROVE  \E i \in 2..Len(s) :
                        /\ seconds > 0 /\ s[i].t > s[i - 1].t
                        /\ sign * (s[i].cache - s[i - 1].cache) * seconds
                             >= bytes * (s[i].t - s[i - 1].t)
    BY DEF ReachedBy
  <2>5. seconds > 0 /\ \E i \in S : f[i] * seconds >= bytes * Seconds(s, S)[i]
    BY <1>2, <2>1, <2>2, <2>3, <2>4, Mediant
  <2>6. PICK i \in S : f[i] * seconds >= bytes * Seconds(s, S)[i]
    BY <2>5
  <2>7. /\ Seconds(s, S)[i] = s[i].t - s[i - 1].t
        /\ f[i] = sign * (s[i].cache - s[i - 1].cache)
    BY <1>2 DEF Seconds, Step
  <2>8. s[i].t > s[i - 1].t
    <3>1. s[i].t - s[i - 1].t > 0 /\ s[i].t \in Nat /\ s[i - 1].t \in Nat
      BY <1>1, <2>4, <2>7
    <3> QED
      BY <3>1
  <2> QED
    BY <2>5, <2>6, <2>7, <2>8
<1>3. \A i \in Rising(s) \cup Falling(s) : Step(s, i).seconds > 0
  BY DEF Rising, Falling, Forward
<1>4. ReachedBy(s, positiveBytes(s), positiveSeconds(s), 1)
  <2>1. PICK A : A = Rising(s)
    OBVIOUS
  <2>2. positiveBytes(s) = SumOf(Bytes(s, A)) /\ positiveSeconds(s) = SumOf(Seconds(s, A))
    BY <2>1 DEF positiveBytes, positiveSeconds, Bytes, Seconds
  <2>3. A \in SUBSET (2..Len(s)) /\ IsFiniteSet(A) /\ Bytes(s, A) \in [A -> Int]
    BY <2>1, StepsType
  <2>4. \A i \in A : Bytes(s, A)[i] = 1 * Step(s, i).bytes
    <3>1. \A i \in A : Bytes(s, A)[i] \in Int /\ Bytes(s, A)[i] = Step(s, i).bytes
      BY <2>3 DEF Bytes
    <3> QED
      BY <3>1
  <2> QED
    BY <1>2, <1>3, <2>1, <2>2, <2>3, <2>4
<1>5. ReachedBy(s, reclaimBytes(s), reclaimSeconds(s), -1)
  <2>1. PICK A : A = Falling(s)
    OBVIOUS
  <2>2. reclaimBytes(s) = SumOf(Lost(s, A)) /\ reclaimSeconds(s) = SumOf(Seconds(s, A))
    BY <2>1 DEF reclaimBytes, reclaimSeconds, Lost, Seconds
  <2>3. /\ A \in SUBSET (2..Len(s)) /\ IsFiniteSet(A) /\ Lost(s, A) \in [A -> Int]
        /\ Bytes(s, A) \in [A -> Int]
    BY <2>1, StepsType
  <2>4. PICK m \in Int : m = -1
    OBVIOUS
  <2>5. \A i \in A : Lost(s, A)[i] = m * Step(s, i).bytes
    <3>1. \A i \in A : /\ Bytes(s, A)[i] \in Int /\ Bytes(s, A)[i] = Step(s, i).bytes
                       /\ Lost(s, A)[i] = -Step(s, i).bytes
      BY <2>3 DEF Bytes, Lost
    <3> QED
      BY <2>4, <3>1
  <2>6. ReachedBy(s, reclaimBytes(s), reclaimSeconds(s), m)
    BY <1>2, <1>3, <2>1, <2>2, <2>3, <2>5
  <2> QED
    BY <2>4, <2>6
<1> QED
  BY <1>4, <1>5

(* A rate that the harness reports was reached in some interval, whatever  *)
(* the clock did; and as long as it only advances, what is reported as     *)
(* gained and lost is the cache's whole change over the run: for every     *)
(* number of samples.                                                      *)
THEOREM RatesAddUp == Spec => []RatesFitSteps
<1>1. ASSUME Observed, Ordered PROVE RatesFitSteps
  <2> DEFINE s == samples
  <2>1. Seen(s)
    BY <1>1, SamplesSeen
  <2>2. Len(s) = Len(rows) /\ Len(rows) \in Nat /\ DOMAIN s = 1..Len(s)
    BY <1>1, SamplesRead
  <2>3. \A i \in 1..Len(rows) : s[i].t = rows[i].t
    BY <1>1, SamplesRead
  <2> HIDE DEF s
  <2>4. ASSUME back = 0 PROVE \A i \in 2..Len(s) : s[i].t > s[i - 1].t
    <3> SUFFICES ASSUME NEW i \in 2..Len(s) PROVE s[i].t > s[i - 1].t
      OBVIOUS
    <3>1. i \in 1..Len(rows) /\ i - 1 \in 1..Len(rows) /\ i \in 2..Len(rows)
      BY <2>2
    <3>2. rows[i].t > rows[i - 1].t
      BY <1>1, <2>4, <3>1 DEF Ordered
    <3> QED
      BY <2>3, <3>1, <3>2
  <2>5. ASSUME back = 0, s # <<>>
        PROVE  positiveBytes(s) - reclaimBytes(s) = s[Len(s)].cache - s[1].cache
    BY <2>1, <2>4, <2>5, SumsAccount
  <2>6. /\ ReachedBy(s, positiveBytes(s), positiveSeconds(s), 1)
        /\ ReachedBy(s, reclaimBytes(s), reclaimSeconds(s), -1)
    BY <2>1, RatesReached
  <2> QED
    BY <2>5, <2>6 DEF RatesFitSteps, ReachedBy, Judged, s
<1> QED
  BY <1>1, ObservedAlways, OrderedAlways, PTL

-----------------------------------------------------------------------------
(* Sorting.                                                                *)
Numbers(q)   == q \in Seq(Int)
Place(q, j)  == Cardinality(NotAfter(q, j))
At(q, k)     == CHOOSE j \in DOMAIN q : Cardinality(NotAfter(q, j)) = k

(* Of two elements one comes first, and has the smaller place.             *)
LEMMA PlaceFacts ==
  ASSUME NEW q, Numbers(q)
  PROVE  /\ DOMAIN q = 1..Len(q) /\ Len(q) \in Nat
         /\ \A j \in DOMAIN q : /\ Place(q, j) \in 1..Len(q)
                                /\ IsFiniteSet(NotAfter(q, j)) /\ j \in NotAfter(q, j)
         /\ \A i, j \in DOMAIN q :
              q[i] < q[j] \/ (q[i] = q[j] /\ i < j) => Place(q, i) < Place(q, j)
<1>1. DOMAIN q = 1..Len(q) /\ Len(q) \in Nat /\ \A j \in DOMAIN q : q[j] \in Int
  BY DEF Numbers
<1>2. IsFiniteSet(1..Len(q)) /\ Cardinality(1..Len(q)) = Len(q)
  BY <1>1, FS_Interval
<1>3. ASSUME NEW j \in DOMAIN q
      PROVE  /\ Place(q, j) \in 1..Len(q)
             /\ IsFiniteSet(NotAfter(q, j)) /\ j \in NotAfter(q, j)
  <2>1. j \in NotAfter(q, j)
    BY <1>1 DEF NotAfter
  <2>2. NotAfter(q, j) \in SUBSET (1..Len(q))
    BY <1>1 DEF NotAfter
  <2>3. IsFiniteSet(NotAfter(q, j)) /\ Cardinality(NotAfter(q, j)) <= Len(q)
    BY <1>2, <2>2, FS_Subset
  <2>4. Cardinality(NotAfter(q, j)) \in Nat /\ Cardinality(NotAfter(q, j)) # 0
    BY <2>1, <2>3, FS_CardinalityType, FS_EmptySet
  <2> QED
    BY <1>1, <2>1, <2>3, <2>4 DEF Place
<1>4. ASSUME NEW i \in DOMAIN q, NEW j \in DOMAIN q, q[i] < q[j] \/ (q[i] = q[j] /\ i < j)
      PROVE  Place(q, i) < Place(q, j)
  <2>1. i \in Int /\ j \in Int /\ \A k \in DOMAIN q : k \in Int
    BY <1>1
  <2>2. NotAfter(q, i) \in SUBSET NotAfter(q, j) /\ j \notin NotAfter(q, i)
    BY <1>1, <1>4, <2>1 DEF NotAfter
  <2>3. Cardinality(NotAfter(q, i)) <= Cardinality(NotAfter(q, j))
        /\ Cardinality(NotAfter(q, i)) # Cardinality(NotAfter(q, j))
    BY <1>3, <2>2, FS_Subset
  <2>4. Place(q, i) \in Int /\ Place(q, j) \in Int
    BY <1>3
  <2> QED
    BY <2>3, <2>4 DEF Place
<1> QED
  BY <1>1, <1>3, <1>4

(* No two elements share a place, so that every place is taken.            *)
LEMMA AtFacts ==
  ASSUME NEW q, Numbers(q)
  PROVE  /\ \A k \in 1..Len(q) : At(q, k) \in DOMAIN q /\ Place(q, At(q, k)) = k
         /\ \A j \in DOMAIN q : At(q, Place(q, j)) = j
<1>1. DOMAIN q = 1..Len(q) /\ Len(q) \in Nat /\ \A j \in DOMAIN q : q[j] \in Int /\ j \in Int
  BY DEF Numbers
<1> DEFINE f == [j \in 1..Len(q) |-> Place(q, j)]
<1>2. f \in [1..Len(q) -> 1..Len(q)]
  BY <1>1, PlaceFacts
<1>3. \A i, j \in DOMAIN q : Place(q, i) = Place(q, j) => i = j
  <2> SUFFICES ASSUME NEW i \in DOMAIN q, NEW j \in DOMAIN q, i # j
               PROVE  Place(q, i) # Place(q, j)
    OBVIOUS
  <2>1. Place(q, i) \in Int /\ Place(q, j) \in Int
    BY <1>1, PlaceFacts
  <2>2. \/ q[i] < q[j] \/ (q[i] = q[j] /\ i < j)
        \/ q[j] < q[i] \/ (q[j] = q[i] /\ j < i)
    BY <1>1
  <2>3. Place(q, i) < Place(q, j) \/ Place(q, j) < Place(q, i)
    BY <2>2, PlaceFacts
  <2> QED
    BY <2>1, <2>3
<1>4. f \in Injection(1..Len(q), 1..Len(q))
  BY <1>1, <1>2, <1>3 DEF Injection, IsInjective
<1>5. IsFiniteSet(1..Len(q))
  BY <1>1, FS_Interval
<1> HIDE DEF f
<1>6. f \in Surjection(1..Len(q), 1..Len(q))
  BY <1>4, <1>5, FS_Injection
<1>7. \A k \in 1..Len(q) : \E j \in DOMAIN q : Place(q, j) = k
  <2>1. \A k \in 1..Len(q) : \E j \in 1..Len(q) : f[j] = k
    BY <1>6 DEF Surjection
  <2> QED
    BY <1>1, <2>1 DEF f
<1>8. \A k \in 1..Len(q) : At(q, k) \in DOMAIN q /\ Place(q, At(q, k)) = k
  BY <1>7 DEF At, Place
<1>9. ASSUME NEW j \in DOMAIN q PROVE At(q, Place(q, j)) = j
  <2>1. Place(q, j) \in 1..Len(q)
    BY PlaceFacts
  <2>2. At(q, Place(q, j)) \in DOMAIN q /\ Place(q, At(q, Place(q, j))) = Place(q, j)
    BY <1>8, <2>1
  <2> QED
    BY <1>3, <2>2
<1> QED
  BY <1>8, <1>9

(* The sorted values are the given ones, in ascending order.               *)
LEMMA SortedFacts ==
  ASSUME NEW q, Numbers(q)
  PROVE  /\ Numbers(Sorted(q)) /\ Len(Sorted(q)) = Len(q) /\ DOMAIN Sorted(q) = 1..Len(q)
         /\ \A k \in 1..Len(q) : Sorted(q)[k] = q[At(q, k)]
         /\ \A j \in DOMAIN q : Sorted(q)[Place(q, j)] = q[j]
         /\ \A k, l \in 1..Len(q) : k <= l => Sorted(q)[k] <= Sorted(q)[l]
<1>1. DOMAIN q = 1..Len(q) /\ Len(q) \in Nat /\ \A j \in DOMAIN q : q[j] \in Int
  BY DEF Numbers
<1>2. Sorted(q) = [k \in 1..Len(q) |-> q[At(q, k)]]
  BY <1>1 DEF Sorted, At
<1>3. \A k \in 1..Len(q) : Sorted(q)[k] = q[At(q, k)] /\ q[At(q, k)] \in Int
  BY <1>1, <1>2, AtFacts
<1>4. Sorted(q) \in Seq(Int) /\ Len(Sorted(q)) = Len(q) /\ DOMAIN Sorted(q) = 1..Len(q)
  <2>1. Sorted(q) \in [1..Len(q) -> Int]
    BY <1>2, <1>3
  <2> QED
    BY <1>1, <2>1
<1>5. ASSUME NEW j \in DOMAIN q PROVE Sorted(q)[Place(q, j)] = q[j]
  BY <1>3, AtFacts, PlaceFacts
<1>6. ASSUME NEW k \in 1..Len(q), NEW l \in 1..Len(q), k <= l
      PROVE  Sorted(q)[k] <= Sorted(q)[l]
  <2> SUFFICES ASSUME q[At(q, l)] < q[At(q, k)] PROVE FALSE
    BY <1>3
  <2>1. Place(q, At(q, l)) < Place(q, At(q, k))
    BY AtFacts, PlaceFacts
  <2> QED
    BY <1>6, <2>1, AtFacts
<1> QED
  BY <1>3, <1>4, <1>5, <1>6 DEF Numbers

(* Counting: fewer than m elements lie below the m-th of the sorted ones,  *)
(* and at least m do not exceed it.                                        *)
Less(q, v)    == {i \in DOMAIN q : q[i] < v}
AtMost(q, v)  == {i \in DOMAIN q : q[i] <= v}

LEMMA SortedCounts ==
  ASSUME NEW q, Numbers(q), NEW m \in 1..Len(q)
  PROVE  /\ Cardinality(Less(q, Sorted(q)[m])) \in Nat
         /\ Cardinality(Less(q, Sorted(q)[m])) <= m - 1
         /\ Cardinality(AtMost(q, Sorted(q)[m])) \in Nat
         /\ Cardinality(AtMost(q, Sorted(q)[m])) >= m
<1>1. DOMAIN q = 1..Len(q) /\ Len(q) \in Nat /\ \A j \in DOMAIN q : q[j] \in Int
  BY DEF Numbers
<1>2. PICK a : a = At(q, m)
  OBVIOUS
<1>3. a \in DOMAIN q /\ Sorted(q)[m] = q[a] /\ Place(q, a) = m
  BY <1>2, AtFacts, SortedFacts
<1>4. IsFiniteSet(DOMAIN q)
  BY <1>1, FS_Interval
<1>5. IsFiniteSet(NotAfter(q, a)) /\ a \in NotAfter(q, a) /\ Cardinality(NotAfter(q, a)) = m
  BY <1>3, PlaceFacts DEF Place
<1>6. Less(q, q[a]) \in SUBSET (NotAfter(q, a) \ {a})
  BY <1>1, <1>3 DEF Less, NotAfter
<1>7. NotAfter(q, a) \in SUBSET AtMost(q, q[a]) /\ AtMost(q, q[a]) \in SUBSET DOMAIN q
  BY <1>1, <1>3 DEF AtMost, NotAfter
<1>8. IsFiniteSet(NotAfter(q, a) \ {a}) /\ Cardinality(NotAfter(q, a) \ {a}) = m - 1
  BY <1>5, FS_RemoveElement
<1>9. Cardinality(Less(q, q[a])) <= m - 1 /\ Cardinality(Less(q, q[a])) \in Nat
  <2>1. IsFiniteSet(Less(q, q[a])) /\ Cardinality(Less(q, q[a])) <= Cardinality(NotAfter(q, a) \ {a})
    BY <1>6, <1>8, FS_Subset
  <2> QED
    BY <1>8, <2>1, FS_CardinalityType
<1>10. IsFiniteSet(AtMost(q, q[a]))
  BY <1>4, <1>7, FS_Subset
<1>11. Cardinality(AtMost(q, q[a])) >= m /\ Cardinality(AtMost(q, q[a])) \in Nat
  <2>1. Cardinality(NotAfter(q, a)) <= Cardinality(AtMost(q, q[a]))
    BY <1>7, <1>10, FS_Subset
  <2>2. Cardinality(AtMost(q, q[a])) \in Nat
    BY <1>10, FS_CardinalityType
  <2> QED
    BY <1>5, <2>1, <2>2
<1> QED
  BY <1>3, <1>9, <1>11

(* The nearest rank is the least that leaves at most a twentieth above it. *)
LEMMA NearestRank ==
  ASSUME NEW n \in Nat, n # 0
  PROVE  /\ nearestRank(n) \in 0..n - 1
         /\ 20 * nearestRank(n) < 19 * n
         /\ 20 * nearestRank(n) + 20 >= 19 * n
<1>1. PICK d : d = (19 * n + 19) \div 20
  OBVIOUS
<1>2. d \in Int /\ 20 * d <= 19 * n + 19 /\ 19 * n + 19 < 20 * d + 20
  BY <1>1
<1>3. d - 1 \in 0..n - 1
  BY <1>2
<1>4. nearestRank(n) = d - 1
  BY <1>1, <1>3 DEF nearestRank
<1> QED
  BY <1>2, <1>3, <1>4

LEMMA MiddleRank ==
  ASSUME NEW n \in Nat, n # 0
  PROVE  /\ (n \div 2) + 1 \in 1..n
         /\ 2 * (n \div 2) <= n /\ 2 * (n \div 2) + 2 > n
OBVIOUS

(* The median and the p95 that the harness reports are what counting the   *)
(* samples says, for every number of samples and in whatever order.        *)
THEOREM RanksAreCounts == Spec => []RanksByCounting
<1>1. ASSUME Observed PROVE RanksByCounting
  <2> DEFINE s == samples
  <2>1. Seen(s)
    BY <1>1, SamplesSeen
  <2> HIDE DEF s
  <2>2. PICK n \in Nat : n = Len(s) /\ DOMAIN s = 1..n /\ (s # <<>> => n # 0)
    BY <2>1, SeenFacts DEF Seen
  <2>3. PICK q : q = [i \in DOMAIN s |-> s[i].cache]
    OBVIOUS
  <2>4. Numbers(q) /\ Len(q) = n /\ DOMAIN q = DOMAIN s
    <3>1. q \in [1..n -> Int]
      BY <2>1, <2>2, <2>3, SeenFacts
    <3> QED
      BY <2>2, <3>1 DEF Numbers
  <2>5. Values(s) = Sorted(q)
    BY <2>3 DEF Values
  <2>6. \A v : /\ {i \in DOMAIN s : s[i].cache < v} = Less(q, v)
               /\ {i \in DOMAIN s : s[i].cache <= v} = AtMost(q, v)
    BY <2>3, <2>4 DEF Less, AtMost
  <2>7. ASSUME s # <<>>
        PROVE  /\ 2 * Cardinality(Less(q, MedianBytes(s))) <= n
               /\ 2 * Cardinality(AtMost(q, MedianBytes(s))) > n
    <3>1. PICK m : m = n \div 2
      OBVIOUS
    <3>2. m \in Int /\ m + 1 \in 1..Len(q) /\ 2 * m <= n /\ 2 * m + 2 > n
      BY <2>2, <2>4, <2>7, <3>1, MiddleRank
    <3>3. MedianBytes(s) = Sorted(q)[m + 1]
      BY <2>2, <2>5, <3>1 DEF MedianBytes
    <3>4. PICK b, u \in Nat : /\ b = Cardinality(Less(q, MedianBytes(s))) /\ b <= (m + 1) - 1
                              /\ u = Cardinality(AtMost(q, MedianBytes(s))) /\ u >= m + 1
      BY <2>4, <3>2, <3>3, SortedCounts
    <3>5. b <= m /\ 2 * b <= n /\ 2 * u > n
      BY <3>2, <3>4
    <3> QED
      BY <3>4, <3>5
  <2>8. ASSUME s # <<>>
        PROVE  /\ 20 * Cardinality(Less(q, P95Bytes(s))) < 19 * n
               /\ 20 * Cardinality(AtMost(q, P95Bytes(s))) >= 19 * n
    <3>1. PICK m : m = nearestRank(n)
      OBVIOUS
    <3>2. m \in 0..n - 1 /\ 20 * m < 19 * n /\ 20 * m + 20 >= 19 * n
      BY <2>2, <2>8, <3>1, NearestRank
    <3>3. m \in Int /\ m + 1 \in 1..Len(q)
      BY <2>4, <3>2
    <3>4. P95Bytes(s) = Sorted(q)[m + 1]
      BY <2>2, <2>5, <3>1 DEF P95Bytes
    <3>5. PICK b, u \in Nat : /\ b = Cardinality(Less(q, P95Bytes(s))) /\ b <= (m + 1) - 1
                              /\ u = Cardinality(AtMost(q, P95Bytes(s))) /\ u >= m + 1
      BY <2>4, <3>3, <3>4, SortedCounts
    <3>6. b <= m /\ 20 * b < 19 * n /\ 20 * u >= 19 * n
      BY <3>2, <3>3, <3>5
    <3> QED
      BY <3>5, <3>6
  <2>9. \A k \in 1..60 : 20 * nearestRank(k) < 19 * k /\ 20 * nearestRank(k) + 20 >= 19 * k
    BY NearestRank
  <2> QED
    BY <2>2, <2>6, <2>7, <2>8, <2>9 DEF RanksByCounting, Judged, s
<1> QED
  BY <1>1, ObservedAlways, PTL

-----------------------------------------------------------------------------
(* Between two numbers of an ascending sequence there is, for every number *)
(* from the one to the other, a pair of neighbours that it lies between.   *)
LEMMA Between ==
  ASSUME NEW b, Numbers(b), NEW x \in Int,
         \A k, l \in 1..Len(b) : k <= l => b[k] <= b[l],
         NEW l \in 1..Len(b), NEW h \in 1..Len(b), l # h, b[l] <= x, x <= b[h]
  PROVE  \E k \in 2..Len(b) : b[k - 1] <= x /\ x <= b[k]
<1>1. Len(b) \in Nat /\ DOMAIN b = 1..Len(b) /\ \A k \in 1..Len(b) : b[k] \in Int
  BY DEF Numbers
<1>2. CASE h < l
  <2>1. l \in 2..Len(b) /\ l - 1 \in 1..Len(b) /\ h <= l - 1 /\ l - 1 <= l
    BY <1>1, <1>2
  <2>2. b[h] <= b[l - 1] /\ b[l - 1] <= b[l]
    BY <2>1
  <2>3. b[l - 1] \in Int /\ b[l] \in Int /\ b[h] \in Int
    BY <1>1, <2>1
  <2>4. b[l - 1] <= x /\ x <= b[l]
    BY <2>2, <2>3
  <2> QED
    BY <2>1, <2>4
<1>3. CASE l < h
  <2> DEFINE U == {k \in Nat : k \in 1..Len(b) /\ l < k /\ x <= b[k]}
  <2>1. h \in U /\ U \in SUBSET Nat
    BY <1>1, <1>3
  <2> HIDE DEF U
  <2>2. PICK k \in U : \A y \in U : k <= y
    BY <2>1, LeastNatural
  <2>3. k \in Nat /\ k \in 1..Len(b) /\ l < k /\ x <= b[k]
    BY <2>2 DEF U
  <2>4. k \in 2..Len(b) /\ k - 1 \in Nat /\ k - 1 \in 1..Len(b) /\ ~(k <= k - 1)
    BY <1>1, <2>3
  <2>5. k - 1 \notin U
    BY <2>2, <2>4
  <2>6. b[k - 1] <= x
    <3>1. CASE l = k - 1
      BY <3>1
    <3>2. CASE l # k - 1
      <4>1. l < k - 1
        BY <1>1, <2>3, <3>2
      <4>2. ~(x <= b[k - 1])
        BY <2>4, <2>5, <4>1 DEF U
      <4>3. b[k - 1] \in Int
        BY <1>1, <2>4
      <4> QED
        BY <4>2, <4>3
    <3> QED
      BY <3>1, <3>2
  <2> QED
    BY <2>3, <2>4, <2>6
<1> QED
  BY <1>1, <1>2, <1>3

LEMMA CompletionTimesType ==
  ASSUME NEW e, Heard(e)
  PROVE  CompletionTimes(e) \in Seq(Int)
<1> DEFINE S == Seq(Int)
           part(k) == IF e[k].phase = "retention-complete" THEN <<e[k].t>> ELSE <<>>
           f == [k \in DOMAIN e |-> part(k)]
<1>1. PICK n \in Nat : n = Len(e) /\ DOMAIN e = 1..n /\ \A k \in 1..n : e[k] \in EventRow
  BY DEF Heard
<1>2. \A k \in 1..n : part(k) \in S
  <2> SUFFICES ASSUME NEW k \in 1..n PROVE part(k) \in S
    OBVIOUS
  <2>1. e[k].t \in Int
    BY <1>1 DEF EventRow
  <2>2. <<e[k].t>> \in S /\ <<>> \in S
    BY <2>1
  <2> QED
    BY <2>2
<1>3. CompletionTimes(e) = FlattenSeq(f)
  BY DEF CompletionTimes
<1> HIDE DEF part
<1>4. f \in [1..n -> S] /\ f = [k \in 1..n |-> part(k)]
  BY <1>1, <1>2
<1> HIDE DEF f
<1>5. CASE n # 0
  BY <1>3, <1>4, <1>5, FlattenType
<1>6. CASE n = 0
  <2>1. f \in Seq(S) /\ Len(f) = 0
    BY <1>4, <1>6
  <2>2. f = <<>>
    BY <2>1
  <2>3. Len(<<>>) = 0
    OBVIOUS
  <2>4. FlattenSeq(<<>>) = <<>>
    BY <2>3, Zenon DEF FlattenSeq
  <2>5. CompletionTimes(e) = <<>>
    BY <1>3, <2>2, <2>4, Zenon
  <2> QED
    BY <2>5
<1> QED
  BY <1>5, <1>6

(* The boundaries are ascending, and the first and the last sample's       *)
(* stamps are two of them.                                                 *)
LEMMA BoundaryFacts ==
  ASSUME NEW s, NEW e, Seen(s), Heard(e), s # <<>>
  PROVE  LET b == Boundaries(s, e)
         IN  /\ Numbers(b)
             /\ \A k, l \in 1..Len(b) : k <= l => b[k] <= b[l]
             /\ \E l, h \in 1..Len(b) : l # h /\ b[l] = s[1].t /\ b[h] = s[Len(s)].t
<1>1. PICK first, last : first = s[1].t /\ last = s[Len(s)].t
  OBVIOUS
<1>2. first \in Int /\ last \in Int
  <2>1. 1 \in DOMAIN s /\ Len(s) \in DOMAIN s
    BY SeenFacts DEF Seen
  <2> QED
    BY <1>1, <2>1, SeenFacts
<1>3. PICK c : c = CompletionTimes(e) /\ c \in Seq(Int)
  BY CompletionTimesType
<1>4. PICK q : q = <<first>> \o c \o <<last>>
  OBVIOUS
<1>5. /\ q \in Seq(Int) /\ Len(q) = Len(c) + 2 /\ Len(c) \in Nat
      /\ q[1] = first /\ q[Len(c) + 2] = last /\ DOMAIN q = 1..Len(c) + 2
  BY <1>2, <1>3, <1>4
<1>6. Numbers(q)
  BY <1>5 DEF Numbers
<1>7. Boundaries(s, e) = Sorted(q)
  BY <1>1, <1>3, <1>4 DEF Boundaries
<1>8. PICK n \in Nat : n = Len(c) + 2 /\ n = Len(q) /\ DOMAIN q = 1..n /\ q[n] = last /\ n >= 2
  BY <1>5
<1>9. PICK l, h : l = Place(q, 1) /\ h = Place(q, n)
  OBVIOUS
<1>10. 1 \in DOMAIN q /\ n \in DOMAIN q /\ 1 # n
  BY <1>8
<1>11. l \in 1..n /\ h \in 1..n
  BY <1>6, <1>8, <1>9, <1>10, PlaceFacts
<1>12. l # h
  BY <1>6, <1>9, <1>10, AtFacts
<1>13. Sorted(q)[l] = first /\ Sorted(q)[h] = last
  BY <1>5, <1>6, <1>8, <1>9, <1>10, SortedFacts
<1>14. /\ Numbers(Sorted(q)) /\ Len(Sorted(q)) = n
       /\ \A k, j \in 1..n : k <= j => Sorted(q)[k] <= Sorted(q)[j]
  BY <1>6, <1>8, SortedFacts
<1> QED
  BY <1>1, <1>7, <1>11, <1>12, <1>13, <1>14

(* With increasing stamps every sample lies between the first and the last. *)
LEMMA StampsBetween ==
  ASSUME NEW s, Seen(s), \A i \in 2..Len(s) : s[i].t > s[i - 1].t
  PROVE  \A i \in DOMAIN s : s[1].t <= s[i].t /\ s[i].t <= s[Len(s)].t
<1>1. PICK n \in Nat : n = Len(s) /\ DOMAIN s = 1..n
  BY SeenFacts
<1>2. \A i \in 1..n : s[i].t \in Nat
  BY <1>1, SeenFacts
<1> DEFINE T == {d \in Nat : \A i, j \in 1..n : j = i + d => s[i].t <= s[j].t}
<1>3. 0 \in T
  BY <1>2
<1>4. ASSUME NEW d \in Nat, d \in T PROVE d + 1 \in T
  <2> SUFFICES ASSUME NEW i \in 1..n, NEW j \in 1..n, j = i + (d + 1)
               PROVE  s[i].t <= s[j].t
    OBVIOUS
  <2>1. j - 1 \in 1..n /\ j - 1 = i + d /\ j \in 2..n
    OBVIOUS
  <2>2. s[i].t <= s[j - 1].t
    BY <1>4, <2>1
  <2>3. s[j].t > s[j - 1].t
    BY <1>1, <2>1
  <2> QED
    BY <1>2, <2>1, <2>2, <2>3
<1> HIDE DEF T
<1>5. Nat \subseteq T
  BY <1>3, <1>4, SetInduction
<1>6. ASSUME NEW i \in 1..n, NEW j \in 1..n, i <= j PROVE s[i].t <= s[j].t
  <2>1. j - i \in Nat /\ j = i + (j - i)
    BY <1>6
  <2>2. j - i \in T
    BY <1>5, <2>1
  <2> QED
    BY <2>1, <2>2 DEF T
<1> SUFFICES ASSUME NEW i \in 1..n PROVE s[1].t <= s[i].t /\ s[i].t <= s[n].t
  BY <1>1
<1>7. 1 \in 1..n /\ n \in 1..n /\ 1 <= i /\ i <= n
  OBVIOUS
<1> QED
  BY <1>6, <1>7

(* With a clock that only advances no sample falls outside the intervals   *)
(* between completed rotations that the harness computes slopes of.        *)
THEOREM SegmentsCover == Spec => []SegmentsCoverSamples
<1>1. ASSUME Observed, Ordered PROVE SegmentsCoverSamples
  <2> DEFINE s == samples
  <2>1. Seen(s) /\ Heard(events)
    BY <1>1, SamplesSeen
  <2>2. Len(s) = Len(rows) /\ Len(rows) \in Nat /\ DOMAIN s = 1..Len(s)
    BY <1>1, SamplesRead
  <2>3. \A i \in 1..Len(rows) : s[i].t = rows[i].t
    BY <1>1, SamplesRead
  <2> HIDE DEF s
  <2> SUFFICES ASSUME back = 0, s # <<>> PROVE UNION Segments(s, events) = DOMAIN s
    BY DEF SegmentsCoverSamples, Judged, s
  <2>4. \A i \in 2..Len(s) : s[i].t > s[i - 1].t
    <3> SUFFICES ASSUME NEW i \in 2..Len(s) PROVE s[i].t > s[i - 1].t
      OBVIOUS
    <3>1. i \in 1..Len(rows) /\ i - 1 \in 1..Len(rows) /\ i \in 2..Len(rows)
      BY <2>2
    <3>2. rows[i].t > rows[i - 1].t
      BY <1>1, <3>1 DEF Ordered
    <3> QED
      BY <2>3, <3>1, <3>2
  <2>5. PICK b : b = Boundaries(s, events)
    OBVIOUS
  <2>6. /\ Numbers(b) /\ \A k, l \in 1..Len(b) : k <= l => b[k] <= b[l]
        /\ \E l, h \in 1..Len(b) : l # h /\ b[l] = s[1].t /\ b[h] = s[Len(s)].t
    BY <2>1, <2>5, BoundaryFacts
  <2>7. Segments(s, events) = {Segment(s, b, k) : k \in 2..Len(b)}
    BY <2>5 DEF Segments
  <2>8. ASSUME NEW i \in DOMAIN s PROVE i \in UNION Segments(s, events)
    <3>1. s[1].t <= s[i].t /\ s[i].t <= s[Len(s)].t /\ s[i].t \in Int
      BY <2>1, <2>4, StampsBetween, SeenFacts
    <3>2. PICK l \in 1..Len(b), h \in 1..Len(b) : l # h /\ b[l] <= s[i].t /\ s[i].t <= b[h]
      BY <2>6, <3>1
    <3>3. PICK k \in 2..Len(b) : b[k - 1] <= s[i].t /\ s[i].t <= b[k]
      BY <2>6, <3>1, <3>2, Between
    <3>4. i \in Segment(s, b, k)
      BY <3>3 DEF Segment
    <3> QED
      BY <2>7, <3>4
  <2>9. \A k : Segment(s, b, k) \subseteq DOMAIN s
    BY DEF Segment
  <2> QED
    BY <2>7, <2>8, <2>9
<1> QED
  BY <1>1, ObservedAlways, OrderedAlways, PTL

-----------------------------------------------------------------------------
(* Least squares.  The moments of a set of points (t, c), and the products *)
(* of the differences of all its pairs, are integers.                      *)
Row(k, T, C, a, b, m) == k * (T * C) - T * b - C * a + m
Centre(n, a, b, m)     == n * m - a * b

Product(t, c, p)   == (t[p[2]] - t[p[1]]) * (c[p[2]] - c[p[1]])
Products(t, c, W)  == [p \in Pairs(W) |-> Product(t, c, p)]
Moments(t, c, W)   == [i \in W |-> t[i] * c[i]]

(* The sums of a family of points and of its pairs.                        *)
Points(W, t, c) ==
  W \in SUBSET Int /\ IsFiniteSet(W) /\ t \in [W -> Int] /\ c \in [W -> Int]
Sums(W, t, c, a, b, m, g) ==
  /\ SumRule(a, t, W) /\ SumRule(b, c, W) /\ SumRule(m, Moments(t, c, W), W)
  /\ SumRule(g, Products(t, c, W), Pairs(W))

LEMMA PointsType ==
  ASSUME NEW W, NEW t, NEW c, Points(W, t, c)
  PROVE  /\ Moments(t, c, W) \in [W -> Int]
         /\ Products(t, c, W) \in [Pairs(W) -> Int]
         /\ \A p \in Pairs(W) : p[1] \in W /\ p[2] \in W /\ p[1] < p[2]
         /\ \A p \in Pairs(W) : p = <<p[1], p[2]>>
         /\ IsFiniteSet(Pairs(W))
<1>1. \A i \in W : i \in Int /\ t[i] \in Int /\ c[i] \in Int
  BY DEF Points
<1>2. \A p \in Pairs(W) : p[1] \in W /\ p[2] \in W /\ p[1] < p[2] /\ p = <<p[1], p[2]>>
  BY DEF Pairs
<1>3. \A i \in W : t[i] * c[i] \in Int
  BY <1>1
<1>4. \A p \in Pairs(W) : Product(t, c, p) \in Int
  <2> SUFFICES ASSUME NEW p \in Pairs(W) PROVE Product(t, c, p) \in Int
    OBVIOUS
  <2>1. PICK x, y, u, v \in Int : x = t[p[2]] /\ y = t[p[1]] /\ u = c[p[2]] /\ v = c[p[1]]
    BY <1>1, <1>2
  <2>2. (x - y) * (u - v) \in Int
    OBVIOUS
  <2> QED
    BY <2>1, <2>2 DEF Product
<1>5. IsFiniteSet(W \X W)
  BY FS_Product DEF Points
<1>6. Pairs(W) \in SUBSET (W \X W)
  BY DEF Pairs
<1>7. IsFiniteSet(Pairs(W))
  BY <1>5, <1>6, FS_Subset
<1>8. Moments(t, c, W) \in [W -> Int]
  BY <1>3 DEF Moments
<1>9. Products(t, c, W) \in [Pairs(W) -> Int]
  BY <1>4 DEF Products
<1> QED
  BY <1>2, <1>7, <1>8, <1>9

LEMMA SumsFacts ==
  ASSUME NEW W, NEW t, NEW c, NEW a, NEW b, NEW m, NEW g,
         Points(W, t, c), Sums(W, t, c, a, b, m, g)
  PROVE  /\ Removes(a, t, W) /\ Removes(b, c, W) /\ Removes(m, Moments(t, c, W), W)
         /\ Removes(g, Products(t, c, W), Pairs(W))
         /\ \A U \in SUBSET W : a[U] \in Int /\ b[U] \in Int /\ m[U] \in Int
         /\ \A X \in SUBSET Pairs(W) : IsFiniteSet(X) /\ g[X] \in Int
         /\ a[{}] = 0 /\ b[{}] = 0 /\ m[{}] = 0 /\ g[{}] = 0
<1>1. \A U \in SUBSET W : IsFiniteSet(U)
  BY FS_Subset DEF Points
<1>2. \A X \in SUBSET Pairs(W) : IsFiniteSet(X)
  BY PointsType, FS_Subset
<1>3. Removes(a, t, W) /\ a[{}] = 0 /\ \A U \in SUBSET W : a[U] \in Int
  BY <1>1, SumRemove, SumPart DEF Sums, Points
<1>4. Removes(b, c, W) /\ b[{}] = 0 /\ \A U \in SUBSET W : b[U] \in Int
  BY <1>1, SumRemove, SumPart DEF Sums, Points
<1>5. Removes(m, Moments(t, c, W), W) /\ m[{}] = 0 /\ \A U \in SUBSET W : m[U] \in Int
  BY <1>1, SumRemove, SumPart, PointsType DEF Sums
<1>6. /\ Removes(g, Products(t, c, W), Pairs(W)) /\ g[{}] = 0
      /\ \A X \in SUBSET Pairs(W) : g[X] \in Int
  <2>1. Removes(g, Products(t, c, W), Pairs(W))
    BY SumRemove, PointsType DEF Sums
  <2>2. g[{}] = 0 /\ \A X \in SUBSET Pairs(W) : IsFiniteSet(X) => g[X] \in Int
    BY SumPart, PointsType DEF Sums
  <2> QED
    BY <1>2, <2>1, <2>2
<1> QED
  BY <1>2, <1>3, <1>4, <1>5, <1>6

(* The pairs of a point with points before it: their products come to the  *)
(* row of the point.                                                       *)
With(U, z) == {<<i, z>> : i \in U}
RowAdds(t, c, a, b, m, g, B, z, V) ==
  g[B \cup With(V, z)] = g[B] + Row(Cardinality(V), t[z], c[z], a[V], b[V], m[V])

LEMMA RowSum ==
  ASSUME NEW W, NEW t, NEW c, NEW a, NEW b, NEW m, NEW g,
         Points(W, t, c), Sums(W, t, c, a, b, m, g),
         NEW B \in SUBSET Pairs(W), NEW z \in W, \A p \in B : p[2] # z,
         NEW V \in SUBSET W, \A i \in V : i < z
  PROVE  RowAdds(t, c, a, b, m, g, B, z, V)
<1> DEFINE N == {n \in Nat : \A U \in SUBSET V :
                   Cardinality(U) = n
                     => g[B \cup With(U, z)]
                          = g[B] + Row(Cardinality(U), t[z], c[z], a[U], b[U], m[U])}
<1>1. \A U \in SUBSET W : IsFiniteSet(U) /\ Cardinality(U) \in Nat
  BY FS_Subset, FS_CardinalityType DEF Points
<1>2. \A i \in W : t[i] \in Int /\ c[i] \in Int /\ i \in Int
  BY DEF Points
<1>3. /\ Removes(a, t, W) /\ Removes(b, c, W) /\ Removes(m, Moments(t, c, W), W)
      /\ Removes(g, Products(t, c, W), Pairs(W))
  BY SumsFacts
<1>4. \A U \in SUBSET W : a[U] \in Int /\ b[U] \in Int /\ m[U] \in Int
  BY SumsFacts
<1>5. \A X \in SUBSET Pairs(W) : IsFiniteSet(X) /\ g[X] \in Int
  BY SumsFacts
<1>6. a[{}] = 0 /\ b[{}] = 0 /\ m[{}] = 0
  BY SumsFacts
<1>7. \A U \in SUBSET V : With(U, z) \in SUBSET Pairs(W) /\ U \in SUBSET W
  BY DEF With, Pairs
<1>8. 0 \in N
  <2> SUFFICES ASSUME NEW U \in SUBSET V, Cardinality(U) = 0
               PROVE  g[B \cup With(U, z)]
                        = g[B] + Row(Cardinality(U), t[z], c[z], a[U], b[U], m[U])
    OBVIOUS
  <2>1. U = {}
    BY <1>1, FS_EmptySet
  <2>2. With(U, z) = {}
    BY <2>1 DEF With
  <2>3. B \cup With(U, z) = B
    BY <2>2
  <2>4. Row(0, t[z], c[z], 0, 0, 0) = 0
    <3>1. PICK x, y \in Int : x = t[z] /\ y = c[z]
      BY <1>2
    <3>2. Row(0, x, y, 0, 0, 0) = 0
      BY DEF Row
    <3> QED
      BY <3>1, <3>2
  <2>5. Row(Cardinality(U), t[z], c[z], a[U], b[U], m[U]) = 0
    <3>1. Cardinality(U) = 0 /\ a[U] = 0 /\ b[U] = 0 /\ m[U] = 0
      BY <1>6, <2>1
    <3> QED
      BY <2>4, <3>1, Zenon
  <2>6. g[B] \in Int /\ g[B \cup With(U, z)] = g[B]
    BY <1>5, <2>3
  <2> QED
    BY <2>5, <2>6
<1>9. ASSUME NEW n \in Nat, n \in N PROVE n + 1 \in N
  <2> SUFFICES ASSUME NEW U \in SUBSET V, Cardinality(U) = n + 1
               PROVE  g[B \cup With(U, z)]
                        = g[B] + Row(Cardinality(U), t[z], c[z], a[U], b[U], m[U])
    OBVIOUS
  <2>1. U # {} /\ IsFiniteSet(U) /\ U \in SUBSET W
    BY <1>1, FS_EmptySet
  <2>2. PICK i : i \in U /\ i \in V /\ i \in W
    BY <2>1
  <2>3. PICK R : R = U \ {i}
    OBVIOUS
  <2>4. R \in SUBSET V /\ R \in SUBSET W /\ Cardinality(R) = n
    <3>1. Cardinality(U \ {i}) = Cardinality(U) - 1
      BY <2>1, <2>2, FS_RemoveElement
    <3> QED
      BY <2>1, <2>3, <3>1
  <2>5. PICK X, Y : X = B \cup With(U, z) /\ Y = B \cup With(R, z)
    OBVIOUS
  <2>6. X \in SUBSET Pairs(W) /\ <<i, z>> \in X /\ X \ {<<i, z>>} = Y
    <3>1. <<i, z>> \notin B
      <4>1. <<i, z>>[2] = z
        OBVIOUS
      <4> QED
        BY <4>1
    <3>2. \A j : <<j, z>> = <<i, z>> => j = i
      OBVIOUS
    <3> QED
      BY <1>7, <2>2, <2>3, <2>4, <2>5, <3>1, <3>2 DEF With
  <2>7. g[X] = Products(t, c, W)[<<i, z>>] + g[Y]
    BY <1>3, <1>5, <2>6 DEF Removes
  <2>8. Products(t, c, W)[<<i, z>>] = (t[z] - t[i]) * (c[z] - c[i])
    <3>1. <<i, z>> \in Pairs(W) /\ <<i, z>>[1] = i /\ <<i, z>>[2] = z
      BY <2>6
    <3> QED
      BY <3>1 DEF Products, Product
  <2>9. a[U] = t[i] + a[R] /\ b[U] = c[i] + b[R] /\ m[U] = t[i] * c[i] + m[R]
    <3>1. a[U] = t[i] + a[R]
      BY <1>3, <2>1, <2>2, <2>3 DEF Removes
    <3>2. b[U] = c[i] + b[R]
      BY <1>3, <2>1, <2>2, <2>3 DEF Removes
    <3>3. m[U] = Moments(t, c, W)[i] + m[R]
      BY <1>3, <2>1, <2>2, <2>3 DEF Removes
    <3>4. Moments(t, c, W)[i] = t[i] * c[i]
      BY <2>2 DEF Moments
    <3> QED
      BY <3>1, <3>2, <3>3, <3>4
  <2>10. g[Y] = g[B] + Row(n, t[z], c[z], a[R], b[R], m[R])
    BY <1>9, <2>4, <2>5
  <2>11. PICK d \in Int : d = Row(n, t[z], c[z], a[R], b[R], m[R])
    <3>1. PICK x, y, u, v, w \in Int : x = t[z] /\ y = c[z] /\ u = a[R] /\ v = b[R] /\ w = m[R]
      BY <1>2, <1>4, <2>4
    <3>2. Row(n, x, y, u, v, w) \in Int
      BY DEF Row
    <3> QED
      BY <3>1, <3>2
  <2>12. (t[z] - t[i]) * (c[z] - c[i]) + d
           = Row(n + 1, t[z], c[z], t[i] + a[R], c[i] + b[R], t[i] * c[i] + m[R])
    <3>1. PICK T, C, x, y, u, v, w \in Int :
            /\ T = t[z] /\ C = c[z] /\ x = t[i] /\ y = c[i]
            /\ u = a[R] /\ v = b[R] /\ w = m[R]
      BY <1>2, <1>4, <2>2, <2>4
    <3>2. (T - x) * (C - y) + Row(n, T, C, u, v, w)
            = Row(n + 1, T, C, x + u, y + v, x * y + w)
      BY DEF Row
    <3> QED
      BY <2>11, <3>1, <3>2
  <2>13. PICK e \in Int : e = (t[z] - t[i]) * (c[z] - c[i])
    BY <1>2, <2>2
  <2>14. g[X] = g[B] + (e + d)
    <3>1. g[B] \in Int
      BY <1>5
    <3> QED
      BY <2>7, <2>8, <2>10, <2>11, <2>13, <3>1
  <2> QED
    BY <2>5, <2>9, <2>12, <2>13, <2>14
<1> HIDE DEF N
<1>10. Nat \subseteq N
  BY <1>8, <1>9, SetInduction
<1>11. Cardinality(V) \in N
  BY <1>1, <1>10
<1> QED
  BY <1>11 DEF N, RowAdds

(* Over the points of a set, the number of points times the sum of the     *)
(* products, less the product of the sums, is what the pairs add up to.    *)
LEMMA PairSum ==
  ASSUME NEW W, NEW t, NEW c, NEW a, NEW b, NEW m, NEW g,
         Points(W, t, c), Sums(W, t, c, a, b, m, g)
  PROVE  Centre(Cardinality(W), a[W], b[W], m[W]) = g[Pairs(W)]
<1> DEFINE N == {n \in Nat : \A V \in SUBSET W :
                   Cardinality(V) = n
                     => Centre(Cardinality(V), a[V], b[V], m[V]) = g[Pairs(V)]}
<1>1. \A U \in SUBSET W : IsFiniteSet(U) /\ Cardinality(U) \in Nat
  BY FS_Subset, FS_CardinalityType DEF Points
<1>2. \A i \in W : t[i] \in Int /\ c[i] \in Int /\ i \in Int
  BY DEF Points
<1>3. Removes(a, t, W) /\ Removes(b, c, W) /\ Removes(m, Moments(t, c, W), W)
  BY SumsFacts
<1>4. \A U \in SUBSET W : a[U] \in Int /\ b[U] \in Int /\ m[U] \in Int
  BY SumsFacts
<1>5. a[{}] = 0 /\ b[{}] = 0 /\ m[{}] = 0 /\ g[{}] = 0
  BY SumsFacts
<1>6. 0 \in N
  <2> SUFFICES ASSUME NEW V \in SUBSET W, Cardinality(V) = 0
               PROVE  Centre(Cardinality(V), a[V], b[V], m[V]) = g[Pairs(V)]
    OBVIOUS
  <2>1. V = {}
    BY <1>1, FS_EmptySet
  <2>2. Pairs(V) = {}
    BY <2>1 DEF Pairs
  <2>3. Centre(0, 0, 0, 0) = 0
    BY DEF Centre
  <2>4. Cardinality(V) = 0 /\ a[V] = 0 /\ b[V] = 0 /\ m[V] = 0 /\ g[Pairs(V)] = 0
    BY <1>5, <2>1, <2>2
  <2> QED
    BY <2>3, <2>4, Zenon
<1>7. ASSUME NEW n \in Nat, n \in N PROVE n + 1 \in N
  <2> SUFFICES ASSUME NEW V \in SUBSET W, Cardinality(V) = n + 1
               PROVE  Centre(Cardinality(V), a[V], b[V], m[V]) = g[Pairs(V)]
    OBVIOUS
  <2>1. V # {} /\ IsFiniteSet(V) /\ V \in SUBSET Int
    BY <1>1, <1>2, FS_EmptySet
  <2>2. PICK z : z \in V /\ \A i \in V : i <= z
    BY <2>1, ExtremeFacts
  <2>3. PICK R : R = V \ {z}
    OBVIOUS
  <2>4. R \in SUBSET W /\ Cardinality(R) = n /\ z \in W
    <3>1. Cardinality(V \ {z}) = Cardinality(V) - 1
      BY <2>1, <2>2, FS_RemoveElement
    <3> QED
      BY <2>2, <2>3, <3>1
  <2>5. \A i \in R : i < z
    BY <2>1, <2>2, <2>3
  <2>6. Pairs(R) \in SUBSET Pairs(W) /\ \A p \in Pairs(R) : p[2] # z
    BY <2>3, <2>4 DEF Pairs
  <2>7. Pairs(V) = Pairs(R) \cup With(R, z)
    <3>1. ASSUME NEW p \in Pairs(V) PROVE p \in Pairs(R) \cup With(R, z)
      <4>1. PICK i, j : i \in V /\ j \in V /\ p = <<i, j>> /\ i < j
        BY DEF Pairs
      <4>2. i \in R
        BY <2>1, <2>2, <2>3, <4>1
      <4>3. CASE j = z
        BY <4>1, <4>2, <4>3 DEF With
      <4>4. CASE j # z
        BY <2>3, <4>1, <4>2, <4>4 DEF Pairs
      <4> QED
        BY <4>3, <4>4
    <3>2. Pairs(R) \subseteq Pairs(V)
      BY <2>3 DEF Pairs
    <3>3. With(R, z) \subseteq Pairs(V)
      BY <2>2, <2>3, <2>5 DEF Pairs, With
    <3> QED
      BY <3>1, <3>2, <3>3
  <2>8. g[Pairs(V)] = g[Pairs(R)] + Row(n, t[z], c[z], a[R], b[R], m[R])
    <3>1. RowAdds(t, c, a, b, m, g, Pairs(R), z, R)
      BY <2>4, <2>5, <2>6, RowSum
    <3> QED
      BY <2>4, <2>7, <3>1 DEF RowAdds
  <2>9. g[Pairs(R)] = Centre(n, a[R], b[R], m[R])
    BY <1>7, <2>4
  <2>10. a[V] = t[z] + a[R] /\ b[V] = c[z] + b[R] /\ m[V] = t[z] * c[z] + m[R]
    <3>1. a[V] = t[z] + a[R]
      BY <1>3, <2>1, <2>2, <2>3 DEF Removes
    <3>2. b[V] = c[z] + b[R]
      BY <1>3, <2>1, <2>2, <2>3 DEF Removes
    <3>3. m[V] = Moments(t, c, W)[z] + m[R]
      BY <1>3, <2>1, <2>2, <2>3 DEF Removes
    <3>4. Moments(t, c, W)[z] = t[z] * c[z]
      BY <2>4 DEF Moments
    <3> QED
      BY <3>1, <3>2, <3>3, <3>4
  <2>11. PICK T, C, u, v, w \in Int : /\ T = t[z] /\ C = c[z]
                                      /\ u = a[R] /\ v = b[R] /\ w = m[R]
    BY <1>2, <1>4, <2>4
  <2>12. Centre(n, u, v, w) + Row(n, T, C, u, v, w) = Centre(n + 1, T + u, C + v, T * C + w)
    BY DEF Centre, Row
  <2> QED
    BY <2>8, <2>9, <2>10, <2>11, <2>12
<1> HIDE DEF N
<1>8. Nat \subseteq N
  BY <1>6, <1>7, SetInduction
<1>9. Cardinality(W) \in N
  BY <1>1, <1>8
<1> QED
  BY <1>9 DEF N

(* The terms of the harness's quotient, over the samples of a segment, are *)
(* what its pairs of samples add up to.                                    *)
LEMMA SlopeSums ==
  ASSUME NEW s, Seen(s), NEW W \in SUBSET DOMAIN s
  PROVE  /\ Cardinality(W) * sxy(s, W) - sx(s, W) * sy(s, W) = pairBytes(s, W)
         /\ Cardinality(W) * sxx(s, W) - sx(s, W) * sx(s, W) = pairTimes(s, W)
<1> DEFINE t == [i \in W |-> s[i].t]
           c == [i \in W |-> s[i].cache]
<1>1. \A i \in W : s[i].t \in Nat /\ s[i].cache \in Nat /\ i \in Int
  BY SeenFacts
<1>2. IsFiniteSet(W) /\ W \in SUBSET Int
  BY <1>1, SeenFacts, FS_Subset
<1>3. t \in [W -> Int] /\ c \in [W -> Int]
  BY <1>1
<1>4. Points(W, t, c) /\ Points(W, t, t)
  BY <1>2, <1>3 DEF Points
<1>5. sx(s, W) = SumOf(t) /\ sy(s, W) = SumOf(c)
  BY DEF sx, sy
<1>6. \A i \in W : t[i] = s[i].t /\ c[i] = s[i].cache
  OBVIOUS
<1> HIDE DEF t, c
<1>7. [i \in W |-> s[i].t * s[i].cache] = Moments(t, c, W)
      /\ [i \in W |-> s[i].t * s[i].t] = Moments(t, t, W)
  BY <1>6 DEF Moments
<1>8. \A p \in Pairs(W) : /\ Product(t, c, p) = (s[p[2]].t - s[p[1]].t) * (s[p[2]].cache - s[p[1]].cache)
                          /\ Product(t, t, p) = (s[p[2]].t - s[p[1]].t) * (s[p[2]].t - s[p[1]].t)
  BY <1>4, <1>6, PointsType DEF Product
<1>9. sxy(s, W) = SumOf(Moments(t, c, W)) /\ sxx(s, W) = SumOf(Moments(t, t, W))
  BY <1>7 DEF sxy, sxx
<1>10. pairBytes(s, W) = SumOf(Products(t, c, W))
  <2>1. [p \in Pairs(W) |-> (s[p[2]].t - s[p[1]].t) * (s[p[2]].cache - s[p[1]].cache)]
          = Products(t, c, W)
    BY <1>8 DEF Products
  <2> QED
    BY <2>1 DEF pairBytes
<1>11. pairTimes(s, W) = SumOf(Products(t, t, W))
  <2>1. [p \in Pairs(W) |-> (s[p[2]].t - s[p[1]].t) * (s[p[2]].t - s[p[1]].t)]
          = Products(t, t, W)
    BY <1>8 DEF Products
  <2> QED
    BY <2>1 DEF pairTimes
<1>12. PICK a : SumRule(a, t, W) /\ a[W] = sx(s, W)
  BY <1>2, <1>3, <1>5, SumOfIsSum DEF SumsTo
<1>13. PICK b : SumRule(b, c, W) /\ b[W] = sy(s, W)
  BY <1>2, <1>3, <1>5, SumOfIsSum DEF SumsTo
<1>14. /\ Moments(t, c, W) \in [W -> Int] /\ Moments(t, t, W) \in [W -> Int]
       /\ Products(t, c, W) \in [Pairs(W) -> Int] /\ Products(t, t, W) \in [Pairs(W) -> Int]
       /\ IsFiniteSet(Pairs(W))
  BY <1>4, PointsType
<1>15. PICK m : SumRule(m, Moments(t, c, W), W) /\ m[W] = sxy(s, W)
  BY <1>2, <1>9, <1>14, SumOfIsSum DEF SumsTo
<1>16. PICK d : SumRule(d, Moments(t, t, W), W) /\ d[W] = sxx(s, W)
  BY <1>2, <1>9, <1>14, SumOfIsSum DEF SumsTo
<1>17. PICK g : SumRule(g, Products(t, c, W), Pairs(W)) /\ g[Pairs(W)] = pairBytes(s, W)
  BY <1>10, <1>14, SumOfIsSum DEF SumsTo
<1>18. PICK h : SumRule(h, Products(t, t, W), Pairs(W)) /\ h[Pairs(W)] = pairTimes(s, W)
  BY <1>11, <1>14, SumOfIsSum DEF SumsTo
<1>19. Centre(Cardinality(W), a[W], b[W], m[W]) = g[Pairs(W)]
  <2>1. Sums(W, t, c, a, b, m, g)
    BY <1>12, <1>13, <1>15, <1>17 DEF Sums
  <2> QED
    BY <1>4, <2>1, PairSum
<1>20. Centre(Cardinality(W), a[W], a[W], d[W]) = h[Pairs(W)]
  <2>1. Sums(W, t, t, a, a, d, h)
    BY <1>12, <1>16, <1>18 DEF Sums
  <2> QED
    BY <1>4, <2>1, PairSum
<1> QED
  BY <1>12, <1>13, <1>15, <1>16, <1>17, <1>18, <1>19, <1>20 DEF Centre

(* The slope that the harness reports for an interval is the mean of the   *)
(* slopes between all pairs of its samples, weighted by the squares of     *)
(* their distances in time, for every number of samples and any clock; it  *)
(* is zero when all samples have the same stamp.                           *)
THEOREM SlopesArePairwise == Spec => []SlopeIsPairwise
<1>1. ASSUME Observed PROVE SlopeIsPairwise
  <2> DEFINE s == samples
  <2>1. Seen(s)
    BY <1>1, SamplesSeen
  <2> HIDE DEF s
  <2> SUFFICES ASSUME NEW x \in intervalSlopes(s, events)
               PROVE  IF pairTimes(s, x[1]) = 0 THEN x[2] = <<0, 1>>
                      ELSE x[2][1] * pairTimes(s, x[1]) = pairBytes(s, x[1]) * x[2][2]
    BY DEF SlopeIsPairwise, s
  <2>2. PICK W \in Segments(s, events) : x = <<W, leastSquares(s, W)>>
    BY DEF intervalSlopes
  <2>3. W \in SUBSET DOMAIN s
    BY DEF Segments, Segment
  <2>4. PICK num, den : num = pairBytes(s, W) /\ den = pairTimes(s, W)
    OBVIOUS
  <2>5. leastSquares(s, W) = divide(num, den)
    BY <2>1, <2>3, <2>4, SlopeSums DEF leastSquares
  <2>6. x[1] = W /\ x[2] = IF den = 0 THEN <<0, 1>> ELSE <<num, den>>
    BY <2>2, <2>5 DEF divide
  <2> QED
    BY <2>4, <2>6
<1> QED
  BY <1>1, ObservedAlways, PTL
=============================================================================
