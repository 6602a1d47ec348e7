-------------------------- MODULE LabMonitorProofs --------------------------
(***************************************************************************)
(* A monitored run, for every number of rotations and samples, all sizes,  *)
(* both writers and all strategies: a sample counts every unit that        *)
(* outlives it, and none in two backups, although the rotator works        *)
(* between the monitor's calls.                                            *)
(***************************************************************************)
EXTENDS LabMonitor, LabStreamProofs

-----------------------------------------------------------------------------
(* The units under some names.                                             *)
UnitsIn(P) == UNION {Units(n) : n \in P}

(* The writer's place in the stream never goes back.                       *)
LEMMA WrittenGrows ==
  ASSUME LogInv, "write" \notin Faults, [Next]_vars
  PROVE  Written \in Nat /\ Written' \in Nat /\ Written' >= Written
<1>1. LogEffect /\ Written \in Nat
  BY LabMoves, WrittenType DEF LogInv, Clean, Flow
<1>2. \E k \in Nat : Written' = Written + k
  <2>1. CASE LogWritten
    BY <2>1 DEF LogWritten
  <2>2. CASE ~LogWritten
    <3>1. Written' = Written
      BY <1>1, <2>2 DEF LogEffect, LogKept, LogCopied, LogDropped, LogMoved, LogExpired
    <3>2. Written = Written + 0 /\ 0 \in Nat
      BY <1>1
    <3> QED
      BY <3>1, <3>2, Zenon
  <2> QED
    BY <2>1, <2>2
<1>3. PICK k, w, v : k \in Nat /\ w = Written /\ v = Written' /\ w \in Nat /\ v = w + k
  BY <1>1, <1>2
<1>4. v \in Nat /\ v >= w
  BY <1>3
<1> QED
  BY <1>3, <1>4

(* A write adds units that are ahead of all others, and takes none away.   *)
LEMMA WriteAddsAhead ==
  ASSUME LogInv, NEW w \in Names, NEW k \in Nat,
         Contents(w)' = Contents(w) \o NextUnits(k)
  PROVE  Units(w) \subseteq Units(w)' /\ \A u \in Units(w)' \ Units(w) : u > Written
<1>1. Contents(w) \in Seq(Unit) /\ Written \in Nat
  BY ContentsType, WrittenType DEF LogInv
<1>2. /\ NextUnits(k) \in Seq(Unit) /\ DOMAIN NextUnits(k) = 1..k
      /\ \A i \in 1..k : NextUnits(k)[i] > Written
  BY <1>1 DEF NextUnits, UnitsFrom, Unit
<1>3. Units(w)' = Units(w) \cup Range(NextUnits(k))
  BY <1>1, <1>2, RangeConcatenation DEF Units
<1>4. \A u \in Range(NextUnits(k)) : u > Written
  BY <1>2 DEF Range
<1> QED
  BY <1>3, <1>4

(* A copy adds only units of the active log, and takes none away.          *)
LEMMA CopyAddsActive ==
  ASSUME LogInv, LogCopied
  PROVE  Units(ordinal) \subseteq Units(ordinal)' /\ Units(ordinal)' \subseteq Units(Active)
<1>1. ordinal' = ordinal /\ ordinal \in Names /\ Active \in Names
  BY ActiveIsName DEF LogCopied
<1>2. Contents(ordinal) \in Seq(Unit) /\ Contents(Active) \in Seq(Unit)
  BY <1>1, ContentsType DEF LogInv
<1>3. PICK t \in Seq(Unit) : Contents(ordinal)' = Contents(ordinal) \o t
  BY DEF LogCopied
<1>4. PICK k \in 0..Len(Contents(Active)) :
        Contents(ordinal)' = SubSeq(Contents(Active), 1, k)
  BY DEF LogCopied
<1>5. Range(Contents(ordinal) \o t) = Range(Contents(ordinal)) \cup Range(t)
  BY <1>2, <1>3, RangeConcatenation
<1>6. Range(SubSeq(Contents(Active), 1, k)) \subseteq Range(Contents(Active))
  BY <1>2, <1>4 DEF Range
<1> QED
  BY <1>1, <1>3, <1>4, <1>5, <1>6 DEF Units

(* A unit is under two names only while it is being copied, or when the    *)
(* rotator was stopped in between.                                         *)
LEMMA OnePlace ==
  ASSUME LogInv, "write" \notin Faults, rpc \notin {"copy", "truncate", "failed", "killed"},
         NEW m \in Names, NEW n \in Names, m # n
  PROVE  Units(m) \cap Units(n) = {}
<1>1. InOrder
  BY DEF LogInv, Clean, Flow, Order
<1>2. Earlier(m, n) \/ Earlier(n, m)
  BY DEF Earlier, Names, Active
<1>3. ~Twice(m, n) /\ ~Twice(n, m)
  BY DEF Twice
<1>4. \A u \in Units(m), v \in Units(n) : u < v \/ v < u
  BY <1>1, <1>2, <1>3 DEF InOrder
<1>5. \A u \in Units(m) : u \in Nat
  BY ContentsType DEF LogInv, Units, Range, Unit
<1> QED
  BY <1>4, <1>5

-----------------------------------------------------------------------------
(* The units that were on disk when the sample was begun, still are, and   *)
(* are under none of the names that are yet to be measured.                *)
Uncounted(P) == (before \cap UnitsIn(Names)) \ UnitsIn(P)

(* While a sample is taken, what the others do adds no unit to those: none *)
(* leaves the backups for the active log, or vanishes from one of its two  *)
(* names only.                                                             *)
LEMMA NoneSlipsAway ==
  ASSUME LogInv, "write" \notin Faults, [Next]_vars, before' = before,
         \A u \in before : u \in Nat /\ u <= Written, NEW P \in SUBSET (Names \ {Active})
  PROVE  Uncounted(P)' \subseteq Uncounted(P)
<1>0. /\ LogEffect /\ Active \in Names /\ Written \in Nat
  BY LabMoves, ActiveIsName, WrittenType DEF LogInv, Clean, Flow
<1>1. SUFFICES ASSUME NEW u \in before, NEW n \in Names, u \in Units(n)',
                      \A p \in P : u \notin Units(p)'
               PROVE  (\E m \in Names : u \in Units(m)) /\ \A p \in P : u \notin Units(p)
  BY DEF Uncounted, UnitsIn
<1>2. CASE LogKept
  BY <1>1, <1>2, UnitsFollow DEF LogKept, Stay
<1>3. CASE LogWritten
  <2>1. PICK w \in Names, k \in Nat \ {0} :
          Contents(w)' = Contents(w) \o NextUnits(k) /\ Stay({w})
    BY <1>3 DEF LogWritten
  <2>2. \A m \in Names : m # w => Units(m)' = Units(m)
    BY <2>1, UnitsFollow DEF Stay
  <2>3. Units(w) \subseteq Units(w)' /\ \A v \in Units(w)' \ Units(w) : v > Written
    BY <2>1, WriteAddsAhead
  <2> QED
    BY <1>0, <1>1, <2>2, <2>3
<1>4. CASE LogCopied
  <2>1. PICK o \in Names \ {Active} : o = ordinal /\ ordinal' = o
    BY <1>4 DEF LogCopied
  <2>2. \A m \in Names : m # o => Units(m)' = Units(m)
    BY <1>4, <2>1, UnitsFollow DEF LogCopied, Stay
  <2>3. Units(o) \subseteq Units(o)' /\ Units(o)' \subseteq Units(Active)
    <3>1. Units(ordinal)' = Units(o)'
      BY <2>1 DEF Units, Contents, Exists
    <3> QED
      BY <1>4, <2>1, <3>1, CopyAddsActive
  <2> QED
    BY <1>0, <1>1, <2>1, <2>2, <2>3
<1>5. CASE LogDropped
  <2>1. /\ Units(Active)' = {}
        /\ \A m \in Names : m # Active => Units(m)' = Units(m)
    BY <1>5, UnitsFollow DEF LogDropped, Stay
  <2> QED
    BY <1>1, <2>1
<1>6. CASE LogMoved
  <2>1. /\ ordinal \in Names \ {Active} /\ ordinal' = ordinal
        /\ Contents(ordinal) = <<>> /\ Contents(ordinal)' = Contents(Active)
        /\ Contents(Active)' = <<>>
        /\ \A m \in Names : m # ordinal /\ m # Active => Units(m)' = Units(m)
    <3>1. ordinal \in Names /\ ordinal >= ordinal
      BY <1>6 DEF LogMoved, Names
    <3> QED
      BY <1>6, <3>1, UnitsFollow DEF LogMoved, Stay
  <2>2. Units(ordinal) = {} /\ Units(ordinal)' = Units(Active) /\ Units(Active)' = {}
    BY <2>1, UnitsFollow DEF Units
  <2> QED
    BY <1>0, <1>1, <2>1, <2>2
<1>7. CASE LogExpired
  <2>1. /\ rpc = "retention"
        /\ \A m \in Names : Contents(m)' = <<>> \/ Contents(m)' = Contents(m)
    BY <1>7 DEF LogExpired
  <2>2. \A m \in Names : Units(m)' = {} \/ Units(m)' = Units(m)
    BY <2>1, UnitsFollow
  <2>3. Units(n)' = Units(n)
    BY <1>1, <2>2
  <2>4. ASSUME NEW p \in P, u \in Units(p) PROVE FALSE
    <3>1. p # n /\ p \in Names
      BY <1>1, <2>3, <2>4
    <3>2. Units(p) \cap Units(n) = {}
      BY <2>1, <3>1, OnePlace
    <3> QED
      BY <1>1, <2>3, <2>4, <3>2
  <2> QED
    BY <1>1, <2>3, <2>4
<1> QED
  BY <1>0, <1>2, <1>3, <1>4, <1>5, <1>6, <1>7 DEF LogEffect

(* What the monitor has added up covers what it cannot meet any more.  The *)
(* active log is measured first: whatever leaves it later goes to a backup *)
(* that is listed afterwards, or has been counted already.                 *)
Covered ==
  /\ sample \in [active : Nat, backup : Nat, count : Nat]
  /\ \A u \in before : u \in Nat /\ u <= Written
  /\ mpc \in {"off", "boot", "tick", "active"} => sample = NoSample
  /\ mpc = "glob" => /\ sample.backup = 0
                     /\ Cardinality(Uncounted(Names \ {Active})) <= sample.active
  /\ mpc = "stat" => /\ pending \subseteq Names \ {Active}
                     /\ Cardinality(Uncounted(pending)) <= sample.active + sample.backup
  /\ mpc = "row"  => Cardinality(Uncounted({})) <= sample.active + sample.backup

(* What is still to be counted is finite.                                  *)
LEMMA UncountedFinite ==
  ASSUME IndInv, \A u \in before : u \in Nat /\ u <= Written, NEW P
  PROVE  IsFiniteSet(Uncounted(P)) /\ Cardinality(Uncounted(P)) \in Nat
<1>1. Written \in Nat
  BY DEF IndInv, TypeOK, WriterTypeOK, Written
<1>2. IsFiniteSet(before)
  BY <1>1, FS_BoundedSetOfNaturals
<1>3. Uncounted(P) \in SUBSET before
  BY DEF Uncounted
<1> QED
  BY <1>2, <1>3, FS_Subset, FS_CardinalityType

(* A file holds at most as many units as os.Stat says.                     *)
LEMMA SizeCounts ==
  ASSUME IndInv, NEW n \in Names, Exists(n)
  PROVE  /\ IsFiniteSet(Units(n)) /\ Cardinality(Units(n)) \in Nat
         /\ Size(n) \in Nat /\ Cardinality(Units(n)) <= Size(n)
<1> DEFINE s == data[dir[n]]
           k == Len(data[dir[n]])
<1>1. s \in Seq(Unit)
  BY DEF IndInv, TypeOK, HostTypeOK, Exists
<1>2. k \in Nat /\ DOMAIN s = 1..k /\ Size(n) = k /\ Units(n) = Range(s)
  BY <1>1 DEF Size, Units, Contents
<1>3. s \in Surjection(1..k, Units(n))
  BY <1>1, <1>2 DEF Range, Surjection
<1> HIDE DEF s, k
<1>4. IsFiniteSet(1..k)
  BY <1>2, FS_Interval
<1>5. IsFiniteSet(Units(n))
  BY <1>3, <1>4, FS_Surjection
<1>6. Cardinality(Units(n)) <= k
  BY <1>2, <1>3, FS_SurjCardinalityBound DEF ExistsSurjection
<1> QED
  BY <1>2, <1>5, <1>6, FS_CardinalityType

(* Fewer units to count are covered too.                                   *)
LEMMA CoverShrinks ==
  ASSUME NEW S, NEW T, IsFiniteSet(S), T \subseteq S, NEW k \in Nat, Cardinality(S) <= k
  PROVE  Cardinality(T) <= k
<1>1. IsFiniteSet(T) /\ Cardinality(T) <= Cardinality(S)
  BY FS_Subset
<1>2. Cardinality(T) \in Nat /\ Cardinality(S) \in Nat
  BY <1>1, FS_CardinalityType
<1> QED
  BY <1>1, <1>2

(* A file that is measured covers its own units.                           *)
LEMMA CoverGrows ==
  ASSUME NEW S, NEW T, NEW U, IsFiniteSet(S), IsFiniteSet(U), T \subseteq S \cup U,
         NEW k \in Nat, NEW l \in Nat, Cardinality(S) <= k, Cardinality(U) <= l
  PROVE  Cardinality(T) <= k + l
<1>1. /\ IsFiniteSet(S \cup U)
      /\ Cardinality(S \cup U) = Cardinality(S) + Cardinality(U) - Cardinality(S \cap U)
  BY FS_Union
<1>2. /\ Cardinality(S) \in Nat /\ Cardinality(U) \in Nat /\ Cardinality(S \cap U) \in Nat
  BY FS_Intersection, FS_CardinalityType
<1>3. Cardinality(S \cup U) <= k + l /\ k + l \in Nat
  BY <1>1, <1>2
<1> QED
  BY <1>1, <1>3, CoverShrinks

(* The writer and the rotator leave what is counted covered.               *)
LEMMA CoveredByLab ==
  ASSUME LogInv, Covered, "write" \notin Faults, [Next]_vars,
         UNCHANGED monitorVars
  PROVE  Covered'
<1>0. /\ UNCHANGED <<mpc, sample, pending, before>>
      /\ \A u \in before : u \in Nat /\ u <= Written
      /\ sample.active \in Nat /\ sample.backup \in Nat
  BY DEF monitorVars, Covered
<1>1. \A u \in before : u \in Nat /\ u <= Written'
  <2>1. Written \in Nat /\ Written' >= Written /\ Written' \in Nat
    BY WrittenGrows
  <2> QED
    BY <1>0, <2>1
<1>2. ASSUME NEW P \in SUBSET (Names \ {Active}), NEW k \in Nat,
             Cardinality(Uncounted(P)) <= k
      PROVE  Cardinality(Uncounted(P)') <= k
  <2>1. Uncounted(P)' \subseteq Uncounted(P)
    BY <1>0, NoneSlipsAway
  <2>2. IsFiniteSet(Uncounted(P))
    BY <1>0, UncountedFinite DEF LogInv
  <2> QED
    BY <1>2, <2>1, <2>2, CoverShrinks
<1>3. mpc' = "glob" => /\ sample'.backup = 0
                       /\ Cardinality(Uncounted(Names \ {Active})') <= sample'.active
  BY <1>0, <1>2 DEF Covered
<1>4. mpc' = "row" => Cardinality(Uncounted({})') <= sample'.active + sample'.backup
  <2>1. sample.active + sample.backup \in Nat
    BY <1>0
  <2> QED
    BY <1>0, <1>2, <2>1 DEF Covered
<1>5. mpc' = "stat"
        => /\ pending' \subseteq Names \ {Active}
           /\ Cardinality(Uncounted(pending)') <= sample'.active + sample'.backup
  <2>1. SUFFICES ASSUME mpc = "stat"
                 PROVE  /\ pending \subseteq Names \ {Active}
                        /\ Cardinality(Uncounted(pending)') <= sample.active + sample.backup
    BY <1>0
  <2>2. PICK P \in SUBSET (Names \ {Active}) : P = pending
    BY <2>1 DEF Covered
  <2>3. Cardinality(Uncounted(P)) <= sample.active + sample.backup
    BY <2>1, <2>2 DEF Covered
  <2>4. sample.active + sample.backup \in Nat
    BY <1>0
  <2>5. Cardinality(Uncounted(P)') <= sample.active + sample.backup
    BY <1>2, <2>3, <2>4
  <2>6. pending' = P
    BY <1>0, <2>2
  <2>7. Uncounted(pending)' = Uncounted(P)'
    BY <2>6 DEF Uncounted, UnitsIn
  <2> QED
    BY <2>2, <2>5, <2>7
<1> QED
  BY <1>0, <1>1, <1>3, <1>4, <1>5 DEF Covered

(* Every call of the monitor keeps what is counted covered.                *)
LEMMA CoveredByMonitor ==
  ASSUME LogInv, "write" \notin Faults, Covered, UNCHANGED vars,
         MonitorNext \/ StartMonitor \/ SignalMonitor
  PROVE  Covered'
<1>0. /\ UNCHANGED <<dir, data>> /\ Written' = Written
      /\ sample \in [active : Nat, backup : Nat, count : Nat]
      /\ \A u \in before : u \in Nat /\ u <= Written
      /\ Active \in Names /\ IndInv
  BY HostAssumption
  DEF LogInv, Covered, vars, hostVars, writerVars, Written, Active, Names
<1>s. NoSample \in [active : Nat, backup : Nat, count : Nat]
  BY DEF NoSample
<1>u. \A n \in Names : Units(n)' = Units(n)
  BY <1>0 DEF Units, Contents, Exists
<1>p. ASSUME before' = before, NEW P \in SUBSET Names
      PROVE  Uncounted(P)' = Uncounted(P)
  BY <1>u, <1>p DEF Uncounted, UnitsIn
<1>1. CASE MonitorBoots \/ MonitorStops \/ MonitorFails \/ MonitorKilled \/ StartMonitor
           \/ SignalMonitor
  <2>1. UNCHANGED <<sample, pending, before>>
    BY <1>1
    DEF MonitorBoots, MonitorStops, MonitorFails, MonitorKilled, StartMonitor, SignalMonitor
  <2>2. CASE SignalMonitor
    <3>1. mpc' = mpc
      BY <2>2 DEF SignalMonitor
    <3>2. ASSUME mpc = "stat"
          PROVE  Cardinality(Uncounted(pending)') <= sample.active + sample.backup
      <4>1. Uncounted(pending)' = Uncounted(pending)
        BY <1>u, <2>1, <3>2 DEF Uncounted, UnitsIn, Covered
      <4> QED
        BY <3>2, <4>1 DEF Covered
    <3>3. /\ Uncounted({})' = Uncounted({})
          /\ Uncounted(Names \ {Active})' = Uncounted(Names \ {Active})
      BY <1>p, <2>1
    <3> QED
      BY <1>0, <2>1, <3>1, <3>2, <3>3 DEF Covered
  <2>3. CASE ~SignalMonitor
    <3>1. /\ mpc \in {"off", "boot", "tick", "active"} \/ mpc' \in {"failed", "killed"}
          /\ mpc' \in {"boot", "tick", "stopped", "failed", "killed"}
      BY <1>1, <2>3 DEF MonitorBoots, MonitorStops, MonitorFails, MonitorKilled, StartMonitor
    <3> QED
      BY <1>0, <2>1, <3>1 DEF Covered
  <2> QED
    BY <2>2, <2>3
<1>2. CASE Tick
  <2>1. /\ mpc = "tick" /\ mpc' = "active" /\ sample' = sample
        /\ before' = UnitsOnDisk
    BY <1>2 DEF Tick
  <2>2. ASSUME NEW u \in UnitsOnDisk PROVE u \in Nat /\ u <= Written
    <3>1. PICK n \in Names : u \in Units(n)
      BY DEF UnitsOnDisk, Units, Contents, Range
    <3>2. u \in Unit
      BY <3>1, ContentsType DEF LogInv, Units, Range
    <3> QED
      BY <3>1, <3>2 DEF LogInv, Clean, Flow, Order, Ahead, Unit
  <2> QED
    BY <1>0, <2>1, <2>2 DEF Covered
<1>3. CASE StatActive
  <2>1. /\ mpc = "active" /\ mpc' = "glob" /\ before' = before
        /\ sample' = [sample EXCEPT !.active = IF Exists(Active) THEN Size(Active) ELSE 0]
    BY <1>3 DEF StatActive
  <2>2. sample = NoSample
    BY <2>1 DEF Covered
  <2>3. Uncounted(Names \ {Active}) \subseteq Units(Active)
    BY DEF Uncounted, UnitsIn
  <2>4. /\ sample' \in [active : Nat, backup : Nat, count : Nat]
        /\ sample'.backup = 0
        /\ Cardinality(Uncounted(Names \ {Active})) <= sample'.active
    <3>1. CASE Exists(Active)
      <4>1. Size(Active) \in Nat /\ sample' = [sample EXCEPT !.active = Size(Active)]
        BY <1>0, <2>1, <3>1, SizeCounts
      <4>2. Cardinality(Uncounted(Names \ {Active})) <= Size(Active)
        BY <1>0, <2>3, <3>1, SizeCounts, CoverShrinks
      <4> QED
        BY <2>2, <4>1, <4>2 DEF NoSample
    <3>2. CASE ~Exists(Active)
      <4>1. Uncounted(Names \ {Active}) = {}
        BY <2>3, <3>2, UnitsFollow DEF Contents
      <4> QED
        BY <2>1, <2>2, <3>2, <4>1, FS_EmptySet DEF NoSample
    <3> QED
      BY <3>1, <3>2
  <2>5. Uncounted(Names \ {Active})' = Uncounted(Names \ {Active})
    BY <1>p, <2>1
  <2> QED
    BY <1>0, <2>1, <2>4, <2>5 DEF Covered
<1>4. CASE Glob
  <2>1. /\ mpc = "glob" /\ mpc' = "stat" /\ before' = before /\ sample' = sample
        /\ pending' = {n \in Names \ {Active} : Exists(n)}
    BY <1>4 DEF Glob
  <2>2. Uncounted(pending)' = Uncounted(Names \ {Active})
    BY <1>u, <2>1, UnitsFollow DEF Uncounted, UnitsIn, Contents
  <2>3. /\ sample.backup = 0 /\ sample.active \in Nat
        /\ Cardinality(Uncounted(Names \ {Active})) <= sample.active
    BY <2>1 DEF Covered
  <2>4. sample.active + sample.backup = sample.active
    BY <2>3
  <2> QED
    BY <1>0, <2>1, <2>2, <2>3, <2>4 DEF Covered
<1>5. CASE StatBackup
  <2>1. /\ mpc = "stat" /\ mpc' = "stat" /\ before' = before
        /\ pending \subseteq Names \ {Active}
        /\ sample.active \in Nat /\ sample.backup \in Nat
        /\ Cardinality(Uncounted(pending)) <= sample.active + sample.backup
    BY <1>5 DEF StatBackup, Covered
  <2>2. PICK n \in pending :
          /\ pending' = pending \ {n}
          /\ sample' = IF Exists(n)
                       THEN [sample EXCEPT !.backup = @ + Size(n), !.count = @ + 1]
                       ELSE sample
    BY <1>5 DEF StatBackup
  <2>3. Uncounted(pending)' \subseteq Uncounted(pending) \cup Units(n)
    BY <1>u, <2>1, <2>2 DEF Uncounted, UnitsIn
  <2>4. IsFiniteSet(Uncounted(pending)) /\ sample.active + sample.backup \in Nat
    BY <1>0, <2>1, UncountedFinite
  <2>5. CASE Exists(n)
    <3>1. /\ IsFiniteSet(Units(n)) /\ Size(n) \in Nat /\ Cardinality(Units(n)) <= Size(n)
      BY <1>0, <2>1, <2>2, <2>5, SizeCounts
    <3>2. Cardinality(Uncounted(pending)') <= (sample.active + sample.backup) + Size(n)
      <4>1. PICK k, l, S, T, U :
              /\ k \in Nat /\ l \in Nat /\ k = sample.active + sample.backup /\ l = Size(n)
              /\ S = Uncounted(pending) /\ T = Uncounted(pending)' /\ U = Units(n)
        BY <2>4, <3>1
      <4>2. /\ IsFiniteSet(S) /\ IsFiniteSet(U) /\ T \subseteq S \cup U
            /\ Cardinality(S) <= k /\ Cardinality(U) <= l
        BY <2>1, <2>3, <2>4, <3>1, <4>1
      <4>3. Cardinality(T) <= k + l
        BY <4>1, <4>2, CoverGrows
      <4> QED
        BY <4>1, <4>3
    <3>3. /\ sample' \in [active : Nat, backup : Nat, count : Nat]
          /\ sample'.active = sample.active /\ sample'.backup = sample.backup + Size(n)
      <4>1. sample' = [sample EXCEPT !.backup = sample.backup + Size(n),
                                     !.count = sample.count + 1]
        BY <2>2, <2>5
      <4>2. sample.backup + Size(n) \in Nat /\ sample.count + 1 \in Nat
        BY <1>0, <3>1
      <4> QED
        BY <1>0, <4>1, <4>2
    <3>4. sample'.active + sample'.backup = (sample.active + sample.backup) + Size(n)
      BY <2>1, <3>1, <3>3
    <3> QED
      BY <1>0, <2>1, <2>2, <3>2, <3>3, <3>4 DEF Covered
  <2>6. CASE ~Exists(n)
    <3>1. Uncounted(pending)' \subseteq Uncounted(pending) /\ sample' = sample
      BY <2>2, <2>3, <2>6, UnitsFollow DEF Contents
    <3>2. Cardinality(Uncounted(pending)') <= sample.active + sample.backup
      BY <2>1, <2>4, <3>1, CoverShrinks
    <3> QED
      BY <1>0, <2>1, <2>2, <3>1, <3>2 DEF Covered
  <2> QED
    BY <2>5, <2>6
<1>6. CASE Measured
  <2>1. /\ mpc = "stat" /\ mpc' = "row" /\ UNCHANGED <<sample, before>> /\ pending = {}
    BY <1>6 DEF Measured
  <2>2. Uncounted({})' = Uncounted(pending)
    BY <1>p, <2>1
  <2> QED
    BY <1>0, <2>1, <2>2 DEF Covered
<1>7. CASE WriteRow
  <2>1. mpc' = "tick" /\ sample' = NoSample /\ before' = {}
    BY <1>7 DEF WriteRow
  <2> QED
    BY <1>s, <2>1 DEF Covered
<1> QED
  BY <1>1, <1>2, <1>3, <1>4, <1>5, <1>6, <1>7 DEF MonitorNext

(* A sample taken while the rotator works counts every unit that was on    *)
(* disk when it was begun and still is, for any number of rotations,       *)
(* backups kept and samples, when the writer's writes do not fail.  (After *)
(* a failed write the Go writer flushes its buffer again, and units are in *)
(* two files: removing a listed backup then makes the sample too small.)   *)
THEOREM SampleMissesNothing ==
  ASSUME "write" \notin Faults
  PROVE  MonitoredSpec => []SampleCoversLog
<1> DEFINE Inv == LogInv /\ Covered
<1>1. MonitoredInit => Inv
  <2> SUFFICES ASSUME MonitoredInit PROVE Inv
    OBVIOUS
  <2>2. LogInv
    BY LogInvInit DEF MonitoredInit
  <2>3. Covered
    BY DEF MonitoredInit, MonitorInit, Covered, NoSample
  <2> QED
    BY <2>2, <2>3
<1>2. Inv /\ [MonitoredNext]_monitoredVars => Inv'
  <2> SUFFICES ASSUME Inv, [MonitoredNext]_monitoredVars PROVE Inv'
    OBVIOUS
  <2>1. [Next]_vars
    BY DEF MonitoredNext, monitoredVars, StartMonitor, SignalMonitor
  <2>2. LogInv'
    BY <2>1, LogInvNext
  <2>3. \/ UNCHANGED monitorVars
        \/ UNCHANGED vars /\ (MonitorNext \/ StartMonitor \/ SignalMonitor)
    BY DEF MonitoredNext, monitoredVars, StartMonitor, SignalMonitor
  <2>4. Covered'
    BY <2>1, <2>3, CoveredByLab, CoveredByMonitor
  <2> QED
    BY <2>2, <2>4
<1>3. Inv => SampleCoversLog
  <2> SUFFICES ASSUME Inv, mpc = "row"
               PROVE  sample.active + sample.backup >= Cardinality(before \cap UnitsOnDisk)
    BY DEF SampleCoversLog
  <2>1. UnitsOnDisk = UnitsIn(Names)
    BY DEF UnitsOnDisk, UnitsIn, Units, Contents, Range
  <2>2. Uncounted({}) = before \cap UnitsOnDisk
    BY <2>1 DEF Uncounted, UnitsIn
  <2>3. /\ sample.active + sample.backup \in Nat
        /\ Cardinality(Uncounted({})) <= sample.active + sample.backup
        /\ Cardinality(Uncounted({})) \in Nat
    BY UncountedFinite DEF LogInv, Covered
  <2> QED
    BY <2>2, <2>3
<1> HIDE DEF Inv
<1> QED
  BY <1>1, <1>2, <1>3, PTL DEF MonitoredSpec

-----------------------------------------------------------------------------
(***************************************************************************)
(* No unit is counted in two backups.  The backups are measured in the     *)
(* order of their ordinals, and however the rotator has moved them since   *)
(* they were listed, those that are left hold only units that come after   *)
(* everything counted so far.                                              *)
(***************************************************************************)
BackupNames == Names \ {Active}

(* Between two backups the order of units holds even when the rotator has  *)
(* been stopped in the middle of a copy.                                   *)
BackupsInOrder ==
  \A m, n \in BackupNames : m < n => \A u \in Units(m), v \in Units(n) : u < v

(* Where the units of a name come from.                                    *)
LEMMA UnitsCome ==
  ASSUME LogInv, "write" \notin Faults, [Next]_vars, NEW n \in Names, NEW u \in Units(n)'
  PROVE  \/ u \in Units(n)
         \/ u > Written /\ Open(n)
         \/ /\ n = ordinal /\ n # Active /\ rpc \in {"copy", "rename"}
            /\ u \in Units(Active)
<1>0. LogEffect /\ Active \in Names
  BY LabMoves, ActiveIsName DEF LogInv, Clean, Flow
<1>1. CASE LogKept
  BY <1>1, UnitsFollow DEF LogKept, Stay
<1>2. CASE LogWritten
  <2>1. PICK w \in Names, k \in Nat \ {0} :
          /\ Open(w) /\ Contents(w)' = Contents(w) \o NextUnits(k) /\ Stay({w})
    BY <1>2 DEF LogWritten
  <2>2. \A v \in Units(w)' \ Units(w) : v > Written
    BY <2>1, WriteAddsAhead
  <2> QED
    BY <2>1, <2>2, UnitsFollow DEF Stay
<1>3. CASE LogCopied
  <2>1. CASE n = ordinal
    <3>1. Units(ordinal)' \subseteq Units(Active) /\ ordinal' = ordinal
      BY <1>3, CopyAddsActive DEF LogCopied
    <3>2. Units(n)' = Units(ordinal)'
      BY <2>1, <3>1 DEF Units, Contents, Exists
    <3> QED
      BY <1>3, <2>1, <3>1, <3>2 DEF LogCopied
  <2> QED
    BY <1>3, <2>1, UnitsFollow DEF LogCopied, Stay
<1>4. CASE LogDropped
  BY <1>4, UnitsFollow DEF LogDropped, Stay
<1>5. CASE LogMoved
  <2>1. CASE n = ordinal
    <3>1. Contents(n)' = Contents(Active)
      BY <1>5, <2>1 DEF LogMoved, Contents, Exists
    <3> QED
      BY <1>5, <2>1, <3>1 DEF LogMoved, Units
  <2>2. CASE n # ordinal
    BY <1>5, <2>2, UnitsFollow DEF LogMoved, Stay
  <2> QED
    BY <2>1, <2>2
<1>6. CASE LogExpired
  BY <1>6, UnitsFollow DEF LogExpired
<1> QED
  BY <1>0, <1>1, <1>2, <1>3, <1>4, <1>5, <1>6 DEF LogEffect

(* The rotator takes the ordinals one after the other.                     *)
LEMMA OrdinalGrows ==
  ASSUME IndInv, [Next]_vars
  PROVE  ordinal \in Nat /\ ordinal' \in Nat /\ ordinal' >= ordinal
<1>1. ordinal \in Nat
  BY HostAssumption DEF IndInv, TypeOK, RotatorTypeOK
<1>2. ordinal' = ordinal \/ ordinal' = ordinal + 1
  <2>1. CASE RotatorNext
    BY <2>1
    DEF RotatorNext, PollAgain, BaselineComplete, PollFull, RotateOnce, CopySync,
        RequestReopen, ReopenQueued, RotationDone, RotationFailed, PollFailed, CopyStart,
        CopyChunk, Truncate, RenameActive, CreateReplacement, EnforceRetention,
        rotatorVars
  <2>2. CASE HarnessNext \/ WriterKilled \/ UNCHANGED vars
    BY <2>2, HarnessDirectory
  <2> QED
    BY <2>1, <2>2 DEF Next, Returned, rotatorVars, vars
<1> QED
  BY <1>1, <1>2

(* Every step keeps the backups in order.                                  *)
LEMMA BackupsStayInOrder ==
  ASSUME LogInv, "write" \notin Faults, [Next]_vars, BackupsInOrder
  PROVE  BackupsInOrder'
<1>0. /\ InOrder /\ Ahead /\ Directory /\ IndInv /\ Ordinals /\ Active \in Names
      /\ Written \in Nat
  BY ActiveIsName, WrittenType DEF LogInv, Clean, Flow, Order, IndInv, Core
<1>1. SUFFICES ASSUME NEW m \in BackupNames, NEW n \in BackupNames, m < n,
                      NEW u \in Units(m)', NEW v \in Units(n)'
               PROVE  u < v
  BY DEF BackupsInOrder, BackupNames
<1>2. m \in Names /\ n \in Names /\ m # Active /\ n # Active /\ m # n /\ m \in Int /\ n \in Int
  BY <1>1 DEF BackupNames, Names
<1>3. /\ \/ u \in Units(m)
         \/ u > Written /\ Open(m)
         \/ m = ordinal /\ rpc \in {"copy", "rename"} /\ u \in Units(Active)
      /\ \/ v \in Units(n)
         \/ v > Written /\ Open(n)
         \/ n = ordinal /\ rpc \in {"copy", "rename"} /\ v \in Units(Active)
  BY <1>2, UnitsCome
<1>4. \A k \in Names : \A w \in Units(k) : w \in Nat /\ w <= Written
  <2>1. \A k \in Names : \A w \in Units(k) : w \in Unit
    BY <1>0, ContentsType DEF Units, Range
  <2> QED
    BY <1>0, <2>1 DEF Ahead, Unit
<1>5. u \in Int /\ v \in Int
  <2>1. IndInv'
    BY LogInvNext DEF LogInv
  <2>2. \A k \in Names : Contents(k)' \in Seq(Unit)
    <3>1. LogEffect
      BY LabMoves DEF LogInv, Clean, Flow
    <3>2. \A k \in Names : dir'[k] # None => data'[dir'[k]] \in Seq(Unit)
      BY <2>1 DEF IndInv, TypeOK, HostTypeOK
    <3> QED
      BY <3>2 DEF Contents, Exists
  <2> QED
    BY <1>2, <2>2 DEF Units, Range, Unit
<1>6. CASE u \in Units(m)
  <2>1. CASE v \in Units(n)
    BY <1>1, <1>6, <2>1 DEF BackupsInOrder
  <2>2. CASE v > Written
    BY <1>0, <1>2, <1>4, <1>5, <1>6, <2>2
  <2>3. CASE n = ordinal /\ rpc \in {"copy", "rename"} /\ v \in Units(Active)
    <3>1. Earlier(m, Active) /\ ~Twice(m, Active)
      BY <1>2, <2>3 DEF Earlier, Twice
    <3> QED
      BY <1>0, <1>2, <1>6, <2>3, <3>1 DEF InOrder
  <2> QED
    BY <1>3, <2>1, <2>2, <2>3
<1>7. CASE u > Written /\ Open(m)
  <2>1. Units(n) = {} /\ Units(Active) = {}
    <3>1. Earlier(m, n) /\ Earlier(m, Active)
      BY <1>1, <1>2 DEF Earlier
    <3> QED
      BY <1>0, <1>2, <1>7, <3>1, NothingAfterOpen, UnitsFollow
  <2>2. ~Open(n)
    BY <1>0, <1>2, <1>7 DEF Open, Directory, Distinct
  <2> QED
    BY <1>3, <2>1, <2>2
<1>8. CASE m = ordinal
  <2>1. Contents(n) = <<>> /\ ~Open(n) /\ n # ordinal
    BY <1>0, <1>1, <1>2, <1>8 DEF Ordinals, Contents, Exists, Open
  <2> QED
    BY <1>3, <2>1, UnitsFollow
<1> QED
  BY <1>3, <1>6, <1>7, <1>8

(* What has been counted lies below B in the stream, and what is still to  *)
(* be counted, or may yet be moved to where it will be, above.             *)
CountedBelow(B) ==
  /\ sample.backup <= B /\ B <= Written
  /\ \A n \in pending : n <= ordinal /\ \A u \in Units(n) : u > B
  /\ pending # {} /\ rpc \notin {"failed", "killed"} => \A u \in Units(Active) : u > B

CountedSoFar ==
  /\ mpc = "stat" => \E B \in Nat : CountedBelow(B)
  /\ mpc = "row"  => sample.backup <= Written

(* The writer and the rotator bring nothing that has been counted under a  *)
(* name that is still to be measured.                                      *)
LEMMA CountedByLab ==
  ASSUME LogInv, Covered, CountedSoFar, "write" \notin Faults, [Next]_vars, UNCHANGED monitorVars
  PROVE  CountedSoFar'
<1>0. /\ UNCHANGED <<mpc, sample, pending>> /\ sample.backup \in Nat
      /\ Written \in Nat /\ Written' \in Nat /\ Written' >= Written
      /\ ordinal \in Nat /\ ordinal' \in Nat /\ ordinal' >= ordinal
      /\ CopyGoesOn /\ Active \in Names
  BY WrittenGrows, OrdinalGrows, LabMoves, ActiveIsName
  DEF monitorVars, Covered, LogInv, Clean, Flow
<1>1. ASSUME mpc = "stat" PROVE \E B \in Nat : CountedBelow(B)'
  <2>1. PICK B \in Nat : CountedBelow(B)
    BY <1>1 DEF CountedSoFar
  <2>2. pending \subseteq BackupNames
    BY <1>1 DEF Covered, BackupNames
  <2>3. sample'.backup <= B /\ B <= Written'
    BY <1>0, <2>1 DEF CountedBelow
  <2>4. ASSUME NEW n \in pending
        PROVE  n <= ordinal' /\ \A u \in Units(n)' : u > B
    <3>1. n \in Names /\ n # Active /\ n \in Int /\ n <= ordinal
      BY <2>1, <2>2, <2>4 DEF CountedBelow, BackupNames, Names
    <3>2. ASSUME NEW u \in Units(n)' PROVE u > B
      <4>1. CASE u \in Units(n)
        BY <2>1, <2>4, <4>1 DEF CountedBelow
      <4>2. CASE u > Written
        <5>1. u \in Int
          <6>1. Contents(n)' \in Seq(Unit)
            <7>1. dir'[n] # None => data'[dir'[n]] \in Seq(Unit)
              BY <3>1, LogInvNext DEF LogInv, IndInv, TypeOK, HostTypeOK
            <7> QED
              BY <7>1 DEF Contents, Exists
          <6> QED
            BY <3>2, <6>1 DEF Units, Range, Unit
        <5> QED
          BY <1>0, <2>1, <4>2, <5>1 DEF CountedBelow
      <4>3. CASE rpc \in {"copy", "rename"} /\ u \in Units(Active)
        BY <2>1, <2>4, <4>3 DEF CountedBelow
      <4> QED
        BY <3>1, <4>1, <4>2, <4>3, UnitsCome
    <3> QED
      BY <1>0, <3>1, <3>2
  <2>5. ASSUME pending # {}, rpc' \notin {"failed", "killed"}, NEW u \in Units(Active)'
        PROVE  u > B
    <3>1. rpc \notin {"failed", "killed"}
      BY <1>0, <2>5 DEF CopyGoesOn
    <3>2. CASE u \in Units(Active)
      BY <2>1, <2>5, <3>1, <3>2 DEF CountedBelow
    <3>3. CASE u > Written
      <4>1. u \in Int
        <5>1. Contents(Active)' \in Seq(Unit)
          <6>1. dir'[Active] # None => data'[dir'[Active]] \in Seq(Unit)
            BY <1>0, LogInvNext DEF LogInv, IndInv, TypeOK, HostTypeOK
          <6> QED
            BY <6>1 DEF Contents, Exists
        <5>2. Active' = Active
          BY DEF Active
        <5> QED
          BY <2>5, <5>1, <5>2 DEF Units, Range, Unit
      <4> QED
        BY <1>0, <2>1, <3>3, <4>1 DEF CountedBelow
    <3> QED
      BY <1>0, <2>5, <3>2, <3>3, UnitsCome
  <2> QED
    BY <1>0, <2>3, <2>4, <2>5 DEF CountedBelow
<1> QED
  BY <1>0, <1>1 DEF CountedSoFar

(* A backup adds as many units as it holds, and they come one after the    *)
(* other from where the counting stands.                                   *)
LEMMA MeasuredBelow ==
  ASSUME IndInv, Contiguous, NEW n \in Names, Exists(n),
         NEW B \in Nat, \A u \in Units(n) : u > B
  PROVE  \E b \in Nat : /\ B + Size(n) <= b /\ (b = B \/ b \in Units(n))
                        /\ \A u \in Units(n) : u <= b
<1> DEFINE s == data[dir[n]]
           k == Len(data[dir[n]])
<1>1. s \in Seq(Unit) /\ Consecutive(s)
  BY ContentsType DEF Contiguous, Contents
<1>2. k \in Nat /\ DOMAIN s = 1..k /\ Size(n) = k /\ Units(n) = Range(s)
  BY <1>1 DEF Size, Units, Contents
<1>3. \A i \in 1..k : s[i] \in Nat /\ s[i] \in Range(s)
  BY <1>1, <1>2 DEF Range, Unit
<1>4. CASE k = 0
  BY <1>2, <1>4 DEF Range
<1>5. CASE k # 0
  <2>1. 1 \in 1..k /\ k \in 1..k
    BY <1>2, <1>5
  <2>2. s[1] > B /\ s[k] - s[1] = k - 1
    BY <1>1, <1>2, <1>3, <2>1 DEF Consecutive
  <2>3. \A i \in 1..k : s[k] - s[i] = k - i
    BY <1>1, <1>2, <2>1 DEF Consecutive
  <2>4. \A i \in 1..k : s[i] <= s[k]
    BY <1>2, <1>3, <2>1, <2>3
  <2>5. \A u \in Units(n) : u <= s[k]
    BY <1>2, <2>4 DEF Range
  <2>6. B + k <= s[k] /\ s[k] \in Nat /\ s[k] \in Units(n)
    BY <1>2, <1>3, <2>1, <2>2
  <2> QED
    BY <1>2, <2>5, <2>6
<1> QED
  BY <1>4, <1>5

(* Every call of the monitor counts what comes next.                       *)
LEMMA CountedByMonitor ==
  ASSUME LogInv, BackupsInOrder, Covered, CountedSoFar, "write" \notin Faults, UNCHANGED vars,
         MonitorNext \/ StartMonitor \/ SignalMonitor
  PROVE  CountedSoFar'
<1>0. /\ Written' = Written /\ rpc' = rpc /\ ordinal' = ordinal
      /\ UNCHANGED <<dir, data>> /\ Active' = Active
      /\ Written \in Nat /\ sample.backup \in Nat /\ Active \in Names
      /\ Order /\ IndInv /\ Ordinals /\ ordinal \in Nat
  BY WrittenType, ActiveIsName, OrdinalGrows
  DEF vars, hostVars, writerVars, rotatorVars, Written, Covered, LogInv, Clean, Flow, IndInv,
      Core, Active
<1>u. \A n \in Names : Units(n)' = Units(n)
  BY <1>0 DEF Units, Contents, Exists
<1>1. CASE \/ MonitorBoots \/ MonitorStops \/ MonitorFails \/ MonitorKilled \/ StartMonitor
           \/ Tick \/ StatActive \/ WriteRow
  <2>1. mpc' \notin {"stat", "row"}
    BY <1>1
    DEF MonitorBoots, MonitorStops, MonitorFails, MonitorKilled, StartMonitor, Tick,
        StatActive, WriteRow
  <2> QED
    BY <2>1 DEF CountedSoFar
<1>2. CASE SignalMonitor
  <2>1. UNCHANGED <<mpc, sample, pending>>
    BY <1>2 DEF SignalMonitor
  <2>2. ASSUME NEW B \in Nat, mpc = "stat", CountedBelow(B) PROVE CountedBelow(B)'
    <3>1. pending \subseteq Names
      BY <2>2 DEF Covered
    <3> QED
      BY <1>0, <1>u, <2>1, <2>2, <3>1 DEF CountedBelow
  <2> QED
    BY <1>0, <2>1, <2>2 DEF CountedSoFar
<1>3. CASE Glob
  <2>1. /\ mpc = "glob" /\ mpc' = "stat" /\ sample' = sample
        /\ pending' = {n \in BackupNames : Exists(n)}
    BY <1>3 DEF Glob, BackupNames
  <2>2. sample.backup = 0
    BY <2>1 DEF Covered
  <2>3. ASSUME NEW n \in pending' PROVE n \in Names /\ n <= ordinal
    BY <1>0, <2>1 DEF Ordinals, Exists, BackupNames, Names
  <2>4. \A n \in Names : \A u \in Units(n) : u > 0
    BY <1>0, ContentsType DEF Units, Range, Unit
  <2>5. CountedBelow(0)'
    BY <1>0, <1>u, <2>1, <2>2, <2>3, <2>4 DEF CountedBelow
  <2> QED
    BY <2>1, <2>5 DEF CountedSoFar
<1>4. CASE StatBackup
  <2>1. /\ mpc = "stat" /\ mpc' = "stat" /\ pending \subseteq BackupNames
        /\ BackupNames \subseteq Names
    BY <1>4 DEF StatBackup, Covered, BackupNames
  <2>2. PICK n \in pending :
          /\ \A m \in pending : n <= m
          /\ pending' = pending \ {n}
          /\ sample' = IF Exists(n)
                       THEN [sample EXCEPT !.backup = @ + Size(n), !.count = @ + 1]
                       ELSE sample
    BY <1>4 DEF StatBackup
  <2>3. PICK B \in Nat : CountedBelow(B)
    BY <2>1 DEF CountedSoFar
  <2>4. CASE ~Exists(n)
    <3>1. CountedBelow(B)'
      BY <1>0, <1>u, <2>1, <2>2, <2>3, <2>4 DEF CountedBelow
    <3> QED
      BY <2>1, <3>1 DEF CountedSoFar
  <2>5. CASE Exists(n)
    <3>1. n \in Names /\ n \in BackupNames /\ \A u \in Units(n) : u > B
      BY <2>1, <2>2, <2>3 DEF CountedBelow
    <3>2. PICK b \in Nat : /\ B + Size(n) <= b /\ (b = B \/ b \in Units(n))
                           /\ \A u \in Units(n) : u <= b
      BY <1>0, <2>5, <3>1, MeasuredBelow DEF Order
    <3>3. Size(n) \in Nat
      BY <1>0, <2>5, <3>1, SizeCounts
    <3>4. sample'.backup <= b /\ b <= Written
      <4>1. sample'.backup = sample.backup + Size(n)
        BY <2>2, <2>5 DEF Covered
      <4>2. sample.backup <= B /\ B <= Written
        BY <2>3 DEF CountedBelow
      <4> QED
        BY <1>0, <3>1, <3>2, <3>3, <4>1, <4>2 DEF Order, Ahead
    <3>5. ASSUME NEW m \in pending', NEW u \in Units(m) PROVE u > b
      <4>1. m \in pending /\ m \in BackupNames /\ n < m
        BY <2>1, <2>2, <3>1, <3>5 DEF BackupNames, Names
      <4>2. u > B
        BY <2>3, <3>5, <4>1 DEF CountedBelow
      <4>3. ASSUME b \in Units(n) PROVE b < u
        BY <3>1, <3>5, <4>1, <4>3 DEF BackupsInOrder
      <4>4. u \in Nat
        BY <1>0, <2>1, <3>5, <4>1, ContentsType DEF Units, Range, Unit
      <4> QED
        BY <3>2, <4>2, <4>3, <4>4
    <3>6. ASSUME pending' # {}, rpc \notin {"failed", "killed"}, NEW u \in Units(Active)
          PROVE  u > b
      <4>1. PICK m \in pending : m # n
        BY <2>2, <3>6
      <4>2. n < ordinal
        BY <1>0, <2>1, <2>2, <2>3, <3>1, <4>1 DEF CountedBelow, BackupNames, Names
      <4>3. Earlier(n, Active) /\ ~Twice(n, Active)
        BY <1>0, <3>1, <3>6, <4>2 DEF Earlier, Twice, BackupNames, Names
      <4>4. ASSUME b \in Units(n) PROVE b < u
        BY <1>0, <3>1, <3>6, <4>3, <4>4 DEF Order, InOrder
      <4>5. u \in Nat /\ u > B
        <5>1. u \in Unit
          BY <1>0, <3>6, ContentsType DEF Units, Range
        <5> QED
          BY <2>2, <2>3, <3>6, <5>1 DEF CountedBelow, Unit
      <4> QED
        BY <3>2, <4>4, <4>5
    <3>7. CountedBelow(b)'
      <4>1. \A m \in pending' : m \in Names /\ m <= ordinal
        BY <2>1, <2>2, <2>3 DEF CountedBelow
      <4> QED
        BY <1>0, <1>u, <3>4, <3>5, <3>6, <4>1 DEF CountedBelow
    <3> QED
      BY <2>1, <3>7 DEF CountedSoFar
  <2> QED
    BY <2>4, <2>5
<1>5. CASE Measured
  <2>1. mpc = "stat" /\ mpc' = "row" /\ sample' = sample
    BY <1>5 DEF Measured
  <2>2. PICK B \in Nat : sample.backup <= B /\ B <= Written
    BY <2>1 DEF CountedSoFar, CountedBelow
  <2> QED
    BY <1>0, <2>1, <2>2 DEF CountedSoFar
<1> QED
  BY <1>1, <1>2, <1>3, <1>4, <1>5 DEF MonitorNext

(* No row counts a unit in two backups, for any number of rotations,       *)
(* backups kept and samples, when the writer's writes do not fail.  (After *)
(* a failed write the Go writer flushes its buffer again, and the backups  *)
(* hold more than the writer has accounted for.)                           *)
THEOREM SampleCountsNothingTwice ==
  ASSUME "write" \notin Faults
  PROVE  MonitoredSpec => []SampleCountsOnce
<1> DEFINE Inv == LogInv /\ BackupsInOrder /\ Covered /\ CountedSoFar
<1>1. MonitoredInit => Inv
  <2> SUFFICES ASSUME MonitoredInit PROVE Inv
    OBVIOUS
  <2>1. LogInv
    BY LogInvInit DEF MonitoredInit
  <2>2. Covered /\ CountedSoFar
    BY DEF MonitoredInit, MonitorInit, Covered, CountedSoFar, NoSample
  <2>3. \A n \in Names : Units(n) = {}
    BY UnitsFollow DEF MonitoredInit, LabInit, HostInit, Contents, Exists
  <2> QED
    BY <2>1, <2>2, <2>3 DEF BackupsInOrder, BackupNames
<1>2. Inv /\ [MonitoredNext]_monitoredVars => Inv'
  <2> SUFFICES ASSUME Inv, [MonitoredNext]_monitoredVars PROVE Inv'
    OBVIOUS
  <2>1. [Next]_vars
    BY DEF MonitoredNext, monitoredVars, StartMonitor, SignalMonitor
  <2>2. LogInv' /\ BackupsInOrder'
    BY <2>1, LogInvNext, BackupsStayInOrder
  <2>3. \/ UNCHANGED monitorVars
        \/ UNCHANGED vars /\ (MonitorNext \/ StartMonitor \/ SignalMonitor)
    BY DEF MonitoredNext, monitoredVars, StartMonitor, SignalMonitor
  <2>4. Covered'
    BY <2>1, <2>3, CoveredByLab, CoveredByMonitor
  <2>5. CountedSoFar'
    BY <2>1, <2>3, CountedByLab, CountedByMonitor
  <2> QED
    BY <2>2, <2>4, <2>5
<1>3. Inv => SampleCountsOnce
  BY DEF CountedSoFar, SampleCountsOnce, Written
<1> HIDE DEF Inv
<1> QED
  BY <1>1, <1>2, <1>3, PTL DEF MonitoredSpec
=============================================================================
