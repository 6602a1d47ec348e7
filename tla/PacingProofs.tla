---------------------------- MODULE PacingProofs ----------------------------
(***************************************************************************)
(* The bounds of Pacing for every rate, record size, clock and integer     *)
(* width, and for any number of ticks.                                     *)
(***************************************************************************)
EXTENDS Pacing, TLAPS

Modulus == 2 * (MaxInt + 1)

(* What the rate has earned but is neither in a record nor in the credit.  *)
Lost  == rate * last - (generated * RecordBytes + credit) * Second
Ahead == generated * RecordBytes * Second - rate * last

PaceTypeOK ==
  /\ writer \in {"go", "cpp"}
  /\ rate \in 1..MaxInt
  /\ last \in Int /\ credit \in Int
  /\ generated \in Nat /\ ticks \in Nat /\ stalls \in Nat

CppExact ==
  writer = "cpp" => /\ rate * last = generated * RecordBytes * Second + credit
                    /\ 0 <= credit /\ credit < RecordBytes * Second

GoFresh == writer = "go" /\ ticks = 0 => last = 0 /\ credit = 0 /\ generated = 0

(* Each stall costs at most MaxInt + 1, and the early tick less. *)
GoDebt ==
  writer = "go" => /\ credit < RecordBytes
                   /\ stalls < Second
                        => credit * Second >= -((MaxInt + 1) * stalls) - MaxInt

GoLost ==
  writer = "go" => /\ stalls < Second => Lost > -Second
                   /\ stalls = 0 => Lost <= ticks * (Second - 1)

GoAhead == writer = "go" /\ stalls < Second => Ahead < Second \/ generated = 0

PaceInv == PaceTypeOK /\ CppExact /\ GoFresh /\ GoDebt /\ GoLost /\ GoAhead

-----------------------------------------------------------------------------
(* Wrapping subtracts a multiple of the modulus and lands in the integers.  *)
LEMMA WrapFacts ==
  ASSUME NEW n \in Int
  PROVE  /\ Wrap(n) \in -(MaxInt + 1)..MaxInt
         /\ \E k \in Int : n = Wrap(n) + k * Modulus
<1>. DEFINE z == n + MaxInt + 1
            M == 2 * (MaxInt + 1)
<1>1. M \in Nat /\ M > 0 /\ z \in Int
  BY PacingAssumption
<1>2. z % M \in 0..M - 1 /\ z = M * (z \div M) + (z % M) /\ z \div M \in Int
  <2>. HIDE DEF z, M
  <2>. QED BY <1>1, SMT
<1>3. Wrap(n) = (z % M) - (MaxInt + 1)
  BY DEF Wrap
<1>4. Wrap(n) \in -(MaxInt + 1)..MaxInt
  <2>. HIDE DEF z
  <2>. QED BY <1>2, <1>3, PacingAssumption
<1>5. n = Wrap(n) + (z \div M) * Modulus
  <2>1. n = z - (MaxInt + 1)
    BY PacingAssumption
  <2>2. (z \div M) * Modulus = M * (z \div M)
    BY <1>1, <1>2 DEF Modulus
  <2>. HIDE DEF z, M
  <2>. QED BY <1>1, <1>2, <1>3, <2>1, <2>2, PacingAssumption
<1>. QED BY <1>2, <1>4, <1>5

(* An integer of the code is its own wrap.                                  *)
LEMMA WrapIdentity ==
  ASSUME NEW n \in -(MaxInt + 1)..MaxInt
  PROVE  Wrap(n) = n
<1>. DEFINE z == n + MaxInt + 1
            M == 2 * (MaxInt + 1)
<1>1. z \in 0..M - 1 /\ M \in Nat /\ M > 0
  BY PacingAssumption
<1>2. z % M = z
  <2>. HIDE DEF z, M
  <2>. QED BY <1>1, SMT
<1>. QED BY <1>2, PacingAssumption DEF Wrap

(* The wrap of what is too large is less by at least the modulus.           *)
LEMMA WrapLarge ==
  ASSUME NEW n \in Int, n > MaxInt
  PROVE  Wrap(n) <= n - Modulus
<1>1. PICK k \in Int : n = Wrap(n) + k * Modulus
  BY WrapFacts
<1>2. Wrap(n) \in Int /\ Wrap(n) <= MaxInt
  BY WrapFacts, PacingAssumption
<1>3. Modulus \in Nat /\ Modulus > 0
  BY PacingAssumption DEF Modulus
<1>4. k * Modulus > 0
  BY <1>1, <1>2, <1>3, PacingAssumption
<1>5. k >= 1
  BY <1>3, <1>4, SMT
<1>6. k * Modulus >= Modulus
  BY <1>3, <1>5, SMT
<1>. QED BY <1>1, <1>2, <1>3, <1>6, SMT

(* Go's division rounds towards zero.                                       *)
LEMMA QuotientFacts ==
  ASSUME NEW n \in Int, NEW d \in Nat, d > 0
  PROVE  /\ Quotient(n, d) \in Int
         /\ n >= 0 => /\ Quotient(n, d) >= 0 /\ Quotient(n, d) * d <= n
                      /\ n < Quotient(n, d) * d + d
         /\ n < 0  => /\ Quotient(n, d) <= 0 /\ n <= Quotient(n, d) * d
                      /\ Quotient(n, d) * d < n + d
<1>1. CASE n >= 0
  <2>1. /\ n \div d \in Int /\ n \div d >= 0
        /\ (n \div d) * d <= n /\ n < (n \div d) * d + d
    BY <1>1, SMT
  <2>. QED BY <1>1, <2>1 DEF Quotient
<1>2. CASE n < 0
  <2>. DEFINE q == (-n) \div d
  <2>1. q \in Int /\ q >= 0 /\ q * d <= -n /\ -n < q * d + d
    BY <1>2, SMT
  <2>2. Quotient(n, d) = -q
    BY <1>2 DEF Quotient
  <2>3. (-q) * d = -(q * d)
    <3>. HIDE DEF q
    <3>. QED BY <2>1
  <2>. HIDE DEF q
  <2>. QED BY <1>2, <2>1, <2>2, <2>3
<1>. QED BY <1>1, <1>2

(* Multiplying by a natural number keeps the order.                         *)
LEMMA TimesMonotone ==
  ASSUME NEW m \in Nat, NEW a \in Int, NEW b \in Int, a <= b
  PROVE  m * a \in Int /\ m * b \in Int /\ m * a <= m * b
<1>1. b - a \in Nat /\ m * (b - a) = m * b - m * a
  OBVIOUS
<1>2. m * (b - a) >= 0
  <2>1. ASSUME NEW d \in Nat PROVE m * d >= 0
    OBVIOUS
  <2>. QED BY <1>1, <2>1
<1>. QED BY <1>1, <1>2

(* The division after the multiplication finds out exactly when a product   *)
(* of two positive integers is one too.                                     *)
LEMMA TargetFacts ==
  ASSUME NEW a \in 1..MaxInt, NEW r \in 1..MaxInt
  PROVE  /\ Quotient(Wrap(a * r), r) = a => Wrap(a * r) = a * r
         /\ a * r <= MaxInt => Quotient(Wrap(a * r), r) = a
<1>. DEFINE p == a * r
            w == Wrap(p)
<1>1. /\ a \in Nat /\ a > 0 /\ r \in Nat /\ r > 0
      /\ p \in Nat /\ p > 0 /\ p = a * r
  BY PacingAssumption, SMT
<1>2. w \in Int /\ w <= MaxInt
  BY <1>1, WrapFacts, PacingAssumption
<1>3. ASSUME Quotient(w, r) = a PROVE w = p
  <2>1. w >= 0
    BY <1>1, <1>2, <1>3, QuotientFacts
  <2>2. a * r <= w
    BY <1>1, <1>2, <1>3, <2>1, QuotientFacts
  <2>3. p \in -(MaxInt + 1)..MaxInt
    <3>. HIDE DEF p, w
    <3>. QED BY <1>1, <1>2, <2>2, PacingAssumption
  <2>. QED BY <2>3, WrapIdentity
<1>4. ASSUME p <= MaxInt PROVE Quotient(w, r) = a
  <2>1. w = p
    <3>1. p \in -(MaxInt + 1)..MaxInt
      <4>. HIDE DEF p, w
      <4>. QED BY <1>1, <1>4, PacingAssumption
    <3>. QED BY <3>1, WrapIdentity
  <2>. DEFINE q == Quotient(p, r)
  <2>2. q \in Int /\ q * r <= a * r /\ a * r < q * r + r
    <3>1. p \in Int /\ p >= 0 /\ r \in Nat /\ r > 0
      BY <1>1
    <3>2. q \in Int /\ q * r <= p /\ p < q * r + r
      <4>. HIDE DEF p
      <4>. QED BY <3>1, QuotientFacts
    <3>. QED BY <3>2
  <2>3. q = a
    <3>. HIDE DEF q, p, w
    <3>1. (a - q) * r >= 0 /\ (a - q - 1) * r < 0
      BY <1>1, <2>2, SMT
    <3>. QED BY <1>1, <2>2, <3>1, SMT
  <2>. QED BY <2>1, <2>3
<1>. HIDE DEF p, w
<1>. QED BY <1>3, <1>4 DEF p, w

(* What the inner loop leaves is less than a record and was not paid for.   *)
LEMMA PaidFacts ==
  ASSUME NEW c \in Int
  PROVE  /\ Price \in Nat /\ Price > 0
         /\ Paid(c) \in Nat /\ Leftover(c) \in Int
         /\ c = Paid(c) * Price + Leftover(c)
         /\ Leftover(c) < Price
         /\ c < Price => Paid(c) = 0 /\ Leftover(c) = c
         /\ c >= Price => Leftover(c) >= 0
         /\ c >= 0 => Leftover(c) >= 0
<1>1. Price \in Nat /\ Price > 0
  BY PacingAssumption, SMT DEF Price
<1>2. CASE c >= Price
  <2>. DEFINE d == Price
              k == c \div d
  <2>1. /\ k \in Nat /\ k * d <= c /\ c < k * d + d
    <3>. HIDE DEF d
    <3>0. d \in Nat /\ d > 0 /\ c >= d
      BY <1>1, <1>2 DEF d
    <3>. QED BY <3>0, SMT
  <2>2. Paid(c) = k /\ Leftover(c) = c - k * d
    BY <1>2 DEF Paid, Leftover
  <2>3. k * d \in Int
    BY <1>1, <2>1
  <2>. HIDE DEF k
  <2>. QED BY <1>1, <1>2, <2>1, <2>2, <2>3
<1>3. CASE c < Price
  <2>1. Paid(c) = 0
    BY <1>1, <1>3 DEF Paid
  <2>2. Leftover(c) = c
    BY <1>1, <2>1 DEF Leftover
  <2>. QED BY <1>1, <1>3, <2>1, <2>2
<1>. QED BY <1>1, <1>2, <1>3

-----------------------------------------------------------------------------
(* The generate loop of either writer starts without credit or records.    *)
THEOREM PaceInit == Init => PaceInv
<1>. SUFFICES ASSUME Init PROVE PaceInv
  OBVIOUS
<1>1. rate \in 1..MaxInt
  BY PacingAssumption DEF Init
<1>2. Lost = 0
  BY <1>1, PacingAssumption DEF Init, Lost
<1>3. 0 < RecordBytes * Second
  BY PacingAssumption, SMT
<1>4. PaceTypeOK
  BY <1>1, PacingAssumption DEF Init, PaceTypeOK
<1>5. rate * 0 = 0 /\ 0 * RecordBytes = 0 /\ 0 * Second = 0 /\ (MaxInt + 1) * 0 = 0 /\ 0 * (Second - 1) = 0
  BY <1>1, PacingAssumption
<1>. QED
  BY <1>1, <1>2, <1>3, <1>4, <1>5, PacingAssumption
  DEF Init, PaceInv, CppExact, GoFresh, GoDebt, GoLost, GoAhead

(* What one of Go's ticks adds to the credit: never more than half the      *)
(* integers, less than the modulus too little when the product overflows.   *)
LEMMA GoEarned ==
  ASSUME PaceTypeOK, writer = "go", NEW elapsed \in Int
  PROVE  LET x == rate * elapsed
             e == Earned(elapsed)
         IN  /\ x \in Int /\ e \in Int
             /\ 2 * e <= MaxInt
             /\ e * Second \in Int /\ e * Second >= -(MaxInt + 1)
             /\ 0 <= x /\ x <= MaxInt
                  => 0 <= e /\ e * Second <= x /\ x < e * Second + Second
             /\ x > MaxInt => e * Second < x - Modulus + Second
             /\ elapsed = -1 => /\ e <= 0 /\ -MaxInt <= e * Second /\ x <= e * Second
                                /\ e * Second < x + Second
<1>. DEFINE x == rate * elapsed
            w == Wrap(x)
            e == Quotient(w, Second)
<1>1. rate \in Int /\ rate >= 1 /\ rate <= MaxInt /\ MaxInt \in Int /\ Second \in Int /\ Second >= 2
  BY PacingAssumption DEF PaceTypeOK
<1>2. x \in Int
  BY <1>1
<1>3. w \in Int /\ -(MaxInt + 1) <= w /\ w <= MaxInt
  <2>. HIDE DEF x
  <2>. QED BY <1>1, <1>2, WrapFacts
<1>4. /\ e \in Int
      /\ w >= 0 => e >= 0 /\ e * Second <= w /\ w < e * Second + Second
      /\ w < 0  => e <= 0 /\ w <= e * Second /\ e * Second < w + Second
  <2>. HIDE DEF w
  <2>. QED BY <1>1, <1>3, QuotientFacts
<1>5. e * Second \in Int
  <2>. HIDE DEF e
  <2>. QED BY <1>1, <1>4
<1>6. Earned(elapsed) = e
  BY DEF Earned
<1>7. 2 * e <= MaxInt
  <2>1. CASE e <= 0
    <3>. HIDE DEF e
    <3>. QED BY <1>1, <1>4, <2>1
  <2>2. CASE e > 0
    <3>1. 2 * e <= e * Second
      <4>. HIDE DEF e
      <4>. QED BY <1>1, <1>4, <2>2, SMT
    <3>2. e * Second <= MaxInt
      <4>. HIDE DEF e, w
      <4>. QED BY <1>1, <1>3, <1>4, <1>5, <2>2
    <3>. HIDE DEF e
    <3>. QED BY <1>1, <1>4, <1>5, <3>1, <3>2
  <2>. HIDE DEF e
  <2>. QED BY <1>4, <2>1, <2>2
<1>8. e * Second >= -(MaxInt + 1)
  <2>1. e >= 0 => e * Second >= 0
    <3>. HIDE DEF e
    <3>. QED BY <1>1, <1>4, SMT
  <2>. HIDE DEF e, w
  <2>. QED BY <1>1, <1>3, <1>4, <1>5, <2>1
<1>9. 0 <= x /\ x <= MaxInt => 0 <= e /\ e * Second <= x /\ x < e * Second + Second
  <2>1. 0 <= x /\ x <= MaxInt => w = x
    <3>. HIDE DEF x
    <3>. QED BY <1>1, <1>2, WrapIdentity
  <2>. HIDE DEF e, w, x
  <2>. QED BY <1>2, <1>4, <1>5, <2>1
<1>10. x > MaxInt => e * Second < x - Modulus + Second
  <2>1. x > MaxInt => w <= x - Modulus
    <3>. HIDE DEF x
    <3>. QED BY <1>2, WrapLarge
  <2>2. Modulus \in Int
    BY PacingAssumption DEF Modulus
  <2>. HIDE DEF e, w, x
  <2>. QED BY <1>1, <1>2, <1>3, <1>4, <1>5, <2>1, <2>2
<1>11. elapsed = -1 => /\ e <= 0 /\ -MaxInt <= e * Second /\ x <= e * Second
                      /\ e * Second < x + Second
  <2>1. elapsed = -1 => x = -rate
    BY <1>1
  <2>2. elapsed = -1 => w = x
    <3>. HIDE DEF x
    <3>. QED BY <1>1, <1>2, <2>1, WrapIdentity
  <2>. HIDE DEF e, w, x
  <2>. QED BY <1>1, <1>2, <1>4, <1>5, <2>1, <2>2
<1>. HIDE DEF e, w
<1>. QED BY <1>2, <1>4, <1>5, <1>6, <1>7, <1>8, <1>9, <1>10, <1>11

-----------------------------------------------------------------------------
(* A tick comes after the last one, except Go's first, which may be early.  *)
InTime(now) == now >= last \/ (writer = "go" /\ ticks = 0 /\ now = -1)

(* A tick of the C++ writer keeps its credit exact: nothing is dropped.     *)
LEMMA CppTickStep ==
  ASSUME PaceInv, writer = "cpp", NEW now \in Int, now >= last, Tick(now)
  PROVE  PaceInv'
<1>. DEFINE x   == rate * (now - last)
            sum == credit + x
            R   == RecordBytes * Second
<1>. USE PacingAssumption
<1>1. PaceTypeOK /\ rate \in Nat /\ rate > 0 /\ R \in Nat /\ R > 0
  BY SMT DEF PaceInv, PaceTypeOK
<1>2. x \in Int /\ x >= 0 /\ rate * now = rate * last + x /\ rate * last \in Int
  <2>1. now - last \in Int /\ now - last >= 0
    BY <1>1 DEF PaceTypeOK
  <2>2. x >= 0
    BY <1>1, <2>1, SMT
  <2>. QED BY <1>1, <2>1, <2>2 DEF PaceTypeOK
<1>3. sum \in Int /\ sum >= 0 /\ rate * last = generated * RecordBytes * Second + credit
  <2>. HIDE DEF x
  <2>. QED BY <1>1, <1>2 DEF PaceInv, PaceTypeOK, CppExact
<1>4. generated' = generated + Paid(sum) /\ credit' = Leftover(sum)
  BY DEF Tick, Earned
<1>5. Price = R
  BY DEF Price
<1>6. /\ Paid(sum) \in Nat /\ Leftover(sum) \in Int
      /\ sum = Paid(sum) * R + Leftover(sum)
      /\ Leftover(sum) < R /\ Leftover(sum) >= 0
  <2>. HIDE DEF sum, R
  <2>. QED BY <1>3, <1>5, PaidFacts
<1>7. generated' * RecordBytes * Second = generated * RecordBytes * Second + Paid(sum) * R
  <2>. HIDE DEF sum
  <2>. QED BY <1>1, <1>4, <1>6 DEF PaceTypeOK
<1>8. PaceTypeOK'
  <2>1. stalls' \in Nat /\ ticks' \in Nat
    BY <1>1, <1>2 DEF PaceTypeOK, Tick
  <2>2. last' = now /\ writer' = writer /\ rate' = rate
    BY DEF Tick
  <2>. HIDE DEF sum, R
  <2>. QED BY <1>1, <1>4, <1>6, <2>1, <2>2 DEF PaceTypeOK
<1>9. CppExact'
  <2>1. last' = now /\ rate' = rate
    BY DEF Tick
  <2>2. sum = credit + x
    OBVIOUS
  <2>3. generated * RecordBytes * Second \in Int /\ Paid(sum) * R \in Int
    <3>. HIDE DEF sum, R
    <3>. QED BY <1>1, <1>6 DEF PaceTypeOK
  <2>4. credit \in Int
    BY <1>1 DEF PaceTypeOK
  <2>5. credit' < RecordBytes * Second
    BY <1>4, <1>6
  <2>. HIDE DEF sum, R, x
  <2>. QED BY <1>2, <1>3, <1>4, <1>6, <1>7, <2>1, <2>2, <2>3, <2>4, <2>5 DEF CppExact
<1>. QED
  BY <1>8, <1>9 DEF PaceInv, GoFresh, GoDebt, GoLost, GoAhead, Tick

(* A tick of the Go writer keeps the bounds on what it loses, owes and has  *)
(* generated, in time, stalled or early.                                    *)
LEMMA GoTickStep ==
  ASSUME PaceInv, writer = "go", NEW now \in Int, InTime(now), Tick(now)
  PROVE  PaceInv'
<1>. DEFINE el  == now - last
            x   == rate * el
            e   == Earned(el)
            sum == credit + e
            c   == Wrap(sum)
<1>. USE PacingAssumption
<1>1. /\ PaceTypeOK /\ rate \in Nat /\ rate > 0 /\ el \in Int
      /\ MaxInt \in Nat /\ Second \in Nat /\ Second >= 2 /\ Second <= MaxInt
      /\ RecordBytes \in Nat /\ RecordBytes > 0 /\ credit \in Int /\ stalls \in Nat
      /\ generated \in Nat /\ ticks \in Nat
  BY DEF PaceInv, PaceTypeOK
<1>2. /\ x \in Int /\ e \in Int /\ 2 * e <= MaxInt
      /\ e * Second \in Int /\ e * Second >= -(MaxInt + 1)
      /\ 0 <= x /\ x <= MaxInt
           => 0 <= e /\ e * Second <= x /\ x < e * Second + Second
      /\ x > MaxInt => e * Second < x - Modulus + Second
      /\ el = -1 => /\ e <= 0 /\ -MaxInt <= e * Second /\ x <= e * Second
                    /\ e * Second < x + Second
  <2>. HIDE DEF el
  <2>. QED BY <1>1, GoEarned
<1>3. Modulus = 2 * MaxInt + 2
  BY DEF Modulus
<1>4. /\ writer' = writer /\ rate' = rate /\ last' = now
      /\ generated' = generated + Paid(c) /\ credit' = Leftover(c)
      /\ ticks' = ticks + 1
      /\ stalls' = stalls + (IF x > MaxInt THEN 1 ELSE 0)
  BY DEF Tick
<1>5. rate * now = rate * last + x /\ rate * last \in Int
  BY <1>1 DEF PaceTypeOK
<1>6. el >= 0 => x >= 0
  <2>. HIDE DEF el
  <2>. QED BY <1>1, SMT
<1>7. InTime(now) => el >= 0 \/ (el = -1 /\ ticks = 0 /\ last = 0 /\ credit = 0 /\ generated = 0)
  BY <1>1 DEF InTime, PaceInv, GoFresh, PaceTypeOK
<1>8. sum \in Int /\ sum <= MaxInt
  <2>1. credit < RecordBytes
    BY DEF PaceInv, GoDebt
  <2>. HIDE DEF e
  <2>. QED BY <1>1, <1>2, <2>1
<1>9. c \in Int
  <2>. HIDE DEF sum
  <2>. QED BY <1>8, WrapFacts
<1>10. /\ Price = RecordBytes
       /\ Paid(c) \in Nat /\ Leftover(c) \in Int
       /\ c = Paid(c) * RecordBytes + Leftover(c)
       /\ Leftover(c) < RecordBytes
       /\ c < RecordBytes => Paid(c) = 0 /\ Leftover(c) = c
       /\ c >= RecordBytes => Leftover(c) >= 0
       /\ c >= 0 => Leftover(c) >= 0
  <2>1. Price = RecordBytes
    BY DEF Price
  <2>. HIDE DEF c
  <2>. QED BY <1>9, <2>1, PaidFacts
<1>11. stalls' \in Nat /\ (stalls' < Second => stalls < Second)
  <2>. HIDE DEF x
  <2>. QED BY <1>1, <1>4
<1>12. PaceTypeOK'
  <2>1. generated' \in Nat /\ credit' \in Int /\ ticks' \in Nat
    <3>. HIDE DEF c
    <3>. QED BY <1>1, <1>4, <1>10
  <2>. QED BY <1>1, <1>4, <1>11, <2>1 DEF PaceTypeOK
(* The debt of the tick, and that it fits as long as stalls are few. *)
<1>13. ASSUME stalls' < Second
       PROVE  sum * Second >= -((MaxInt + 1) * stalls') - MaxInt
  <2>. DEFINE K == (MaxInt + 1) * stalls
  <2>1. sum * Second = credit * Second + e * Second /\ credit * Second \in Int /\ K \in Int
    <3>. HIDE DEF e
    <3>. QED BY <1>1, <1>2
  <2>2. credit * Second >= -K - MaxInt
    BY <1>11, <1>13 DEF PaceInv, GoDebt
  <2>3. CASE x > MaxInt
    <3>1. (MaxInt + 1) * stalls' = K + MaxInt + 1
      <4>1. stalls' = stalls + 1
        BY <1>4, <2>3
      <4>. QED BY <1>1, <4>1
    <3>. HIDE DEF K, e, x
    <3>. QED BY <1>1, <1>2, <2>1, <2>2, <3>1
  <2>4. CASE x <= MaxInt
    <3>1. (MaxInt + 1) * stalls' = K
      <4>1. stalls' = stalls
        <5>. HIDE DEF x
        <5>. QED BY <1>1, <1>2, <1>4, <2>4
      <4>. QED BY <4>1
    <3>2. CASE el >= 0
      <4>1. e * Second >= 0
        <5>. HIDE DEF e, x
        <5>. QED BY <1>1, <1>2, <1>6, <2>4, <3>2, SMT
      <4>. HIDE DEF K, e, x
      <4>. QED BY <1>1, <1>2, <2>1, <2>2, <3>1, <4>1
    <3>3. CASE el = -1 /\ credit = 0
      <4>1. credit * Second = 0 /\ K >= 0
        BY <1>1, <3>3
      <4>. HIDE DEF K, e, x
      <4>. QED BY <1>1, <1>2, <2>1, <3>1, <3>3, <4>1
    <3>. QED BY <1>7, <3>2, <3>3
  <2>. HIDE DEF x
  <2>. QED BY <1>1, <1>2, <2>3, <2>4
<1>14. ASSUME stalls' < Second
       PROVE  c = sum
  <2>1. (MaxInt + 1) * stalls' <= (MaxInt + 1) * (Second - 1)
    <3>1. stalls' <= Second - 1 /\ Second - 1 \in Int /\ stalls' \in Int /\ MaxInt + 1 \in Nat
      BY <1>1, <1>11, <1>14
    <3>. QED BY <3>1, TimesMonotone
  <2>2. sum * Second > -((MaxInt + 1) * Second) - 1
    <3>. HIDE DEF sum
    <3>1. (MaxInt + 1) * (Second - 1) = (MaxInt + 1) * Second - (MaxInt + 1)
      BY <1>1
    <3>2. (MaxInt + 1) * stalls' \in Int /\ (MaxInt + 1) * Second \in Int /\ sum * Second \in Int
      BY <1>1, <1>8, <1>11
    <3>. QED BY <1>1, <1>13, <1>14, <2>1, <3>1, <3>2
  <2>3. sum >= -(MaxInt + 1)
    <3>. HIDE DEF sum
    <3>1. ASSUME sum < -(MaxInt + 1) PROVE FALSE
      <4>1. (sum + MaxInt + 1) * Second <= -Second
        BY <1>1, <1>8, <3>1, SMT
      <4>2. (sum + MaxInt + 1) * Second = sum * Second + (MaxInt + 1) * Second
        BY <1>1, <1>8
      <4>3. (MaxInt + 1) * Second \in Int /\ sum * Second \in Int
        BY <1>1, <1>8
      <4>. QED BY <1>1, <2>2, <4>1, <4>2, <4>3
    <3>. QED BY <1>1, <1>8, <3>1
  <2>. HIDE DEF sum
  <2>. QED BY <1>1, <1>8, <2>3, WrapIdentity
<1>15. GoFresh'
  BY <1>1, <1>4 DEF GoFresh
<1>16. GoDebt'
  <2>1. credit' < RecordBytes
    <3>. HIDE DEF c
    <3>. QED BY <1>4, <1>10
  <2>2. ASSUME stalls' < Second
        PROVE  credit' * Second >= -((MaxInt + 1) * stalls') - MaxInt
    <3>1. CASE credit' >= 0
      <4>1. credit' * Second >= 0 /\ (MaxInt + 1) * stalls' >= 0
        <5>1. ASSUME NEW a \in Nat, NEW b \in Nat PROVE a * b >= 0
          OBVIOUS
        <5>2. credit' \in Nat
          BY <1>12, <3>1 DEF PaceTypeOK
        <5>3. credit' * Second >= 0
          BY ONLY <5>1, <5>2, <1>1
        <5>4. (MaxInt + 1) * stalls' >= 0
          <6>1. MaxInt + 1 \in Nat
            BY <1>1
          <6>. QED BY ONLY <5>1, <1>11, <6>1
        <5>. QED BY <5>3, <5>4
      <4>2. credit' * Second \in Int /\ (MaxInt + 1) * stalls' \in Int
        BY <1>1, <1>11, <1>12 DEF PaceTypeOK
      <4>. QED BY <1>1, <4>1, <4>2
    <3>2. CASE credit' < 0
      <4>1. credit' = c
        <5>. HIDE DEF c
        <5>. QED BY <1>1, <1>4, <1>9, <1>10, <3>2
      <4>. QED BY <1>13, <1>14, <2>2, <4>1
    <3>3. credit' >= 0 \/ credit' < 0
      BY <1>12 DEF PaceTypeOK
    <3>. QED BY ONLY <3>1, <3>2, <3>3
  <2>. QED BY <1>4, <2>1, <2>2 DEF GoDebt
(* What a tick earns and does not credit is lost. *)
<1>17. ASSUME stalls' < Second
       PROVE  Lost' = Lost + x - e * Second
  <2>1. c = Paid(c) * RecordBytes + Leftover(c) /\ c = credit + e
    BY <1>10, <1>14, <1>17
  <2>. DEFINE k == Paid(c)
  <2>2. generated' * RecordBytes + credit' = (generated * RecordBytes + credit) + e
    <3>1. k \in Nat /\ Leftover(c) \in Int /\ generated' = generated + k /\ credit' = Leftover(c)
      BY <1>4, <1>10
    <3>2. (generated + k) * RecordBytes = generated * RecordBytes + k * RecordBytes
      <4>. HIDE DEF k
      <4>. QED BY <1>1, <3>1
    <3>3. generated * RecordBytes \in Int /\ k * RecordBytes \in Int
      <4>. HIDE DEF k
      <4>. QED BY <1>1, <3>1
    <3>4. c = k * RecordBytes + Leftover(c)
      BY <2>1
    <3>. HIDE DEF k, c, e
    <3>. QED BY <1>1, <1>2, <2>1, <3>1, <3>2, <3>3, <3>4
  <2>. DEFINE g == generated * RecordBytes + credit
  <2>3. g \in Int
    BY <1>1
  <2>4. (g + e) * Second = g * Second + e * Second /\ g * Second \in Int
    <3>. HIDE DEF g, e
    <3>. QED BY <1>1, <1>2, <2>3
  <2>5. Lost' = rate * now - (g + e) * Second
    BY <1>4, <2>2 DEF Lost
  <2>6. Lost = rate * last - g * Second
    BY DEF Lost
  <2>. HIDE DEF g, e, x
  <2>. QED BY <1>2, <1>5, <2>4, <2>5, <2>6
<1>18. Lost \in Int
  <2>1. generated * RecordBytes + credit \in Int
    BY <1>1
  <2>2. (generated * RecordBytes + credit) * Second \in Int
    BY <1>1, <2>1
  <2>. QED BY <1>5, <2>2 DEF Lost
<1>19. ASSUME stalls' < Second
       PROVE  Lost' > -Second
  <2>1. Lost > -Second
    BY <1>11, <1>19 DEF PaceInv, GoLost
  <2>2. CASE x > MaxInt
    <3>. HIDE DEF x, e
    <3>. QED BY <1>1, <1>2, <1>3, <1>17, <1>18, <1>19, <2>1, <2>2
  <2>3. CASE x <= MaxInt /\ el >= 0
    <3>. HIDE DEF x, e
    <3>. QED BY <1>1, <1>2, <1>6, <1>17, <1>18, <1>19, <2>1, <2>3
  <2>4. CASE el = -1 /\ last = 0 /\ credit = 0 /\ generated = 0
    <3>1. Lost = 0
      BY <1>1, <2>4 DEF Lost
    <3>. HIDE DEF x, e
    <3>. QED BY <1>1, <1>2, <1>17, <1>19, <2>4, <3>1
  <2>. HIDE DEF x
  <2>. QED BY <1>1, <1>2, <1>7, <2>2, <2>3, <2>4
<1>20. ASSUME stalls' = 0
       PROVE  Lost' <= ticks' * (Second - 1)
  <2>1. stalls' < Second /\ stalls = 0 /\ x <= MaxInt
    <3>. HIDE DEF x
    <3>. QED BY <1>1, <1>2, <1>4, <1>20
  <2>2. Lost <= ticks * (Second - 1)
    BY <2>1 DEF PaceInv, GoLost
  <2>3. ticks' * (Second - 1) = ticks * (Second - 1) + Second - 1 /\ ticks * (Second - 1) \in Int
    BY <1>1, <1>4
  <2>4. x - e * Second <= Second - 1
    <3>. HIDE DEF x, e
    <3>. QED BY <1>1, <1>2, <1>6, <1>7, <2>1
  <2>. HIDE DEF x, e
  <2>. QED BY <1>1, <1>2, <1>17, <1>18, <2>1, <2>2, <2>3, <2>4
<1>21. GoLost'
  BY <1>4, <1>19, <1>20 DEF GoLost
<1>22. ASSUME stalls' < Second
       PROVE  Ahead' < Second \/ generated' = 0
  <2>. DEFINE G == generated * RecordBytes * Second
  <2>1. G \in Int /\ Ahead = G - rate * last
    BY <1>1 DEF Ahead
  <2>2. CASE c >= RecordBytes
    <3>1. Lost' = -Ahead' - credit' * Second /\ Ahead' \in Int
      <4>1. /\ generated' \in Int /\ credit' \in Int /\ rate' * last' \in Int
            /\ RecordBytes \in Int /\ Second \in Int
        BY <1>1, <1>12 DEF PaceTypeOK
      <4>2. ASSUME NEW a \in Int, NEW b \in Int, NEW d \in Int
            PROVE  (a * b + d) * Second = a * b * Second + d * Second /\ a * b * Second \in Int
        BY <1>1
      <4>3. (generated' * RecordBytes + credit') * Second
              = generated' * RecordBytes * Second + credit' * Second
            /\ generated' * RecordBytes * Second \in Int
        BY <4>1, <4>2
      <4>4. credit' * Second \in Int
        BY <4>1
      <4>. QED BY <4>1, <4>3, <4>4 DEF Lost, Ahead
    <3>2. credit' * Second >= 0 /\ credit' * Second \in Int
      <4>1. credit' \in Nat
        <5>. HIDE DEF c
        <5>. QED BY <1>4, <1>10, <2>2
      <4>2. ASSUME NEW a \in Nat PROVE a * Second >= 0 /\ a * Second \in Int
        BY <1>1
      <4>. QED BY <4>1, <4>2
    <3>. QED BY <1>1, <1>19, <1>22, <3>1, <3>2
  <2>3. CASE c < RecordBytes
    <3>1. generated' = generated
      <4>. HIDE DEF c
      <4>. QED BY <1>1, <1>4, <1>10, <2>3
    <3>2. Ahead' = Ahead - x
      <4>1. Ahead' = G - rate * now
        BY <1>4, <3>1 DEF Ahead
      <4>. HIDE DEF G, x
      <4>. QED BY <1>2, <1>5, <2>1, <4>1
    <3>3. Ahead < Second \/ generated = 0
      BY <1>11, <1>22 DEF PaceInv, GoAhead
    <3>4. generated = 0 \/ x >= 0
      BY <1>6, <1>7
    <3>. HIDE DEF x, G
    <3>. QED BY <1>1, <1>2, <1>5, <2>1, <3>1, <3>2, <3>3, <3>4
  <2>. HIDE DEF c
  <2>. QED BY <1>1, <1>9, <2>2, <2>3
<1>23. GoAhead'
  BY <1>4, <1>22 DEF GoAhead
<1>24. CppExact'
  BY <1>4 DEF CppExact
<1>. QED BY <1>12, <1>15, <1>16, <1>21, <1>23, <1>24 DEF PaceInv

-----------------------------------------------------------------------------
BaselineInv ==
  /\ max \in 1..MaxInt /\ rotations \in 1..MaxInt
  /\ baseline = "poll" => Target # -1
  /\ BaselineVolumeReached

Inv == PaceInv /\ BaselineInv

(* A step keeps both parts: only ticks touch the pace, and a tick never     *)
(* takes a record back.                                                     *)
THEOREM InvStep == Inv /\ [Next]_vars => Inv'
<1>. SUFFICES ASSUME Inv, [Next]_vars PROVE Inv'
  OBVIOUS
<1>. USE PacingAssumption
<1>1. PaceTypeOK /\ max \in 1..MaxInt /\ rotations \in 1..MaxInt
  BY DEF Inv, PaceInv, BaselineInv
<1>2. ASSUME NEW now \in Int, InTime(now), Tick(now) PROVE Inv'
  <2>1. PaceInv'
    <3>1. CASE writer = "go"
      BY <1>2, <3>1, GoTickStep DEF Inv
    <3>2. CASE writer = "cpp"
      BY <1>2, <3>2, CppTickStep DEF Inv, InTime
    <3>. QED BY <1>1, <3>1, <3>2 DEF PaceTypeOK
  <2>2. generated' * RecordBytes >= generated * RecordBytes
    <3>1. generated' >= generated /\ generated' \in Int
      <4>. DEFINE sum == credit + Earned(now - last)
                  c   == IF writer = "go" THEN Wrap(sum) ELSE sum
      <4>1. generated' = generated + Paid(c)
        BY <1>2 DEF Tick
      <4>2. sum \in Int
        <5>1. now - last \in Int /\ rate \in Int /\ rate * (now - last) \in Int
          BY <1>1, <1>2 DEF PaceTypeOK
        <5>2. Earned(now - last) \in Int
          <6>1. CASE writer = "go"
            BY <1>1, <5>1, <6>1, GoEarned
          <6>2. CASE writer = "cpp"
            BY <5>1, <6>2 DEF Earned
          <6>. QED BY <1>1, <6>1, <6>2 DEF PaceTypeOK
        <5>. QED BY <1>1, <5>2 DEF PaceTypeOK
      <4>3. Paid(c) \in Nat
        <5>1. c \in Int
          <6>. HIDE DEF sum
          <6>. QED BY <4>2, WrapFacts
        <5>. HIDE DEF c
        <5>. QED BY <5>1, PaidFacts
      <4>. HIDE DEF c
      <4>. QED BY <1>1, <4>1, <4>3 DEF PaceTypeOK
    <3>2. generated \in Int /\ RecordBytes \in Nat
      BY <1>1 DEF PaceTypeOK
    <3>3. RecordBytes * generated' >= RecordBytes * generated
      BY ONLY <3>1, <3>2, TimesMonotone
    <3>4. ASSUME NEW a \in Int PROVE RecordBytes * a = a * RecordBytes
      BY ONLY <3>2
    <3>5. /\ RecordBytes * generated' = generated' * RecordBytes
          /\ RecordBytes * generated = generated * RecordBytes
      BY ONLY <3>1, <3>2, <3>4
    <3>. QED BY ONLY <3>3, <3>5
  <2>3. /\ generated * RecordBytes \in Int /\ generated' * RecordBytes \in Int
        /\ max * rotations \in Int
    BY <1>1, <2>1 DEF PaceTypeOK, PaceInv
  <2>4. baseline' = baseline /\ max' = max /\ rotations' = rotations
    BY <1>2 DEF Tick, flags
  <2>5. BaselineVolumeReached'
    <3>1. BaselineVolumeReached
      BY DEF Inv, BaselineInv
    <3>. QED BY <2>2, <2>3, <2>4, <3>1 DEF BaselineVolumeReached
  <2>6. Target' = Target
    BY <2>4 DEF Target
  <2>. QED BY <2>1, <2>4, <2>5, <2>6 DEF Inv, BaselineInv
<1>3. ASSUME NEW gap \in Gaps, Tick(last + gap) PROVE Inv'
  <2>1. last + gap \in Int /\ InTime(last + gap)
    BY <1>1 DEF InTime, PaceTypeOK
  <2>. QED BY <1>2, <1>3, <2>1
<1>4. CASE EarlyTick
  BY <1>2, <1>4 DEF EarlyTick, InTime
<1>5. ASSUME UNCHANGED paceVars PROVE PaceInv'
  <2>1. PaceInv
    BY DEF Inv
  <2>. QED
    BY <1>5, <2>1
    DEF paceVars, PaceInv, PaceTypeOK, CppExact, GoFresh, GoDebt, GoLost, GoAhead, Lost, Ahead
<1>6. CASE CheckTarget
  <2>1. PaceInv'
    BY <1>5, <1>6 DEF CheckTarget
  <2>2. max' = max /\ rotations' = rotations /\ Target' = Target
    BY <1>6 DEF CheckTarget, flags, Target
  <2>3. Target = -1 => max * rotations > MaxInt
    <3>1. ASSUME max * rotations <= MaxInt PROVE Target # -1
      <4>1. Quotient(Wrap(max * rotations), rotations) = max
        BY <1>1, <3>1, TargetFacts
      <4>2. Target = max * rotations
        BY <1>1, <4>1, TargetFacts DEF Target
      <4>3. max * rotations >= 0
        BY <1>1, SMT
      <4>. QED BY <4>2, <4>3
    <3>2. max * rotations \in Int
      BY <1>1
    <3>. QED BY <3>1, <3>2
  <2>4. baseline' = IF Target = -1 THEN "refused" ELSE "poll"
    BY <1>6 DEF CheckTarget
  <2>. QED
    BY <1>1, <2>1, <2>2, <2>3, <2>4 DEF Inv, BaselineInv, BaselineVolumeReached
<1>7. CASE BaselineDone
  <2>1. PaceInv'
    BY <1>5, <1>7 DEF BaselineDone
  <2>2. /\ max' = max /\ rotations' = rotations /\ generated' = generated
        /\ baseline = "poll" /\ baseline' = "done"
        /\ generated * RecordBytes >= Target
    BY <1>7 DEF BaselineDone, flags, paceVars
  <2>3. Target = max * rotations
    <3>1. Target # -1
      BY <2>2 DEF Inv, BaselineInv
    <3>2. Quotient(Wrap(max * rotations), rotations) = max
      BY <3>1 DEF Target
    <3>. QED BY <1>1, <3>2, TargetFacts DEF Target
  <2>. QED
    BY <1>1, <2>1, <2>2, <2>3 DEF Inv, BaselineInv, BaselineVolumeReached
<1>8. CASE UNCHANGED vars
  <2>1. PaceInv'
    BY <1>5, <1>8 DEF vars
  <2>. QED
    BY <1>8, <2>1 DEF vars, paceVars, flags, Inv, BaselineInv, BaselineVolumeReached, Target
<1>. QED BY <1>3, <1>4, <1>6, <1>7, <1>8 DEF Next, Stopped

(* The invariant holds when writer and rotator start.                       *)
THEOREM InitInv == Init => Inv
<1>. SUFFICES ASSUME Init PROVE Inv
  OBVIOUS
<1>1. PaceInv
  BY PaceInit
<1>. QED BY <1>1, PacingAssumption DEF Init, Inv, BaselineInv, BaselineVolumeReached

(* The invariant of the writers' credit and the baseline's target.          *)
THEOREM Invariance == Spec => []Inv
  BY InitInv, InvStep, PTL DEF Spec

-----------------------------------------------------------------------------
(* The writers never run a byte ahead of their rate (writer.go's byteCredit *)
(* and its C++ twin), whatever overflows, short of Second stalls.           *)
THEOREM WritersNeverAhead == Spec => []NeverAhead
<1>1. Inv => NeverAhead
  <2>. SUFFICES ASSUME Inv, stalls < Second
                PROVE  generated * RecordBytes * Second < rate * last + Second \/ generated = 0
    BY DEF NeverAhead
  <2>1. PaceTypeOK
    BY DEF Inv, PaceInv
  <2>2. rate * last \in Int /\ generated * RecordBytes * Second \in Int /\ Second \in Int /\ Second > 0
    BY <2>1, PacingAssumption DEF PaceTypeOK
  <2>3. CASE writer = "go"
    <3>1. Ahead < Second \/ generated = 0
      BY <2>3 DEF Inv, PaceInv, GoAhead
    <3>. QED BY <2>2, <3>1 DEF Ahead
  <2>4. CASE writer = "cpp"
    <3>1. rate * last = generated * RecordBytes * Second + credit /\ 0 <= credit
      BY <2>4 DEF Inv, PaceInv, CppExact
    <3>. QED BY <2>1, <2>2, <3>1 DEF PaceTypeOK
  <2>. QED BY <2>1, <2>3, <2>4 DEF PaceTypeOK
<1>. QED BY <1>1, Invariance, PTL

(* Nor do they fall behind it by more than the record they save for and,    *)
(* in Go, the fraction of a byte that each tick drops.                      *)
THEOREM WritersKeepUp == Spec => []KeepsUp
<1>1. Inv => KeepsUp
  <2>. SUFFICES ASSUME Inv, writer = "cpp" \/ stalls = 0
                PROVE  rate * last - generated * RecordBytes * Second
                         < (RecordBytes + IF writer = "go" THEN ticks ELSE 0) * Second
    BY DEF KeepsUp
  <2>1. PaceTypeOK
    BY DEF Inv, PaceInv
  <2>2. rate * last \in Int /\ generated * RecordBytes * Second \in Int
    BY <2>1, PacingAssumption DEF PaceTypeOK
  <2>3. CASE writer = "go"
    <3>1. Lost <= ticks * (Second - 1) /\ credit <= RecordBytes - 1
      BY <2>1, <2>3, PacingAssumption DEF Inv, PaceInv, GoLost, GoDebt, PaceTypeOK
    <3>2. (generated * RecordBytes + credit) * Second
            = generated * RecordBytes * Second + credit * Second
      BY <2>1, PacingAssumption DEF PaceTypeOK
    <3>3. credit * Second <= (RecordBytes - 1) * Second
      <4>1. Second * credit <= Second * (RecordBytes - 1)
        BY <2>1, <3>1, TimesMonotone, PacingAssumption DEF PaceTypeOK
      <4>. QED BY <2>1, <4>1, PacingAssumption DEF PaceTypeOK
    <3>4. /\ (RecordBytes - 1) * Second = RecordBytes * Second - Second
          /\ ticks * (Second - 1) = ticks * Second - ticks
          /\ (RecordBytes + ticks) * Second = RecordBytes * Second + ticks * Second
          /\ ticks * Second \in Int /\ RecordBytes * Second \in Int /\ credit * Second \in Int
          /\ Second > 0 /\ Second \in Int /\ ticks \in Nat
      BY <2>1, PacingAssumption DEF PaceTypeOK
    <3>5. Lost = rate * last - (generated * RecordBytes + credit) * Second
      BY DEF Lost
    <3>. QED BY <2>2, <2>3, <3>1, <3>2, <3>3, <3>4, <3>5
  <2>4. CASE writer = "cpp"
    <3>1. rate * last = generated * RecordBytes * Second + credit /\ credit < RecordBytes * Second
      BY <2>4 DEF Inv, PaceInv, CppExact
    <3>2. (RecordBytes + 0) * Second = RecordBytes * Second /\ RecordBytes * Second \in Int
      BY PacingAssumption
    <3>. QED BY <2>1, <2>2, <2>4, <3>1, <3>2 DEF PaceTypeOK
  <2>. QED BY <2>1, <2>3, <2>4 DEF PaceTypeOK
<1>. QED BY <1>1, Invariance, PTL

(* A baseline run ends only with its whole volume, and rotator.Run refuses  *)
(* exactly the volumes that are no integers.                                *)
THEOREM BaselineTargetExact == Spec => []BaselineVolumeReached
<1>1. Inv => BaselineVolumeReached
  BY DEF Inv, BaselineInv
<1>. QED BY <1>1, Invariance, PTL
=============================================================================
