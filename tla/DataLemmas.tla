----------------------------- MODULE DataLemmas -----------------------------
(***************************************************************************)
(* What the proofs about the log's contents and about the samples need to  *)
(* know of the data operators: induction over a set of numbers, least and  *)
(* greatest elements, sequences of units joined one after another.         *)
(***************************************************************************)
EXTENDS SequencesExt, SequenceTheorems, FiniteSetTheorems, FunctionTheorems, TLAPS

-----------------------------------------------------------------------------
(* A nonempty set of natural numbers has a least element.                  *)
LEMMA LeastNatural ==
  ASSUME NEW T \in SUBSET Nat, T # {}
  PROVE  \E x \in T : \A y \in T : x <= y
<1>1. PICK x \in T : \A y \in T : ~ (<<y, x>> \in OpToRel(<, Nat))
  BY NatLessThanWellFounded, WFMin
<1>2. ASSUME NEW y \in T PROVE x <= y
  <2>1. ~(y < x)
    BY <1>1 DEF OpToRel
  <2> QED
    BY <2>1
<1> QED
  BY <1>2

(* A nonempty set of natural numbers with a bound has a greatest element.  *)
LEMMA GreatestNatural ==
  ASSUME NEW T \in SUBSET Nat, T # {}, NEW b \in Nat, \A y \in T : y <= b
  PROVE  \E x \in T : \A y \in T : x >= y
<1> DEFINE D == {b - y : y \in T}
<1>1. D \in SUBSET Nat /\ D # {}
  <2>1. \A y \in T : b - y \in Nat
    OBVIOUS
  <2> QED
    BY <2>1, Zenon
<1>2. PICK d \in D : \A e \in D : d <= e
  BY <1>1, LeastNatural
<1>3. PICK x \in T : d = b - x
  BY <1>2
<1>4. ASSUME NEW y \in T PROVE x >= y
  <2>1. b - y \in D
    OBVIOUS
  <2>2. b - x <= b - y
    BY <1>2, <1>3, <2>1
  <2> QED
    BY <1>3, <2>2
<1> QED
  BY <1>3, <1>4

(* Induction: a set that holds 0 and with every number the next holds all. *)
LEMMA SetInduction ==
  ASSUME NEW T, 0 \in T, \A n \in Nat : n \in T => n + 1 \in T
  PROVE  Nat \subseteq T
<1> SUFFICES ASSUME Nat \ T # {} PROVE FALSE
  OBVIOUS
<1>1. PICK x \in Nat \ T : \A y \in Nat \ T : x <= y
  BY LeastNatural
<1>2. x - 1 \in Nat /\ x = (x - 1) + 1 /\ ~(x <= x - 1)
  BY <1>1
<1> QED
  BY <1>1, <1>2

(* Induction up to a bound.                                                *)
LEMMA BoundedInduction ==
  ASSUME NEW N \in Nat, NEW T, 0 \in T, \A n \in 0..N - 1 : n \in T => n + 1 \in T
  PROVE  0..N \subseteq T
<1> DEFINE U == T \cup {n \in Nat : n > N}
<1>1. 0 \in U
  OBVIOUS
<1>2. ASSUME NEW n \in Nat, n \in U PROVE n + 1 \in U
  BY <1>2
<1> HIDE DEF U
<1>3. Nat \subseteq U
  BY <1>1, <1>2, SetInduction
<1> QED
  BY <1>3 DEF U

-----------------------------------------------------------------------------
(* Division with remainder.                                                *)
LEMMA Euclid ==
  ASSUME NEW u \in Int, NEW d \in Int, d > 0
  PROVE  /\ u \div d \in Int /\ u % d \in 0..d - 1
         /\ u = d * (u \div d) + (u % d)
OBVIOUS

LEMMA Division ==
  ASSUME NEW d \in Nat \ {0}, NEW u \in Nat
  PROVE  \E q \in Nat, r \in 0..d - 1 : q = u \div d /\ r = u % d /\ u = d * q + r
<1>1. d \in Int /\ d > 0 /\ u \in Int
  OBVIOUS
<1>2. PICK q \in Int, r \in 0..d - 1 : q = u \div d /\ r = u % d /\ u = d * q + r
  BY <1>1, Euclid
<1>3. ~(q <= -1)
  <2>1. q <= -1 => d * q <= d * (-1)
    OBVIOUS
  <2> QED
    BY <1>2, <2>1
<1>4. q \in Nat
  BY <1>3
<1> QED
  BY <1>2, <1>4, Zenon

LEMMA Quotient ==
  ASSUME NEW d \in Nat \ {0}, NEW q \in Nat, NEW r \in 0..d - 1
  PROVE  (d * q + r) % d = r /\ (d * q + r) \div d = q
OBVIOUS

LEMMA NextResidue ==
  ASSUME NEW d \in Nat \ {0}, NEW u \in Nat
  PROVE  u % d \in 0..d - 1 /\ (u + 1) % d = IF u % d = d - 1 THEN 0 ELSE (u % d) + 1
<1>1. PICK q \in Nat, r \in 0..d - 1 : q = u \div d /\ r = u % d /\ u = d * q + r
  BY Division
<1>2. CASE r = d - 1
  <2>1. u + 1 = d * (q + 1) + 0
    BY <1>1, <1>2
  <2>2. q + 1 \in Nat /\ 0 \in 0..d - 1
    OBVIOUS
  <2>3. (d * (q + 1) + 0) % d = 0
    BY <2>2, Quotient
  <2> QED
    BY <1>1, <1>2, <2>1, <2>3
<1>3. CASE r # d - 1
  <2>1. u + 1 = d * q + (r + 1) /\ r + 1 \in 0..d - 1
    BY <1>1, <1>3
  <2>2. (d * q + (r + 1)) % d = r + 1
    BY <2>1, Quotient
  <2> QED
    BY <1>1, <1>3, <2>1, <2>2
<1> QED
  BY <1>2, <1>3

-----------------------------------------------------------------------------
(* Sequences joined one after another.                                     *)

(* Joining is associative.                                                 *)
Associative(S) == \A a, b, c \in Seq(S) : (a \o b) \o c = a \o (b \o c)

LEMMA Associates ==
  ASSUME NEW S
  PROVE  Associative(S)
BY ConcatAssociative DEF Associative

(* P[k] joins the first k of N sequences.                                  *)
Joins(P, seqs, N, S) ==
  /\ P \in [0..N -> Seq(S)]
  /\ P[0] = <<>>
  /\ \A k \in 1..N : P[k] = P[k - 1] \o seqs[k]

(* The sequences after a, up to b, are empty; two families agree there.    *)
Blank(s, a, b)   == \A j \in a + 1..b : s[j] = <<>>
Same(s, t, a, b) == \A j \in a + 1..b : s[j] = t[j]

(* Joining them step by step is possible.                                  *)
LEMMA JoinsExist ==
  ASSUME NEW S, NEW N \in Nat, NEW seqs \in [1..N -> Seq(S)]
  PROVE  \E P : Joins(P, seqs, N, S)
<1> DEFINE T == {n \in 0..N : \E P : Joins(P, seqs, n, S)}
<1>1. 0 \in T
  <2> DEFINE P == [k \in 0..0 |-> <<>>]
  <2>1. P \in [0..0 -> Seq(S)] /\ P[0] = <<>>
    OBVIOUS
  <2> HIDE DEF P
  <2>2. Joins(P, seqs, 0, S)
    BY <2>1 DEF Joins
  <2> QED
    BY <2>2
<1>2. ASSUME NEW n \in 0..N - 1, n \in T PROVE n + 1 \in T
  <2>1. PICK P : Joins(P, seqs, n, S)
    BY <1>2
  <2> DEFINE Q == [k \in 0..n + 1 |-> IF k = n + 1 THEN P[n] \o seqs[n + 1] ELSE P[k]]
  <2>2. /\ P \in [0..n -> Seq(S)] /\ P[0] = <<>>
        /\ \A k \in 1..n : P[k] = P[k - 1] \o seqs[k]
    BY <2>1 DEF Joins
  <2>3. n + 1 \in 1..N /\ seqs[n + 1] \in Seq(S) /\ P[n] \in Seq(S)
    BY <2>2
  <2>4. P[n] \o seqs[n + 1] \in Seq(S)
    BY <2>3
  <2>5. Q \in [0..n + 1 -> Seq(S)]
    BY <2>2, <2>4
  <2>6. Q[0] = <<>>
    BY <2>2
  <2>7. ASSUME NEW k \in 1..n + 1 PROVE Q[k] = Q[k - 1] \o seqs[k]
    <3>1. k - 1 \in 0..n /\ k \in 0..n + 1 /\ (k = n + 1 => k - 1 = n)
      OBVIOUS
    <3>2. Q[k - 1] = P[k - 1]
      BY <3>1
    <3>3. CASE k = n + 1
      BY <3>1, <3>2, <3>3
    <3>4. CASE k # n + 1
      <4>1. k \in 1..n /\ Q[k] = P[k]
        BY <3>1, <3>4
      <4> QED
        BY <2>2, <3>2, <4>1
    <3> QED
      BY <3>3, <3>4
  <2> HIDE DEF Q
  <2>8. Joins(Q, seqs, n + 1, S)
    BY <2>5, <2>6, <2>7 DEF Joins
  <2> QED
    BY <2>3, <2>8
<1> HIDE DEF T
<1>3. 0..N \subseteq T
  BY <1>1, <1>2, BoundedInduction
<1> QED
  BY <1>3 DEF T

(* Two ways of joining agree as far as their sequences do.                 *)
LEMMA JoinsAgree ==
  ASSUME NEW S, NEW N \in Nat, NEW s, NEW t, NEW P, NEW Q,
         Joins(P, s, N, S), Joins(Q, t, N, S),
         NEW k \in 0..N, Same(s, t, 0, k)
  PROVE  P[k] = Q[k]
<1> DEFINE T == {n \in 0..k : P[n] = Q[n]}
<1>1. 0 \in T
  BY DEF Joins
<1>2. ASSUME NEW n \in 0..k - 1, n \in T PROVE n + 1 \in T
  <2>1. n + 1 \in 1..N /\ n + 1 \in 1..k /\ (n + 1) - 1 = n
    OBVIOUS
  <2>2. P[n + 1] = P[n] \o s[n + 1] /\ Q[n + 1] = Q[n] \o t[n + 1]
    BY <2>1 DEF Joins
  <2>3. P[n] = Q[n] /\ s[n + 1] = t[n + 1]
    BY <1>2, <2>1 DEF Same
  <2>4. P[n + 1] = Q[n + 1]
    BY <2>2, <2>3
  <2> QED
    BY <2>1, <2>4
<1> HIDE DEF T
<1>3. 0..k \subseteq T
  BY <1>1, <1>2, BoundedInduction
<1> QED
  BY <1>3 DEF T

(* FlattenSeq joins all of them.                                           *)
LEMMA FlattenJoins ==
  ASSUME NEW S, NEW N \in Nat \ {0}, NEW seqs \in [1..N -> Seq(S)],
         NEW P, Joins(P, seqs, N, S)
  PROVE  FlattenSeq(seqs) = P[N]
<1>1. Len(seqs) = N /\ N # 0
  OBVIOUS
<1> DEFINE h == CHOOSE g : g = [i \in 1..N |-> IF i = 1 THEN seqs[i] ELSE g[i - 1] \o seqs[i]]
           f == [i \in 1..N |-> P[i]]
<1>2. f = [i \in 1..N |-> IF i = 1 THEN seqs[i] ELSE f[i - 1] \o seqs[i]]
  <2>1. ASSUME NEW i \in 1..N
        PROVE  f[i] = IF i = 1 THEN seqs[i] ELSE f[i - 1] \o seqs[i]
    <3>1. P[i] = P[i - 1] \o seqs[i] /\ seqs[i] \in Seq(S)
      BY DEF Joins
    <3>2. CASE i = 1
      <4>1. P[i - 1] = <<>>
        BY <3>2 DEF Joins
      <4>2. P[i] = seqs[i]
        BY <3>1, <4>1, ConcatEmptySeq
      <4> QED
        BY <3>2, <4>2
    <3>3. CASE i # 1
      <4>1. i - 1 \in 1..N
        BY <3>3
      <4> QED
        BY <3>1, <3>3, <4>1
    <3> QED
      BY <3>2, <3>3
  <2> QED
    BY <2>1
<1> HIDE DEF f
<1>3. h = [i \in 1..N |-> IF i = 1 THEN seqs[i] ELSE h[i - 1] \o seqs[i]]
  BY <1>2
<1>4. FlattenSeq(seqs) = h[N]
  BY <1>1 DEF FlattenSeq
<1> HIDE DEF h
<1> DEFINE T == {n \in 0..N : n = 0 \/ h[n] = P[n]}
<1>5. ASSUME NEW n \in 0..N - 1, n \in T PROVE n + 1 \in T
  <2>1. n + 1 \in 1..N /\ (n + 1) - 1 = n
    OBVIOUS
  <2>2. P[n + 1] = P[n] \o seqs[n + 1] /\ seqs[n + 1] \in Seq(S)
    BY <2>1 DEF Joins
  <2>3. h[n + 1] = IF n + 1 = 1 THEN seqs[n + 1] ELSE h[n] \o seqs[n + 1]
    BY <1>3, <2>1
  <2>4. CASE n = 0
    <3>1. P[n] = <<>>
      BY <2>4 DEF Joins
    <3>2. P[n + 1] = seqs[n + 1]
      BY <2>2, <3>1, ConcatEmptySeq
    <3>3. h[n + 1] = seqs[n + 1]
      BY <2>3, <2>4
    <3> QED
      BY <2>1, <3>2, <3>3
  <2>5. CASE n # 0
    <3>1. h[n] = P[n]
      BY <1>5, <2>5
    <3>2. h[n + 1] = h[n] \o seqs[n + 1]
      <4>1. n + 1 # 1
        BY <2>5
      <4> QED
        BY <2>3, <4>1, Zenon
    <3>3. h[n + 1] = P[n + 1]
      BY <2>2, <3>1, <3>2
    <3> QED
      BY <2>1, <3>3
  <2> QED
    BY <2>4, <2>5
<1>6. 0 \in T
  OBVIOUS
<1> HIDE DEF T
<1>7. 0..N \subseteq T
  BY <1>5, <1>6, BoundedInduction
<1>8. h[N] = P[N]
  BY <1>7 DEF T
<1> QED
  BY <1>4, <1>8

(* Empty sequences add nothing.                                            *)
LEMMA JoinsEmpty ==
  ASSUME NEW S, NEW N \in Nat, NEW s, NEW P, Joins(P, s, N, S),
         NEW k \in 0..N, NEW m \in k..N, Blank(s, k, m)
  PROVE  P[m] = P[k]
<1> DEFINE T == {n \in 0..N : k <= n /\ n <= m => P[n] = P[k]}
<1>1. 0 \in T
  OBVIOUS
<1>2. ASSUME NEW n \in 0..N - 1, n \in T PROVE n + 1 \in T
  <2>1. n + 1 \in 1..N /\ n \in 0..N /\ (n + 1) - 1 = n
    OBVIOUS
  <2>2. CASE k <= n /\ n + 1 <= m
    <3>1. P[n + 1] = P[n] \o s[n + 1] /\ P[n] \in Seq(S)
      BY <2>1 DEF Joins
    <3>2. s[n + 1] = <<>> /\ P[n] = P[k]
      BY <1>2, <2>2 DEF Blank
    <3>3. P[n + 1] = P[k]
      BY <3>1, <3>2, ConcatEmptySeq
    <3> QED
      BY <2>1, <3>3
  <2>3. CASE ~(k <= n /\ n + 1 <= m)
    BY <2>1, <2>3
  <2> QED
    BY <2>2, <2>3
<1> HIDE DEF T
<1>3. 0..N \subseteq T
  BY <1>1, <1>2, BoundedInduction
<1>4. m \in T /\ k <= m
  BY <1>3
<1> QED
  BY <1>4 DEF T

(* Without the first k sequences the rest is joined all the same.          *)
Rests(s, t, N, k, S) ==
  /\ Blank(t, 0, k) /\ Same(s, t, k, N)
  /\ \A j \in 1..N : t[j] \in Seq(S)

Splits(P, Q, N, k) == P[N] = P[k] \o Q[N]

LEMMA JoinsRest ==
  ASSUME NEW S, NEW N \in Nat, NEW s, NEW t, NEW P, NEW Q,
         Joins(P, s, N, S), Joins(Q, t, N, S), NEW k \in 0..N,
         Rests(s, t, N, k, S)
  PROVE  Splits(P, Q, N, k)
<1> USE DEF Rests
<1> DEFINE R(n) == P[n] = P[k] \o Q[n]
           T == {n \in 0..N : k <= n => R(n)}
<1>0. /\ P \in [0..N -> Seq(S)] /\ Q \in [0..N -> Seq(S)] /\ Q[0] = <<>>
      /\ \A j \in 1..N : P[j] = P[j - 1] \o s[j]
      /\ \A j \in 1..N : Q[j] = Q[j - 1] \o t[j]
  BY DEF Joins
<1>1. R(k)
  <2>1. 0 \in 0..N /\ k \in 0..N /\ Blank(t, 0, k)
    OBVIOUS
  <2>2. Q[k] = Q[0]
    BY <2>1, JoinsEmpty
  <2>3. P[k] \in Seq(S) /\ Q[k] = <<>>
    BY <1>0, <2>2
  <2> QED
    BY <2>3, ConcatEmptySeq
<1>2. ASSUME NEW n \in 0..N - 1, k <= n, R(n) PROVE R(n + 1)
  <2>1. n + 1 \in 1..N /\ n + 1 \in k + 1..N /\ n \in 0..N /\ (n + 1) - 1 = n
    BY <1>2
  <2>2. t[n + 1] = s[n + 1] /\ t[n + 1] \in Seq(S)
    BY <2>1 DEF Same
  <2>3. P[n + 1] = P[n] \o t[n + 1] /\ Q[n + 1] = Q[n] \o t[n + 1]
    BY <1>0, <2>1, <2>2
  <2>4. P[k] \in Seq(S) /\ Q[n] \in Seq(S)
    BY <1>0, <2>1
  <2>5. (P[k] \o Q[n]) \o t[n + 1] = P[k] \o (Q[n] \o t[n + 1])
    <3>1. Associative(S)
      BY Associates
    <3> QED
      BY <2>2, <2>4, <3>1, Zenon DEF Associative
  <2>6. P[n] = P[k] \o Q[n]
    BY <1>2
  <2> QED
    BY <2>3, <2>5, <2>6, Zenon
<1> HIDE DEF R
<1>3. 0 \in T
  <2>1. k <= 0 => k = 0
    OBVIOUS
  <2> QED
    BY <1>1, <2>1
<1>4. ASSUME NEW n \in 0..N - 1, n \in T PROVE n + 1 \in T
  <2>1. n + 1 \in 0..N /\ (k <= n + 1 => k <= n \/ k = n + 1)
    OBVIOUS
  <2> QED
    BY <1>1, <1>2, <1>4, <2>1
<1> HIDE DEF T
<1>5. 0..N \subseteq T
  BY <1>3, <1>4, BoundedInduction
<1>6. N \in T /\ k <= N
  BY <1>5
<1>7. R(N)
  BY <1>6 DEF T
<1> QED
  BY <1>7 DEF R, Splits

(* Two families of as many sequences.                                      *)
Families(s, t, N, S) == s \in [1..N -> Seq(S)] /\ t \in [1..N -> Seq(S)]

(* A sequence in two parts, and one that ends with another.                *)
Parts(s, a, b)    == s = a \o b
EndsWith(s, b, S) == \E a \in Seq(S) : Parts(s, a, b)

(* Flattening gives a sequence.                                            *)
LEMMA FlattenType ==
  ASSUME NEW S, NEW N \in Nat \ {0}, NEW s \in [1..N -> Seq(S)]
  PROVE  FlattenSeq(s) \in Seq(S)
<1>1. PICK P : Joins(P, s, N, S)
  BY JoinsExist
<1>2. FlattenSeq(s) = P[N]
  BY <1>1, FlattenJoins
<1>3. P[N] \in Seq(S)
  BY <1>1 DEF Joins
<1> QED
  BY <1>2, <1>3

(* What is appended to the last sequence that is not empty is appended to  *)
(* the whole.                                                              *)
Grows(s, t, N, k, w) ==
  t[k] = s[k] \o w /\ Same(s, t, 0, k - 1) /\ Blank(s, k, N) /\ Blank(t, k, N)

LEMMA JoinsAppend ==
  ASSUME NEW S, NEW N \in Nat, NEW s, NEW t, NEW P, NEW Q,
         Joins(P, s, N, S), Joins(Q, t, N, S), NEW k \in 1..N, NEW w \in Seq(S),
         s[k] \in Seq(S), Grows(s, t, N, k, w)
  PROVE  Q[N] = P[N] \o w
<1>0. t[k] = s[k] \o w /\ Same(s, t, 0, k - 1) /\ Blank(s, k, N) /\ Blank(t, k, N)
  BY DEF Grows
<1>1. k \in 0..N /\ k - 1 \in 0..N /\ N \in k..N
  OBVIOUS
<1>2. P[N] = P[k]
  BY <1>0, <1>1, JoinsEmpty
<1>3. Q[N] = Q[k]
  BY <1>0, <1>1, JoinsEmpty
<1>4. P[k - 1] = Q[k - 1]
  BY <1>0, <1>1, JoinsAgree
<1>5. P[k] = P[k - 1] \o s[k] /\ Q[k] = Q[k - 1] \o t[k] /\ P[k - 1] \in Seq(S)
  BY <1>1 DEF Joins
<1>6. (P[k - 1] \o s[k]) \o w = P[k - 1] \o (s[k] \o w)
  <2>1. Associative(S)
    BY Associates
  <2> QED
    BY <1>5, <2>1, Zenon DEF Associative
<1> QED
  BY <1>0, <1>2, <1>3, <1>4, <1>5, <1>6, Zenon

Appended(s, t, N, k, w) ==
  /\ t[k] = s[k] \o w
  /\ \A j \in 1..N : j # k => t[j] = s[j]
  /\ \A j \in k + 1..N : s[j] = <<>>

LEMMA FlattenAppend ==
  ASSUME NEW S, NEW N \in Nat \ {0}, NEW s, NEW t, Families(s, t, N, S),
         NEW k \in 1..N, NEW w \in Seq(S), Appended(s, t, N, k, w)
  PROVE  Parts(FlattenSeq(t), FlattenSeq(s), w)
<1>0. /\ s \in [1..N -> Seq(S)] /\ t \in [1..N -> Seq(S)]
      /\ t[k] = s[k] \o w /\ \A j \in 1..N : j # k => t[j] = s[j]
      /\ \A j \in k + 1..N : s[j] = <<>>
  BY DEF Families, Appended
<1>1. PICK P : Joins(P, s, N, S)
  BY <1>0, JoinsExist
<1>2. PICK Q : Joins(Q, t, N, S)
  BY <1>0, JoinsExist
<1>3. FlattenSeq(s) = P[N] /\ FlattenSeq(t) = Q[N]
  BY <1>0, <1>1, <1>2, FlattenJoins
<1>4. N \in Nat /\ s[k] \in Seq(S)
  BY <1>0
<1>5. Grows(s, t, N, k, w)
  <2>1. \A j \in 1..k - 1 : j \in 1..N /\ j # k
    OBVIOUS
  <2>2. \A j \in k + 1..N : j \in 1..N /\ j # k
    OBVIOUS
  <2>3. 0 + 1 = 1
    OBVIOUS
  <2> QED
    BY <1>0, <2>1, <2>2, <2>3, Zenon DEF Grows, Same, Blank
<1>6. Q[N] = P[N] \o w
  BY <1>1, <1>2, <1>4, <1>5, JoinsAppend
<1> QED
  BY <1>3, <1>6, Zenon DEF Parts, EndsWith

(* The last sequence may take the place of an empty one, when nothing is   *)
(* between the two.                                                        *)
Moves(s, t, N, k) ==
  Blank(s, k - 1, N - 1) /\ t[k] = s[N] /\ Same(s, t, 0, k - 1) /\ Blank(t, k, N)

LEMMA JoinsMove ==
  ASSUME NEW S, NEW N \in Nat, NEW s, NEW t, NEW P, NEW Q,
         Joins(P, s, N, S), Joins(Q, t, N, S), NEW k \in 1..N - 1,
         Moves(s, t, N, k)
  PROVE  Q[N] = P[N]
<1>0. Blank(s, k - 1, N - 1) /\ t[k] = s[N] /\ Same(s, t, 0, k - 1) /\ Blank(t, k, N)
  BY DEF Moves
<1>1. /\ k \in 0..N /\ k \in 1..N /\ k - 1 \in 0..N /\ N - 1 \in 0..N
      /\ N \in k..N /\ N - 1 \in k - 1..N /\ N \in 1..N
  OBVIOUS
<1>2. P[N - 1] = P[k - 1]
  BY <1>0, <1>1, JoinsEmpty
<1>3. Q[N] = Q[k]
  BY <1>0, <1>1, JoinsEmpty
<1>4. P[k - 1] = Q[k - 1]
  BY <1>0, <1>1, JoinsAgree
<1>5. P[N] = P[N - 1] \o s[N] /\ Q[k] = Q[k - 1] \o t[k]
  BY <1>1 DEF Joins
<1> QED
  BY <1>0, <1>2, <1>3, <1>4, <1>5, Zenon

Moved(s, t, N, k) ==
  /\ \A j \in k..N - 1 : s[j] = <<>>
  /\ t[k] = s[N]
  /\ \A j \in 1..k - 1 : s[j] = t[j]
  /\ \A j \in k + 1..N : t[j] = <<>>

LEMMA FlattenMove ==
  ASSUME NEW S, NEW N \in Nat \ {0}, NEW s, NEW t, Families(s, t, N, S),
         NEW k \in 1..N - 1, Moved(s, t, N, k)
  PROVE  FlattenSeq(t) = FlattenSeq(s)
<1>0. s \in [1..N -> Seq(S)] /\ t \in [1..N -> Seq(S)]
  BY DEF Families
<1>1. PICK P : Joins(P, s, N, S)
  BY <1>0, JoinsExist
<1>2. PICK Q : Joins(Q, t, N, S)
  BY <1>0, JoinsExist
<1>3. FlattenSeq(s) = P[N] /\ FlattenSeq(t) = Q[N]
  BY <1>0, <1>1, <1>2, FlattenJoins
<1>4. N \in Nat /\ Moves(s, t, N, k)
  BY DEF Moved, Moves, Blank, Same
<1>5. Q[N] = P[N]
  BY <1>1, <1>2, <1>4, JoinsMove
<1> QED
  BY <1>3, <1>5, Zenon

(* Emptying the first sequences takes a beginning off the whole.           *)
Emptied(s, t, N, k) ==
  (\A j \in 1..k : t[j] = <<>>) /\ \A j \in k + 1..N : s[j] = t[j]

LEMMA FlattenRest ==
  ASSUME NEW S, NEW N \in Nat \ {0}, NEW s, NEW t, Families(s, t, N, S),
         NEW k \in 0..N, Emptied(s, t, N, k)
  PROVE  EndsWith(FlattenSeq(s), FlattenSeq(t), S)
<1>0. s \in [1..N -> Seq(S)] /\ t \in [1..N -> Seq(S)]
  BY DEF Families
<1>1. PICK P : Joins(P, s, N, S)
  BY <1>0, JoinsExist
<1>2. PICK Q : Joins(Q, t, N, S)
  BY <1>0, JoinsExist
<1>3. FlattenSeq(s) = P[N] /\ FlattenSeq(t) = Q[N]
  BY <1>0, <1>1, <1>2, FlattenJoins
<1>4. N \in Nat /\ Rests(s, t, N, k, S)
  BY <1>0 DEF Emptied, Rests, Blank, Same
<1>5. P[N] = P[k] \o Q[N]
  <2>1. Splits(P, Q, N, k)
    BY <1>1, <1>2, <1>4, JoinsRest, Zenon
  <2> QED
    BY <2>1 DEF Splits
<1>6. P[k] \in Seq(S)
  BY <1>1 DEF Joins
<1> QED
  BY <1>3, <1>5, <1>6, Zenon DEF Parts, EndsWith

(* Empty sequences flatten to the empty one.                               *)
LEMMA FlattenEmpty ==
  ASSUME NEW N \in Nat \ {0}
  PROVE  FlattenSeq([k \in 1..N |-> <<>>]) = <<>>
<1> DEFINE s == [k \in 1..N |-> <<>>]
<1>1. s \in [1..N -> Seq({})] /\ \A k \in 1..N : s[k] = <<>>
  OBVIOUS
<1> HIDE DEF s
<1>2. PICK P : Joins(P, s, N, {})
  BY <1>1, JoinsExist
<1>3. FlattenSeq(s) = P[N]
  BY <1>1, <1>2, FlattenJoins
<1>4. N \in Nat /\ 0 \in 0..N /\ N \in 0..N /\ Blank(s, 0, N)
  BY <1>1 DEF Blank
<1>5. P[N] = P[0]
  BY <1>2, <1>4, JoinsEmpty
<1>6. P[0] = <<>>
  BY <1>2 DEF Joins
<1> QED
  BY <1>3, <1>5, <1>6 DEF s

-----------------------------------------------------------------------------
(* Increasing sequences of numbers.                                        *)
Increasing(s) == \A i, j \in DOMAIN s : i < j => s[i] < s[j]
Below(s, t)   == \A x \in Range(s), y \in Range(t) : x < y

(* One of them after another, all of them below it, make a third.          *)
LEMMA IncreasingConcat ==
  ASSUME NEW s \in Seq(Nat), NEW t \in Seq(Nat), Increasing(s), Increasing(t), Below(s, t)
  PROVE  Increasing(s \o t)
<1> DEFINE u == s \o t
           l == Len(s)
           m == Len(t)
<1>1. /\ l \in Nat /\ m \in Nat /\ DOMAIN s = 1..l /\ DOMAIN t = 1..m /\ DOMAIN u = 1..l + m
      /\ \A i \in 1..l + m : u[i] = IF i <= l THEN s[i] ELSE t[i - l]
  OBVIOUS
<1>2. /\ \A i \in 1..l : s[i] \in Range(s)
      /\ \A i \in 1..m : t[i] \in Range(t)
  BY <1>1 DEF Range
<1> HIDE DEF u, l, m
<1>3. ASSUME NEW i \in 1..l + m, NEW j \in 1..l + m, i < j PROVE u[i] < u[j]
  <2>1. CASE j <= l
    <3>1. i \in 1..l /\ j \in 1..l /\ i <= l
      BY <1>1, <1>3, <2>1
    <3> QED
      BY <1>1, <1>3, <2>1, <3>1 DEF Increasing
  <2>2. CASE i <= l /\ ~(j <= l)
    <3>1. i \in 1..l /\ j - l \in 1..m
      BY <1>1, <2>2
    <3>2. s[i] < t[j - l]
      BY <1>2, <3>1 DEF Below
    <3> QED
      BY <1>1, <2>2, <3>2
  <2>3. CASE ~(i <= l)
    <3>1. ~(j <= l) /\ i - l \in 1..m /\ j - l \in 1..m /\ i - l < j - l
      BY <1>1, <1>3, <2>3
    <3>2. t[i - l] < t[j - l]
      BY <1>1, <3>1 DEF Increasing
    <3> QED
      BY <1>1, <2>3, <3>1, <3>2
  <2> QED
    BY <2>1, <2>2, <2>3
<1>4. Increasing(u)
  BY <1>1, <1>3 DEF Increasing
<1> QED
  BY <1>4 DEF u

(* Flattening increasing sequences, each below the later ones, gives one,  *)
(* and it has their elements.                                              *)
Ascending(s, N) ==
  /\ \A k \in 1..N : Increasing(s[k])
  /\ \A j, k \in 1..N : j < k => Below(s[j], s[k])

LEMMA FlattenElements ==
  ASSUME NEW S, NEW N \in Nat \ {0}, NEW s \in [1..N -> Seq(S)]
  PROVE  Range(FlattenSeq(s)) = UNION {Range(s[k]) : k \in 1..N}
<1>1. PICK P : Joins(P, s, N, S)
  BY JoinsExist
<1>2. FlattenSeq(s) = P[N]
  BY <1>1, FlattenJoins
<1> DEFINE U(n) == UNION {Range(s[k]) : k \in 1..n}
           T == {n \in 0..N : Range(P[n]) = U(n)}
<1>3. 0 \in T
  <2>1. P[0] = <<>> /\ DOMAIN <<>> = {}
    BY <1>1 DEF Joins
  <2>2. Range(P[0]) = {}
    BY <2>1 DEF Range
  <2>3. 1..0 = {} /\ 0 \in 0..N
    OBVIOUS
  <2> QED
    BY <2>2, <2>3
<1>4. ASSUME NEW n \in 0..N - 1, n \in T PROVE n + 1 \in T
  <2>1. n + 1 \in 1..N /\ n + 1 \in 0..N /\ n \in 0..N /\ (n + 1) - 1 = n
    OBVIOUS
  <2>2. /\ P[n + 1] = P[n] \o s[n + 1] /\ P[n] \in Seq(S) /\ s[n + 1] \in Seq(S)
    BY <1>1, <2>1 DEF Joins
  <2>3. Range(P[n + 1]) = Range(P[n]) \cup Range(s[n + 1])
    BY <2>2, RangeConcatenation
  <2>4. 1..n + 1 = 1..n \cup {n + 1}
    OBVIOUS
  <2>5. U(n + 1) = U(n) \cup Range(s[n + 1])
    BY <2>4
  <2>6. Range(P[n]) = U(n)
    BY <1>4
  <2> HIDE DEF U
  <2> QED
    BY <2>1, <2>3, <2>5, <2>6
<1> HIDE DEF T
<1>5. 0..N \subseteq T
  BY <1>3, <1>4, BoundedInduction
<1>6. N \in T
  BY <1>5
<1> QED
  BY <1>2, <1>6 DEF T

LEMMA FlattenIncreasing ==
  ASSUME NEW N \in Nat \ {0}, NEW s \in [1..N -> Seq(Nat)], Ascending(s, N)
  PROVE  Increasing(FlattenSeq(s))
<1>1. PICK P : Joins(P, s, N, Nat)
  BY JoinsExist
<1>2. FlattenSeq(s) = P[N]
  BY <1>1, FlattenJoins
<1> DEFINE T == {n \in 0..N : /\ Increasing(P[n])
                             /\ \A j \in n + 1..N : Below(P[n], s[j])}
<1>3. 0 \in T
  BY <1>1 DEF Joins, Increasing, Below, Range
<1>4. ASSUME NEW n \in 0..N - 1, n \in T PROVE n + 1 \in T
  <2>1. n + 1 \in 1..N /\ n + 1 \in 0..N /\ n \in 0..N /\ (n + 1) - 1 = n
    OBVIOUS
  <2>2. PICK a \in Seq(Nat), b \in Seq(Nat) :
          P[n + 1] = a \o b /\ a = P[n] /\ b = s[n + 1]
    BY <1>1, <2>1 DEF Joins
  <2>3. Increasing(a) /\ Increasing(b) /\ Below(a, b)
    BY <1>4, <2>1, <2>2 DEF Ascending
  <2>4. Increasing(a \o b)
    BY <2>3, IncreasingConcat
  <2>5. Range(a \o b) = Range(a) \cup Range(b)
    BY RangeConcatenation
  <2>6. ASSUME NEW j \in (n + 1) + 1..N PROVE Below(a \o b, s[j])
    <3>1. j \in 1..N /\ j \in n + 1..N /\ n + 1 < j
      OBVIOUS
    <3>2. Below(a, s[j]) /\ Below(b, s[j])
      BY <1>4, <2>1, <2>2, <3>1 DEF Ascending
    <3> QED
      BY <2>5, <3>2 DEF Below
  <2> QED
    BY <2>1, <2>2, <2>4, <2>6
<1> HIDE DEF T
<1>5. 0..N \subseteq T
  BY <1>3, <1>4, BoundedInduction
<1>6. N \in T
  BY <1>5
<1> QED
  BY <1>2, <1>6 DEF T


-----------------------------------------------------------------------------
(* Finite sets of integers, and finite images.                             *)
HasGreatest(S) == \E x \in S : \A y \in S : x >= y
HasLeast(S)    == \E x \in S : \A y \in S : x <= y

LEMMA FiniteExtremes ==
  ASSUME NEW S \in SUBSET Int, IsFiniteSet(S), S # {}
  PROVE  HasGreatest(S) /\ HasLeast(S)
<1> DEFINE T == {n \in Nat : \A U \in SUBSET Int :
                   IsFiniteSet(U) /\ Cardinality(U) = n /\ U # {}
                     => HasGreatest(U) /\ HasLeast(U)}
<1>1. 0 \in T
  BY FS_EmptySet
<1>2. ASSUME NEW n \in Nat, n \in T PROVE n + 1 \in T
  <2>1. SUFFICES ASSUME NEW U \in SUBSET Int, IsFiniteSet(U), Cardinality(U) = n + 1
                 PROVE  U # {} => HasGreatest(U) /\ HasLeast(U)
    OBVIOUS
  <2>2. SUFFICES ASSUME NEW u \in U PROVE HasGreatest(U) /\ HasLeast(U)
    OBVIOUS
  <2> DEFINE V == U \ {u}
  <2>3. V \in SUBSET Int /\ IsFiniteSet(V) /\ Cardinality(V) = n
    <3>1. IsFiniteSet(V) /\ Cardinality(V) = Cardinality(U) - 1
      BY <2>1, <2>2, FS_RemoveElement
    <3> QED
      BY <2>1, <3>1
  <2>4. U = V \cup {u} /\ u \in Int
    BY <2>1, <2>2
  <2> HIDE DEF V
  <2>5. CASE V = {}
    BY <2>4, <2>5 DEF HasGreatest, HasLeast
  <2>6. CASE V # {}
    <3>1. HasGreatest(V) /\ HasLeast(V)
      BY <1>2, <2>3, <2>6
    <3>2. PICK a \in V : \A y \in V : a >= y
      BY <3>1 DEF HasGreatest
    <3>3. PICK b \in V : \A y \in V : b <= y
      BY <3>1 DEF HasLeast
    <3>4. HasGreatest(U)
      <4>1. CASE a >= u
        BY <2>4, <3>2, <4>1 DEF HasGreatest
      <4>2. CASE ~(a >= u)
        <5>1. \A y \in U : u >= y
          BY <2>3, <2>4, <3>2, <4>2
        <5> QED
          BY <2>4, <5>1 DEF HasGreatest
      <4> QED
        BY <4>1, <4>2
    <3>5. HasLeast(U)
      <4>1. CASE b <= u
        BY <2>4, <3>3, <4>1 DEF HasLeast
      <4>2. CASE ~(b <= u)
        <5>1. \A y \in U : u <= y
          BY <2>3, <2>4, <3>3, <4>2
        <5> QED
          BY <2>4, <5>1 DEF HasLeast
      <4> QED
        BY <4>1, <4>2
    <3> QED
      BY <3>4, <3>5
  <2> QED
    BY <2>5, <2>6
<1> HIDE DEF T
<1>3. Nat \subseteq T
  BY <1>1, <1>2, SetInduction
<1>4. Cardinality(S) \in T
  BY <1>3, FS_CardinalityType
<1> QED
  BY <1>4 DEF T

LEMMA ExtremeFacts ==
  ASSUME NEW S \in SUBSET Int, IsFiniteSet(S), S # {}
  PROVE  /\ Max(S) \in S /\ \A y \in S : y <= Max(S)
         /\ Min(S) \in S /\ \A y \in S : Min(S) <= y
<1>1. HasGreatest(S) /\ HasLeast(S)
  BY FiniteExtremes
<1>2. Max(S) \in S /\ \A y \in S : Max(S) >= y
  BY <1>1, Zenon DEF HasGreatest, Max
<1>3. Min(S) \in S /\ \A y \in S : Min(S) <= y
  BY <1>1, Zenon DEF HasLeast, Min
<1>4. \A y \in S : y <= Max(S)
  BY <1>2
<1> QED
  BY <1>2, <1>3, <1>4

LEMMA FiniteImage ==
  ASSUME NEW S, IsFiniteSet(S), NEW f
  PROVE  IsFiniteSet({f[x] : x \in S})
<1> DEFINE T == {f[x] : x \in S}
           g == [x \in S |-> f[x]]
<1>1. g \in [S -> T] /\ \A t \in T : \E x \in S : g[x] = t
  OBVIOUS
<1>2. g \in Surjection(S, T)
  BY <1>1, Fun_IsSurj
<1> QED
  BY <1>2, FS_Surjection

-----------------------------------------------------------------------------
(* Sums over finite sets, as MapThenSumSet forms them: an element is taken *)
(* from the set and added to the sum of the others.                        *)
Taken(S) == CHOOSE x \in S : TRUE
SumRule(g, f, S) ==
  g = [T \in SUBSET S |-> IF T = {} THEN 0 ELSE f[Taken(T)] + g[T \ {Taken(T)}]]

(* Taking an element of a finite set leaves one fewer.                     *)
LEMMA TakenFacts ==
  ASSUME NEW S, IsFiniteSet(S), S # {}
  PROVE  /\ Taken(S) \in S /\ S \ {Taken(S)} \in SUBSET S
         /\ IsFiniteSet(S \ {Taken(S)})
         /\ Cardinality(S \ {Taken(S)}) = Cardinality(S) - 1
         /\ Cardinality(S) \in Nat /\ Cardinality(S) # 0
<1>1. Taken(S) \in S
  BY DEF Taken
<1> HIDE DEF Taken
<1>2. Cardinality(S) \in Nat /\ Cardinality(S) # 0
  BY FS_CardinalityType, FS_EmptySet
<1> QED
  BY <1>1, <1>2, FS_RemoveElement

(* The recursion has a solution on the subsets of a finite set: it is      *)
(* built for the subsets of at most n elements, one n after the other.     *)
LEMMA SumExists ==
  ASSUME NEW D, NEW f \in [D -> Int], NEW S \in SUBSET D, IsFiniteSet(S)
  PROVE  \E g : SumRule(g, f, S)
<1> DEFINE Small(n)   == {T \in SUBSET S : Cardinality(T) <= n}
           Rule(g, n) == /\ g \in [Small(n) -> Int]
                         /\ \A T \in Small(n) :
                              g[T] = IF T = {} THEN 0 ELSE f[Taken(T)] + g[T \ {Taken(T)}]
           N == {n \in Nat : \E g : Rule(g, n)}
<1>1. \A T \in SUBSET S : IsFiniteSet(T) /\ Cardinality(T) \in Nat
                          /\ Cardinality(T) <= Cardinality(S)
  BY FS_Subset, FS_CardinalityType
<1>2. 0 \in N
  <2> DEFINE g == [T \in Small(0) |-> 0]
  <2>1. \A T \in Small(0) : T = {}
    <3> SUFFICES ASSUME NEW T \in Small(0) PROVE T = {}
      OBVIOUS
    <3>1. IsFiniteSet(T) /\ Cardinality(T) = 0
      BY <1>1
    <3> QED
      BY <3>1, FS_EmptySet
  <2>2. Rule(g, 0)
    BY <2>1
  <2> QED
    BY <2>2
<1>3. ASSUME NEW n \in Nat, n \in N PROVE n + 1 \in N
  <2>1. PICK g : Rule(g, n)
    BY <1>3
  <2> DEFINE val(T) == IF T = {} THEN 0 ELSE f[Taken(T)] + g[T \ {Taken(T)}]
             h == [T \in Small(n + 1) |-> val(T)]
  <2>2. ASSUME NEW T \in Small(n + 1), T # {}
        PROVE  Taken(T) \in S /\ T \ {Taken(T)} \in Small(n)
    <3>1. IsFiniteSet(T) /\ Cardinality(T) <= n + 1
      BY <1>1
    <3>2. Taken(T) \in T /\ T \ {Taken(T)} \in SUBSET T /\ Cardinality(T \ {Taken(T)}) <= n
      BY <2>2, <3>1, TakenFacts
    <3> QED
      BY <3>2
  <2>3. \A T \in Small(n + 1) : val(T) \in Int
    <3> SUFFICES ASSUME NEW T \in Small(n + 1), T # {} PROVE val(T) \in Int
      OBVIOUS
    <3>1. f[Taken(T)] \in Int
      BY <2>2
    <3>2. g[T \ {Taken(T)}] \in Int
      BY <2>1, <2>2
    <3> QED
      BY <3>1, <3>2
  <2>4. \A T \in Small(n) : T \in Small(n + 1)
    BY <1>1
  <2>5. \A T \in Small(n) : h[T] = g[T]
    BY <2>1, <2>4
  <2>6. \A T \in Small(n + 1) : h[T] = IF T = {} THEN 0 ELSE f[Taken(T)] + h[T \ {Taken(T)}]
    BY <2>2, <2>5
  <2>7. h \in [Small(n + 1) -> Int]
    BY <2>3
  <2> HIDE DEF h, Small
  <2>8. Rule(h, n + 1)
    BY <2>6, <2>7
  <2> QED
    BY <2>8
<1> HIDE DEF N
<1>4. Nat \subseteq N
  BY <1>2, <1>3, SetInduction
<1>5. PICK g : Rule(g, Cardinality(S))
  BY <1>4, FS_CardinalityType DEF N
<1>6. Small(Cardinality(S)) = SUBSET S
  BY <1>1
<1>7. g \in [SUBSET S -> Int] /\ \A T \in SUBSET S :
        g[T] = IF T = {} THEN 0 ELSE f[Taken(T)] + g[T \ {Taken(T)}]
  BY <1>5, <1>6
<1>8. g = [T \in SUBSET S |-> g[T]]
  BY <1>7
<1>9. g = [T \in SUBSET S |-> IF T = {} THEN 0 ELSE f[Taken(T)] + g[T \ {Taken(T)}]]
  BY <1>7, <1>8, Zenon
<1> QED
  BY <1>9 DEF SumRule

LEMMA SumEquation ==
  ASSUME NEW f, NEW S, NEW g, SumRule(g, f, S), NEW T \in SUBSET S
  PROVE  g[T] = IF T = {} THEN 0 ELSE f[Taken(T)] + g[T \ {Taken(T)}]
<1> DEFINE val(U) == IF U = {} THEN 0 ELSE f[Taken(U)] + g[U \ {Taken(U)}]
<1>1. g = [U \in SUBSET S |-> val(U)]
  BY DEF SumRule
<1> HIDE DEF val
<1>2. g[T] = val(T)
  BY <1>1
<1> QED
  BY <1>2 DEF val

(* Two sums of the same values over one set agree, and are integers.       *)
LEMMA SumUnique ==
  ASSUME NEW D, NEW f \in [D -> Int], NEW S \in SUBSET D, NEW R \in SUBSET D,
         NEW g, NEW h, SumRule(g, f, S), SumRule(h, f, R),
         NEW T \in SUBSET (S \cap R), IsFiniteSet(T)
  PROVE  g[T] = h[T] /\ g[T] \in Int
<1> DEFINE N == {n \in Nat : \A U \in SUBSET (S \cap R) :
                   IsFiniteSet(U) /\ Cardinality(U) = n => g[U] = h[U] /\ g[U] \in Int}
<1>1. \A U \in SUBSET (S \cap R) :
        /\ g[U] = IF U = {} THEN 0 ELSE f[Taken(U)] + g[U \ {Taken(U)}]
        /\ h[U] = IF U = {} THEN 0 ELSE f[Taken(U)] + h[U \ {Taken(U)}]
  BY SumEquation
<1>2. 0 \in N
  <2> SUFFICES ASSUME NEW U \in SUBSET (S \cap R), IsFiniteSet(U), Cardinality(U) = 0
               PROVE  g[U] = h[U] /\ g[U] \in Int
    OBVIOUS
  <2>1. U = {}
    BY FS_EmptySet
  <2>2. g[U] = 0 /\ h[U] = 0
    BY <1>1, <2>1
  <2> QED
    BY <2>2
<1>3. ASSUME NEW n \in Nat, n \in N PROVE n + 1 \in N
  <2> SUFFICES ASSUME NEW U \in SUBSET (S \cap R), IsFiniteSet(U), Cardinality(U) = n + 1
               PROVE  g[U] = h[U] /\ g[U] \in Int
    OBVIOUS
  <2>1. U # {}
    BY FS_EmptySet
  <2> DEFINE x == Taken(U)
             V == U \ {x}
  <2>2. x \in U /\ V \in SUBSET U /\ IsFiniteSet(V) /\ Cardinality(V) = n
    BY <2>1, TakenFacts
  <2>3. g[V] = h[V] /\ g[V] \in Int
    BY <1>3, <2>2
  <2>4. g[U] = f[x] + g[V] /\ h[U] = f[x] + h[V]
    BY <1>1, <2>1
  <2>5. f[x] \in Int
    BY <2>2
  <2> QED
    BY <2>3, <2>4, <2>5
<1> HIDE DEF N
<1>4. Nat \subseteq N
  BY <1>2, <1>3, SetInduction
<1>5. Cardinality(T) \in N
  BY <1>4, FS_CardinalityType
<1> QED
  BY <1>5 DEF N

(* Whichever element is taken first, the sum is the same.                  *)
Removes(g, f, S) ==
  \A T \in SUBSET S : IsFiniteSet(T) => \A z \in T : g[T] = f[z] + g[T \ {z}]

LEMMA SumRemove ==
  ASSUME NEW D, NEW f \in [D -> Int], NEW S \in SUBSET D, NEW g, SumRule(g, f, S)
  PROVE  Removes(g, f, S)
<1> SUFFICES ASSUME NEW T \in SUBSET S, IsFiniteSet(T), NEW z \in T
             PROVE  g[T] = f[z] + g[T \ {z}]
  BY DEF Removes
<1> DEFINE N == {n \in Nat : \A U \in SUBSET S : \A y \in U :
                   IsFiniteSet(U) /\ Cardinality(U) = n => g[U] = f[y] + g[U \ {y}]}
<1>1. \A U \in SUBSET S : g[U] = IF U = {} THEN 0 ELSE f[Taken(U)] + g[U \ {Taken(U)}]
  <2> HIDE DEF N
  <2> SUFFICES ASSUME NEW U \in SUBSET S
               PROVE  g[U] = IF U = {} THEN 0 ELSE f[Taken(U)] + g[U \ {Taken(U)}]
    OBVIOUS
  <2> QED
    BY SumEquation
<1>2. 0 \in N
  BY FS_EmptySet
<1>3. ASSUME NEW n \in Nat, n \in N PROVE n + 1 \in N
  <2> SUFFICES ASSUME NEW U \in SUBSET S, NEW y \in U, IsFiniteSet(U), Cardinality(U) = n + 1
               PROVE  g[U] = f[y] + g[U \ {y}]
    OBVIOUS
  <2> DEFINE x == Taken(U)
             V == U \ {x}
             W == U \ {y}
             B == U \ {x, y}
  <2>1. x \in U /\ V \in SUBSET U /\ IsFiniteSet(V) /\ Cardinality(V) = n
    BY TakenFacts
  <2>2. g[U] = f[x] + g[V]
    BY <1>1
  <2>3. CASE x = y
    BY <2>2, <2>3
  <2>4. CASE x # y
    <3>1. g[V] = f[y] + g[B]
      <4>1. y \in V /\ V \ {y} = B /\ V \in SUBSET S
        BY <2>4
      <4> QED
        BY <1>3, <2>1, <4>1
    <3>2. g[W] = f[x] + g[B]
      <4>1. x \in W /\ W \ {x} = B /\ W \in SUBSET S
        BY <2>1, <2>4
      <4>2. IsFiniteSet(W) /\ Cardinality(W) = n
        <5>1. IsFiniteSet(W) /\ Cardinality(W) = Cardinality(U) - 1
          BY FS_RemoveElement
        <5> HIDE DEF W
        <5> QED
          BY <5>1
      <4>3. g[W] = f[x] + g[W \ {x}]
        <5> HIDE DEF W, x
        <5> QED
          BY <1>3, <4>1, <4>2
      <4> QED
        BY <4>1, <4>3
    <3>3. f[x] \in Int /\ f[y] \in Int
      BY <2>1
    <3>4. g[B] \in Int
      <4>1. B \in SUBSET (S \cap S) /\ IsFiniteSet(B)
        BY FS_Subset
      <4> QED
        BY <4>1, SumUnique
    <3> HIDE DEF x, V, W, B
    <3>5. g[U] = f[y] + g[W]
      BY <2>2, <3>1, <3>2, <3>3, <3>4
    <3> QED
      BY <3>5 DEF W
  <2> QED
    BY <2>3, <2>4
<1> HIDE DEF N
<1>4. Nat \subseteq N
  BY <1>2, <1>3, SetInduction
<1>5. Cardinality(T) \in N
  BY <1>4, FS_CardinalityType
<1> QED
  BY <1>5 DEF N

(* A part's sum is an integer, and nothing sums up to zero.                *)
LEMMA SumPart ==
  ASSUME NEW D, NEW f \in [D -> Int], NEW S \in SUBSET D, NEW g, SumRule(g, f, S)
  PROVE  /\ g[{}] = 0
         /\ \A T \in SUBSET S : IsFiniteSet(T) => g[T] \in Int
<1>1. g[{}] = 0
  <2>1. {} \in SUBSET S
    OBVIOUS
  <2>2. g[{}] = IF {} = {} THEN 0 ELSE f[Taken({})] + g[{} \ {Taken({})}]
    BY <2>1, SumEquation
  <2> QED
    BY <2>2
<1>2. ASSUME NEW T \in SUBSET S, IsFiniteSet(T) PROVE g[T] \in Int
  <2>1. T \in SUBSET (S \cap S)
    OBVIOUS
  <2> QED
    BY <1>2, <2>1, SumUnique
<1> QED
  BY <1>1, <1>2

(* The numbers of a set up to a bound.                                     *)
Upto(S, k) == {i \in S : i <= k}

LEMMA UptoNext ==
  ASSUME NEW S \in SUBSET Int, NEW j \in Int, NEW z \in Int, z = j + 1
  PROVE  /\ z \in S => z \in Upto(S, z) /\ Upto(S, z) \ {z} = Upto(S, j)
         /\ z \notin S => Upto(S, z) = Upto(S, j)
<1>1. \A i \in S : i <= z <=> i <= j \/ i = z
  OBVIOUS
<1>2. ~(z <= j) /\ z <= z
  OBVIOUS
<1> QED
  BY <1>1, <1>2 DEF Upto

SumsTo(f, S, v) == \E g : SumRule(g, f, S) /\ v = g[S]

(* The steps of a sequence of numbers, split in two, add up to the whole   *)
(* way: those of the second part may be counted downwards and subtracted.  *)
Down(c, i, add)        == IF add THEN c[i] - c[i - 1] ELSE c[i - 1] - c[i]
Together(v, u, d, add) == v \in Int /\ u \in Int /\ d = IF add THEN v + u ELSE v - u

Signed(e, add) == IF add THEN e ELSE -e

LEMMA TogetherNext ==
  ASSUME NEW v, NEW u, NEW d, NEW e \in Int, NEW add \in BOOLEAN, Together(v, u, d, add)
  PROVE  /\ Together(e + v, u, d + e, add)
         /\ Together(v, Signed(e, add) + u, d + e, add)
<1>1. CASE add
  BY <1>1 DEF Together, Signed
<1>2. CASE ~add
  BY <1>2 DEF Together, Signed
<1> QED
  BY <1>1, <1>2

LEMMA Telescope ==
  ASSUME NEW n \in Nat, n # 0, NEW c \in [1..n -> Int], NEW add \in BOOLEAN,
         NEW A \in SUBSET (2..n), NEW B \in SUBSET (2..n), A \cup B = 2..n, A \cap B = {},
         NEW p \in [A -> Int], NEW q \in [B -> Int],
         \A i \in A : p[i] = c[i] - c[i - 1],
         \A i \in B : q[i] = Down(c, i, add),
         NEW v, NEW u, SumsTo(p, A, v), SumsTo(q, B, u)
  PROVE  Together(v, u, c[n] - c[1], add)
<1>1. PICK f : SumRule(f, p, A) /\ v = f[A]
  BY DEF SumsTo
<1>2. PICK g : SumRule(g, q, B) /\ u = g[B]
  BY DEF SumsTo
<1>3. IsFiniteSet(2..n) /\ IsFiniteSet(A) /\ IsFiniteSet(B)
  <2>1. IsFiniteSet(2..n)
    BY FS_Interval
  <2> QED
    BY <2>1, FS_Subset
<1> DEFINE a(k) == f[Upto(A, k)]
           b(k) == g[Upto(B, k)]
           T == {k \in Nat : k + 1 <= n => Together(a(k + 1), b(k + 1), c[k + 1] - c[1], add)}
<1>4. \A k : /\ Upto(A, k) \in SUBSET A /\ IsFiniteSet(Upto(A, k))
            /\ Upto(B, k) \in SUBSET B /\ IsFiniteSet(Upto(B, k))
  BY <1>3, FS_Subset DEF Upto
<1>5. f[{}] = 0 /\ g[{}] = 0
  BY <1>1, <1>2, SumPart
<1>6. \A k : a(k) \in Int /\ b(k) \in Int
  <2> SUFFICES ASSUME NEW k PROVE a(k) \in Int /\ b(k) \in Int
    OBVIOUS
  <2>1. f[Upto(A, k)] \in Int
    BY <1>1, <1>4, SumPart
  <2>2. g[Upto(B, k)] \in Int
    BY <1>2, <1>4, SumPart
  <2> QED
    BY <2>1, <2>2
<1>7. 0 \in T
  <2>1. Upto(A, 1) = {} /\ Upto(B, 1) = {}
    BY DEF Upto
  <2>2. a(1) = 0 /\ b(1) = 0
    BY <1>5, <2>1
  <2>3. c[1] - c[1] = 0
    <3>1. c[1] \in Int
      OBVIOUS
    <3> QED
      BY <3>1
  <2> HIDE DEF a, b
  <2>4. Together(a(1), b(1), c[1] - c[1], add)
    BY <2>2, <2>3 DEF Together
  <2>5. 0 + 1 = 1
    OBVIOUS
  <2> QED
    BY <2>4, <2>5
<1>8. ASSUME NEW k \in Nat, k \in T PROVE k + 1 \in T
  <2>1. PICK j \in Nat : j = k + 1
    OBVIOUS
  <2>2. PICK z \in Nat : z = j + 1
    OBVIOUS
  <2> SUFFICES ASSUME z <= n PROVE Together(a(z), b(z), c[z] - c[1], add)
    BY <2>1, <2>2
  <2>3. Together(a(j), b(j), c[j] - c[1], add)
    BY <1>8, <2>1, <2>2
  <2>4. z \in 2..n /\ z - 1 = j /\ j \in 1..n /\ 1 \in 1..n /\ z \in 1..n
    BY <2>1, <2>2
  <2>5. c[z] \in Int /\ c[j] \in Int /\ c[1] \in Int
    BY <2>4
  <2>6. A \in SUBSET Int /\ B \in SUBSET Int /\ j \in Int /\ z \in Int
    OBVIOUS
  <2>9. /\ Upto(A, z) \in SUBSET A /\ IsFiniteSet(Upto(A, z))
        /\ Upto(B, z) \in SUBSET B /\ IsFiniteSet(Upto(B, z))
    BY <1>4
  <2>10. PICK e \in Int : e = c[z] - c[j] /\ c[z] - c[1] = (c[j] - c[1]) + e
    <3>1. c[z] - c[j] \in Int /\ c[z] - c[1] = (c[j] - c[1]) + (c[z] - c[j])
      BY <2>5
    <3> QED
      BY <3>1
  <2>7. CASE z \in A
    <3>1. z \in Upto(A, z) /\ Upto(A, z) \ {z} = Upto(A, j)
      BY <2>2, <2>6, <2>7, UptoNext
    <3>2. Upto(B, z) = Upto(B, j)
      <4>1. z \notin B
        BY <2>7
      <4> QED
        BY <2>2, <2>6, <4>1, UptoNext
    <3>3. f[Upto(A, z)] = p[z] + f[Upto(A, z) \ {z}]
      <4>1. Removes(f, p, A)
        BY <1>1, SumRemove
      <4> QED
        BY <2>9, <3>1, <4>1 DEF Removes
    <3>4. p[z] = c[z] - c[j]
      BY <2>4, <2>7
    <3>5. a(z) = e + a(j) /\ b(z) = b(j)
      BY <2>10, <3>1, <3>2, <3>3, <3>4
    <3> HIDE DEF a, b
    <3>6. Together(e + a(j), b(j), (c[j] - c[1]) + e, add)
      BY <2>3, TogetherNext
    <3> QED
      BY <2>10, <3>5, <3>6
  <2>8. CASE z \in B
    <3>1. z \in Upto(B, z) /\ Upto(B, z) \ {z} = Upto(B, j)
      BY <2>2, <2>6, <2>8, UptoNext
    <3>2. Upto(A, z) = Upto(A, j)
      <4>1. z \notin A
        BY <2>8
      <4> QED
        BY <2>2, <2>6, <4>1, UptoNext
    <3>3. g[Upto(B, z)] = q[z] + g[Upto(B, z) \ {z}]
      <4>1. Removes(g, q, B)
        BY <1>2, SumRemove
      <4> QED
        BY <2>9, <3>1, <4>1 DEF Removes
    <3>4. q[z] = IF add THEN c[z] - c[j] ELSE c[j] - c[z]
      BY <2>4, <2>8 DEF Down
    <3>5. b(z) = Signed(e, add) + b(j) /\ a(z) = a(j)
      <4>1. c[j] - c[z] = -e
        BY <2>5, <2>10
      <4>2. q[z] = Signed(e, add)
        BY <2>10, <3>4, <4>1, Zenon DEF Signed
      <4> QED
        BY <3>1, <3>2, <3>3, <4>2
    <3> HIDE DEF a, b
    <3>6. Together(a(j), Signed(e, add) + b(j), (c[j] - c[1]) + e, add)
      BY <2>3, TogetherNext
    <3> QED
      BY <2>10, <3>5, <3>6
  <2> QED
    BY <2>4, <2>7, <2>8
<1> HIDE DEF T
<1>9. Nat \subseteq T
  BY <1>7, <1>8, SetInduction
<1>10. PICK m \in Nat : m + 1 = n
  <2>1. n - 1 \in Nat /\ (n - 1) + 1 = n
    OBVIOUS
  <2> QED
    BY <2>1
<1>11. Upto(A, n) = A /\ Upto(B, n) = B
  BY DEF Upto
<1>12. Together(a(n), b(n), c[n] - c[1], add)
  <2>1. m + 1 <= n => Together(a(m + 1), b(m + 1), c[m + 1] - c[1], add)
    BY <1>9 DEF T
  <2> HIDE DEF a, b
  <2> QED
    BY <1>10, <2>1
<1> QED
  BY <1>1, <1>2, <1>11, <1>12

-----------------------------------------------------------------------------
(* Counting through a function.                                            *)
Injects(f, S, T) == f \in [S -> T] /\ \A a, b \in S : f[a] = f[b] => a = b
Covers(f, S, T)  == \A t \in T : \E s \in S : f[s] = t

LEMMA CountInto ==
  ASSUME NEW S, NEW T, NEW f, Injects(f, S, T), IsFiniteSet(T)
  PROVE  IsFiniteSet(S)
BY Fun_IsInj, FS_Injection DEF Injects

LEMMA CountOnto ==
  ASSUME NEW S, NEW T, NEW f, Injects(f, S, T), Covers(f, S, T), IsFiniteSet(S)
  PROVE  IsFiniteSet(T) /\ Cardinality(T) = Cardinality(S)
<1>1. f \in Injection(S, T) /\ f \in Surjection(S, T)
  BY Fun_IsInj, Fun_IsSurj DEF Injects, Covers
<1>2. ExistsBijection(S, T)
  BY <1>1 DEF ExistsBijection, Bijection
<1> QED
  BY <1>2, FS_Bijection
=============================================================================
