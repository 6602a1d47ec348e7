------------------------------ MODULE Metrics -------------------------------
(***************************************************************************)
(* internal/metrics: what a run's samples and rotation events are summed   *)
(* up to.  Samples are a sequence of [t, cache], events of [t, ordinal,    *)
(* phase]; a quotient is a pair <<n, d>>, zero when d is.                  *)
(***************************************************************************)
EXTENDS Integers, Sequences, FiniteSets, FiniteSetsExt, SequencesExt

divide(n, d) == IF d = 0 THEN <<0, 1>> ELSE <<n, d>>

(* The sum of a function's values. *)
SumOf(f) == FoldFunction(+, 0, f)

(* The steps between neighbouring samples that count: those in which time  *)
(* went forward, split by whether the cache grew.                          *)
Step(s, i)  == [seconds |-> s[i].t - s[i - 1].t, bytes |-> s[i].cache - s[i - 1].cache]

(* Mutation of Forward: only equal stamps are left out. *)
ForwardOrBack(s) == {i \in 2..Len(s) : Step(s, i).seconds # 0}

Forward(s)  == {i \in 2..Len(s) : Step(s, i).seconds > 0}
Rising(s)   == {i \in Forward(s) : Step(s, i).bytes >= 0}
Falling(s)  == {i \in Forward(s) : Step(s, i).bytes < 0}
positiveBytes(s)   == SumOf([i \in Rising(s) |-> Step(s, i).bytes])
positiveSeconds(s) == SumOf([i \in Rising(s) |-> Step(s, i).seconds])
reclaimBytes(s)    == SumOf([i \in Falling(s) |-> -Step(s, i).bytes])
reclaimSeconds(s)  == SumOf([i \in Falling(s) |-> Step(s, i).seconds])

(* math.Ceil(0.95 * n) - 1, from 0. *)
nearestRank(n) ==
  LET rank == ((19 * n + 19) \div 20) - 1
  IN  IF rank < 0 THEN 0 ELSE IF rank >= n THEN n - 1 ELSE rank

(* sort.Slice: an element's place is how many do not come after it. *)
NotAfter(q, j) == {i \in DOMAIN q : q[i] < q[j] \/ (q[i] = q[j] /\ i <= j)}
Sorted(q) ==
  [k \in DOMAIN q |-> q[CHOOSE j \in DOMAIN q : Cardinality(NotAfter(q, j)) = k]]

(* Mutation of Values: they are left in the order of the samples. *)
ValuesUnsorted(s) == [i \in DOMAIN s |-> s[i].cache]
Values(s) == Sorted([i \in DOMAIN s |-> s[i].cache])

MedianBytes(s) == Values(s)[(Len(s) \div 2) + 1]
P95Bytes(s)    == Values(s)[nearestRank(Len(s)) + 1]

(* The window of the rotation that event j starts: up to the first         *)
(* completion of the same ordinal that is not earlier, or without end.     *)
Starts(e) == {j \in DOMAIN e : e[j].phase \in {"copy-start", "rename"}}
Completions(e, j) ==
  {k \in DOMAIN e : /\ e[k].ordinal = e[j].ordinal
                    /\ e[k].phase = "retention-complete" /\ e[k].t >= e[j].t}
Window(s, e, j) ==
  {i \in DOMAIN s :
     /\ s[i].t >= e[j].t
     /\ Completions(e, j) # {} => s[i].t <= e[Min(Completions(e, j))].t}

(* Mutation of Rise: the base is the least value of the window. *)
RiseFromLeast(s, w) == Max({s[i].cache - s[j].cache : i, j \in w} \cup {0})

(* From the first sample of a window to its highest. *)
Rise(s, w) == Max({s[i].cache - s[Min(w)].cache : i \in w} \cup {0})
rotationTransient(s, e) == Max({Rise(s, Window(s, e, j)) : j \in Starts(e)} \cup {0})

CompletionTimes(e) ==
  FlattenSeq([k \in DOMAIN e |-> IF e[k].phase = "retention-complete" THEN <<e[k].t>> ELSE <<>>])

(* Mutation of Boundaries: the end of the run is no boundary. *)
BoundariesOpen(s, e) == Sorted(<<s[1].t>> \o CompletionTimes(e))

(* The run cut at its completed rotations. *)
Boundaries(s, e) == Sorted(<<s[1].t>> \o CompletionTimes(e) \o <<s[Len(s)].t>>)
Segment(s, b, k) == {i \in DOMAIN s : b[k - 1] <= s[i].t /\ s[i].t <= b[k]}
Segments(s, e) ==
  LET b == Boundaries(s, e) IN {Segment(s, b, k) : k \in 2..Len(b)}

sx(s, w)  == SumOf([i \in w |-> s[i].t])
sy(s, w)  == SumOf([i \in w |-> s[i].cache])
sxy(s, w) == SumOf([i \in w |-> s[i].t * s[i].cache])
sxx(s, w) == SumOf([i \in w |-> s[i].t * s[i].t])

(* Mutation of leastSquares: the sums are not weighted by their number. *)
leastSquaresUnweighted(s, w) ==
  divide(sxy(s, w) - sx(s, w) * sy(s, w), sxx(s, w) - sx(s, w) * sx(s, w))

(* The slope of a segment of at least two samples. *)
leastSquares(s, w) ==
  LET n == Cardinality(w)
  IN  divide(n * sxy(s, w) - sx(s, w) * sy(s, w), n * sxx(s, w) - sx(s, w) * sx(s, w))
intervalSlopes(s, e) ==
  {<<w, leastSquares(s, w)>> : w \in {v \in Segments(s, e) : Cardinality(v) >= 2}}
=============================================================================
