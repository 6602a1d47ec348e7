------------------------------- MODULE Pacing -------------------------------
(***************************************************************************)
(* The integer arithmetic that decides how much a run writes: the byte     *)
(* credit of the two writers, which turns elapsed time into records, and   *)
(* the baseline's target volume.  The lab's writer modules leave pacing    *)
(* out (a tick generates any burst); here it is all there is.  MaxInt      *)
(* stands for the greatest int64, so that it is within TLC's reach.        *)
(***************************************************************************)
EXTENDS Integers

CONSTANTS
  MaxInt,       \* the greatest integer of the code (2^63 - 1)
  Second,       \* clock units per second (10^9 nanoseconds in the code)
  Rates,        \* values of --bytes-per-second to try
  RecordBytes,  \* --record-bytes
  Gaps,         \* clock units that may pass between two ticks
  Ticks,        \* bound: ticks of the generate loop
  Sizes,        \* values of --max-file-bytes to try
  Counts        \* values of --rotations to try

ASSUME PacingAssumption ==
  /\ MaxInt \in Nat \ {0} /\ RecordBytes \in Nat \ {0}
  /\ Second \in 2..MaxInt /\ 2 * RecordBytes <= MaxInt
  /\ Rates \subseteq 1..MaxInt /\ Gaps \subseteq Nat /\ Ticks \in Nat
  /\ Sizes \subseteq 1..MaxInt /\ Counts \subseteq 1..MaxInt

VARIABLES
  writer,     \* "go" or "cpp"
  rate,       \* bytes per second
  last,       \* lastGenerate, on a clock that reads 0 when the loop starts
  credit,     \* byteCredit: bytes in Go, bytes * Second in C++
  generated,  \* records generated
  ticks,      \* ticks so far
  stalls,     \* history: ticks so late that rate * elapsed is no integer of Go's
  max, rotations,  \* the baseline rotator's flags
  baseline    \* the rotator: "start", "poll", "refused" or "done"

paceVars == <<writer, rate, last, credit, generated, ticks, stalls>>
flags    == <<max, rotations>>
vars     == <<paceVars, flags, baseline>>

Wrap(x)        == ((x + MaxInt + 1) % (2 * (MaxInt + 1))) - (MaxInt + 1)
Quotient(a, b) == IF a >= 0 THEN a \div b ELSE -((-a) \div b)  \* b > 0

Init ==
  /\ writer \in {"go", "cpp"}
  /\ rate \in Rates
  /\ last = 0 /\ credit = 0 /\ generated = 0 /\ ticks = 0 /\ stalls = 0
  /\ max \in Sizes /\ rotations \in Counts
  /\ baseline = "start"

(* Mutation of Earned: the quotient is rounded up. *)
EarnedRoundedUp(elapsed) ==
  IF writer = "go" THEN Quotient(Wrap(rate * elapsed) + Second - 1, Second)
                   ELSE rate * elapsed

(* What a tick adds to the credit.  Go multiplies first, may wrap, and     *)
(* drops the fraction of a byte; C++ keeps it, in a long double.           *)
Earned(elapsed) ==
  IF writer = "go" THEN Quotient(Wrap(rate * elapsed), Second) ELSE rate * elapsed

Price == IF writer = "go" THEN RecordBytes ELSE RecordBytes * Second

(* The inner loop: one record as long as the credit pays for one. *)
Paid(c) == IF c >= Price THEN c \div Price ELSE 0

(* Mutation of Leftover: the credit a record did not use is forgotten. *)
LeftoverForgotten(c) == 0

Leftover(c) == c - Paid(c) * Price

Tick(now) ==
  LET sum == credit + Earned(now - last)
      c   == IF writer = "go" THEN Wrap(sum) ELSE sum
  IN  /\ ticks < Ticks
      /\ generated' = generated + Paid(c)
      /\ credit' = Leftover(c)
      /\ last' = now
      /\ stalls' = stalls + (IF rate * (now - last) > MaxInt THEN 1 ELSE 0)
      /\ ticks' = ticks + 1
      /\ UNCHANGED <<writer, rate, flags, baseline>>

(* Go's first tick may carry a stamp from before the clock was read: the   *)
(* ticker is created first.                                                *)
EarlyTick == writer = "go" /\ ticks = 0 /\ Tick(-1)

(* Mutation of Target: the product is only tested for its sign. *)
TargetIfPositive ==
  IF Wrap(max * rotations) > 0 THEN Wrap(max * rotations) ELSE -1

(* The baseline's target, or -1: "baseline target overflows". *)
Target ==
  IF Quotient(Wrap(max * rotations), rotations) = max
  THEN Wrap(max * rotations) ELSE -1

(* rotator.Run refuses a target that does not fit its integer. *)
CheckTarget ==
  /\ baseline = "start"
  /\ baseline' = IF Target = -1 THEN "refused" ELSE "poll"
  /\ UNCHANGED <<paceVars, flags>>

(* A poll finds the log at its target; the log holds at most what was      *)
(* generated.                                                              *)
BaselineDone ==
  /\ baseline = "poll"
  /\ generated * RecordBytes >= Target
  /\ baseline' = "done"
  /\ UNCHANGED <<paceVars, flags>>

(* The writer is told to stop, after the last tick of the bound. *)
Stopped == ticks = Ticks /\ UNCHANGED vars

Next ==
  \/ EarlyTick
  \/ \E gap \in Gaps : Tick(last + gap)
  \/ CheckTarget
  \/ BaselineDone
  \/ Stopped

Spec == Init /\ [][Next]_vars

-----------------------------------------------------------------------------
(* Neither writer runs ahead of its rate by a byte, even when a stall makes *)
(* Go's product overflow: an overflow turns what was earned into a debt.    *)
(* Only a debt that itself leaves the integers, after as many stalls as a   *)
(* second has clock units, could be taken for credit.                       *)
NeverAhead ==
  stalls < Second => generated * RecordBytes * Second < rate * last + Second \/ generated = 0

(* Neither writer falls behind its rate by more than the record it is       *)
(* saving for, plus, in Go, the fraction of a byte each tick drops: as long *)
(* as no stall was so long that rate * elapsed left the integers.           *)
KeepsUp ==
  writer = "cpp" \/ stalls = 0
    => rate * last - generated * RecordBytes * Second
         < (RecordBytes + IF writer = "go" THEN ticks ELSE 0) * Second

(* A baseline run ends only with the volume of all its rotations in the     *)
(* log, and is refused only when that volume is no integer of the code: the *)
(* division after the multiplication tells the two apart exactly, though    *)
(* the wrapped product may well be positive.                                *)
BaselineVolumeReached ==
  /\ baseline = "done" => generated * RecordBytes >= max * rotations
  /\ baseline = "refused" => max * rotations > MaxInt
=============================================================================
