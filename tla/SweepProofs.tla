---------------------------- MODULE SweepProofs -----------------------------
(***************************************************************************)
(* Theorems about the memory sweep, for every range, every step, every     *)
(* number of repetitions and every outcome of the attempts.                *)
(***************************************************************************)
EXTENDS Sweep, TLAPS

Multiple(l) == \E k \in Int : l = k * step

(* A limit that has not been given up on is under test. *)
UnderTest == spc \in {"test", "attempt"}

(* Search has accepted its configuration. *)
Accepted ==
  spc \in {"test", "attempt", "decide", "narrow", "done"}
    => Valid /\ lower <= upper

(* What has been tested when, in the two calls before the bisection. *)
Bounds ==
  /\ spc = "begin" => phase = "upper"
  /\ spc = "narrow" => phase = "bisect"
  /\ phase = "upper" =>
       /\ UnderTest \/ spc = "begin" => DOMAIN tested = {}
       /\ UnderTest \/ spc = "decide" =>
            limit = upper /\ DOMAIN tested \subseteq {upper}
  /\ phase = "lower" /\ (UnderTest \/ spc = "decide") =>
       /\ limit = lower
       /\ upper \in DOMAIN tested /\ tested[upper]
       /\ DOMAIN tested \subseteq {lower, upper}

(* The bisection's bracket: its ends are tested multiples of the step with *)
(* nothing tested between them but the limit being decided.                *)
Bracket ==
  phase = "bisect" /\ spc # "error" =>
    /\ spc \in {"test", "attempt", "decide", "narrow", "done"}
    /\ fail \in DOMAIN tested /\ ~tested[fail] /\ Multiple(fail)
    /\ pass \in DOMAIN tested /\ tested[pass] /\ Multiple(pass)
    /\ lower <= fail /\ fail < pass /\ pass <= upper
    /\ \A l \in DOMAIN tested : l <= fail \/ l >= pass \/ (spc = "decide" /\ l = limit)
    /\ UnderTest \/ spc = "decide" =>
         fail < limit /\ limit < pass /\ Multiple(limit)
    /\ UnderTest => limit \notin DOMAIN tested

Decided == spc = "decide" => limit \in DOMAIN tested /\ passed = tested[limit]

(* tested is what the recorded attempts say. *)
Passes(l) ==
  /\ \A i \in AttemptsAt(l) : attempts[i].passed
  /\ \A r \in 1..Repetitions : \E i \in AttemptsAt(l) : attempts[i].repetition = r

FailedOnce(l) == \E i \in AttemptsAt(l) : ~attempts[i].passed

Measured ==
  \A l \in DOMAIN tested : IF tested[l] THEN Passes(l) ELSE FailedOnce(l)

(* The attempts made so far at the limit under test. *)
Made == IF spc = "attempt" THEN repetition - 1 ELSE repetition

Current ==
  /\ spc = "attempt" => repetition >= 1
  /\ spc = "attempt" \/ (spc = "test" /\ repetition > 0) => limit \notin DOMAIN tested
  /\ UnderTest /\ limit \notin DOMAIN tested =>
       /\ IF passed THEN \A i \in AttemptsAt(limit) : attempts[i].passed
                    ELSE FailedOnce(limit)
       /\ \A r \in 1..Made : \E i \in AttemptsAt(limit) : attempts[i].repetition = r

(* Every attempt was made at a tested limit or at the one under test. *)
NoStray ==
  \A i \in DOMAIN attempts :
    \/ attempts[i].limit \in DOMAIN tested
    \/ UnderTest /\ attempts[i].limit = limit
    \/ spc = "error"

Reported ==
  report.resolved =>
    /\ spc = "done" /\ phase = "bisect"
    /\ report.minimum = pass /\ report.greatest = fail
    /\ pass - fail <= step

IndInv ==
  /\ TypeOK
  /\ Accepted
  /\ Bounds
  /\ Bracket
  /\ Decided
  /\ Measured
  /\ Current
  /\ NoStray
  /\ Reported

-----------------------------------------------------------------------------
(* Division and remainder by a positive number. *)
LEMMA DivFacts ==
  ASSUME NEW v \in Int, NEW s \in Int, s > 0
  PROVE  /\ v \div s \in Int /\ v % s \in 0..s - 1
         /\ v = s * (v \div s) + (v % s)
OBVIOUS

(* Multiplication by a positive number keeps and reflects the order. *)
LEMMA TimesKeepsOrder ==
  ASSUME NEW a \in Int, NEW b \in Int, NEW s \in Int, s > 0
  PROVE  /\ a <= b => a * s <= b * s
         /\ a * s < b * s => a < b
OBVIOUS

(* A multiple leaves no remainder. *)
LEMMA NoRemainder ==
  ASSUME NEW k \in Int, NEW s \in Int, s > 0
  PROVE  (k * s) % s = 0
OBVIOUS

(* The aligned midpoint of two multiples more than a step apart is a       *)
(* multiple strictly between them: the code's correction of a midpoint     *)
(* that meets the failing end is never needed.                             *)
LEMMA MidpointInside ==
  ASSUME NEW a \in Int, NEW b \in Int, NEW s \in Int, s > 0, b * s - a * s > s,
         NEW h \in Int, h = (a * s + b * s) \div 2
  PROVE  h \div s \in Int /\ a * s < (h \div s) * s /\ (h \div s) * s < b * s
<1> DEFINE q == h \div s
<1>1. a + 2 <= b
  <2>1. (a + 1) * s < b * s
    OBVIOUS
  <2> QED
    BY <2>1, TimesKeepsOrder
<1>2. (a + 2) * s <= b * s
  BY <1>1, TimesKeepsOrder
<1>3. (a + 1) * s <= h /\ h < b * s
  BY <1>2
<1>4. q \in Int /\ h = s * q + (h % s) /\ h % s \in 0..s - 1
  BY DivFacts
<1>5. a + 1 <= q
  <2> SUFFICES ASSUME q <= a PROVE FALSE
    BY <1>4
  <2>1. q * s <= a * s
    BY <1>4, TimesKeepsOrder
  <2> QED
    BY <1>3, <1>4, <2>1
<1>6. (a + 1) * s <= q * s
  BY <1>4, <1>5, TimesKeepsOrder
<1>7. q * s <= h
  BY <1>4
<1> QED
  BY <1>3, <1>4, <1>6, <1>7

(* Two multiples at most a step apart are adjacent. *)
LEMMA Adjacent ==
  ASSUME NEW a \in Int, NEW b \in Int, NEW s \in Int, s > 0,
         a * s < b * s, b * s - a * s <= s
  PROVE  b * s = a * s + s
<1>1. a + 1 <= b
  BY TimesKeepsOrder
<1>2. (a + 1) * s <= b * s
  BY <1>1, TimesKeepsOrder
<1> QED
  BY <1>2

(* The ranges of the numbers the search computes with. *)
LEMMA RangeFacts ==
  ASSUME TypeOK
  PROVE  range.lower \in Int /\ range.upper \in Int /\ step \in Int
BY SweepAssumption DEF TypeOK, step

(* The aligned bounds are multiples of the step. *)
LEMMA BoundsAreMultiples ==
  ASSUME TypeOK, Valid
  PROVE  /\ step \in Int /\ step > 0
         /\ lower \in Int /\ upper \in Int
         /\ Multiple(lower) /\ Multiple(upper)
<1>1. range.lower \in Int /\ range.upper \in Int /\ step \in Int /\ step > 0
  BY RangeFacts DEF Valid
<1> DEFINE k == (range.lower + step - 1) \div step
           m == range.upper \div step
<1>2. k \in Int /\ m \in Int
  BY <1>1, DivFacts
<1>3. lower = k * step /\ upper = m * step
  BY DEF lower, upper, alignUp, alignDown
<1> HIDE DEF k, m
<1> QED
  BY <1>1, <1>2, <1>3 DEF Multiple

(* The midpoint is a multiple strictly inside the bracket. *)
LEMMA MiddleInside ==
  ASSUME TypeOK, Valid, Multiple(fail), Multiple(pass), pass - fail > step
  PROVE  Middle \in Int /\ fail < Middle /\ Middle < pass /\ Multiple(Middle)
<1>1. step \in Int /\ step > 0
  BY BoundsAreMultiples
<1>2. PICK a \in Int, b \in Int : fail = a * step /\ pass = b * step
  BY DEF Multiple
<1> DEFINE h == (fail + pass) \div 2
           q == h \div step
<1>3. h \in Int
  BY DEF TypeOK
<1>4. q \in Int /\ fail < q * step /\ q * step < pass
  BY <1>1, <1>2, <1>3, MidpointInside
<1>5. Middle = (IF q * step <= fail THEN fail + step ELSE q * step)
  BY DEF Middle, alignDown
<1> HIDE DEF q
<1>6. q * step \in Int /\ fail \in Int
  BY <1>1, <1>4 DEF TypeOK
<1>7. Middle = q * step
  BY <1>4, <1>5, <1>6
<1> QED
  BY <1>4, <1>6, <1>7 DEF Multiple

-----------------------------------------------------------------------------
(* However an attempt returns, its result has its type and the limit is    *)
(* left alone.                                                             *)
LEMMA ReturnFacts ==
  ASSUME AttemptTypeOK, NEW p \in BOOLEAN, NEW kind \in Kinds, NEW late \in BOOLEAN,
         Return(p, kind, late)
  PROVE  AttemptTypeOK' /\ limit' = limit
BY DEF Return, AttemptTypeOK, Results

(* Every failure of the process is given a kind, and no status but that of *)
(* a kill is an OOM that docker inspect has not reported.                  *)
LEMMA FailureHasKind ==
  ASSUME NEW status, NEW timedOut, NEW oom
  PROVE  /\ classifyProcessFailure(status, timedOut, oom) \in Kinds
         /\ classifyProcessFailure(status, timedOut, oom) = "oom" => oom \/ status = 137
BY DEF classifyProcessFailure, Kinds

(* Classifying an attempt whose docker command has ended is a return.  It  *)
(* passes with status 0 only, and then what summary.json says decides.     *)
LEMMA FinishReturns ==
  ASSUME NEW status, NEW timedOut \in BOOLEAN, Finish(status, timedOut)
  PROVE  \E p \in BOOLEAN, kind \in Kinds, late \in BOOLEAN :
           /\ Return(p, kind, late)
           /\ p => status = 0
           /\ status = 0 /\ written = "ok" => p
           /\ kind = "oom" => status = 137 /\ late = timedOut
<1>1. CASE status = 0
  <2> DEFINE p == written # "none" /\ written # "reopen-failure"
                  /\ (strategy = "copytruncate" \/ written = "ok")
             kind == IF p THEN "" ELSE IF written = "damaged" THEN "integrity"
                     ELSE "functional"
  <2>1. p \in BOOLEAN /\ (written = "ok" => p)
    OBVIOUS
  <2>2. kind \in Kinds /\ kind # "oom"
    BY DEF Kinds
  <2>3. Return(p, kind, FALSE)
    BY <1>1, Zenon DEF Finish, classifySummary
  <2> HIDE DEF p, kind
  <2> QED
    BY <1>1, <2>1, <2>2, <2>3
<1>2. CASE status # 0
  <2> DEFINE kind == classifyProcessFailure(status, timedOut, FALSE)
  <2>1. Return(FALSE, kind, timedOut)
    BY <1>2, Zenon DEF Finish
  <2>2. kind \in Kinds /\ (kind = "oom" => status = 137)
    BY FailureHasKind
  <2> HIDE DEF kind
  <2> QED
    BY <1>2, <2>1, <2>2
<1> QED
  BY <1>1, <1>2

(* However the waiting ends, it is a return.  An attempt passes only when  *)
(* the container has ended with status 0; and what is called an OOM was    *)
(* reported, or killed, or cut off at the deadline, or cancelled.          *)
LEMMA AttemptEnds ==
  ASSUME AttemptExited \/ PolledOOM \/ Expired \/ Interrupted
  PROVE  /\ apc = "wait"
         /\ \E p \in BOOLEAN, kind \in Kinds, late \in BOOLEAN :
              /\ Return(p, kind, late)
              /\ p => exitCode = 0
              /\ kind = "oom" => oomKilled \/ exitCode = 137 \/ late \/ cancelled
<1>1. ASSUME AttemptExited
      PROVE  apc = "wait" /\ Finish(exitCode, FALSE)
  BY <1>1, Zenon DEF AttemptExited
<1>2. ASSUME PolledOOM
      PROVE  /\ apc = "wait" /\ oomKilled
             /\ \E late \in BOOLEAN, kind \in Kinds : Return(FALSE, kind, late)
  <2>1. PICK late \in BOOLEAN : Return(FALSE, classifyProcessFailure(137, late, TRUE), late)
    BY <1>2, Zenon DEF PolledOOM
  <2>2. classifyProcessFailure(137, late, TRUE) \in Kinds
    BY FailureHasKind
  <2> QED
    BY <1>2, <2>1, <2>2, Zenon DEF PolledOOM
<1>3. ASSUME NEW status \in RemovedStatus PROVE status = 0 => exitCode = 0
  BY <1>3 DEF RemovedStatus
<1>4. ASSUME Expired
      PROVE  apc = "wait" /\ \E status \in RemovedStatus : Finish(status, TRUE)
  BY <1>4, Zenon DEF Expired
<1>5. ASSUME Interrupted
      PROVE  apc = "wait" /\ cancelled /\ \E status \in RemovedStatus : Finish(status, FALSE)
  BY <1>5, Zenon DEF Interrupted
<1>6. CASE AttemptExited
  <2>1. Finish(exitCode, FALSE)
    BY <1>1, <1>6
  <2>2. PICK p \in BOOLEAN, kind \in Kinds, late \in BOOLEAN :
          /\ Return(p, kind, late)
          /\ p => exitCode = 0
          /\ exitCode = 0 /\ written = "ok" => p
          /\ kind = "oom" => exitCode = 137 /\ late = FALSE
    BY <2>1, FinishReturns
  <2> QED
    BY <1>1, <1>6, <2>2
<1>7. CASE PolledOOM
  BY <1>2, <1>7
<1>8. CASE Expired
  <2>1. PICK status \in RemovedStatus : Finish(status, TRUE)
    BY <1>4, <1>8
  <2>2. PICK p \in BOOLEAN, kind \in Kinds, late \in BOOLEAN :
          /\ Return(p, kind, late) /\ (p => status = 0)
          /\ kind = "oom" => late = TRUE
    BY <2>1, FinishReturns
  <2> QED
    BY <1>3, <1>4, <1>8, <2>2
<1>9. CASE Interrupted
  <2>1. PICK status \in RemovedStatus : Finish(status, FALSE)
    BY <1>5, <1>9
  <2>2. PICK p \in BOOLEAN, kind \in Kinds, late \in BOOLEAN :
          Return(p, kind, late) /\ (p => status = 0)
    BY <2>1, FinishReturns
  <2> QED
    BY <1>3, <1>5, <1>9, <2>2
<1> QED
  BY <1>6, <1>7, <1>8, <1>9

(* A step of the docker attempt keeps the types and the limit under test. *)
LEMMA AttemptFacts ==
  ASSUME AttemptTypeOK, AttemptNext
  PROVE  AttemptTypeOK' /\ limit' = limit
<1>1. ASSUME NotStarted PROVE AttemptTypeOK' /\ limit' = limit
  <2>1. PICK kind \in {"", "functional"} : Return(FALSE, kind, FALSE)
    BY <1>1, Zenon DEF NotStarted
  <2> QED
    BY <2>1, ReturnFacts DEF Kinds
<1>2. ASSUME Started \/ ContainerOOM \/ ContainerExits \/ ContainerHangs \/ Cancel
      PROVE  AttemptTypeOK' /\ limit' = limit
  <2> USE DEF AttemptTypeOK
  <2>1. ASSUME Started PROVE AttemptTypeOK' /\ limit' = limit
    BY <2>1 DEF Started
  <2>2. ASSUME ContainerOOM PROVE AttemptTypeOK' /\ limit' = limit
    BY <2>2 DEF ContainerOOM
  <2>3. ASSUME ContainerExits PROVE AttemptTypeOK' /\ limit' = limit
    BY <2>3 DEF ContainerExits
  <2>4. ASSUME ContainerHangs PROVE AttemptTypeOK' /\ limit' = limit
    BY <2>4 DEF ContainerHangs
  <2>5. ASSUME Cancel PROVE AttemptTypeOK' /\ limit' = limit
    BY <2>5 DEF Cancel
  <2> QED
    BY <1>2, <2>1, <2>2, <2>3, <2>4, <2>5
<1>3. ASSUME AttemptExited \/ PolledOOM \/ Expired \/ Interrupted
      PROVE  AttemptTypeOK' /\ limit' = limit
  <2>1. PICK p \in BOOLEAN, kind \in Kinds, late \in BOOLEAN : Return(p, kind, late)
    BY <1>3, AttemptEnds
  <2> QED
    BY <2>1, ReturnFacts
<1> QED
  BY <1>1, <1>2, <1>3, Zenon DEF AttemptNext

(* The search starts with nothing tested and nothing attempted. *)
LEMMA InitEstablishes == SweepInit => IndInv
<1> SUFFICES ASSUME SweepInit PROVE IndInv
  OBVIOUS
<1>1. TypeOK
  <2>1. AttemptTypeOK
    <3>1. result \in Results
      BY DEF SweepInit, AttemptInit, Results, Kinds
    <3>2. exitCode \in {-1, 0, 1, 137} /\ limit \in Int
      <4>1. exitCode = -1 /\ limit = 0
        BY Zenon DEF SweepInit, AttemptInit
      <4> QED
        BY <4>1
    <3>3. /\ strategy \in Strategies /\ need \in Needs
          /\ cancelled \in BOOLEAN /\ oomKilled \in BOOLEAN
          /\ apc = "idle" /\ container = "absent" /\ written = "none"
      BY DEF SweepInit, AttemptInit
    <3> QED
      BY <3>1, <3>2, <3>3 DEF AttemptTypeOK
  <2>2. /\ repetition \in 0..Repetitions /\ DOMAIN tested = {} /\ fail \in Int /\ pass \in Int
        /\ report \in [minimum : Int, greatest : Int, resolved : BOOLEAN]
        /\ attempts = <<>>
    BY SweepAssumption DEF SweepInit
  <2> QED
    BY <2>1, <2>2 DEF SweepInit, TypeOK
<1>2. Accepted /\ Bounds /\ Bracket /\ Decided /\ Current /\ Reported
  BY DEF SweepInit, Accepted, Bounds, Bracket, Decided, Current, Reported, UnderTest
<1>3. Measured /\ NoStray
  BY DEF SweepInit, Measured, NoStray
<1> QED
  BY <1>1, <1>2, <1>3 DEF IndInv

(* A step that leaves the search's own state alone, or that only stutters, *)
(* preserves everything but the types of the attempt.                      *)
LEMMA AttemptPreserves ==
  ASSUME IndInv, AttemptTypeOK', limit' = limit, UNCHANGED searchVars
  PROVE  IndInv'
<1> USE DEF searchVars
<1>1. TypeOK'
  BY DEF IndInv, TypeOK
<1>2. step' = step /\ lower' = lower /\ upper' = upper /\ (Valid' <=> Valid)
  BY DEF step, lower, upper, alignUp, alignDown, Valid
<1>3. (Accepted /\ Bounds /\ Decided)'
  BY <1>2 DEF IndInv, Accepted, Bounds, Decided, UnderTest
<1>4. Bracket'
  BY <1>2 DEF IndInv, Bracket, UnderTest, Multiple
<1>5. (Measured /\ Current /\ NoStray)'
  BY DEF IndInv, Measured, Current, NoStray, UnderTest, Passes, FailedOnce, Made, AttemptsAt
<1>6. Reported'
  BY <1>2 DEF IndInv, Reported
<1> QED
  BY <1>1, <1>3, <1>4, <1>5, <1>6 DEF IndInv

(* The aligned bounds depend on the configuration alone. *)
LEMMA RangeKept ==
  ASSUME range' = range
  PROVE  /\ step' = step /\ lower' = lower /\ upper' = upper
         /\ Valid' <=> Valid
         /\ \A l : Multiple(l)' <=> Multiple(l)
BY DEF step, lower, upper, alignUp, alignDown, Valid, Multiple

(* Giving up, before or between attempts or after the upper bound failed,  *)
(* reports no boundary.                                                    *)
LEMMA GivesUp ==
  ASSUME IndInv, spc # "done", spc' = "error",
         UNCHANGED <<attemptVars, range, phase, repetition, passed, tested, fail,
                     pass, attempts>>,
         report' \in [minimum : Int, greatest : Int, resolved : BOOLEAN],
         report'.resolved = report.resolved
  PROVE  IndInv'
<1> USE DEF attemptVars
<1>1. TypeOK'
  BY DEF IndInv, TypeOK, AttemptTypeOK
<1>2. (Accepted /\ Bounds /\ Bracket /\ Decided /\ NoStray)'
  BY DEF IndInv, Accepted, Bounds, Bracket, Decided, NoStray, UnderTest
<1>3. (Measured /\ Current)'
  BY DEF IndInv, Measured, Current, UnderTest, Passes, FailedOnce, AttemptsAt
<1>4. Reported'
  BY DEF IndInv, Reported
<1> QED
  BY <1>1, <1>2, <1>3, <1>4 DEF IndInv

(* Calling test keeps what is known of the limits tested before; a new     *)
(* limit has no attempts yet.                                              *)
LEMMA BeginsTest ==
  ASSUME IndInv, NEW l \in Int, Test(l), spc \in {"begin", "decide", "narrow"},
         phase' \in {"upper", "lower", "bisect"}, UNCHANGED <<fail, pass>>,
         Accepted', Bounds', Bracket'
  PROVE  IndInv'
<1>0. /\ limit' = l /\ repetition' = 0 /\ passed' = TRUE /\ spc' = "test"
      /\ UNCHANGED <<strategy, need, cancelled, apc, container, exitCode,
                     oomKilled, written, result, range, tested, attempts, report>>
  BY DEF Test
<1>1. TypeOK'
  <2>1. AttemptTypeOK'
    BY <1>0 DEF IndInv, TypeOK, AttemptTypeOK
  <2> QED
    BY <1>0, <2>1, SweepAssumption DEF IndInv, TypeOK
<1>2. Decided' /\ Reported'
  BY <1>0 DEF IndInv, Decided, Reported
<1>3. Measured'
  BY <1>0 DEF IndInv, Measured, Passes, FailedOnce, AttemptsAt
<1>4. NoStray'
  BY <1>0 DEF IndInv, NoStray, UnderTest
<1>5. Current'
  <2>1. l \notin DOMAIN tested => AttemptsAt(l)' = {}
    BY <1>0 DEF IndInv, NoStray, UnderTest, AttemptsAt
  <2>2. Made' = 0 /\ 1..0 = {}
    BY <1>0 DEF Made
  <2> QED
    BY <1>0, <2>1, <2>2 DEF Current, UnderTest
<1> QED
  BY <1>1, <1>2, <1>3, <1>4, <1>5 DEF IndInv

(* The attempts at other limits than the one just recorded are the same. *)
LEMMA RecordedAttempts ==
  ASSUME TypeOK, Record
  PROVE  /\ DOMAIN attempts' = DOMAIN attempts \cup {Len(attempts) + 1}
         /\ Len(attempts) + 1 \notin DOMAIN attempts
         /\ \A i \in DOMAIN attempts : attempts'[i] = attempts[i]
         /\ attempts'[Len(attempts) + 1].limit = limit
         /\ attempts'[Len(attempts) + 1].repetition = repetition
         /\ attempts'[Len(attempts) + 1].passed = result.passed
         /\ attempts'[Len(attempts) + 1].kind = result.kind
         /\ attempts'[Len(attempts) + 1].timedOut = result.timedOut
         /\ Len(attempts') = Len(attempts) + 1
         /\ DOMAIN attempts = 1..Len(attempts)
<1> DEFINE a == [limit |-> limit, repetition |-> repetition,
                 passed |-> result.passed, kind |-> result.kind,
                 timedOut |-> result.timedOut]
<1>1. attempts' = Append(attempts, a)
  BY DEF Record
<1>2. attempts \in Seq([limit : Int, repetition : 1..Repetitions,
                        passed : BOOLEAN, kind : Kinds, timedOut : BOOLEAN])
  BY DEF TypeOK
<1>3. a.limit = limit /\ a.repetition = repetition /\ a.passed = result.passed
      /\ a.kind = result.kind /\ a.timedOut = result.timedOut
  OBVIOUS
<1> HIDE DEF a
<1>4. /\ DOMAIN attempts = 1..Len(attempts) /\ Len(attempts) \in Nat
      /\ DOMAIN attempts' = 1..Len(attempts) + 1
      /\ \A i \in 1..Len(attempts) : attempts'[i] = attempts[i]
      /\ attempts'[Len(attempts) + 1] = a /\ Len(attempts') = Len(attempts) + 1
  BY <1>1, <1>2
<1> QED
  BY <1>3, <1>4

(* A finished attempt is recorded at the limit under test. *)
LEMMA RecordPreserves ==
  ASSUME IndInv, Record
  PROVE  IndInv'
<1> DEFINE n == Len(attempts) + 1
<1>0. /\ spc = "attempt" /\ spc' = "test" /\ apc' = "idle"
      /\ passed' = (passed /\ result.passed)
      /\ UNCHANGED <<strategy, need, cancelled, limit, container, exitCode,
                     oomKilled, written, result, range, phase, repetition, tested,
                     fail, pass, report>>
  BY DEF Record
<1>r. /\ DOMAIN attempts' = DOMAIN attempts \cup {n}
      /\ n \notin DOMAIN attempts
      /\ \A i \in DOMAIN attempts : attempts'[i] = attempts[i]
      /\ attempts'[n].limit = limit
      /\ attempts'[n].repetition = repetition
      /\ attempts'[n].passed = result.passed
  BY RecordedAttempts DEF IndInv
<1>t. result.passed \in BOOLEAN /\ passed \in BOOLEAN /\ repetition \in Int
  BY SweepAssumption DEF IndInv, TypeOK, AttemptTypeOK, Results
<1> HIDE DEF n
<1>a. AttemptsAt(limit)' = AttemptsAt(limit) \cup {n}
  BY <1>0, <1>r DEF AttemptsAt
<1>b. \A l : l # limit => AttemptsAt(l)' = AttemptsAt(l)
  BY <1>0, <1>r DEF AttemptsAt
<1>c. \A l : AttemptsAt(l) \subseteq DOMAIN attempts
  BY DEF AttemptsAt
<1>d. limit \notin DOMAIN tested /\ repetition >= 1
  BY <1>0 DEF IndInv, Current
<1>1. TypeOK'
  <2>1. AttemptTypeOK'
    BY <1>0 DEF IndInv, TypeOK, AttemptTypeOK
  <2>2. attempts' \in Seq([limit : Int, repetition : 1..Repetitions,
                           passed : BOOLEAN, kind : Kinds, timedOut : BOOLEAN])
    <3> DEFINE a == [limit |-> limit, repetition |-> repetition,
                     passed |-> result.passed, kind |-> result.kind,
                     timedOut |-> result.timedOut]
               R == [limit : Int, repetition : 1..Repetitions,
                     passed : BOOLEAN, kind : Kinds, timedOut : BOOLEAN]
    <3>1. a \in R
      BY <1>d, SweepAssumption DEF IndInv, TypeOK, AttemptTypeOK, Results
    <3>2. attempts' = Append(attempts, a) /\ attempts \in Seq(R)
      BY DEF Record, IndInv, TypeOK
    <3> HIDE DEF a, R
    <3>3. attempts' \in Seq(R)
      BY <3>1, <3>2
    <3> QED
      BY <3>3 DEF R
  <2> QED
    BY <1>0, <1>t, <2>1, <2>2 DEF IndInv, TypeOK
<1>2. (Accepted /\ Bounds /\ Bracket /\ Decided /\ Reported)'
  BY <1>0, <1>d, RangeKept DEF IndInv, Accepted, Bounds, Bracket, Decided, Reported, UnderTest
<1>3. Measured'
  <2> SUFFICES ASSUME NEW l \in DOMAIN tested
               PROVE  (IF tested[l] THEN Passes(l) ELSE FailedOnce(l))'
    BY <1>0 DEF Measured
  <2>1. l # limit /\ AttemptsAt(l)' = AttemptsAt(l)
    BY <1>b, <1>d
  <2>2. IF tested[l] THEN Passes(l) ELSE FailedOnce(l)
    BY DEF IndInv, Measured
  <2> QED
    BY <1>0, <1>r, <1>c, <2>1, <2>2 DEF Passes, FailedOnce
<1>4. NoStray'
  BY <1>0, <1>r DEF IndInv, NoStray, UnderTest
<1>5. Current'
  <2>1. /\ IF passed THEN \A i \in AttemptsAt(limit) : attempts[i].passed
                     ELSE FailedOnce(limit)
        /\ \A r \in 1..repetition - 1 :
              \E i \in AttemptsAt(limit) : attempts[i].repetition = r
    BY <1>0, <1>d DEF IndInv, Current, UnderTest, Made
  <2>2. IF passed' THEN \A i \in AttemptsAt(limit)' : attempts'[i].passed
                   ELSE FailedOnce(limit)'
    BY <1>0, <1>r, <1>a, <1>c, <1>t, <2>1 DEF FailedOnce
  <2>3. \A r \in 1..repetition : \E i \in AttemptsAt(limit)' : attempts'[i].repetition = r
    <3> TAKE r \in 1..repetition
    <3>1. CASE r = repetition
      BY <3>1, <1>a, <1>r
    <3>2. CASE r # repetition
      <4>1. PICK i \in AttemptsAt(limit) : attempts[i].repetition = r
        BY <1>t, <2>1, <3>2
      <4> QED
        BY <4>1, <1>a, <1>r, <1>c
    <3> QED
      BY <3>1, <3>2
  <2>4. Made' = repetition
    BY <1>0 DEF Made
  <2> QED
    BY <1>0, <1>d, <2>2, <2>3, <2>4 DEF Current, UnderTest, AttemptsAt, FailedOnce
<1> QED
  BY <1>1, <1>2, <1>3, <1>4, <1>5 DEF IndInv

(* An attempt is only made at a limit not tested before. *)
LEMMA AttemptStartPreserves ==
  ASSUME IndInv, Attempt
  PROVE  IndInv'
<1>0. /\ spc = "test" /\ spc' = "attempt" /\ apc' = "prepare"
      /\ ~(repetition = 0 /\ limit \in DOMAIN tested)
      /\ repetition < Repetitions /\ repetition' = repetition + 1
      /\ UNCHANGED <<strategy, need, cancelled, limit, container, exitCode,
                     oomKilled, written, result, range, phase, passed, tested,
                     fail, pass, attempts, report>>
  BY DEF Attempt, Untested
<1>r. repetition \in Nat /\ Repetitions \in Nat
  BY SweepAssumption DEF IndInv, TypeOK
<1>d. limit \notin DOMAIN tested
  BY <1>0, <1>r DEF IndInv, Current
<1>1. TypeOK'
  <2>1. AttemptTypeOK'
    BY <1>0 DEF IndInv, TypeOK, AttemptTypeOK
  <2> QED
    BY <1>0, <1>r, <2>1 DEF IndInv, TypeOK
<1>2. (Accepted /\ Bounds /\ Bracket /\ Decided /\ NoStray /\ Reported)'
  BY <1>0, <1>d, RangeKept
  DEF IndInv, Accepted, Bounds, Bracket, Decided, NoStray, Reported, UnderTest
<1>3. Measured'
  BY <1>0 DEF IndInv, Measured, Passes, FailedOnce, AttemptsAt
<1>4. Current'
  <2>1. Made' = Made
    BY <1>0, <1>r DEF Made
  <2>2. AttemptsAt(limit)' = AttemptsAt(limit)
    BY <1>0 DEF AttemptsAt
  <2> QED
    BY <1>0, <1>r, <1>d, <2>1, <2>2 DEF IndInv, Current, UnderTest, FailedOnce, AttemptsAt
<1> QED
  BY <1>1, <1>2, <1>3, <1>4 DEF IndInv

(* The last repetition decides the limit, and only that one. *)
LEMMA TestedPreserves ==
  ASSUME IndInv, Tested
  PROVE  IndInv'
<1>0. /\ spc = "test" /\ spc' = "decide"
      /\ ~(repetition = 0 /\ limit \in DOMAIN tested)
      /\ repetition = Repetitions
      /\ tested' = [l \in DOMAIN tested \cup {limit} |->
                       IF l = limit THEN passed ELSE tested[l]]
      /\ UNCHANGED <<strategy, need, cancelled, limit, apc, container, exitCode,
                     oomKilled, written, result>>
      /\ UNCHANGED <<range, phase, repetition, passed, fail, pass, attempts, report>>
  BY DEF Tested, Untested, attemptVars
<1>r. repetition \in Nat /\ repetition > 0 /\ passed \in BOOLEAN /\ limit \in Int
  BY <1>0, SweepAssumption DEF IndInv, TypeOK, AttemptTypeOK
<1>d. limit \notin DOMAIN tested
  BY <1>0, <1>r DEF IndInv, Current
<1>e. /\ DOMAIN tested' = DOMAIN tested \cup {limit}
      /\ tested'[limit] = passed
      /\ \A l \in DOMAIN tested : tested'[l] = tested[l]
  BY <1>0, <1>d
<1>1. TypeOK'
  <2>1. AttemptTypeOK'
    BY <1>0 DEF IndInv, TypeOK, AttemptTypeOK
  <2>2. DOMAIN tested' \subseteq Int /\ \A l \in DOMAIN tested' : tested'[l] \in BOOLEAN
    BY <1>e, <1>r DEF IndInv, TypeOK
  <2> QED
    BY <1>0, <2>1, <2>2 DEF IndInv, TypeOK
<1>2. (Accepted /\ Decided /\ Reported)'
  BY <1>0, <1>e, RangeKept DEF IndInv, Accepted, Decided, Reported
<1>3. Bounds'
  <2>1. CASE phase = "lower"
    <3>1. /\ limit = lower /\ upper \in DOMAIN tested /\ tested[upper]
          /\ DOMAIN tested \subseteq {lower, upper}
      BY <1>0, <2>1 DEF IndInv, Bounds, UnderTest
    <3> QED
      BY <1>0, <1>e, <2>1, <3>1, RangeKept DEF Bounds, UnderTest
  <2>2. CASE phase # "lower"
    BY <1>0, <1>e, <2>2, RangeKept DEF IndInv, Bounds, UnderTest
  <2> QED
    BY <2>1, <2>2
<1>4. Bracket'
  <2> SUFFICES ASSUME phase = "bisect" PROVE Bracket'
    BY <1>0 DEF Bracket
  <2>1. /\ fail \in DOMAIN tested /\ ~tested[fail] /\ Multiple(fail)
        /\ pass \in DOMAIN tested /\ tested[pass] /\ Multiple(pass)
        /\ lower <= fail /\ fail < pass /\ pass <= upper
        /\ \A l \in DOMAIN tested : l <= fail \/ l >= pass
        /\ fail < limit /\ limit < pass /\ Multiple(limit)
    BY <1>0 DEF IndInv, Bracket, UnderTest
  <2> QED
    BY <1>0, <1>e, <2>1, RangeKept DEF Bracket, UnderTest
<1>5. Measured'
  <2> SUFFICES ASSUME NEW l \in DOMAIN tested'
               PROVE  (IF tested[l] THEN Passes(l) ELSE FailedOnce(l))'
    BY DEF Measured
  <2>1. CASE l = limit
    <3>1. /\ IF passed THEN \A i \in AttemptsAt(limit) : attempts[i].passed
                       ELSE FailedOnce(limit)
          /\ \A r \in 1..Repetitions :
                \E i \in AttemptsAt(limit) : attempts[i].repetition = r
      BY <1>0, <1>d DEF IndInv, Current, UnderTest, Made
    <3> QED
      BY <1>0, <1>e, <2>1, <3>1 DEF Passes, FailedOnce, AttemptsAt
  <2>2. CASE l # limit
    BY <1>0, <1>e, <2>2 DEF IndInv, Measured, Passes, FailedOnce, AttemptsAt
  <2> QED
    BY <2>1, <2>2
<1>6. (Current /\ NoStray)'
  BY <1>0, <1>e DEF IndInv, Current, NoStray, UnderTest
<1> QED
  BY <1>1, <1>2, <1>3, <1>4, <1>5, <1>6 DEF IndInv

(* A step that decides what comes next changes neither what was tested nor *)
(* the attempts.                                                           *)
LEMMA DecisionKeeps ==
  ASSUME IndInv, spc' \in {"decide", "narrow", "done"}, spc # "attempt", spc # "error",
         spc = "test" => limit \in DOMAIN tested,
         phase' \in {"upper", "lower", "bisect"}, passed' \in BOOLEAN,
         fail' \in Int, pass' \in Int,
         UNCHANGED attemptVars, UNCHANGED <<range, repetition, tested, attempts>>,
         report' \in [minimum : Int, greatest : Int, resolved : BOOLEAN]
  PROVE  (TypeOK /\ Measured /\ Current /\ NoStray)'
<1> USE DEF attemptVars
<1>1. TypeOK'
  <2>1. AttemptTypeOK'
    BY DEF IndInv, TypeOK, AttemptTypeOK
  <2> QED
    BY <2>1 DEF IndInv, TypeOK
<1>2. Measured'
  BY DEF IndInv, Measured, Passes, FailedOnce, AttemptsAt
<1>3. (Current /\ NoStray)'
  BY DEF IndInv, Current, NoStray, UnderTest
<1> QED
  BY <1>1, <1>2, <1>3

(* A step of the search preserves the invariant. *)
LEMMA SearchPreserves ==
  ASSUME IndInv, SearchNext
  PROVE  IndInv'
<1>t. TypeOK /\ fail \in Int /\ pass \in Int /\ passed \in BOOLEAN /\ limit \in Int
      /\ report \in [minimum : Int, greatest : Int, resolved : BOOLEAN]
      /\ phase \in {"upper", "lower", "bisect"}
  BY DEF IndInv, TypeOK, AttemptTypeOK
<1>1. ASSUME Reject PROVE IndInv'
  BY <1>1, <1>t, GivesUp DEF Reject
<1>2. ASSUME TestUpper PROVE IndInv'
  <2>0. spc = "begin" /\ Valid /\ lower <= upper /\ Test(upper)
        /\ UNCHANGED <<phase, fail, pass>>
    BY <1>2 DEF TestUpper
  <2>1. limit' = upper /\ spc' = "test" /\ UNCHANGED <<range, tested>>
    BY <2>0 DEF Test
  <2>2. phase = "upper" /\ DOMAIN tested = {}
    BY <2>0 DEF IndInv, Bounds
  <2>3. (Accepted /\ Bounds /\ Bracket)'
    BY <2>0, <2>1, <2>2, RangeKept DEF Accepted, Bounds, Bracket, UnderTest
  <2>4. upper \in Int
    BY <1>t, <2>0, BoundsAreMultiples
  <2> QED
    BY <1>t, <2>0, <2>3, <2>4, BeginsTest
<1>3. ASSUME Cached PROVE IndInv'
  <2>0. /\ spc = "test" /\ repetition = 0 /\ limit \in DOMAIN tested
        /\ passed' = tested[limit] /\ spc' = "decide"
        /\ UNCHANGED attemptVars /\ limit' = limit
        /\ UNCHANGED <<range, phase, repetition, tested, fail, pass, attempts, report>>
    BY <1>3 DEF Cached, attemptVars
  <2>1. passed' \in BOOLEAN
    BY <1>t, <2>0 DEF TypeOK
  <2>2. (TypeOK /\ Measured /\ Current /\ NoStray)'
    BY <1>t, <2>0, <2>1, DecisionKeeps
  <2>3. phase = "lower"
    BY <1>t, <2>0 DEF IndInv, Bounds, Bracket, UnderTest
  <2>4. (Accepted /\ Bounds /\ Bracket /\ Decided /\ Reported)'
    BY <2>0, <2>3, RangeKept
    DEF IndInv, Accepted, Bounds, Bracket, Decided, Reported, UnderTest
  <2> QED
    BY <2>2, <2>4 DEF IndInv
<1>4. ASSUME Abandon PROVE IndInv'
  BY <1>4, <1>t, GivesUp DEF Abandon, Untested
<1>5. ASSUME Attempt PROVE IndInv'
  BY <1>5, AttemptStartPreserves
<1>6. ASSUME Record PROVE IndInv'
  BY <1>6, RecordPreserves
<1>7. ASSUME Tested PROVE IndInv'
  BY <1>7, TestedPreserves
<1>8. ASSUME UpperFailed PROVE IndInv'
  <2>0. /\ spc = "decide" /\ spc' = "error"
        /\ report' = [report EXCEPT !.greatest = upper]
        /\ UNCHANGED <<attemptVars, range, phase, repetition, passed, tested, fail,
                       pass, attempts>>
    BY <1>8 DEF UpperFailed
  <2>1. upper \in Int
    BY <1>t, <2>0, BoundsAreMultiples DEF IndInv, Accepted
  <2>2. /\ report' \in [minimum : Int, greatest : Int, resolved : BOOLEAN]
        /\ report'.resolved = report.resolved
    BY <1>t, <2>0, <2>1
  <2> QED
    BY <2>0, <2>2, GivesUp
<1>9. ASSUME TestLower PROVE IndInv'
  <2>0. /\ spc = "decide" /\ phase = "upper" /\ passed /\ phase' = "lower"
        /\ Test(lower) /\ UNCHANGED <<fail, pass>>
    BY <1>9 DEF TestLower
  <2>1. limit' = lower /\ spc' = "test" /\ UNCHANGED <<range, tested>>
    BY <2>0 DEF Test
  <2>2. Valid /\ lower <= upper /\ limit = upper
        /\ upper \in DOMAIN tested /\ tested[upper]
    BY <2>0 DEF IndInv, Accepted, Bounds, Decided
  <2>3. DOMAIN tested \subseteq {upper}
    BY <2>0, <2>2 DEF IndInv, Bounds
  <2>4. (Accepted /\ Bounds /\ Bracket)'
    BY <2>0, <2>1, <2>2, <2>3, RangeKept DEF Accepted, Bounds, Bracket, UnderTest
  <2>5. lower \in Int
    BY <1>t, <2>2, BoundsAreMultiples
  <2> QED
    BY <2>0, <2>4, <2>5, BeginsTest
<1>10. ASSUME LowerPassed PROVE IndInv'
  <2>0. /\ spc = "decide" /\ phase = "lower" /\ spc' = "done"
        /\ report' = [report EXCEPT !.minimum = lower]
        /\ UNCHANGED attemptVars /\ limit' = limit
        /\ UNCHANGED <<range, phase, repetition, passed, tested, fail, pass, attempts>>
    BY <1>10 DEF LowerPassed, attemptVars
  <2>1. Valid /\ lower \in Int
    BY <1>t, <2>0, BoundsAreMultiples DEF IndInv, Accepted
  <2>2. /\ report' \in [minimum : Int, greatest : Int, resolved : BOOLEAN]
        /\ report'.resolved = report.resolved
    BY <1>t, <2>0, <2>1
  <2>3. (TypeOK /\ Measured /\ Current /\ NoStray)'
    BY <1>t, <2>0, <2>2, DecisionKeeps
  <2>4. (Accepted /\ Bounds /\ Bracket /\ Decided /\ Reported)'
    BY <2>0, <2>2, RangeKept
    DEF IndInv, Accepted, Bounds, Bracket, Decided, Reported, UnderTest
  <2> QED
    BY <2>3, <2>4 DEF IndInv
<1>11. ASSUME LowerFailed PROVE IndInv'
  <2>0. /\ spc = "decide" /\ phase = "lower" /\ ~passed
        /\ spc' = "narrow" /\ phase' = "bisect" /\ fail' = lower /\ pass' = upper
        /\ UNCHANGED attemptVars /\ limit' = limit
        /\ UNCHANGED <<range, repetition, passed, tested, attempts, report>>
    BY <1>11 DEF LowerFailed, attemptVars
  <2>1. /\ Valid /\ lower <= upper /\ limit = lower
        /\ upper \in DOMAIN tested /\ tested[upper]
        /\ lower \in DOMAIN tested /\ ~tested[lower]
        /\ DOMAIN tested \subseteq {lower, upper}
    BY <2>0 DEF IndInv, Accepted, Bounds, Decided
  <2>2. lower \in Int /\ upper \in Int /\ Multiple(lower) /\ Multiple(upper)
    BY <1>t, <2>1, BoundsAreMultiples
  <2>3. lower < upper
    BY <2>1, <2>2
  <2>4. (TypeOK /\ Measured /\ Current /\ NoStray)'
    BY <1>t, <2>0, <2>2, DecisionKeeps
  <2>5. Bracket'
    <3>1. Multiple(fail)' /\ Multiple(pass)'
      BY <2>0, <2>2, RangeKept DEF Multiple
    <3>2. /\ lower <= fail' /\ fail' < pass' /\ pass' <= upper
          /\ \A l \in DOMAIN tested : l <= fail' \/ l >= pass'
      BY <2>0, <2>1, <2>2, <2>3
    <3> QED
      BY <2>0, <2>1, <3>1, <3>2, RangeKept DEF Bracket, UnderTest
  <2>6. (Accepted /\ Bounds /\ Decided /\ Reported)'
    BY <2>0, <2>1, RangeKept DEF IndInv, Accepted, Bounds, Decided, Reported, UnderTest
  <2> QED
    BY <2>4, <2>5, <2>6 DEF IndInv
<1>12. ASSUME TestMiddle PROVE IndInv'
  <2>0. /\ spc = "narrow" /\ pass - fail > step /\ Test(Middle)
        /\ UNCHANGED <<phase, fail, pass>>
    BY <1>12 DEF TestMiddle
  <2>1. limit' = Middle /\ spc' = "test" /\ UNCHANGED <<range, tested>>
    BY <2>0 DEF Test
  <2>2. /\ phase = "bisect" /\ Valid /\ lower <= upper
        /\ fail \in DOMAIN tested /\ ~tested[fail] /\ Multiple(fail)
        /\ pass \in DOMAIN tested /\ tested[pass] /\ Multiple(pass)
        /\ lower <= fail /\ fail < pass /\ pass <= upper
        /\ \A l \in DOMAIN tested : l <= fail \/ l >= pass
    BY <2>0 DEF IndInv, Accepted, Bounds, Bracket
  <2>3. Middle \in Int /\ fail < Middle /\ Middle < pass /\ Multiple(Middle)
    BY <1>t, <2>0, <2>2, MiddleInside
  <2>4. Middle \notin DOMAIN tested
    BY <1>t, <2>2, <2>3
  <2>5. (Accepted /\ Bounds)'
    BY <2>0, <2>1, <2>2, RangeKept DEF Accepted, Bounds, UnderTest
  <2>6. Bracket'
    BY <2>0, <2>1, <2>2, <2>3, <2>4, RangeKept DEF Bracket, UnderTest
  <2> QED
    BY <1>t, <2>0, <2>3, <2>5, <2>6, BeginsTest
<1>13. ASSUME MiddlePassed \/ MiddleFailed PROVE IndInv'
  <2>0. /\ spc = "decide" /\ phase = "bisect" /\ spc' = "narrow"
        /\ \/ passed /\ pass' = limit /\ fail' = fail
           \/ ~passed /\ fail' = limit /\ pass' = pass
        /\ UNCHANGED attemptVars /\ limit' = limit
        /\ UNCHANGED <<range, phase, repetition, passed, tested, attempts, report>>
    BY <1>13 DEF MiddlePassed, MiddleFailed, attemptVars
  <2>1. fail' \in Int /\ pass' \in Int
    BY <1>t, <2>0
  <2>2. (TypeOK /\ Measured /\ Current /\ NoStray)'
    BY <1>t, <2>0, <2>1, DecisionKeeps
  <2>3. (Accepted /\ Bounds /\ Decided /\ Reported)'
    BY <2>0, RangeKept DEF IndInv, Accepted, Bounds, Decided, Reported, UnderTest
  <2>4. Bracket'
    <3>1. /\ fail \in DOMAIN tested /\ ~tested[fail] /\ Multiple(fail)
          /\ pass \in DOMAIN tested /\ tested[pass] /\ Multiple(pass)
          /\ lower <= fail /\ fail < pass /\ pass <= upper
          /\ \A l \in DOMAIN tested : l <= fail \/ l >= pass \/ l = limit
          /\ fail < limit /\ limit < pass /\ Multiple(limit)
          /\ limit \in DOMAIN tested /\ passed = tested[limit]
          /\ Valid
      BY <2>0 DEF IndInv, Bracket, Decided, Accepted
    <3>2. lower \in Int /\ upper \in Int /\ DOMAIN tested \subseteq Int
      BY <1>t, <3>1, BoundsAreMultiples DEF TypeOK
    <3>3. /\ fail' \in DOMAIN tested /\ ~tested[fail'] /\ Multiple(fail')
          /\ pass' \in DOMAIN tested /\ tested[pass'] /\ Multiple(pass')
      BY <2>0, <3>1
    <3>4. /\ lower <= fail' /\ fail' < pass' /\ pass' <= upper
          /\ \A l \in DOMAIN tested : l <= fail' \/ l >= pass'
      BY <1>t, <2>0, <3>1, <3>2
    <3>5. Multiple(fail)' /\ Multiple(pass)'
      BY <2>0, <3>3, RangeKept DEF Multiple
    <3> QED
      BY <2>0, <3>3, <3>4, <3>5, RangeKept DEF Bracket, UnderTest
  <2> QED
    BY <2>2, <2>3, <2>4 DEF IndInv
<1>14. ASSUME Resolve PROVE IndInv'
  <2>0. /\ spc = "narrow" /\ spc' = "done" /\ pass - fail <= step
        /\ report' = [minimum |-> pass, greatest |-> fail, resolved |-> TRUE]
        /\ UNCHANGED attemptVars /\ limit' = limit
        /\ UNCHANGED <<range, phase, repetition, passed, tested, fail, pass, attempts>>
    BY <1>14 DEF Resolve, attemptVars
  <2>1. report' \in [minimum : Int, greatest : Int, resolved : BOOLEAN]
    BY <1>t, <2>0
  <2>2. (TypeOK /\ Measured /\ Current /\ NoStray)'
    BY <1>t, <2>0, <2>1, DecisionKeeps
  <2>3. phase = "bisect"
    BY <2>0 DEF IndInv, Bounds
  <2>4. Reported'
    BY <2>0, <2>3, RangeKept DEF Reported
  <2>5. (Accepted /\ Bounds /\ Bracket /\ Decided)'
    BY <2>0, <2>3, RangeKept DEF IndInv, Accepted, Bounds, Bracket, Decided, UnderTest
  <2> QED
    BY <2>2, <2>4, <2>5 DEF IndInv
<1> QED
  BY <1>1, <1>2, <1>3, <1>4, <1>5, <1>6, <1>7, <1>8, <1>9, <1>10, <1>11, <1>12,
     <1>13, <1>14, Zenon DEF SearchNext

(* The invariant is inductive. *)
LEMMA NextPreserves == IndInv /\ [Next]_vars => IndInv'
<1> SUFFICES ASSUME IndInv, [Next]_vars PROVE IndInv'
  OBVIOUS
<1>1. ASSUME SearchNext PROVE IndInv'
  BY <1>1, SearchPreserves
<1>2. ASSUME AttemptNext, UNCHANGED searchVars PROVE IndInv'
  <2>1. AttemptTypeOK
    BY DEF IndInv, TypeOK
  <2>2. AttemptTypeOK' /\ limit' = limit
    BY <1>2, <2>1, AttemptFacts
  <2> QED
    BY <1>2, <2>2, AttemptPreserves
<1>3. ASSUME UNCHANGED vars PROVE IndInv'
  <2>1. UNCHANGED attemptVars /\ UNCHANGED searchVars
    BY <1>3 DEF vars
  <2>2. AttemptTypeOK' /\ limit' = limit
    BY <2>1 DEF IndInv, TypeOK, AttemptTypeOK, attemptVars
  <2> QED
    BY <2>1, <2>2, AttemptPreserves
<1> QED
  BY <1>1, <1>2, <1>3, Zenon DEF Next

(* What the search knows at every step: the bracket, and the attempts      *)
(* behind every tested limit.                                              *)
THEOREM Inductive == Spec => []IndInv
BY InitEstablishes, NextPreserves, PTL DEF Spec

(* Every variable of the search and of the attempt keeps its type; no      *)
(* limit is tried more often than --repetitions says.                      *)
THEOREM SweepTypeCorrect == Spec => []TypeOK
<1>1. IndInv => TypeOK
  BY DEF IndInv
<1> QED
  BY <1>1, Inductive, PTL

(* Every limit the bisection probes is aligned, untested and strictly      *)
(* inside the bracket, whose ends have failed and passed: search.go's loop *)
(* narrows the bracket each time around, for every range and step.         *)
THEOREM ProbesShrinkBracket == Spec => []ProbesAreNew
<1>1. IndInv => ProbesAreNew
  <2> SUFFICES ASSUME IndInv, phase = "bisect", ~Returned
               PROVE  /\ fail \in DOMAIN tested /\ ~tested[fail]
                      /\ pass \in DOMAIN tested /\ tested[pass]
                      /\ spc \in {"test", "attempt"}
                           => fail < limit /\ limit < pass /\ limit \in Aligned
                              /\ limit \notin DOMAIN tested
    BY DEF ProbesAreNew
  <2>1. /\ fail \in DOMAIN tested /\ ~tested[fail]
        /\ pass \in DOMAIN tested /\ tested[pass]
    BY DEF IndInv, Bracket, Returned
  <2>2. ASSUME spc \in {"test", "attempt"}
        PROVE  fail < limit /\ limit < pass /\ limit \in Aligned
               /\ limit \notin DOMAIN tested
    <3>1. /\ fail < limit /\ limit < pass /\ limit \notin DOMAIN tested
          /\ Multiple(limit) /\ lower <= fail /\ pass <= upper /\ Valid
      BY <2>2 DEF IndInv, Bracket, Accepted, UnderTest
    <3>2. step \in Int /\ step > 0 /\ lower \in Int /\ upper \in Int
      BY <3>1, BoundsAreMultiples DEF IndInv
    <3>3. limit % step = 0
      BY <3>1, <3>2, NoRemainder DEF Multiple
    <3>4. fail \in Int /\ pass \in Int /\ limit \in Int
      BY DEF IndInv, TypeOK, AttemptTypeOK
    <3>5. limit \in lower..upper
      BY <3>1, <3>2, <3>4
    <3> QED
      BY <3>1, <3>3, <3>5 DEF Aligned
  <2> QED
    BY <2>1, <2>2
<1> QED
  BY <1>1, Inductive, PTL

(* A boundary reported as resolved is backed by the recorded attempts: one *)
(* step wide, every repetition of the minimum made and passed, a failure   *)
(* recorded just below it, whatever timeouts, cancellations or failures    *)
(* the attempts met.                                                       *)
THEOREM BoundaryIsMeasured == Spec => []BoundaryMeasured
<1>1. IndInv => BoundaryMeasured
  <2> SUFFICES ASSUME IndInv, report.resolved
               PROVE  /\ report.minimum = report.greatest + step
                      /\ Passes(report.minimum)
                      /\ FailedOnce(report.greatest)
    BY DEF BoundaryMeasured, Passes, FailedOnce
  <2>1. /\ report.minimum = pass /\ report.greatest = fail /\ pass - fail <= step
        /\ spc = "done" /\ phase = "bisect"
    BY DEF IndInv, Reported
  <2>2. /\ fail \in DOMAIN tested /\ ~tested[fail] /\ Multiple(fail)
        /\ pass \in DOMAIN tested /\ tested[pass] /\ Multiple(pass)
        /\ fail < pass /\ Valid
    BY <2>1 DEF IndInv, Bracket, Accepted
  <2>3. Passes(pass) /\ FailedOnce(fail)
    BY <2>2 DEF IndInv, Measured
  <2>4. pass = fail + step
    <3>1. step \in Int /\ step > 0
      BY <2>2, BoundsAreMultiples DEF IndInv
    <3>2. PICK a \in Int, b \in Int : fail = a * step /\ pass = b * step
      BY <2>2 DEF Multiple
    <3> QED
      BY <2>1, <2>2, <3>1, <3>2, Adjacent
  <2> QED
    BY <2>1, <2>3, <2>4
<1> QED
  BY <1>1, Inductive, PTL
-----------------------------------------------------------------------------
(* An attempt is under way only while Search waits for it.  What the       *)
(* kernel killed had too little memory, and what ended well had enough;    *)
(* what is about to be called an OOM had too little or was cut off.        *)
Truthful ==
  /\ apc = "wait" => /\ oomKilled \/ exitCode = 137 => limit < need
                     /\ exitCode = 0 => limit >= need
  /\ apc = "returned" => /\ result.kind = "oom" => limit < need \/ result.timedOut \/ cancelled
                         /\ result.passed => limit >= need

(* A cancelled attempt is the last: the next one is not begun, because the *)
(* context is looked at first.                                             *)
Explained ==
  \A i \in DOMAIN attempts :
    /\ attempts[i].kind = "oom"
         => \/ attempts[i].limit < need \/ attempts[i].timedOut
            \/ cancelled /\ i = Len(attempts) /\ spc # "attempt"
    /\ attempts[i].passed => attempts[i].limit >= need

OOMInv ==
  /\ apc # "idle" => spc = "attempt"
  /\ Truthful
  /\ Explained

(* No step of an attempt passes, or calls an OOM, anything else.           *)
LEMMA AttemptOOM ==
  ASSUME AttemptTypeOK, Truthful, AttemptNext
  PROVE  /\ Truthful' /\ need' = need /\ (apc' # "idle" => apc # "idle")
         /\ cancelled => cancelled'
<1> DEFINE Kept == /\ Truthful' /\ need' = need /\ (apc' # "idle" => apc # "idle")
                   /\ cancelled => cancelled'
<1>1. ASSUME NotStarted PROVE Kept
  <2>1. PICK kind \in {"", "functional"} : Return(FALSE, kind, FALSE) /\ apc = "prepare"
    BY <1>1, Zenon DEF NotStarted
  <2> QED
    BY <2>1 DEF Return, Truthful
<1>2. ASSUME Started PROVE Kept
  BY <1>2 DEF Started, AttemptTypeOK, Truthful
<1>3. ASSUME ContainerOOM PROVE Kept
  BY <1>3 DEF ContainerOOM, AttemptTypeOK, Truthful
<1>4. ASSUME ContainerExits PROVE Kept
  BY <1>4 DEF ContainerExits, AttemptTypeOK, Truthful
<1>5. ASSUME ContainerHangs PROVE Kept
  BY <1>5 DEF ContainerHangs, AttemptTypeOK, Truthful
<1>6. ASSUME Cancel PROVE Kept
  BY <1>6 DEF Cancel, AttemptTypeOK, Truthful
<1>7. ASSUME AttemptExited \/ PolledOOM \/ Expired \/ Interrupted PROVE Kept
  <2>1. PICK p \in BOOLEAN, kind \in Kinds, late \in BOOLEAN :
          /\ Return(p, kind, late) /\ apc = "wait" /\ (p => exitCode = 0)
          /\ kind = "oom" => oomKilled \/ exitCode = 137 \/ late \/ cancelled
    BY <1>7, AttemptEnds
  <2> QED
    BY <2>1 DEF Return, Truthful
<1> QED
  BY <1>1, <1>2, <1>3, <1>4, <1>5, <1>6, <1>7, Zenon DEF AttemptNext

(* A step of the search carries what the attempt says into the report.     *)
LEMMA SearchOOM ==
  ASSUME IndInv, OOMInv, SearchNext
  PROVE  OOMInv'
<1>1. ASSUME Record PROVE OOMInv'
  <2>1. /\ apc = "returned" /\ apc' = "idle" /\ need' = need /\ cancelled' = cancelled
        /\ spc = "attempt" /\ spc' = "test"
    BY <1>1 DEF Record
  <2>2. /\ DOMAIN attempts' = DOMAIN attempts \cup {Len(attempts) + 1}
        /\ Len(attempts') = Len(attempts) + 1
        /\ \A i \in DOMAIN attempts : attempts'[i] = attempts[i]
        /\ attempts'[Len(attempts) + 1].limit = limit
        /\ attempts'[Len(attempts) + 1].passed = result.passed
        /\ attempts'[Len(attempts) + 1].kind = result.kind
        /\ attempts'[Len(attempts) + 1].timedOut = result.timedOut
    BY <1>1, RecordedAttempts DEF IndInv
  <2>3. /\ result.kind = "oom" => limit < need \/ result.timedOut \/ cancelled
        /\ result.passed => limit >= need
    BY <2>1 DEF OOMInv, Truthful
  <2>4. Explained'
    BY <2>1, <2>2, <2>3 DEF OOMInv, Explained
  <2> QED
    BY <2>1, <2>4 DEF OOMInv, Truthful
<1>2. ASSUME Attempt PROVE OOMInv'
  BY <1>2 DEF Attempt, OOMInv, Truthful, Explained
<1>3. ASSUME spc # "attempt", spc' # "attempt", apc' = apc,
             UNCHANGED <<need, cancelled, attempts>>
      PROVE  OOMInv'
  BY <1>3 DEF OOMInv, Truthful, Explained
<1>4. ASSUME Reject \/ Cached \/ Abandon \/ Tested \/ UpperFailed \/ LowerPassed
             \/ LowerFailed \/ MiddlePassed \/ MiddleFailed \/ Resolve
      PROVE  OOMInv'
  <2>1. /\ spc # "attempt" /\ spc' # "attempt" /\ apc' = apc
        /\ UNCHANGED <<need, cancelled, attempts>>
    BY <1>4 DEF Reject, Cached, Abandon, Tested, UpperFailed, LowerPassed, LowerFailed,
                MiddlePassed, MiddleFailed, Resolve, Untested, attemptVars
  <2> QED
    BY <1>3, <2>1
<1>5. ASSUME TestUpper \/ TestLower \/ TestMiddle PROVE OOMInv'
  <2>1. /\ spc # "attempt" /\ spc' # "attempt" /\ apc' = apc
        /\ UNCHANGED <<need, cancelled, attempts>>
    BY <1>5 DEF TestUpper, TestLower, TestMiddle, Test
  <2> QED
    BY <1>3, <2>1
<1> QED
  BY <1>1, <1>2, <1>4, <1>5, Zenon DEF SearchNext

(* Every step keeps what is known of the attempts.                         *)
LEMMA NextOOM == IndInv /\ OOMInv /\ [Next]_vars => OOMInv'
<1> SUFFICES ASSUME IndInv, OOMInv, [Next]_vars PROVE OOMInv'
  OBVIOUS
<1>1. ASSUME SearchNext PROVE OOMInv'
  BY <1>1, SearchOOM
<1>2. ASSUME AttemptNext, UNCHANGED searchVars PROVE OOMInv'
  <2>1. AttemptTypeOK /\ Truthful
    BY DEF IndInv, TypeOK, OOMInv
  <2>2. /\ Truthful' /\ need' = need /\ (apc' # "idle" => apc # "idle")
        /\ cancelled => cancelled'
    BY <1>2, <2>1, AttemptOOM
  <2> QED
    BY <1>2, <2>2 DEF OOMInv, Explained, searchVars
<1>3. ASSUME UNCHANGED vars PROVE OOMInv'
  BY <1>3 DEF vars, attemptVars, searchVars, OOMInv, Truthful, Explained
<1> QED
  BY <1>1, <1>2, <1>3, Zenon DEF Next

(* At every step, what has been or is about to be recorded is explained.   *)
LEMMA OOMInvariant == Spec => []OOMInv
<1>1. SweepInit => OOMInv
  <2> SUFFICES ASSUME SweepInit PROVE OOMInv
    OBVIOUS
  <2>1. apc = "idle" /\ attempts = <<>>
    BY Zenon DEF SweepInit, AttemptInit
  <2> QED
    BY <2>1 DEF OOMInv, Truthful, Explained
<1> QED
  BY <1>1, NextOOM, Inductive, PTL DEF Spec

(* classifyProcessFailure's "oom" means too little memory, or the attempt  *)
(* was cut off and the report shows it: the status of the docker command   *)
(* whose container the sweep itself removes may be that of an OOM kill,    *)
(* but then the attempt is marked as timed out, or it is the last of a     *)
(* sweep that was cancelled.                                               *)
THEOREM OOMIsExplained == Spec => []OOMMeansMemory
<1>1. OOMInv => OOMMeansMemory
  BY DEF OOMInv, Explained, OOMMeansMemory, CutOff
<1> QED
  BY <1>1, OOMInvariant, PTL

-----------------------------------------------------------------------------
(* Where Search returns without a resolved boundary, the lower bound has   *)
(* passed.                                                                 *)
LowerBound ==
  spc = "done" /\ ~report.resolved
    => report.minimum = lower /\ lower \in DOMAIN tested /\ tested[lower]

LEMMA LowerBoundKept == IndInv /\ LowerBound /\ [Next]_vars => LowerBound'
<1> SUFFICES ASSUME IndInv, LowerBound, [Next]_vars, spc' = "done" PROVE LowerBound'
  BY DEF LowerBound
<1>1. CASE LowerPassed
  <2>1. /\ spc = "decide" /\ phase = "lower" /\ passed /\ UNCHANGED <<range, tested>>
        /\ report' = [report EXCEPT !.minimum = lower]
    BY <1>1 DEF LowerPassed
  <2>2. limit = lower /\ lower \in DOMAIN tested /\ tested[lower]
    BY <2>1 DEF IndInv, Bounds, Decided
  <2>3. report'.minimum = lower
    BY <2>1 DEF IndInv, TypeOK
  <2> QED
    BY <2>1, <2>2, <2>3, RangeKept DEF LowerBound
<1>2. CASE Resolve
  BY <1>2 DEF Resolve, LowerBound
<1>3. CASE UNCHANGED searchVars
  BY <1>3, RangeKept DEF searchVars, LowerBound
<1>4. CASE SearchNext /\ ~LowerPassed /\ ~Resolve
  BY <1>4
  DEF SearchNext, Reject, TestUpper, Cached, Abandon, Attempt, Record, Tested, UpperFailed,
      TestLower, LowerFailed, TestMiddle, MiddlePassed, MiddleFailed, Test
<1> QED
  BY <1>1, <1>2, <1>3, <1>4 DEF Next, vars

(* A search errs on one side only, and its report shows it, whatever the   *)
(* attempts meet and whenever it is cancelled.  The minimum is enough,     *)
(* since every recorded pass is.  And a failing end that is enough too was *)
(* brought about by an attempt that was no OOM kill, or was cut off.       *)
THEOREM BoundaryOnlyErrsHigh == Spec => []BoundaryErrsHigh
<1>1. IndInv /\ OOMInv /\ LowerBound /\ BoundaryMeasured => BoundaryErrsHigh
  <2> SUFFICES ASSUME IndInv, OOMInv, LowerBound, BoundaryMeasured PROVE BoundaryErrsHigh
    OBVIOUS
  <2>0. /\ need \in Int /\ report.minimum \in Int /\ report.greatest \in Int
        /\ Repetitions \in Nat /\ 1 \in 1..Repetitions
    BY SweepAssumption DEF IndInv, TypeOK, AttemptTypeOK
  <2>1. ASSUME NEW l \in Int, Passes(l) PROVE need <= l
    <3>1. PICK i \in AttemptsAt(l) : attempts[i].passed
      BY <2>0, <2>1 DEF Passes
    <3>2. i \in DOMAIN attempts /\ attempts[i].limit = l
      BY DEF AttemptsAt
    <3> QED
      BY <2>0, <3>1, <3>2 DEF OOMInv, Explained
  <2>2. ASSUME spc = "done" PROVE need <= report.minimum
    <3>1. CASE report.resolved
      <4>1. Passes(report.minimum)
        BY <3>1 DEF BoundaryMeasured, Passes
      <4> QED
        BY <2>0, <2>1, <4>1
    <3>2. CASE ~report.resolved
      <4>1. report.minimum = lower /\ lower \in DOMAIN tested /\ tested[lower]
        BY <2>2, <3>2 DEF LowerBound
      <4>2. Passes(report.minimum)
        BY <4>1 DEF IndInv, Measured
      <4> QED
        BY <2>0, <2>1, <4>2
    <3> QED
      BY <3>1, <3>2
  <2>3. ASSUME report.resolved, need <= report.greatest
        PROVE  \E i \in AttemptsAt(report.greatest) :
                 ~attempts[i].passed /\ (attempts[i].kind # "oom" \/ CutOff(i))
    <3>1. PICK i \in AttemptsAt(report.greatest) : ~attempts[i].passed
      BY <2>3 DEF BoundaryMeasured
    <3>2. i \in DOMAIN attempts /\ attempts[i].limit = report.greatest
      BY DEF AttemptsAt
    <3>3. ~(attempts[i].limit < need)
      BY <2>0, <2>3, <3>2
    <3>4. attempts[i].kind # "oom" \/ CutOff(i)
      BY <3>2, <3>3 DEF OOMInv, Explained, CutOff
    <3> QED
      BY <3>1, <3>4
  <2> QED
    BY <2>2, <2>3 DEF BoundaryErrsHigh
<1>2. SweepInit => LowerBound
  BY Zenon DEF SweepInit, LowerBound
<1>3. IndInv /\ LowerBound /\ [Next]_vars => LowerBound'
  BY LowerBoundKept
<1> QED
  BY <1>1, <1>2, <1>3, Inductive, OOMInvariant, BoundaryIsMeasured, PTL DEF Spec

-----------------------------------------------------------------------------
(* When nothing but memory makes an attempt fail: the container's end and  *)
(* the attempt's result say whether the limit was enough.                  *)
MemoryDecides ==
  /\ ~cancelled
  /\ apc = "wait" =>
       /\ container = "exited" => IF limit >= need THEN exitCode = 0 /\ written = "ok"
                                  ELSE exitCode # 0
       /\ container = "hung" => oomKilled
  /\ apc = "returned" => (result.passed <=> limit >= need)

(* What is known of a limit is whether it is enough.                       *)
Measures ==
  /\ spc = "test" => (passed <=> repetition = 0 \/ limit >= need)
  /\ spc = "attempt" => (passed <=> repetition = 1 \/ limit >= need)
  /\ \A l \in DOMAIN tested : tested[l] <=> l >= need

(* What Search returns without a resolved boundary.                        *)
Unresolved ==
  /\ spc = "done" => report.resolved \/ (report.minimum = lower /\ need <= lower)
  /\ spc = "error" /\ Valid => lower > upper \/ upper < need

LimitInv == MemoryDecides /\ Measures /\ Unresolved

(* An attempt that returns what memory decides. *)
LEMMA ReturnDecides ==
  ASSUME MemoryDecides, NEW p \in BOOLEAN, NEW kind, NEW late, Return(p, kind, late),
         p <=> limit >= need
  PROVE  MemoryDecides'
BY DEF Return, MemoryDecides

(* No step of an attempt decides anything else than memory does.           *)
LEMMA AttemptDecides ==
  ASSUME AttemptTypeOK, need \in Int, RunFaults = {}, Truthful, MemoryDecides,
         AttemptNext
  PROVE  MemoryDecides'
<1>1. ASSUME NotStarted PROVE MemoryDecides'
  BY <1>1, Zenon DEF NotStarted, MemoryDecides
<1>2. ASSUME Started PROVE MemoryDecides'
  BY <1>2 DEF Started, MemoryDecides
<1>3. ASSUME ContainerOOM PROVE MemoryDecides'
  BY <1>3 DEF ContainerOOM, MemoryDecides, AttemptTypeOK
<1>4. ASSUME ContainerExits PROVE MemoryDecides'
  BY <1>4 DEF ContainerExits, MemoryDecides, AttemptTypeOK
<1>5. ASSUME ContainerHangs PROVE MemoryDecides'
  BY <1>5, Zenon DEF ContainerHangs
<1>6. ASSUME AttemptExited PROVE MemoryDecides'
  <2>1. apc = "wait" /\ container = "exited" /\ Finish(exitCode, FALSE)
    BY <1>6, Zenon DEF AttemptExited
  <2>2. PICK p \in BOOLEAN, kind \in Kinds, late \in BOOLEAN :
          /\ Return(p, kind, late)
          /\ p => exitCode = 0
          /\ exitCode = 0 /\ written = "ok" => p
    BY <2>1, FinishReturns
  <2>3. p <=> limit >= need
    BY <2>1, <2>2 DEF MemoryDecides
  <2> QED
    BY <2>2, <2>3, ReturnDecides
<1>7. ASSUME PolledOOM PROVE MemoryDecides'
  <2>1. PICK kind, late : Return(FALSE, kind, late) /\ apc = "wait" /\ oomKilled
    BY <1>7, Zenon DEF PolledOOM
  <2>2. ~(limit >= need)
    BY <2>1 DEF Truthful, AttemptTypeOK
  <2> QED
    BY <2>1, <2>2, ReturnDecides
<1>8. ASSUME Expired PROVE MemoryDecides'
  BY <1>8, Zenon DEF Expired, DeadlinePasses, MemoryDecides
<1>9. ASSUME Interrupted PROVE MemoryDecides'
  BY <1>9, Zenon DEF Interrupted, MemoryDecides
<1>10. ASSUME Cancel PROVE MemoryDecides'
  BY <1>10, Zenon DEF Cancel
<1> QED
  BY <1>1, <1>2, <1>3, <1>4, <1>5, <1>6, <1>7, <1>8, <1>9, <1>10, Zenon DEF AttemptNext

(* While the search decides, no attempt is under way.                      *)
LEMMA NothingUnderWay ==
  ASSUME OOMInv, MemoryDecides, spc # "attempt", apc' = apc, cancelled' = cancelled
  PROVE  MemoryDecides'
BY DEF OOMInv, MemoryDecides

(* A step of the search draws the right conclusion from the results.       *)
LEMMA SearchMeasures ==
  ASSUME IndInv, OOMInv, LimitInv, need \in Int, SearchNext
  PROVE  LimitInv'
<1>t. /\ passed \in BOOLEAN /\ repetition \in Nat /\ limit \in Int /\ result.passed \in BOOLEAN
      /\ \A l \in DOMAIN tested : tested[l] \in BOOLEAN
      /\ DOMAIN tested \subseteq Int
      /\ Repetitions \in Nat /\ Repetitions > 0
  BY SweepAssumption DEF IndInv, TypeOK, AttemptTypeOK, Results
<1>1. ASSUME Reject PROVE LimitInv'
  <2>1. /\ spc = "begin" /\ spc' = "error" /\ (Valid => lower > upper)
        /\ apc' = apc /\ cancelled' = cancelled
        /\ UNCHANGED <<range, tested, need>>
    BY <1>1 DEF Reject, attemptVars
  <2>2. Measures' /\ Unresolved'
    BY <2>1, RangeKept DEF LimitInv, Measures, Unresolved
  <2> QED
    BY <2>1, <2>2, NothingUnderWay DEF LimitInv
<1>2. ASSUME NEW l \in Int, Test(l), spc \in {"begin", "decide", "narrow"}
      PROVE  LimitInv'
  <2>1. /\ spc' = "test" /\ repetition' = 0 /\ passed' = TRUE
        /\ apc' = apc /\ cancelled' = cancelled
        /\ UNCHANGED <<range, tested, need>>
    BY <1>2 DEF Test
  <2>2. Measures' /\ Unresolved'
    BY <2>1 DEF LimitInv, Measures, Unresolved
  <2> QED
    BY <1>2, <2>1, <2>2, NothingUnderWay DEF LimitInv
<1>3. ASSUME TestUpper \/ TestLower \/ TestMiddle PROVE LimitInv'
  <2>1. spc \in {"begin", "decide", "narrow"} /\ Valid
    BY <1>3 DEF TestUpper, TestLower, TestMiddle, IndInv, Accepted
  <2>2. upper \in Int /\ lower \in Int
    BY <2>1, BoundsAreMultiples DEF IndInv
  <2>3. TestMiddle => Middle \in Int
    BY <2>1, MiddleInside DEF TestMiddle, IndInv, Bounds, Bracket
  <2> QED
    BY <1>2, <1>3, <2>1, <2>2, <2>3 DEF TestUpper, TestLower, TestMiddle
<1>4. ASSUME Abandon PROVE LimitInv'
  BY <1>4, Zenon DEF Abandon, LimitInv, MemoryDecides
<1>5. ASSUME Attempt PROVE LimitInv'
  <2>1. /\ spc = "test" /\ spc' = "attempt" /\ repetition' = repetition + 1
        /\ apc' = "prepare"
        /\ UNCHANGED <<range, tested, need, passed, limit, cancelled>>
    BY <1>5 DEF Attempt, Untested
  <2>2. MemoryDecides'
    BY <2>1 DEF LimitInv, MemoryDecides
  <2>3. Measures' /\ Unresolved'
    BY <1>t, <2>1 DEF LimitInv, Measures, Unresolved
  <2> QED
    BY <2>2, <2>3 DEF LimitInv
<1>6. ASSUME Record PROVE LimitInv'
  <2>1. /\ spc = "attempt" /\ spc' = "test" /\ apc = "returned" /\ apc' = "idle"
        /\ passed' = (passed /\ result.passed)
        /\ UNCHANGED <<range, tested, need, repetition, limit, cancelled>>
    BY <1>6 DEF Record
  <2>2. repetition >= 1 /\ (result.passed <=> limit >= need)
    BY <2>1 DEF IndInv, Current, LimitInv, MemoryDecides
  <2>3. MemoryDecides'
    BY <2>1 DEF LimitInv, MemoryDecides
  <2>4. Measures'
    BY <1>t, <2>1, <2>2 DEF LimitInv, Measures
  <2>5. Unresolved'
    BY <2>1 DEF Unresolved
  <2> QED
    BY <2>3, <2>4, <2>5 DEF LimitInv
<1>7. ASSUME Tested PROVE LimitInv'
  <2>1. /\ spc = "test" /\ spc' = "decide" /\ repetition = Repetitions
        /\ tested' = [l \in DOMAIN tested \cup {limit} |->
                         IF l = limit THEN passed ELSE tested[l]]
        /\ apc' = apc /\ cancelled' = cancelled /\ need' = need
    BY <1>7 DEF Tested, Untested, attemptVars
  <2>2. passed <=> limit >= need
    BY <1>t, <2>1 DEF LimitInv, Measures
  <2>3. Measures'
    BY <1>t, <2>1, <2>2 DEF LimitInv, Measures
  <2>4. Unresolved'
    BY <2>1 DEF Unresolved
  <2> QED
    BY <2>1, <2>3, <2>4, NothingUnderWay DEF LimitInv
<1>8. ASSUME UpperFailed PROVE LimitInv'
  <2>1. /\ spc = "decide" /\ phase = "upper" /\ ~passed /\ spc' = "error"
        /\ apc' = apc /\ cancelled' = cancelled
        /\ UNCHANGED <<range, tested, need>>
    BY <1>8 DEF UpperFailed, attemptVars
  <2>2. Valid /\ limit = upper /\ limit \in DOMAIN tested /\ ~tested[limit]
    BY <2>1 DEF IndInv, Accepted, Bounds, Decided
  <2>3. upper < need
    BY <1>t, <2>2 DEF LimitInv, Measures
  <2>4. Measures' /\ Unresolved'
    BY <2>1, <2>3, RangeKept DEF LimitInv, Measures, Unresolved
  <2> QED
    BY <2>1, <2>4, NothingUnderWay DEF LimitInv
<1>9. ASSUME LowerPassed PROVE LimitInv'
  <2>1. /\ spc = "decide" /\ phase = "lower" /\ passed /\ spc' = "done"
        /\ report' = [report EXCEPT !.minimum = lower]
        /\ apc' = apc /\ cancelled' = cancelled
        /\ UNCHANGED <<range, tested, need>>
    BY <1>9 DEF LowerPassed, attemptVars
  <2>2. limit = lower /\ limit \in DOMAIN tested /\ tested[limit]
    BY <2>1 DEF IndInv, Bounds, Decided
  <2>3. need <= lower
    BY <1>t, <2>2 DEF LimitInv, Measures
  <2>4. report'.minimum = lower
    BY <2>1 DEF IndInv, TypeOK
  <2>5. Measures' /\ Unresolved'
    BY <2>1, <2>3, <2>4, RangeKept DEF LimitInv, Measures, Unresolved
  <2> QED
    BY <2>1, <2>5, NothingUnderWay DEF LimitInv
<1>10. ASSUME Cached \/ LowerFailed \/ MiddlePassed \/ MiddleFailed PROVE LimitInv'
  <2>1. /\ spc # "attempt" /\ spc' \in {"decide", "narrow"}
        /\ apc' = apc /\ cancelled' = cancelled
        /\ UNCHANGED <<tested, need>>
    BY <1>10 DEF Cached, LowerFailed, MiddlePassed, MiddleFailed, attemptVars
  <2>2. Measures' /\ Unresolved'
    BY <2>1 DEF LimitInv, Measures, Unresolved
  <2> QED
    BY <2>1, <2>2, NothingUnderWay DEF LimitInv
<1>11. ASSUME Resolve PROVE LimitInv'
  <2>1. /\ spc = "narrow" /\ spc' = "done"
        /\ report' = [minimum |-> pass, greatest |-> fail, resolved |-> TRUE]
        /\ apc' = apc /\ cancelled' = cancelled
        /\ UNCHANGED <<tested, need>>
    BY <1>11 DEF Resolve, attemptVars
  <2>2. Measures' /\ Unresolved'
    BY <2>1 DEF LimitInv, Measures, Unresolved
  <2> QED
    BY <2>1, <2>2, NothingUnderWay DEF LimitInv
<1> QED
  BY <1>1, <1>3, <1>4, <1>5, <1>6, <1>7, <1>8, <1>9, <1>10, <1>11, Zenon DEF SearchNext

(* Every step keeps what is known of the limits.                           *)
LEMMA NextMeasures ==
  ASSUME RunFaults = {}
  PROVE  IndInv /\ OOMInv /\ LimitInv /\ [Next]_vars => LimitInv'
<1> SUFFICES ASSUME IndInv, OOMInv, LimitInv, [Next]_vars PROVE LimitInv'
  OBVIOUS
<1>0. need \in Int /\ AttemptTypeOK /\ Truthful
  BY SweepAssumption DEF IndInv, TypeOK, AttemptTypeOK, OOMInv
<1>1. ASSUME SearchNext PROVE LimitInv'
  BY <1>0, <1>1, SearchMeasures
<1>2. ASSUME AttemptNext, UNCHANGED searchVars PROVE LimitInv'
  <2>1. MemoryDecides'
    BY <1>0, <1>2, AttemptDecides DEF LimitInv
  <2>2. need' = need /\ limit' = limit
    BY <1>0, <1>2, AttemptOOM, AttemptFacts
  <2>3. Measures' /\ Unresolved'
    BY <1>2, <2>2, RangeKept DEF LimitInv, Measures, Unresolved, searchVars
  <2> QED
    BY <2>1, <2>3 DEF LimitInv
<1>3. ASSUME UNCHANGED vars PROVE LimitInv'
  <2>1. UNCHANGED attemptVars /\ UNCHANGED searchVars
    BY <1>3 DEF vars
  <2>2. MemoryDecides'
    BY <2>1 DEF attemptVars, LimitInv, MemoryDecides
  <2>3. Measures' /\ Unresolved'
    BY <2>1, RangeKept DEF LimitInv, Measures, Unresolved, searchVars, attemptVars
  <2> QED
    BY <2>2, <2>3 DEF LimitInv
<1> QED
  BY <1>1, <1>2, <1>3, Zenon DEF Next

(* A multiple above the failing end of an adjacent bracket is not below    *)
(* the passing end.                                                        *)
LEMMA NothingBetween ==
  ASSUME NEW a \in Int, NEW l \in Int, NEW s \in Int, s > 0, l % s = 0, a * s < l
  PROVE  a * s + s <= l
<1>1. PICK k \in Int : l = k * s
  <2> DEFINE k == l \div s
  <2>1. k \in Int /\ l = s * k + (l % s)
    BY DivFacts
  <2> HIDE DEF k
  <2>2. l = k * s
    BY <2>1
  <2> QED
    BY <2>1, <2>2
<1>2. a < k
  BY <1>1, TimesKeepsOrder
<1>3. (a + 1) * s <= k * s
  BY <1>2, TimesKeepsOrder
<1> QED
  BY <1>1, <1>3

(* When nothing but memory makes an attempt fail, Search's answer is the   *)
(* least aligned limit that is enough, or says that none is, or that the   *)
(* lower bound already is: for every range, step, need and number of       *)
(* repetitions.                                                            *)
THEOREM SearchFindsLeast ==
  ASSUME RunFaults = {}
  PROVE  Spec => []LeastLimitFound
<1>1. SweepInit => LimitInv
  <2> SUFFICES ASSUME SweepInit PROVE LimitInv
    OBVIOUS
  <2>1. apc = "idle" /\ ~cancelled /\ spc = "begin" /\ DOMAIN tested = {}
    BY Zenon DEF SweepInit, AttemptInit
  <2> QED
    BY <2>1 DEF LimitInv, MemoryDecides, Measures, Unresolved
<1>2. IndInv /\ LimitInv => LeastLimitFound
  <2> SUFFICES ASSUME IndInv, LimitInv, Valid
               PROVE  LET enough == {l \in Aligned : l >= need}
                      IN  /\ spc = "done" => /\ report.minimum \in enough
                                             /\ \A l \in enough : report.minimum <= l
                                             /\ report.resolved <=> lower < need
                          /\ spc = "error" => enough = {}
    BY DEF LeastLimitFound
  <2> DEFINE enough == {l \in Aligned : l >= need}
  <2>0. /\ step \in Int /\ step > 0 /\ lower \in Int /\ upper \in Int /\ need \in Int
        /\ report \in [minimum : Int, greatest : Int, resolved : BOOLEAN]
        /\ fail \in Int /\ pass \in Int
        /\ Multiple(lower)
    BY SweepAssumption, BoundsAreMultiples DEF IndInv, TypeOK, AttemptTypeOK
  <2>1. ASSUME spc = "done"
        PROVE  /\ report.minimum \in enough
               /\ \A l \in enough : report.minimum <= l
               /\ report.resolved <=> lower < need
    <3>1. lower <= upper
      BY <2>1 DEF IndInv, Accepted
    <3>2. CASE report.resolved
      <4>1. /\ report.minimum = pass /\ pass - fail <= step /\ phase = "bisect"
        BY <3>2 DEF IndInv, Reported
      <4>2. /\ fail \in DOMAIN tested /\ ~tested[fail] /\ Multiple(fail)
            /\ pass \in DOMAIN tested /\ tested[pass] /\ Multiple(pass)
            /\ lower <= fail /\ fail < pass /\ pass <= upper
        BY <2>1, <4>1 DEF IndInv, Bracket
      <4>3. pass >= need /\ fail < need
        BY <2>0, <4>2 DEF LimitInv, Measures
      <4>4. pass % step = 0
        BY <2>0, <4>2, NoRemainder DEF Multiple
      <4>5. pass \in enough
        BY <2>0, <4>2, <4>3, <4>4 DEF Aligned
      <4>6. ASSUME NEW l \in enough PROVE pass <= l
        <5>1. l \in Int /\ l % step = 0 /\ fail < l
          BY <2>0, <4>3 DEF Aligned
        <5>2. PICK a \in Int : fail = a * step
          BY <4>2 DEF Multiple
        <5>3. fail + step <= l
          BY <2>0, <5>1, <5>2, NothingBetween
        <5> QED
          BY <2>0, <4>1, <5>1, <5>3
      <4>7. lower < need
        BY <2>0, <4>2, <4>3
      <4> QED
        BY <3>2, <4>1, <4>5, <4>6, <4>7
    <3>3. CASE ~report.resolved
      <4>1. report.minimum = lower /\ need <= lower
        BY <2>1, <3>3 DEF LimitInv, Unresolved
      <4>2. lower % step = 0
        BY <2>0, NoRemainder DEF Multiple
      <4>3. lower \in enough
        BY <2>0, <3>1, <4>1, <4>2 DEF Aligned
      <4>4. \A l \in enough : lower <= l
        BY <2>0 DEF Aligned
      <4>5. ~(lower < need)
        BY <2>0, <4>1
      <4> QED
        BY <3>3, <4>1, <4>3, <4>4, <4>5
    <3> QED
      BY <3>2, <3>3
  <2>2. ASSUME spc = "error" PROVE enough = {}
    BY <2>0, <2>2 DEF LimitInv, Unresolved, Aligned
  <2> QED
    BY <2>1, <2>2
<1>3. IndInv /\ OOMInv /\ LimitInv /\ [Next]_vars => LimitInv'
  BY NextMeasures
<1> QED
  BY <1>1, <1>2, <1>3, Inductive, OOMInvariant, PTL DEF Spec
=============================================================================
