---------------------------- MODULE GuardedProofs ----------------------------
(***************************************************************************)
(* Theorems about CircuitBreaker for any number of callers, any threshold  *)
(* and any cooldown, and about retry, timeout and breaker together, for    *)
(* any policy: the breaker keeps its promises under these callers, because *)
(* each of their steps is a step of CircuitBreaker or leaves it alone; a   *)
(* retry gives up after its last attempt and no sooner; its backoffs only  *)
(* grow, up to their cap, when the cap fits the type they are cast to.     *)
(***************************************************************************)
EXTENDS GuardedCalls, DataLemmas

-----------------------------------------------------------------------------
(* CircuitBreaker alone.                                                   *)

LEMMA OlderBounded ==
  ASSUME NEW age \in 0 .. open_duration
  PROVE  Older(age) \in 0 .. open_duration
BY ConfigAssumption DEF Older

LEMMA SaturatingSucc ==
  ASSUME NEW n \in 0 .. U32_MAX
  PROVE  /\ saturating_succ(n) \in 0 .. U32_MAX
         /\ saturating_succ(n) >= n
BY ConfigAssumption DEF saturating_succ

(* A failure in the closed state either trips the breaker, the count then  *)
(* being at the threshold, or leaves it closed with the count below.       *)
LEMMA FailWhileClosedKeepsInv ==
  ASSUME BreakerInv, NEW c \in Caller, FailWhileClosed(c)
  PROVE  BreakerInv'
<1> USE ConfigAssumption DEF BreakerInv
<1>1. /\ failures' = saturating_succ(failures)
      /\ streak' = saturating_succ(streak)
      /\ failures = streak
      /\ failures' \in 0 .. U32_MAX
  BY SaturatingSucc DEF FailWhileClosed, Reported, TypeOK
<1>2. TypeOK'
  BY <1>1 DEF TypeOK, FailWhileClosed, Reported, Trip
<1>3. CASE failures' >= failure_threshold /\ Trip
  BY <1>1, <1>2, <1>3 DEF Trip, TripsAtThreshold
<1>4. CASE failures' < failure_threshold /\ UNCHANGED <<state, cooled>>
  BY <1>1, <1>2, <1>4 DEF FailWhileClosed, TripsAtThreshold
<1> QED
  BY <1>3, <1>4 DEF FailWhileClosed

LEMMA OtherFailuresKeepInv ==
  ASSUME BreakerInv, NEW c \in Caller, FailWhileHalfOpen(c) \/ FailWhileOpen(c)
  PROVE  BreakerInv'
<1> USE ConfigAssumption DEF BreakerInv
<1>1. /\ streak' = saturating_succ(streak)
      /\ streak' \in 0 .. U32_MAX /\ streak' >= streak
      /\ streak >= failure_threshold
      /\ UNCHANGED failures
      /\ state' = "Open"
  BY SaturatingSucc
     DEF FailWhileHalfOpen, FailWhileOpen, Reported, TypeOK, Trip, breaker,
         TripsAtThreshold
<1>2. TypeOK'
  BY <1>1 DEF TypeOK, FailWhileHalfOpen, FailWhileOpen, Reported, Trip, breaker
<1>3. streak' >= failure_threshold
  BY <1>1 DEF TypeOK
<1> QED
  BY <1>1, <1>2, <1>3 DEF TripsAtThreshold

LEMMA AcquireKeepsInv ==
  ASSUME BreakerInv, NEW c \in Caller, acquire(c)
  PROVE  BreakerInv'
BY ConfigAssumption
   DEF BreakerInv, acquire, Pass, Probe, Admitted, TypeOK, TripsAtThreshold

LEMMA SuccessKeepsInv ==
  ASSUME BreakerInv, NEW c \in Caller, record_success(c)
  PROVE  BreakerInv'
BY ConfigAssumption
   DEF BreakerInv, record_success, TypeOK, TripsAtThreshold

LEMMA TickKeepsInv ==
  ASSUME BreakerInv, Tick
  PROVE  BreakerInv'
<1>1. cooled' \in 0 .. open_duration
  BY OlderBounded DEF BreakerInv, TypeOK, Tick
<1> QED
  BY <1>1 DEF BreakerInv, Tick, TypeOK, TripsAtThreshold

(* Whatever order the outcomes of overlapping calls arrive in, BreakerInv  *)
(* holds.                                                                  *)
THEOREM BreakerInvariance == Spec => []BreakerInv
<1>1. Init => BreakerInv
  BY ConfigAssumption
     DEF Init, BreakerInv, TypeOK, TripsAtThreshold
<1>2. BreakerInv /\ [Next]_vars => BreakerInv'
  <2> SUFFICES ASSUME BreakerInv, [Next]_vars PROVE BreakerInv'
    OBVIOUS
  <2>1. CASE Tick
    BY <2>1, TickKeepsInv
  <2>2. CASE Weather
    BY <2>2 DEF Weather, breaker, BreakerInv, TypeOK, TripsAtThreshold
  <2>3. ASSUME NEW c \in Caller,
               acquire(c) \/ record_success(c) \/ record_failure(c)
        PROVE BreakerInv'
    BY <2>3, AcquireKeepsInv, SuccessKeepsInv, FailWhileClosedKeepsInv,
       OtherFailuresKeepInv DEF record_failure
  <2>4. CASE UNCHANGED vars
    BY <2>4 DEF vars, breaker, BreakerInv, TypeOK, TripsAtThreshold
  <2> QED
    BY <2>1, <2>2, <2>3, <2>4 DEF Next
<1> QED
  BY <1>1, <1>2, PTL DEF Spec

(* The breaker opens at the threshold-th consecutive failure, no sooner    *)
(* and no later, also when calls overlap.                                  *)
THEOREM BreakerTripsAtThreshold == Spec => []TripsAtThreshold
<1>1. BreakerInv => TripsAtThreshold
  BY DEF BreakerInv
<1> QED
  BY <1>1, BreakerInvariance, PTL

-----------------------------------------------------------------------------
(* Callers that retry.                                                     *)

(* The inductive invariant: how often the operation has run, at each stage *)
(* of the loop.                                                            *)
LoopInv ==
  \A c \in Caller :
    /\ attempt[c] \in Nat
    /\ made[c] \in Nat
    /\ stage[c] = "idle" => made[c] <= attempts
    /\ stage[c] = "idle" /\ result[c] = "Err" => made[c] = attempts
    /\ stage[c] = "op" => made[c] = attempt[c] /\ attempt[c] < attempts
    /\ stage[c] = "call" => made[c] = attempt[c] + 1 /\ attempt[c] < attempts
    /\ stage[c] = "sleep" => made[c] = attempt[c] + 1 /\ attempt[c] + 1 < attempts

LoopTyped ==
  /\ stage \in [Caller -> {"idle", "op", "call", "sleep"}]
  /\ attempt \in [Caller -> Nat]
  /\ made \in [Caller -> Nat]
  /\ result \in [Caller -> {"none", "Ok", "Err"}]

LEMMA SomeAttempts == attempts \in Nat /\ attempts >= 1
BY PolicyAssumption, ConfigAssumption DEF attempts

(* What an error does to the loop, whatever caused it.                     *)
LEMMA FailedMoves ==
  ASSUME LoopTyped, NEW c \in Caller, Failed(c)
  PROVE  /\ attempt' = attempt
         /\ stage' = [stage EXCEPT ![c] =
                        IF attempt[c] + 1 < attempts THEN "sleep" ELSE "idle"]
         /\ result' = [result EXCEPT ![c] =
                        IF attempt[c] + 1 < attempts THEN @ ELSE "Err"]
<1>1. attempt[c] + 1 < attempts <=> ~ (attempt[c] + 1 >= attempts)
  BY SomeAttempts DEF LoopTyped
<1> QED
  BY <1>1 DEF Failed, LoopTyped

LEMMA ErrorKeepsLoopInv ==
  ASSUME LoopTyped, LoopInv, NEW c \in Caller, Failed(c),
         \/ stage[c] = "op" /\ made' = [made EXCEPT ![c] = @ + 1]
         \/ stage[c] = "call" /\ made' = made
  PROVE  LoopTyped' /\ LoopInv'
<1>1. LoopTyped'
  BY FailedMoves DEF LoopTyped
<1>2. \A d \in Caller \ {c} :
        /\ stage'[d] = stage[d] /\ result'[d] = result[d]
        /\ attempt'[d] = attempt[d] /\ made'[d] = made[d]
  BY FailedMoves DEF LoopTyped
<1>3. /\ made'[c] = attempt[c] + 1 /\ attempt'[c] = attempt[c]
      /\ attempt[c] \in Nat /\ attempt[c] < attempts
      /\ stage'[c] = IF attempt[c] + 1 < attempts THEN "sleep" ELSE "idle"
  BY FailedMoves DEF LoopTyped, LoopInv
<1>4. attempts \in Nat
  BY SomeAttempts
<1> QED
  BY <1>1, <1>2, <1>3, <1>4 DEF LoopInv

LEMMA StepKeepsLoopInv ==
  ASSUME LoopTyped, LoopInv, [GuardedNext]_guarded
  PROVE  LoopTyped' /\ LoopInv'
<1> USE SomeAttempts
<1>1. ASSUME NEW c \in Caller, Begin(c) PROVE LoopTyped' /\ LoopInv'
  BY <1>1 DEF Begin, LoopTyped, LoopInv
<1>2. ASSUME NEW c \in Caller, Admit(c) PROVE LoopTyped' /\ LoopInv'
  BY <1>2 DEF Admit, LoopTyped, LoopInv
<1>3. ASSUME NEW c \in Caller, Reject(c) PROVE LoopTyped' /\ LoopInv'
  BY <1>3, ErrorKeepsLoopInv DEF Reject
<1>4. ASSUME NEW c \in Caller, AnswerErr(c) \/ Elapsed(c) PROVE LoopTyped' /\ LoopInv'
  BY <1>4, ErrorKeepsLoopInv DEF AnswerErr, Elapsed
<1>5. ASSUME NEW c \in Caller, Succeed(c) PROVE LoopTyped' /\ LoopInv'
  BY <1>5 DEF Succeed, LoopTyped, LoopInv
<1>6. ASSUME NEW c \in Caller, Wake(c) PROVE LoopTyped' /\ LoopInv'
  <2>1. /\ stage' = [stage EXCEPT ![c] = "op"]
        /\ attempt' = [attempt EXCEPT ![c] = @ + 1]
        /\ UNCHANGED <<made, result>>
        /\ stage[c] = "sleep"
    BY <1>6 DEF Wake
  <2>2. LoopTyped'
    BY <2>1 DEF LoopTyped
  <2>3. \A d \in Caller \ {c} :
          stage'[d] = stage[d] /\ attempt'[d] = attempt[d]
    BY <2>1 DEF LoopTyped
  <2>4. stage'[c] = "op" /\ attempt'[c] = attempt[c] + 1
    BY <2>1 DEF LoopTyped
  <2> QED
    BY <2>1, <2>2, <2>3, <2>4 DEF LoopInv
<1>7. CASE TimePasses \/ GuardedWeather \/ UNCHANGED guarded
  BY <1>7 DEF TimePasses, GuardedWeather, guarded, loop, LoopTyped, LoopInv
<1> QED
  BY <1>1, <1>2, <1>3, <1>4, <1>5, <1>6, <1>7 DEF GuardedNext, Proceed

LEMMA LoopInitially == GuardedInit => LoopTyped /\ LoopInv
<1> SUFFICES ASSUME GuardedInit PROVE LoopTyped /\ LoopInv
  OBVIOUS
<1>1. LoopTyped
  BY DEF GuardedInit, LoopTyped
<1>2. \A c \in Caller :
        stage[c] = "idle" /\ attempt[c] = 0 /\ made[c] = 0 /\ result[c] = "none"
  BY DEF GuardedInit
<1> QED
  BY <1>1, <1>2, SomeAttempts DEF LoopInv

(* A retry runs its operation max_attempts times at most and gives up only *)
(* then, whatever the breaker and the other callers do.                    *)
THEOREM RetryGivesUpAtTheEnd == GuardedSpec => []GivesUpAfterLastAttempt
<1>1. LoopTyped /\ LoopInv => GivesUpAfterLastAttempt
  <2> SUFFICES ASSUME LoopTyped, LoopInv, NEW c \in Caller
               PROVE  /\ made[c] <= attempts
                      /\ stage[c] = "idle" /\ result[c] = "Err" => made[c] = attempts
    BY DEF GivesUpAfterLastAttempt
  <2>1. stage[c] \in {"idle", "op", "call", "sleep"}
    BY DEF LoopTyped
  <2> QED
    BY <2>1, SomeAttempts DEF LoopInv
<1> QED
  BY <1>1, LoopInitially, StepKeepsLoopInv, PTL DEF GuardedSpec

-----------------------------------------------------------------------------
(* The backoff.                                                            *)

(* Each further power is the last one times the base, saturated.           *)
LEMMA PowerRecursion ==
  ASSUME NEW base \in Nat
  PROVE  /\ saturating_pow(base, 0) = 1
         /\ \A n \in Nat :
              /\ saturating_pow(base, n) \in Nat
              /\ saturating_pow(base, n + 1) = Lesser(saturating_pow(base, n) * base, U32_MAX)
<1> DEFINE step(n) == [i \in 1 .. n |-> [x \in Nat |-> Lesser(x * base, U32_MAX)]]
           Equation(f, n) == f = [k \in 0 .. n |->
                                IF k = 0 THEN 1 ELSE Lesser(f[k - 1] * base, U32_MAX)]
           power(n) == CHOOSE f : Equation(f, n)
<1>1. \A x \in Nat : Lesser(x * base, U32_MAX) \in Nat
  BY ConfigAssumption DEF Lesser
<1>2. ASSUME NEW n \in Nat
      PROVE  /\ power(n) \in [0 .. n -> Nat]
             /\ Solves(power(n), n, 1, step(n))
  <2>1. step(n) \in [1 .. n -> [Nat -> Nat]]
    BY <1>1
  <2>2. PICK f \in [0 .. n -> Nat] : Solves(f, n, 1, step(n))
    <3> HIDE DEF step
    <3> QED
      BY <2>1, RecursionHasSolution
  <2>3. \A k \in 1 .. n : k - 1 \in 0 .. n /\ f[k - 1] \in Nat
    OBVIOUS
  <2>4. f[0] = 1 /\ \A k \in 1 .. n : f[k] = Lesser(f[k - 1] * base, U32_MAX)
    BY <2>2, <2>3 DEF Solves
  <2>5. Equation(f, n)
    BY <2>4
  <2>6. Equation(power(n), n)
    <3> HIDE DEF Equation
    <3> QED
      BY <2>5
  <2> DEFINE p == power(n)
  <2> HIDE DEF p
  <2>7. p = [k \in 0 .. n |-> IF k = 0 THEN 1 ELSE Lesser(p[k - 1] * base, U32_MAX)]
    BY <2>6 DEF p
  <2>8. p[0] = 1 /\ \A k \in 1 .. n : p[k] = Lesser(p[k - 1] * base, U32_MAX)
    BY <2>7
  <2> DEFINE Good == {k \in 0 .. n : p[k] \in Nat}
  <2>9. \A k \in 0 .. n : k \in Good
    <3>1. 0 \in Good
      BY <2>8
    <3>2. ASSUME NEW k \in 0 .. n - 1, k \in Good PROVE k + 1 \in Good
      <4>1. k + 1 \in 1 .. n /\ k + 1 \in 0 .. n /\ (k + 1) - 1 = k
        OBVIOUS
      <4>2. p[k + 1] = Lesser(p[k] * base, U32_MAX)
        BY <2>8, <4>1
      <4> QED
        BY <1>1, <3>2, <4>1, <4>2
    <3> HIDE DEF Good
    <3> QED
      BY <3>1, <3>2, UpTo
  <2>10. p \in [0 .. n -> Nat]
    BY <2>7, <2>9
  <2>11. \A k \in 1 .. n : p[k] = step(n)[k][p[k - 1]]
    BY <2>3, <2>8, <2>10
  <2>12. Solves(p, n, 1, step(n))
    BY <2>8, <2>11 DEF Solves
  <2> QED
    BY <2>10, <2>12 DEF p
<1>3. \A n \in Nat : saturating_pow(base, n) = power(n)[n]
  BY DEF saturating_pow
<1>4. saturating_pow(base, 0) = 1
  <2> HIDE DEF power, step
  <2>1. Solves(power(0), 0, 1, step(0)) /\ saturating_pow(base, 0) = power(0)[0]
    BY <1>2, <1>3
  <2> QED
    BY <2>1 DEF Solves
<1>5. ASSUME NEW n \in Nat
      PROVE  /\ saturating_pow(base, n) \in Nat
             /\ saturating_pow(base, n + 1) = Lesser(saturating_pow(base, n) * base, U32_MAX)
  <2> DEFINE p == power(n)
             q == power(n + 1)
             r == step(n)
             t == step(n + 1)
  <2>1. n + 1 \in Nat /\ n <= n + 1 /\ n + 1 \in 1 .. n + 1 /\ (n + 1) - 1 = n /\ n \in 0 .. n
    OBVIOUS
  <2>2. Solves(p, n, 1, r) /\ Solves(q, n + 1, 1, t) /\ p[n] \in Nat
    <3> HIDE DEF power, step
    <3> QED
      BY <1>2, <2>1
  <2>3. \A i \in 1 .. n : r[i] = t[i]
    OBVIOUS
  <2>4. t[n + 1] = [x \in Nat |-> Lesser(x * base, U32_MAX)]
    BY <2>1
  <2>5. saturating_pow(base, n) = p[n] /\ saturating_pow(base, n + 1) = q[n + 1]
    BY <1>3, <2>1
  <2> HIDE DEF p, q, r, t
  <2>6. p[n] = q[n]
    BY <2>1, <2>2, <2>3, SolutionsAgree
  <2>7. q[n + 1] = t[n + 1][q[n]]
    BY <2>1, <2>2 DEF Solves
  <2> QED
    BY <2>2, <2>4, <2>5, <2>6, <2>7
<1> QED
  BY <1>4, <1>5

LEMMA ProductGrows ==
  ASSUME NEW a \in Nat, NEW b \in Nat, NEW k \in Nat, a <= b
  PROVE  k * a <= k * b
<1>1. PICK d \in Nat : b = a + d
  <2>1. b - a \in Nat /\ b = a + (b - a)
    OBVIOUS
  <2> QED
    BY <2>1
<1>2. k * b = k * a + k * d /\ k * d \in Nat /\ k * a \in Nat
  BY <1>1
<1> QED
  BY <1>2

(* Of a base that is not zero, each power is at least the one before it,   *)
(* also where it saturates.                                                *)
LEMMA PowerGrows ==
  ASSUME NEW base \in Nat \ {0}, NEW n \in Nat
  PROVE  /\ saturating_pow(base, n) \in 0 .. U32_MAX
         /\ saturating_pow(base, n) <= saturating_pow(base, n + 1)
<1> DEFINE p == saturating_pow(base, n)
<1>1. p \in 0 .. U32_MAX
  <2>1. CASE n = 0
    BY <2>1, PowerRecursion, ConfigAssumption
  <2>2. CASE n # 0
    <3>1. n - 1 \in Nat /\ (n - 1) + 1 = n
      BY <2>2
    <3> DEFINE q == saturating_pow(base, n - 1)
    <3>2. q \in Nat /\ p = Lesser(q * base, U32_MAX)
      BY <3>1, PowerRecursion
    <3> HIDE DEF p, q
    <3>3. q * base \in Nat
      BY <3>2
    <3>4. p \in 0 .. U32_MAX
      BY <3>2, <3>3, ConfigAssumption DEF Lesser
    <3> QED
      BY <3>4
  <2> QED
    BY <2>1, <2>2
<1>2. saturating_pow(base, n + 1) = Lesser(p * base, U32_MAX)
  BY PowerRecursion
<1> HIDE DEF p
<1>3. p * 1 <= p * base /\ p * base \in Nat
  BY <1>1, ProductGrows, ConfigAssumption
<1>4. p <= Lesser(p * base, U32_MAX)
  BY <1>1, <1>3, ConfigAssumption DEF Lesser
<1> QED
  BY <1>1, <1>2, <1>4 DEF p

(* A cap that fits into a u64 is not changed by the cast.                 *)
LEMMA CastKeepsSmall ==
  ASSUME NEW k \in Nat, k <= U64_MAX
  PROVE  k % (U64_MAX + 1) = k
BY PolicyAssumption

LEMMA BackoffGrows ==
  ASSUME multiplier # 0, max_backoff <= U64_MAX, NEW n \in Nat
  PROVE  /\ backoff_for(n) \in 0 .. max_backoff
         /\ backoff_for(n) <= backoff_for(n + 1)
<1> DEFINE a == saturating_pow(multiplier, n)
           b == saturating_pow(multiplier, n + 1)
<1>1. a \in Nat /\ b \in Nat /\ a <= b
  <2>1. multiplier \in Nat \ {0} /\ n + 1 \in Nat
    BY PolicyAssumption, ConfigAssumption
  <2> QED
    BY <2>1, PowerGrows, ConfigAssumption
<1>2. /\ backoff_for(n) = Lesser(initial_backoff * a, max_backoff) % (U64_MAX + 1)
      /\ backoff_for(n + 1) = Lesser(initial_backoff * b, max_backoff) % (U64_MAX + 1)
  BY DEF backoff_for, backoff_millis
<1> HIDE DEF a, b
<1>3. /\ initial_backoff * a <= initial_backoff * b
      /\ initial_backoff * a \in Nat /\ initial_backoff * b \in Nat
  BY <1>1, ProductGrows, PolicyAssumption
<1> DEFINE x == Lesser(initial_backoff * a, max_backoff)
           y == Lesser(initial_backoff * b, max_backoff)
<1>4. x \in 0 .. max_backoff /\ y \in 0 .. max_backoff /\ x <= y
  BY <1>3, PolicyAssumption DEF Lesser
<1> HIDE DEF x, y
<1>5. x % (U64_MAX + 1) = x /\ y % (U64_MAX + 1) = y
  <2>1. x \in Nat /\ x <= U64_MAX /\ y \in Nat /\ y <= U64_MAX
    BY <1>4, PolicyAssumption
  <2> QED
    BY <2>1, CastKeepsSmall
<1> QED
  BY <1>2, <1>4, <1>5 DEF x, y

(* What a retry's last backoff was, at each stage of its next attempt.     *)
BackoffInv ==
  /\ timer \in [Caller -> Nat]
  /\ slept \in [Caller -> Nat]
  /\ \A c \in Caller :
       /\ stage[c] \in {"op", "call"} =>
            slept[c] = IF attempt[c] = 0 THEN 0 ELSE backoff_for(attempt[c] - 1)
       /\ stage[c] = "sleep" => slept[c] = backoff_for(attempt[c])

LEMMA BackoffsTyped == \A n \in Nat : backoff_for(n) \in Nat
<1> SUFFICES ASSUME NEW n \in Nat PROVE backoff_for(n) \in Nat
  OBVIOUS
<1> DEFINE a == saturating_pow(multiplier, n)
           x == Lesser(initial_backoff * a, max_backoff)
<1>1. a \in Nat
  BY PowerRecursion, PolicyAssumption, ConfigAssumption
<1>2. backoff_for(n) = x % (U64_MAX + 1)
  BY DEF backoff_for, backoff_millis
<1> HIDE DEF a
<1>3. x \in Nat
  BY <1>1, PolicyAssumption DEF Lesser
<1> HIDE DEF x
<1>4. U64_MAX + 1 \in Nat \ {0}
  BY PolicyAssumption
<1> QED
  BY <1>2, <1>3, <1>4

(* The timer is set to the backoff it is recorded as.                      *)
LEMMA FailedSleeps ==
  ASSUME LoopTyped, BackoffInv, NEW c \in Caller, Failed(c)
  PROVE  /\ timer' \in [Caller -> Nat]
         /\ slept' \in [Caller -> Nat]
         /\ attempt' = attempt
         /\ \A d \in Caller \ {c} : stage'[d] = stage[d] /\ slept'[d] = slept[d]
         /\ \/ /\ stage'[c] = "sleep"
               /\ timer'[c] = backoff_for(attempt[c])
               /\ slept'[c] = backoff_for(attempt[c])
            \/ stage'[c] = "idle"
<1>1. attempt[c] \in Nat /\ backoff_for(attempt[c]) \in Nat
  BY BackoffsTyped DEF LoopTyped
<1> QED
  BY <1>1 DEF Failed, LoopTyped, BackoffInv

LEMMA StepKeepsBackoffInv ==
  ASSUME LoopTyped, LoopInv, BackoffInv, [GuardedNext]_guarded
  PROVE  BackoffInv'
<1>1. ASSUME NEW c \in Caller, Begin(c) PROVE BackoffInv'
  BY <1>1 DEF Begin, LoopTyped, BackoffInv
<1>2. ASSUME NEW c \in Caller, Admit(c) PROVE BackoffInv'
  BY <1>2, PolicyAssumption DEF Admit, LoopTyped, BackoffInv
<1>3. ASSUME NEW c \in Caller, Failed(c) PROVE BackoffInv'
  BY <1>3, FailedSleeps DEF BackoffInv
<1>4. ASSUME NEW c \in Caller, Succeed(c) PROVE BackoffInv'
  BY <1>4 DEF Succeed, LoopTyped, BackoffInv
<1>5. ASSUME NEW c \in Caller, Wake(c) PROVE BackoffInv'
  <2>1. /\ stage[c] = "sleep" /\ stage'[c] = "op"
        /\ attempt[c] \in Nat /\ attempt'[c] = attempt[c] + 1
        /\ UNCHANGED <<timer, slept>>
    BY <1>5 DEF Wake, LoopTyped
  <2>2. attempt'[c] # 0 /\ attempt'[c] - 1 = attempt[c]
    BY <2>1
  <2>3. \A d \in Caller \ {c} : stage'[d] = stage[d] /\ attempt'[d] = attempt[d]
    BY <1>5 DEF Wake, LoopTyped
  <2> QED
    BY <2>1, <2>2, <2>3 DEF BackoffInv
<1>6. CASE TimePasses
  <2>1. timer' \in [Caller -> Nat]
    BY <1>6 DEF TimePasses, BackoffInv
  <2> QED
    BY <1>6, <2>1 DEF TimePasses, BackoffInv
<1>7. CASE GuardedWeather \/ UNCHANGED guarded
  BY <1>7 DEF GuardedWeather, guarded, loop, BackoffInv
<1> QED
  BY <1>1, <1>2, <1>3, <1>4, <1>5, <1>6, <1>7
     DEF GuardedNext, Proceed, Reject, AnswerErr, Elapsed

(* Backoffs grow up to max_backoff and stay there, also when the factor    *)
(* saturates and whatever the product comes to, for the policies whose cap *)
(* fits into a u64 and whose multiplier is not zero.  Of multiplier 0 the  *)
(* first factor is 0^0 = 1 and every later one 0, and a wider cap is       *)
(* truncated by the cast: there backoffs do shrink.                        *)
THEOREM BackoffsGrow ==
  ASSUME multiplier # 0
  PROVE  GuardedSpec => BackoffNeverShrinks
<1> DEFINE Grows == max_backoff <= U64_MAX =>
                      \A c \in Caller :
                        stage[c] # "sleep" /\ stage'[c] = "sleep" =>
                          timer'[c] >= slept[c] /\ timer'[c] <= max_backoff
           LInv == LoopTyped /\ LoopInv /\ BackoffInv
<1>1. GuardedInit => LInv
  <2>1. GuardedInit => LoopTyped /\ LoopInv
    BY LoopInitially
  <2>2. GuardedInit => BackoffInv
    BY DEF GuardedInit, BackoffInv
  <2> QED
    BY <2>1, <2>2
<1>2. LInv /\ [GuardedNext]_guarded => LInv'
  BY StepKeepsLoopInv, StepKeepsBackoffInv
<1>3. LInv /\ [GuardedNext]_guarded => Grows
  <2> SUFFICES ASSUME LInv, [GuardedNext]_guarded,
                      max_backoff <= U64_MAX, NEW c \in Caller,
                      stage[c] # "sleep", stage'[c] = "sleep"
               PROVE  timer'[c] >= slept[c] /\ timer'[c] <= max_backoff
    OBVIOUS
  <2>1. Failed(c) /\ stage[c] \in {"op", "call"}
    <3>1. \A d \in Caller : Begin(d) \/ Admit(d) \/ Succeed(d) \/ Wake(d) =>
            stage'[c] # "sleep"
      BY DEF Begin, Admit, Succeed, Wake, LoopTyped
    <3>2. TimePasses \/ GuardedWeather \/ UNCHANGED guarded => stage' = stage
      BY DEF TimePasses, GuardedWeather, guarded, loop
    <3>3. PICK d \in Caller : Reject(d) \/ AnswerErr(d) \/ Elapsed(d)
      BY <3>1, <3>2 DEF GuardedNext, Proceed
    <3>4. Failed(d) /\ stage[d] \in {"op", "call"}
      BY <3>3 DEF Reject, AnswerErr, Elapsed
    <3>5. d = c
      BY <3>4, FailedSleeps
    <3> QED
      BY <3>4, <3>5
  <2>2. timer'[c] = backoff_for(attempt[c]) /\ attempt[c] \in Nat
    BY <2>1, FailedSleeps DEF LoopTyped
  <2>3. timer'[c] \in Nat /\ timer'[c] <= max_backoff
    BY <2>2, BackoffGrows, PolicyAssumption
  <2>4. CASE attempt[c] = 0
    BY <2>1, <2>3, <2>4 DEF BackoffInv
  <2>5. CASE attempt[c] # 0
    <3>1. attempt[c] - 1 \in Nat /\ (attempt[c] - 1) + 1 = attempt[c]
      BY <2>2, <2>5
    <3>2. slept[c] = backoff_for(attempt[c] - 1)
      BY <2>1, <2>5 DEF BackoffInv
    <3>3. /\ backoff_for(attempt[c] - 1) <= backoff_for((attempt[c] - 1) + 1)
          /\ backoff_for(attempt[c] - 1) \in Nat
      BY <3>1, BackoffGrows, BackoffsTyped
    <3>4. slept[c] <= timer'[c] /\ slept[c] \in Nat
      BY <2>2, <3>1, <3>2, <3>3
    <3> QED
      BY <2>3, <3>4
  <2> QED
    BY <2>4, <2>5
<1>4. BackoffNeverShrinks <=> [][Grows]_guarded
  BY DEF BackoffNeverShrinks
<1> HIDE DEF Grows, LInv
<1> QED
  BY <1>1, <1>2, <1>3, <1>4, PTL DEF GuardedSpec

-----------------------------------------------------------------------------
(* Time that passes for the timers passes for the breaker, or finds it at  *)
(* an age that no longer matters.                                          *)
LEMMA TimeIsTheBreakersTime ==
  ASSUME TimePasses
  PROVE  [Next]_vars
<1>1. CASE cooled' = cooled
  BY <1>1 DEF TimePasses, vars, breaker
<1>2. CASE cooled' # cooled
  BY <1>2 DEF TimePasses, Tick, Next
<1> QED
  BY <1>1, <1>2

(* Callers that retry and time out are callers of the breaker: every       *)
(* behaviour of the three together is one of CircuitBreaker.               *)
THEOREM GuardedImplementsBreaker == GuardedSpec => Spec
<1>1. GuardedInit => Init
  BY DEF GuardedInit
<1>2. [GuardedNext]_guarded => [Next]_vars
  <2> SUFFICES ASSUME [GuardedNext]_guarded PROVE [Next]_vars
    OBVIOUS
  <2>1. ASSUME NEW c \in Caller,
               Proceed(c) \/ Succeed(c) \/ AnswerErr(c) \/ Elapsed(c)
        PROVE [Next]_vars
    BY <2>1 DEF Proceed, Begin, Admit, Reject, Wake, Succeed, AnswerErr, Elapsed, Next
  <2>2. CASE TimePasses
    BY <2>2, TimeIsTheBreakersTime
  <2>3. CASE GuardedWeather
    BY <2>3 DEF GuardedWeather, Next
  <2>4. CASE UNCHANGED guarded
    BY <2>4 DEF guarded
  <2> QED
    BY <2>1, <2>2, <2>3, <2>4 DEF GuardedNext
<1> QED
  BY <1>1, <1>2, PTL DEF GuardedSpec, Spec

(* The breaker trips at its threshold exactly under retrying callers too.  *)
THEOREM GuardedTripsAtThreshold == GuardedSpec => []TripsAtThreshold
BY GuardedImplementsBreaker, BreakerTripsAtThreshold, PTL
=============================================================================
