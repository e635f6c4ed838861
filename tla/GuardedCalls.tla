---------------------------- MODULE GuardedCalls ----------------------------
(***************************************************************************)
(* The helpers of crates/wormverify-resilience around one downstream       *)
(* dependency ("a circuit breaker, retry-with-backoff, and timeout helper  *)
(* guard downstream I/O", README.md): retry runs an operation that asks    *)
(* the shared CircuitBreaker for admission, calls the dependency under     *)
(* with_timeout and reports the outcome to the breaker.  A refusal by the  *)
(* breaker is an error like any other and is retried too.                  *)
(*                                                                         *)
(* Durations are in ticks.  A timer holds what is left of it; the runtime  *)
(* may fire it late but not early.                                         *)
(***************************************************************************)
EXTENDS CircuitBreaker

CONSTANTS
  max_attempts,      \* RetryPolicy
  initial_backoff,   \* RetryPolicy
  multiplier,        \* RetryPolicy
  max_backoff,       \* RetryPolicy
  call_timeout,      \* the duration given to with_timeout
  U64_MAX            \* the width of the milliseconds of a Duration

ASSUME PolicyAssumption ==
  /\ max_attempts \in 0 .. U32_MAX
  /\ multiplier \in 0 .. U32_MAX
  /\ initial_backoff \in Nat
  /\ max_backoff \in Nat
  /\ call_timeout \in Nat
  /\ U64_MAX \in Nat /\ U32_MAX <= U64_MAX

VARIABLES
  stage,     \* where each caller's retry is: "idle", "op", "call" or "sleep"
  attempt,   \* the loop variable of retry
  timer,     \* what is left of the caller's timeout or backoff
  result,    \* what its last retry returned: "none", "Ok" or "Err"
  made,      \* history: how often the operation ran in this retry
  slept      \* history: the last backoff of this retry

loop == <<stage, attempt, timer, result, made, slept>>
guarded == <<vars, loop>>

GuardedInit ==
  /\ Init
  /\ stage = [c \in Caller |-> "idle"]
  /\ attempt = [c \in Caller |-> 0]
  /\ timer = [c \in Caller |-> 0]
  /\ result = [c \in Caller |-> "none"]
  /\ made = [c \in Caller |-> 0]
  /\ slept = [c \in Caller |-> 0]

-----------------------------------------------------------------------------
Lesser(m, n) == IF m < n THEN m ELSE n

\* A bug: the power wraps around.
wrapping_pow(base, exponent) == (base ^ exponent) % (U32_MAX + 1)

(* A power that has reached U32_MAX stays there, or is of a base that      *)
(* never gets there: saturating each product saturates the power.          *)
saturating_pow(base, exponent) ==
  LET power[n \in 0 .. exponent] ==
        IF n = 0 THEN 1 ELSE Lesser(power[n - 1] * base, U32_MAX)
  IN  power[exponent]

\* The product of millis and factor, in u128: too wide to overflow here.
backoff_millis(n) == initial_backoff * saturating_pow(multiplier, n)

\* A bug: the cast to u64 comes before the cap.
CastFirst(n) == Lesser(backoff_millis(n) % (U64_MAX + 1), max_backoff)

\* The cast to u64 keeps the low bits of a cap that is wider.
backoff_for(n) == Lesser(backoff_millis(n), max_backoff) % (U64_MAX + 1)

\* A policy of zero attempts makes one.
attempts == IF max_attempts < 1 THEN 1 ELSE max_attempts

\* A call of retry.
Begin(c) ==
  /\ stage[c] = "idle"
  /\ stage' = [stage EXCEPT ![c] = "op"]
  /\ attempt' = [attempt EXCEPT ![c] = 0]
  /\ made' = [made EXCEPT ![c] = 0]
  /\ slept' = [slept EXCEPT ![c] = 0]
  /\ UNCHANGED <<vars, timer, result>>

\* The operation runs and is admitted; its timeout starts.
Admit(c) ==
  /\ stage[c] = "op"
  /\ acquire(c)
  /\ stage' = [stage EXCEPT ![c] = "call"]
  /\ timer' = [timer EXCEPT ![c] = call_timeout]
  /\ made' = [made EXCEPT ![c] = @ + 1]
  /\ UNCHANGED <<attempt, result, slept>>

\* A bug: the attempts are counted from zero and compared as if from one.
OneTooMany(c) ==
  \/ /\ attempt[c] < attempts
     /\ stage' = [stage EXCEPT ![c] = "sleep"]
     /\ timer' = [timer EXCEPT ![c] = backoff_for(attempt[c])]
     /\ slept' = [slept EXCEPT ![c] = backoff_for(attempt[c])]
     /\ UNCHANGED <<attempt, result>>
  \/ /\ attempt[c] >= attempts
     /\ stage' = [stage EXCEPT ![c] = "idle"]
     /\ timer' = [timer EXCEPT ![c] = 0]
     /\ result' = [result EXCEPT ![c] = "Err"]
     /\ UNCHANGED <<attempt, slept>>

\* The operation returned an error: back off, or give up.
Failed(c) ==
  \/ /\ attempt[c] + 1 < attempts
     /\ stage' = [stage EXCEPT ![c] = "sleep"]
     /\ timer' = [timer EXCEPT ![c] = backoff_for(attempt[c])]
     /\ slept' = [slept EXCEPT ![c] = backoff_for(attempt[c])]
     /\ UNCHANGED <<attempt, result>>
  \/ /\ attempt[c] + 1 >= attempts
     /\ stage' = [stage EXCEPT ![c] = "idle"]
     /\ timer' = [timer EXCEPT ![c] = 0]
     /\ result' = [result EXCEPT ![c] = "Err"]
     /\ UNCHANGED <<attempt, slept>>

\* The operation runs and acquire answers CircuitOpen.
Reject(c) ==
  /\ stage[c] = "op"
  /\ state = "Open" /\ cooled < open_duration
  /\ Failed(c)
  /\ made' = [made EXCEPT ![c] = @ + 1]
  /\ UNCHANGED vars

Succeed(c) ==
  /\ stage[c] = "call"
  /\ record_success(c)
  /\ stage' = [stage EXCEPT ![c] = "idle"]
  /\ timer' = [timer EXCEPT ![c] = 0]
  /\ result' = [result EXCEPT ![c] = "Ok"]
  /\ UNCHANGED <<attempt, made, slept>>

\* The dependency answers with an error.
AnswerErr(c) ==
  /\ stage[c] = "call"
  /\ record_failure(c)
  /\ Failed(c)
  /\ UNCHANGED made

\* A bug: the timer starts again instead of firing.
ElapsedRestarts(c) ==
  /\ stage[c] = "call"
  /\ timer[c] = 0
  /\ ~ healthy
  /\ timer' = [timer EXCEPT ![c] = call_timeout]
  /\ UNCHANGED <<vars, stage, attempt, result, made, slept>>

\* with_timeout: the call has not been answered in time, and is dropped.
Elapsed(c) ==
  /\ stage[c] = "call"
  /\ timer[c] = 0
  /\ record_failure(c)
  /\ Failed(c)
  /\ UNCHANGED made

\* The end of the backoff.
Wake(c) ==
  /\ stage[c] = "sleep"
  /\ timer[c] = 0
  /\ stage' = [stage EXCEPT ![c] = "op"]
  /\ attempt' = [attempt EXCEPT ![c] = @ + 1]
  /\ UNCHANGED <<vars, timer, result, made, slept>>

\* One tick, for the breaker and for every timer.
TimePasses ==
  /\ cooled' = Older(cooled)
  /\ timer' = [c \in Caller |-> IF timer[c] = 0 THEN 0 ELSE timer[c] - 1]
  /\ <<cooled, timer>>' # <<cooled, timer>>
  /\ UNCHANGED <<failures, state, call, healthy, streak>>
  /\ UNCHANGED <<stage, attempt, result, made, slept>>

GuardedWeather == Weather /\ UNCHANGED loop

Proceed(c) == Begin(c) \/ Admit(c) \/ Reject(c) \/ Wake(c)

GuardedNext ==
  \/ \E c \in Caller : Proceed(c) \/ Succeed(c) \/ AnswerErr(c) \/ Elapsed(c)
  \/ TimePasses
  \/ GuardedWeather

GuardedSpec == GuardedInit /\ [][GuardedNext]_guarded

(* The runtime polls every task that is ready and fires every timer, also  *)
(* when the dependency comes and goes meanwhile; a healthy dependency      *)
(* answers, one that is not may stay silent for ever.                      *)
GuardedFairSpec ==
  /\ GuardedSpec
  /\ WF_guarded(TimePasses)
  /\ \A c \in Caller :
       /\ WF_guarded(Proceed(c))
       /\ WF_guarded(healthy /\ Succeed(c))
       /\ SF_guarded(Elapsed(c))

-----------------------------------------------------------------------------
(* retry runs its operation max_attempts times at most, and reports a      *)
(* failure only when it has run it that often ("The last error is returned *)
(* if every attempt fails"); refusals by the breaker count as attempts.    *)
GivesUpAfterLastAttempt ==
  \A c \in Caller :
    /\ made[c] <= attempts
    /\ stage[c] = "idle" /\ result[c] = "Err" => made[c] = attempts

(* Backoffs never shrink within one retry and stay within max_backoff,     *)
(* also when the exponential factor or its product with initial_backoff    *)
(* exceeds its integer.  A max_backoff of more milliseconds than a u64     *)
(* holds is no such cap: the cast truncates it.                            *)
BackoffNeverShrinks ==
  [][max_backoff <= U64_MAX =>
       \A c \in Caller :
         stage[c] # "sleep" /\ stage'[c] = "sleep" =>
           timer'[c] >= slept[c] /\ timer'[c] <= max_backoff]_guarded

(* Every retry returns, whether the dependency answers, fails or is silent *)
(* and whatever state the breaker is in (GuardedFairSpec).                 *)
RetryReturns == \A c \in Caller : stage[c] # "idle" ~> stage[c] = "idle"
=============================================================================
