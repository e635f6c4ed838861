--------------------------- MODULE CircuitBreaker ---------------------------
(***************************************************************************)
(* CircuitBreaker (crates/wormverify-resilience/src/breaker.rs) shared by  *)
(* concurrent callers.  Each method holds the mutex from start to end and  *)
(* is one action.  A caller that acquire lets through calls its dependency *)
(* and reports the outcome some time later, whatever the breaker has gone  *)
(* through meanwhile.                                                      *)
(*                                                                         *)
(* Instants are kept as ages: cooled is how long the breaker has been open *)
(* since opened_at, counted up to open_duration, beyond which nothing in   *)
(* the code tells two ages apart.                                          *)
(***************************************************************************)
EXTENDS Naturals

CONSTANTS
  Caller,
  failure_threshold,   \* BreakerConfig
  open_duration,       \* BreakerConfig, in clock ticks
  U32_MAX              \* where saturating_add stops

ASSUME ConfigAssumption ==
  /\ failure_threshold \in 0 .. U32_MAX
  /\ open_duration \in Nat
  /\ U32_MAX \in Nat \ {0}

VARIABLES
  failures,   \* Inner.failures
  state,      \* Inner.state
  cooled,     \* clock.now() - opened_at, while Open
  call,       \* what each caller is doing: "idle", "calling" or "probing"
  healthy,    \* whether the dependency answers every call
  streak      \* history: failures reported since the last success

breaker == <<failures, state, cooled>>
vars == <<breaker, call, healthy, streak>>

TypeOK ==
  /\ failures \in 0 .. U32_MAX
  /\ state \in {"Closed", "Open", "HalfOpen"}
  /\ cooled \in 0 .. open_duration
  /\ call \in [Caller -> {"idle", "calling", "probing"}]
  /\ healthy \in BOOLEAN
  /\ streak \in 0 .. U32_MAX

Init ==
  /\ failures = 0
  /\ state = "Closed"
  /\ cooled = 0
  /\ call = [c \in Caller |-> "idle"]
  /\ healthy \in BOOLEAN
  /\ streak = 0

saturating_succ(n) == IF n < U32_MAX THEN n + 1 ELSE n

Older(age) == IF age < open_duration THEN age + 1 ELSE age

Tick ==
  /\ cooled' = Older(cooled)
  /\ cooled' # cooled
  /\ UNCHANGED <<failures, state, call, healthy, streak>>

\* The dependency fails, or is repaired.
Weather ==
  /\ healthy' = ~ healthy
  /\ UNCHANGED <<breaker, call, streak>>

-----------------------------------------------------------------------------
Admitted(c) ==
  /\ call' = [call EXCEPT ![c] = IF state = "Closed" THEN "calling" ELSE "probing"]
  /\ UNCHANGED <<failures, cooled, healthy, streak>>

\* acquire while Closed or HalfOpen.
Pass(c) ==
  /\ call[c] = "idle"
  /\ state \in {"Closed", "HalfOpen"}
  /\ UNCHANGED state
  /\ Admitted(c)

\* acquire while Open, the cooldown over; otherwise it is an error.
Probe(c) ==
  /\ call[c] = "idle"
  /\ state = "Open"
  /\ cooled >= open_duration
  /\ state' = "HalfOpen"
  /\ Admitted(c)

acquire(c) == Pass(c) \/ Probe(c)

-----------------------------------------------------------------------------
\* A bug: a success clears the count and leaves the state alone.
SuccessNeverCloses(c) ==
  /\ call[c] # "idle"
  /\ failures' = 0
  /\ call' = [call EXCEPT ![c] = "idle"]
  /\ streak' = 0
  /\ UNCHANGED <<state, cooled, healthy>>

record_success(c) ==
  /\ call[c] # "idle"
  /\ failures' = 0
  /\ state' = "Closed"
  /\ call' = [call EXCEPT ![c] = "idle"]
  /\ streak' = 0
  /\ UNCHANGED <<cooled, healthy>>

\* The breaker opens at this instant.
Trip == state' = "Open" /\ cooled' = 0

Reported(c) ==
  /\ ~ healthy
  /\ call[c] # "idle"
  /\ call' = [call EXCEPT ![c] = "idle"]
  /\ streak' = saturating_succ(streak)
  /\ UNCHANGED healthy

FailWhileHalfOpen(c) ==
  /\ state = "HalfOpen"
  /\ Reported(c)
  /\ Trip
  /\ UNCHANGED failures

\* A bug: the count is compared before it is incremented.
FailOneLate(c) ==
  /\ state = "Closed"
  /\ Reported(c)
  /\ failures' = saturating_succ(failures)
  /\ \/ failures >= failure_threshold /\ Trip
     \/ failures < failure_threshold /\ UNCHANGED <<state, cooled>>

FailWhileClosed(c) ==
  /\ state = "Closed"
  /\ Reported(c)
  /\ failures' = saturating_succ(failures)
  /\ \/ failures' >= failure_threshold /\ Trip
     \/ failures' < failure_threshold /\ UNCHANGED <<state, cooled>>

FailWhileOpen(c) ==
  /\ state = "Open"
  /\ Reported(c)
  /\ UNCHANGED breaker

record_failure(c) ==
  FailWhileHalfOpen(c) \/ FailWhileClosed(c) \/ FailWhileOpen(c)

-----------------------------------------------------------------------------
Next ==
  \/ Tick
  \/ Weather
  \/ \E c \in Caller : acquire(c) \/ record_success(c) \/ record_failure(c)

Spec == Init /\ [][Next]_vars

(* Time passes, admitted calls end, and callers keep calling: a caller the *)
(* breaker would admit again and again is admitted.                        *)
FairSpec ==
  /\ Spec
  /\ WF_vars(Tick)
  /\ \A c \in Caller :
       /\ WF_vars(record_success(c) \/ record_failure(c))
       /\ WF_vars(acquire(c))

-----------------------------------------------------------------------------
(* "Consecutive failures in the closed state that trip the breaker": late  *)
(* outcomes of overlapping calls neither trip it early nor keep it closed. *)
TripsAtThreshold ==
  /\ state = "Open" => streak >= failure_threshold
  /\ state = "Closed" => streak = 0 \/ streak < failure_threshold

\* The inductive invariant behind the theorems of GuardedProofs.
BreakerInv ==
  /\ TypeOK
  /\ TripsAtThreshold
  /\ state = "Closed" => failures = streak
  /\ state = "HalfOpen" => streak >= failure_threshold

(* A breaker whose dependency has recovered closes for good (FairSpec).    *)
ClosesAfterRecovery == <>[]healthy => <>[](state = "Closed")

(* "A single trial call is permitted to probe recovery" (breaker.rs).      *)
AtMostOneTrial ==
  \A c1, c2 \in Caller :
    state = "HalfOpen" /\ call[c1] = "probing" /\ call[c2] = "probing"
      => c1 = c2
=============================================================================
