--------------------------- MODULE BreakerContract ---------------------------
(***************************************************************************)
(* What the circuit breaker of couchbase/http_client.py promises, stated   *)
(* without its state machine: a caller is let through unless the last      *)
(* FailMax counted outcomes were all failures and fewer than ResetTimeout  *)
(* time units have passed since the latest of those failures.              *)
(* There is no "closed", "open" or "half_open" here: the three-valued      *)
(* state is a way of implementing this rule, see CircuitBreaker.           *)
(***************************************************************************)
EXTENDS Naturals

CONSTANTS
    Callers,       \* concurrent requests of one HttpClient
    FailMax,       \* consecutive failures that trip the breaker
    ResetTimeout   \* time units a tripped breaker refuses callers

VARIABLES
    streak,        \* failures since the last success, capped at FailMax + 1
    sinceTrip,     \* time since the latest tripping failure, capped at ResetTimeout
    calls          \* calls[c] \in {"idle", "running", "refused"}

vars == <<streak, sinceTrip, calls>>

\* One more consecutive failure. The code only compares the count with FailMax,
\* so counting beyond FailMax + 1 distinguishes nothing.
Bump(n) == IF n <= FailMax THEN n + 1 ELSE n

\* The backend has failed FailMax times in a row, not long enough ago.
CoolingDown == streak >= FailMax /\ sinceTrip < ResetTimeout

Init ==
    /\ streak = 0
    /\ sinceTrip \in 0 .. ResetTimeout
    /\ calls = [c \in Callers |-> "idle"]

Admit(c) ==
    /\ calls[c] # "running"
    /\ ~CoolingDown
    /\ calls' = [calls EXCEPT ![c] = "running"]
    /\ UNCHANGED <<streak, sinceTrip>>

Refuse(c) ==
    /\ calls[c] # "running"
    /\ CoolingDown
    /\ calls' = [calls EXCEPT ![c] = "refused"]
    /\ UNCHANGED <<streak, sinceTrip>>

Finish(c) ==
    /\ calls[c] = "running"
    /\ calls' = [calls EXCEPT ![c] = "idle"]

Succeed(c) == Finish(c) /\ streak' = 0 /\ UNCHANGED sinceTrip

Fail(c) ==
    /\ Finish(c)
    /\ streak' = Bump(streak)
    /\ sinceTrip' = IF Bump(streak) >= FailMax THEN 0 ELSE sinceTrip

\* An outcome that says nothing about the backend's health.
Neutral(c) == Finish(c) /\ UNCHANGED <<streak, sinceTrip>>

Tick ==
    /\ sinceTrip < ResetTimeout
    /\ sinceTrip' = sinceTrip + 1
    /\ UNCHANGED <<streak, calls>>

Next ==
    \/ \E c \in Callers :
          Admit(c) \/ Refuse(c) \/ Succeed(c) \/ Fail(c) \/ Neutral(c)
    \/ Tick

Spec == Init /\ [][Next]_vars
==============================================================================
