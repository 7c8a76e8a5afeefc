---------------------------- MODULE CircuitBreaker ----------------------------
(***************************************************************************)
(* _AsyncCircuitBreaker of couchbase/http_client.py: one instance per      *)
(* HttpClient, shared by every coroutine that uses the cluster.            *)
(*                                                                         *)
(* The asyncio.Lock is never held across a real suspension, so each of the *)
(* three critical sections (admission in `call`, _on_success, _on_failure) *)
(* is one action; the wrapped coroutine runs between them, outside the     *)
(* lock, and any number of callers may be there at once.                   *)
(*                                                                         *)
(* time.monotonic() - _opened_at is modelled by the elapsed time           *)
(* sinceOpened, capped at ResetTimeout: the code only asks whether it has  *)
(* reached ResetTimeout. _fail_count is capped at FailMax + 1 for the same *)
(* reason.                                                                 *)
(***************************************************************************)
EXTENDS Naturals

CONSTANTS
    Callers,       \* concurrent requests of one HttpClient
    FailMax,       \* fail_max (5 in HttpClient)
    ResetTimeout   \* reset_timeout (30 s in HttpClient)

ASSUME BreakerAssumption ==
    /\ FailMax \in Nat \ {0}
    /\ ResetTimeout \in Nat \ {0}

VARIABLES
    state,         \* _state
    failCount,     \* _fail_count
    sinceOpened,   \* time.monotonic() - _opened_at
    calls          \* where each caller is: "idle", "running" func, "refused"

breaker == <<state, failCount, sinceOpened>>
breakerVars == <<state, failCount, sinceOpened, calls>>

States == {"closed", "open", "half_open"}

BreakerTypeOK ==
    /\ state \in States
    /\ failCount \in 0 .. FailMax + 1
    /\ sinceOpened \in 0 .. ResetTimeout
    /\ calls \in [Callers -> {"idle", "running", "refused"}]

Bump(n) == IF n <= FailMax THEN n + 1 ELSE n

TripsLate(n) == n > FailMax          \* mutant: one failure too many

Trips(n) == n >= FailMax

-------------------------------------------------------------------------------
BreakerInit ==
    /\ state = "closed"
    /\ failCount = 0
    /\ sinceOpened \in 0 .. ResetTimeout   \* _opened_at = 0.0: the uptime of the host
    /\ calls = [c \in Callers |-> "idle"]

\* _state once _maybe_half_open has run.
StateAtCall ==
    IF state = "open" /\ sinceOpened >= ResetTimeout THEN "half_open" ELSE state

\* call(): the caller passes the check and starts awaiting func.
Admit(c) ==
    /\ calls[c] # "running"
    /\ StateAtCall # "open"
    /\ state' = StateAtCall
    /\ calls' = [calls EXCEPT ![c] = "running"]
    /\ UNCHANGED <<failCount, sinceOpened>>

RefuseRefreshing(c) ==                     \* mutant: a refusal counts as a failure
    /\ calls[c] # "running"
    /\ StateAtCall = "open"
    /\ sinceOpened' = 0
    /\ calls' = [calls EXCEPT ![c] = "refused"]
    /\ UNCHANGED <<state, failCount>>

\* call(): AnalyticsCircuitOpenError.
Refuse(c) ==
    /\ calls[c] # "running"
    /\ StateAtCall = "open"
    /\ calls' = [calls EXCEPT ![c] = "refused"]
    /\ UNCHANGED breaker

Finish(c) ==
    /\ calls[c] = "running"
    /\ calls' = [calls EXCEPT ![c] = "idle"]

SucceedKeepingCount(c) ==                  \* mutant: forgets _fail_count = 0
    /\ Finish(c)
    /\ state' = "closed"
    /\ UNCHANGED <<failCount, sinceOpened>>

\* func returned: _on_success.
Succeed(c) ==
    /\ Finish(c)
    /\ failCount' = 0
    /\ state' = "closed"
    /\ UNCHANGED sinceOpened

\* func raised an exception that is not excluded: _on_failure.
Fail(c) ==
    /\ Finish(c)
    /\ failCount' = Bump(failCount)
    /\ state' = IF Trips(failCount') THEN "open" ELSE state
    /\ sinceOpened' = IF Trips(failCount') THEN 0 ELSE sinceOpened

\* func raised an excluded exception (a 4xx), or the caller's task was cancelled:
\* CancelledError is no Exception, so neither handler of call() runs.
Excluded(c) == Finish(c) /\ UNCHANGED breaker

\* The clock. Real time never stops, so Tick is the one action with fairness.
Tick ==
    /\ sinceOpened < ResetTimeout
    /\ sinceOpened' = sinceOpened + 1
    /\ UNCHANGED <<state, failCount, calls>>

BreakerNext ==
    \/ \E c \in Callers :
          Admit(c) \/ Refuse(c) \/ Succeed(c) \/ Fail(c) \/ Excluded(c)
    \/ Tick

BreakerSpec == BreakerInit /\ [][BreakerNext]_breakerVars

BreakerFairSpec == BreakerSpec /\ WF_breakerVars(Tick)

-------------------------------------------------------------------------------
(* Properties *)

\* The three-valued state and the failure count never disagree, whichever
\* outcomes of calls admitted under an earlier state arrive late: the breaker is
\* closed exactly while fewer than FailMax failures have been counted, and it is
\* half-open only when the cooldown of the latest trip is over.
BreakerConsistent ==
    /\ state = "closed" <=> failCount < FailMax
    /\ state = "half_open" => sinceOpened >= ResetTimeout

Contract == INSTANCE BreakerContract WITH
    streak <- failCount, sinceTrip <- sinceOpened

\* The state machine of call/_on_success/_on_failure lets exactly those callers
\* through that the contract does: nobody during the cooldown that follows FailMax
\* consecutive failures, everybody otherwise.
ImplementsContract == Contract!Spec

CoolingDown == state = "open" /\ sinceOpened < ResetTimeout

\* Every cooldown ends although each late failure of a call admitted before the
\* trip restarts it: no stream of callers keeps a breaker open for ever.
CooldownEnds == CoolingDown ~> ~CoolingDown
===============================================================================
