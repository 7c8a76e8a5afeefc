------------------------------ MODULE HttpClient ------------------------------
(***************************************************************************)
(* HttpClient of couchbase/http_client.py: every request to a cluster goes *)
(* through breaker.call(_do_request), so the retry loop runs INSIDE one    *)
(* breaker call. A request is a sequence of attempts; between two attempts *)
(* its coroutine sleeps (exponential backoff) and others run. The client   *)
(* adds its state to that of its breaker: calls[c] is the request of c as  *)
(* the breaker sees it.                                                    *)
(*                                                                         *)
(* External, modelled by how the code uses it: httpx delivers a response   *)
(* or raises a transport error (at the latest its timeout), tenacity stops *)
(* after max_retries attempts and re-raises the last exception.            *)
(***************************************************************************)
EXTENDS CircuitBreaker

CONSTANTS
    MaxRetries,    \* max_retries, CB_ANALYTICS_MAX_RETRIES
    Statuses       \* HTTP status codes a backend or proxy may answer with

ASSUME HttpAssumption ==
    /\ MaxRetries \in Nat
    /\ Statuses \subseteq 100 .. 599

VARIABLES
    phase,         \* phase[c]: "idle", "awaiting" httpx, "backoff"
    attempt,       \* attempt[c]: attempts begun by c's latest request
    outcome,       \* outcome[c]: what c's latest request returned or raised
    failures       \* history: requests that have failed since one last succeeded

vars == <<breakerVars, phase, attempt, outcome, failures>>

\* tenacity's stop_after_attempt(n) ends after the first attempt when n = 0.
Attempts == IF MaxRetries = 0 THEN 1 ELSE MaxRetries

Outcomes == {"none", "ok", "AnalyticsAuthError", "AnalyticsNotFoundError",
             "AnalyticsRequestError", "AnalyticsServerError",
             "AnalyticsConnectionError", "AnalyticsCircuitOpenError", "CancelledError"}

TypeOK ==
    /\ BreakerTypeOK
    /\ phase \in [Callers -> {"idle", "awaiting", "backoff"}]
    /\ attempt \in [Callers -> 0 .. Attempts]
    /\ outcome \in [Callers -> Outcomes]
    /\ failures \in 0 .. FailMax + 1
    /\ \A c \in Callers : phase[c] = "idle" <=> calls[c] # "running"

-------------------------------------------------------------------------------
(* Status codes *)

\* _map_response_to_exception: every code that is neither 2xx nor 4xx, redirects
\* that cannot be followed included, is a server error.
MapResponse(status) ==
    CASE status \in 200 .. 299                             -> "ok"
      [] status \in {401, 403}                             -> "AnalyticsAuthError"
      [] status = 404                                      -> "AnalyticsNotFoundError"
      [] status \in (400 .. 499) \ {401, 403, 404}         -> "AnalyticsRequestError"
      [] status \notin (200 .. 299) \union (400 .. 499)    -> "AnalyticsServerError"

\* excluded_exceptions of the breaker.
ExcludedExceptions == {"AnalyticsAuthError", "AnalyticsNotFoundError", "AnalyticsRequestError"}

-------------------------------------------------------------------------------
(* The request loop *)

Init ==
    /\ BreakerInit
    /\ phase = [c \in Callers |-> "idle"]
    /\ attempt = [c \in Callers |-> 0]
    /\ outcome = [c \in Callers |-> "none"]
    /\ failures = 0

BeginUnguarded(c) ==                       \* mutant: the breaker is not consulted
    /\ phase[c] = "idle"
    /\ calls' = [calls EXCEPT ![c] = "running"]
    /\ phase' = [phase EXCEPT ![c] = "awaiting"]
    /\ attempt' = [attempt EXCEPT ![c] = 1]
    /\ outcome' = [outcome EXCEPT ![c] = "none"]
    /\ UNCHANGED <<state, failCount, sinceOpened, failures>>

\* _request: the breaker lets the request through, its first attempt is sent.
Begin(c) ==
    /\ phase[c] = "idle"
    /\ Admit(c)
    /\ phase' = [phase EXCEPT ![c] = "awaiting"]
    /\ attempt' = [attempt EXCEPT ![c] = 1]
    /\ outcome' = [outcome EXCEPT ![c] = "none"]
    /\ UNCHANGED failures

\* _request: the breaker refuses, nothing is sent.
Refused(c) ==
    /\ phase[c] = "idle"
    /\ Refuse(c)
    /\ attempt' = [attempt EXCEPT ![c] = 0]
    /\ outcome' = [outcome EXCEPT ![c] = "AnalyticsCircuitOpenError"]
    /\ UNCHANGED <<phase, failures>>

\* failures, kept from what callers are told: a request that has failed for want of a
\* server counts, one that was cancelled or refused by the server (a 4xx) does not.
Failures(o) ==
    CASE o = "ok"                                                       -> 0
      [] o \in {"AnalyticsServerError", "AnalyticsConnectionError"}     -> Bump(failures)
      [] o \notin {"ok", "AnalyticsServerError", "AnalyticsConnectionError"} -> failures

\* The request of c returns or raises o.
End(c, o) ==
    /\ phase' = [phase EXCEPT ![c] = "idle"]
    /\ outcome' = [outcome EXCEPT ![c] = o]
    /\ failures' = Failures(o)
    /\ UNCHANGED attempt

\* The exceptions of one attempt after which tenacity tries again, of those
\* _do_request can raise: the httpx errors its predicate also names have become
\* AnalyticsConnectionError by the time tenacity sees them.
Retryable == {"AnalyticsServerError"}

RetriesAfterOneLess(c, e) ==               \* mutant: one attempt too few
    e \in Retryable /\ attempt[c] + 1 < Attempts

RetriesAfter(c, e) == e \in Retryable /\ attempt[c] < Attempts

\* What the breaker makes of the end of _do_request.
BreakerOutcome(c, o) ==
    \/ o = "ok" /\ Succeed(c)
    \/ o \in ExcludedExceptions /\ Excluded(c)
    \/ o \notin ExcludedExceptions \union {"ok"} /\ Fail(c)

BackOffCounting(c) ==                      \* mutant: every attempt is a call of the breaker
    /\ phase' = [phase EXCEPT ![c] = "backoff"]
    /\ failCount' = Bump(failCount)
    /\ state' = IF Trips(failCount') THEN "open" ELSE state
    /\ sinceOpened' = IF Trips(failCount') THEN 0 ELSE sinceOpened
    /\ UNCHANGED <<calls, attempt, outcome, failures>>

BackOff(c) ==
    /\ phase' = [phase EXCEPT ![c] = "backoff"]
    /\ UNCHANGED <<breakerVars, attempt, outcome, failures>>

\* One attempt ends with "ok" or the exception e, raised inside `with attempt`.
AttemptEnds(c, e) ==
    /\ phase[c] = "awaiting"
    /\ \/ RetriesAfter(c, e) /\ BackOff(c)
       \/ ~RetriesAfter(c, e) /\ BreakerOutcome(c, e) /\ End(c, e)

\* httpx returned a response.
Respond(c, status) == AttemptEnds(c, MapResponse(status))

\* httpx raised: connection refused or reset, read timeout, protocol error.
TransportError(c) == AttemptEnds(c, "AnalyticsConnectionError")

ResumeUncounted(c) ==                      \* mutant: the attempt number is not advanced
    /\ phase[c] = "backoff"
    /\ phase' = [phase EXCEPT ![c] = "awaiting"]
    /\ UNCHANGED <<breakerVars, attempt, outcome, failures>>

\* The backoff sleep is over: the next attempt is sent, whatever the breaker's
\* state has become in the meantime.
Resume(c) ==
    /\ phase[c] = "backoff"
    /\ phase' = [phase EXCEPT ![c] = "awaiting"]
    /\ attempt' = [attempt EXCEPT ![c] = @ + 1]
    /\ UNCHANGED <<breakerVars, outcome, failures>>

\* The caller's task is cancelled while it awaits httpx or sleeps.
Cancel(c) ==
    /\ phase[c] # "idle"
    /\ Excluded(c)
    /\ End(c, "CancelledError")

Elapse == Tick /\ UNCHANGED <<phase, attempt, outcome, failures>>

Next ==
    \/ \E c \in Callers :
          \/ Begin(c) \/ Refused(c) \/ TransportError(c) \/ Resume(c) \/ Cancel(c)
          \/ \E s \in Statuses : Respond(c, s)
    \/ Elapse

Spec == Init /\ [][Next]_vars

\* The event loop runs a coroutine whose sleep is over, and httpx ends every
\* attempt by a response or, at the latest, its timeout. Nobody has to start a
\* request or to cancel one.
FairSpec ==
    /\ Spec
    /\ WF_vars(Elapse)
    /\ \A c \in Callers :
          /\ WF_vars(Resume(c))
          /\ WF_vars(TransportError(c) \/ \E s \in Statuses : Respond(c, s))

-------------------------------------------------------------------------------
(* Properties *)

\* A request as its caller sees it.
Seen(c) ==
    IF phase[c] # "idle" THEN "running"
    ELSE IF outcome[c] = "AnalyticsCircuitOpenError" THEN "refused" ELSE "idle"

Requests == INSTANCE BreakerContract WITH
    streak <- failures, sinceTrip <- sinceOpened, calls <- [c \in Callers |-> Seen(c)]

\* http_client.py:138: "open after 5 consecutive failures", of requests: a request is
\* admitted once and told of once, however many attempts it makes, however long it
\* sleeps between them and whatever others do meanwhile. Counting what the callers were
\* told, they are refused exactly while the breaker's contract says so.
RequestsMeetContract == Requests!Spec

\* Attempts c's request may still make or be making.
Left(c) == IF calls[c] = "running" THEN Attempts + 1 - attempt[c] ELSE 0

\* While the breaker cools down the load on the failing backend only drains: the
\* retry budget of the requests admitted before the trip is all that is left.
CooldownDrains ==
    [][CoolingDown /\ CoolingDown' => \A c \in Callers : Left(c)' <= Left(c)]_vars

\* A caller is told of a server error only after the whole retry budget is spent,
\* whatever other requests did to the breaker while this one was backing off.
ServerErrorSpendsBudget ==
    \A c \in Callers : outcome[c] = "AnalyticsServerError" => attempt[c] = Attempts

\* Every request the breaker lets through ends: no sequence of server errors,
\* backoffs and trips of the breaker keeps it running for ever.
RequestsEnd == \A c \in Callers : calls[c] = "running" ~> calls[c] # "running"

\* docs/configuration.md:30: CB_ANALYTICS_MAX_RETRIES are "Retries on connection
\* error / 5xx". A request that reports a connection error would have spent them;
\* it never has, the error is converted before tenacity's predicate sees it.
ConnectionErrorsRetried ==
    \A c \in Callers :
        outcome[c] = "AnalyticsConnectionError" => attempt[c] = Attempts
===============================================================================
