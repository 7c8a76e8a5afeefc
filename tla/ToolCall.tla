------------------------------- MODULE ToolCall -------------------------------
(***************************************************************************)
(* call_tool_observed of tools/shared.py, the wrapper every MCP tool runs  *)
(* in: rate limit, then the tool's implementation, then one metric and one *)
(* audit record in `finally`. Calls of many clients interleave at the one  *)
(* await, that of the implementation's request, which ToolCatalog gives.   *)
(* HttpClient's retries and breaker are seen here only by how the request  *)
(* ends.                                                                   *)
(*                                                                         *)
(* No tool passes a client_id, so every call draws on the bucket of the    *)
(* token "anonymous" (shared.py:83). The metrics registry and the audit    *)
(* file are modelled by what the latest call of each client added to them. *)
(***************************************************************************)
EXTENDS Integers, Sequences, ToolCatalog

CONSTANTS
    Clients,        \* callers with at most one tool call each
    QueryPerSec, ReadPerSec, WritePerSec, Hz   \* see RateLimiter

ASSUME CallAssumption ==
    /\ {QueryPerSec, ReadPerSec, WritePerSec} \subseteq Int
    /\ Hz \in Nat \ {0}

\* How a call can end without a request being awaited: the meta tools, a cached result,
\* arguments an implementation refuses, a cluster the pool does not know (ValueError) or
\* a Capella client it does not have (RuntimeError).
UnsentEndings(tool) ==
    CASE tool \in DOMAIN MetaTools         -> {"ok"}
      [] tool = "execute_query_readonly"   -> {"ok", "Exception"}
      [] tool \in {"infer_schema", "execute_query_paginated", "fetch_next_page",
                   "explain_query"}        -> {"AnalyticsError", "Exception"}
      [] OTHER                             -> {"Exception"}

\* All that a call takes from its tool. Tools of the same kind behave alike.
Kinds == {[request |-> RequestOf[t], category |-> CategoryFor(t), unsent |-> UnsentEndings(t)]
          : t \in Tools}

VARIABLES
    known, tokens, sinceRefill, reply,    \* the rate limiter
    running,        \* running[c]: c's call awaits the answer to its request
    request,        \* request[c]: what c's latest call asked of the backend
    applied,        \* applied[c]: the backend has done it
    result,         \* result[c]: how c's latest call ended
    metrics,        \* metrics[c]: outcomes counted for c's latest call
    audit,          \* audit[c]: success flags of the audit records it wrote
    used,           \* history, used[g]: what the calls of category g that ran have used
    verdict         \*   of its budget and time has not given back; and whether the latest ran

limiterVars == <<known, tokens, sinceRefill, reply>>
callVars == <<running, request, applied, result, metrics, audit>>
usage == <<used, verdict>>
vars == <<limiterVars, callVars, usage>>

Anonymous == "anonymous"

Limiter == INSTANCE RateLimiter WITH Tokens <- {Anonymous}

\* What the implementation does to its caller.
Endings == {"ok", "AnalyticsError", "Exception", "CancelledError"}

\* The types of the limiter's variables are its own matter.
TypeOK ==
    /\ running \in [Clients -> BOOLEAN]
    /\ request \in [Clients -> {Nothing} \union {k.request : k \in Kinds}]
    /\ applied \in [Clients -> BOOLEAN]
    /\ result \in [Clients -> Endings \union {"none", "rate_limited"}]
    /\ metrics \in [Clients -> Seq({"success", "error", "rate_limited"})]
    /\ audit \in [Clients -> Seq(BOOLEAN)]
    /\ used \in [Limiter!Categories -> Nat]
    /\ verdict \in [Limiter!Categories -> {"none", "granted", "denied"}]

-------------------------------------------------------------------------------
Key(k) == <<Anonymous, k.category>>

Init ==
    /\ Limiter!Init
    /\ running = [c \in Clients |-> FALSE]
    /\ request = [c \in Clients |-> Nothing]
    /\ applied = [c \in Clients |-> FALSE]
    /\ result = [c \in Clients |-> "none"]
    /\ metrics = [c \in Clients |-> << >>]
    /\ audit = [c \in Clients |-> << >>]
    /\ used = [g \in Limiter!Categories |-> 0]
    /\ verdict = [g \in Limiter!Categories |-> "none"]

(* The history of the calls that ran, kept without looking at the limiter. *)

Rate == [g \in Limiter!Categories |-> Limiter!RateFor(g)]

\* The tool of a call is run: it uses one token's worth, Hz units, of its category.
Uses(k) ==
    /\ used' = IF Rate[k.category] > 0 THEN [used EXCEPT ![k.category] = @ + Hz] ELSE used
    /\ verdict' = [verdict EXCEPT ![k.category] = "granted"]

TurnedAway(k) == verdict' = [verdict EXCEPT ![k.category] = "denied"] /\ UNCHANGED used

\* Each quantum gives back what the category's rate is worth, until nothing is owed.
WearsOff ==
    /\ used' = [g \in Limiter!Categories |->
                   IF Rate[g] > 0 /\ used[g] > Rate[g] THEN used[g] - Rate[g] ELSE 0]
    /\ UNCHANGED verdict

(* The wrapper *)

GrantedUnasked(c, k) ==                 \* mutant: not asked for what a cache may answer
    /\ ~running[c]
    /\ IF "ok" \in k.unsent THEN UNCHANGED limiterVars
       ELSE Limiter!Unlimited(Key(k)) \/ Limiter!Grant(Key(k))
    /\ applied' = [applied EXCEPT ![c] = FALSE]

\* The limiter lets the call through.
Granted(c, k) ==
    /\ ~running[c]
    /\ Limiter!Unlimited(Key(k)) \/ Limiter!Grant(Key(k))
    /\ applied' = [applied EXCEPT ![c] = FALSE]

\* The implementation sends its request and awaits the answer.
Enter(c, k) ==
    /\ k.request # Nothing
    /\ Granted(c, k) /\ Uses(k)
    /\ running' = [running EXCEPT ![c] = TRUE]
    /\ request' = [request EXCEPT ![c] = k.request]
    /\ result' = [result EXCEPT ![c] = "none"]
    /\ metrics' = [metrics EXCEPT ![c] = << >>]
    /\ audit' = [audit EXCEPT ![c] = << >>]

RefusedFallsThrough(c, k) ==            \* mutant: recorded, but not returned
    /\ ~running[c]
    /\ Limiter!Deny(Key(k)) /\ TurnedAway(k)
    /\ running' = [running EXCEPT ![c] = TRUE]
    /\ request' = [request EXCEPT ![c] = k.request]
    /\ applied' = [applied EXCEPT ![c] = FALSE]
    /\ result' = [result EXCEPT ![c] = "none"]
    /\ metrics' = [metrics EXCEPT ![c] = <<"rate_limited">>]
    /\ audit' = [audit EXCEPT ![c] = <<FALSE>>]

\* RateLimitExceeded: recorded and answered without running the tool.
Refused(c, k) ==
    /\ ~running[c]
    /\ Limiter!Deny(Key(k)) /\ TurnedAway(k)
    /\ request' = [request EXCEPT ![c] = Nothing]
    /\ applied' = [applied EXCEPT ![c] = FALSE]
    /\ result' = [result EXCEPT ![c] = "rate_limited"]
    /\ metrics' = [metrics EXCEPT ![c] = <<"rate_limited">>]
    /\ audit' = [audit EXCEPT ![c] = <<FALSE>>]
    /\ UNCHANGED running

SuccessForgetful(e) == e # "AnalyticsError"    \* mutant: not reset by `except Exception`

\* The local `success` when `finally` runs: set to False in both except clauses,
\* neither of which sees a CancelledError. (It is also set to False for an answer
\* with "ok": False, which no tool of the catalogue gives.)
Success(e) == e \notin {"AnalyticsError", "Exception"}

\* The `finally` block.
Finally(c, success) ==
    /\ metrics' = [metrics EXCEPT ![c] = Append(@, IF success THEN "success" ELSE "error")]
    /\ audit' = [audit EXCEPT ![c] = Append(@, success)]

Unsent(c, k, e) ==
    /\ e \in k.unsent
    /\ Granted(c, k) /\ Uses(k)
    /\ request' = [request EXCEPT ![c] = Nothing]
    /\ result' = [result EXCEPT ![c] = e]
    /\ metrics' = [metrics EXCEPT ![c] = <<IF Success(e) THEN "success" ELSE "error">>]
    /\ audit' = [audit EXCEPT ![c] = <<Success(e)>>]
    /\ UNCHANGED running

\* The backend does what a request asks for, before it answers, or never answers.
Apply(c) ==
    /\ running[c]
    /\ request[c].effect \in {"change", "statement"}
    /\ applied' = [applied EXCEPT ![c] = TRUE]
    /\ UNCHANGED <<limiterVars, running, request, result, metrics, audit, usage>>

\* How the request ends: a status below 300, another one, with or without a body, or
\* none. A success is only answered once the request has been applied.
Answers == {"success", "failure", "empty_failure", "nothing"}

Possible(c, answer) ==
    answer = "success" /\ request[c].effect \in {"change", "statement"} => applied[c]

ClusterEndingsLenient(req, answer) ==      \* mutant: an answer without a body is none to raise for
    IF req.body = "swallowed" \/ answer = "empty_failure" THEN {"ok"}
    ELSE IF answer # "success" THEN {"AnalyticsError", "Exception"}
    ELSE IF req.body = "parsed" THEN {"ok", "AnalyticsError", "Exception"}
    ELSE {"ok"}

\* HttpClient raises for every status but 2xx; a body that is parsed may be malformed,
\* or say that the statement failed; a client closed meanwhile raises RuntimeError.
ClusterEndings(req, answer) ==
    IF req.body = "swallowed" THEN {"ok"}
    ELSE IF answer # "success" THEN {"AnalyticsError", "Exception"}
    ELSE IF req.body = "parsed" THEN {"ok", "AnalyticsError", "Exception"}
    ELSE {"ok"}

\* CapellaClient._request returns None for an empty body before it looks at the
\* status; the errors of httpx are passed on as they are.
CapellaEndings(answer) ==
    CASE answer = "success"       -> {"ok", "Exception"}
      [] answer = "failure"       -> {"AnalyticsError"}
      [] answer = "empty_failure" -> {"ok"}
      [] answer = "nothing"       -> {"Exception"}

EndingsOf(c) ==
    {"CancelledError"} \union
    UNION {IF request[c].service = "capella" THEN CapellaEndings(answer)
           ELSE ClusterEndings(request[c], answer)
           : answer \in {x \in Answers : Possible(c, x)}}

\* The implementation returns, raises or is cancelled.
Leave(c, e) ==
    /\ running[c]
    /\ e \in EndingsOf(c)
    /\ running' = [running EXCEPT ![c] = FALSE]
    /\ result' = [result EXCEPT ![c] = e]
    /\ Finally(c, Success(e))
    /\ UNCHANGED <<limiterVars, request, applied, usage>>

Tick == Limiter!Tick /\ WearsOff /\ UNCHANGED callVars

Next ==
    \/ \E c \in Clients :
          \/ \E k \in Kinds :
                \/ Enter(c, k) \/ Refused(c, k)
                \/ \E e \in Endings : Unsent(c, k, e)
          \/ Apply(c)
          \/ \E e \in Endings : Leave(c, e)
    \/ Tick

Spec == Init /\ [][Next]_vars

-------------------------------------------------------------------------------
(* Properties *)

\* docs/observability.md:31: "One record per call regardless of success or failure".
\* A call that has ended, in whatever way, left one audit record and one count, and
\* they tell the same; a call still running has left none.
OneRecordPerCall ==
    \A c \in Clients :
        IF running[c] \/ result[c] = "none" THEN audit[c] = << >> /\ metrics[c] = << >>
        ELSE /\ Len(audit[c]) = 1
             /\ Len(metrics[c]) = 1
             /\ audit[c][1] <=> metrics[c][1] = "success"

\* An error answer is never recorded as a success, and a success never as an error.
\* A cancelled call gives no answer, and is recorded as a success all the same.
AnswersAudited ==
    \A c \in Clients :
        result[c] \notin {"none", "CancelledError"}
            => (audit[c] = <<TRUE>> <=> result[c] = "ok")

Budget == INSTANCE TokenBucket WITH
    Keys <- Limiter!Categories, Rates <- Rate, reply <- verdict,
    level <- [g \in Limiter!Categories |-> Rate[g] * Hz - used[g]]

\* shared.py:83: all clients share the buckets of one token. However their calls overlap,
\* fail, are cancelled or end without a request, the tools that are run in a category
\* drain one token bucket, each by one token and none of them refunded, and a call is
\* turned away only when those that ran have left less than a token in it.
CallsShareBuckets == Budget!Spec

\* Let through by the bucket of a category.
Spends(category) ==
    LET k == <<Anonymous, category>> IN Limiter!Unlimited(k) \/ Limiter!Grant(k)

\* docs/security.md:118: "every mutating tool" is limited as a write. No request that
\* changes a cluster goes out on the budget for reads or queries, except the statements
\* of execute_query, which never go out on the one for reads: however tools are added,
\* and whatever category_for makes of those it does not know.
ChangesSpendWrites ==
    [][\A c \in Clients :
          ~running[c] /\ running'[c] =>
              /\ request'[c].effect = "change" => Spends("write")
              /\ request'[c].effect = "statement" => Spends("query")]_vars

Changed(c) == request[c].effect \in {"change", "statement"}

\* What the audit log tells of a call that was not cancelled can be relied on: a change
\* of a cluster recorded as a success has been made, whatever the cluster answered and
\* however often the request was sent.
AuditedChangesApplied ==
    \A c \in Clients :
        audit[c] = <<TRUE>> /\ result[c] # "CancelledError"
        /\ Changed(c) /\ request[c].service = "cluster"
            => applied[c]
===============================================================================
