----------------------------- MODULE ReadonlyQuery -----------------------------
(***************************************************************************)
(* execute_query_readonly_impl of tools/query.py over ResultCache: look    *)
(* the statement up, on a miss await the query, then cache its payload.    *)
(* Lookup, the backend's evaluation and the caching are separate steps:    *)
(* two callers may miss together, and the older of two results may be      *)
(* cached last.                                                            *)
(*                                                                         *)
(* A payload is the version of the data it was computed from. The data     *)
(* changes by execute_query (DML) or by other users of the cluster; a      *)
(* version is out of date since the write after it. HttpClient bounds the  *)
(* time a query can take (timeout and retries) by MaxLatency.              *)
(***************************************************************************)
EXTENDS ResultCache

CONSTANTS
    Clients,        \* concurrent tool calls
    MaxVersion,     \* writes the model considers (bound)
    MaxLatency      \* longest time from sending a query to its response

ASSUME ReadonlyAssumption ==
    /\ MaxVersion \in Nat
    /\ MaxLatency \in Nat
    /\ Values = 0 .. MaxVersion

VARIABLES
    version,        \* version[k]: the data the statement of k reads now
    outdated,       \* outdated[k][v]: time since v was overwritten, capped; 0 if current
    call            \* call[c]: what c's tool call is doing

vars == <<entries, pagination, version, outdated, call>>

Idle == [step |-> "idle"]
Sent(k) == [step |-> "sent", key |-> k, age |-> 0]
Evaluated(k, v, a) == [step |-> "evaluated", key |-> k, result |-> v, age |-> a]

MaxStale == DefaultTtl + MaxLatency

TypeOK ==
    /\ CacheTypeOK
    /\ version \in [QueryKeys -> Values]
    /\ outdated \in [QueryKeys -> [Values -> 0 .. MaxStale + 1]]
    /\ \A c \in Clients :
          \/ call[c] = Idle
          \/ call[c].step \in {"sent", "evaluated"} /\ call[c].age \in 0 .. MaxLatency

-------------------------------------------------------------------------------
Init ==
    /\ CacheInit
    /\ version = [k \in QueryKeys |-> 0]
    /\ outdated = [k \in QueryKeys |-> [v \in Values |-> 0]]
    /\ call = [c \in Clients |-> Idle]

Becomes(c, s) == call' = [call EXCEPT ![c] = s]

FoundRegardless(k) == k \in DOMAIN entries   \* mutant: the expiry is not looked at

\* cache.get has a payload for k, which the tool would return at once.
Found(k) == Live(k)

\* A hit is answered from the cache.
Hit(c, k) ==
    /\ call[c] = Idle
    /\ Found(k)
    /\ Get(k)
    /\ UNCHANGED <<version, outdated, call>>

\* cache.get finds nothing: the query is sent.
Miss(c, k) ==
    /\ call[c] = Idle
    /\ ~Found(k)
    /\ Get(k)
    /\ Becomes(c, Sent(k))
    /\ UNCHANGED <<version, outdated>>

\* The backend computes the result some time before the response is processed.
Evaluate(c) ==
    /\ call[c].step = "sent"
    /\ Becomes(c, Evaluated(call[c].key, version[call[c].key], call[c].age))
    /\ UNCHANGED <<entries, pagination, version, outdated>>

\* The response arrives: cache.set, whatever has been cached or written meanwhile.
Respond(c) ==
    /\ call[c].step = "evaluated"
    /\ Set(call[c].key, call[c].result)
    /\ Becomes(c, Idle)
    /\ UNCHANGED <<version, outdated>>

\* The query fails or the call is cancelled: nothing is cached.
Abort(c) ==
    /\ call[c] # Idle
    /\ Becomes(c, Idle)
    /\ UNCHANGED <<entries, pagination, version, outdated>>

\* The data changes; nothing tells the cache.
Write(k) ==
    /\ version[k] < MaxVersion
    /\ version' = [version EXCEPT ![k] = @ + 1]
    /\ UNCHANGED <<entries, pagination, outdated, call>>

Older(n) == IF n <= MaxStale THEN n + 1 ELSE n

Tick ==
    /\ \A c \in Clients : call[c] # Idle => call[c].age < MaxLatency
    /\ CacheTick
    /\ outdated' = [k \in QueryKeys |-> [v \in Values |->
                       IF v < version[k] THEN Older(outdated[k][v]) ELSE 0]]
    /\ call' = [c \in Clients |->
                   IF call[c] = Idle THEN Idle ELSE [call[c] EXCEPT !.age = @ + 1]]
    /\ UNCHANGED version

Next ==
    \/ \E c \in Clients :
          \/ Evaluate(c) \/ Respond(c) \/ Abort(c)
          \/ \E k \in QueryKeys : Hit(c, k) \/ Miss(c, k)
    \/ \E k \in QueryKeys : Write(k)
    \/ Tick

Spec == Init /\ [][Next]_vars

-------------------------------------------------------------------------------
(* Properties *)

\* However lookups, slow responses, overwrites by older results and writes
\* interleave, no answer, from the cache or from the backend, is computed from data
\* overwritten longer ago than default_ttl plus the time a query may take.
StalenessBound ==
    /\ \A k \in QueryKeys : Found(k) => outdated[k][entries[k].value] <= MaxStale
    /\ \A c \in Clients : call[c].step = "evaluated"
          => outdated[call[c].key][call[c].result] <= MaxLatency
===============================================================================
