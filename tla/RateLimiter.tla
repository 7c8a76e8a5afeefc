------------------------------ MODULE RateLimiter ------------------------------
(***************************************************************************)
(* RateLimiter of rate_limit.py: one bucket per (token, category), created *)
(* full by the key's first call and refilled lazily, by each call, from    *)
(* the time since the call before it.                                      *)
(*                                                                         *)
(* check() holds its asyncio.Lock without suspending, so it is one action  *)
(* with three outcomes. Time is counted in quanta of 1/Hz second (the code *)
(* rounds retry_after_sec to Hz = 1000) and amounts in units of 1/Hz token *)
(* so that the arithmetic is exact; the rounding of binary floats is not   *)
(* modelled. now - last_refill is capped at one second (Hz quanta): from   *)
(* then on every bucket is full.                                           *)
(***************************************************************************)
EXTENDS Integers

CONSTANTS
    Tokens,        \* client identifiers
    QueryPerSec,   \* rate_limit_query_per_sec
    ReadPerSec,    \* rate_limit_read_per_sec
    WritePerSec,   \* rate_limit_write_per_sec
    Hz             \* quanta per second

ASSUME LimitsAssumption ==
    /\ QueryPerSec \in Int
    /\ ReadPerSec \in Int
    /\ WritePerSec \in Int
    /\ Hz \in Nat \ {0}

VARIABLES
    known,         \* keys that have a bucket: DOMAIN _buckets
    tokens,        \* tokens[k]: bucket.tokens as of bucket.last_refill, in units
    sinceRefill,   \* sinceRefill[k]: now - bucket.last_refill, in quanta
    reply          \* reply[k]: the latest answer of check(k)

vars == <<known, tokens, sinceRefill, reply>>

Categories == {"query", "read", "write"}
Keys == Tokens \X Categories

\* _rate_for
RateFor(category) ==
    CASE category = "query" -> QueryPerSec
      [] category = "read"  -> ReadPerSec
      [] category = "write" -> WritePerSec

Rates == [k \in Keys |-> RateFor(k[2])]
Limited == {k \in Keys : Rates[k] > 0}

Cap(k) == Rates[k] * Hz

TypeOK ==
    /\ known \subseteq Limited
    /\ tokens \in [Keys -> Nat]
    /\ \A k \in known : tokens[k] <= Cap(k)
    /\ sinceRefill \in [Keys -> 0 .. Hz]
    /\ reply \in [Keys -> {"none", "granted", "denied"}]

-------------------------------------------------------------------------------
Init ==
    /\ known = {}
    /\ tokens = [k \in Keys |-> 0]
    /\ sinceRefill = [k \in Keys |-> 0]
    /\ reply = [k \in Keys |-> "none"]

RefilledFromFull(k) ==                     \* mutant: a refill always tops up
    IF k \in known /\ sinceRefill[k] = 0 THEN tokens[k] ELSE Cap(k)

\* bucket.tokens after the refill at the head of check(): a new bucket is full,
\* an old one gains rate * elapsed up to its capacity.
Refilled(k) ==
    IF k \notin known THEN Cap(k)
    ELSE LET gained == tokens[k] + sinceRefill[k] * Rates[k]
         IN  IF gained <= Cap(k) THEN gained ELSE Cap(k)

\* check() leaves `left` units in k's bucket and answers a.
Settle(k, left, a) ==
    /\ known' = known \union {k}
    /\ tokens' = [tokens EXCEPT ![k] = left]
    /\ sinceRefill' = [sinceRefill EXCEPT ![k] = 0]
    /\ reply' = [reply EXCEPT ![k] = a]

\* A rate of zero or less disables the limit; no bucket is made.
Unlimited(k) ==
    /\ k \notin Limited
    /\ reply' = [reply EXCEPT ![k] = "granted"]
    /\ UNCHANGED <<known, tokens, sinceRefill>>

Grant(k) ==
    /\ k \in Limited
    /\ Refilled(k) >= Hz
    /\ Settle(k, Refilled(k) - Hz, "granted")

DenyWithoutRefill(k) ==                    \* mutant: last_refill moves, tokens do not
    /\ k \in Limited
    /\ Refilled(k) < Hz
    /\ Settle(k, tokens[k], "denied")

\* RateLimitExceeded; the refill is kept.
Deny(k) ==
    /\ k \in Limited
    /\ Refilled(k) < Hz
    /\ Settle(k, Refilled(k), "denied")

RoundedDown(n, d) == n \div d            \* mutant: truncates to whole milliseconds

\* Python's round(n / d): to nearest, ties to even.
Rounded(n, d) ==
    LET q == n \div d
        r == n % d
    IN  IF 2 * r > d \/ (2 * r = d /\ q % 2 = 1) THEN q + 1 ELSE q

\* retry_after_sec of a refusal, in quanta: the time to the next whole token,
\* rounded to three decimals.
RetryAfter(k) == Rounded(Hz - Refilled(k), Rates[k])

Tick ==
    /\ sinceRefill' = [k \in Keys |->
                          IF k \in known /\ sinceRefill[k] < Hz
                          THEN sinceRefill[k] + 1 ELSE sinceRefill[k]]
    /\ UNCHANGED <<known, tokens, reply>>

\* reset()
Reset ==
    /\ known' = {}
    /\ tokens' = [k \in Keys |-> 0]
    /\ sinceRefill' = [k \in Keys |-> 0]
    /\ reply' = [k \in Keys |-> "none"]

Check(k) == Unlimited(k) \/ Grant(k) \/ Deny(k)

Next == Tick \/ Reset \/ \E k \in Keys : Check(k)

Spec == Init /\ [][Next]_vars

-------------------------------------------------------------------------------
(* Properties *)

Meter == INSTANCE TokenBucket WITH
    level <- [k \in Keys |-> Refilled(k)]

\* Refilling lazily, at the calls that happen to come, and creating buckets on
\* first use, is indistinguishable from buckets that exist and refill all the time:
\* every call gets the answer the token bucket of its own key gives.
ImplementsTokenBucket == Meter!Spec
===============================================================================
