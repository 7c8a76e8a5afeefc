-------------------------- MODULE RateLimiterClients --------------------------
(***************************************************************************)
(* The rate limiter seen by its clients: an observer counts the calls of   *)
(* every key in a window that may begin at any moment, and every client    *)
(* that has been refused holds the retry_after_sec it was given.           *)
(***************************************************************************)
EXTENDS RateLimiter

CONSTANT MaxWindow     \* quanta the observer watches before it opens a new window

ASSUME WindowAssumption == MaxWindow \in Nat

VARIABLES
    windowLen,         \* quanta since the window opened
    granted,           \* granted[k]: calls of k granted in the window
    retryIn            \* retryIn[k]: quanta k is still to wait, or NoPromise

obsVars == <<windowLen, granted, retryIn>>
cVars == <<vars, obsVars>>

NoPromise == -1

CTypeOK ==
    /\ TypeOK
    /\ windowLen \in 0 .. MaxWindow
    /\ granted \in [Keys -> Nat]
    /\ retryIn \in [Keys -> Nat \union {NoPromise}]

FreshWindow == windowLen' = 0 /\ granted' = [k \in Keys |-> 0]

CInit ==
    /\ Init
    /\ windowLen = 0
    /\ granted = [k \in Keys |-> 0]
    /\ retryIn = [k \in Keys |-> NoPromise]

OpenWindow == FreshWindow /\ UNCHANGED <<vars, retryIn>>

ClientUnlimited(k) == Unlimited(k) /\ UNCHANGED obsVars

\* A granted call voids the promise the key's client may hold: its token is gone.
ClientGranted(k) ==
    /\ Grant(k)
    /\ granted' = [granted EXCEPT ![k] = @ + 1]
    /\ retryIn' = [retryIn EXCEPT ![k] = NoPromise]
    /\ UNCHANGED windowLen

ClientDenied(k) ==
    /\ Deny(k)
    /\ retryIn' = [retryIn EXCEPT ![k] = RetryAfter(k)]
    /\ UNCHANGED <<windowLen, granted>>

ClientTick ==
    /\ windowLen < MaxWindow
    /\ Tick
    /\ windowLen' = windowLen + 1
    /\ retryIn' = [k \in Keys |-> IF retryIn[k] > 0 THEN retryIn[k] - 1 ELSE retryIn[k]]
    /\ UNCHANGED granted

\* reset() gives every key a new, full bucket: counting starts anew.
ClientReset == Reset /\ FreshWindow /\ retryIn' = [k \in Keys |-> NoPromise]

CNext ==
    \/ OpenWindow \/ ClientTick \/ ClientReset
    \/ \E k \in Keys : ClientUnlimited(k) \/ ClientGranted(k) \/ ClientDenied(k)

CSpec == CInit /\ [][CNext]_cVars

-------------------------------------------------------------------------------
(* Properties *)

\* In any window of L seconds, wherever it begins, a key is granted at most
\* rate * (1 + L) calls: one bucketful and what flows in during the window.
WindowBound ==
    \A k \in Limited : granted[k] * Hz <= Rates[k] * (Hz + windowLen)

\* rate_limit.py:98 calls retry_after_sec the time "when next token becomes
\* available". A client that waits it, its bucket untouched by others, finds its next
\* token there up to what half a millisecond refills: the rounding of line 103 may go
\* down and leave the client short, but by no more than that.
PromiseAlmostKept ==
    \A k \in Limited : retryIn[k] = 0 => 2 * (Hz - Refilled(k)) <= Rates[k]
===============================================================================
