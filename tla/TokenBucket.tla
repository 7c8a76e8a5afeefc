------------------------------ MODULE TokenBucket ------------------------------
(***************************************************************************)
(* What rate_limit.py promises for one (token, category): a bucket that    *)
(* holds at most one second's worth of tokens, starts full, gains Rate     *)
(* tokens per second all the time and loses one for every admitted call; a *)
(* call is refused exactly when less than one token is there.              *)
(* The bucket refills itself as time passes; no call is needed for it and  *)
(* no bucket is ever created: see RateLimiter for how the code does it.    *)
(*                                                                         *)
(* Time is counted in quanta of 1/Hz second and token amounts in units of  *)
(* 1/Hz token, so one quantum adds Rate units and one call costs Hz units. *)
(***************************************************************************)
EXTENDS Integers

CONSTANTS
    Keys,          \* (token, category) pairs
    Rates,         \* Rates[k] calls per second; not positive: unlimited
    Hz             \* quanta per second

VARIABLES
    level,         \* level[k]: units in the bucket now
    reply          \* reply[k]: the latest answer, "none", "granted" or "denied"

vars == <<level, reply>>

Cap(k) == Rates[k] * Hz

Init ==
    /\ level = [k \in Keys |-> Cap(k)]
    /\ reply = [k \in Keys |-> "none"]

Answer(k, a) == reply' = [reply EXCEPT ![k] = a]

Unlimited(k) == Rates[k] <= 0 /\ Answer(k, "granted") /\ UNCHANGED level

Grant(k) ==
    /\ Rates[k] > 0
    /\ level[k] >= Hz
    /\ level' = [level EXCEPT ![k] = @ - Hz]
    /\ Answer(k, "granted")

Deny(k) ==
    /\ Rates[k] > 0
    /\ level[k] < Hz
    /\ Answer(k, "denied")
    /\ UNCHANGED level

Gain(k) == IF level[k] + Rates[k] <= Cap(k) THEN level[k] + Rates[k] ELSE Cap(k)

Tick ==
    /\ level' = [k \in Keys |-> IF Rates[k] > 0 THEN Gain(k) ELSE level[k]]
    /\ UNCHANGED reply

Reset ==
    /\ level' = [k \in Keys |-> Cap(k)]
    /\ reply' = [k \in Keys |-> "none"]

Next == Tick \/ Reset \/ \E k \in Keys : Unlimited(k) \/ Grant(k) \/ Deny(k)

Spec == Init /\ [][Next]_vars
================================================================================
