-------------------------- MODULE RateLimiter_proofs --------------------------
(***************************************************************************)
(* Proofs about RateLimiter for every set of tokens, every rate and every  *)
(* resolution of time: its types, that it implements TokenBucket, and,     *)
(* seen by the observer and the waiting clients of RateLimiterClients, the *)
(* bound on the calls granted in a window and what retry_after_sec is      *)
(* worth.                                                                  *)
(***************************************************************************)
EXTENDS RateLimiterClients, TLAPS

-------------------------------------------------------------------------------
(* Arithmetic *)

\* One more quantum is worth one more rate.
LEMMA OneMoreQuantum == \A s, r \in Int : (s + 1) * r = s * r + r
  OBVIOUS

\* A product of naturals is a natural, and at least each factor the other is not zero of.
LEMMA ProductBounds ==
    \A m, n \in Nat : m * n \in Nat /\ (m > 0 => n <= m * n) /\ m * n = n * m
  OBVIOUS

-------------------------------------------------------------------------------
(* Types *)

\* What holds of the rate and the capacity of a limited key.
LEMMA LimitedKey ==
    ASSUME NEW k \in Limited
    PROVE  /\ k \in Keys
           /\ Rates[k] \in Nat
           /\ Rates[k] > 0
           /\ Cap(k) \in Nat
           /\ Hz <= Cap(k)
           /\ Hz * Rates[k] = Cap(k)
  <1>1. k \in Keys /\ Rates[k] > 0
    BY DEF Limited
  <1>2. k[2] \in Categories
    BY <1>1 DEF Keys
  <1>3. Rates[k] = RateFor(k[2])
    BY <1>1 DEF Rates
  <1>4. Rates[k] \in Int
    BY <1>2, <1>3, LimitsAssumption DEF RateFor, Categories
  <1>5. Rates[k] \in Nat
    BY <1>1, <1>4
  <1>6. Hz \in Nat
    BY LimitsAssumption
  <1> QED BY <1>1, <1>5, <1>6, ProductBounds DEF Cap

\* Bringing a bucket up to date never overfills it.
LEMMA RefilledType ==
    ASSUME TypeOK, NEW k \in Limited
    PROVE  Refilled(k) \in 0 .. Cap(k)
  <1>1. Rates[k] \in Nat /\ Cap(k) \in Nat
    BY LimitedKey
  <1>2. k \in Keys
    BY LimitedKey
  <1>3. tokens[k] \in Nat /\ sinceRefill[k] \in Nat
    BY <1>2, LimitsAssumption DEF TypeOK
  <1>4. sinceRefill[k] * Rates[k] \in Nat
    BY <1>1, <1>3, ProductBounds
  <1> DEFINE flow == sinceRefill[k] * Rates[k]
  <1>5. flow \in Nat
    BY <1>4
  <1>6. Refilled(k) = IF k \notin known THEN Cap(k)
                      ELSE IF tokens[k] + flow <= Cap(k) THEN tokens[k] + flow ELSE Cap(k)
    BY DEF Refilled
  <1> HIDE DEF flow
  <1> QED BY <1>1, <1>3, <1>5, <1>6

LEMMA InitType == Init => TypeOK
  BY LimitsAssumption DEF Init, TypeOK

\* check() leaves its bucket within its bounds.
LEMMA SettleType ==
    ASSUME TypeOK, NEW k \in Limited, NEW left \in 0 .. Cap(k),
           NEW a \in {"none", "granted", "denied"}, Settle(k, left, a)
    PROVE  TypeOK'
  <1>1. k \in Keys /\ Cap(k) \in Nat
    BY LimitedKey
  <1>2. left \in Nat
    BY <1>1
  <1>3. \A j \in known' : tokens'[j] <= Cap(j)
    BY <1>1, <1>2 DEF TypeOK, Settle, Limited
  <1> QED BY <1>1, <1>2, <1>3, LimitsAssumption DEF TypeOK, Settle

LEMMA CheckType ==
    ASSUME TypeOK, NEW k \in Keys, Check(k)
    PROVE  TypeOK'
  <1>1. CASE Unlimited(k)
    BY <1>1 DEF Unlimited, TypeOK
  <1>2. CASE Grant(k)
    <2>1. k \in Limited /\ Refilled(k) >= Hz /\ Settle(k, Refilled(k) - Hz, "granted")
      BY <1>2 DEF Grant
    <2>2. Refilled(k) \in 0 .. Cap(k) /\ Cap(k) \in Nat /\ Hz \in Nat
      BY <2>1, RefilledType, LimitedKey, LimitsAssumption
    <2>3. Refilled(k) - Hz \in 0 .. Cap(k)
      BY <2>1, <2>2
    <2> QED BY <2>1, <2>3, SettleType
  <1>3. CASE Deny(k)
    <2>1. k \in Limited /\ Settle(k, Refilled(k), "denied")
      BY <1>3 DEF Deny
    <2>2. Refilled(k) \in 0 .. Cap(k)
      BY <2>1, RefilledType
    <2> QED BY <2>1, <2>2, SettleType
  <1> QED BY <1>1, <1>2, <1>3 DEF Check

LEMMA TickType == TypeOK /\ Tick => TypeOK'
  BY LimitsAssumption DEF TypeOK, Tick

LEMMA NextType == TypeOK /\ [Next]_vars => TypeOK'
  <1> SUFFICES ASSUME TypeOK, [Next]_vars PROVE TypeOK'
    OBVIOUS
  <1>1. CASE Tick
    BY <1>1, TickType
  <1>2. CASE Reset
    BY <1>2, LimitsAssumption DEF Reset, TypeOK
  <1>3. ASSUME NEW k \in Keys, Check(k) PROVE TypeOK'
    BY <1>3, CheckType
  <1>4. CASE UNCHANGED vars
    BY <1>4 DEF vars, TypeOK
  <1> QED BY <1>1, <1>2, <1>3, <1>4 DEF Next

\* No bucket ever holds more than its capacity or less than nothing, and buckets
\* exist only for categories with a positive rate.
THEOREM TypeCorrect == Spec => []TypeOK
  BY InitType, NextType, PTL DEF Spec

-------------------------------------------------------------------------------
(* Refinement *)

\* What every key's bucket would hold were it brought up to date now.
Levels == [k \in Keys |-> Refilled(k)]

LEMMA RateType == \A k \in Keys : Rates[k] \in Int
  <1> SUFFICES ASSUME NEW k \in Keys PROVE Rates[k] \in Int
    OBVIOUS
  <1>1. k[2] \in Categories /\ Rates[k] = RateFor(k[2])
    BY DEF Keys, Rates
  <1> QED BY <1>1, LimitsAssumption DEF RateFor, Categories

\* Settling one bucket moves its own level only.
LEMMA SettleLevel ==
    ASSUME TypeOK, NEW k \in Limited, NEW left \in 0 .. Cap(k), NEW a, Settle(k, left, a)
    PROVE  Levels' = [Levels EXCEPT ![k] = left]
  <1>1. k \in Keys /\ Cap(k) \in Nat /\ Rates[k] \in Nat
    BY LimitedKey
  <1>2. Refilled(k)' = left
    <2>1. k \in known' /\ tokens'[k] = left /\ sinceRefill'[k] = 0
      BY <1>1 DEF Settle, TypeOK
    <2>2. 0 * Rates[k] = 0
      BY <1>1
    <2>3. left \in Nat /\ left + 0 = left /\ left <= Cap(k)
      BY <1>1
    <2> QED BY <2>1, <2>2, <2>3 DEF Refilled, Cap
  <1>3. ASSUME NEW j \in Keys, j # k PROVE Refilled(j)' = Refilled(j)
    <2>1. /\ j \in known' <=> j \in known
          /\ tokens'[j] = tokens[j]
          /\ sinceRefill'[j] = sinceRefill[j]
      BY <1>3 DEF Settle, TypeOK
    <2> QED BY <2>1 DEF Refilled, Cap
  <1> QED BY <1>1, <1>2, <1>3 DEF Levels

LEMMA CheckRefines ==
    ASSUME TypeOK, NEW k \in Keys, Check(k)
    PROVE  Meter!Next
  <1>1. CASE Unlimited(k)
    <2>1. Rates[k] <= 0
      BY <1>1, RateType DEF Unlimited, Limited
    <2>2. Levels' = Levels
      BY <1>1 DEF Unlimited, Levels, Refilled
    <2>3. Meter!Unlimited(k)
      BY <1>1, <2>1, <2>2 DEF Unlimited, Meter!Unlimited, Meter!Answer, Levels
    <2> QED BY <2>3 DEF Meter!Next
  <1>2. CASE Grant(k)
    <2>1. k \in Limited /\ Refilled(k) >= Hz /\ Settle(k, Refilled(k) - Hz, "granted")
      BY <1>2 DEF Grant
    <2>2. /\ Refilled(k) \in 0 .. Cap(k)
          /\ Cap(k) \in Nat /\ Hz \in Nat /\ Rates[k] > 0
      BY <2>1, RefilledType, LimitedKey, LimitsAssumption
    <2>3. Refilled(k) - Hz \in 0 .. Cap(k)
      BY <2>1, <2>2
    <2>4. Levels' = [Levels EXCEPT ![k] = Refilled(k) - Hz]
      BY <2>1, <2>3, SettleLevel
    <2>5. Levels[k] = Refilled(k)
      BY DEF Levels
    <2>6. Levels' = [Levels EXCEPT ![k] = @ - Hz]
      BY <2>4, <2>5
    <2>7. Meter!Grant(k)
      BY <2>1, <2>2, <2>5, <2>6 DEF Settle, Meter!Grant, Meter!Answer, Levels
    <2> QED BY <2>7 DEF Meter!Next
  <1>3. CASE Deny(k)
    <2>1. k \in Limited /\ Refilled(k) < Hz /\ Settle(k, Refilled(k), "denied")
      BY <1>3 DEF Deny
    <2>2. Refilled(k) \in 0 .. Cap(k) /\ Rates[k] > 0
      BY <2>1, RefilledType, LimitedKey
    <2>3. Levels' = [Levels EXCEPT ![k] = Refilled(k)]
      BY <2>1, <2>2, SettleLevel
    <2>4. Levels[k] = Refilled(k)
      BY DEF Levels
    <2>5. Levels' = Levels
      BY <2>3, <2>4 DEF Levels
    <2>6. Meter!Deny(k)
      BY <2>1, <2>2, <2>4, <2>5 DEF Settle, Meter!Deny, Meter!Answer, Levels
    <2> QED BY <2>6 DEF Meter!Next
  <1> QED BY <1>1, <1>2, <1>3 DEF Check

\* In one quantum a bucket that would have been brought up to date before it gains
\* exactly what one brought up to date after it does.
LEMMA TickLevel ==
    ASSUME TypeOK, Tick, NEW k \in Limited
    PROVE  Refilled(k)' = IF Refilled(k) + Rates[k] <= Cap(k)
                          THEN Refilled(k) + Rates[k] ELSE Cap(k)
  <1>1. /\ k \in Keys /\ Rates[k] \in Nat /\ Rates[k] > 0
        /\ Cap(k) \in Nat /\ Hz * Rates[k] = Cap(k)
    BY LimitedKey
  <1>2. CASE k \notin known
    BY <1>1, <1>2 DEF Tick, Refilled, Cap
  <1>3. CASE k \in known
    <2>1. tokens[k] \in Nat /\ sinceRefill[k] \in 0 .. Hz /\ Hz \in Nat
      BY <1>1, LimitsAssumption DEF TypeOK
    <2> DEFINE flow == sinceRefill[k] * Rates[k]
    <2>2. flow \in Nat /\ (sinceRefill[k] + 1) * Rates[k] = flow + Rates[k]
      BY <1>1, <2>1, ProductBounds, OneMoreQuantum
    <2>3. Refilled(k) = IF tokens[k] + flow <= Cap(k) THEN tokens[k] + flow ELSE Cap(k)
      BY <1>3 DEF Refilled
    <2>4. CASE sinceRefill[k] < Hz
      <3>1. k \in known' /\ tokens'[k] = tokens[k] /\ sinceRefill'[k] = sinceRefill[k] + 1
        BY <1>1, <1>3, <2>4 DEF Tick
      <3>2. Refilled(k)' = IF tokens[k] + (flow + Rates[k]) <= Cap(k)
                           THEN tokens[k] + (flow + Rates[k]) ELSE Cap(k)
        BY <3>1, <2>2 DEF Refilled, Cap
      <3> HIDE DEF flow
      <3> QED BY <1>1, <2>1, <2>2, <2>3, <3>2
    <2>5. CASE sinceRefill[k] = Hz
      <3>1. k \in known' /\ tokens'[k] = tokens[k] /\ sinceRefill'[k] = sinceRefill[k]
        BY <1>1, <1>3, <2>1, <2>5 DEF Tick
      <3>2. Refilled(k)' = Refilled(k)
        BY <3>1, <1>3 DEF Refilled, Cap
      <3>3. flow = Cap(k)
        BY <1>1, <2>5
      <3> HIDE DEF flow
      <3>4. Refilled(k) = Cap(k)
        BY <1>1, <2>1, <2>3, <3>3
      <3> QED BY <1>1, <3>2, <3>4
    <2> QED BY <2>1, <2>4, <2>5
  <1> QED BY <1>2, <1>3

LEMMA TickRefines == TypeOK /\ Tick => Meter!Tick
  <1> SUFFICES ASSUME TypeOK, Tick PROVE Meter!Tick
    OBVIOUS
  <1>1. ASSUME NEW k \in Keys
        PROVE  Refilled(k)' = IF Rates[k] > 0
                              THEN IF Refilled(k) + Rates[k] <= Cap(k)
                                   THEN Refilled(k) + Rates[k] ELSE Cap(k)
                              ELSE Refilled(k)
    <2>1. CASE k \in Limited
      BY <2>1, TickLevel DEF Limited
    <2>2. CASE k \notin Limited
      <3>1. k \notin known /\ k \notin known' /\ ~(Rates[k] > 0)
        BY <2>2 DEF TypeOK, Tick, Limited
      <3> QED BY <3>1 DEF Refilled, Cap
    <2> QED BY <2>1, <2>2
  <1>2. Levels' = [k \in Keys |-> IF Rates[k] > 0 THEN Meter!Gain(k) ELSE Levels[k]]
    BY <1>1 DEF Levels, Meter!Gain, Meter!Cap, Cap
  <1> QED BY <1>2 DEF Meter!Tick, Tick, Levels

LEMMA StepRefines == TypeOK /\ [Next]_vars => [Meter!Next]_(Meter!vars)
  <1> SUFFICES ASSUME TypeOK, [Next]_vars
               PROVE  Meter!Next \/ UNCHANGED Meter!vars
    OBVIOUS
  <1>1. CASE Tick
    BY <1>1, TickRefines DEF Meter!Next
  <1>2. CASE Reset
    <2>1. Meter!Reset
      BY <1>2 DEF Reset, Meter!Reset, Meter!Cap, Refilled, Cap
    <2> QED BY <2>1 DEF Meter!Next
  <1>3. ASSUME NEW k \in Keys, Check(k) PROVE Meter!Next
    BY <1>3, CheckRefines
  <1>4. CASE UNCHANGED vars
    BY <1>4 DEF vars, Meter!vars, Refilled
  <1> QED BY <1>1, <1>2, <1>3, <1>4 DEF Next

\* Buckets created by their key's first call and refilled by the calls that happen to
\* come answer every call as buckets do that exist and refill all the time.
THEOREM Refinement == Spec => ImplementsTokenBucket
  <1>1. Init => Meter!Init
    BY DEF Init, Meter!Init, Meter!Cap, Refilled, Cap
  <1>2. TypeOK /\ [Next]_vars => [Meter!Next]_(Meter!vars)
    BY StepRefines
  <1> QED BY TypeCorrect, <1>1, <1>2, PTL DEF Spec, ImplementsTokenBucket, Meter!Spec

-------------------------------------------------------------------------------
(* The limiter seen by its clients *)

\* Every step of the observed limiter is a step of the limiter or leaves it alone.
LEMMA ObservedStep == [CNext]_cVars => [Next]_vars
  BY DEF CNext, cVars, OpenWindow, ClientTick, ClientReset, ClientUnlimited,
         ClientGranted, ClientDenied, Next, Check

\* WindowBound counts calls only. To be inductive it has to count what is still in
\* the bucket as well: calls granted and units left never exceed one bucketful and
\* what has flown in since the window opened.
Budget ==
    \A k \in Limited :
        granted[k] * Hz + Refilled(k) <= Cap(k) + windowLen * Rates[k]

CInv ==
    /\ TypeOK
    /\ windowLen \in Nat
    /\ granted \in [Keys -> Nat]
    /\ Budget

\* A window that opens finds at most one bucketful.
LEMMA FreshBudget ==
    ASSUME TypeOK', granted' = [k \in Keys |-> 0], windowLen' = 0
    PROVE  Budget'
  <1> SUFFICES ASSUME NEW k \in Limited
               PROVE  granted'[k] * Hz + Refilled(k)' <= Cap(k) + windowLen' * Rates[k]
    BY DEF Budget, Limited, Cap
  <1>1. k \in Keys /\ Rates[k] \in Nat /\ Cap(k) \in Nat /\ Hz \in Nat
    BY LimitedKey, LimitsAssumption
  <1>2. granted'[k] * Hz = 0 /\ windowLen' * Rates[k] = 0
    BY <1>1
  <1>3. k \in known' => tokens'[k] \in Nat /\ sinceRefill'[k] \in Nat
    BY <1>1 DEF TypeOK
  <1>4. k \in known' => sinceRefill'[k] * Rates[k] \in Nat
    BY <1>1, <1>3, ProductBounds
  <1>5. Refilled(k)' = IF k \notin known' THEN Cap(k)
                       ELSE IF tokens'[k] + sinceRefill'[k] * Rates[k] <= Cap(k)
                            THEN tokens'[k] + sinceRefill'[k] * Rates[k] ELSE Cap(k)
    BY DEF Refilled, Cap
  <1> DEFINE flow == sinceRefill'[k] * Rates[k]
  <1> HIDE DEF flow
  <1>6. Refilled(k)' \in 0 .. Cap(k)
    BY <1>1, <1>3, <1>4, <1>5 DEF flow
  <1> QED BY <1>1, <1>2, <1>6

\* A granted call moves one token from the bucket to the count.
LEMMA GrantBudget ==
    ASSUME CInv, NEW k \in Keys, ClientGranted(k)
    PROVE  Budget'
  <1>1. k \in Limited /\ Refilled(k) >= Hz /\ Settle(k, Refilled(k) - Hz, "granted")
    BY DEF ClientGranted, Grant
  <1>2. Refilled(k) \in 0 .. Cap(k) /\ Cap(k) \in Nat /\ Hz \in Nat
    BY <1>1, RefilledType, LimitedKey, LimitsAssumption DEF CInv
  <1>3. Levels' = [Levels EXCEPT ![k] = Refilled(k) - Hz]
    BY <1>1, <1>2, SettleLevel DEF CInv
  <1>4. ASSUME NEW j \in Limited
        PROVE  granted'[j] * Hz + Refilled(j)' <= Cap(j) + windowLen' * Rates[j]
    <2>1. /\ j \in Keys
          /\ granted[j] \in Nat
          /\ granted[j] * Hz + Refilled(j) <= Cap(j) + windowLen * Rates[j]
          /\ windowLen' = windowLen
      BY LimitedKey DEF CInv, Budget, ClientGranted
    <2>2. CASE j = k
      <3>1. granted'[j] = granted[j] + 1 /\ Refilled(j)' = Refilled(j) - Hz
        BY <1>3, <2>1, <2>2 DEF ClientGranted, CInv, Levels
      <3>2. (granted[j] + 1) * Hz = granted[j] * Hz + Hz
        BY <1>2, <2>1, OneMoreQuantum
      <3>3. granted[j] * Hz \in Int /\ Refilled(j) \in Int
        BY <1>2, <2>1, <2>2, ProductBounds
      <3> QED BY <1>2, <2>1, <3>1, <3>2, <3>3
    <2>3. CASE j # k
      <3>1. granted'[j] = granted[j] /\ Refilled(j)' = Refilled(j)
        BY <1>3, <2>1, <2>3 DEF ClientGranted, CInv, Levels
      <3> QED BY <2>1, <3>1
    <2> QED BY <2>2, <2>3
  <1> QED BY <1>4 DEF Budget, Limited, Cap

\* A quantum adds at most its rate to the bucket, and exactly its rate to the bound.
LEMMA TickBudget ==
    ASSUME CInv, ClientTick
    PROVE  Budget'
  <1>1. ASSUME NEW k \in Limited
        PROVE  granted'[k] * Hz + Refilled(k)' <= Cap(k) + windowLen' * Rates[k]
    <2>1. /\ k \in Keys /\ Rates[k] \in Nat /\ Cap(k) \in Nat /\ Hz \in Nat
          /\ windowLen \in Nat
          /\ granted[k] \in Nat
      BY LimitedKey, LimitsAssumption DEF CInv
    <2>2. /\ granted' = granted
          /\ windowLen' = windowLen + 1
          /\ granted[k] * Hz + Refilled(k) <= Cap(k) + windowLen * Rates[k]
      BY DEF CInv, Budget, ClientTick
    <2>3. Refilled(k) \in 0 .. Cap(k)
      BY RefilledType DEF CInv
    <2>4. Refilled(k)' \in Int /\ Refilled(k)' <= Refilled(k) + Rates[k]
      BY <2>1, <2>3, TickLevel DEF CInv, ClientTick
    <2>5. windowLen' * Rates[k] = windowLen * Rates[k] + Rates[k]
      BY <2>1, <2>2, OneMoreQuantum
    <2>6. granted[k] * Hz \in Int /\ windowLen * Rates[k] \in Int
      BY <2>1, ProductBounds
    <2> QED BY <2>1, <2>2, <2>3, <2>4, <2>5, <2>6
  <1> QED BY <1>1 DEF Budget, Limited, Cap

LEMMA CInitInv == CInit => CInv
  <1> SUFFICES ASSUME CInit PROVE CInv
    OBVIOUS
  <1>1. TypeOK
    BY InitType DEF CInit
  <1>2. ASSUME NEW k \in Limited
        PROVE  granted[k] * Hz + Refilled(k) <= Cap(k) + windowLen * Rates[k]
    <2>1. k \in Keys /\ Rates[k] \in Nat /\ Cap(k) \in Nat /\ Hz \in Nat
      BY LimitedKey, LimitsAssumption
    <2>2. granted[k] * Hz = 0 /\ windowLen * Rates[k] = 0
      BY <2>1 DEF CInit
    <2>3. Refilled(k) \in 0 .. Cap(k)
      BY <1>1, RefilledType
    <2> QED BY <2>1, <2>2, <2>3
  <1> QED BY <1>1, <1>2 DEF CInit, CInv, Budget

LEMMA CNextInv == CInv /\ [CNext]_cVars => CInv'
  <1> SUFFICES ASSUME CInv, [CNext]_cVars PROVE CInv'
    OBVIOUS
  <1>1. TypeOK'
    BY ObservedStep, NextType DEF CInv
  <1>2. windowLen' \in Nat /\ granted' \in [Keys -> Nat]
    BY DEF CInv, CNext, cVars, obsVars, OpenWindow, FreshWindow, ClientTick, ClientReset,
           ClientUnlimited, ClientGranted, ClientDenied
  <1>3. Budget'
    <2>1. CASE OpenWindow \/ ClientReset
      BY <1>1, <2>1, FreshBudget DEF OpenWindow, ClientReset, FreshWindow
    <2>2. CASE ClientTick
      BY <2>2, TickBudget
    <2>3. ASSUME NEW k \in Keys, ClientGranted(k) PROVE Budget'
      BY <2>3, GrantBudget
    <2>4. ASSUME NEW k \in Keys, ClientDenied(k) PROVE Budget'
      <3>1. k \in Limited /\ Settle(k, Refilled(k), "denied") /\ Refilled(k) \in 0 .. Cap(k)
        BY <2>4, RefilledType DEF ClientDenied, Deny, CInv
      <3>2. Levels' = [Levels EXCEPT ![k] = Refilled(k)]
        BY <3>1, SettleLevel DEF CInv
      <3>3. \A j \in Keys : Refilled(j)' = Refilled(j)
        BY <3>2 DEF Levels
      <3> QED BY <2>4, <3>3 DEF CInv, Budget, ClientDenied, Limited, Cap
    <2>5. CASE UNCHANGED cVars \/ \E k \in Keys : ClientUnlimited(k)
      BY <2>5 DEF CInv, Budget, cVars, vars, obsVars, ClientUnlimited, Unlimited,
                  Refilled, Cap, Limited
    <2> QED BY <2>1, <2>2, <2>3, <2>4, <2>5 DEF CNext
  <1> QED BY <1>1, <1>2, <1>3 DEF CInv

\* However a key's calls are spread, and whenever the window opens, a window of L
\* seconds sees at most rate * (1 + L) of them granted.
THEOREM Bounded == CSpec => []WindowBound
  <1>1. CInv => WindowBound
    <2> SUFFICES ASSUME CInv, NEW k \in Limited
                 PROVE  granted[k] * Hz <= Rates[k] * (Hz + windowLen)
      BY DEF WindowBound
    <2>1. /\ k \in Keys /\ Rates[k] \in Nat /\ Cap(k) \in Nat /\ Hz \in Nat
          /\ windowLen \in Nat
          /\ granted[k] \in Nat
          /\ granted[k] * Hz + Refilled(k) <= Cap(k) + windowLen * Rates[k]
      BY LimitedKey, LimitsAssumption DEF CInv, Budget
    <2>2. Refilled(k) \in 0 .. Cap(k)
      BY RefilledType DEF CInv
    <2>3. Rates[k] * (Hz + windowLen) = Cap(k) + windowLen * Rates[k]
      BY <2>1 DEF Cap
    <2>4. granted[k] * Hz \in Int /\ windowLen * Rates[k] \in Int
      BY <2>1, ProductBounds
    <2> QED BY <2>1, <2>2, <2>3, <2>4
  <1> QED BY CInitInv, CNextInv, <1>1, PTL DEF CSpec

\* Waiting is always for some whole number of quanta.
LEMMA RetryAfterType ==
    ASSUME TypeOK, NEW k \in Limited, Refilled(k) < Hz
    PROVE  RetryAfter(k) \in Nat
  <1>1. Rates[k] \in Nat \ {0}
    BY LimitedKey DEF Limited
  <1>2. Hz - Refilled(k) \in Nat
    BY RefilledType, LimitedKey, LimitsAssumption
  <1>3. \A n \in Nat, d \in Nat \ {0} : n \div d \in Nat
    OBVIOUS
  <1>4. \A n \in Nat, d \in Nat \ {0} : Rounded(n, d) \in Nat
    BY <1>3 DEF Rounded
  <1> QED BY <1>1, <1>2, <1>4 DEF RetryAfter

\* The variables of the observer and of its clients keep their types.
THEOREM ObservedTypes == CSpec => []CTypeOK
  <1>1. CInit => CTypeOK
    BY InitType, WindowAssumption DEF CInit, CTypeOK
  <1>2. ASSUME CTypeOK, [CNext]_cVars PROVE CTypeOK'
    <2>1. TypeOK'
      BY <1>2, ObservedStep, NextType DEF CTypeOK
    <2>2. windowLen' \in 0 .. MaxWindow /\ granted' \in [Keys -> Nat]
      BY <1>2, WindowAssumption
         DEF CTypeOK, CNext, cVars, obsVars, OpenWindow, FreshWindow, ClientTick, ClientReset,
             ClientUnlimited, ClientGranted, ClientDenied
    <2>3. retryIn' \in [Keys -> Nat \union {NoPromise}]
      <3>1. ASSUME NEW k \in Keys, ClientDenied(k) PROVE retryIn' \in [Keys -> Nat \union {NoPromise}]
        <4>1. RetryAfter(k) \in Nat
          BY <1>2, <3>1, RetryAfterType DEF ClientDenied, Deny, CTypeOK
        <4> QED BY <1>2, <3>1, <4>1 DEF ClientDenied, CTypeOK
      <3>2. ASSUME ClientTick PROVE retryIn' \in [Keys -> Nat \union {NoPromise}]
        BY <1>2, <3>2 DEF ClientTick, CTypeOK, NoPromise
      <3>3. ASSUME NEW k \in Keys, ClientGranted(k)
            PROVE  retryIn' \in [Keys -> Nat \union {NoPromise}]
        BY <1>2, <3>3 DEF ClientGranted, CTypeOK
      <3> QED BY <1>2, <3>1, <3>2, <3>3
              DEF CNext, cVars, vars, obsVars, OpenWindow, ClientReset, ClientUnlimited, CTypeOK
    <2> QED BY <2>1, <2>2, <2>3 DEF CTypeOK
  <1> QED BY <1>1, <1>2, PTL DEF CSpec

-------------------------------------------------------------------------------
(* What retry_after_sec promises *)

\* Rounding to the nearest quantum falls short by half a quantum at most.
LEMMA RoundedShort ==
    ASSUME NEW n \in Nat, NEW d \in Nat \ {0}
    PROVE  2 * n <= 2 * (Rounded(n, d) * d) + d
  <1> DEFINE q == n \div d
             r == n % d
             whole == q * d
  <1>1. q \in Nat /\ r \in 0 .. d - 1
    OBVIOUS
  <1>2. n = whole + r
    OBVIOUS
  <1>3. whole \in Nat /\ (q + 1) * d = whole + d
    BY <1>1, OneMoreQuantum, ProductBounds
  <1>4. \/ Rounded(n, d) = q + 1
        \/ Rounded(n, d) = q /\ 2 * r <= d
    BY <1>1 DEF Rounded
  <1> HIDE DEF r
  <1>5. CASE Rounded(n, d) = q + 1
    <2>1. Rounded(n, d) * d = whole + d
      BY <1>3, <1>5
    <2> HIDE DEF q, whole
    <2> QED BY <1>1, <1>2, <1>3, <2>1
  <1>6. CASE Rounded(n, d) = q /\ 2 * r <= d
    <2>1. Rounded(n, d) * d = whole
      BY <1>6
    <2> HIDE DEF q, whole
    <2> QED BY <1>1, <1>2, <1>3, <1>6, <2>1
  <1> QED BY <1>4, <1>5, <1>6

\* PromiseAlmostKept speaks of promises that are due. Its strengthening speaks of all:
\* what flows in while the client waits pays the rest, up to half a quantum.
Owed(k) == 2 * (Hz - Refilled(k)) <= 2 * (retryIn[k] * Rates[k]) + Rates[k]
PromiseInv == CTypeOK /\ \A k \in Limited : retryIn[k] # NoPromise => Owed(k)

\* A refusal makes a promise that is good.
LEMMA DeniedOwed ==
    ASSUME CTypeOK, NEW k \in Limited, ClientDenied(k)
    PROVE  Owed(k)'
  <1>1. /\ Refilled(k) < Hz /\ Settle(k, Refilled(k), "denied")
        /\ k \in Keys /\ retryIn'[k] = RetryAfter(k)
    BY LimitedKey DEF ClientDenied, Deny, CTypeOK
  <1>2. Rates[k] \in Nat \ {0} /\ Hz \in Nat /\ Refilled(k) \in 0 .. Cap(k)
    BY LimitedKey, RefilledType, LimitsAssumption DEF CTypeOK
  <1>3. Refilled(k)' = Refilled(k)
    BY <1>1, <1>2, SettleLevel DEF CTypeOK, Levels
  <1>4. Hz - Refilled(k) \in Nat
    BY <1>1, <1>2, LimitedKey
  <1>5. 2 * (Hz - Refilled(k)) <= 2 * (RetryAfter(k) * Rates[k]) + Rates[k]
    BY <1>2, <1>4, RoundedShort DEF RetryAfter
  <1> QED BY <1>1, <1>3, <1>5 DEF Owed

\* A quantum of waiting pays for a quantum of the promise.
LEMMA TickOwed ==
    ASSUME CTypeOK, ClientTick, NEW k \in Limited, retryIn[k] # NoPromise, Owed(k)
    PROVE  Owed(k)'
  <1>1. /\ k \in Keys /\ Rates[k] \in Nat /\ Rates[k] > 0 /\ Cap(k) \in Nat
        /\ Hz <= Cap(k) /\ Hz \in Nat
    BY LimitedKey, LimitsAssumption
  <1>2. Refilled(k) \in 0 .. Cap(k) /\ retryIn[k] \in Nat
    BY <1>1, RefilledType DEF CTypeOK
  <1>3. Refilled(k)' = IF Refilled(k) + Rates[k] <= Cap(k)
                       THEN Refilled(k) + Rates[k] ELSE Cap(k)
    BY TickLevel DEF CTypeOK, ClientTick
  <1>4. 2 * (Hz - Refilled(k)) <= 2 * (retryIn[k] * Rates[k]) + Rates[k]
    BY DEF Owed
  <1>5. retryIn'[k] = IF retryIn[k] > 0 THEN retryIn[k] - 1 ELSE retryIn[k]
    BY <1>1 DEF ClientTick
  <1>6. retryIn'[k] \in Nat /\ retryIn'[k] * Rates[k] \in Nat
    BY <1>1, <1>2, <1>5, ProductBounds
  <1>7. CASE retryIn[k] > 0
    <2>1. retryIn[k] * Rates[k] = retryIn'[k] * Rates[k] + Rates[k]
      BY <1>1, <1>2, <1>5, <1>7, OneMoreQuantum
    <2> QED BY <1>1, <1>2, <1>3, <1>4, <1>6, <2>1 DEF Owed
  <1>8. CASE retryIn[k] = 0
    <2>1. retryIn'[k] * Rates[k] = retryIn[k] * Rates[k]
      BY <1>5, <1>8
    <2> QED BY <1>1, <1>2, <1>3, <1>4, <1>6, <2>1 DEF Owed
  <1> QED BY <1>2, <1>7, <1>8

LEMMA PromiseStep == PromiseInv /\ CTypeOK' /\ [CNext]_cVars => PromiseInv'
  <1> SUFFICES ASSUME PromiseInv, CTypeOK', [CNext]_cVars,
                      NEW k \in Limited, retryIn'[k] # NoPromise
               PROVE  Owed(k)'
    BY DEF PromiseInv, Limited
  <1>0. CTypeOK /\ k \in Keys /\ (retryIn[k] # NoPromise => Owed(k))
    BY LimitedKey DEF PromiseInv
  <1>1. CASE OpenWindow
    BY <1>0, <1>1 DEF OpenWindow, vars, Owed, Refilled, Cap
  <1>2. CASE ClientTick
    BY <1>0, <1>2, TickOwed DEF ClientTick, CTypeOK, NoPromise
  <1>3. CASE ClientReset
    BY <1>0, <1>3 DEF ClientReset
  <1>4. ASSUME NEW j \in Keys, ClientUnlimited(j) PROVE Owed(k)'
    BY <1>0, <1>4 DEF ClientUnlimited, Unlimited, obsVars, Owed, Refilled, Cap
  <1>5. ASSUME NEW j \in Keys, ClientGranted(j) PROVE Owed(k)'
    <2>1. j # k /\ retryIn'[k] = retryIn[k]
      BY <1>0, <1>5 DEF ClientGranted, CTypeOK
    <2>2. j \in Limited /\ Refilled(j) >= Hz /\ Settle(j, Refilled(j) - Hz, "granted")
      BY <1>5 DEF ClientGranted, Grant
    <2>3. Refilled(j) - Hz \in 0 .. Cap(j)
      BY <1>0, <2>2, RefilledType, LimitedKey, LimitsAssumption DEF CTypeOK
    <2>4. Refilled(k)' = Refilled(k)
      BY <1>0, <2>1, <2>2, <2>3, SettleLevel DEF CTypeOK, Levels
    <2> QED BY <1>0, <2>1, <2>4 DEF Owed
  <1>6. ASSUME NEW j \in Keys, ClientDenied(j) PROVE Owed(k)'
    <2>1. CASE j = k
      BY <1>0, <1>6, <2>1, DeniedOwed
    <2>2. CASE j # k
      <3>1. j \in Limited /\ Settle(j, Refilled(j), "denied") /\ retryIn'[k] = retryIn[k]
        BY <1>0, <1>6, <2>2 DEF ClientDenied, Deny, CTypeOK
      <3>2. Refilled(j) \in 0 .. Cap(j)
        BY <1>0, <3>1, RefilledType DEF CTypeOK
      <3>3. Refilled(k)' = Refilled(k)
        BY <1>0, <2>2, <3>1, <3>2, SettleLevel DEF CTypeOK, Levels
      <3> QED BY <1>0, <3>1, <3>3 DEF Owed
    <2> QED BY <2>1, <2>2
  <1>7. CASE UNCHANGED cVars
    BY <1>0, <1>7 DEF cVars, vars, obsVars, Owed, Refilled, Cap
  <1> QED BY <1>1, <1>2, <1>3, <1>4, <1>5, <1>6, <1>7 DEF CNext

\* A client that has waited retry_after_sec finds its token there, up to what half a
\* quantum refills, whatever the other clients did meanwhile.
THEOREM Promise == CSpec => []PromiseAlmostKept
  <1>1. CInit => PromiseInv
    BY InitType, WindowAssumption, LimitedKey DEF CInit, CTypeOK, PromiseInv
  <1>2. PromiseInv => PromiseAlmostKept
    <2> SUFFICES ASSUME PromiseInv, NEW k \in Limited, retryIn[k] = 0
                 PROVE  2 * (Hz - Refilled(k)) <= Rates[k]
      BY DEF PromiseAlmostKept
    <2>1. Rates[k] \in Nat /\ 0 * Rates[k] = 0
      BY LimitedKey
    <2>2. 2 * (Hz - Refilled(k)) <= 2 * (retryIn[k] * Rates[k]) + Rates[k]
      BY DEF PromiseInv, Owed, NoPromise
    <2> QED BY <2>1, <2>2
  <1> QED BY ObservedTypes, PromiseStep, <1>1, <1>2, PTL DEF CSpec
===============================================================================
