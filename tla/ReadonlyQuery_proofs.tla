------------------------- MODULE ReadonlyQuery_proofs -------------------------
(***************************************************************************)
(* Proofs about ReadonlyQuery for any number of callers, statements and    *)
(* versions, any lives of entries and any latency: its types, and how old  *)
(* the data may be from which an answer was computed.                      *)
(***************************************************************************)
EXTENDS ReadonlyQuery, ResultCache_proofs

-------------------------------------------------------------------------------
(* The inductive invariant *)

Calls ==
    {Idle}
    \union [step : {"sent"}, key : QueryKeys, age : 0 .. MaxLatency]
    \union [step : {"evaluated"}, key : QueryKeys, result : Values, age : 0 .. MaxLatency]

QueryTypeOK ==
    /\ version \in [QueryKeys -> Values]
    /\ outdated \in [QueryKeys -> [Values -> 0 .. MaxStale + 1]]
    /\ call \in [Clients -> Calls]

\* Only what has been overwritten is out of date.
CurrentInv ==
    \A k \in QueryKeys, v \in Values : v >= version[k] => outdated[k][v] = 0

\* A result that is on its way has been out of date for at most the age of its call.
ResultInv ==
    \A c \in Clients : call[c].step = "evaluated"
        => outdated[call[c].key][call[c].result] <= call[c].age

\* What a live entry holds has been out of date for at most the time it has been in
\* the cache and the time its query took.
EntryInv ==
    \A k \in QueryKeys :
        Live(k) => /\ entries[k].value \in Values
                   /\ outdated[k][entries[k].value] <= MaxStale - entries[k].life

IInv == CacheInv /\ QueryTypeOK /\ CurrentInv /\ ResultInv /\ EntryInv

\* The bounds of the module are numbers.
LEMMA Bounds ==
    /\ MaxVersion \in Nat /\ MaxLatency \in Nat /\ DefaultTtl \in Nat
    /\ MaxStale = DefaultTtl + MaxLatency /\ MaxStale \in Nat
    /\ Values = 0 .. MaxVersion
  BY ReadonlyAssumption, CacheAssumption DEF MaxStale

LEMMA InitInv == Init => IInv
  <1> SUFFICES ASSUME Init PROVE IInv
    OBVIOUS
  <1>1. CacheInv
    BY CacheInitInv DEF Init
  <1>2. QueryTypeOK
    BY Bounds DEF Init, QueryTypeOK, Calls
  <1>3. CurrentInv /\ ResultInv
    BY Bounds DEF Init, CurrentInv, ResultInv, Idle
  <1>4. EntryInv
    BY DEF Init, CacheInit, EntryInv, Live
  <1> QED BY <1>1, <1>2, <1>3, <1>4 DEF IInv

-------------------------------------------------------------------------------
(* The cache *)

\* What remains after a lookup, or after another entry is put, was there before.
LEMMA KeptEntry ==
    ASSUME IInv, UNCHANGED outdated, NEW k \in QueryKeys,
           Live(k)' => Live(k) /\ entries'[k] = entries[k]
    PROVE  Live(k)' => /\ entries'[k].value \in Values
                       /\ outdated'[k][entries'[k].value] <= MaxStale - entries'[k].life
  BY DEF IInv, EntryInv

\* A lookup adds nothing.
LEMMA GetKeeps ==
    ASSUME CacheInv, NEW k, Get(k), NEW j \in QueryKeys
    PROVE  Live(j)' => Live(j) /\ entries'[j] = entries[j]
  <1>1. CASE Live(k)
    BY <1>1 DEF Get, Live
  <1>2. CASE ~Live(k)
    BY <1>2 DEF Get, Live, Without, Restrict
  <1> QED BY <1>1, <1>2

\* Putting k's entry adds that entry only.
LEMMA SetKeeps ==
    ASSUME CacheInv, NEW k, NEW v, Set(k, v), NEW j \in QueryKeys
    PROVE  Live(j)' => IF j = k THEN entries'[j] = Entry(v, DefaultTtl)
                                ELSE Live(j) /\ entries'[j] = entries[j]
  <1> DEFINE f == With(entries, k, Entry(v, DefaultTtl))
  <1>1. entries' = f \/ \E victim : entries' = Without(f, victim)
    BY DEF Set, PutOutcomes
  <1>2. \A i \in DOMAIN f : f[i] = IF i = k THEN Entry(v, DefaultTtl) ELSE entries[i]
    BY DEF With
  <1>3. DOMAIN f = DOMAIN entries \union {k}
    BY DEF With
  <1> HIDE DEF f
  <1>4. DOMAIN entries' \subseteq DOMAIN f /\ \A i \in DOMAIN entries' : entries'[i] = f[i]
    BY <1>1 DEF Without, Restrict
  <1> QED BY <1>2, <1>3, <1>4 DEF Live

-------------------------------------------------------------------------------
(* Steps *)

\* Steps of one caller that leave the cache alone, or only look something up.
LEMMA CallStep ==
    ASSUME IInv, NEW c \in Clients, NEW x \in Calls,
           call' = [call EXCEPT ![c] = x],
           UNCHANGED <<version, outdated>>,
           CacheInv',
           \A k \in QueryKeys : Live(k)' => Live(k) /\ entries'[k] = entries[k],
           x.step = "evaluated" => outdated[x.key][x.result] <= x.age
    PROVE  IInv'
  <1>1. QueryTypeOK'
    BY DEF IInv, QueryTypeOK
  <1>2. CurrentInv'
    BY DEF IInv, CurrentInv
  <1>3. ResultInv'
    BY DEF IInv, QueryTypeOK, ResultInv
  <1>4. EntryInv'
    BY KeptEntry DEF EntryInv
  <1> QED BY <1>1, <1>2, <1>3, <1>4 DEF IInv

LEMMA CallerInv ==
    ASSUME IInv, NEW c \in Clients,
           \/ Evaluate(c) \/ Respond(c) \/ Abort(c)
           \/ \E k \in QueryKeys : Hit(c, k) \/ Miss(c, k)
    PROVE  IInv'
  <1>0. Idle \in Calls /\ Idle.step # "evaluated"
    BY DEF Calls, Idle
  <1>1. ASSUME NEW k \in QueryKeys, Miss(c, k) PROVE IInv'
    <2>1. Sent(k) \in Calls /\ Sent(k).step # "evaluated"
      BY Bounds DEF Calls, Sent
    <2>2. CacheInv'
      BY <1>1, GetInv DEF Miss, IInv
    <2> QED BY <1>1, <2>1, <2>2, GetKeeps, CallStep DEF Miss, Becomes, IInv
  <1>2. ASSUME NEW k \in QueryKeys, Hit(c, k) PROVE IInv'
    <2>1. CacheInv'
      BY <1>2, GetInv DEF Hit, IInv
    <2>2. \A j \in QueryKeys : Live(j)' => Live(j) /\ entries'[j] = entries[j]
      BY <1>2, GetKeeps DEF Hit, IInv
    <2>3. EntryInv'
      BY <1>2, <2>2, KeptEntry DEF Hit, EntryInv
    <2> QED BY <1>2, <2>1, <2>3 DEF Hit, IInv, QueryTypeOK, CurrentInv, ResultInv
  <1>3. CASE Evaluate(c)
    <2>1. /\ call[c].key \in QueryKeys /\ call[c].age \in 0 .. MaxLatency
      BY <1>3 DEF Evaluate, IInv, QueryTypeOK, Calls, Idle
    <2> DEFINE v == version[call[c].key]
               x == Evaluated(call[c].key, v, call[c].age)
    <2>2. v \in Values /\ v >= version[call[c].key] /\ outdated[call[c].key][v] = 0
      BY <2>1, Bounds DEF IInv, QueryTypeOK, CurrentInv
    <2>3. x \in Calls
      BY <2>1, <2>2 DEF Calls, Evaluated
    <2>4. x.step = "evaluated" => outdated[x.key][x.result] <= x.age
      BY <2>1, <2>2 DEF Evaluated
    <2>5. /\ call' = [call EXCEPT ![c] = x]
          /\ UNCHANGED <<version, outdated, entries, pagination>>
      BY <1>3 DEF Evaluate, Becomes
    <2> HIDE DEF x
    <2>6. CacheInv'
      BY <2>5 DEF IInv, CacheInv, CacheTypeOK, SizeBound, HandlesHaveState
    <2>7. \A k \in QueryKeys : Live(k)' => Live(k) /\ entries'[k] = entries[k]
      BY <2>5 DEF Live
    <2> QED BY <2>3, <2>4, <2>5, <2>6, <2>7, CallStep
  <1>4. CASE Abort(c)
    <2>1. CacheInv'
      BY <1>4 DEF Abort, IInv, CacheInv, CacheTypeOK, SizeBound, HandlesHaveState
    <2>2. \A k \in QueryKeys : Live(k)' => Live(k) /\ entries'[k] = entries[k]
      BY <1>4 DEF Abort, Live
    <2> QED BY <1>0, <1>4, <2>1, <2>2, CallStep DEF Abort, Becomes
  <1>5. CASE Respond(c)
    <2> DEFINE k == call[c].key
               v == call[c].result
    <2>1. /\ k \in QueryKeys /\ v \in Values /\ call[c].age \in 0 .. MaxLatency
          /\ outdated[k][v] <= call[c].age
          /\ outdated[k][v] \in 0 .. MaxStale + 1
      BY <1>5 DEF Respond, IInv, QueryTypeOK, Calls, Idle, ResultInv
    <2>2. Set(k, v) /\ call' = [call EXCEPT ![c] = Idle] /\ UNCHANGED <<version, outdated>>
      BY <1>5 DEF Respond, Becomes
    <2> HIDE DEF k, v
    <2>3. CacheInv'
      BY <2>1, <2>2, SetInv DEF IInv
    <2>4. QueryTypeOK'
      BY <1>0, <2>2 DEF IInv, QueryTypeOK
    <2>5. CurrentInv' /\ ResultInv'
      BY <1>0, <2>2 DEF IInv, QueryTypeOK, CurrentInv, ResultInv
    <2>6. EntryInv'
      <3> SUFFICES ASSUME NEW j \in QueryKeys, Live(j)'
                   PROVE  /\ entries'[j].value \in Values
                          /\ outdated'[j][entries'[j].value] <= MaxStale - entries'[j].life
        BY DEF EntryInv
      <3>1. CASE j # k
        BY <2>2, <3>1, SetKeeps, KeptEntry DEF IInv
      <3>2. CASE j = k
        <4>1. entries'[j] = Entry(v, DefaultTtl)
          BY <2>2, <3>2, SetKeeps DEF IInv
        <4>2. entries'[j].value = v /\ entries'[j].life = DefaultTtl
          BY <4>1 DEF Entry
        <4>3. outdated[k][v] <= MaxStale - DefaultTtl
          BY <2>1, Bounds
        <4> QED BY <2>1, <2>2, <3>2, <4>2, <4>3
      <3> QED BY <3>1, <3>2
    <2> QED BY <2>3, <2>4, <2>5, <2>6 DEF IInv
  <1> QED BY <1>1, <1>2, <1>3, <1>4, <1>5

LEMMA WriteInv ==
    ASSUME IInv, NEW k \in QueryKeys, Write(k)
    PROVE  IInv'
  <1>1. CacheInv'
    BY DEF Write, IInv, CacheInv, CacheTypeOK, SizeBound, HandlesHaveState
  <1>2. version[k] \in Values /\ version[k] + 1 \in Values
    BY Bounds DEF Write, IInv, QueryTypeOK
  <1>3. QueryTypeOK'
    BY <1>2 DEF Write, IInv, QueryTypeOK
  <1>4. CurrentInv'
    BY <1>2, Bounds DEF Write, IInv, QueryTypeOK, CurrentInv
  <1>5. ResultInv' /\ EntryInv'
    BY DEF Write, IInv, ResultInv, EntryInv, Live
  <1> QED BY <1>1, <1>3, <1>4, <1>5 DEF IInv

\* A unit of time makes everything that has been overwritten older by one, every call
\* too, and shortens every life.
LEMMA TickInv ==
    ASSUME IInv, Tick
    PROVE  IInv'
  <1>1. CacheInv'
    BY CacheTickInv DEF Tick, IInv
  <1>2. ASSUME NEW k \in QueryKeys, NEW v \in Values
        PROVE  /\ outdated'[k][v] \in 0 .. MaxStale + 1
               /\ outdated'[k][v] <= outdated[k][v] + 1
               /\ v >= version[k] => outdated'[k][v] = 0
    <2>1. outdated[k][v] \in 0 .. MaxStale + 1 /\ version[k] \in Values
      BY DEF IInv, QueryTypeOK
    <2>2. outdated'[k][v] = IF v < version[k] THEN Older(outdated[k][v]) ELSE 0
      BY DEF Tick
    <2> QED BY <2>1, <2>2, Bounds DEF Older
  <1>3. ASSUME NEW c \in Clients
        PROVE  /\ call'[c] \in Calls
               /\ call'[c].step = "evaluated" =>
                    /\ call[c].step = "evaluated"
                    /\ call'[c].key = call[c].key /\ call'[c].result = call[c].result
                    /\ call'[c].age = call[c].age + 1
                    /\ call[c].key \in QueryKeys /\ call[c].result \in Values
                    /\ call[c].age \in Nat
    <2>1. call[c] \in Calls
      BY DEF IInv, QueryTypeOK
    <2>2. CASE call[c] = Idle
      BY <2>1, <2>2 DEF Tick, Idle
    <2>3. CASE call[c] # Idle
      <3>1. call'[c] = [call[c] EXCEPT !.age = @ + 1] /\ call[c].age < MaxLatency
        BY <2>3 DEF Tick
      <3>2. CASE call[c] \in [step : {"sent"}, key : QueryKeys, age : 0 .. MaxLatency]
        BY <3>1, <3>2, Bounds DEF Calls
      <3>3. CASE call[c] \in [step : {"evaluated"}, key : QueryKeys, result : Values,
                              age : 0 .. MaxLatency]
        BY <3>1, <3>3, Bounds DEF Calls
      <3> QED BY <2>1, <2>3, <3>2, <3>3 DEF Calls
    <2> QED BY <2>2, <2>3
  <1>4. QueryTypeOK'
    <2>1. outdated' \in [QueryKeys -> [Values -> 0 .. MaxStale + 1]]
      <3> DEFINE aged(k) == [v \in Values |-> IF v < version[k] THEN Older(outdated[k][v]) ELSE 0]
      <3>1. outdated' = [k \in QueryKeys |-> aged(k)]
        BY DEF Tick
      <3>2. \A k \in QueryKeys : aged(k) \in [Values -> 0 .. MaxStale + 1]
        BY <1>2, <3>1
      <3> QED BY <3>1, <3>2
    <2>2. call' \in [Clients -> Calls]
      BY <1>3 DEF Tick
    <2> QED BY <2>1, <2>2 DEF Tick, IInv, QueryTypeOK
  <1>5. CurrentInv'
    BY <1>2 DEF Tick, CurrentInv
  <1>6. ResultInv'
    <2> SUFFICES ASSUME NEW c \in Clients, call'[c].step = "evaluated"
                 PROVE  outdated'[call'[c].key][call'[c].result] <= call'[c].age
      BY DEF ResultInv
    <2> DEFINE k == call[c].key
               v == call[c].result
    <2>1. /\ k \in QueryKeys /\ v \in Values /\ call[c].age \in Nat
          /\ call'[c].key = k /\ call'[c].result = v /\ call'[c].age = call[c].age + 1
          /\ outdated[k][v] <= call[c].age
      BY <1>3 DEF IInv, ResultInv
    <2>2. /\ outdated'[k][v] <= outdated[k][v] + 1
          /\ outdated[k][v] \in Nat /\ outdated'[k][v] \in Nat
      BY <1>2, <2>1, Bounds DEF IInv, QueryTypeOK
    <2> HIDE DEF k, v
    <2> QED BY <2>1, <2>2
  <1>7. EntryInv'
    <2> SUFFICES ASSUME NEW k \in QueryKeys, Live(k)'
                 PROVE  /\ entries'[k].value \in Values
                        /\ outdated'[k][entries'[k].value] <= MaxStale - entries'[k].life
      BY DEF EntryInv
    <2>1. k \in DOMAIN entries /\ entries'[k] = Age(entries[k]) /\ entries'[k].life >= 0
      BY DEF Tick, CacheTick, Live
    <2>2. entries[k] \in Entries
      BY <2>1 DEF IInv, CacheInv, CacheTypeOK
    <2>3. /\ entries'[k].value = entries[k].value
          /\ entries'[k].life = IF entries[k].life >= 0 THEN entries[k].life - 1
                                ELSE entries[k].life
          /\ entries[k].life \in Int
      BY <2>1, <2>2, CacheAssumption DEF Age, Entries, Lives
    <2>4. entries[k].life >= 0 /\ entries'[k].life = entries[k].life - 1
      BY <2>1, <2>3
    <2> DEFINE v == entries[k].value
    <2>5. v \in Values /\ outdated[k][v] <= MaxStale - entries[k].life
      BY <2>1, <2>4 DEF IInv, EntryInv, Live
    <2>6. /\ outdated'[k][v] <= outdated[k][v] + 1
          /\ outdated[k][v] \in Nat /\ outdated'[k][v] \in Nat
      BY <1>2, <2>5, Bounds DEF IInv, QueryTypeOK
    <2> HIDE DEF v
    <2>7. entries'[k].value = v
      BY <2>3 DEF v
    <2> DEFINE was == outdated[k][v]
               is == outdated'[k][v]
               life == entries[k].life
    <2>8. is <= was + 1 /\ was <= MaxStale - life /\ was \in Nat /\ is \in Nat /\ life \in Int
      BY <2>3, <2>5, <2>6
    <2> HIDE DEF was, is, life
    <2>9. is <= MaxStale - (life - 1)
      BY <2>8, Bounds
    <2> QED BY <2>4, <2>5, <2>7, <2>9 DEF is, life
  <1> QED BY <1>1, <1>4, <1>5, <1>6, <1>7 DEF IInv

LEMMA NextInv == IInv /\ [Next]_vars => IInv'
  <1> SUFFICES ASSUME IInv, [Next]_vars PROVE IInv'
    OBVIOUS
  <1>1. CASE UNCHANGED vars
    BY <1>1 DEF vars, IInv, CacheInv, CacheTypeOK, SizeBound, HandlesHaveState, QueryTypeOK,
                CurrentInv, ResultInv, EntryInv, Live
  <1> QED BY <1>1, CallerInv, WriteInv, TickInv DEF Next

LEMMA SpecInv == Spec => []IInv
  BY InitInv, NextInv, PTL DEF Spec

-------------------------------------------------------------------------------
(* Theorems *)

\* Every variable keeps its type.
THEOREM TypeCorrect == Spec => []TypeOK
  <1>1. IInv => TypeOK
    BY DEF IInv, CacheInv, QueryTypeOK, TypeOK, Calls
  <1> QED BY SpecInv, <1>1, PTL

\* No answer is computed from data overwritten longer ago than default_ttl plus the
\* time a query may take: whatever the cache's size, however many callers there are, and
\* in whatever order their results are cached.
THEOREM Staleness == Spec => []StalenessBound
  <1>1. IInv => StalenessBound
    <2> SUFFICES ASSUME IInv PROVE StalenessBound
      OBVIOUS
    <2>1. ASSUME NEW k \in QueryKeys, Found(k)
          PROVE  outdated[k][entries[k].value] <= MaxStale
      <3>1. Live(k) /\ entries[k].life >= 0 /\ entries[k].life \in Int
        BY <2>1, CacheAssumption DEF Found, Live, IInv, CacheInv, CacheTypeOK, Entries, Lives
      <3>2. /\ entries[k].value \in Values
            /\ outdated[k][entries[k].value] <= MaxStale - entries[k].life
        BY <3>1 DEF IInv, EntryInv
      <3>3. outdated[k][entries[k].value] \in Nat
        BY <3>2, Bounds DEF IInv, QueryTypeOK
      <3> QED BY <3>1, <3>2, <3>3, Bounds
    <2>2. ASSUME NEW c \in Clients, call[c].step = "evaluated"
          PROVE  outdated[call[c].key][call[c].result] <= MaxLatency
      <3>1. /\ call[c].key \in QueryKeys /\ call[c].result \in Values
            /\ call[c].age \in 0 .. MaxLatency
        BY <2>2 DEF IInv, QueryTypeOK, Calls, Idle
      <3>2. outdated[call[c].key][call[c].result] <= call[c].age
        BY <2>2 DEF IInv, ResultInv
      <3>3. outdated[call[c].key][call[c].result] \in Nat
        BY <3>1, Bounds DEF IInv, QueryTypeOK
      <3> QED BY <3>1, <3>2, <3>3, Bounds
    <2> QED BY <2>1, <2>2 DEF StalenessBound
  <1> QED BY SpecInv, <1>1, PTL
===============================================================================
