---------------------------- MODULE ToolCall_proofs ----------------------------
(***************************************************************************)
(* Proofs about ToolCall for any number of clients, any rates and any      *)
(* resolution of time: its types, that a call leaves one record that       *)
(* agrees with its answer, that a change recorded as a success was made,   *)
(* that the tools that are run drain one token bucket of each category,    *)
(* and that changes are charged as writes.                                 *)
(***************************************************************************)
EXTENDS ToolCall, TLAPS

-------------------------------------------------------------------------------
(* The catalogue *)

\* No tool that changes a cluster swallows the failure of its request.
Honest(req) == req.effect \in {"change", "statement"} => req.body # "swallowed"

LEMMA RequestsHonest ==
    /\ Honest(Nothing) /\ Honest(Read) /\ Honest(Command) /\ Honest(Update)
    /\ Honest(CapellaRead) /\ Honest(CapellaChange) /\ Honest(Ping)
  BY DEF Honest, Request, Nothing, Read, Command, Update, CapellaRead, CapellaChange, Ping

LEMMA GroupsHonest ==
    ASSUME NEW group \in Groups, NEW t \in DOMAIN group
    PROVE  Honest(group[t])
  <1>1. CASE group = MetaTools
    BY <1>1, RequestsHonest DEF MetaTools
  <1>2. CASE group = SchemaTools
    BY <1>2 DEF SchemaTools, Execute, Honest, Request
  <1>3. CASE group = QueryTools
    BY <1>3 DEF QueryTools, Execute, ExecuteReadonly, Read, Honest, Request
  <1>4. CASE group = AdminTools
    BY <1>4, RequestsHonest DEF AdminTools, AdminAPI
  <1>5. CASE group = ConfigTools
    BY <1>5, RequestsHonest DEF ConfigTools, ConfigAPI, SettingsAPI
  <1>6. CASE group = LinkTools
    BY <1>6, RequestsHonest DEF LinkTools, LinksAPI
  <1>7. CASE group = LibraryTools
    BY <1>7, RequestsHonest DEF LibraryTools, LibraryAPI
  <1>8. CASE group = SecurityTools
    BY <1>8, RequestsHonest DEF SecurityTools, SecurityAPI
  <1>9. CASE group = ClusterTools
    BY <1>9, RequestsHonest DEF ClusterTools, ClusterAPI
  <1>10. CASE group = CapellaTools
    BY <1>10, RequestsHonest DEF CapellaTools, CapellaAPI
  <1> QED
    BY <1>1, <1>2, <1>3, <1>4, <1>5, <1>6, <1>7, <1>8, <1>9, <1>10 DEF Groups

LEMMA ToolsHonest == ASSUME NEW t \in Tools PROVE Honest(RequestOf[t])
  <1> DEFINE group == CHOOSE g \in Groups : t \in DOMAIN g
  <1>1. group \in Groups /\ t \in DOMAIN group
    BY DEF Tools
  <1>2. RequestOf[t] = group[t]
    BY DEF RequestOf
  <1> QED BY <1>1, <1>2, GroupsHonest

LEMMA CategoryType == ASSUME NEW t PROVE CategoryFor(t) \in Limiter!Categories
  BY DEF CategoryFor, Limiter!Categories

LEMMA KindsHonest ==
    ASSUME NEW k \in Kinds
    PROVE  Honest(k.request) /\ Key(k) \in Limiter!Keys
  <1>1. PICK t \in Tools : k = [request |-> RequestOf[t], category |-> CategoryFor(t),
                                unsent |-> UnsentEndings(t)]
    BY DEF Kinds
  <1>2. k.request = RequestOf[t] /\ k.category = CategoryFor(t)
    BY <1>1
  <1> QED BY <1>2, ToolsHonest, CategoryType DEF Key, Limiter!Keys

-------------------------------------------------------------------------------
(* The wrapper *)

\* A call has its result when it no longer awaits, and what its client awaits is honest.
WaitInv == \A c \in Clients : (running[c] => result[c] = "none") /\ Honest(request[c])

\* The history of what has been used keeps its type.
UsageType ==
    /\ used \in [Limiter!Categories -> Nat]
    /\ verdict \in [Limiter!Categories -> {"none", "granted", "denied"}]

LEMMA RateType == Rate \in [Limiter!Categories -> Int]
  BY CallAssumption DEF Rate, Limiter!RateFor, Limiter!Categories

LEMMA UsesType ==
    ASSUME TypeOK, NEW k \in Kinds, Uses(k) \/ TurnedAway(k)
    PROVE  UsageType'
  BY CallAssumption DEF TypeOK, UsageType, Uses, TurnedAway

LEMMA WearsOffType == TypeOK /\ WearsOff => UsageType'
  BY RateType DEF TypeOK, UsageType, WearsOff

IInv == TypeOK /\ WaitInv /\ OneRecordPerCall /\ AnswersAudited /\ AuditedChangesApplied

LEMMA InitInv == Init => IInv
  <1> SUFFICES ASSUME Init PROVE IInv
    OBVIOUS
  <1>1. TypeOK
    BY DEF Init, TypeOK
  <1>2. WaitInv
    BY RequestsHonest DEF Init, WaitInv
  <1>3. OneRecordPerCall /\ AnswersAudited /\ AuditedChangesApplied
    BY DEF Init, OneRecordPerCall, AnswersAudited, AuditedChangesApplied
  <1> QED BY <1>1, <1>2, <1>3 DEF IInv

LEMMA EnterInv ==
    ASSUME IInv, NEW c \in Clients, NEW k \in Kinds, Enter(c, k)
    PROVE  IInv'
  <1>1. TypeOK'
    BY UsesType DEF Enter, Granted, IInv, TypeOK, UsageType
  <1>2. WaitInv'
    BY KindsHonest DEF Enter, IInv, TypeOK, WaitInv
  <1>3. OneRecordPerCall' /\ AnswersAudited'
    BY DEF Enter, Granted, IInv, TypeOK, OneRecordPerCall, AnswersAudited
  <1>4. AuditedChangesApplied'
    BY DEF Enter, Granted, IInv, TypeOK, AuditedChangesApplied, Changed
  <1> QED BY <1>1, <1>2, <1>3, <1>4 DEF IInv

LEMMA RefusedInv ==
    ASSUME IInv, NEW c \in Clients, NEW k \in Kinds, Refused(c, k)
    PROVE  IInv'
  <1>1. TypeOK'
    BY UsesType DEF Refused, IInv, TypeOK, UsageType
  <1>2. WaitInv'
    BY RequestsHonest DEF Refused, IInv, TypeOK, WaitInv
  <1>3. OneRecordPerCall' /\ AnswersAudited'
    BY DEF Refused, IInv, TypeOK, OneRecordPerCall, AnswersAudited
  <1>4. AuditedChangesApplied'
    BY DEF Refused, IInv, TypeOK, AuditedChangesApplied, Changed
  <1> QED BY <1>1, <1>2, <1>3, <1>4 DEF IInv

LEMMA UnsentInv ==
    ASSUME IInv, NEW c \in Clients, NEW k \in Kinds, NEW e \in Endings, Unsent(c, k, e)
    PROVE  IInv'
  <1>1. TypeOK'
    BY UsesType DEF Unsent, Granted, Endings, Success, IInv, TypeOK, UsageType
  <1>2. WaitInv'
    BY RequestsHonest DEF Unsent, Granted, IInv, TypeOK, WaitInv
  <1>3. OneRecordPerCall' /\ AnswersAudited'
    BY DEF Unsent, Granted, Endings, Success, IInv, TypeOK, OneRecordPerCall, AnswersAudited
  <1>4. AuditedChangesApplied'
    BY DEF Unsent, Granted, IInv, TypeOK, AuditedChangesApplied, Changed, Nothing, Request
  <1> QED BY <1>1, <1>2, <1>3, <1>4 DEF IInv

LEMMA ApplyInv == ASSUME IInv, NEW c \in Clients, Apply(c) PROVE IInv'
  BY DEF Apply, usage, IInv, TypeOK, WaitInv, OneRecordPerCall, AnswersAudited,
     AuditedChangesApplied, Changed

\* A cluster's change that ends well has been made: its failures are not swallowed, and
\* its success is not answered before.
LEMMA SuccessApplied ==
    ASSUME IInv, NEW c \in Clients, "ok" \in EndingsOf(c), Changed(c),
           request[c].service = "cluster"
    PROVE  applied[c]
  <1>1. request[c].body # "swallowed"
    BY DEF IInv, WaitInv, Honest, Changed
  <1>2. PICK answer \in Answers :
            Possible(c, answer) /\ "ok" \in ClusterEndings(request[c], answer)
    BY DEF EndingsOf
  <1>3. answer = "success"
    BY <1>1, <1>2 DEF ClusterEndings
  <1> QED BY <1>2, <1>3 DEF Possible, Changed

LEMMA LeaveInv ==
    ASSUME IInv, NEW c \in Clients, NEW e \in Endings, Leave(c, e)
    PROVE  IInv'
  <1>1. running[c] /\ result[c] = "none" /\ audit[c] = << >> /\ metrics[c] = << >>
    BY DEF Leave, IInv, WaitInv, OneRecordPerCall
  <1>2. /\ audit' = [audit EXCEPT ![c] = <<Success(e)>>]
        /\ metrics' = [metrics EXCEPT ![c] = <<IF Success(e) THEN "success" ELSE "error">>]
    BY <1>1 DEF Leave, Finally, IInv, TypeOK
  <1>3. /\ running' = [running EXCEPT ![c] = FALSE]
        /\ result' = [result EXCEPT ![c] = e]
        /\ request' = request /\ applied' = applied
        /\ used' = used /\ verdict' = verdict
    BY DEF Leave, usage
  <1>4. TypeOK'
    BY <1>2, <1>3 DEF Endings, Success, IInv, TypeOK
  <1>5. WaitInv'
    BY <1>3 DEF IInv, TypeOK, WaitInv
  <1>6. OneRecordPerCall' /\ AnswersAudited'
    BY <1>2, <1>3 DEF Endings, Success, IInv, TypeOK, OneRecordPerCall, AnswersAudited
  <1>7. AuditedChangesApplied'
    <2> SUFFICES ASSUME NEW d \in Clients, audit'[d] = <<TRUE>>,
                        result'[d] # "CancelledError", Changed(d),
                        request[d].service = "cluster"
                 PROVE  applied[d]
      BY <1>3 DEF AuditedChangesApplied, Changed
    <2>1. CASE d = c
      <3>1. e = "ok"
        BY <1>2, <1>3, <2>1 DEF IInv, TypeOK, Endings, Success
      <3> QED BY <2>1, <3>1, SuccessApplied DEF Leave
    <2>2. CASE d # c
      BY <1>2, <1>3, <2>2 DEF IInv, TypeOK, AuditedChangesApplied
    <2> QED BY <2>1, <2>2
  <1> QED BY <1>4, <1>5, <1>6, <1>7 DEF IInv

LEMMA NextInv == IInv /\ [Next]_vars => IInv'
  <1> SUFFICES ASSUME IInv, [Next]_vars PROVE IInv'
    OBVIOUS
  <1>1. ASSUME NEW c \in Clients, NEW k \in Kinds, Enter(c, k) PROVE IInv'
    BY <1>1, EnterInv
  <1>2. ASSUME NEW c \in Clients, NEW k \in Kinds, Refused(c, k) PROVE IInv'
    BY <1>2, RefusedInv
  <1>3. ASSUME NEW c \in Clients, NEW k \in Kinds, NEW e \in Endings, Unsent(c, k, e)
        PROVE  IInv'
    BY <1>3, UnsentInv
  <1>4. ASSUME NEW c \in Clients, Apply(c) PROVE IInv'
    BY <1>4, ApplyInv
  <1>5. ASSUME NEW c \in Clients, NEW e \in Endings, Leave(c, e) PROVE IInv'
    BY <1>5, LeaveInv
  <1>6. CASE Tick \/ UNCHANGED vars
    <2>1. UNCHANGED callVars /\ UsageType'
      BY <1>6, WearsOffType DEF Tick, vars, usage, UsageType, IInv, TypeOK
    <2>2. TypeOK' /\ OneRecordPerCall' /\ AnswersAudited' /\ AuditedChangesApplied'
      BY <2>1 DEF callVars, UsageType, IInv, TypeOK, OneRecordPerCall, AnswersAudited,
         AuditedChangesApplied, Changed
    <2>3. WaitInv'
      BY <2>1 DEF callVars, IInv, WaitInv, Honest
    <2> QED BY <2>2, <2>3 DEF IInv
  <1> QED BY <1>1, <1>2, <1>3, <1>4, <1>5, <1>6 DEF Next

LEMMA Invariance == Spec => []IInv
  BY InitInv, NextInv, PTL DEF Spec

\* The wrapper's variables keep their types (shared.py, the locals of call_tool_observed,
\* and what it adds to the metrics and the audit log).
THEOREM TypeCorrect == Spec => []TypeOK
  <1>1. IInv => TypeOK
    BY DEF IInv
  <1> QED BY <1>1, Invariance, PTL

\* However a call ends, `finally` or the refusal leaves one record and one count of it,
\* which agree.
THEOREM Records == Spec => []OneRecordPerCall
  <1>1. IInv => OneRecordPerCall
    BY DEF IInv
  <1> QED BY <1>1, Invariance, PTL

\* What the record says of a call is what its client was answered, if it was answered.
THEOREM AnswersRecorded == Spec => []AnswersAudited
  <1>1. IInv => AnswersAudited
    BY DEF IInv
  <1> QED BY <1>1, Invariance, PTL

\* A change of a cluster that the audit log records as a success has been made.
THEOREM ChangesApplied == Spec => []AuditedChangesApplied
  <1>1. IInv => AuditedChangesApplied
    BY DEF IInv
  <1> QED BY <1>1, Invariance, PTL

-------------------------------------------------------------------------------
(* One token bucket of each category *)

LEMMA OneMoreQuantum == \A s, r \in Int : (s + 1) * r = s * r + r
  OBVIOUS

LEMMA ProductBounds ==
    \A m, n \in Nat : m * n \in Nat /\ (m > 0 => n <= m * n) /\ m * n = n * m
  OBVIOUS

\* The bucket of a category, what it holds, and how much of a whole one that is.
Bucket(g) == <<Anonymous, g>>
Left(g) == Limiter!Refilled(Bucket(g))
Whole(g) == Rate[g] * Hz

LEMMA BucketRate ==
    ASSUME NEW g \in Limiter!Categories
    PROVE  /\ Bucket(g) \in Limiter!Keys
           /\ Limiter!Rates[Bucket(g)] = Rate[g]
           /\ Limiter!Cap(Bucket(g)) = Whole(g)
           /\ Bucket(g) \in Limiter!Limited <=> Rate[g] > 0
  <1>1. Bucket(g) \in Limiter!Keys /\ Bucket(g)[2] = g
    BY DEF Bucket, Limiter!Keys
  <1>2. Limiter!Rates[Bucket(g)] = Rate[g]
    BY <1>1 DEF Limiter!Rates, Rate
  <1> QED BY <1>1, <1>2 DEF Limiter!Cap, Limiter!Limited, Whole

LEMMA WholeBucket ==
    ASSUME NEW g \in Limiter!Categories, Rate[g] > 0
    PROVE  /\ Rate[g] \in Nat /\ Hz \in Nat
           /\ Whole(g) \in Nat
           /\ Hz <= Whole(g)
           /\ Hz * Rate[g] = Whole(g)
  <1>1. Rate[g] \in Nat /\ Hz \in Nat
    BY RateType, CallAssumption
  <1> QED BY <1>1, ProductBounds DEF Whole

\* What the limiter says is left lies between nothing and a whole bucket.
LEMMA LeftType ==
    ASSUME Limiter!TypeOK, NEW g \in Limiter!Categories, Rate[g] > 0
    PROVE  Left(g) \in 0 .. Whole(g)
  <1> DEFINE b == Bucket(g)
             flow == sinceRefill[b] * Rate[g]
  <1>1. b \in Limiter!Keys /\ Whole(g) \in Nat /\ Rate[g] \in Nat
    BY BucketRate, WholeBucket
  <1>2. tokens[b] \in Nat /\ sinceRefill[b] \in Nat
    BY <1>1, CallAssumption DEF Limiter!TypeOK
  <1>3. flow \in Nat
    BY <1>1, <1>2, ProductBounds
  <1>4. Left(g) = IF b \notin known THEN Whole(g)
                  ELSE IF tokens[b] + flow <= Whole(g) THEN tokens[b] + flow ELSE Whole(g)
    BY BucketRate DEF Left, Limiter!Refilled
  <1> HIDE DEF flow
  <1> QED BY <1>1, <1>2, <1>3, <1>4

\* Settling a bucket leaves in it what is said, and the others as they were.
LEMMA SettleLeft ==
    ASSUME Limiter!TypeOK, NEW g \in Limiter!Categories, Rate[g] > 0,
           NEW left \in 0 .. Whole(g), NEW a, Limiter!Settle(Bucket(g), left, a)
    PROVE  /\ Left(g)' = left
           /\ \A h \in Limiter!Categories : h # g => Left(h)' = Left(h)
  <1>1. /\ Bucket(g) \in Limiter!Keys /\ Whole(g) \in Nat /\ Rate[g] \in Nat
        /\ Limiter!Rates[Bucket(g)] = Rate[g]
    BY BucketRate, WholeBucket
  <1>2. Left(g)' = left
    <2>1. /\ Bucket(g) \in known' /\ tokens'[Bucket(g)] = left
          /\ sinceRefill'[Bucket(g)] = 0
      BY <1>1 DEF Limiter!Settle, Limiter!TypeOK
    <2>2. 0 * Rate[g] = 0 /\ left \in Nat /\ left <= Whole(g) /\ left + 0 = left
      BY <1>1
    <2> QED BY <1>1, <2>1, <2>2, BucketRate DEF Left, Bucket, Limiter!Refilled, Limiter!Cap
  <1>3. ASSUME NEW h \in Limiter!Categories, h # g PROVE Left(h)' = Left(h)
    <2>1. Bucket(h) # Bucket(g) /\ Bucket(h) \in Limiter!Keys
      BY <1>3, BucketRate DEF Bucket
    <2>2. /\ Bucket(h) \in known' <=> Bucket(h) \in known
          /\ tokens'[Bucket(h)] = tokens[Bucket(h)]
          /\ sinceRefill'[Bucket(h)] = sinceRefill[Bucket(h)]
      BY <2>1 DEF Limiter!Settle, Limiter!TypeOK
    <2> QED BY <2>2 DEF Left, Bucket, Limiter!Refilled, Limiter!Cap
  <1> QED BY <1>2, <1>3

\* A quantum refills a bucket by its rate until it is whole, whether or not it exists yet.
LEMMA TickLeft ==
    ASSUME Limiter!TypeOK, Limiter!Tick, NEW g \in Limiter!Categories, Rate[g] > 0
    PROVE  Left(g)' = IF Left(g) + Rate[g] <= Whole(g) THEN Left(g) + Rate[g] ELSE Whole(g)
  <1> DEFINE b == Bucket(g)
             flow == sinceRefill[b] * Rate[g]
  <1>1. /\ b \in Limiter!Keys /\ Rate[g] \in Nat /\ Whole(g) \in Nat /\ Hz \in Nat
        /\ Hz * Rate[g] = Whole(g)
    BY BucketRate, WholeBucket
  <1>2. CASE b \notin known
    <2>1. Left(g)' = Whole(g) /\ Left(g) = Whole(g)
      BY <1>2, BucketRate DEF Left, Bucket, Limiter!Tick, Limiter!Refilled, Limiter!Cap
    <2> QED BY <1>1, <2>1
  <1>3. CASE b \in known
    <2>1. tokens[b] \in Nat /\ sinceRefill[b] \in 0 .. Hz
      BY <1>1 DEF Limiter!TypeOK
    <2>2. flow \in Nat /\ (sinceRefill[b] + 1) * Rate[g] = flow + Rate[g]
      BY <1>1, <2>1, ProductBounds, OneMoreQuantum
    <2>3. Left(g) = IF tokens[b] + flow <= Whole(g) THEN tokens[b] + flow ELSE Whole(g)
      BY <1>3, BucketRate DEF Left, Limiter!Refilled
    <2>4. CASE sinceRefill[b] < Hz
      <3>1. b \in known' /\ tokens'[b] = tokens[b] /\ sinceRefill'[b] = sinceRefill[b] + 1
        BY <1>1, <1>3, <2>4 DEF Limiter!Tick
      <3>2. Left(g)' = IF tokens[b] + (flow + Rate[g]) <= Whole(g)
                       THEN tokens[b] + (flow + Rate[g]) ELSE Whole(g)
        BY <3>1, <2>2, BucketRate DEF Left, Bucket, Limiter!Refilled, Limiter!Cap
      <3> HIDE DEF flow
      <3> QED BY <1>1, <2>1, <2>2, <2>3, <3>2
    <2>5. CASE sinceRefill[b] = Hz
      <3>1. b \in known' /\ tokens'[b] = tokens[b] /\ sinceRefill'[b] = sinceRefill[b]
        BY <1>1, <1>3, <2>1, <2>5 DEF Limiter!Tick
      <3>2. Left(g)' = Left(g)
        BY <3>1, <1>3 DEF Left, Bucket, Limiter!Refilled, Limiter!Cap
      <3>3. flow = Whole(g)
        BY <1>1, <2>5
      <3> HIDE DEF flow
      <3>4. Left(g) = Whole(g)
        BY <1>1, <2>1, <2>3, <3>3
      <3> QED BY <1>1, <3>2, <3>4
    <2> QED BY <1>1, <2>1, <2>4, <2>5
  <1> QED BY <1>2, <1>3

LEMMA SettleType ==
    ASSUME Limiter!TypeOK, NEW g \in Limiter!Categories, Rate[g] > 0,
           NEW left \in 0 .. Whole(g), NEW a \in {"granted", "denied"},
           Limiter!Settle(Bucket(g), left, a)
    PROVE  Limiter!TypeOK'
  <1>1. /\ Bucket(g) \in Limiter!Keys /\ Bucket(g) \in Limiter!Limited
        /\ Limiter!Cap(Bucket(g)) = Whole(g) /\ Whole(g) \in Nat
    BY BucketRate, WholeBucket
  <1>2. left \in Nat /\ left <= Whole(g)
    BY <1>1
  <1>3. \A j \in known' : tokens'[j] <= Limiter!Cap(j)
    BY <1>1, <1>2 DEF Limiter!TypeOK, Limiter!Settle, Limiter!Limited
  <1>4. \A j \in known' : (tokens[j] <= Limiter!Cap(j))' <=> tokens'[j] <= Limiter!Cap(j)
    BY DEF Limiter!Cap
  <1> QED BY <1>1, <1>2, <1>3, <1>4, CallAssumption DEF Limiter!TypeOK, Limiter!Settle, Limiter!Cap

\* What the calls that ran have used is what the limiter's bucket is short of a whole one.
UsageInv ==
    /\ Limiter!TypeOK
    /\ UsageType
    /\ \A g \in Limiter!Categories :
          IF Rate[g] > 0 THEN used[g] = Whole(g) - Left(g) ELSE used[g] = 0

\* The level the history gives the bucket of a category.
Level == [g \in Limiter!Categories |-> Rate[g] * Hz - used[g]]

LEMMA LevelIsLeft ==
    ASSUME UsageInv, NEW g \in Limiter!Categories, Rate[g] > 0
    PROVE  Level[g] = Left(g) /\ Level[g] \in 0 .. Whole(g)
  <1>1. used[g] = Whole(g) - Left(g) /\ Left(g) \in 0 .. Whole(g) /\ Whole(g) \in Nat
    BY LeftType, WholeBucket DEF UsageInv
  <1>2. Level[g] = Whole(g) - used[g]
    BY DEF Level, Whole
  <1> QED BY <1>1, <1>2

LEMMA KindBucket ==
    ASSUME NEW k \in Kinds
    PROVE  k.category \in Limiter!Categories /\ Key(k) = Bucket(k.category)
  BY CategoryType DEF Kinds, Key, Bucket

\* Running a tool of category g with the limiter's leave takes a token of g's bucket.
LEMMA RunUses ==
    ASSUME UsageInv, NEW c \in Clients, NEW k \in Kinds, Granted(c, k), Uses(k)
    PROVE  UsageInv' /\ Budget!Next
  <1> DEFINE g == k.category
  <1>1. g \in Limiter!Categories /\ Key(k) = Bucket(g)
    BY KindBucket
  <1>2. UsageType'
    BY <1>1, CallAssumption DEF UsageInv, UsageType, Uses
  <1>3. verdict' = [verdict EXCEPT ![g] = "granted"]
    BY DEF Uses
  <1>4. CASE Limiter!Unlimited(Bucket(g))
    <2>1. ~(Rate[g] > 0) /\ Rate[g] <= 0
      BY <1>1, <1>4, BucketRate, RateType DEF Limiter!Unlimited
    <2>2. used' = used
      BY <2>1 DEF Uses
    <2>3. Limiter!TypeOK'
      BY <1>4 DEF UsageInv, Limiter!TypeOK, Limiter!Unlimited, Limiter!Cap
    <2>4. \A h : Left(h)' = Left(h)
      BY <1>4 DEF Left, Bucket, Limiter!Unlimited, Limiter!Refilled, Limiter!Cap
    <2>5. UsageInv'
      BY <1>2, <2>2, <2>3, <2>4 DEF UsageInv, Whole
    <2>6. Budget!Unlimited(g)
      BY <1>1, <1>3, <2>1, <2>2 DEF Budget!Unlimited, Budget!Answer
    <2> QED BY <1>1, <2>5, <2>6 DEF Budget!Next
  <1>5. CASE Limiter!Grant(Bucket(g))
    <2>1. /\ Rate[g] > 0 /\ Left(g) >= Hz
          /\ Limiter!Settle(Bucket(g), Left(g) - Hz, "granted")
      BY <1>1, <1>5, BucketRate DEF Limiter!Grant, Left
    <2>2. /\ Left(g) \in 0 .. Whole(g) /\ Whole(g) \in Nat /\ Hz \in Nat
          /\ used[g] = Whole(g) - Left(g) /\ Limiter!TypeOK
          /\ used \in [Limiter!Categories -> Nat]
      BY <1>1, <2>1, LeftType, WholeBucket DEF UsageInv, UsageType
    <2>3. Left(g) - Hz \in 0 .. Whole(g)
      BY <2>1, <2>2
    <2>4. Limiter!TypeOK'
      BY <1>1, <2>1, <2>2, <2>3, SettleType
    <2>5. /\ Left(g)' = Left(g) - Hz
          /\ \A h \in Limiter!Categories : h # g => Left(h)' = Left(h)
      BY <1>1, <2>1, <2>2, <2>3, SettleLeft
    <2>6. used' = [used EXCEPT ![g] = @ + Hz]
      BY <2>1 DEF Uses
    <2>7. UsageInv'
      <3>1. used'[g] = Whole(g) - Left(g)'
        BY <1>1, <2>2, <2>5, <2>6
      <3>2. ASSUME NEW h \in Limiter!Categories, h # g
            PROVE  IF Rate[h] > 0 THEN used'[h] = Whole(h) - Left(h)' ELSE used'[h] = 0
        BY <2>5, <2>6, <2>2, <3>2 DEF UsageInv
      <3>3. \A h \in Limiter!Categories :
                IF Rate[h] > 0 THEN used'[h] = Whole(h) - Left(h)' ELSE used'[h] = 0
        BY <2>1, <3>1, <3>2
      <3> QED BY <1>2, <2>4, <3>3 DEF UsageInv, Whole
    <2>8. Level[g] = Left(g)
      BY <1>1, <2>1, LevelIsLeft
    <2>9. Level' = [Level EXCEPT ![g] = @ - Hz]
      <3>1. Rate[g] * Hz \in Int
        BY <2>2 DEF Whole
      <3>2. Rate[g] * Hz - used'[g] = Level[g] - Hz
        BY <1>1, <2>2, <2>6, <3>1 DEF Level
      <3>3. \A h \in Limiter!Categories : h # g => used'[h] = used[h]
        BY <2>2, <2>6
      <3> QED BY <1>1, <3>2, <3>3 DEF Level
    <2>10. Budget!Grant(g)
      BY <1>3, <2>1, <2>8, <2>9 DEF Budget!Grant, Budget!Answer, Level
    <2> QED BY <1>1, <2>7, <2>10 DEF Budget!Next
  <1> QED BY <1>1, <1>4, <1>5 DEF Granted

\* A call is turned away when less than a token is left of g's bucket.
LEMMA RefusalUsesNothing ==
    ASSUME UsageInv, NEW c \in Clients, NEW k \in Kinds, Refused(c, k)
    PROVE  UsageInv' /\ Budget!Next
  <1> DEFINE g == k.category
  <1>1. /\ g \in Limiter!Categories /\ Key(k) = Bucket(g)
        /\ verdict' = [verdict EXCEPT ![g] = "denied"] /\ used' = used
    BY KindBucket DEF Refused, TurnedAway
  <1>2. /\ Rate[g] > 0 /\ Left(g) < Hz
        /\ Limiter!Settle(Bucket(g), Left(g), "denied")
    BY <1>1, BucketRate DEF Refused, Limiter!Deny, Left
  <1>3. Left(g) \in 0 .. Whole(g)
    BY <1>1, <1>2, LeftType DEF UsageInv
  <1>4. Limiter!TypeOK'
    BY <1>1, <1>2, <1>3, SettleType DEF UsageInv
  <1>5. \A h \in Limiter!Categories : Left(h)' = Left(h)
    BY <1>1, <1>2, <1>3, SettleLeft DEF UsageInv
  <1>6. UsageInv'
    BY <1>1, <1>4, <1>5 DEF UsageInv, UsageType, Whole
  <1>7. Level[g] < Hz
    BY <1>1, <1>2, LevelIsLeft
  <1>8. Budget!Deny(g)
    BY <1>1, <1>2, <1>7 DEF Budget!Deny, Budget!Answer, Level
  <1> QED BY <1>1, <1>6, <1>8 DEF Budget!Next

LEMMA TickWearsOff ==
    ASSUME UsageInv, Tick
    PROVE  UsageInv' /\ Budget!Next
  <1>1. Limiter!Tick /\ WearsOff /\ Limiter!TypeOK
    BY DEF Tick, UsageInv
  <1>2. UsageType'
    BY <1>1, RateType DEF UsageInv, UsageType, WearsOff
  <1>3. Limiter!TypeOK'
    BY <1>1, CallAssumption DEF Limiter!TypeOK, Limiter!Tick, Limiter!Cap
  <1>4. ASSUME NEW g \in Limiter!Categories
        PROVE  /\ IF Rate[g] > 0 THEN used'[g] = Whole(g) - Left(g)' ELSE used'[g] = 0
               /\ Whole(g) - used'[g] = IF Rate[g] > 0 THEN Budget!Gain(g) ELSE Level[g]
    <2>1. used'[g] = IF Rate[g] > 0 /\ used[g] > Rate[g] THEN used[g] - Rate[g] ELSE 0
      BY <1>1 DEF WearsOff
    <2>2. CASE Rate[g] > 0
      <3>1. /\ Left(g) \in 0 .. Whole(g) /\ Whole(g) \in Nat /\ Rate[g] \in Nat
            /\ used[g] = Whole(g) - Left(g)
        BY <1>1, <2>2, LeftType, WholeBucket DEF UsageInv
      <3>2. Left(g)' = IF Left(g) + Rate[g] <= Whole(g) THEN Left(g) + Rate[g] ELSE Whole(g)
        BY <1>1, <2>2, TickLeft
      <3>3. Budget!Gain(g) = IF Left(g) + Rate[g] <= Whole(g)
                             THEN Left(g) + Rate[g] ELSE Whole(g)
        <4>1. Level[g] = Left(g)
          BY <2>2, LevelIsLeft
        <4> QED BY <4>1 DEF Budget!Gain, Budget!Cap, Level, Whole
      <3> QED BY <2>1, <2>2, <3>1, <3>2, <3>3
    <2>3. CASE ~(Rate[g] > 0)
      BY <2>1, <2>3 DEF UsageInv, Level, Whole
    <2> QED BY <2>2, <2>3
  <1>5. UsageInv'
    BY <1>2, <1>3, <1>4 DEF UsageInv, Whole
  <1>6. Level' = [g \in Limiter!Categories |->
                     IF Rate[g] > 0 THEN Budget!Gain(g) ELSE Level[g]]
    BY <1>4 DEF Level, Whole
  <1>7. Budget!Tick
    BY <1>1, <1>6 DEF WearsOff, Budget!Tick, Level
  <1> QED BY <1>5, <1>7 DEF Budget!Next

LEMMA UsageStep ==
    ASSUME UsageInv, [Next]_vars
    PROVE  UsageInv' /\ (Budget!Next \/ UNCHANGED Budget!vars)
  <1>1. ASSUME NEW c \in Clients, NEW k \in Kinds, Enter(c, k)
        PROVE  UsageInv' /\ Budget!Next
    BY <1>1, RunUses DEF Enter
  <1>2. ASSUME NEW c \in Clients, NEW k \in Kinds, Refused(c, k)
        PROVE  UsageInv' /\ Budget!Next
    BY <1>2, RefusalUsesNothing
  <1>3. ASSUME NEW c \in Clients, NEW k \in Kinds, NEW e \in Endings, Unsent(c, k, e)
        PROVE  UsageInv' /\ Budget!Next
    BY <1>3, RunUses DEF Unsent
  <1>4. ASSUME UNCHANGED <<limiterVars, usage>>
        PROVE  UsageInv' /\ UNCHANGED Budget!vars
    <2>1. UNCHANGED <<known, tokens, sinceRefill, reply, used, verdict>>
      BY <1>4 DEF limiterVars, usage
    <2>2. \A h : Left(h)' = Left(h)
      BY <2>1 DEF Left, Bucket, Limiter!Refilled, Limiter!Cap
    <2>3. Limiter!TypeOK'
      BY <2>1 DEF UsageInv, Limiter!TypeOK, Limiter!Cap
    <2>4. UsageInv'
      BY <2>1, <2>2, <2>3 DEF UsageInv, UsageType, Whole
    <2> QED BY <2>1, <2>4 DEF Budget!vars
  <1>5. ASSUME NEW c \in Clients, Apply(c) PROVE UNCHANGED <<limiterVars, usage>>
    BY <1>5 DEF Apply
  <1>6. ASSUME NEW c \in Clients, NEW e \in Endings, Leave(c, e)
        PROVE  UNCHANGED <<limiterVars, usage>>
    BY <1>6 DEF Leave
  <1>7. CASE Tick
    BY <1>7, TickWearsOff
  <1>8. CASE UNCHANGED vars
    BY <1>4, <1>8 DEF vars
  <1> QED BY <1>1, <1>2, <1>3, <1>4, <1>5, <1>6, <1>7, <1>8 DEF Next

LEMMA UsageInit == Init => UsageInv /\ Budget!Init
  <1> SUFFICES ASSUME Init PROVE UsageInv /\ Budget!Init
    OBVIOUS
  <1>1. Limiter!TypeOK
    BY CallAssumption DEF Init, Limiter!Init, Limiter!TypeOK
  <1>2. ASSUME NEW g \in Limiter!Categories
        PROVE  IF Rate[g] > 0 THEN used[g] = Whole(g) - Left(g) ELSE used[g] = 0
    <2>1. used[g] = 0 /\ Left(g) = Whole(g)
      BY BucketRate DEF Init, Limiter!Init, Left, Limiter!Refilled
    <2>2. Rate[g] > 0 => Whole(g) \in Nat
      BY WholeBucket
    <2> QED BY <2>1, <2>2
  <1>3. UsageInv
    BY <1>1, <1>2 DEF Init, UsageInv, UsageType
  <1>4. ASSUME NEW g \in Limiter!Categories PROVE Rate[g] * Hz - used[g] = Rate[g] * Hz
    <2>1. Rate[g] \in Int /\ Hz \in Int /\ used[g] = 0
      BY RateType, CallAssumption DEF Init
    <2>2. Rate[g] * Hz \in Int
      BY <2>1
    <2> QED BY <2>1, <2>2
  <1>5. Budget!Init
    BY <1>4 DEF Init, Budget!Init, Budget!Cap
  <1> QED BY <1>3, <1>5

\* However the calls of all clients overlap and end, the tools that are run in a category
\* drain one token bucket, one token each, and no call is turned away while it holds one:
\* the limiter is asked by every call, once, and before its tool runs (shared.py:83-98).
THEOREM BucketsShared == Spec => CallsShareBuckets
  <1>1. Init => UsageInv /\ Budget!Init
    BY UsageInit
  <1>2. UsageInv /\ [Next]_vars => UsageInv' /\ [Budget!Next]_(Budget!vars)
    BY UsageStep
  <1> QED BY <1>1, <1>2, PTL DEF Spec, CallsShareBuckets, Budget!Spec

-------------------------------------------------------------------------------
(* The categories *)

\* What is asked of category_for: a change is a write, a statement of the caller's a query.
Charged(req, tool) ==
    /\ req.effect = "change" => CategoryFor(tool) = "write"
    /\ req.effect = "statement" => CategoryFor(tool) = "query"

LEMMA EffectsOfRequests ==
    /\ Nothing.effect = "none" /\ Read.effect = "read" /\ CapellaRead.effect = "read"
    /\ Ping.effect = "read" /\ ExecuteReadonly.effect = "read"
    /\ Execute(TRUE).effect = "read" /\ Execute(FALSE).effect = "statement"
    /\ Command.effect = "change" /\ Update.effect = "change"
    /\ CapellaChange.effect = "change"
  BY DEF Request, Nothing, Read, CapellaRead, Ping, ExecuteReadonly, Execute, Command,
     Update, CapellaChange

LEMMA GroupsCharged ==
    ASSUME NEW group \in Groups, NEW t \in DOMAIN group
    PROVE  Charged(group[t], t)
  <1> USE EffectsOfRequests DEF Charged, CategoryFor, WriteCategory, QueryCategory
  <1>1. CASE group = MetaTools
    BY <1>1 DEF MetaTools
  <1>2. CASE group = SchemaTools
    BY <1>2 DEF SchemaTools, Execute, Request
  <1>3. CASE group = QueryTools
    BY <1>3 DEF QueryTools, Execute, Request
  <1>4. CASE group = AdminTools
    BY <1>4 DEF AdminTools, AdminAPI
  <1>5. CASE group = ConfigTools
    BY <1>5 DEF ConfigTools, ConfigAPI, SettingsAPI
  <1>6. CASE group = LinkTools
    BY <1>6 DEF LinkTools, LinksAPI
  <1>7. CASE group = LibraryTools
    BY <1>7 DEF LibraryTools, LibraryAPI
  <1>8. CASE group = SecurityTools
    BY <1>8 DEF SecurityTools, SecurityAPI
  <1>9. CASE group = ClusterTools
    BY <1>9 DEF ClusterTools, ClusterAPI
  <1>10. CASE group = CapellaTools
    BY <1>10 DEF CapellaTools, CapellaAPI
  <1> QED
    BY <1>1, <1>2, <1>3, <1>4, <1>5, <1>6, <1>7, <1>8, <1>9, <1>10 DEF Groups

LEMMA KindsCharged ==
    ASSUME NEW k \in Kinds
    PROVE  /\ k.request.effect = "change" => k.category = "write"
           /\ k.request.effect = "statement" => k.category = "query"
  <1>1. PICK t \in Tools : k = [request |-> RequestOf[t], category |-> CategoryFor(t),
                                unsent |-> UnsentEndings(t)]
    BY DEF Kinds
  <1>2. k.request = RequestOf[t] /\ k.category = CategoryFor(t)
    BY <1>1
  <1> DEFINE group == CHOOSE g \in Groups : t \in DOMAIN g
  <1>3. group \in Groups /\ t \in DOMAIN group
    BY DEF Tools
  <1>4. RequestOf[t] = group[t]
    BY DEF RequestOf
  <1>5. Charged(RequestOf[t], t)
    BY <1>3, <1>4, GroupsCharged
  <1> QED BY <1>2, <1>5 DEF Charged

\* The call c enters with this step.
Entering(c) == ~running[c] /\ running'[c]

LEMMA OnlyEnterEnters ==
    ASSUME TypeOK, Next, NEW c \in Clients, Entering(c)
    PROVE  \E k \in Kinds : Enter(c, k)
  <1>1. ASSUME NEW d \in Clients, NEW k \in Kinds, Enter(d, k)
        PROVE  d = c
    BY <1>1 DEF Enter, Entering, TypeOK
  <1>2. ASSUME NEW d \in Clients, NEW k \in Kinds, Refused(d, k) PROVE FALSE
    BY <1>2 DEF Refused, Entering
  <1>3. ASSUME NEW d \in Clients, NEW k \in Kinds, NEW e \in Endings, Unsent(d, k, e)
        PROVE  FALSE
    BY <1>3 DEF Unsent, Entering
  <1>4. ASSUME NEW d \in Clients, Apply(d) PROVE FALSE
    BY <1>4 DEF Apply, Entering
  <1>5. ASSUME NEW d \in Clients, NEW e \in Endings, Leave(d, e) PROVE FALSE
    BY <1>5 DEF Leave, Entering, TypeOK
  <1>6. ASSUME Tick PROVE FALSE
    BY <1>6 DEF Tick, callVars, Entering
  <1> QED BY <1>1, <1>2, <1>3, <1>4, <1>5, <1>6 DEF Next

LEMMA EnteringSpends ==
    ASSUME TypeOK, Next, NEW c \in Clients, Entering(c)
    PROVE  /\ request'[c].effect = "change" => Spends("write")
           /\ request'[c].effect = "statement" => Spends("query")
  <1>1. PICK k \in Kinds : Enter(c, k)
    BY OnlyEnterEnters
  <1>2. request'[c] = k.request
    BY <1>1 DEF Enter, TypeOK
  <1>3. Spends(k.category)
    BY <1>1 DEF Enter, Granted, Spends, Key
  <1> QED BY <1>2, <1>3, KindsCharged

\* Every call whose request changes a cluster spends a token for writes, every statement
\* of a caller's one for queries (rate_limit.py:137-209 and shared.py:83-84).
THEOREM WritesCharged == Spec => ChangesSpendWrites
  <1>1. TypeOK /\ [Next]_vars =>
            [\A c \in Clients :
                ~running[c] /\ running'[c] =>
                    /\ request'[c].effect = "change" => Spends("write")
                    /\ request'[c].effect = "statement" => Spends("query")]_vars
    BY EnteringSpends DEF Entering
  <1> QED BY <1>1, TypeCorrect, PTL DEF Spec, ChangesSpendWrites
===============================================================================
