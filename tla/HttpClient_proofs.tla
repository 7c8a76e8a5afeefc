--------------------------- MODULE HttpClient_proofs ---------------------------
(***************************************************************************)
(* Proofs about CircuitBreaker and HttpClient for every number of callers, *)
(* every threshold, cooldown and retry budget. Of the breaker: its types,  *)
(* the agreement of state and failure count, and that it implements        *)
(* BreakerContract. Of the client around it: its types, that its requests  *)
(* as their callers see them are admitted by the same contract, what a     *)
(* server error costs, and that a cooldown only drains what was admitted   *)
(* before it.                                                              *)
(***************************************************************************)
EXTENDS HttpClient, TLAPS

-------------------------------------------------------------------------------
(* The breaker *)

\* The inductive invariant. BreakerConsistent is not inductive alone: that a failure
\* counted in half-open trips again needs the count's type.
BreakerInv == BreakerTypeOK /\ BreakerConsistent

LEMMA BreakerInitInv == BreakerInit => BreakerInv
  BY BreakerAssumption
  DEF BreakerInit, BreakerInv, BreakerTypeOK, States, BreakerConsistent

\* A step of one caller keeps the invariant, whatever the other callers are doing.
LEMMA BreakerCallerInv ==
    ASSUME BreakerInv, NEW c \in Callers,
           Admit(c) \/ Refuse(c) \/ Succeed(c) \/ Fail(c) \/ Excluded(c)
    PROVE  BreakerInv'
  <1> USE BreakerAssumption DEF BreakerInv, BreakerTypeOK, States, BreakerConsistent, breaker
  <1>1. CASE Admit(c)
    BY <1>1 DEF Admit, StateAtCall
  <1>2. CASE Refuse(c)
    BY <1>2 DEF Refuse
  <1>3. CASE Succeed(c)
    BY <1>3 DEF Succeed, Finish
  <1>4. CASE Fail(c)
    <2>1. failCount' = Bump(failCount) /\ failCount' \in 0 .. FailMax + 1
      BY <1>4 DEF Fail, Bump
    <2>2. failCount < FailMax => failCount' = failCount + 1
      BY <2>1 DEF Bump
    <2>3. failCount >= FailMax => failCount' >= FailMax
      BY <2>1 DEF Bump
    <2>4. BreakerTypeOK'
      BY <1>4, <2>1 DEF Fail, Finish
    <2>5. BreakerConsistent'
      BY <1>4, <2>1, <2>2, <2>3 DEF Fail, Finish, Trips
    <2> QED BY <2>4, <2>5
  <1>5. CASE Excluded(c)
    BY <1>5 DEF Excluded, Finish
  <1> QED BY <1>1, <1>2, <1>3, <1>4, <1>5

LEMMA BreakerNextInv == BreakerInv /\ [BreakerNext]_breakerVars => BreakerInv'
  <1> SUFFICES ASSUME BreakerInv, [BreakerNext]_breakerVars PROVE BreakerInv'
    OBVIOUS
  <1>1. ASSUME NEW c \in Callers,
               Admit(c) \/ Refuse(c) \/ Succeed(c) \/ Fail(c) \/ Excluded(c)
        PROVE  BreakerInv'
    BY <1>1, BreakerCallerInv
  <1>2. CASE Tick
    BY <1>2, BreakerAssumption
    DEF Tick, BreakerInv, BreakerTypeOK, BreakerConsistent
  <1>3. CASE UNCHANGED breakerVars
    BY <1>3 DEF breakerVars, BreakerInv, BreakerTypeOK, BreakerConsistent
  <1> QED BY <1>1, <1>2, <1>3 DEF BreakerNext

LEMMA BreakerSpecInv == BreakerSpec => []BreakerInv
  BY BreakerInitInv, BreakerNextInv, PTL DEF BreakerSpec

\* Every variable of the breaker keeps its type.
THEOREM BreakerTypes == BreakerSpec => []BreakerTypeOK
  <1>1. BreakerInv => BreakerTypeOK
    BY DEF BreakerInv
  <1> QED BY BreakerSpecInv, <1>1, PTL

\* _state and _fail_count agree in every reachable state: closed exactly below
\* fail_max, half-open only after the cooldown.
THEOREM BreakerConsistency == BreakerSpec => []BreakerConsistent
  <1>1. BreakerInv => BreakerConsistent
    BY DEF BreakerInv
  <1> QED BY BreakerSpecInv, <1>1, PTL

\* Admission by state is admission by count and age: StateAtCall is "open" exactly
\* while the contract is cooling down.
LEMMA AdmissionRule ==
    ASSUME BreakerInv
    PROVE  StateAtCall = "open" <=> Contract!CoolingDown
  BY BreakerAssumption
  DEF BreakerInv, BreakerTypeOK, States, BreakerConsistent, StateAtCall, Contract!CoolingDown

LEMMA StepRefines ==
    BreakerInv /\ [BreakerNext]_breakerVars => [Contract!Next]_(Contract!vars)
  <1> SUFFICES ASSUME BreakerInv, [BreakerNext]_breakerVars
               PROVE  Contract!Next \/ UNCHANGED Contract!vars
    OBVIOUS
  <1> USE DEF Contract!vars, Contract!Next
  <1>1. ASSUME NEW c \in Callers, Admit(c) PROVE Contract!Next
    <2>1. Contract!Admit(c)
      BY <1>1, AdmissionRule DEF Admit, Contract!Admit
    <2> QED BY <2>1
  <1>2. ASSUME NEW c \in Callers, Refuse(c) PROVE Contract!Next
    <2>1. Contract!Refuse(c)
      BY <1>2, AdmissionRule DEF Refuse, breaker, Contract!Refuse
    <2> QED BY <2>1
  <1>3. ASSUME NEW c \in Callers, Succeed(c) PROVE Contract!Next
    <2>1. Contract!Succeed(c)
      BY <1>3 DEF Succeed, Finish, Contract!Succeed, Contract!Finish
    <2> QED BY <2>1
  <1>4. ASSUME NEW c \in Callers, Fail(c) PROVE Contract!Next
    <2>1. Contract!Fail(c)
      BY <1>4 DEF Fail, Finish, Bump, Trips,
                  Contract!Fail, Contract!Finish, Contract!Bump
    <2> QED BY <2>1
  <1>5. ASSUME NEW c \in Callers, Excluded(c) PROVE Contract!Next
    <2>1. Contract!Neutral(c)
      BY <1>5 DEF Excluded, Finish, breaker, Contract!Neutral, Contract!Finish
    <2> QED BY <2>1
  <1>6. CASE Tick
    BY <1>6 DEF Tick, Contract!Tick
  <1>7. CASE UNCHANGED breakerVars
    BY <1>7 DEF breakerVars
  <1> QED BY <1>1, <1>2, <1>3, <1>4, <1>5, <1>6, <1>7 DEF BreakerNext

\* The breaker implements its contract: a caller is refused exactly while fewer than
\* reset_timeout units have passed since the latest of fail_max or more consecutive
\* failures, for every interleaving of callers and late outcomes.
THEOREM BreakerRefinement == BreakerSpec => ImplementsContract
  <1>1. BreakerInit => Contract!Init
    BY DEF BreakerInit, Contract!Init
  <1>2. BreakerInv /\ [BreakerNext]_breakerVars => [Contract!Next]_(Contract!vars)
    BY StepRefines
  <1> QED BY BreakerSpecInv, <1>1, <1>2, PTL DEF BreakerSpec, ImplementsContract, Contract!Spec

-------------------------------------------------------------------------------
(* The breaker is used as its specification allows *)

LEMMA EndOfRequest ==
    ASSUME NEW c \in Callers, NEW e, AttemptEnds(c, e)
    PROVE  \/ RetriesAfter(c, e) /\ BackOff(c)
           \/ (Succeed(c) \/ Fail(c) \/ Excluded(c)) /\ End(c, e)
  BY DEF AttemptEnds, BreakerOutcome

\* A step of the client is a step of the breaker, or does not touch it.
LEMMA BreakerStep == [Next]_vars => [BreakerNext]_(breakerVars)
  <1> SUFFICES ASSUME [Next]_vars PROVE [BreakerNext]_(breakerVars)
    OBVIOUS
  <1>1. ASSUME NEW c \in Callers, NEW e, AttemptEnds(c, e) PROVE [BreakerNext]_(breakerVars)
    BY <1>1, EndOfRequest DEF BackOff, breakerVars, BreakerNext
  <1>2. ASSUME NEW c \in Callers, Begin(c) \/ Refused(c) \/ Cancel(c) PROVE [BreakerNext]_(breakerVars)
    BY <1>2 DEF Begin, Refused, Cancel, BreakerNext
  <1>3. ASSUME NEW c \in Callers, Resume(c) PROVE [BreakerNext]_(breakerVars)
    BY <1>3 DEF Resume, breakerVars
  <1>4. CASE Elapse
    BY <1>4 DEF Elapse, BreakerNext
  <1>5. CASE UNCHANGED vars
    BY <1>5 DEF vars, breakerVars
  <1> QED BY <1>1, <1>2, <1>3, <1>4, <1>5 DEF Next, Respond, TransportError

LEMMA BreakerEmbedded == Spec => BreakerSpec
  <1>1. Init => BreakerInit
    BY DEF Init
  <1> QED BY <1>1, BreakerStep, PTL DEF Spec, BreakerSpec

\* Retries included, the breaker inside a client does what its contract says: what is
\* proved of the breaker alone holds of it in use.
THEOREM ContractInUse == Spec => ImplementsContract
  BY BreakerEmbedded, BreakerRefinement

-------------------------------------------------------------------------------
(* Types and budget *)

\* How an attempt can end.
Ends == {"ok", "AnalyticsServerError", "AnalyticsConnectionError"} \union ExcludedExceptions

LEMMA EndsAreOutcomes == Ends \subseteq Outcomes \ {"none", "AnalyticsCircuitOpenError"}
  BY DEF Ends, ExcludedExceptions, Outcomes

LEMMA MapResponseType == \A s \in Statuses : MapResponse(s) \in Ends
  BY HttpAssumption DEF MapResponse, Ends, ExcludedExceptions

LEMMA FailuresType ==
    ASSUME NEW o, failures \in 0 .. FailMax + 1
    PROVE  Failures(o) \in 0 .. FailMax + 1
  BY BreakerAssumption DEF Failures, Bump

\* Neither the type of attempt nor ServerErrorSpendsBudget is inductive: that Resume
\* stays within the budget, and does not outdate what was reported, depends on what
\* holds of a request that sleeps or waits.
Pending(c) ==
    /\ phase[c] # "idle" => outcome[c] = "none"
    /\ phase[c] = "backoff" => attempt[c] < Attempts

BudgetInv ==
    TypeOK /\ BreakerConsistent /\ ServerErrorSpendsBudget /\ \A c \in Callers : Pending(c)

LEMMA AttemptsType == Attempts \in Nat \ {0}
  BY HttpAssumption DEF Attempts

LEMMA AttemptEndsInv ==
    ASSUME BudgetInv, BreakerInv', NEW c \in Callers, NEW e \in Ends, AttemptEnds(c, e)
    PROVE  BudgetInv'
  <1>0. /\ attempt' = attempt /\ attempt[c] \in 0 .. Attempts
        /\ phase[c] = "awaiting"
        /\ phase \in [Callers -> {"idle", "awaiting", "backoff"}]
        /\ calls \in [Callers -> {"idle", "running", "refused"}]
        /\ failures' \in 0 .. FailMax + 1
        /\ e \in Outcomes
    BY FailuresType, EndsAreOutcomes
       DEF BudgetInv, TypeOK, BreakerTypeOK, AttemptEnds, BackOff, End
  <1>1. CASE RetriesAfter(c, e) /\ BackOff(c)
    <2>1. calls' = calls /\ outcome' = outcome /\ phase' = [phase EXCEPT ![c] = "backoff"]
      BY <1>1 DEF BackOff, breakerVars
    <2>2. TypeOK'
      BY <1>0, <2>1 DEF BudgetInv, BreakerInv, TypeOK
    <2>3. ServerErrorSpendsBudget'
      BY <1>0, <2>1 DEF BudgetInv, ServerErrorSpendsBudget
    <2>4. \A d \in Callers : Pending(d)'
      BY <1>0, <1>1, <2>1, AttemptsType DEF BudgetInv, Pending, RetriesAfter
    <2> QED BY <2>2, <2>3, <2>4 DEF BudgetInv, BreakerInv
  <1>2. CASE /\ ~RetriesAfter(c, e) /\ End(c, e)
             /\ Succeed(c) \/ Fail(c) \/ Excluded(c)
    <2>1. /\ calls' = [calls EXCEPT ![c] = "idle"]
          /\ outcome' = [outcome EXCEPT ![c] = e]
          /\ phase' = [phase EXCEPT ![c] = "idle"]
      BY <1>2 DEF End, Succeed, Fail, Excluded, Finish
    <2>2. TypeOK'
      BY <1>0, <2>1 DEF BudgetInv, BreakerInv, TypeOK
    <2>3. e = "AnalyticsServerError" => attempt[c] = Attempts
      BY <1>0, <1>2, AttemptsType DEF RetriesAfter, Retryable
    <2>4. ServerErrorSpendsBudget'
      BY <1>0, <2>1, <2>3 DEF BudgetInv, TypeOK, ServerErrorSpendsBudget
    <2>5. \A d \in Callers : Pending(d)'
      BY <1>0, <2>1 DEF BudgetInv, Pending, TypeOK
    <2> QED BY <2>2, <2>4, <2>5 DEF BudgetInv, BreakerInv
  <1> QED BY <1>1, <1>2 DEF AttemptEnds, BreakerOutcome

LEMMA CallerInv ==
    ASSUME BudgetInv, BreakerInv', NEW c \in Callers,
           Begin(c) \/ Refused(c) \/ Resume(c) \/ Cancel(c)
    PROVE  BudgetInv'
  <1> USE AttemptsType
      DEF BudgetInv, BreakerInv, Pending, TypeOK, ServerErrorSpendsBudget, BreakerTypeOK, Outcomes
  <1>1. CASE Begin(c)
    BY <1>1 DEF Begin, Admit
  <1>2. CASE Refused(c)
    BY <1>2 DEF Refused, Refuse
  <1>3. CASE Resume(c)
    BY <1>3 DEF Resume, breakerVars
  <1>4. CASE Cancel(c)
    BY <1>4, FailuresType DEF Cancel, End, Excluded, Finish
  <1> QED BY <1>1, <1>2, <1>3, <1>4

LEMMA BudgetInit == Init => BudgetInv
  BY AttemptsType, BreakerInitInv, BreakerAssumption
     DEF Init, BreakerInit, BudgetInv, BreakerInv, TypeOK, BreakerTypeOK, States, Outcomes, Pending,
         ServerErrorSpendsBudget

LEMMA BudgetStep == BudgetInv /\ [Next]_vars => BudgetInv'
  <1> SUFFICES ASSUME BudgetInv, [Next]_vars PROVE BudgetInv'
    OBVIOUS
  <1>0. BreakerInv'
    BY BreakerStep, BreakerNextInv DEF BudgetInv, BreakerInv, TypeOK
  <1>1. ASSUME NEW c \in Callers, Begin(c) \/ Refused(c) \/ Resume(c) \/ Cancel(c)
        PROVE  BudgetInv'
    BY <1>0, <1>1, CallerInv
  <1>2. ASSUME NEW c \in Callers, NEW s \in Statuses, Respond(c, s) PROVE BudgetInv'
    BY <1>0, <1>2, MapResponseType, AttemptEndsInv DEF Respond
  <1>3. ASSUME NEW c \in Callers, TransportError(c) PROVE BudgetInv'
    BY <1>0, <1>3, AttemptEndsInv DEF TransportError, Ends
  <1>4. CASE Elapse \/ UNCHANGED vars
    BY <1>0, <1>4 DEF Elapse, Tick, vars, breakerVars, BudgetInv, BreakerInv, Pending, TypeOK,
                      ServerErrorSpendsBudget
  <1> QED BY <1>1, <1>2, <1>3, <1>4 DEF Next

LEMMA BudgetKept == Spec => []BudgetInv
  BY BudgetInit, BudgetStep, PTL DEF Spec

\* Every variable keeps its type: in particular no request makes more attempts than
\* its budget, and one is inside the breaker exactly while it is not idle.
THEOREM TypeCorrect == Spec => []TypeOK
  <1>1. BudgetInv => TypeOK
    BY DEF BudgetInv
  <1> QED BY BudgetKept, <1>1, PTL

\* A caller is told of a server error only after the whole budget is spent.
THEOREM BudgetSpent == Spec => []ServerErrorSpendsBudget
  <1>1. BudgetInv => ServerErrorSpendsBudget
    BY DEF BudgetInv
  <1> QED BY BudgetKept, <1>1, PTL

-------------------------------------------------------------------------------
(* Requests as their callers see them *)

\* What callers are told and what the breaker has counted never part, although the one
\* is written by the retry loop and the other by the breaker around it.
SeenInv ==
    /\ failures = failCount
    /\ \A c \in Callers : Seen(c) = calls[c]

LEMMA SeenInit == Init => SeenInv
  BY DEF Init, BreakerInit, SeenInv, Seen

LEMMA AttemptEndsSeen ==
    ASSUME BudgetInv, SeenInv, NEW c \in Callers, NEW e \in Ends, AttemptEnds(c, e)
    PROVE  SeenInv'
  <1>0. /\ phase \in [Callers -> {"idle", "awaiting", "backoff"}] /\ phase[c] = "awaiting"
        /\ outcome \in [Callers -> Outcomes]
        /\ calls \in [Callers -> {"idle", "running", "refused"}]
        /\ e # "AnalyticsCircuitOpenError"
    BY EndsAreOutcomes DEF BudgetInv, TypeOK, BreakerTypeOK, AttemptEnds
  <1>1. CASE BackOff(c)
    BY <1>0, <1>1 DEF BackOff, breakerVars, SeenInv, Seen
  <1>2. CASE BreakerOutcome(c, e) /\ End(c, e)
    <2>1. failures' = failCount'
      <3>1. CASE e = "ok"
        BY <1>2, <3>1 DEF BreakerOutcome, ExcludedExceptions, Succeed, End, Failures
      <3>2. CASE e \in ExcludedExceptions
        BY <1>2, <3>2 DEF BreakerOutcome, ExcludedExceptions, Excluded, breaker, End, Failures,
                          SeenInv
      <3>3. CASE e \in {"AnalyticsServerError", "AnalyticsConnectionError"}
        BY <1>2, <3>3 DEF BreakerOutcome, ExcludedExceptions, Fail, End, Failures, SeenInv
      <3> QED BY <3>1, <3>2, <3>3 DEF Ends
    <2>2. calls' = [calls EXCEPT ![c] = "idle"]
      BY <1>2 DEF BreakerOutcome, Succeed, Excluded, Fail, Finish
    <2>3. \A d \in Callers : Seen(d)' = calls'[d]
      BY <1>0, <1>2, <2>2 DEF End, SeenInv, Seen
    <2> QED BY <2>1, <2>3 DEF SeenInv
  <1> QED BY <1>1, <1>2 DEF AttemptEnds

LEMMA SeenStep == BudgetInv /\ SeenInv /\ [Next]_vars => SeenInv'
  <1> SUFFICES ASSUME BudgetInv, SeenInv, [Next]_vars PROVE SeenInv'
    OBVIOUS
  <1>0. /\ phase \in [Callers -> {"idle", "awaiting", "backoff"}]
        /\ outcome \in [Callers -> Outcomes]
        /\ calls \in [Callers -> {"idle", "running", "refused"}]
    BY DEF BudgetInv, TypeOK, BreakerTypeOK
  <1>1. ASSUME NEW c \in Callers, Begin(c) PROVE SeenInv'
    BY <1>0, <1>1 DEF Begin, Admit, SeenInv, Seen
  <1>2. ASSUME NEW c \in Callers, Refused(c) PROVE SeenInv'
    BY <1>0, <1>2 DEF Refused, Refuse, breaker, SeenInv, Seen
  <1>3. ASSUME NEW c \in Callers, Resume(c) PROVE SeenInv'
    BY <1>0, <1>3 DEF Resume, breakerVars, SeenInv, Seen
  <1>4. ASSUME NEW c \in Callers, Cancel(c) PROVE SeenInv'
    BY <1>0, <1>4 DEF Cancel, Excluded, breaker, Finish, End, Failures, SeenInv, Seen
  <1>5. ASSUME NEW c \in Callers, NEW s \in Statuses, Respond(c, s) PROVE SeenInv'
    BY <1>5, MapResponseType, AttemptEndsSeen DEF Respond
  <1>6. ASSUME NEW c \in Callers, TransportError(c) PROVE SeenInv'
    BY <1>6, AttemptEndsSeen DEF TransportError, Ends
  <1>7. CASE Elapse \/ UNCHANGED vars
    BY <1>7 DEF Elapse, Tick, vars, breakerVars, SeenInv, Seen
  <1> QED BY <1>1, <1>2, <1>3, <1>4, <1>5, <1>6, <1>7 DEF Next

LEMMA SeenKept == Spec => []SeenInv
  BY BudgetKept, SeenInit, SeenStep, PTL DEF Spec

\* A step of the contract that the breaker takes is one that its callers see.
LEMMA RequestsStep ==
    ASSUME BudgetInv, SeenInv, BudgetInv', SeenInv', [Next]_vars
    PROVE  [Requests!Next]_(Requests!vars)
  <1>1. BreakerInv /\ [BreakerNext]_breakerVars
    BY BreakerStep DEF BudgetInv, TypeOK, BreakerInv
  <1>2. [Contract!Next]_(Contract!vars)
    BY <1>1, StepRefines
  <1>3. /\ [c \in Callers |-> Seen(c)] = calls
        /\ [c \in Callers |-> Seen(c)]' = calls'
        /\ failures = failCount /\ failures' = failCount'
    <2>1. [c \in Callers |-> Seen(c)] = calls
      BY DEF BudgetInv, TypeOK, BreakerTypeOK, SeenInv
    <2>2. [c \in Callers |-> Seen(c)]' = calls'
      BY DEF BudgetInv, TypeOK, BreakerTypeOK, SeenInv
    <2> QED BY <2>1, <2>2 DEF SeenInv
  <1>4. ASSUME NEW c \in Callers
        PROVE  /\ Contract!Admit(c) => Requests!Admit(c)
               /\ Contract!Refuse(c) => Requests!Refuse(c)
               /\ Contract!Succeed(c) => Requests!Succeed(c)
               /\ Contract!Fail(c) => Requests!Fail(c)
               /\ Contract!Neutral(c) => Requests!Neutral(c)
    <2> USE <1>3
    <2>1. Contract!CoolingDown <=> Requests!CoolingDown
      BY DEF Contract!CoolingDown, Requests!CoolingDown
    <2>2. Contract!Finish(c) <=> Requests!Finish(c)
      BY DEF Contract!Finish, Requests!Finish
    <2>3. Contract!Bump(failCount) = Requests!Bump(failures)
      BY DEF Contract!Bump, Requests!Bump
    <2>4. Contract!Admit(c) => Requests!Admit(c)
      BY <2>1 DEF Contract!Admit, Requests!Admit
    <2>5. Contract!Refuse(c) => Requests!Refuse(c)
      BY <2>1 DEF Contract!Refuse, Requests!Refuse
    <2>6. /\ Contract!Succeed(c) => Requests!Succeed(c)
          /\ Contract!Neutral(c) => Requests!Neutral(c)
      BY <2>2 DEF Contract!Succeed, Requests!Succeed, Contract!Neutral, Requests!Neutral
    <2>7. Contract!Fail(c) => Requests!Fail(c)
      BY <2>2, <2>3 DEF Contract!Fail, Requests!Fail
    <2> QED BY <2>4, <2>5, <2>6, <2>7
  <1>5. Contract!Tick => Requests!Tick
    BY <1>3 DEF Contract!Tick, Requests!Tick
  <1>6. UNCHANGED Contract!vars => UNCHANGED Requests!vars
    BY <1>3 DEF Contract!vars, Requests!vars
  <1> QED BY <1>2, <1>4, <1>5, <1>6 DEF Contract!Next, Requests!Next

\* Requests, however often each of them is tried, are admitted and refused as the
\* contract of the breaker says of what their callers were told.
THEOREM RequestsAdmitted == Spec => RequestsMeetContract
  <1>1. Init => Requests!Init
    BY DEF Init, BreakerInit, Requests!Init, Seen
  <1>2. BudgetInv /\ SeenInv /\ BudgetInv' /\ SeenInv' /\ [Next]_vars
           => [Requests!Next]_(Requests!vars)
    BY RequestsStep
  <1> QED BY <1>1, <1>2, BudgetKept, SeenKept, PTL DEF Spec, RequestsMeetContract, Requests!Spec

-------------------------------------------------------------------------------
(* The load during a cooldown *)

\* The steps that could add load are those that admit; none is possible now.
LEMMA NoneAdmitted ==
    ASSUME BudgetInv, CoolingDown, NEW c \in Callers
    PROVE  ~Begin(c)
  BY BreakerAssumption
     DEF BudgetInv, TypeOK, BreakerTypeOK, CoolingDown, Begin, Admit, StateAtCall

LEMMA LoadDrains ==
    ASSUME BudgetInv, BudgetInv', [Next]_vars, CoolingDown, NEW c \in Callers
    PROVE  Left(c)' <= Left(c)
  <1>1. /\ attempt[c] \in 0 .. Attempts /\ Attempts \in Nat
        /\ attempt'[c] \in 0 .. Attempts
        /\ attempt \in [Callers -> 0 .. Attempts]
        /\ calls \in [Callers -> {"idle", "running", "refused"}]
    BY AttemptsType DEF BudgetInv, TypeOK, BreakerTypeOK
  <1>2. CASE calls'[c] # "running"
    BY <1>1, <1>2 DEF Left
  <1>3. CASE calls'[c] = "running" /\ calls[c] = "running" /\ attempt[c] <= attempt'[c]
    BY <1>1, <1>3 DEF Left
  <1>4. \/ calls'[c] # "running"
        \/ calls[c] = "running" /\ attempt[c] <= attempt'[c]
    <2>1. ASSUME NEW d \in Callers, NEW e, AttemptEnds(d, e)
          PROVE  calls'[c] # "running" \/ (calls[c] = "running" /\ attempt[c] <= attempt'[c])
      BY <1>1, <2>1, EndOfRequest
         DEF BackOff, breakerVars, End, Succeed, Fail, Excluded, Finish
    <2>2. ASSUME NEW d \in Callers, Refused(d) \/ Resume(d) \/ Cancel(d)
          PROVE  calls'[c] # "running" \/ (calls[c] = "running" /\ attempt[c] <= attempt'[c])
      <3>1. CASE Refused(d)
        BY <1>1, <3>1 DEF Refused, Refuse
      <3>2. CASE Resume(d)
        BY <1>1, <3>2 DEF Resume, breakerVars
      <3>3. CASE Cancel(d)
        BY <1>1, <3>3 DEF Cancel, End, Excluded, Finish
      <3> QED BY <2>2, <3>1, <3>2, <3>3
    <2>3. CASE Elapse \/ UNCHANGED vars
      BY <1>1, <2>3 DEF Elapse, Tick, vars, breakerVars
    <2> QED BY <2>1, <2>2, <2>3, NoneAdmitted DEF Next, Respond, TransportError
  <1> QED BY <1>2, <1>3, <1>4

\* While the breaker cools down no caller's remaining attempts grow.
THEOREM Drains == Spec => CooldownDrains
  <1>1. BudgetInv /\ BudgetInv' /\ [Next]_vars
           => [CoolingDown /\ CoolingDown' => \A c \in Callers : Left(c)' <= Left(c)]_vars
    BY LoadDrains
  <1> QED BY BudgetKept, <1>1, PTL DEF Spec, CooldownDrains
===============================================================================
