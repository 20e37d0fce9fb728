-------------------------- MODULE AttnEngineProofs --------------------------
(***************************************************************************)
(* Proofs about AttnEngine for every set of requests, every prompt and     *)
(* every bound: its types; its safety properties, from the inductive       *)
(* invariants IInv and KVInv (one lemma for each action, one step for each *)
(* conjunct the action can disturb); and that it implements                *)
(* ReadViewService.                                                        *)
(***************************************************************************)
EXTENDS AttnEngine, FiniteSetTheorems, TLAPS


LEMMA NoPlanType == NoPlan \in Plan
  BY EngineAssumption DEF NoPlan, Plan

LEMMA InitTypeOK == Init => TypeOK
  BY EngineAssumption, NoPlanType
     DEF Init, TypeOK, PayloadKinds, SetupKinds, Tokens

LEMMA AddRequestType ==
  ASSUME TypeOK, NEW r \in Requests, NEW kind \in Kinds, AddRequest(r, kind)
  PROVE  TypeOK'
  BY EngineAssumption DEF TypeOK, AddRequest, Takes, stepVars, engineVars, workerVars

LEMMA HandleAbortType ==
  ASSUME TypeOK, NEW r \in Requests, HandleAbort(r)
  PROVE  TypeOK'
  BY DEF TypeOK, HandleAbort, Takes, FinishRequests, Alive, stepVars, engineVars,
         workerVars

\* What happens to the queues alone.
QueueMove == ReceiveMessage \/ ClearAborts

LEMMA QueueMoveKeeps ==
  QueueMove => UNCHANGED <<ledgerVars, phase, stepVars, setup, engineVars, workerVars>>
  BY DEF QueueMove, ReceiveMessage, ClearAborts, QueueAdd, QueueAbort, PassOnAbort

LEMMA QueueMoveType == TypeOK /\ QueueMove => TypeOK'
<1> SUFFICES ASSUME TypeOK, QueueMove PROVE TypeOK'
  OBVIOUS
<1>1. /\ client' \in [Requests -> {"none", "added", "aborted"}]
      /\ aborts' \subseteq Requests /\ passing' \subseteq Requests
  BY DEF TypeOK, QueueMove, ReceiveMessage, ClearAborts, QueueAdd, QueueAbort,
     PassOnAbort
<1>2. inputQueue' \in Seq(Message)
  <2>1. inputQueue \in Seq(Message)
    BY DEF TypeOK
  <2>2. ASSUME NEW r \in Requests, NEW kind \in Kinds, QueueAdd(r, kind)
        PROVE  inputQueue' \in Seq(Message)
    <3>1. [req |-> r, what |-> kind] \in Message
      BY EngineAssumption DEF Message
    <3>2. QED
      BY <2>1, <2>2, <3>1 DEF QueueAdd
  <2>3. ASSUME NEW r \in Requests, PassOnAbort(r)
        PROVE  inputQueue' \in Seq(Message)
    <3>1. [req |-> r, what |-> "abort"] \in Message
      BY DEF Message
    <3>2. QED
      BY <2>1, <2>3, <3>1 DEF PassOnAbort
  <2>4. CASE (\E r \in Requests : QueueAbort(r)) \/ ClearAborts
    BY <2>1, <2>4 DEF QueueAbort, ClearAborts
  <2>5. QED
    BY <2>2, <2>3, <2>4 DEF QueueMove, ReceiveMessage
<1>3. QED
  BY <1>1, <1>2, QueueMoveKeeps
     DEF TypeOK, ledgerVars, stepVars, engineVars, workerVars

LEMMA ScheduleType ==
  ASSUME TypeOK, NEW n \in [Requests -> 0..Chunk], NEW P \in SUBSET Requests,
         Schedule(n, P)
  PROVE  TypeOK'
  BY EngineAssumption DEF TypeOK, Schedule, queueVars, engineVars, workerVars

LEMMA OnStepScheduledType == TypeOK /\ OnStepScheduled => TypeOK'
<1> SUFFICES ASSUME TypeOK, OnStepScheduled PROVE TypeOK'
  OBVIOUS
<1>1. plan' \in [Requests -> Plan]
  BY EngineAssumption, NoPlanType
     DEF TypeOK, OnStepScheduled, PlanOf, RegView, RegGen, Plan
<1>2. view' \in [Requests -> Views] /\ gen' \in [Requests -> Nat]
  BY EngineAssumption DEF TypeOK, OnStepScheduled, RegView, RegGen
<1>3. configs' \subseteq Requests
  BY DEF TypeOK, OnStepScheduled, ToRegister
<1>4. QED
  BY <1>1, <1>2, <1>3
     DEF TypeOK, OnStepScheduled, queueVars, ledgerVars, stepVars, workerVars

LEMMA EndStepType ==
  ASSUME EndStep
  PROVE  /\ phase' = "idle"
         /\ sched' \in [Requests -> Nat]
         /\ newReqs' = {} /\ lastFinished' = {} /\ preempted' = {}
         /\ sampled' \in [Requests -> Tokens \cup {Nothing}]
         /\ finishItems' = {}
  BY DEF EndStep

LEMMA OnStepScheduledRaisesType == TypeOK /\ OnStepScheduledRaises => TypeOK'
<1> SUFFICES ASSUME TypeOK, OnStepScheduledRaises PROVE TypeOK'
  OBVIOUS
<1>1. EndStep
  BY DEF OnStepScheduledRaises
<1>2. /\ ledger' \in [Requests -> {"new", "waiting", "running", "gone"}]
      /\ finishedIds' \subseteq Requests
  BY DEF TypeOK, OnStepScheduledRaises, FinishRequests, Alive
<1>3. plan' \in [Requests -> Plan] /\ configs' \subseteq Requests
  BY NoPlanType DEF TypeOK, OnStepScheduledRaises
<1>4. ended' \in [Requests -> SUBSET {"finished", "cancelled", "preempted",
                                      "fail_fast", "shutdown"}]
  BY DEF TypeOK, OnStepScheduledRaises
<1>5. QED
  BY <1>1, <1>2, <1>3, <1>4, EndStepType
     DEF TypeOK, OnStepScheduledRaises, queueVars, workerVars

LEMMA ExecuteType ==
  ASSUME TypeOK, NEW tok \in [Requests -> Tokens \cup {Nothing}], Execute(tok)
  PROVE  TypeOK'
<1>1. known' \subseteq Requests
  BY DEF TypeOK, Execute, KnownNow
<1>2. written' \in [Requests -> Nat] /\ shown' \in [Requests -> Views]
  BY DEF TypeOK, Execute, KVEnd, Plan
<1>3. QED
  BY <1>1, <1>2 DEF TypeOK, Execute, queueVars, ledgerVars, engineVars

LEMMA ExecuteRaisesType == TypeOK /\ ExecuteRaises => TypeOK'
<1> SUFFICES ASSUME TypeOK, ExecuteRaises PROVE TypeOK'
  OBVIOUS
<1>1. known' \subseteq Requests /\ written' \in [Requests -> Nat]
  BY DEF TypeOK, ExecuteRaises, KnownNow, KVEnd
<1>2. EndStep
  BY DEF ExecuteRaises
<1>3. QED
  BY <1>1, <1>2, EndStepType DEF TypeOK, ExecuteRaises, queueVars, ledgerVars, engineVars

LEMMA AfterType ==
  ASSUME NEW v \in Views, NEW tok \in Tokens
  PROVE  After(v, tok) \in Views
  BY DEF After, Tokens

LEMMA RecoverType ==
  ASSUME TypeOK, NEW F \in SUBSET Requests, Recover(F)
  PROVE  TypeOK'
<1> DEFINE taken == {r \in Alive \ (aborts \cap Alive) : sampled[r] # Nothing}
<1>1. stream' = [r \in Requests |->
                   IF r \in taken THEN After(stream[r], sampled[r]) ELSE stream[r]]
  BY DEF Recover
<1>2. \A r \in taken : r \in Requests /\ sampled[r] \in Tokens
  BY DEF TypeOK, Alive
<1>3. stream' \in [Requests -> Views]
  BY <1>1, <1>2, AfterType DEF TypeOK
<1>4. out' \in [Requests -> Nat]
  BY DEF TypeOK, Recover
<1>5. ledger' \in [Requests -> {"new", "waiting", "running", "gone"}]
  BY DEF TypeOK, Recover
<1>6. finishedIds' \subseteq Requests /\ aborts' \subseteq Requests
  BY DEF TypeOK, Recover
<1>7. QED
  BY <1>3, <1>4, <1>5, <1>6 DEF TypeOK, Recover, queueVars, engineVars, workerVars

\* Parsing keeps the parser state well typed when it touches sampled rows only.
LEMMA ParseType ==
  ASSUME TypeOK, NEW R \in SUBSET Requests, Parse(R),
         \A r \in R : sampled[r] # Nothing
  PROVE  view' \in [Requests -> Views] /\ gen' \in [Requests -> Nat]
<1>1. \A r \in R : sampled[r] \in Tokens
  BY DEF TypeOK
<1>2. \A r \in R : After(view[r], sampled[r]) \in Views
  BY <1>1, AfterType DEF TypeOK
<1>3. QED
  BY <1>2 DEF Parse, TypeOK

LEMMA OnStepOutputsType == TypeOK /\ OnStepOutputs => TypeOK'
<1> SUFFICES ASSUME TypeOK, OnStepOutputs PROVE TypeOK'
  OBVIOUS
<1>1. EndStep
  BY DEF OnStepOutputs
<1>2. view' \in [Requests -> Views] /\ gen' \in [Requests -> Nat]
  <2>1. Parsed \subseteq Requests /\ \A r \in Parsed : sampled[r] # Nothing
    BY DEF Parsed, Rows
  <2>2. QED
    BY <2>1, ParseType DEF OnStepOutputs
<1>3. /\ ledger' \in [Requests -> {"new", "waiting", "running", "gone"}]
      /\ finishedIds' \subseteq Requests
  BY DEF TypeOK, OnStepOutputs, FinishRequests, Alive
<1>4. configs' \subseteq Requests
  BY DEF TypeOK, OnStepOutputs, Kept, AfterDrop, AfterReject
<1>5. plan' \in [Requests -> Plan]
  BY NoPlanType DEF TypeOK, OnStepOutputs, Release
<1>6. ended' \in [Requests -> SUBSET {"finished", "cancelled", "preempted",
                                      "fail_fast", "shutdown"}]
  BY DEF TypeOK, OnStepOutputs, DropTraces
<1>7. QED
  BY <1>1, <1>2, <1>3, <1>4, <1>5, <1>6, EndStepType
     DEF TypeOK, OnStepOutputs, queueVars, workerVars

LEMMA OnStepOutputsRaisesType ==
  ASSUME TypeOK, NEW R \in SUBSET Requests, OnStepOutputsRaises(R)
  PROVE  TypeOK'
<1>1. EndStep
  BY DEF OnStepOutputsRaises
<1>2. view' \in [Requests -> Views] /\ gen' \in [Requests -> Nat]
  <2>1. \A r \in R : sampled[r] # Nothing
    BY DEF OnStepOutputsRaises, Parsed
  <2>2. QED
    BY <2>1, ParseType DEF OnStepOutputsRaises
<1>3. /\ ledger' \in [Requests -> {"new", "waiting", "running", "gone"}]
      /\ finishedIds' \subseteq Requests
  BY DEF TypeOK, OnStepOutputsRaises, FinishRequests, Alive
<1>4. configs' \subseteq Requests
  BY DEF TypeOK, OnStepOutputsRaises, Kept, AfterDrop, AfterReject
<1>5. plan' \in [Requests -> Plan]
  BY NoPlanType DEF TypeOK, OnStepOutputsRaises, Release
<1>6. ended' \in [Requests -> SUBSET {"finished", "cancelled", "preempted",
                                      "fail_fast", "shutdown"}]
  BY DEF TypeOK, OnStepOutputsRaises, DropTraces
<1>7. QED
  BY <1>1, <1>2, <1>3, <1>4, <1>5, <1>6, EndStepType
     DEF TypeOK, OnStepOutputsRaises, queueVars, workerVars

LEMMA BatchQueueType ==
  TypeOK /\ (RefuseUnsupportedStep \/ PassBatchStep \/ EndBatchStep) => TypeOK'
<1>1. CASE RefuseUnsupportedStep
  BY <1>1, EndStepType
     DEF TypeOK, RefuseUnsupportedStep, queueVars, ledgerVars, engineVars, workerVars
<1>2. CASE PassBatchStep
  BY <1>2 DEF TypeOK, PassBatchStep, queueVars, ledgerVars, stepVars, engineVars,
     workerVars
<1>3. CASE EndBatchStep
  BY <1>3, EndStepType
     DEF TypeOK, EndBatchStep, queueVars, ledgerVars, engineVars, workerVars
<1>4. QED
  BY <1>1, <1>2, <1>3

LEMMA ShutdownType == TypeOK /\ Shutdown => TypeOK'
  BY NoPlanType DEF TypeOK, Shutdown, queueVars, ledgerVars, stepVars, workerVars

\* Every reachable state is well typed, whatever faults occur.
THEOREM TypeCorrect == Spec => []TypeOK
<1>1. TypeOK /\ [Next]_vars => TypeOK'
  <2> SUFFICES ASSUME TypeOK, [Next]_vars PROVE TypeOK'
    OBVIOUS
  <2>1. CASE UNCHANGED vars
    BY <2>1 DEF TypeOK, vars, ledgerVars, queueVars, stepVars, engineVars, workerVars
  <2>2. CASE Step
    BY <2>2, ScheduleType, OnStepScheduledType, OnStepScheduledRaisesType,
       ExecuteType, ExecuteRaisesType, RecoverType, OnStepOutputsType,
       OnStepOutputsRaisesType, BatchQueueType DEF Step
  <2>3. QED
    BY <2>1, <2>2, QueueMoveType, AddRequestType, HandleAbortType, ShutdownType
       DEF Next, QueueMove, TakeMessage
<1>2. QED
  BY <1>1, InitTypeOK, PTL DEF Spec

-----------------------------------------------------------------------------
(* The inductive invariant. *)


LEMMA InitInv == Init => IInv
<1> SUFFICES ASSUME Init PROVE IInv
  OBVIOUS
<1>1. TypeOK
  BY InitTypeOK
<1>2. Alive = {}
  BY DEF Init, Alive
<1>3. /\ InvNew /\ InvIdle /\ InvRows /\ InvGone /\ InvUnregistered
      /\ InvPreempted /\ InvPlan /\ InvBehind /\ InvFinish
  BY <1>2 DEF Init, InvNew, InvIdle, InvRows, InvGone, InvUnregistered,
     InvPreempted, InvPlan, InvBehind, InvFinish
<1>4. InvAsync /\ InvGen /\ InvPlain
  BY DEF Init, InvAsync, InvGen, InvPlain, HasPayload
<1>5. InvProgress /\ InvEnded
  BY <1>2 DEF Init, InvProgress, InvEnded
<1>6. InvExact
  BY DEF Init, InvExact, InvParse, RegistryTracksStream
<1>7. QED
  BY <1>1, <1>3, <1>4, <1>5, <1>6 DEF IInv

\* A step that is over leaves nothing of itself behind.
LEMMA EndStepInv ==
  ASSUME EndStep
  PROVE  /\ InvIdle' /\ InvRows' /\ InvPreempted' /\ InvPlan' /\ InvBehind'
         /\ InvParse' /\ InvFinish'
  BY DEF EndStep, InvIdle, InvRows, InvPreempted, InvPlan, InvBehind, InvParse,
     InvFinish

LEMMA AddRequestInv ==
  ASSUME IInv, NEW r \in Requests, NEW kind \in Kinds, AddRequest(r, kind)
  PROVE  IInv'
<1> USE DEF AddRequest, Takes, stepVars, engineVars, workerVars
<1>1. TypeOK'
  BY AddRequestType DEF IInv
<1>2. TypeOK /\ Alive' = Alive \cup {r} /\ phase = "idle" /\ phase' = "idle"
  BY DEF IInv, TypeOK, Alive
<1>3. InvNew' /\ InvIdle' /\ InvRows' /\ InvGone'
  BY <1>2 DEF IInv, TypeOK, InvNew, InvIdle, InvRows, InvGone
<1>4. InvUnregistered'
  BY <1>2 DEF IInv, TypeOK, InvNew, InvUnregistered, HasPayload
<1>5. InvAsync'
  BY <1>2 DEF IInv, TypeOK, InvNew, InvAsync, HasPayload
<1>6. InvProgress'
  <2>1. Prompt[r] \in Nat /\ out[r] = 0 /\ computed[r] = 0 /\ r \notin configs
    BY EngineAssumption DEF IInv, InvNew
  <2>2. QED
    BY <1>2, <2>1 DEF IInv, InvProgress
<1>7. InvPreempted' /\ InvPlan' /\ InvBehind' /\ InvFinish'
  BY <1>2 DEF IInv, InvPreempted, InvPlan, InvBehind, InvFinish
<1>8. InvGen'
  BY DEF IInv, InvGen
<1>9. InvPlain'
  <2>1. stream[r] = Global /\ r \notin configs /\ sampled[r] = Nothing
    BY <1>2 DEF IInv, InvNew, InvIdle
  <2>2. QED
    BY <2>1 DEF IInv, TypeOK, InvPlain, HasPayload
<1>10. InvEnded'
  BY <1>2 DEF IInv, TypeOK, InvEnded
<1>11. InvExact'
  <2>1. r \notin configs
    BY DEF IInv, InvNew
  <2>2. QED
    BY <1>2, <2>1 DEF IInv, InvExact, InvParse, RegistryTracksStream
<1>12. QED
  BY <1>1, <1>3, <1>4, <1>5, <1>6, <1>7, <1>8, <1>9, <1>10, <1>11 DEF IInv

LEMMA QueueMoveInv == IInv /\ QueueMove => IInv'
<1> SUFFICES ASSUME IInv, QueueMove,
                    UNCHANGED <<ledgerVars, phase, stepVars, setup, engineVars,
                                workerVars>>
             PROVE  IInv'
  BY QueueMoveKeeps
<1> USE DEF ledgerVars, stepVars, engineVars, workerVars
<1>1. TypeOK'
  BY QueueMoveType DEF IInv
<1>2. Alive' = Alive
  BY DEF Alive
<1>3. InvNew' /\ InvIdle' /\ InvRows' /\ InvGone' /\ InvPreempted' /\ InvPlan'
  BY DEF IInv, InvNew, InvIdle, InvRows, InvGone, InvPreempted, InvPlan,
     Rejected, HasPayload
<1>4. InvUnregistered' /\ InvAsync' /\ InvPlain'
  BY <1>2 DEF IInv, InvUnregistered, InvAsync, InvPlain, HasPayload
<1>5. InvProgress' /\ InvBehind' /\ InvGen' /\ InvFinish' /\ InvEnded'
  BY <1>2 DEF IInv, InvProgress, InvBehind, InvGen, InvFinish, InvEnded
<1>6. InvExact'
  BY <1>2 DEF IInv, InvExact, InvParse, RegistryTracksStream
<1>7. QED
  BY <1>1, <1>3, <1>4, <1>5, <1>6 DEF IInv

LEMMA HandleAbortInv ==
  ASSUME IInv, NEW q \in Requests, HandleAbort(q)
  PROVE  IInv'
<1> USE DEF HandleAbort, Takes, FinishRequests, stepVars, engineVars, workerVars
<1>1. TypeOK'
  BY HandleAbortType DEF IInv
<1>2. /\ TypeOK /\ phase = "idle" /\ phase' = "idle"
      /\ Alive' = Alive \ {q}
      /\ \A r \in Requests : ledger'[r] # "gone" => ledger'[r] = ledger[r]
      /\ \A r \in Requests : ledger[r] = "gone" => ledger'[r] = "gone"
  BY DEF IInv, TypeOK, Alive
<1>3. InvNew'
  BY <1>2 DEF IInv, InvNew
<1>4. InvIdle' /\ InvRows' /\ InvPreempted' /\ InvPlan' /\ InvBehind'
  BY <1>2 DEF IInv, InvIdle, InvRows, InvPreempted, InvPlan, InvBehind
<1>5. InvGone' /\ InvFinish'
  BY <1>2 DEF IInv, TypeOK, InvGone, InvFinish, Alive
<1>6. InvUnregistered'
  BY <1>2 DEF IInv, TypeOK, InvUnregistered, HasPayload, Alive
<1>7. InvAsync' /\ InvPlain' /\ InvGen'
  BY <1>2 DEF IInv, InvAsync, InvPlain, InvGen, HasPayload
<1>8. InvProgress' /\ InvEnded'
  BY <1>2 DEF IInv, TypeOK, InvProgress, InvEnded
<1>9. InvExact'
  BY <1>2 DEF IInv, InvExact, InvParse, RegistryTracksStream
<1>10. QED
  BY <1>1, <1>3, <1>4, <1>5, <1>6, <1>7, <1>8, <1>9 DEF IInv

LEMMA ScheduleInv ==
  ASSUME IInv, NEW n \in [Requests -> 0..Chunk], NEW P \in SUBSET Requests,
         Schedule(n, P)
  PROVE  IInv'
<1> USE DEF Schedule, engineVars, workerVars
<1>1. TypeOK'
  BY ScheduleType DEF IInv
<1>2. /\ TypeOK /\ phase = "idle" /\ phase' = "scheduled" /\ Alive' = Alive
      /\ \A r \in Requests : n[r] \in Nat
      /\ \A r \in Requests : n[r] > 0 => r \in Alive
      /\ \A r \in Requests : r \notin Alive => ledger'[r] = ledger[r]
  BY EngineAssumption DEF IInv, TypeOK, Alive
<1>3. /\ newReqs = {} /\ lastFinished = {} /\ preempted = {} /\ finishItems = {}
      /\ \A r \in Requests : sampled[r] = Nothing
  BY <1>2 DEF IInv, InvIdle
<1>4. InvNew'
  BY <1>2 DEF IInv, InvNew, Alive
<1>5. InvIdle' /\ InvPreempted' /\ InvPlan' /\ InvBehind'
  BY <1>2 DEF InvIdle, InvPreempted, InvPlan, InvBehind
<1>6. InvRows'
  BY <1>2, <1>3 DEF TypeOK, InvRows
<1>7. InvGone' /\ InvFinish'
  BY <1>2, <1>3 DEF IInv, InvGone, InvFinish, TypeOK, Alive
<1>8. InvUnregistered'
  BY <1>2, <1>3 DEF IInv, TypeOK, InvUnregistered, HasPayload, Alive
<1>9. InvAsync' /\ InvPlain' /\ InvGen'
  BY <1>2 DEF IInv, InvAsync, InvPlain, InvGen, HasPayload
<1>10. InvProgress'
  <2>1. \A r \in Alive : /\ Prompt[r] \in Nat /\ out[r] \in Nat
                         /\ computed[r] \in Nat /\ n[r] \in Nat /\ r \in Requests
    BY <1>2, EngineAssumption DEF TypeOK, Alive
  <2>2. \A r \in Alive : computed'[r] <= Prompt[r] + out[r]
    BY <1>2, <2>1 DEF IInv, InvProgress, Remaining
  <2>3. ASSUME NEW r \in configs \cap Alive, out[r] >= 1, r \notin P
        PROVE  IF n[r] > 0 THEN computed'[r] = Prompt[r] + out[r]
                           ELSE computed'[r] + 1 >= Prompt[r] + out[r]
    <3>1. computed[r] + 1 >= Prompt[r] + out[r] /\ computed[r] <= Prompt[r] + out[r]
      BY <1>2, <1>3, <2>3 DEF IInv, InvProgress
    <3>2. computed'[r] = n[r] + computed[r]
      BY <2>1, <2>3
    <3>3. n[r] > 0 => n[r] <= Prompt[r] + out[r] - computed[r]
      BY <2>1, <2>3 DEF Remaining
    <3>4. QED
      BY <2>1, <3>1, <3>2, <3>3
  <2>4. QED
    BY <1>2, <2>2, <2>3 DEF InvProgress
<1>11. InvEnded'
  BY <1>2 DEF IInv, InvEnded, TypeOK, Alive
<1>12. InvExact'
  BY <1>2 DEF IInv, InvExact, InvParse, RegistryTracksStream
<1>13. QED
  BY <1>1, <1>4, <1>5, <1>6, <1>7, <1>8, <1>9, <1>10, <1>11, <1>12 DEF IInv

\* Registration touches only requests that have nothing to register for yet.
LEMMA RegisteredFresh ==
  ASSUME IInv, phase = "scheduled", setup # "async", NEW r \in ToRegister
  PROVE  /\ r \in Requests /\ r \in Alive /\ HasPayload(r) /\ r \in newReqs
         /\ out[r] = 0 /\ stream[r] = Global
  BY DEF IInv, InvUnregistered, ToRegister, Alive

LEMMA OnStepScheduledInv == IInv /\ OnStepScheduled => IInv'
<1> SUFFICES ASSUME IInv, OnStepScheduled PROVE IInv'
  OBVIOUS
<1> USE DEF OnStepScheduled, ledgerVars, stepVars, workerVars
<1>1. TypeOK'
  BY OnStepScheduledType DEF IInv
<1>2. /\ TypeOK /\ phase = "scheduled" /\ phase' = "planned" /\ setup # "async"
      /\ Alive' = Alive /\ Rejected = {}
  BY DEF IInv, Alive, HookRaises
<1>3. /\ ToRegister \subseteq Alive /\ ToRegister \cap configs = {}
      /\ ToRegister \cap preempted = {} /\ Alive \subseteq Requests
      /\ ToRegister \subseteq newReqs
  BY DEF ToRegister, Alive
<1>4. \A r \in ToRegister : out[r] = 0 /\ stream[r] = Global /\ HasPayload(r)
  BY <1>2, RegisteredFresh
<1>5. \A r \in Requests :
         /\ r \in ToRegister => view'[r] = Global /\ gen'[r] = 0
         /\ r \notin ToRegister => view'[r] = view[r] /\ gen'[r] = gen[r]
  BY DEF RegView, RegGen
<1>6. InvNew'
  BY <1>2, <1>3, <1>5 DEF IInv, InvNew, Alive
<1>7. InvIdle' /\ InvRows' /\ InvGone' /\ InvBehind' /\ InvFinish'
  BY <1>2 DEF IInv, InvIdle, InvRows, InvGone, InvBehind, InvFinish
<1>8. InvUnregistered'
  <2>1. ASSUME NEW r \in Alive, HasPayload(r), r \notin configs \cup ToRegister
        PROVE  out[r] = 0 /\ stream[r] = Global /\ ledger[r] = "waiting"
    <3>1. r \notin newReqs
      BY <1>2, <2>1 DEF Rejected, ToRegister, Alive
    <3>2. QED
      BY <1>2, <2>1, <3>1 DEF IInv, InvUnregistered
  <2>2. QED
    BY <1>2, <2>1 DEF InvUnregistered, HasPayload
<1>9. InvAsync'
  BY <1>2 DEF InvAsync
<1>10. InvProgress'
  BY <1>2, <1>3, <1>4 DEF IInv, InvProgress
<1>11. InvPreempted'
  BY <1>2, <1>3 DEF InvPreempted, Rejected, HasPayload
<1>12. InvPlan'
  <2>1. \A r \in configs \cup ToRegister : sched[r] > 0 => r \in Alive
    BY <1>2 DEF IInv, TypeOK, InvRows, Alive, ToRegister
  <2>2. QED
    BY <1>1, <1>2, <2>1 DEF InvPlan, PlanOf, TypeOK
<1>13. InvGen'
  BY <1>2, <1>5 DEF IInv, InvGen, TypeOK
<1>14. InvPlain'
  BY <1>2, <1>4 DEF IInv, InvPlain, HasPayload
<1>15. InvEnded'
  BY <1>2, <1>3 DEF IInv, InvEnded, Alive
<1>16. InvExact'
  BY <1>2, <1>3, <1>4, <1>5 DEF IInv, InvExact, InvParse, RegistryTracksStream
<1>17. QED
  BY <1>1, <1>6, <1>7, <1>8, <1>9, <1>10, <1>11, <1>12, <1>13, <1>14, <1>15,
     <1>16 DEF IInv

\* Failing fast drops everything registered and everything newly scheduled with
\* a payload, and only requests that were being served.
LEMMA RaisesDrops ==
  ASSUME IInv, phase = "scheduled"
  PROVE  /\ configs \subseteq RejectedFirst \cup Pending
         /\ \A r \in newReqs : HasPayload(r) => r \in RejectedFirst \cup Pending
         /\ \A r \in RejectedFirst \cup Pending :
               r \in Requests /\ ledger[r] # "new" /\ ended[r] = {}
<1>1. \A r \in newReqs : r \in Requests /\ ledger[r] = "running"
  BY DEF IInv, TypeOK, InvRows
<1>2. \A r \in RejectedFirst \cup Pending : r \in configs \/ r \in newReqs
  BY DEF RejectedFirst, Rejected, Pending
<1>3. \A r \in configs : r \in Requests /\ ledger[r] # "new"
  BY DEF IInv, TypeOK, InvNew
<1>4. \A r \in configs \cup newReqs : ended[r] = {}
  BY <1>1, <1>3 DEF IInv, InvEnded
<1>5. QED
  BY <1>1, <1>2, <1>3, <1>4 DEF Pending

LEMMA OnStepScheduledRaisesInv == IInv /\ OnStepScheduledRaises => IInv'
<1> SUFFICES ASSUME IInv, OnStepScheduledRaises PROVE IInv'
  OBVIOUS
<1> DEFINE dropped == RejectedFirst \cup Pending
<1> USE DEF OnStepScheduledRaises, FinishRequests, workerVars
<1>1. TypeOK'
  BY OnStepScheduledRaisesType DEF IInv
<1>2. /\ TypeOK /\ phase = "scheduled" /\ setup # "async" /\ EndStep
      /\ phase' = "idle" /\ newReqs' = {} /\ lastFinished' = {}
      /\ finishItems' = {}
      /\ \A r \in Requests : sched'[r] = 0 /\ sampled'[r] = Nothing
  BY DEF IInv, EndStep
<1>3. /\ configs \subseteq dropped
      /\ \A r \in newReqs : HasPayload(r) => r \in dropped
      /\ \A r \in dropped : r \in Requests /\ ledger[r] # "new" /\ ended[r] = {}
  BY <1>2, RaisesDrops
<1>4. /\ configs' = {}
      /\ Alive' = Alive \ dropped
      /\ \A r \in Requests : ledger'[r] # "gone" => ledger'[r] = ledger[r]
      /\ \A r \in Requests : ledger[r] = "gone" => ledger'[r] = "gone"
      /\ \A r \in dropped : ledger'[r] = "gone"
      /\ finishedIds' = finishedIds \cup (dropped \cap Alive)
      /\ \A r \in Requests : r \notin dropped => ended'[r] = ended[r]
  BY <1>2, <1>3 DEF TypeOK, Alive
<1>5. /\ InvIdle' /\ InvRows' /\ InvPreempted' /\ InvPlan' /\ InvBehind'
      /\ InvParse' /\ InvFinish'
  BY <1>2, EndStepInv
<1>6. InvNew'
  BY <1>2, <1>4 DEF IInv, InvNew
<1>7. InvGone'
  BY <1>2, <1>3, <1>4 DEF IInv, InvGone, TypeOK
<1>8. InvUnregistered'
  <2>1. ASSUME NEW r \in Alive', HasPayload(r)
        PROVE  out[r] = 0 /\ stream[r] = Global /\ ledger'[r] = "waiting"
    <3>1. r \in Alive /\ r \notin configs /\ r \notin newReqs /\ r \in Requests
      BY <1>3, <1>4, <2>1 DEF Alive
    <3>2. ledger[r] = "waiting" /\ out[r] = 0 /\ stream[r] = Global
      BY <1>2, <2>1, <3>1 DEF IInv, InvUnregistered
    <3>3. QED
      BY <1>4, <2>1, <3>1, <3>2 DEF Alive
  <2>2. QED
    BY <2>1 DEF InvUnregistered, HasPayload
<1>9. InvAsync'
  BY <1>2 DEF InvAsync
<1>10. InvProgress'
  BY <1>2, <1>4 DEF IInv, InvProgress
<1>11. InvGen'
  BY DEF IInv, InvGen
<1>12. InvPlain'
  BY <1>2, <1>4 DEF IInv, InvPlain, HasPayload
<1>13. InvEnded'
  <2>1. \A r \in dropped : "finished" \notin ended'[r]
    BY <1>2, <1>3 DEF TypeOK
  <2>2. \A r \in Requests : ledger'[r] # "gone" => r \notin dropped
    BY <1>4
  <2>3. QED
    BY <1>2, <1>4, <2>1, <2>2 DEF IInv, InvEnded
<1>14. InvExact'
  BY <1>4, <1>5 DEF InvExact, RegistryTracksStream
<1>15. QED
  BY <1>1, <1>5, <1>6, <1>7, <1>8, <1>9, <1>10, <1>11, <1>12, <1>13, <1>14
     DEF IInv

LEMMA ExecuteInv ==
  ASSUME IInv, NEW tok \in [Requests -> Tokens \cup {Nothing}], Execute(tok)
  PROVE  IInv'
<1> USE DEF Execute, ledgerVars, engineVars
<1>1. TypeOK'
  BY ExecuteType DEF IInv
<1>2. /\ TypeOK /\ phase = "planned" /\ phase' = "executed" /\ Alive' = Alive
      /\ \A r \in Requests : r \in Rows <=> sched[r] > 0
  BY DEF IInv, Alive, Rows
<1>3. InvNew'
  BY <1>2 DEF IInv, InvNew, KnownNow
<1>4. InvIdle' /\ InvPlan' /\ InvBehind'
  BY <1>2 DEF InvIdle, InvPlan, InvBehind
<1>5. InvRows'
  BY <1>2 DEF IInv, InvRows
<1>6. InvGone' /\ InvPreempted' /\ InvFinish' /\ InvGen'
  BY <1>2 DEF IInv, InvGone, InvPreempted, Rejected, HasPayload, InvFinish, InvGen
<1>7. InvUnregistered'
  BY <1>2 DEF IInv, InvUnregistered, HasPayload
<1>8. InvAsync'
  BY <1>2 DEF IInv, InvAsync, HasPayload, KnownNow
<1>9. InvProgress' /\ InvEnded'
  BY <1>2 DEF IInv, InvProgress, InvEnded
<1>10. InvPlain'
  BY DEF IInv, InvPlain, HasPayload
<1>11. InvExact'
  BY <1>2 DEF IInv, InvExact, InvParse, RegistryTracksStream
<1>12. QED
  BY <1>1, <1>3, <1>4, <1>5, <1>6, <1>7, <1>8, <1>9, <1>10, <1>11 DEF IInv

LEMMA ExecuteRaisesInv == IInv /\ ExecuteRaises => IInv'
<1> SUFFICES ASSUME IInv, ExecuteRaises PROVE IInv'
  OBVIOUS
<1> USE DEF ExecuteRaises, ledgerVars, engineVars
<1>1. TypeOK'
  BY ExecuteRaisesType DEF IInv
<1>2. /\ TypeOK /\ phase = "planned" /\ phase' = "idle" /\ Alive' = Alive
      /\ EndStep /\ newReqs' = {} /\ lastFinished' = {} /\ finishItems' = {}
      /\ \A r \in Requests : sched'[r] = 0 /\ sampled'[r] = Nothing
  BY DEF IInv, Alive, EndStep
<1>3. /\ InvIdle' /\ InvRows' /\ InvPreempted' /\ InvPlan' /\ InvBehind'
      /\ InvParse' /\ InvFinish'
  BY <1>2, EndStepInv
<1>4. InvNew'
  BY <1>2 DEF IInv, InvNew, KnownNow
<1>5. InvGone' /\ InvGen' /\ InvEnded'
  BY <1>2 DEF IInv, InvGone, InvGen, InvEnded
<1>6. InvUnregistered' /\ InvPlain'
  BY <1>2 DEF IInv, InvUnregistered, InvPlain, HasPayload
<1>7. InvAsync'
  BY <1>2 DEF IInv, InvAsync, HasPayload, KnownNow
<1>8. InvProgress'
  <2>1. preempted \cap configs = {}
    BY <1>2 DEF IInv, InvPreempted, Rejected
  <2>2. \A r \in Alive : Prompt[r] + out[r] \in Nat
    BY <1>2, EngineAssumption DEF TypeOK, Alive
  <2>3. QED
    BY <1>2, <2>1, <2>2 DEF IInv, InvProgress
<1>9. InvExact'
  BY <1>2, <1>3 DEF IInv, InvExact, RegistryTracksStream
<1>10. QED
  BY <1>1, <1>3, <1>4, <1>5, <1>6, <1>7, <1>8, <1>9 DEF IInv

LEMMA RecoverInv ==
  ASSUME IInv, NEW F \in SUBSET Requests, Recover(F)
  PROVE  IInv'
<1> DEFINE aborted == aborts \cap Alive
           taken == {r \in Alive \ aborted : sampled[r] # Nothing}
<1>1. TypeOK'
  BY RecoverType DEF IInv
<1>2. /\ TypeOK /\ phase = "executed" /\ phase' = "recovered"
      /\ F \subseteq taken /\ aborts' = {} /\ finishItems' = F
      /\ finishedIds' = finishedIds \cup aborted \cup F
      /\ UNCHANGED <<payload, computed, sched, newReqs, lastFinished, preempted,
                     sampled, setup, engineVars, workerVars>>
  BY DEF Recover, IInv
<1>3. \A r \in Requests :
         /\ r \in taken => out'[r] = out[r] + 1 /\ stream'[r] = After(stream[r], sampled[r])
         /\ r \notin taken => out'[r] = out[r] /\ stream'[r] = stream[r]
         /\ r \in aborted \cup F => ledger'[r] = "gone"
         /\ r \notin aborted \cup F => ledger'[r] = ledger[r]
  BY <1>2 DEF Recover, TypeOK
<1>4. /\ Alive' = Alive \ (aborted \cup F)
      /\ taken \subseteq Alive \ aborted /\ Alive \subseteq Requests
  BY <1>2, <1>3 DEF Alive
<1>5. \A r \in taken : /\ sched[r] > 0 /\ computed[r] = Prompt[r] + out[r]
                       /\ ledger[r] = "running" /\ sampled[r] \in Tokens
  BY <1>2, <1>4 DEF IInv, InvRows, TypeOK
<1>6. \A r \in Requests : out[r] \in Nat /\ Prompt[r] \in Nat /\ computed[r] \in Nat
  BY <1>2, EngineAssumption DEF TypeOK
<1>7. \A r \in configs : (r \in Alive' \/ r \in F) /\ sampled[r] # Nothing
                            => r \in taken
  BY <1>2, <1>4
<1> USE DEF engineVars, workerVars
<1>8. InvNew'
  BY <1>2, <1>3, <1>4 DEF IInv, InvNew, Alive
<1>9. InvIdle' /\ InvRows' /\ InvPlan'
  BY <1>2 DEF InvIdle, InvRows, InvPlan
<1>10. InvGone' /\ InvFinish'
  BY <1>2, <1>3, <1>4 DEF IInv, InvGone, InvFinish, TypeOK
<1>11. InvUnregistered'
  BY <1>2, <1>3, <1>4, <1>5 DEF IInv, InvUnregistered, HasPayload
<1>12. InvAsync' /\ InvPreempted'
  BY <1>2 DEF IInv, InvAsync, InvPreempted, Rejected, HasPayload
<1>13. InvProgress'
  <2>1. \A r \in Alive' : computed[r] <= Prompt[r] + out'[r]
    BY <1>3, <1>4, <1>6 DEF IInv, InvProgress
  <2>2. ASSUME NEW r \in configs \cap Alive', out'[r] >= 1, r \notin preempted
        PROVE  computed[r] + 1 >= Prompt[r] + out'[r]
    <3>1. CASE r \in taken
      BY <1>3, <1>4, <1>5, <1>6, <3>1
    <3>2. CASE r \notin taken
      BY <1>2, <1>3, <1>4, <1>6, <2>2, <3>2 DEF IInv, InvProgress
    <3>3. QED
      BY <3>1, <3>2
  <2>3. QED
    BY <1>2, <2>1, <2>2 DEF InvProgress
<1>14. InvBehind'
  BY <1>2, <1>3, <1>4, <1>5, <1>6, <1>7 DEF IInv, InvBehind, InvGen, TypeOK
<1>15. InvGen'
  <2>1. gen' = gen /\ view' = view /\ gen \in [Requests -> Nat]
    BY <1>2 DEF TypeOK
  <2>2. \A r \in Requests : out'[r] = out[r] \/ out'[r] = out[r] + 1
    BY <1>3
  <2>3. QED
    BY <1>6, <2>1, <2>2 DEF IInv, InvGen
<1>16. InvPlain'
  BY <1>2, <1>3 DEF IInv, InvPlain, HasPayload, After
<1>17. InvEnded'
  BY <1>2, <1>3 DEF IInv, InvEnded
<1>18. InvExact'
  <2>1. ASSUME RegistryTracksStream PROVE InvParse'
    <3>1. ASSUME NEW r \in configs, r \in Alive' \/ r \in F
          PROVE  IF sampled[r] = Nothing
                 THEN gen[r] = out'[r] /\ view[r] = stream'[r]
                 ELSE /\ out'[r] = gen[r] + 1
                      /\ stream'[r] = After(view[r], sampled[r])
      <4>1. r \in Alive /\ r \in Requests
        BY <1>2, <1>4, <3>1
      <4>2. gen[r] = out[r] /\ view[r] = stream[r]
        BY <1>2, <2>1, <4>1 DEF RegistryTracksStream
      <4>3. r \in taken <=> sampled[r] # Nothing
        BY <1>2, <1>7, <3>1
      <4>4. QED
        BY <1>3, <4>1, <4>2, <4>3
    <3>2. QED
      BY <1>2, <3>1 DEF InvParse
  <2>2. RegistryTracksStream'
    BY <1>2 DEF RegistryTracksStream
  <2>3. QED
    BY <2>1, <2>2 DEF IInv, InvExact
<1>19. QED
  BY <1>1, <1>8, <1>9, <1>10, <1>11, <1>12, <1>13, <1>14, <1>15, <1>16, <1>17,
     <1>18 DEF IInv

\* What on_step_outputs keeps and parses is still served or finished just now,
\* and its last token has not been parsed yet.
LEMMA KeptFacts ==
  ASSUME IInv, phase = "recovered"
  PROVE  /\ Rejected = {}
         /\ Kept \subseteq configs /\ Gone \subseteq configs
         /\ Kept \cap Gone = {}
         /\ configs \cap Alive \subseteq Kept
         /\ \A r \in Kept : r \in Alive \/ r \in finishItems
         /\ \A r \in Gone : r \in Requests /\ ledger[r] = "gone"
         /\ \A r \in Kept : sampled[r] # Nothing => r \in Parsed /\ gen[r] < out[r]
         /\ \A r \in finishItems : r \notin Alive /\ ledger[r] = "gone"
         /\ Parsed \subseteq Kept /\ Kept \subseteq Requests
         /\ \A r \in configs : ended[r] = {}
<1>1. Rejected = {}
  BY DEF IInv, InvPreempted
<1>2. \A r \in lastFinished \cup finishItems : r \notin Alive /\ ledger[r] = "gone"
  BY DEF IInv, InvGone, Alive
<1>3. configs \subseteq Requests /\ \A r \in configs : ledger[r] # "new"
  BY DEF IInv, TypeOK, InvNew
<1>4. \A r \in configs : r \in Alive \/ ledger[r] = "gone"
  BY <1>3 DEF IInv, TypeOK, Alive
<1>5. /\ Kept \subseteq configs /\ Gone \subseteq configs /\ Kept \cap Gone = {}
      /\ configs \cap Alive \subseteq Kept
      /\ \A r \in Kept : r \in Alive \/ r \in finishItems
  BY <1>1, <1>2 DEF Kept, Gone, AfterDrop, AfterReject
<1>6. \A r \in Gone : ledger[r] = "gone"
  BY <1>4, <1>5 DEF Gone
<1>7. \A r \in Kept : sampled[r] # Nothing => sched[r] > 0 /\ gen[r] < out[r]
  BY <1>5 DEF IInv, InvBehind
<1>8. \A r \in Kept : sampled[r] # Nothing => r \in Parsed
  BY <1>3, <1>5, <1>7 DEF Parsed, Rows
<1>9. Parsed \subseteq Kept
  BY DEF Parsed
<1>10. \A r \in configs : ended[r] = {}
  BY <1>3 DEF IInv, InvEnded
<1>11. QED
  BY <1>1, <1>2, <1>3, <1>5, <1>6, <1>7, <1>8, <1>9, <1>10

\* Parsing a part of the rows keeps the parser at or behind the output.
LEMMA ParseGen ==
  ASSUME IInv, phase = "recovered", NEW R \in SUBSET Parsed, Parse(R), out' = out
  PROVE  InvGen'
<1>1. \A r \in R : r \in Requests /\ gen[r] < out[r]
  BY KeptFacts DEF Parsed
<1>2. \A r \in Requests :
         /\ r \in R => gen'[r] = gen[r] + 1
         /\ r \notin R => gen'[r] = gen[r] /\ view'[r] = view[r]
  BY DEF Parse
<1>3. \A r \in Requests : gen[r] \in Nat /\ out[r] \in Nat
  BY DEF IInv, TypeOK
<1>4. QED
  BY <1>1, <1>2, <1>3 DEF IInv, InvGen

LEMMA OnStepOutputsInv == IInv /\ OnStepOutputs => IInv'
<1> SUFFICES ASSUME IInv, OnStepOutputs PROVE IInv'
  OBVIOUS
<1> DEFINE finished == Kept \cap finishItems
<1>1. TypeOK'
  BY OnStepOutputsType DEF IInv
<1>2. /\ TypeOK /\ phase = "recovered" /\ setup # "async" /\ EndStep
      /\ Parse(Parsed) /\ configs' = Kept \ finished
      /\ UNCHANGED <<payload, computed, out, stream, queueVars, setup, workerVars>>
  BY DEF IInv, OnStepOutputs
<1>3. /\ phase' = "idle" /\ newReqs' = {} /\ lastFinished' = {}
      /\ preempted' = {} /\ finishItems' = {}
      /\ \A r \in Requests : sched'[r] = 0 /\ sampled'[r] = Nothing
  BY <1>2 DEF EndStep
<1>4. /\ ledger' = ledger /\ finishedIds' = finishedIds
      /\ \A r \in Requests :
            ended'[r] = ended[r] \cup (IF r \in Gone THEN {"cancelled"} ELSE {})
                                 \cup (IF r \in finished THEN {"finished"} ELSE {})
  BY <1>2, KeptFacts DEF OnStepOutputs, FinishRequests, DropTraces, TypeOK
<1>5. Alive' = Alive /\ configs' \subseteq configs \cap Alive
  BY <1>2, <1>4, KeptFacts DEF Alive
<1>6. \A r \in configs \cap Alive : r \in configs'
  BY <1>2, KeptFacts
<1> USE DEF workerVars
<1>7. /\ InvIdle' /\ InvRows' /\ InvPreempted' /\ InvPlan' /\ InvBehind'
      /\ InvParse' /\ InvFinish'
  BY <1>2, EndStepInv
<1>8. InvNew'
  <2>1. \A r \in Requests : ledger[r] = "new" => r \notin Parsed
    BY <1>2, KeptFacts DEF IInv, InvNew
  <2>2. QED
    BY <1>2, <1>3, <1>4, <1>5, <2>1 DEF IInv, InvNew, Parse
<1>9. InvGone'
  BY <1>3, <1>4 DEF IInv, InvGone
<1>10. InvUnregistered'
  BY <1>2, <1>4, <1>5, <1>6 DEF IInv, InvUnregistered, HasPayload
<1>11. InvAsync'
  BY <1>2 DEF InvAsync
<1>12. InvProgress'
  <2>1. preempted \cap configs = {}
    BY <1>2, KeptFacts DEF Rejected
  <2>2. QED
    BY <1>2, <1>3, <1>5, <2>1 DEF IInv, InvProgress
<1>13. InvGen'
  BY <1>2, ParseGen
<1>14. InvPlain'
  BY <1>2, <1>3, <1>5 DEF IInv, InvPlain, HasPayload
<1>15. InvEnded'
  <2>1. \A r \in Gone \cup finished : ended[r] = {} /\ r \in Requests /\ ledger[r] = "gone"
    BY <1>2, KeptFacts
  <2>2. \A r \in finished : ended'[r] = {"finished"}
    BY <1>2, <1>4, <2>1, KeptFacts
  <2>3. \A r \in Requests \ finished : "finished" \in ended'[r] => ended'[r] = {"finished"}
                                                              /\ ledger[r] = "gone"
    BY <1>4, <2>1 DEF IInv, InvEnded
  <2>4. \A r \in configs' : r \notin Gone /\ r \notin finished /\ r \in configs
    BY <1>2, KeptFacts
  <2>5. QED
    BY <1>2, <1>4, <2>1, <2>2, <2>3, <2>4 DEF IInv, InvEnded
<1>16. InvExact'
  <2>1. ASSUME InvParse PROVE RegistryTracksStream'
    <3>1. ASSUME NEW r \in configs \cap Alive, r \in Kept, r \in Requests
          PROVE  gen'[r] = out[r] /\ view'[r] = stream[r]
      <4>1. r \in Parsed <=> sampled[r] # Nothing
        BY <1>2, <3>1, KeptFacts DEF Parsed
      <4>2. QED
        BY <1>2, <2>1, <3>1, <4>1 DEF InvParse, Parse
    <3>2. QED
      BY <1>2, <1>5, <3>1, KeptFacts DEF RegistryTracksStream
  <2>2. QED
    BY <1>7, <2>1 DEF IInv, InvExact
<1>17. QED
  BY <1>1, <1>7, <1>8, <1>9, <1>10, <1>11, <1>12, <1>13, <1>14, <1>15, <1>16
     DEF IInv

LEMMA OnStepOutputsRaisesInv ==
  ASSUME IInv, NEW R \in SUBSET Requests, OnStepOutputsRaises(R)
  PROVE  IInv'
<1>1. TypeOK'
  BY OnStepOutputsRaisesType DEF IInv
<1>2. /\ TypeOK /\ phase = "recovered" /\ setup # "async" /\ EndStep
      /\ R \subseteq Parsed /\ Parse(R) /\ configs' = Kept /\ TokenizerMayFail
      /\ UNCHANGED <<payload, computed, out, stream, queueVars, setup, workerVars>>
  BY DEF IInv, OnStepOutputsRaises
<1>3. /\ phase' = "idle" /\ newReqs' = {} /\ lastFinished' = {}
      /\ preempted' = {} /\ finishItems' = {}
      /\ \A r \in Requests : sched'[r] = 0 /\ sampled'[r] = Nothing
  BY <1>2 DEF EndStep
<1>4. /\ ledger' = ledger /\ finishedIds' = finishedIds /\ Alive' = Alive
      /\ \A r \in Requests :
            ended'[r] = ended[r] \cup (IF r \in Gone THEN {"cancelled"} ELSE {})
  BY <1>2, KeptFacts
     DEF OnStepOutputsRaises, FinishRequests, DropTraces, TypeOK, Alive
<1>5. configs' \subseteq configs /\ \A r \in configs \cap Alive : r \in configs'
  BY <1>2, KeptFacts
<1> USE DEF workerVars
<1>6. /\ InvIdle' /\ InvRows' /\ InvPreempted' /\ InvPlan' /\ InvBehind'
      /\ InvParse' /\ InvFinish'
  BY <1>2, EndStepInv
<1>7. InvNew'
  <2>1. \A r \in Requests : ledger[r] = "new" => r \notin R
    BY <1>2, KeptFacts DEF IInv, InvNew
  <2>2. QED
    BY <1>2, <1>3, <1>4, <1>5, <2>1 DEF IInv, InvNew, Parse
<1>8. InvGone'
  BY <1>3, <1>4 DEF IInv, InvGone
<1>9. InvUnregistered'
  BY <1>2, <1>4, <1>5 DEF IInv, InvUnregistered, HasPayload
<1>10. InvAsync'
  BY <1>2 DEF InvAsync
<1>11. InvProgress'
  <2>1. preempted \cap configs = {}
    BY <1>2, KeptFacts DEF Rejected
  <2>2. QED
    BY <1>2, <1>3, <1>4, <1>5, <2>1 DEF IInv, InvProgress
<1>12. InvGen'
  BY <1>2, ParseGen
<1>13. InvPlain'
  BY <1>2, <1>3, <1>5 DEF IInv, InvPlain, HasPayload
<1>14. InvEnded'
  <2>1. \A r \in Gone : ended[r] = {} /\ r \in Requests /\ ledger[r] = "gone"
    BY <1>2, KeptFacts
  <2>2. \A r \in Requests : "finished" \in ended'[r] => r \notin Gone
    BY <1>4, <2>1
  <2>3. \A r \in configs' : r \notin Gone /\ r \in configs
    BY <1>2, KeptFacts
  <2>4. QED
    BY <1>2, <1>4, <2>1, <2>2, <2>3 DEF IInv, InvEnded
<1>15. InvExact'
  BY <1>2 DEF InvExact
<1>16. QED
  BY <1>1, <1>6, <1>7, <1>8, <1>9, <1>10, <1>11, <1>12, <1>13, <1>14, <1>15
     DEF IInv

\* The path of asynchronous scheduling: nothing is registered, and the guard
\* lets no payload through.
LEMMA PassBatchStepInv == IInv /\ PassBatchStep => IInv'
<1> SUFFICES ASSUME IInv, PassBatchStep PROVE IInv'
  OBVIOUS
<1> USE DEF PassBatchStep, ledgerVars, stepVars, engineVars, workerVars
<1>1. TypeOK'
  BY BatchQueueType DEF IInv
<1>2. /\ TypeOK /\ phase = "scheduled" /\ phase' = "planned" /\ setup = "async"
      /\ configs = {} /\ Alive' = Alive
      /\ \A r \in Requests : plan[r] = NoPlan
  BY DEF IInv, InvAsync, Alive
<1>3. InvNew' /\ InvIdle' /\ InvRows' /\ InvGone' /\ InvFinish' /\ InvGen'
  BY <1>2 DEF IInv, InvNew, InvIdle, InvRows, InvGone, InvFinish, InvGen
<1>4. InvUnregistered' /\ InvProgress' /\ InvBehind' /\ InvPlan'
  BY <1>2 DEF IInv, InvUnregistered, InvProgress, InvBehind, InvPlan
<1>5. InvAsync' /\ InvPreempted'
  BY <1>2 DEF IInv, InvAsync, InvPreempted, Rejected, HasPayload
<1>6. InvPlain' /\ InvEnded'
  BY <1>2 DEF IInv, InvPlain, InvEnded, HasPayload
<1>7. InvExact'
  BY <1>2 DEF IInv, InvExact, InvParse, RegistryTracksStream
<1>8. QED
  BY <1>1, <1>3, <1>4, <1>5, <1>6, <1>7 DEF IInv

LEMMA EndOfBatchInv == IInv /\ (RefuseUnsupportedStep \/ EndBatchStep) => IInv'
<1> SUFFICES ASSUME IInv, RefuseUnsupportedStep \/ EndBatchStep PROVE IInv'
  OBVIOUS
<1>1. TypeOK'
  BY BatchQueueType DEF IInv
<1>2. /\ TypeOK /\ setup = "async" /\ EndStep
      /\ UNCHANGED <<ledgerVars, queueVars, setup, engineVars, workerVars>>
  BY DEF IInv, RefuseUnsupportedStep, EndBatchStep
<1> USE DEF ledgerVars, engineVars, workerVars
<1>3. /\ phase' = "idle" /\ newReqs' = {} /\ lastFinished' = {} /\ finishItems' = {}
      /\ \A r \in Requests : sched'[r] = 0 /\ sampled'[r] = Nothing
      /\ configs = {} /\ phase # "down" /\ Alive' = Alive
  BY <1>2 DEF EndStep, IInv, InvAsync, Alive, RefuseUnsupportedStep, EndBatchStep
<1>4. /\ InvIdle' /\ InvRows' /\ InvPreempted' /\ InvPlan' /\ InvBehind'
      /\ InvParse' /\ InvFinish'
  BY <1>2, EndStepInv
<1>5. InvNew' /\ InvGone' /\ InvGen'
  BY <1>2, <1>3 DEF IInv, InvNew, InvGone, InvGen
<1>6. InvUnregistered' /\ InvAsync' /\ InvPlain'
  BY <1>2, <1>3 DEF IInv, InvUnregistered, InvAsync, InvPlain, HasPayload
<1>7. InvProgress' /\ InvEnded'
  BY <1>2, <1>3 DEF IInv, InvProgress, InvEnded
<1>8. InvExact'
  BY <1>2, <1>3, <1>4 DEF InvExact, RegistryTracksStream
<1>9. QED
  BY <1>1, <1>4, <1>5, <1>6, <1>7, <1>8 DEF IInv

LEMMA ShutdownInv == IInv /\ Shutdown => IInv'
<1> SUFFICES ASSUME IInv, Shutdown PROVE IInv'
  OBVIOUS
<1> USE DEF Shutdown, ledgerVars, stepVars, workerVars
<1>1. TypeOK'
  BY ShutdownType DEF IInv
<1>2. /\ TypeOK /\ phase = "idle" /\ phase' = "down" /\ configs' = {}
      /\ Alive' = Alive
  BY DEF IInv, Alive
<1>3. InvNew' /\ InvIdle' /\ InvRows' /\ InvGone' /\ InvFinish' /\ InvGen'
  BY <1>2 DEF IInv, InvNew, InvIdle, InvRows, InvGone, InvFinish, InvGen
<1>4. InvUnregistered' /\ InvPreempted' /\ InvPlan' /\ InvBehind'
  BY <1>2 DEF InvUnregistered, InvPreempted, InvPlan, InvBehind
<1>5. InvAsync' /\ InvPlain'
  BY <1>2 DEF IInv, InvAsync, InvPlain, HasPayload
<1>6. InvProgress'
  BY <1>2 DEF IInv, InvProgress
<1>7. InvEnded'
  <2>1. \A r \in configs : r \in Requests /\ ended[r] = {}
    BY <1>2 DEF IInv, InvEnded, TypeOK
  <2>2. QED
    BY <1>2, <2>1 DEF IInv, InvEnded
<1>8. InvExact'
  BY <1>2 DEF InvExact, InvParse, RegistryTracksStream
<1>9. QED
  BY <1>1, <1>3, <1>4, <1>5, <1>6, <1>7, <1>8 DEF IInv

LEMMA NextInv == IInv /\ [Next]_vars => IInv'
<1> SUFFICES ASSUME IInv, [Next]_vars PROVE IInv'
  OBVIOUS
<1>1. CASE UNCHANGED vars
  <2> USE <1>1 DEF vars, ledgerVars, queueVars, stepVars, engineVars, workerVars
  <2>1. TypeOK' /\ InvNew' /\ InvIdle' /\ InvRows' /\ InvGone'
    BY DEF IInv, TypeOK, InvNew, InvIdle, InvRows, InvGone
  <2>2. InvUnregistered' /\ InvAsync' /\ InvProgress' /\ InvPreempted' /\ InvPlan'
    BY DEF IInv, InvUnregistered, InvAsync, InvProgress, InvPreempted, InvPlan,
       Alive, HasPayload, Rejected
  <2>3. InvBehind' /\ InvGen' /\ InvPlain' /\ InvFinish' /\ InvEnded'
    BY DEF IInv, InvBehind, InvGen, InvPlain, InvFinish, InvEnded, Alive, HasPayload
  <2>4. InvExact'
    BY DEF IInv, InvExact, InvParse, RegistryTracksStream, Alive
  <2>5. QED
    BY <2>1, <2>2, <2>3, <2>4 DEF IInv
<1>2. CASE Step
  BY <1>2, ScheduleInv, OnStepScheduledInv, OnStepScheduledRaisesInv, ExecuteInv,
     ExecuteRaisesInv, RecoverInv, OnStepOutputsInv, OnStepOutputsRaisesInv,
     PassBatchStepInv, EndOfBatchInv DEF Step
<1>3. QED
  BY <1>1, <1>2, QueueMoveInv, AddRequestInv, HandleAbortInv, ShutdownInv
     DEF Next, QueueMove, TakeMessage

\* The inductive invariant holds in every reachable state, whatever fails.
THEOREM Inductive == Spec => []IInv
  BY InitInv, NextInv, PTL DEF Spec

-----------------------------------------------------------------------------
(* The properties. *)

\* No token sampled in the step of its request's abort reaches the parser: it
\* has never parsed more than the scheduler accepted.
THEOREM CancelledNeverParsed == Spec => []CancelledTokenNeverParsed
<1>1. IInv => CancelledTokenNeverParsed
  BY DEF IInv, InvGen, CancelledTokenNeverParsed
<1>2. QED
  BY <1>1, Inductive, PTL

\* Unless the tokenizer fails, the parser of every live registered request has
\* read exactly the accepted output, no token skipped and none read twice.
THEOREM ParserTracksStream ==
  ASSUME ~TokenizerMayFail
  PROVE  Spec => []RegistryTracksStream
<1>1. IInv => RegistryTracksStream
  BY DEF IInv, InvExact
<1>2. QED
  BY <1>1, Inductive, PTL

\* A finished request has that one terminal trace, a served request has none.
THEOREM OneTerminalTrace == Spec => []TerminalTraceIsUnique
<1>1. IInv => TerminalTraceIsUnique
  BY DEF IInv, TypeOK, InvEnded, TerminalTraceIsUnique
<1>2. QED
  BY <1>1, Inductive, PTL

\* Every payload request in a batch the worker runs is registered: the guard of
\* the other path lets none through.
LEMMA RunRowsRegistered ==
  ASSUME IInv, Executes, NEW r \in Rows, HasPayload(r)
  PROVE  r \in Requests /\ r \in configs /\ r \in Alive /\ setup # "async"
<1>1. phase = "planned" /\ r \in Requests /\ sched[r] > 0
  BY DEF Executes, Rows
<1>2. ledger[r] = "running" /\ r \in Alive
  BY <1>1 DEF IInv, InvRows, Alive
<1>3. setup # "async"
  <2>1. r \in KnownNow
    BY DEF Executes, UnknownRow
  <2>2. QED
    BY <1>1, <2>1 DEF IInv, InvAsync, KnownNow
<1>4. r \in configs
  BY <1>1, <1>2, <1>3 DEF IInv, InvUnregistered
<1>5. QED
  BY <1>1, <1>2, <1>3, <1>4

LEMMA RunReadsStream == IInv /\ RegistryTracksStream => ViewMatchesStream
<1> SUFFICES ASSUME IInv, RegistryTracksStream, Executes,
                    NEW r \in Rows, HasPayload(r)
             PROVE  /\ r \in configs
                    /\ plan[r].view = IF payload[r] = "forced" THEN Global
                                                               ELSE stream[r]
  BY DEF ViewMatchesStream
<1>1. r \in Requests /\ r \in configs /\ r \in Alive
  BY RunRowsRegistered
<1>2. phase = "planned" /\ sched[r] > 0
  BY DEF Executes, Rows
<1>3. view[r] = stream[r]
  BY <1>1, <1>2 DEF RegistryTracksStream
<1>4. plan[r] = IF payload[r] # "forced" /\ view[r] # Global
                THEN [view |-> view[r], kvLen |-> computed[r], step |-> gen[r]]
                ELSE NoPlan
  BY <1>1, <1>2 DEF IInv, InvPlan
<1>5. QED
  BY <1>1, <1>3, <1>4 DEF NoPlan

\* Parse at t, effect at t+1: whatever the worker runs, it reads every payload
\* row through the view of the accepted stream, or the global one when forced.
THEOREM ViewFollowsStream ==
  ASSUME ~TokenizerMayFail
  PROVE  Spec => []ViewMatchesStream
  BY Inductive, ParserTracksStream, RunReadsStream, PTL

\* A plan is for a row of the batch, is as long as prompt and output together,
\* and names the token that forward consumes.
THEOREM PlanCountsOnce ==
  ASSUME ~TokenizerMayFail
  PROVE  Spec => []PlanCountsCurrentTokenOnce
<1>1. IInv /\ RegistryTracksStream => PlanCountsCurrentTokenOnce
  <2> SUFFICES ASSUME IInv, RegistryTracksStream, phase = "planned",
                      NEW r \in Requests, plan[r] # NoPlan
               PROVE  /\ r \in Rows /\ r \in Alive
                      /\ plan[r].kvLen = Prompt[r] + out[r]
                      /\ plan[r].step = out[r]
                      /\ plan[r].step >= 1
    BY DEF PlanCountsCurrentTokenOnce
  <2>1. /\ r \in configs /\ sched[r] > 0 /\ view[r] # Global
        /\ plan[r] = [view |-> view[r], kvLen |-> computed[r], step |-> gen[r]]
    BY DEF IInv, InvPlan
  <2>2. r \in Rows /\ r \in Alive
    BY <2>1 DEF IInv, InvRows, Rows, Alive
  <2>3. gen[r] = out[r] /\ gen[r] >= 1
    BY <2>1, <2>2 DEF RegistryTracksStream, IInv, InvGen
  <2>4. r \notin preempted
    BY <2>1 DEF IInv, InvPreempted, Rejected
  <2>5. computed[r] = Prompt[r] + out[r]
    BY <2>1, <2>2, <2>3, <2>4 DEF IInv, InvProgress
  <2>6. QED
    BY <2>1, <2>2, <2>3, <2>5
<1>2. QED
  BY <1>1, Inductive, ParserTracksStream, PTL

\* What the worker runs contains no preempted request with a payload.
THEOREM NoPreemptedRun == Spec => []PreemptedNeverExecuted
<1>1. IInv => PreemptedNeverExecuted
  <2> SUFFICES ASSUME IInv, Executes, NEW r \in preempted, HasPayload(r), r \in Rows
               PROVE  FALSE
    BY DEF PreemptedNeverExecuted
  <2>1. r \in configs /\ phase = "planned"
    BY RunRowsRegistered DEF Executes
  <2>2. QED
    BY <2>1 DEF IInv, InvPreempted, Rejected
<1>2. QED
  BY <1>1, Inductive, PTL

\* What is registered after a completed step is served or about to be reported.
THEOREM NothingLeaks == Spec => NoLeakedState
<1>1. IInv /\ [Next]_vars =>
        [phase = "recovered" /\ phase' = "idle" =>
            configs' \subseteq Alive' \cup finishedIds']_vars
  <2> SUFFICES ASSUME IInv, Next, phase = "recovered", phase' = "idle"
               PROVE  configs' \subseteq Alive' \cup finishedIds'
    OBVIOUS
  <2>1. \/ OnStepOutputs
        \/ \E R \in SUBSET Requests : OnStepOutputsRaises(R)
        \/ EndBatchStep
    BY QueueMoveKeeps
       DEF Next, QueueMove, TakeMessage, Takes, Step, AddRequest, HandleAbort,
           Shutdown, Schedule,
       OnStepScheduled, OnStepScheduledRaises, Execute, ExecuteRaises, Recover,
       RefuseUnsupportedStep, PassBatchStep
  <2>2. CASE EndBatchStep
    BY <2>2 DEF EndBatchStep, IInv, InvAsync, engineVars
  <2>3. CASE \/ OnStepOutputs
             \/ \E R \in SUBSET Requests : OnStepOutputsRaises(R)
    <3>1. ledger' = ledger /\ finishedIds' = finishedIds
      BY <2>3, KeptFacts
         DEF OnStepOutputs, OnStepOutputsRaises, FinishRequests, IInv, TypeOK
    <3>2. configs' \subseteq Kept
      BY <2>3 DEF OnStepOutputs, OnStepOutputsRaises
    <3>3. finishItems \subseteq finishedIds
      BY DEF IInv, InvFinish
    <3>4. QED
      BY <3>1, <3>2, <3>3, KeptFacts DEF Alive
  <2>4. QED
    BY <2>1, <2>2, <2>3
<1>2. QED
  BY <1>1, Inductive, PTL DEF Spec, NoLeakedState

\* When on_step_scheduled raises, no protocol state survives and no payload
\* request of that batch is left in the ledger.
THEOREM FailFast == Spec => FailFastLeavesNothing
<1>1. IInv /\ [Next]_vars =>
        [phase = "scheduled" /\ phase' = "idle" /\ setup # "async" =>
            /\ configs' = {}
            /\ \A r \in Rows : HasPayload(r) => r \notin Alive']_vars
  <2> SUFFICES ASSUME IInv, Next, phase = "scheduled", phase' = "idle",
                      setup # "async"
               PROVE  /\ configs' = {}
                      /\ \A r \in Rows : HasPayload(r) => r \notin Alive'
    OBVIOUS
  <2>1. OnStepScheduledRaises
    BY QueueMoveKeeps
       DEF Next, QueueMove, TakeMessage, Takes, Step, AddRequest, HandleAbort,
           Shutdown, Schedule,
       OnStepScheduled, OnStepOutputs, OnStepOutputsRaises, Execute,
       ExecuteRaises, Recover, RefuseUnsupportedStep, PassBatchStep, EndBatchStep
  <2>2. configs' = {}
    BY <2>1, RaisesDrops DEF OnStepScheduledRaises
  <2>3. ASSUME NEW r \in Rows, HasPayload(r)
        PROVE  r \notin Alive'
    <3>1. r \in Requests /\ ledger[r] = "running" /\ r \in Alive
      BY <2>3 DEF Rows, IInv, InvRows, Alive
    <3>2. r \in configs \/ r \in newReqs
      BY <2>3, <3>1 DEF IInv, InvUnregistered
    <3>3. r \in RejectedFirst \cup Pending
      BY <2>3, <3>2, RaisesDrops
    <3>4. ledger'[r] = "gone"
      BY <2>1, <3>1, <3>3 DEF OnStepScheduledRaises, FinishRequests
    <3>5. QED
      BY <3>4 DEF Alive
  <2>4. QED
    BY <2>2, <2>3
<1>2. QED
  BY <1>1, Inductive, PTL DEF Spec, FailFastLeavesNothing

-----------------------------------------------------------------------------
(* The ledger and the worker's KV of a request that is served alone.  KVInv is *)
(* inductive next to IInv; it needs no assumption on the tokenizer.            *)

\* Everything but the cache of running requests is out of play between steps.
LEMMA KVFrame ==
  ASSUME KVInv,
         phase \notin {"scheduled", "planned"}, phase' \notin {"scheduled", "planned"},
         UNCHANGED <<payload, computed, setup, known, written>>,
         \A r \in Requests : ledger'[r] \in {ledger[r], "gone"}
  PROVE  KVInv'
<1>1. InvWaiting'
  BY DEF KVInv, InvWaiting
<1>2. InvDecoding'
  BY DEF InvDecoding
<1>3. InvWritten'
  BY DEF KVInv, InvWritten, Alone, HasPayload
<1>4. QED
  BY <1>1, <1>2, <1>3 DEF KVInv

LEMMA InitKV == Init => KVInv
  BY DEF Init, KVInv, InvWaiting, InvDecoding, InvWritten

LEMMA AddRequestKV ==
  ASSUME IInv, KVInv, NEW r \in Requests, NEW kind \in Kinds, AddRequest(r, kind)
  PROVE  KVInv'
<1>1. /\ TypeOK /\ phase = "idle" /\ phase' = "idle" /\ computed[r] = 0
      /\ ledger' = [ledger EXCEPT ![r] = "waiting"]
      /\ UNCHANGED <<computed, setup, known, written>>
      /\ \A q \in Requests \ {r} : payload'[q] = payload[q]
  BY DEF IInv, TypeOK, InvNew, AddRequest, Takes, workerVars
<1>2. InvWaiting'
  BY <1>1 DEF KVInv, InvWaiting, TypeOK
<1>3. InvDecoding'
  BY <1>1 DEF InvDecoding
<1>4. InvWritten'
  <2>1. ASSUME NEW q \in Requests, Alone(q)', ledger'[q] = "running"
        PROVE  FALSE
    BY <1>1, <2>1 DEF Alone, TypeOK
  <2>2. QED
    BY <2>1 DEF InvWritten
<1>5. QED
  BY <1>2, <1>3, <1>4 DEF KVInv

LEMMA QueueMoveKV == KVInv /\ QueueMove => KVInv'
  BY QueueMoveKeeps
     DEF KVInv, InvWaiting, InvDecoding, InvWritten, Alone, HasPayload, Alive,
         ledgerVars, stepVars, engineVars, workerVars

LEMMA HandleAbortKV ==
  ASSUME KVInv, NEW r \in Requests, HandleAbort(r)
  PROVE  KVInv'
  BY KVFrame DEF HandleAbort, Takes, FinishRequests, workerVars

LEMMA ScheduleKV ==
  ASSUME IInv, KVInv, NEW n \in [Requests -> 0..Chunk], NEW P \in SUBSET Requests,
         Schedule(n, P)
  PROVE  KVInv'
<1>1. /\ TypeOK /\ phase = "idle" /\ phase' = "scheduled" /\ preempted = {}
      /\ sched' = n /\ preempted' = P
      /\ newReqs' = {r \in Requests : n[r] > 0 /\ (ledger[r] = "waiting" \/ r \in P)}
      /\ UNCHANGED <<payload, out, setup, configs, known, written>>
  BY DEF IInv, InvIdle, Schedule, engineVars, workerVars
<1>2. ASSUME NEW r \in Requests
      PROVE  /\ n[r] \in Nat /\ Prompt[r] \in Nat /\ out[r] \in Nat
             /\ computed[r] \in Nat /\ written[r] \in Nat
             /\ n[r] > 0 => r \in Alive /\ n[r] <= Remaining(r, P)
             /\ ledger'[r] = IF n[r] > 0 THEN "running"
                             ELSE IF r \in P THEN "waiting" ELSE ledger[r]
             /\ computed'[r] = n[r] + (IF r \in P THEN 0 ELSE computed[r])
             /\ r \in P => ledger[r] = "running"
  BY <1>1, EngineAssumption DEF Schedule, TypeOK
<1>3. InvWaiting'
  BY <1>2 DEF KVInv, InvWaiting
<1>4. InvDecoding'
  <2>1. ASSUME NEW r \in configs \cap Alive', out[r] >= 1, r \notin P, n[r] > 0
        PROVE  n[r] = 1
    <3>1. r \in Requests /\ r \in Alive
      BY <1>2, <2>1 DEF Alive
    <3>2. computed[r] + 1 >= Prompt[r] + out[r]
      BY <1>1, <2>1, <3>1 DEF IInv, InvProgress
    <3>3. n[r] <= Prompt[r] + out[r] - computed[r]
      BY <1>2, <2>1, <3>1 DEF Remaining
    <3>4. QED
      BY <1>2, <2>1, <3>1, <3>2, <3>3
  <2>2. QED
    BY <1>1, <2>1 DEF InvDecoding
<1>5. InvWritten'
  <2>1. ASSUME setup # "async", NEW r \in Requests, Alone(r)', HasPayload(r),
               ledger'[r] = "running"
        PROVE  IF r \in newReqs' THEN computed'[r] = n[r]
               ELSE r \in known \ P /\ written[r] + n[r] = computed'[r]
    <3>1. CASE r \in newReqs'
      BY <1>1, <1>2, <3>1 DEF KVInv, InvWaiting
    <3>2. CASE r \notin newReqs'
      <4>1. r \notin P /\ ledger[r] = "running"
        BY <1>1, <1>2, <2>1, <3>2 DEF Alive
      <4>2. Alone(r)
        BY <1>2, <2>1 DEF Alone
      <4>3. r \in known /\ written[r] = computed[r]
        BY <1>1, <2>1, <4>1, <4>2 DEF KVInv, InvWritten
      <4>4. QED
        BY <1>2, <3>2, <4>1, <4>3
    <3>3. QED
      BY <3>1, <3>2
  <2>2. QED
    BY <1>1, <2>1 DEF InvWritten, HasPayload
<1>6. QED
  BY <1>3, <1>4, <1>5 DEF KVInv

\* What on_step_scheduled lets through: a plan lies behind the prompt, and what
\* it registers has no output yet.
LEMMA OnStepScheduledKV == IInv /\ KVInv /\ OnStepScheduled => KVInv'
<1> SUFFICES ASSUME IInv, KVInv, OnStepScheduled PROVE KVInv'
  OBVIOUS
<1>1. /\ TypeOK /\ phase = "scheduled" /\ phase' = "planned" /\ setup # "async"
      /\ configs' = configs \cup ToRegister /\ ~HookRaises
      /\ plan' = [r \in Requests |-> PlanOf(r)]
      /\ UNCHANGED <<ledger, payload, computed, out, sched, newReqs, preempted,
                     setup, known, written>>
  BY DEF IInv, OnStepScheduled, ledgerVars, stepVars, workerVars
<1>2. InvWaiting' /\ InvWritten'
  BY <1>1 DEF KVInv, InvWaiting, InvWritten, Alone, HasPayload
<1>3. InvDecoding'
  <2>1. ASSUME NEW r \in configs' \cap Alive, out[r] >= 1, r \notin preempted,
               sched[r] > 0
        PROVE  sched[r] = 1
    <3>1. r \in configs
      BY <1>1, <2>1, RegisteredFresh
    <3>2. QED
      BY <1>1, <2>1, <3>1 DEF KVInv, InvDecoding
  <2>2. ASSUME NEW r \in Requests, plan'[r] # NoPlan
        PROVE  Prompt[r] + sched[r] <= computed[r]
    <3>1. /\ r \in configs \cup ToRegister /\ r \in Alive /\ sched[r] > 0
          /\ payload[r] # "forced" /\ RegView(r) # Global
      BY <1>1, <2>2 DEF PlanOf
    <3>2. ~(computed[r] - sched[r] < Prompt[r])
      BY <1>1, <3>1 DEF HookRaises, PlanError
    <3>3. computed[r] \in Nat /\ sched[r] \in Nat /\ Prompt[r] \in Nat
      BY <1>1, EngineAssumption DEF TypeOK
    <3>4. QED
      BY <3>2, <3>3
  <2>3. QED
    BY <1>1, <2>1, <2>2 DEF InvDecoding, Alive
<1>4. QED
  BY <1>2, <1>3 DEF KVInv

\* Failing fast leaves no payload request running.
LEMMA OnStepScheduledRaisesKV == IInv /\ KVInv /\ OnStepScheduledRaises => KVInv'
<1> SUFFICES ASSUME IInv, KVInv, OnStepScheduledRaises PROVE KVInv'
  OBVIOUS
<1> DEFINE dropped == RejectedFirst \cup Pending
<1>1. /\ phase = "scheduled" /\ phase' = "idle" /\ setup # "async"
      /\ ledger' = [r \in Requests |-> IF r \in dropped \cap Alive THEN "gone"
                                       ELSE ledger[r]]
      /\ UNCHANGED <<payload, computed>>
  BY DEF OnStepScheduledRaises, FinishRequests, EndStep
<1>2. InvWaiting'
  BY <1>1 DEF KVInv, InvWaiting
<1>3. InvDecoding'
  BY <1>1 DEF InvDecoding
<1>4. InvWritten'
  <2>1. ASSUME NEW r \in Requests, HasPayload(r), ledger'[r] = "running"
        PROVE  FALSE
    <3>1. ledger[r] = "running" /\ r \in Alive /\ r \notin dropped
      BY <1>1, <2>1 DEF Alive
    <3>2. r \notin configs /\ r \notin newReqs
      BY <1>1, <2>1, <3>1, RaisesDrops
    <3>3. QED
      BY <1>1, <2>1, <3>1, <3>2 DEF IInv, InvUnregistered
  <2>2. QED
    BY <1>1, <2>1 DEF InvWritten, HasPayload
<1>5. QED
  BY <1>2, <1>3, <1>4 DEF KVInv

\* The worker knows a payload request that is served alone, and everything the
\* batch schedules is that request.
LEMMA AloneIsKnown ==
  ASSUME IInv, KVInv, phase = "planned", setup # "async", NEW r \in Requests,
         Alone(r), HasPayload(r), ledger[r] = "running"
  PROVE  r \in KnownNow /\ Rows \subseteq {r}
<1>1. r \notin lastFinished
  BY DEF IInv, InvGone
<1>2. r \in KnownNow
  BY <1>1 DEF KVInv, InvWritten, KnownNow
<1>3. Rows \subseteq {r}
  BY DEF IInv, TypeOK, InvNew, Alone, Rows
<1>4. QED
  BY <1>2, <1>3

\* A plan is for a decoding row with one token, behind the prompt.
LEMMA PlannedRow ==
  ASSUME IInv, KVInv, phase = "planned", NEW r \in Requests, plan[r] # NoPlan
  PROVE  /\ r \in configs /\ r \in Rows /\ r \in Alive
         /\ sched[r] = 1 /\ Prompt[r] + 1 <= computed[r]
         /\ plan[r].kvLen = computed[r]
<1>1. /\ r \in configs /\ sched[r] > 0 /\ view[r] # Global
      /\ plan[r] = [view |-> view[r], kvLen |-> computed[r], step |-> gen[r]]
  BY DEF IInv, InvPlan
<1>2. r \in Alive /\ r \in Rows
  BY <1>1 DEF IInv, InvRows, Alive, Rows
<1>3. out[r] >= 1
  BY <1>1 DEF IInv, TypeOK, InvGen
<1>4. r \notin preempted
  BY <1>1 DEF IInv, InvPreempted, Rejected
<1>5. sched[r] = 1 /\ Prompt[r] + sched[r] <= computed[r]
  BY <1>1, <1>2, <1>3, <1>4 DEF KVInv, InvDecoding
<1>6. QED
  BY <1>1, <1>2, <1>5

LEMMA ExecuteKV ==
  ASSUME IInv, KVInv, NEW tok \in [Requests -> Tokens \cup {Nothing}], Execute(tok)
  PROVE  KVInv'
<1>1. /\ TypeOK /\ phase = "planned" /\ phase' = "executed" /\ known' = KnownNow
      /\ written' = [r \in Requests |->
                       IF r \in Rows /\ KVEnd(r) >= computed[r] - sched[r]
                       THEN computed[r] ELSE KVEnd(r)]
      /\ UNCHANGED <<ledger, payload, computed, setup>>
  BY DEF IInv, Execute, ledgerVars
<1>2. InvWaiting'
  BY <1>1 DEF KVInv, InvWaiting
<1>3. InvDecoding'
  BY <1>1 DEF InvDecoding
<1>4. InvWritten'
  <2>1. ASSUME setup # "async", NEW r \in Requests, Alone(r), HasPayload(r),
               ledger[r] = "running"
        PROVE  r \in KnownNow /\ written'[r] = computed[r]
    <3>1. computed[r] \in Nat /\ sched[r] \in Nat /\ written[r] \in Nat
      BY <1>1 DEF TypeOK
    <3>2. r \in KnownNow
      BY <1>1, <2>1, AloneIsKnown
    <3>3. r \in Rows <=> sched[r] > 0
      BY DEF Rows
    <3>4. CASE r \in newReqs
      <4>1. computed[r] = sched[r] /\ sched[r] > 0
        BY <1>1, <2>1, <3>4 DEF KVInv, InvWritten, IInv, InvRows
      <4>2. QED
        BY <1>1, <3>1, <3>2, <3>3, <3>4, <4>1 DEF KVEnd
    <3>5. CASE r \notin newReqs
      <4>1. written[r] + sched[r] = computed[r]
        BY <1>1, <2>1, <3>5 DEF KVInv, InvWritten
      <4>2. QED
        BY <1>1, <3>1, <3>2, <3>3, <3>5, <4>1 DEF KVEnd
    <3>6. QED
      BY <3>4, <3>5
  <2>2. QED
    BY <1>1, <2>1 DEF InvWritten, Alone, HasPayload
<1>5. QED
  BY <1>2, <1>3, <1>4 DEF KVInv

\* The worker never refuses a payload request that is served alone.
LEMMA ExecuteRaisesKV == IInv /\ KVInv /\ ExecuteRaises => KVInv'
<1> SUFFICES ASSUME IInv, KVInv, ExecuteRaises PROVE KVInv'
  OBVIOUS
<1>1. /\ TypeOK /\ phase = "planned" /\ phase' = "idle"
      /\ UnknownRow \/ WorkerRefuses
      /\ UNCHANGED <<ledger, payload, computed, setup>>
  BY DEF IInv, ExecuteRaises, EndStep, ledgerVars
<1>2. InvWaiting'
  BY <1>1 DEF KVInv, InvWaiting
<1>3. InvDecoding'
  BY <1>1 DEF InvDecoding
<1>4. InvWritten'
  <2>1. ASSUME setup # "async", NEW r \in Requests, Alone(r), HasPayload(r),
               ledger[r] = "running"
        PROVE  FALSE
    <3>1. Rows \subseteq {r} /\ ~UnknownRow
      BY <1>1, <2>1, AloneIsKnown DEF UnknownRow
    <3>2. PICK q \in Requests : plan[q] # NoPlan
      BY <1>1, <3>1 DEF WorkerRefuses
    <3>3. /\ q = r /\ Rows = {r} /\ plan[r] # NoPlan
          /\ sched[r] = 1 /\ Prompt[r] + 1 <= computed[r]
      BY <1>1, <3>1, <3>2, PlannedRow
    <3>4. Cardinality(Rows) = 1
      BY <3>3, FS_Singleton
    <3>5. computed[r] \in Nat /\ Prompt[r] \in Nat
      BY <1>1, EngineAssumption DEF TypeOK
    <3>6. ~(computed[r] - sched[r] < Prompt[r])
      BY <3>3, <3>5
    <3>7. QED
      BY <1>1, <3>1, <3>3, <3>4, <3>6 DEF WorkerRefuses
  <2>2. QED
    BY <1>1, <2>1 DEF InvWritten, Alone, HasPayload
<1>5. QED
  BY <1>2, <1>3, <1>4 DEF KVInv

LEMMA RecoverKV ==
  ASSUME IInv, KVInv, NEW F \in SUBSET Requests, Recover(F)
  PROVE  KVInv'
  BY KVFrame DEF Recover, workerVars

LEMMA OnStepOutputsKV ==
  ASSUME IInv, KVInv,
         OnStepOutputs \/ \E R \in SUBSET Requests : OnStepOutputsRaises(R)
  PROVE  KVInv'
<1>1. \A r \in Requests : ledger'[r] \in {ledger[r], "gone"}
  BY DEF OnStepOutputs, OnStepOutputsRaises, FinishRequests
<1>2. /\ phase = "recovered" /\ phase' = "idle"
      /\ UNCHANGED <<payload, computed, setup, known, written>>
  BY DEF OnStepOutputs, OnStepOutputsRaises, EndStep, workerVars
<1>3. QED
  BY <1>1, <1>2, KVFrame

\* On the path of asynchronous scheduling nothing is registered or planned.
LEMMA BatchQueueKV ==
  ASSUME IInv, KVInv, RefuseUnsupportedStep \/ PassBatchStep \/ EndBatchStep
  PROVE  KVInv'
<1>1. /\ setup = "async" /\ setup' = "async"
      /\ UNCHANGED <<ledger, computed, configs, plan>>
  BY DEF RefuseUnsupportedStep, PassBatchStep, EndBatchStep, ledgerVars, engineVars
<1>2. configs = {} /\ \A r \in Requests : plan[r] = NoPlan
  BY <1>1 DEF IInv, InvAsync
<1>3. InvWaiting' /\ InvDecoding' /\ InvWritten'
  BY <1>1, <1>2 DEF KVInv, InvWaiting, InvDecoding, InvWritten
<1>4. QED
  BY <1>3 DEF KVInv

LEMMA ShutdownKV == KVInv /\ Shutdown => KVInv'
  BY KVFrame DEF Shutdown, ledgerVars, workerVars

LEMMA NextKV == IInv /\ KVInv /\ [Next]_vars => KVInv'
<1> SUFFICES ASSUME IInv, KVInv, [Next]_vars PROVE KVInv'
  OBVIOUS
<1>1. CASE UNCHANGED vars
  BY <1>1 DEF KVInv, InvWaiting, InvDecoding, InvWritten, Alone, HasPayload, Alive,
     vars, ledgerVars, stepVars, engineVars, workerVars
<1>2. CASE Step
  BY <1>2, ScheduleKV, OnStepScheduledKV, OnStepScheduledRaisesKV, ExecuteKV,
     ExecuteRaisesKV, RecoverKV, OnStepOutputsKV, BatchQueueKV DEF Step
<1>3. QED
  BY <1>1, <1>2, QueueMoveKV, AddRequestKV, HandleAbortKV, ShutdownKV
     DEF Next, QueueMove, TakeMessage

\* The ledger and the worker's KV of a request that is served alone never come
\* apart, whatever is preempted, chunked, resumed or raised around it.
THEOREM KVTracksLedger == Spec => []KVInv
  BY InitKV, NextKV, Inductive, PTL DEF Spec

\* The attention length of a plan is what the worker has written of the request
\* plus the token of this forward (no assumption on the tokenizer).
THEOREM PlanLengthFollowsKV == Spec => []PlanLengthMatchesKV
<1>1. IInv /\ KVInv => PlanLengthMatchesKV
  <2> SUFFICES ASSUME IInv, KVInv, Executes, NEW r \in Rows, plan[r] # NoPlan, Alone(r)
               PROVE  plan[r].kvLen = KVEnd(r) + 1
    BY DEF PlanLengthMatchesKV
  <2>1. phase = "planned" /\ r \in Requests
    BY DEF Executes, Rows
  <2>2. /\ r \in configs /\ sched[r] = 1 /\ Prompt[r] + 1 <= computed[r]
        /\ plan[r].kvLen = computed[r]
    BY <2>1, PlannedRow
  <2>3. HasPayload(r) /\ setup # "async" /\ ledger[r] = "running"
    BY <2>1, <2>2 DEF IInv, InvPlain, InvAsync, InvRows
  <2>4. /\ r \in newReqs => computed[r] = sched[r]
        /\ r \notin newReqs => written[r] + sched[r] = computed[r]
    BY <2>1, <2>3 DEF KVInv, InvWritten
  <2>5. computed[r] \in Nat /\ Prompt[r] \in Nat \ {0} /\ written[r] \in Nat
    BY <2>1, EngineAssumption DEF IInv, TypeOK
  <2>6. QED
    BY <2>2, <2>4, <2>5 DEF KVEnd
<1>2. QED
  BY <1>1, Inductive, KVTracksLedger, PTL

-----------------------------------------------------------------------------
(* The engine implements ReadViewService, unless the tokenizer fails: each of *)
(* its steps is a step of the service or changes nothing of it.               *)


\* The rows with a sampled token that nobody has accepted or dropped.
FreshRows == IF phase = "executed" THEN {r \in Requests : sampled[r] # Nothing} ELSE {}
ForcedRequests == {r \in Requests : payload[r] = "forced"}

LEMMA InitRefines == Init => Service!Init
  BY DEF Init, Service!Init

\* Steps that change nothing a client of the service sees.
LEMMA StutterRefines ==
  ASSUME phase # "executed", phase' # "executed", UNCHANGED <<stream, shown, payload>>
  PROVE  UNCHANGED Service!vars
  BY DEF Service!vars

LEMMA AddRequestRefines ==
  ASSUME IInv, NEW r \in Requests, NEW kind \in Kinds, AddRequest(r, kind)
  PROVE  [Service!Next]_(Service!vars)
<1>1. /\ phase = "idle" /\ phase' = "idle" /\ stream[r] = Global
      /\ payload[r] = "plain"
      /\ UNCHANGED <<stream, shown>>
      /\ payload' = [payload EXCEPT ![r] = kind]
  BY DEF AddRequest, Takes, IInv, InvNew, workerVars
<1>2. payload \in [Requests -> PayloadKinds]
  BY DEF IInv, TypeOK
<1>3. CASE kind = "forced"
  <2>1. ForcedRequests' = ForcedRequests \cup {r}
    BY <1>1, <1>2, <1>3 DEF ForcedRequests
  <2>2. Service!Admit(r)
    BY <1>1, <2>1 DEF Service!Admit, ForcedRequests
  <2>3. QED
    BY <2>2 DEF Service!Next
<1>4. CASE kind # "forced"
  <2>1. ForcedRequests' = ForcedRequests
    BY <1>1, <1>2, <1>4 DEF ForcedRequests
  <2>2. QED
    BY <1>1, <2>1 DEF Service!vars, ForcedRequests
<1>5. QED
  BY <1>3, <1>4

\* A forward of the worker is a forward of the service.
LEMMA ExecuteRefines ==
  ASSUME IInv, RegistryTracksStream,
         NEW tok \in [Requests -> Tokens \cup {Nothing}], Execute(tok)
  PROVE  Service!Next
<1> DEFINE S == {r \in Requests : tok[r] # Nothing}
<1>1. /\ phase = "planned" /\ phase' = "executed" /\ sampled' = tok
      /\ \A r \in Requests : tok[r] # Nothing => r \in Rows
      /\ shown' = [r \in Requests |-> IF r \in Rows THEN plan[r].view ELSE shown[r]]
      /\ UNCHANGED <<stream, payload>>
  BY DEF Execute, ledgerVars
<1>2. Executes
  BY DEF Execute, Executes
<1>3. \A r \in Rows : plan[r].view = IF r \in ForcedRequests THEN Global ELSE stream[r]
  <2>1. ASSUME NEW r \in Rows, HasPayload(r)
        PROVE  plan[r].view = IF r \in ForcedRequests THEN Global ELSE stream[r]
    BY <1>2, <2>1, RunReadsStream DEF ViewMatchesStream, ForcedRequests, Rows
  <2>2. ASSUME NEW r \in Rows, ~HasPayload(r)
        PROVE  plan[r].view = IF r \in ForcedRequests THEN Global ELSE stream[r]
    <3>1. r \in Requests /\ r \notin configs /\ stream[r] = Global
      BY <2>2 DEF Rows, IInv, InvPlain
    <3>2. plan[r].view = Global
      <4>1. plan[r] = NoPlan
        BY <1>1, <3>1 DEF IInv, InvPlan
      <4>2. QED
        BY <4>1 DEF NoPlan
    <3>3. r \notin ForcedRequests
      BY <2>2 DEF ForcedRequests, HasPayload
    <3>4. QED
      BY <3>1, <3>2, <3>3
  <2>3. QED
    BY <2>1, <2>2
<1>4. shown' = [r \in Requests |->
                  IF r \notin Rows THEN shown[r]
                  ELSE IF r \in ForcedRequests THEN Global ELSE stream[r]]
  BY <1>1, <1>3
<1>5. FreshRows' = S /\ S \in SUBSET Requests /\ Rows \in SUBSET Requests
  BY <1>1 DEF FreshRows, Rows
<1>6. Service!Forward(Rows, S)
  BY <1>1, <1>4, <1>5 DEF Service!Forward, FreshRows, ForcedRequests
<1>7. QED
  BY <1>5, <1>6 DEF Service!Next

\* update_from_output accepts the tokens of the rows that are still served.
LEMMA RecoverRefines ==
  ASSUME IInv, NEW F \in SUBSET Requests, Recover(F)
  PROVE  Service!Next
<1> DEFINE taken == {r \in Alive \ (aborts \cap Alive) : sampled[r] # Nothing}
           tok == [r \in Requests |-> IF r \in taken THEN sampled[r] ELSE NoTag]
<1>1. /\ phase = "executed" /\ phase' = "recovered"
      /\ stream' = [r \in Requests |->
                      IF r \in taken THEN After(stream[r], sampled[r]) ELSE stream[r]]
      /\ UNCHANGED <<payload, shown>>
  BY DEF Recover, workerVars
<1>2. taken \in SUBSET Requests /\ taken \subseteq FreshRows
  BY <1>1 DEF FreshRows, Alive
<1>3. tok \in [Requests -> Views \cup {NoTag}]
  BY <1>2 DEF IInv, TypeOK, Tokens
<1>4. stream' = [r \in Requests |->
                   IF r \in taken /\ tok[r] # NoTag THEN tok[r] ELSE stream[r]]
  BY <1>1, <1>2 DEF After
<1>5. FreshRows' = {}
  BY <1>1 DEF FreshRows
<1> HIDE DEF taken, tok
<1>6. PICK A \in SUBSET Requests, t \in [Requests -> Views \cup {NoTag}] :
         A = taken /\ t = tok
  BY <1>2, <1>3
<1>7. Service!Accept(A, t)
  BY <1>1, <1>2, <1>4, <1>5, <1>6
     DEF Service!Accept, FreshRows, ForcedRequests
<1>8. QED
  BY <1>7 DEF Service!Next

LEMMA NextRefines ==
  ASSUME IInv, RegistryTracksStream, [Next]_vars
  PROVE  [Service!Next]_(Service!vars)
<1>1. CASE UNCHANGED vars
  BY <1>1 DEF vars, ledgerVars, stepVars, workerVars, Service!vars
<1>2. CASE \E r \in Requests, kind \in Kinds : AddRequest(r, kind)
  BY <1>2, AddRequestRefines
<1>3. CASE QueueMove
  BY <1>3, QueueMoveKeeps DEF ledgerVars, stepVars, workerVars, Service!vars
<1>4. CASE (\E r \in Requests : HandleAbort(r)) \/ Shutdown
  BY <1>4, StutterRefines DEF HandleAbort, Takes, Shutdown, ledgerVars, workerVars
<1>5. CASE \E n \in [Requests -> 0..Chunk], P \in SUBSET Requests : Schedule(n, P)
  BY <1>5, StutterRefines DEF Schedule, workerVars
<1>6. CASE OnStepScheduled \/ OnStepScheduledRaises \/ ExecuteRaises
  BY <1>6, StutterRefines DEF OnStepScheduled, OnStepScheduledRaises,
     ExecuteRaises, EndStep, ledgerVars, workerVars
<1>7. CASE \E tok \in [Requests -> Tokens \cup {Nothing}] : Execute(tok)
  BY <1>7, ExecuteRefines
<1>8. CASE \E F \in SUBSET Requests : Recover(F)
  BY <1>8, RecoverRefines
<1>9. CASE OnStepOutputs \/ \E R \in SUBSET Requests : OnStepOutputsRaises(R)
  BY <1>9, StutterRefines DEF OnStepOutputs, OnStepOutputsRaises, EndStep, workerVars
<1>10. CASE RefuseUnsupportedStep \/ PassBatchStep \/ EndBatchStep
  BY <1>10, StutterRefines DEF RefuseUnsupportedStep, PassBatchStep, EndBatchStep,
     EndStep, ledgerVars, workerVars
<1>11. QED
  BY <1>1, <1>2, <1>3, <1>4, <1>5, <1>6, <1>7, <1>8, <1>9, <1>10
     DEF Next, QueueMove, TakeMessage, Step

\* Whatever is added, aborted, preempted or refused inside, the engine behaves
\* as the read view service as long as the tokenizer does not fail.
THEOREM Implements ==
  ASSUME ~TokenizerMayFail
  PROVE  Spec => ImplementsService
  BY InitRefines, NextRefines, Inductive, ParserTracksStream, PTL
     DEF Spec, ImplementsService, Service!Spec
=============================================================================
