----------------------------- MODULE CalibProofs ----------------------------
(***************************************************************************)
(* A calibration run: the two halves of its driver and the segmentation    *)
(* its prompt is built from.  None of the three reads a variable of        *)
(* another.                                                                *)
(*                                                                         *)
(* The calibration hooks for every trajectory, every number of tokens and  *)
(* every number of departures of the engine: HookInv is inductive, so the  *)
(* target alone receives the trajectory, each token once and in order, and *)
(* an accepted replay was one.                                             *)
(*                                                                         *)
(* The calibration driver for every set of arms and every number of        *)
(* faults: main and the watchdogs, which can meet in the manifest, leave a *)
(* true record of how the run ended.                                       *)
(*                                                                         *)
(* The segmenter for every text, tokenization and limit: the segments tile *)
(* the text, are cut at the coarsest boundary, and each has its tokens in  *)
(* the prompt.                                                             *)
(***************************************************************************)
EXTENDS CalibHooks, CalibDriver, Segmenter, ReadViewProofs, TLAPS

USE DEF Main, Other

LEMMA AppendFacts ==
  ASSUME NEW S, NEW q \in Seq(S), NEW x \in S
  PROVE  /\ Append(q, x) \in Seq(S)
         /\ Len(Append(q, x)) = Len(q) + 1
         /\ DOMAIN Append(q, x) = 1..Len(q) + 1 /\ DOMAIN q = 1..Len(q)
         /\ \A i \in 1..Len(q) : Append(q, x)[i] = q[i]
         /\ Append(q, x)[Len(q) + 1] = x
  OBVIOUS

LEMMA UnsampledTyped ==
  /\ Unsampled \in [Requests -> Nat] /\ Unsampled[Main] = 0 /\ Unsampled[Other] = 0
  BY DEF Unsampled, Requests

\* A counter that was never read from the file is zero, so the first reading
\* resets nothing.
LEMMA CounterKeeps ==
  ASSUME HookInv
  PROVE  Counter(forceStep) = forceStep /\ Counter(logitsStep) = logitsStep
  BY DEF HookInv, CounterInv, Counter

LEMMA InitHolds == Init => HookInv
<1> SUFFICES ASSUME Init PROVE HookInv
  OBVIOUS
<1>1. TypeOK
  <2>1. traj \in Nat /\ forceStep \in 0..traj
    BY CalibHooksAssumption DEF Init
  <2>2. NoBatch \in Batches /\ NoBatch.sampled \subseteq NoBatch.reqs
    BY DEF NoBatch, Batches
  <2>3. out \in [Requests -> Seq(Nat)]
    BY DEF Init
  <2>4. /\ forceLog \in Seq([step : Nat, reqs : SUBSET Requests, forced : Nat])
        /\ logits \in Seq([step : Nat, reqs : SUBSET Requests, place : Nat])
        /\ trace \in Seq([step : Nat, reqs : SUBSET Requests, decode : Nat])
    BY DEF Init
  <2>5. batch \in Batches /\ batch.sampled \subseteq batch.reqs /\ token \in [Requests -> Nat]
    BY <2>2, UnsampledTyped DEF Init
  <2>6. QED
    BY <2>1, <2>3, <2>4, <2>5 DEF Init, TypeOK
<1>2. PhaseInv /\ CounterInv /\ TokenInv /\ LayersInv
  BY DEF Init, PhaseInv, CounterInv, TokenInv, LayersInv, Requests, NoBatch
<1>3. TrajectoryInOrder /\ OnlyTargetForced /\ TraceFiledUnderDecode
  BY DEF Init, TrajectoryInOrder, OnlyTargetForced, TraceFiledUnderDecode, Requests
<1>4. QED
  BY <1>1, <1>2, <1>3 DEF HookInv

\* What was recorded stays in order while nothing is recorded.
LEMMA RecordsKept ==
  ASSUME HookInv, UNCHANGED <<out, trace>>
  PROVE  (TrajectoryInOrder /\ OnlyTargetForced /\ TraceFiledUnderDecode)'
  BY DEF HookInv, TrajectoryInOrder, OnlyTargetForced, TraceFiledUnderDecode

-----------------------------------------------------------------------------
(* The driver and the engine between two forwards.                         *)

LEMMA SubmitKeeps == ASSUME HookInv, Submit PROVE HookInv'
<1>1. TypeOK'
  BY DEF HookInv, TypeOK, Submit, engVars, hostVars, argVars
<1>2. PhaseInv'
  BY DEF HookInv, TypeOK, Submit, engVars, argVars, PhaseInv
<1>3. CounterInv'
  BY DEF HookInv, TypeOK, Submit, engVars, argVars, PhaseInv, CounterInv
<1>4. TokenInv'
  BY DEF HookInv, TypeOK, Submit, engVars, argVars, Consumes, Bound, PhaseInv, CounterInv, TokenInv
<1>5. LayersInv'
  BY DEF HookInv, TypeOK, Submit, engVars, argVars, PhaseInv, LayersInv, Captured
<1>6. QED
  BY <1>1, <1>2, <1>3, <1>4, <1>5, RecordsKept DEF HookInv, Submit, engVars

\* A new batch changes nothing that was recorded, and the tokens start anew.
LEMMA RunsKeeps ==
  ASSUME HookInv, stage = "idle", pc \in {"startup", "drive", "cleanup"},
         NEW b \in Batches, b.sampled \subseteq b.reqs, Runs(b), faults' \in Nat,
         pc # "drive" => Main \notin b.reqs
  PROVE  HookInv'
<1>1. TypeOK'
  BY UnsampledTyped DEF HookInv, TypeOK, Runs, hookVars, hostVars, argVars
<1>2. PhaseInv'
  BY DEF HookInv, TypeOK, Runs, hookVars, argVars, PhaseInv
<1>3. CounterInv'
  BY DEF HookInv, TypeOK, Runs, hookVars, argVars, PhaseInv, CounterInv
<1>4. TokenInv'
  BY DEF HookInv, TypeOK, Runs, hookVars, argVars, PhaseInv, CounterInv, TokenInv
<1>5. LayersInv'
  BY DEF HookInv, TypeOK, Runs, hookVars, argVars, PhaseInv, LayersInv, Captured
<1>6. QED
  BY <1>1, <1>2, <1>3, <1>4, <1>5, RecordsKept DEF HookInv, Runs, hookVars

LEMMA FaultTyped == (TypeOK /\ Fault) => faults' \in Nat
  BY DEF TypeOK, Fault

LEMMA ScheduleKeeps ==
  ASSUME HookInv, Schedule \/ ScheduleOther
  PROVE  HookInv'
<1> USE DEF Batches, Requests
<1>0. TypeOK /\ faults \in Nat
  BY DEF HookInv, TypeOK
<1>1. CASE Schedule
  <2>1. stage = "idle" /\ pc = "drive"
    BY <1>1 DEF Schedule, Driving
  <2>2. PICK b \in Batches :
          /\ b.sampled \subseteq b.reqs /\ Runs(b)
          /\ Fault \/ UNCHANGED faults
    <3>1. CASE Runs([reqs |-> {Main}, sampled |-> {Main}]) /\ UNCHANGED faults
      BY <3>1
    <3>2. CASE Fault /\ Runs([reqs |-> {Main}, sampled |-> {}])
      BY <3>2
    <3>3. CASE Fault /\ \E S \in SUBSET {Main} :
                          Runs([reqs |-> S \cup {Other}, sampled |-> S \cup {Other}])
      BY <3>3
    <3>4. QED
      BY <1>1, <3>1, <3>2, <3>3 DEF Schedule
  <2>3. faults' \in Nat
    BY <1>0, <2>2, FaultTyped
  <2>4. QED
    BY <2>1, <2>2, <2>3, RunsKeeps
<1>2. CASE ScheduleOther
  <2>1. [reqs |-> {Other}, sampled |-> {Other}] \in Batches
    OBVIOUS
  <2>2. stage = "idle" /\ pc \in {"startup", "cleanup"} /\ faults' \in Nat
        /\ Runs([reqs |-> {Other}, sampled |-> {Other}])
    BY <1>0, <1>2 DEF ScheduleOther
  <2>3. QED
    BY <2>1, <2>2, RunsKeeps
<1>3. QED
  BY <1>1, <1>2

LEMMA IdleKeeps ==
  ASSUME HookInv, Preempt \/ EmptyStep
  PROVE  HookInv'
<1>0. TypeOK /\ faults' \in Nat
  BY FaultTyped DEF HookInv, Preempt, EmptyStep
<1>1. TypeOK'
  <2>1. CASE Preempt
    BY <1>0, <2>1 DEF TypeOK, Preempt, hookVars, hostVars, argVars
  <2>2. CASE EmptyStep
    <3>1. steps' \in Nat
      BY <1>0, <2>2 DEF TypeOK, EmptyStep
    <3>2. QED
      BY <1>0, <2>2, <3>1 DEF TypeOK, EmptyStep, hookVars, engVars, argVars
  <2>3. QED
    BY <2>1, <2>2
<1>2. PhaseInv'
  BY DEF HookInv, TypeOK, Preempt, EmptyStep, Driving, hookVars, engVars, argVars, PhaseInv
<1>3. CounterInv'
  BY DEF HookInv, TypeOK, Preempt, EmptyStep, Driving, hookVars, engVars, argVars, PhaseInv, CounterInv
<1>4. TokenInv'
  BY DEF HookInv, TypeOK, Preempt, EmptyStep, Driving, hookVars, engVars, argVars, Consumes, Bound, PhaseInv, CounterInv, TokenInv
<1>5. LayersInv'
  BY DEF HookInv, TypeOK, Preempt, EmptyStep, Driving, hookVars, engVars, argVars, PhaseInv, LayersInv, Captured
<1>6. QED
  BY <1>1, <1>2, <1>3, <1>4, <1>5, RecordsKept DEF HookInv, Preempt, EmptyStep, hookVars, engVars

\* An exception ends the run; what was recorded is left as it is.
LEMMA RaisedKeeps ==
  ASSUME HookInv, pc = "drive", Raised, faults' \in Nat,
         UNCHANGED <<argVars, hookVars, batch, behind, token, out, hostVars>>
  PROVE  HookInv'
<1>1. TypeOK'
  BY DEF HookInv, TypeOK, Raised, hookVars, hostVars, argVars
<1>2. PhaseInv'
  BY DEF HookInv, TypeOK, Raised, hookVars, argVars, PhaseInv
<1>3. CounterInv'
  BY DEF HookInv, TypeOK, Raised, hookVars, argVars, PhaseInv, CounterInv
<1>4. TokenInv'
  BY DEF HookInv, TypeOK, Raised, hookVars, argVars, PhaseInv, CounterInv, TokenInv
<1>5. LayersInv'
  BY DEF HookInv, TypeOK, Raised, hookVars, argVars, PhaseInv, LayersInv, Captured
<1>6. QED
  BY <1>1, <1>2, <1>3, <1>4, <1>5, RecordsKept DEF HookInv, hookVars

LEMMA FailureKeeps ==
  ASSUME HookInv, HookFails \/ OutOfBudget
  PROVE  HookInv'
<1>1. faults' \in Nat
  BY FaultTyped DEF HookInv, TypeOK, HookFails, OutOfBudget
<1>2. QED
  BY <1>1, RaisedKeeps DEF HookFails, OutOfBudget

LEMMA JudgeKeeps ==
  ASSUME HookInv, Check \/ CleanedUp
  PROVE  HookInv'
<1>1. TypeOK'
  BY DEF HookInv, TypeOK, Check, CleanedUp, hookVars, engVars, hostVars, argVars
<1>2. PhaseInv'
  BY DEF HookInv, TypeOK, Check, CleanedUp, hookVars, engVars, argVars, PhaseInv
<1>3. CounterInv'
  BY DEF HookInv, TypeOK, Check, CleanedUp, hookVars, engVars, argVars, PhaseInv, CounterInv
<1>4. TokenInv'
  BY DEF HookInv, TypeOK, Check, CleanedUp, hookVars, engVars, argVars, Consumes, Bound, PhaseInv, CounterInv, TokenInv
<1>5. LayersInv'
  BY DEF HookInv, TypeOK, Check, CleanedUp, hookVars, engVars, argVars, PhaseInv, LayersInv, Captured
<1>6. QED
  BY <1>1, <1>2, <1>3, <1>4, <1>5, RecordsKept DEF HookInv, Check, CleanedUp, hookVars, engVars

-----------------------------------------------------------------------------
(* The hooks.                                                              *)

\* A restricted read is noted under the number of tokens the request has.
LEMMA TraceFollows ==
  ASSUME HookInv, Forward
  PROVE  /\ trace' \in Seq([step : Nat, reqs : SUBSET Requests, decode : Nat])
         /\ TraceFiledUnderDecode'
         /\ forceStep' = forceStep /\ logitsStep' = logitsStep
         /\ cached => cached'
         /\ cached' => armFile
<1>1. Counter(forceStep) = forceStep /\ Counter(logitsStep) = logitsStep
  BY CounterKeeps
<1>2. /\ trace \in Seq([step : Nat, reqs : SUBSET Requests, decode : Nat])
      /\ out[Main] \in Seq(Nat) /\ forceStep \in Nat /\ batch.reqs \in SUBSET Requests
      /\ cached \in BOOLEAN
  BY CalibHooksAssumption DEF HookInv, TypeOK, Requests, Batches
<1>3. forceStep = Len(out[Main])
  BY DEF HookInv, TypeOK, PhaseInv, CounterInv, Forward
<1>4. CASE UNCHANGED <<trace, cached, forceStep, logitsStep>>
  BY <1>2, <1>4 DEF HookInv, CounterInv, TraceFiledUnderDecode
<1>5. CASE /\ Bound
           /\ trace' = Append(trace, [step |-> TraceStep, reqs |-> batch.reqs,
                                      decode |-> Len(out[Main])])
           /\ cached' = TRUE
           /\ forceStep' = Counter(forceStep) /\ logitsStep' = Counter(logitsStep)
  <2> DEFINE note == [step |-> TraceStep, reqs |-> batch.reqs, decode |-> Len(out[Main])]
  <2> HIDE DEF note
  <2>0. note.step = note.decode
    BY <1>1, <1>3 DEF TraceStep, note
  <2>1. note \in [step : Nat, reqs : SUBSET Requests, decode : Nat]
    BY <1>1, <1>2, <1>3 DEF TraceStep, note
  <2>2. trace' = Append(trace, note)
    BY <1>5 DEF note
  <2>3. /\ trace' \in Seq([step : Nat, reqs : SUBSET Requests, decode : Nat])
        /\ DOMAIN trace' = 1..Len(trace) + 1 /\ DOMAIN trace = 1..Len(trace)
        /\ \A i \in 1..Len(trace) : trace'[i] = trace[i]
        /\ trace'[Len(trace) + 1] = note
    BY <1>2, <2>1, <2>2, AppendFacts
  <2>4. TraceFiledUnderDecode'
    <3>1. \A i \in 1..Len(trace) : trace[i].step = trace[i].decode
      BY <2>3 DEF HookInv, TraceFiledUnderDecode
    <3>2. Len(trace) \in Nat
      BY <1>2
    <3>3. \A i \in 1..Len(trace) + 1 : trace'[i].step = trace'[i].decode
      BY <2>0, <2>3, <3>1, <3>2
    <3>4. QED
      BY <2>3, <3>3 DEF TraceFiledUnderDecode
  <2>5. QED
    BY <1>1, <1>5, <2>3, <2>4 DEF Bound
<1>6. QED
  BY <1>4, <1>5 DEF Forward

LEMMA ForwardKeeps == ASSUME HookInv, Forward PROVE HookInv'
<1>1. pc' = pc \/ pc' = "ended"
  BY DEF Forward, Raised
<1>2. /\ UNCHANGED <<argVars, armFile, forceLog, logits, batch, behind, token, out, hostVars, faults>>
      /\ \/ Refused /\ pc = "drive" /\ Raised
         \/ ~(Refused /\ pc = "drive") /\ stage' = "logits" /\ UNCHANGED <<pc, verdict>>
  BY DEF Forward
<1>3. stage = "forward"
  BY DEF Forward
<1>4. cached' \in BOOLEAN
  BY TraceFollows DEF HookInv, TypeOK, Forward
<1>5. TypeOK'
  BY <1>2, <1>4, TraceFollows DEF HookInv, TypeOK, Raised, argVars, hostVars
<1>6. PhaseInv'
  BY <1>2, <1>3 DEF HookInv, TypeOK, PhaseInv, Raised
<1>7. CounterInv'
  BY <1>2, <1>3, TraceFollows DEF HookInv, TypeOK, PhaseInv, CounterInv, Raised
<1>8. TokenInv'
  BY <1>2, <1>3 DEF HookInv, TokenInv, Raised
<1>9. LayersInv'
  <2>1. CASE Refused /\ pc = "drive" /\ Raised
    BY <2>1 DEF LayersInv, Raised
  <2>2. CASE ~(Refused /\ pc = "drive") /\ stage' = "logits" /\ UNCHANGED <<pc, verdict>>
    BY <1>2, <1>3, <2>2 DEF HookInv, LayersInv, Captured, Refused, argVars
  <2>3. QED
    BY <1>2, <2>1, <2>2
<1>10. (TrajectoryInOrder /\ OnlyTargetForced)'
  BY <1>2 DEF HookInv, TrajectoryInOrder, OnlyTargetForced
<1>11. QED
  BY <1>5, <1>6, <1>7, <1>8, <1>9, <1>10, TraceFollows DEF HookInv

LEMMA CaptureLogitsKeeps == ASSUME HookInv, CaptureLogits PROVE HookInv'
<1>1. Counter(forceStep) = forceStep /\ Counter(logitsStep) = logitsStep
  BY CounterKeeps
<1>2. /\ forceStep' = forceStep /\ stage = "logits" /\ stage' = "sample" /\ cached' = armFile
      /\ UNCHANGED <<pc, verdict, argVars, armFile, forceLog, trace, batch, behind, token, out,
                     hostVars, faults>>
  BY <1>1 DEF CaptureLogits
<1>3. /\ logits \in Seq([step : Nat, reqs : SUBSET Requests, place : Nat])
      /\ out[Main] \in Seq(Nat) /\ logitsStep \in Nat /\ batch.reqs \in SUBSET Requests
  BY DEF HookInv, TypeOK, Requests, Batches
<1> DEFINE record == [step |-> logitsStep + 1, reqs |-> batch.reqs, place |-> Len(out[Main]) + 1]
<1>4. record \in [step : Nat, reqs : SUBSET Requests, place : Nat]
      /\ record.place = Len(out[Main]) + 1
  BY <1>3
<1> HIDE DEF record
<1>5. IF Bound
      THEN logits' = Append(logits, record) /\ logitsStep' = logitsStep + 1
      ELSE logits' = logits /\ logitsStep' = logitsStep
  BY <1>1 DEF CaptureLogits, record
<1>6. logits' \in Seq([step : Nat, reqs : SUBSET Requests, place : Nat]) /\ logitsStep' \in Nat
  <2>1. Append(logits, record) \in Seq([step : Nat, reqs : SUBSET Requests, place : Nat])
    BY <1>3, <1>4
  <2>2. logits' \in {logits, Append(logits, record)} /\ logitsStep' \in {logitsStep, logitsStep + 1}
    BY <1>5
  <2>3. logitsStep' \in Nat
    BY <1>3, <2>2
  <2>4. QED
    BY <1>3, <2>1, <2>2, <2>3
<1>7. TypeOK'
  BY <1>2, <1>6 DEF HookInv, TypeOK, argVars, hostVars
<1>8. PhaseInv'
  BY <1>2, <1>5 DEF HookInv, TypeOK, PhaseInv, Bound
<1>9. CounterInv'
  <2>1. ~armFile => forceStep = 0 /\ logitsStep = 0
    BY DEF HookInv, CounterInv
  <2>2. ~armFile => logitsStep' = 0
    BY <1>5, <2>1 DEF Bound
  <2>3. QED
    BY <1>2, <2>1, <2>2 DEF HookInv, PhaseInv, CounterInv
<1>10. TokenInv'
  BY <1>2 DEF HookInv, TokenInv
<1>11. LayersInv'
  <2> SUFFICES ASSUME recordLayers, armFile, verdict # "raised"
               PROVE  /\ \A i \in DOMAIN logits' : logits'[i].place = i
                      /\ Len(logits') = Len(out[Main]) + (IF Main \in batch.reqs THEN 1 ELSE 0)
                      /\ pc = "drive" => batch = [reqs |-> {Main}, sampled |-> {Main}]
    BY <1>2 DEF LayersInv, Captured, argVars
  <2>1. /\ \A i \in DOMAIN logits : logits[i].place = i
        /\ Len(logits) = Len(out[Main])
        /\ pc = "drive" => batch = [reqs |-> {Main}, sampled |-> {Main}]
    BY <1>2, <1>3 DEF HookInv, LayersInv, Captured
  <2>2. CASE Bound
    <3>1. /\ DOMAIN logits' = 1..Len(logits) + 1 /\ DOMAIN logits = 1..Len(logits)
          /\ Len(logits') = Len(logits) + 1
          /\ \A i \in 1..Len(logits) : logits'[i] = logits[i]
          /\ logits'[Len(logits) + 1] = record
      BY <1>3, <1>4, <1>5, <2>2, AppendFacts
    <3>2. Len(logits) \in Nat
      BY <1>3
    <3>3. \A i \in 1..Len(logits) + 1 : logits'[i].place = i
      BY <1>4, <2>1, <3>1, <3>2
    <3>4. QED
      BY <2>1, <2>2, <3>1, <3>3 DEF Bound
  <2>3. CASE ~Bound
    <3>1. logits' = logits /\ Main \notin batch.reqs
      BY <1>5, <2>3 DEF Bound
    <3>2. Len(out[Main]) + 0 = Len(out[Main])
      BY <1>3
    <3>3. QED
      BY <2>1, <3>1, <3>2
  <2>4. QED
    BY <2>2, <2>3
<1>12. QED
  BY <1>2, <1>7, <1>8, <1>9, <1>10, <1>11, RecordsKept DEF HookInv

LEMMA ForceTokensKeeps == ASSUME HookInv, ForceTokens PROVE HookInv'
<1>0. /\ stage = "sample" /\ token = Unsampled
      /\ UNCHANGED <<argVars, armFile, cached, logitsStep, logits, trace, batch, behind, out,
                     hostVars, faults>>
  BY DEF HookInv, TokenInv, ForceTokens
<1>1. forceStep \in Nat /\ traj \in Nat /\ forceStep <= traj /\ Len(out[Main]) \in Nat
      /\ forceStep = Len(out[Main]) /\ faults \in Nat
  BY <1>0, CalibHooksAssumption DEF HookInv, TypeOK, PhaseInv, CounterInv, Requests
<1>2. CASE ~Consumes
  <2>1. stage' = "deliver" /\ UNCHANGED <<pc, verdict, forceStep, forceLog, token>>
    BY <1>2 DEF ForceTokens
  <2>2. TypeOK'
    BY <1>0, <2>1 DEF HookInv, TypeOK, argVars, hostVars
  <2>3. PhaseInv'
    BY <1>0, <2>1 DEF HookInv, TypeOK, PhaseInv
  <2>4. CounterInv'
    BY <1>0, <2>1 DEF HookInv, CounterInv
  <2>5. TokenInv'
    <3>1. ~Consumes'
      BY <1>0, <1>2, <2>1 DEF Consumes, Bound
    <3>2. forceStep' = Len(out'[Main]) + 0 /\ token'[Other] = 0
      BY <1>0, <1>1, <2>1, UnsampledTyped
    <3>3. QED
      BY <2>1, <3>1, <3>2 DEF TokenInv
  <2>6. LayersInv'
    BY <1>0, <2>1 DEF HookInv, LayersInv, Captured, argVars
  <2>7. QED
    BY <1>0, <2>2, <2>3, <2>4, <2>5, <2>6, RecordsKept DEF HookInv
<1>3. CASE Consumes /\ Exhausted
  <2>1. Raised /\ UNCHANGED <<forceStep, forceLog, token>>
    BY <1>3 DEF ForceTokens
  <2>2. pc = "drive"
    BY <1>0, <1>3 DEF HookInv, TypeOK, PhaseInv, Consumes, Bound
  <2>3. faults' \in Nat /\ UNCHANGED <<argVars, hookVars, batch, behind, token, out, hostVars>>
    BY <1>0, <1>1, <2>1 DEF hookVars
  <2>4. QED
    BY <2>1, <2>2, <2>3, RaisedKeeps
<1>4. CASE Consumes /\ ~Exhausted
  <2> DEFINE record == [step |-> forceStep + 1, reqs |-> batch.reqs, forced |-> forceStep + 1]
  <2>1. /\ stage' = "deliver" /\ UNCHANGED <<pc, verdict>>
        /\ token' = [r \in Requests |-> IF r \in ForcedRows THEN forceStep + 1 ELSE token[r]]
        /\ forceStep' = forceStep + 1
        /\ forceLog' = Append(forceLog, record)
    BY <1>4 DEF ForceTokens
  <2>2. record \in [step : Nat, reqs : SUBSET Requests, forced : Nat]
    BY <1>1 DEF HookInv, TypeOK, Batches
  <2> HIDE DEF record
  <2>3. /\ forceLog' \in Seq([step : Nat, reqs : SUBSET Requests, forced : Nat])
        /\ Len(forceLog') = Len(forceLog) + 1
    BY <2>1, <2>2, AppendFacts DEF HookInv, TypeOK
  <2>4. token' \in [Requests -> Nat] /\ token'[Main] = forceStep + 1 /\ token'[Other] = 0
    BY <1>0, <1>1, <2>1, UnsampledTyped DEF ForcedRows, Requests
  <2>5. forceStep' \in 0..traj
    BY <1>1, <1>4, <2>1 DEF Exhausted
  <2>6. TypeOK'
    BY <1>0, <2>1, <2>3, <2>4, <2>5 DEF HookInv, TypeOK, argVars, hostVars
  <2>7. PhaseInv'
    BY <1>0, <2>1 DEF HookInv, TypeOK, PhaseInv
  <2>8. CounterInv'
    BY <1>0, <1>1, <1>4, <2>1, <2>3 DEF HookInv, CounterInv, Consumes, Bound
  <2>9. TokenInv'
    BY <1>0, <1>1, <1>4, <2>1, <2>4 DEF TokenInv, Consumes, Bound
  <2>10. LayersInv'
    BY <1>0, <2>1 DEF HookInv, LayersInv, Captured, argVars
  <2>11. QED
    BY <1>0, <2>6, <2>7, <2>8, <2>9, <2>10, RecordsKept DEF HookInv
<1>5. QED
  BY <1>2, <1>3, <1>4

-----------------------------------------------------------------------------
(* The token goes to the request.                                          *)

\* The stream of a request grows by the token of its row, and not otherwise.
LEMMA OutFollows ==
  ASSUME HookInv, Deliver, NEW r \in Requests
  PROVE  /\ out' \in [Requests -> Seq(Nat)]
         /\ r \in batch.sampled => /\ Len(out'[r]) = Len(out[r]) + 1
                                   /\ DOMAIN out'[r] = 1..Len(out[r]) + 1
                                   /\ DOMAIN out[r] = 1..Len(out[r])
                                   /\ \A i \in 1..Len(out[r]) : out'[r][i] = out[r][i]
                                   /\ out'[r][Len(out[r]) + 1] = token[r]
         /\ r \notin batch.sampled => out'[r] = out[r]
<1>1. out \in [Requests -> Seq(Nat)] /\ token \in [Requests -> Nat]
  BY DEF HookInv, TypeOK
<1>2. out' = [q \in Requests |-> IF q \in batch.sampled THEN Append(out[q], token[q]) ELSE out[q]]
  BY DEF Deliver
<1>3. \A q \in Requests : Append(out[q], token[q]) \in Seq(Nat)
  BY <1>1
<1>4. out' \in [Requests -> Seq(Nat)]
  BY <1>1, <1>2, <1>3
<1>5. out[r] \in Seq(Nat) /\ token[r] \in Nat
  BY <1>1
<1>6. CASE r \in batch.sampled
  <2>1. out'[r] = Append(out[r], token[r])
    BY <1>2, <1>6
  <2>2. QED
    BY <1>4, <1>5, <1>6, <2>1, AppendFacts
<1>7. CASE r \notin batch.sampled
  BY <1>2, <1>4, <1>7
<1>8. QED
  BY <1>6, <1>7

LEMMA DeliverKeeps == ASSUME HookInv, Deliver PROVE HookInv'
<1>1. /\ stage = "deliver" /\ stage' = "idle" /\ pc \in {"startup", "drive", "cleanup"}
      /\ pc' = pc \/ (pc = "drive" /\ pc' = "check")
      /\ UNCHANGED <<verdict, argVars, hookVars, batch, token>>
  BY DEF HookInv, TypeOK, PhaseInv, Deliver
<1>2. /\ Main \in Requests /\ Other \in Requests /\ out \in [Requests -> Seq(Nat)]
      /\ Len(out[Main]) \in Nat /\ Len(out[Other]) \in Nat /\ faults \in Nat /\ token[Other] = 0
  BY <1>1 DEF HookInv, TypeOK, TokenInv, Requests
<1>3. out' \in [Requests -> Seq(Nat)]
  BY <1>2, OutFollows
<1>4. Main \in batch.sampled <=> Consumes
  <2>1. Main \in batch.sampled => Main \in batch.reqs
    BY DEF HookInv, TypeOK
  <2>2. (Main \in batch.reqs) => armFile
    BY <1>1 DEF HookInv, TypeOK, PhaseInv
  <2>3. QED
    BY <2>1, <2>2 DEF Consumes, Bound
<1>5. forceStep = Len(out'[Main])
  <2>1. forceStep = Len(out[Main]) + (IF Consumes THEN 1 ELSE 0)
    BY <1>1 DEF HookInv, TokenInv
  <2>2. CASE Consumes
    BY <1>2, <1>4, <2>1, <2>2, OutFollows
  <2>3. CASE ~Consumes
    BY <1>2, <1>4, <2>1, <2>3, OutFollows
  <2>4. QED
    BY <2>2, <2>3
<1>6. TrajectoryInOrder'
  <2>1. \A i \in DOMAIN out[Main] : out[Main][i] = i
    BY DEF HookInv, TrajectoryInOrder
  <2>2. CASE Main \in batch.sampled
    <3>1. /\ DOMAIN out'[Main] = 1..Len(out[Main]) + 1 /\ DOMAIN out[Main] = 1..Len(out[Main])
          /\ \A i \in 1..Len(out[Main]) : out'[Main][i] = out[Main][i]
          /\ out'[Main][Len(out[Main]) + 1] = token[Main]
      BY <1>2, <2>2, OutFollows
    <3>2. token[Main] = Len(out[Main]) + 1
      BY <1>1, <1>4, <2>2 DEF HookInv, TokenInv
    <3>3. QED
      BY <1>2, <2>1, <3>1, <3>2 DEF TrajectoryInOrder
  <2>3. CASE Main \notin batch.sampled
    BY <1>2, <2>1, <2>3, OutFollows DEF TrajectoryInOrder
  <2>4. QED
    BY <2>2, <2>3
<1>7. OnlyTargetForced'
  <2>1. \A i \in DOMAIN out[Other] : out[Other][i] = 0
    BY DEF HookInv, OnlyTargetForced
  <2>2. CASE Other \in batch.sampled
    <3>1. /\ DOMAIN out'[Other] = 1..Len(out[Other]) + 1 /\ DOMAIN out[Other] = 1..Len(out[Other])
          /\ \A i \in 1..Len(out[Other]) : out'[Other][i] = out[Other][i]
          /\ out'[Other][Len(out[Other]) + 1] = 0
      BY <1>2, <2>2, OutFollows
    <3>2. QED
      BY <1>2, <2>1, <3>1 DEF OnlyTargetForced
  <2>3. CASE Other \notin batch.sampled
    BY <1>2, <2>1, <2>3, OutFollows DEF OnlyTargetForced
  <2>4. QED
    BY <2>2, <2>3
<1>8. TraceFiledUnderDecode'
  BY <1>1 DEF HookInv, TraceFiledUnderDecode, hookVars
<1>9. TypeOK'
  <2>1. steps' \in Nat /\ consuming' \in Nat /\ foreign' \in BOOLEAN /\ faults' \in Nat
        /\ behind' \in BOOLEAN
    <3>1. steps \in Nat /\ consuming \in Nat /\ foreign \in BOOLEAN /\ behind \in BOOLEAN
      BY DEF HookInv, TypeOK
    <3>2. faults' \in Nat
      BY <1>2 DEF Deliver, Fault, hostVars
    <3>3. foreign' \in BOOLEAN /\ behind' \in BOOLEAN
      BY <3>1, Zenon DEF Deliver, hostVars
    <3>4. QED
      BY <3>1, <3>2, <3>3 DEF Deliver, hostVars
  <2>2. QED
    BY <1>1, <1>3, <2>1 DEF HookInv, TypeOK, argVars, hookVars
<1>10. PhaseInv'
  <2>1. ~armFile => Main \notin batch.sampled
    BY <1>4 DEF Consumes, Bound
  <2>2. ~armFile => out'[Main] = <<>>
    BY <1>2, <2>1, OutFollows DEF HookInv, PhaseInv
  <2>3. QED
    BY <1>1, <2>2 DEF HookInv, TypeOK, PhaseInv, hookVars
<1>11. CounterInv'
  BY <1>1, <1>5 DEF HookInv, PhaseInv, CounterInv, hookVars
<1>12. TokenInv'
  BY <1>1 DEF TokenInv
<1>13. LayersInv'
  <2> SUFFICES ASSUME recordLayers, armFile, verdict # "raised"
               PROVE  /\ \A i \in DOMAIN logits : logits[i].place = i
                      /\ Len(logits) = Len(out'[Main]) + 0
    BY <1>1 DEF LayersInv, Captured, argVars, hookVars
  <2>1. /\ \A i \in DOMAIN logits : logits[i].place = i
        /\ Len(logits) = Len(out[Main]) + (IF Main \in batch.reqs THEN 1 ELSE 0)
        /\ pc = "drive" => batch = [reqs |-> {Main}, sampled |-> {Main}]
    BY <1>1 DEF HookInv, LayersInv, Captured
  <2>2. Main \in batch.reqs <=> Main \in batch.sampled
    BY <1>1, <2>1 DEF HookInv, TypeOK, PhaseInv
  <2>3. CASE Main \in batch.sampled
    BY <1>2, <2>1, <2>2, <2>3, OutFollows
  <2>4. CASE Main \notin batch.sampled
    BY <1>2, <2>1, <2>2, <2>4, OutFollows
  <2>5. QED
    BY <2>3, <2>4
<1>14. QED
  BY <1>6, <1>7, <1>8, <1>9, <1>10, <1>11, <1>12, <1>13 DEF HookInv

-----------------------------------------------------------------------------
(* The theorems.                                                           *)

LEMMA StutterKeeps == ASSUME HookInv, UNCHANGED vars PROVE HookInv'
<1>1. (TypeOK /\ PhaseInv /\ CounterInv)'
  BY DEF HookInv, TypeOK, PhaseInv, CounterInv, vars, argVars, hookVars, engVars, hostVars
<1>2. (TokenInv /\ LayersInv)'
  BY DEF HookInv, TokenInv, LayersInv, Captured, Consumes, Bound, vars, argVars, hookVars, engVars
<1>3. QED
  BY <1>1, <1>2, RecordsKept DEF HookInv, vars, hookVars, engVars

LEMMA StepKeeps == HookInv /\ [Next]_vars => HookInv'
<1> SUFFICES ASSUME HookInv, [Next]_vars PROVE HookInv'
  OBVIOUS
<1>1. CASE Submit
  BY <1>1, SubmitKeeps
<1>2. CASE Schedule \/ ScheduleOther
  BY <1>2, ScheduleKeeps
<1>3. CASE Preempt \/ EmptyStep
  BY <1>3, IdleKeeps
<1>4. CASE Forward
  BY <1>4, ForwardKeeps
<1>5. CASE CaptureLogits
  BY <1>5, CaptureLogitsKeeps
<1>6. CASE ForceTokens
  BY <1>6, ForceTokensKeeps
<1>7. CASE Deliver
  BY <1>7, DeliverKeeps
<1>8. CASE HookFails \/ OutOfBudget
  BY <1>8, FailureKeeps
<1>9. CASE Check \/ CleanedUp
  BY <1>9, JudgeKeeps
<1>10. CASE UNCHANGED vars
  BY <1>10, StutterKeeps
<1>11. QED
  BY <1>1, <1>2, <1>3, <1>4, <1>5, <1>6, <1>7, <1>8, <1>9, <1>10 DEF Next

\* The invariant of hooks, engine and driver is inductive.
THEOREM HooksInvariant == Spec => []HookInv
  BY InitHolds, StepKeeps, PTL DEF Spec

\* Whatever is chunked, preempted and computed again, the target receives the
\* trajectory token by token, each once (calibration_force_tokens).
THEOREM TrajectoryDelivered == Spec => []TrajectoryInOrder
<1>1. HookInv => TrajectoryInOrder
  BY DEF HookInv
<1>2. QED
  BY <1>1, HooksInvariant, PTL

\* No request but the target is given a token it did not sample, at any time.
THEOREM OthersUntouched == Spec => []OnlyTargetForced
<1>1. HookInv => OnlyTargetForced
  BY DEF HookInv
<1>2. QED
  BY <1>1, HooksInvariant, PTL

\* What was noted of a restricted read stands under the step it belongs to.
THEOREM TraceFiled == Spec => []TraceFiledUnderDecode
<1>1. HookInv => TraceFiledUnderDecode
  BY DEF HookInv
<1>2. QED
  BY <1>1, HooksInvariant, PTL

\* An accepted run stays what it was when it was judged: nothing that comes
\* after the judgement touches the tokens, the logs or the arguments.
LEMMA AcceptedOnce ==
  ASSUME HookInv, AcceptedIsReplay, [Next]_vars
  PROVE  AcceptedIsReplay'
<1> SUFFICES ASSUME verdict' = "accepted", traj' # 0
             PROVE  /\ Len(out'[Main]) = MaxTokens /\ traj' = MaxTokens
                    /\ Len(forceLog') = MaxTokens
                    /\ recordLayers' => /\ Len(logits') = MaxTokens
                                        /\ \A i \in DOMAIN logits' : logits'[i].place = i
  BY DEF AcceptedIsReplay
<1>1. CASE Check
  <2>1. /\ Len(out[Main]) = MaxTokens /\ ForceLogOK /\ pc = "check"
        /\ UNCHANGED <<argVars, hookVars, engVars>>
    BY <1>1 DEF Check
  <2>2. stage = "idle" /\ verdict = "none" /\ armFile
    BY <2>1 DEF HookInv, TypeOK, PhaseInv
  <2>3. forceStep = MaxTokens /\ Len(forceLog) = MaxTokens
    BY <2>1, <2>2 DEF HookInv, CounterInv
  <2>4. Len(forceLog) = traj
    BY <2>1 DEF ForceLogOK, argVars
  <2>5. recordLayers => Len(logits) = MaxTokens /\ \A i \in DOMAIN logits : logits[i].place = i
    BY <2>1, <2>2, CalibHooksAssumption DEF HookInv, LayersInv, Captured
  <2>6. QED
    BY <2>1, <2>3, <2>4, <2>5 DEF argVars, hookVars, engVars
<1>2. CASE ~Check
  <2>1. verdict = "accepted"
    BY <1>2 DEF Next, Submit, Schedule, ScheduleOther, Preempt, EmptyStep, Forward, CaptureLogits,
                ForceTokens, HookFails, Deliver, OutOfBudget, CleanedUp, Runs, Raised, vars
  <2>2. pc \in {"cleanup", "ended"}
    BY <2>1 DEF HookInv, TypeOK, PhaseInv
  <2>3. Main \notin batch.reqs \/ stage = "idle"
    BY <2>2 DEF HookInv, PhaseInv
  <2>4. traj' = traj /\ recordLayers' = recordLayers
    BY <1>2 DEF Next, Submit, Schedule, ScheduleOther, Preempt, EmptyStep, Forward, CaptureLogits,
                ForceTokens, HookFails, Deliver, OutOfBudget, CleanedUp, Runs, vars, argVars
  <2>5. logits' = logits /\ forceLog' = forceLog
    BY <1>2, <2>2, <2>3 DEF Next, Submit, Schedule, ScheduleOther, Preempt, EmptyStep, Forward,
         CaptureLogits, ForceTokens, HookFails, Deliver, OutOfBudget, CleanedUp, Runs, vars,
         hookVars, Bound, Consumes
  <2>6. out'[Main] = out[Main]
    <3>1. CASE Deliver
      <4>1. Main \in Requests /\ Main \notin batch.sampled
        BY <2>3, <3>1 DEF Requests, HookInv, TypeOK, Deliver
      <4>2. QED
        BY <3>1, <4>1, OutFollows
    <3>2. CASE ~Deliver
      BY <1>2, <3>2 DEF Next, Submit, Schedule, ScheduleOther, Preempt, EmptyStep, Forward,
           CaptureLogits, ForceTokens, HookFails, OutOfBudget, CleanedUp, Runs, vars, engVars
    <3>3. QED
      BY <3>1, <3>2
  <2>7. QED
    BY <2>1, <2>4, <2>5, <2>6 DEF AcceptedIsReplay
<1>3. QED
  BY <1>1, <1>2

\* An accepted replay forced all of the trajectory and nothing else, and every
\* captured row of logits is that of its token (verify_force_log,
\* verify_logits_records, LayerCapture).
THEOREM AcceptedWasReplayed == Spec => []AcceptedIsReplay
<1>1. Init => AcceptedIsReplay
  BY DEF Init, AcceptedIsReplay
<1>2. HookInv /\ AcceptedIsReplay /\ [Next]_vars => AcceptedIsReplay'
  BY AcceptedOnce
<1>3. QED
  BY <1>1, <1>2, HooksInvariant, PTL DEF Spec

\* Where calibration_force_tokens itself ends the run: at a token of the main
\* request for which the trajectory has no place any more.
Stops == stage = "sample" /\ verdict' = "raised" /\ faults' = faults
Supplied ==
    /\ Consumes
    /\ Len(out[Main]) = traj /\ Len(forceLog) = traj
    /\ \A i \in 1..traj : out[Main][i] = i

\* When the forcing hook stops a run, the request was about to get one token more
\* than it has, and has exactly the tokens of the trajectory, each in its place
\* and with its record; in a run without a trajectory (traj = 0) that is its
\* first token (_CALIB_STATE, calibration_force_tokens).
THEOREM StoppedAtTheEnd == Spec => [][Stops => Supplied]_vars
<1>1. ASSUME HookInv, Next, Stops
      PROVE  Supplied
  <2>0. stage = "sample" /\ verdict' = "raised" /\ faults' = faults
    BY <1>1 DEF Stops
  <2>1. /\ verdict # "raised" /\ forceStep = Len(out[Main]) /\ forceStep \in Nat /\ faults \in Nat
        /\ traj \in Nat /\ pc # "check" /\ forceStep <= traj /\ Len(forceLog) = forceStep
        /\ out[Main] \in Seq(Nat)
    BY <1>1, <2>0, CalibHooksAssumption DEF HookInv, TypeOK, PhaseInv, CounterInv, Requests
  <2>2. ForceTokens
    BY <1>1, <2>0, <2>1 DEF Next, Submit, Schedule, ScheduleOther, Preempt, EmptyStep, Forward,
         CaptureLogits, HookFails, Deliver, OutOfBudget, Check, CleanedUp, Driving, Runs, Fault
  <2>3. Consumes /\ forceStep >= traj
    BY <2>0, <2>1, <2>2 DEF ForceTokens, Exhausted
  <2>4. Len(out[Main]) = traj /\ Len(forceLog) = traj
    BY <2>1, <2>3
  <2>5. \A i \in 1..traj : out[Main][i] = i
    BY <1>1, <2>1, <2>4 DEF HookInv, TrajectoryInOrder
  <2>6. QED
    BY <2>3, <2>4, <2>5 DEF Supplied
<1>2. HookInv /\ [Next]_vars => [Stops => Supplied]_vars
  BY <1>1
<1>3. QED
  BY <1>2, HooksInvariant, PTL DEF Spec

-----------------------------------------------------------------------------
(* The driver.                                                             *)

USE DEF mainVars, diskVars, timerVars, procVars

LEMMA MishapTyped == (DriverTyped /\ (Mishap \/ UNCHANGED mishaps)) => mishaps' \in 0..MaxMishaps
  BY CalibDriverAssumption DEF DriverTyped, Mishap

\* What a watchdog writes, from what it has read.
LEMMA CompletedTyped ==
  ASSUME NEW m \in Manifests, NEW e \in BOOLEAN, NEW k \in 0..3, NEW n \in BOOLEAN
  PROVE  [m EXCEPT !.ended = e, !.code = k, !.notes = n] \in Manifests
  BY DEF Manifests

-----------------------------------------------------------------------------
(* The main thread, action by action.                                      *)

LEMMA BeginKeeps == ASSUME CoreInv, Begin PROVE CoreInv'
<1>1. MainTypes'
  BY DEF CoreInv, DriverTyped, MainTypes, PlaceInv, Manifests, Begin, At, Save
<1>2. DiskTypes'
  BY DEF CoreInv, DriverTyped, MainTypes, DiskTypes, TimerTypes, Manifests, Begin, At, Save
<1>3. TimerTypes'
  BY DEF CoreInv, DriverTyped, DiskTypes, TimerTypes, Blocked, Labels, Begin, At, Save
<1>4. DriverTyped'
  BY <1>1, <1>2, <1>3, MishapTyped DEF CoreInv, DriverTyped, Begin, At, Save
<1>5. PlaceInv'
  BY DEF CoreInv, DriverTyped, MainTypes, DiskTypes, TimerTypes, PlaceInv, Place, Ahead, Failing,
         Begin, At, Save
<1>6. TimerInv'
  BY DEF CoreInv, DriverTyped, MainTypes, DiskTypes, TimerTypes, PlaceInv, TimerInv, Place, Ahead,
         Failing, Labels, Blocked, Begin, At, Save
<1>7. FileInv'
  BY DEF CoreInv, DriverTyped, MainTypes, DiskTypes, TimerTypes, PlaceInv, TimerInv, FileInv, MemInv,
         Place, Ahead, Failing, Labels, Blocked, Quiet, Untorn, Begin, At, Save
<1>8. MemInv'
  BY DEF CoreInv, DriverTyped, MainTypes, DiskTypes, TimerTypes, Manifests, PlaceInv, TimerInv,
         FileInv, MemInv, Fixture, Place, Ahead, Failing, Labels, Begin, At, Save
<1>9. ProcessInv'
  BY DEF CoreInv, DriverTyped, MainTypes, DiskTypes, TimerTypes, PlaceInv, ProcessInv, Begin, At,
         Save
<1>10. QED
  BY <1>4, <1>5, <1>6, <1>7, <1>8, <1>9 DEF CoreInv

LEMMA DeployKeeps == ASSUME CoreInv, Deploy PROVE CoreInv'
<1>1. MainTypes'
  BY DEF CoreInv, DriverTyped, MainTypes, PlaceInv, Manifests, Deploy, At, Save, Raise, GoOn
<1>2. DiskTypes'
  BY DEF CoreInv, DriverTyped, MainTypes, DiskTypes, TimerTypes, Manifests, Deploy, At, Save, Raise,
         GoOn
<1>3. TimerTypes'
  BY DEF CoreInv, DriverTyped, DiskTypes, TimerTypes, Blocked, Labels, Deploy, At, Save, Raise, GoOn
<1>4. DriverTyped'
  BY <1>1, <1>2, <1>3, MishapTyped DEF CoreInv, DriverTyped, Deploy, At, Save, Raise, GoOn
<1>5. PlaceInv'
  BY DEF CoreInv, DriverTyped, MainTypes, DiskTypes, TimerTypes, PlaceInv, Place, Ahead, Failing,
         Deploy, At, Save, Raise, GoOn
<1>6. TimerInv'
  BY DEF CoreInv, DriverTyped, MainTypes, DiskTypes, TimerTypes, PlaceInv, TimerInv, Place, Ahead,
         Failing, Labels, Blocked, Deploy, At, Save, Raise, GoOn
<1>7. FileInv'
  BY DEF CoreInv, DriverTyped, MainTypes, DiskTypes, TimerTypes, PlaceInv, TimerInv, FileInv, MemInv,
         Place, Ahead, Failing, Labels, Blocked, Quiet, Untorn, Deploy, At, Save, Raise, GoOn
<1>8. MemInv'
  BY DEF CoreInv, DriverTyped, MainTypes, DiskTypes, TimerTypes, Manifests, PlaceInv, TimerInv,
         FileInv, MemInv, Fixture, Place, Ahead, Failing, Labels, Deploy, At, Save, Raise, GoOn
<1>9. ProcessInv'
  BY DEF CoreInv, DriverTyped, MainTypes, DiskTypes, TimerTypes, PlaceInv, ProcessInv, Deploy, At,
         Save, Raise, GoOn
<1>10. QED
  BY <1>4, <1>5, <1>6, <1>7, <1>8, <1>9 DEF CoreInv

LEMMA LoadKeeps == ASSUME CoreInv, Load PROVE CoreInv'
<1>1. MainTypes'
  BY DEF CoreInv, DriverTyped, MainTypes, PlaceInv, Manifests, Load, At, GoOn, Enter, Raise
<1>2. DiskTypes'
  BY DEF CoreInv, DriverTyped, MainTypes, DiskTypes, TimerTypes, Manifests, Load, At, GoOn, Enter,
         Raise
<1>3. TimerTypes'
  BY DEF CoreInv, DriverTyped, DiskTypes, TimerTypes, Blocked, Labels, Load, At, GoOn, Enter, Raise
<1>4. DriverTyped'
  BY <1>1, <1>2, <1>3, MishapTyped DEF CoreInv, DriverTyped, Load, At, GoOn, Enter, Raise
<1>5. PlaceInv'
  BY DEF CoreInv, DriverTyped, MainTypes, DiskTypes, TimerTypes, PlaceInv, Place, Ahead, Failing, Load,
         At, GoOn, Enter, Raise
<1>6. TimerInv'
  BY DEF CoreInv, DriverTyped, MainTypes, DiskTypes, TimerTypes, PlaceInv, TimerInv, Place, Ahead,
         Failing, Labels, Blocked, Load, At, GoOn, Enter, Raise
<1>7. FileInv'
  BY DEF CoreInv, DriverTyped, MainTypes, DiskTypes, TimerTypes, PlaceInv, TimerInv, FileInv, MemInv,
         Place, Ahead, Failing, Labels, Blocked, Quiet, Untorn, Load, At, GoOn, Enter, Raise
<1>8. MemInv'
  BY DEF CoreInv, DriverTyped, MainTypes, DiskTypes, TimerTypes, Manifests, PlaceInv, TimerInv,
         FileInv, MemInv, Fixture, Place, Ahead, Failing, Labels, Load, At, GoOn, Enter, Raise
<1>9. ProcessInv'
  BY DEF CoreInv, DriverTyped, MainTypes, DiskTypes, TimerTypes, PlaceInv, ProcessInv, Load, At,
         GoOn, Enter, Raise
<1>10. QED
  BY <1>4, <1>5, <1>6, <1>7, <1>8, <1>9 DEF CoreInv

LEMMA StartupKeeps == ASSUME CoreInv, Startup PROVE CoreInv'
<1>1. MainTypes'
  BY DEF CoreInv, DriverTyped, MainTypes, PlaceInv, Manifests, Startup, At, GoOn, Exit, Raise
<1>2. DiskTypes'
  BY DEF CoreInv, DriverTyped, MainTypes, DiskTypes, TimerTypes, Manifests, Startup, At, GoOn, Exit,
         Raise
<1>3. TimerTypes'
  BY DEF CoreInv, DriverTyped, DiskTypes, TimerTypes, Blocked, Labels, Startup, At, GoOn, Exit, Raise
<1>4. DriverTyped'
  BY <1>1, <1>2, <1>3, MishapTyped DEF CoreInv, DriverTyped, Startup, At, GoOn, Exit, Raise
<1>5. PlaceInv'
  BY DEF CoreInv, DriverTyped, MainTypes, DiskTypes, TimerTypes, PlaceInv, Place, Ahead, Failing,
         Startup, At, GoOn, Exit, Raise
<1>6. TimerInv'
  BY DEF CoreInv, DriverTyped, MainTypes, DiskTypes, TimerTypes, PlaceInv, TimerInv, Place, Ahead,
         Failing, Labels, Blocked, Startup, At, GoOn, Exit, Raise
<1>7. FileInv'
  BY DEF CoreInv, DriverTyped, MainTypes, DiskTypes, TimerTypes, PlaceInv, TimerInv, FileInv, MemInv,
         Place, Ahead, Failing, Labels, Blocked, Quiet, Untorn, Startup, At, GoOn, Exit, Raise
<1>8. MemInv'
  BY DEF CoreInv, DriverTyped, MainTypes, DiskTypes, TimerTypes, Manifests, PlaceInv, TimerInv,
         FileInv, MemInv, Fixture, Place, Ahead, Failing, Labels, Startup, At, GoOn, Exit, Raise
<1>9. ProcessInv'
  BY DEF CoreInv, DriverTyped, MainTypes, DiskTypes, TimerTypes, PlaceInv, ProcessInv, Startup, At,
         GoOn, Exit, Raise
<1>10. QED
  BY <1>4, <1>5, <1>6, <1>7, <1>8, <1>9 DEF CoreInv

LEMMA StartupCheckKeeps == ASSUME CoreInv, StartupCheck PROVE CoreInv'
<1>1. MainTypes'
  BY DEF CoreInv, DriverTyped, MainTypes, PlaceInv, Manifests, StartupCheck, At, GoOn, Raise, Late
<1>2. DiskTypes'
  BY DEF CoreInv, DriverTyped, MainTypes, DiskTypes, TimerTypes, Manifests, StartupCheck, At, GoOn,
         Raise, Late
<1>3. TimerTypes'
  BY DEF CoreInv, DriverTyped, DiskTypes, TimerTypes, Blocked, Labels, StartupCheck, At, GoOn, Raise,
         Late
<1>4. DriverTyped'
  BY <1>1, <1>2, <1>3, MishapTyped DEF CoreInv, DriverTyped, StartupCheck, At, GoOn, Raise, Late
<1>5. PlaceInv'
  BY DEF CoreInv, DriverTyped, MainTypes, DiskTypes, TimerTypes, PlaceInv, Place, Ahead, Failing,
         StartupCheck, At, GoOn, Raise, Late
<1>6. TimerInv'
  BY DEF CoreInv, DriverTyped, MainTypes, DiskTypes, TimerTypes, PlaceInv, TimerInv, Place, Ahead,
         Failing, Labels, Blocked, StartupCheck, At, GoOn, Raise, Late
<1>7. FileInv'
  BY DEF CoreInv, DriverTyped, MainTypes, DiskTypes, TimerTypes, PlaceInv, TimerInv, FileInv, MemInv,
         Place, Ahead, Failing, Labels, Blocked, Quiet, Untorn, StartupCheck, At, GoOn, Raise,
         Late
<1>8. MemInv'
  BY DEF CoreInv, DriverTyped, MainTypes, DiskTypes, TimerTypes, Manifests, PlaceInv, TimerInv,
         FileInv, MemInv, Fixture, Place, Ahead, Failing, Labels, StartupCheck, At, GoOn, Raise,
         Late
<1>9. ProcessInv'
  BY DEF CoreInv, DriverTyped, MainTypes, DiskTypes, TimerTypes, PlaceInv, ProcessInv, StartupCheck,
         At, GoOn, Raise, Late
<1>10. QED
  BY <1>4, <1>5, <1>6, <1>7, <1>8, <1>9 DEF CoreInv

LEMMA PrepareKeeps == ASSUME CoreInv, Prepare PROVE CoreInv'
<1>1. MainTypes'
  BY DEF CoreInv, DriverTyped, MainTypes, PlaceInv, Manifests, Prepare, At, Save, Raise, GoOn
<1>2. DiskTypes'
  BY DEF CoreInv, DriverTyped, MainTypes, DiskTypes, TimerTypes, Manifests, Prepare, At, Save, Raise,
         GoOn
<1>3. TimerTypes'
  BY DEF CoreInv, DriverTyped, DiskTypes, TimerTypes, Blocked, Labels, Prepare, At, Save, Raise, GoOn
<1>4. DriverTyped'
  BY <1>1, <1>2, <1>3, MishapTyped DEF CoreInv, DriverTyped, Prepare, At, Save, Raise, GoOn
<1>5. PlaceInv'
  BY DEF CoreInv, DriverTyped, MainTypes, DiskTypes, TimerTypes, PlaceInv, Place, Ahead, Failing,
         Prepare, At, Save, Raise, GoOn
<1>6. TimerInv'
  BY DEF CoreInv, DriverTyped, MainTypes, DiskTypes, TimerTypes, PlaceInv, TimerInv, Place, Ahead,
         Failing, Labels, Blocked, Prepare, At, Save, Raise, GoOn
<1>7. FileInv'
  BY DEF CoreInv, DriverTyped, MainTypes, DiskTypes, TimerTypes, PlaceInv, TimerInv, FileInv, MemInv,
         Place, Ahead, Failing, Labels, Blocked, Quiet, Untorn, Prepare, At, Save, Raise, GoOn
<1>8. MemInv'
  BY DEF CoreInv, DriverTyped, MainTypes, DiskTypes, TimerTypes, Manifests, PlaceInv, TimerInv,
         FileInv, MemInv, Fixture, Place, Ahead, Failing, Labels, Prepare, At, Save, Raise, GoOn
<1>9. ProcessInv'
  BY DEF CoreInv, DriverTyped, MainTypes, DiskTypes, TimerTypes, PlaceInv, ProcessInv, Prepare, At,
         Save, Raise, GoOn
<1>10. QED
  BY <1>4, <1>5, <1>6, <1>7, <1>8, <1>9 DEF CoreInv

LEMMA EnterRequestKeeps == ASSUME CoreInv, EnterRequest PROVE CoreInv'
<1>1. MainTypes'
  BY DEF CoreInv, DriverTyped, MainTypes, PlaceInv, Manifests, EnterRequest, At, GoOn, Enter, Raise
<1>2. DiskTypes'
  BY DEF CoreInv, DriverTyped, MainTypes, DiskTypes, TimerTypes, Manifests, EnterRequest, At, GoOn,
         Enter, Raise
<1>3. TimerTypes'
  BY DEF CoreInv, DriverTyped, DiskTypes, TimerTypes, Blocked, Labels, EnterRequest, At, GoOn, Enter,
         Raise
<1>4. DriverTyped'
  BY <1>1, <1>2, <1>3, MishapTyped DEF CoreInv, DriverTyped, EnterRequest, At, GoOn, Enter, Raise
<1>5. PlaceInv'
  BY DEF CoreInv, DriverTyped, MainTypes, DiskTypes, TimerTypes, PlaceInv, Place, Ahead, Failing,
         EnterRequest, At, GoOn, Enter, Raise
<1>6. TimerInv'
  BY DEF CoreInv, DriverTyped, MainTypes, DiskTypes, TimerTypes, PlaceInv, TimerInv, Place, Ahead,
         Failing, Labels, Blocked, EnterRequest, At, GoOn, Enter, Raise
<1>7. FileInv'
  BY DEF CoreInv, DriverTyped, MainTypes, DiskTypes, TimerTypes, PlaceInv, TimerInv, FileInv, MemInv,
         Place, Ahead, Failing, Labels, Blocked, Quiet, Untorn, EnterRequest, At, GoOn, Enter,
         Raise
<1>8. MemInv'
  BY DEF CoreInv, DriverTyped, MainTypes, DiskTypes, TimerTypes, Manifests, PlaceInv, TimerInv,
         FileInv, MemInv, Fixture, Place, Ahead, Failing, Labels, EnterRequest, At, GoOn, Enter,
         Raise
<1>9. ProcessInv'
  BY DEF CoreInv, DriverTyped, MainTypes, DiskTypes, TimerTypes, PlaceInv, ProcessInv, EnterRequest,
         At, GoOn, Enter, Raise
<1>10. QED
  BY <1>4, <1>5, <1>6, <1>7, <1>8, <1>9 DEF CoreInv

LEMMA RequestKeeps == ASSUME CoreInv, Request PROVE CoreInv'
<1>1. MainTypes'
  BY DEF CoreInv, DriverTyped, MainTypes, PlaceInv, Manifests, Request, At, GoOn, Exit, Raise
<1>2. DiskTypes'
  BY DEF CoreInv, DriverTyped, MainTypes, DiskTypes, TimerTypes, Manifests, Request, At, GoOn, Exit,
         Raise
<1>3. TimerTypes'
  BY DEF CoreInv, DriverTyped, DiskTypes, TimerTypes, Blocked, Labels, Request, At, GoOn, Exit, Raise
<1>4. DriverTyped'
  BY <1>1, <1>2, <1>3, MishapTyped DEF CoreInv, DriverTyped, Request, At, GoOn, Exit, Raise
<1>5. PlaceInv'
  BY DEF CoreInv, DriverTyped, MainTypes, DiskTypes, TimerTypes, PlaceInv, Place, Ahead, Failing,
         Request, At, GoOn, Exit, Raise
<1>6. TimerInv'
  BY DEF CoreInv, DriverTyped, MainTypes, DiskTypes, TimerTypes, PlaceInv, TimerInv, Place, Ahead,
         Failing, Labels, Blocked, Request, At, GoOn, Exit, Raise
<1>7. FileInv'
  BY DEF CoreInv, DriverTyped, MainTypes, DiskTypes, TimerTypes, PlaceInv, TimerInv, FileInv, MemInv,
         Place, Ahead, Failing, Labels, Blocked, Quiet, Untorn, Request, At, GoOn, Exit, Raise
<1>8. MemInv'
  BY DEF CoreInv, DriverTyped, MainTypes, DiskTypes, TimerTypes, Manifests, PlaceInv, TimerInv,
         FileInv, MemInv, Fixture, Place, Ahead, Failing, Labels, Request, At, GoOn, Exit, Raise
<1>9. ProcessInv'
  BY DEF CoreInv, DriverTyped, MainTypes, DiskTypes, TimerTypes, PlaceInv, ProcessInv, Request, At,
         GoOn, Exit, Raise
<1>10. QED
  BY <1>4, <1>5, <1>6, <1>7, <1>8, <1>9 DEF CoreInv

LEMMA RequestCheckKeeps == ASSUME CoreInv, RequestCheck PROVE CoreInv'
<1>1. MainTypes'
  BY DEF CoreInv, DriverTyped, MainTypes, PlaceInv, Manifests, RequestCheck, At, GoOn, Raise, Late
<1>2. DiskTypes'
  BY DEF CoreInv, DriverTyped, MainTypes, DiskTypes, TimerTypes, Manifests, RequestCheck, At, GoOn,
         Raise, Late
<1>3. TimerTypes'
  BY DEF CoreInv, DriverTyped, DiskTypes, TimerTypes, Blocked, Labels, RequestCheck, At, GoOn, Raise,
         Late
<1>4. DriverTyped'
  BY <1>1, <1>2, <1>3, MishapTyped DEF CoreInv, DriverTyped, RequestCheck, At, GoOn, Raise, Late
<1>5. PlaceInv'
  BY DEF CoreInv, DriverTyped, MainTypes, DiskTypes, TimerTypes, PlaceInv, Place, Ahead, Failing,
         RequestCheck, At, GoOn, Raise, Late
<1>6. TimerInv'
  BY DEF CoreInv, DriverTyped, MainTypes, DiskTypes, TimerTypes, PlaceInv, TimerInv, Place, Ahead,
         Failing, Labels, Blocked, RequestCheck, At, GoOn, Raise, Late
<1>7. FileInv'
  BY DEF CoreInv, DriverTyped, MainTypes, DiskTypes, TimerTypes, PlaceInv, TimerInv, FileInv, MemInv,
         Place, Ahead, Failing, Labels, Blocked, Quiet, Untorn, RequestCheck, At, GoOn, Raise,
         Late
<1>8. MemInv'
  BY DEF CoreInv, DriverTyped, MainTypes, DiskTypes, TimerTypes, Manifests, PlaceInv, TimerInv,
         FileInv, MemInv, Fixture, Place, Ahead, Failing, Labels, RequestCheck, At, GoOn, Raise,
         Late
<1>9. ProcessInv'
  BY DEF CoreInv, DriverTyped, MainTypes, DiskTypes, TimerTypes, PlaceInv, ProcessInv, RequestCheck,
         At, GoOn, Raise, Late
<1>10. QED
  BY <1>4, <1>5, <1>6, <1>7, <1>8, <1>9 DEF CoreInv

LEMMA HandlerKeeps == ASSUME CoreInv, Handler PROVE CoreInv'
<1>1. MainTypes'
  BY DEF CoreInv, DriverTyped, MainTypes, PlaceInv, Manifests, Handler, At, GoOn, Enter, Raise,
         Fixture
<1>2. DiskTypes'
  BY DEF CoreInv, DriverTyped, MainTypes, DiskTypes, TimerTypes, Manifests, Handler, At, GoOn, Enter,
         Raise, Fixture
<1>3. TimerTypes'
  BY DEF CoreInv, DriverTyped, DiskTypes, TimerTypes, Blocked, Labels, Handler, At, GoOn, Enter,
         Raise, Fixture
<1>4. DriverTyped'
  BY <1>1, <1>2, <1>3, MishapTyped DEF CoreInv, DriverTyped, Handler, At, GoOn, Enter, Raise, Fixture
<1>5. PlaceInv'
  BY DEF CoreInv, DriverTyped, MainTypes, DiskTypes, TimerTypes, PlaceInv, Place, Ahead, Failing,
         Handler, At, GoOn, Enter, Raise, Fixture
<1>6. TimerInv'
  BY DEF CoreInv, DriverTyped, MainTypes, DiskTypes, TimerTypes, PlaceInv, TimerInv, Place, Ahead,
         Failing, Labels, Blocked, Handler, At, GoOn, Enter, Raise, Fixture
<1>7. FileInv'
  BY DEF CoreInv, DriverTyped, MainTypes, DiskTypes, TimerTypes, PlaceInv, TimerInv, FileInv, MemInv,
         Place, Ahead, Failing, Labels, Blocked, Quiet, Untorn, Handler, At, GoOn, Enter, Raise,
         Fixture
<1>8. MemInv'
  BY DEF CoreInv, DriverTyped, MainTypes, DiskTypes, TimerTypes, Manifests, PlaceInv, TimerInv,
         FileInv, MemInv, Fixture, Place, Ahead, Failing, Labels, Handler, At, GoOn, Enter,
         Raise
<1>9. ProcessInv'
  BY DEF CoreInv, DriverTyped, MainTypes, DiskTypes, TimerTypes, PlaceInv, ProcessInv, Handler, At,
         GoOn, Enter, Raise, Fixture
<1>10. QED
  BY <1>4, <1>5, <1>6, <1>7, <1>8, <1>9 DEF CoreInv

LEMMA AbortKeeps == ASSUME CoreInv, Abort PROVE CoreInv'
<1>1. MainTypes'
  BY DEF CoreInv, DriverTyped, MainTypes, PlaceInv, Manifests, Abort, At, GoOn, Exit
<1>2. DiskTypes'
  BY DEF CoreInv, DriverTyped, MainTypes, DiskTypes, TimerTypes, Manifests, Abort, At, GoOn, Exit
<1>3. TimerTypes'
  BY DEF CoreInv, DriverTyped, DiskTypes, TimerTypes, Blocked, Labels, Abort, At, GoOn, Exit
<1>4. DriverTyped'
  BY <1>1, <1>2, <1>3, MishapTyped DEF CoreInv, DriverTyped, Abort, At, GoOn, Exit
<1>5. PlaceInv'
  BY DEF CoreInv, DriverTyped, MainTypes, DiskTypes, TimerTypes, PlaceInv, Place, Ahead, Failing,
         Abort, At, GoOn, Exit
<1>6. TimerInv'
  BY DEF CoreInv, DriverTyped, MainTypes, DiskTypes, TimerTypes, PlaceInv, TimerInv, Place, Ahead,
         Failing, Labels, Blocked, Abort, At, GoOn, Exit
<1>7. FileInv'
  BY DEF CoreInv, DriverTyped, MainTypes, DiskTypes, TimerTypes, PlaceInv, TimerInv, FileInv, MemInv,
         Place, Ahead, Failing, Labels, Blocked, Quiet, Untorn, Abort, At, GoOn, Exit
<1>8. MemInv'
  BY DEF CoreInv, DriverTyped, MainTypes, DiskTypes, TimerTypes, Manifests, PlaceInv, TimerInv,
         FileInv, MemInv, Fixture, Place, Ahead, Failing, Labels, Abort, At, GoOn, Exit
<1>9. ProcessInv'
  BY DEF CoreInv, DriverTyped, MainTypes, DiskTypes, TimerTypes, PlaceInv, ProcessInv, Abort, At,
         GoOn, Exit
<1>10. QED
  BY <1>4, <1>5, <1>6, <1>7, <1>8, <1>9 DEF CoreInv

LEMMA AbortDoneKeeps == ASSUME CoreInv, AbortDone PROVE CoreInv'
<1>1. MainTypes'
  BY DEF CoreInv, DriverTyped, MainTypes, PlaceInv, Manifests, AbortDone, At, Save
<1>2. DiskTypes'
  BY DEF CoreInv, DriverTyped, MainTypes, DiskTypes, TimerTypes, Manifests, AbortDone, At, Save
<1>3. TimerTypes'
  BY DEF CoreInv, DriverTyped, DiskTypes, TimerTypes, Blocked, Labels, AbortDone, At, Save
<1>4. DriverTyped'
  BY <1>1, <1>2, <1>3, MishapTyped DEF CoreInv, DriverTyped, AbortDone, At, Save
<1>5. PlaceInv'
  BY DEF CoreInv, DriverTyped, MainTypes, DiskTypes, TimerTypes, PlaceInv, Place, Ahead, Failing,
         AbortDone, At, Save
<1>6. TimerInv'
  BY DEF CoreInv, DriverTyped, MainTypes, DiskTypes, TimerTypes, PlaceInv, TimerInv, Place, Ahead,
         Failing, Labels, Blocked, AbortDone, At, Save
<1>7. FileInv'
  BY DEF CoreInv, DriverTyped, MainTypes, DiskTypes, TimerTypes, PlaceInv, TimerInv, FileInv, MemInv,
         Place, Ahead, Failing, Labels, Blocked, Quiet, Untorn, AbortDone, At, Save
<1>8. MemInv'
  BY DEF CoreInv, DriverTyped, MainTypes, DiskTypes, TimerTypes, Manifests, PlaceInv, TimerInv,
         FileInv, MemInv, Fixture, Place, Ahead, Failing, Labels, AbortDone, At, Save
<1>9. ProcessInv'
  BY DEF CoreInv, DriverTyped, MainTypes, DiskTypes, TimerTypes, PlaceInv, ProcessInv, AbortDone, At,
         Save
<1>10. QED
  BY <1>4, <1>5, <1>6, <1>7, <1>8, <1>9 DEF CoreInv

LEMMA JudgeStepKeeps == ASSUME CoreInv, Judge PROVE CoreInv'
<1>1. MainTypes'
  BY DEF CoreInv, DriverTyped, MainTypes, PlaceInv, Manifests, Judge, At, GoOn, Save, Raise,
         AfterJudge, RecordsJudgement, Fixture
<1>2. DiskTypes'
  BY DEF CoreInv, DriverTyped, MainTypes, DiskTypes, TimerTypes, Manifests, Judge, At, GoOn, Save,
         Raise, AfterJudge, RecordsJudgement, Fixture
<1>3. TimerTypes'
  BY DEF CoreInv, DriverTyped, DiskTypes, TimerTypes, Blocked, Labels, Judge, At, GoOn, Save, Raise,
         AfterJudge, RecordsJudgement, Fixture
<1>4. DriverTyped'
  BY <1>1, <1>2, <1>3, MishapTyped DEF CoreInv, DriverTyped, Judge, At, GoOn, Save, Raise, AfterJudge,
         RecordsJudgement, Fixture
<1>5. PlaceInv'
  BY DEF CoreInv, DriverTyped, MainTypes, DiskTypes, TimerTypes, PlaceInv, Place, Ahead, Failing,
         Judge, At, GoOn, Save, Raise, AfterJudge, RecordsJudgement, Fixture
<1>6. TimerInv'
  BY DEF CoreInv, DriverTyped, MainTypes, DiskTypes, TimerTypes, PlaceInv, TimerInv, Place, Ahead,
         Failing, Labels, Blocked, Judge, At, GoOn, Save, Raise, AfterJudge, RecordsJudgement,
         Fixture
<1>7. FileInv'
  BY DEF CoreInv, DriverTyped, MainTypes, DiskTypes, TimerTypes, PlaceInv, TimerInv, FileInv, MemInv,
         Place, Ahead, Failing, Labels, Blocked, Quiet, Untorn, Judge, At, GoOn, Save, Raise,
         AfterJudge, RecordsJudgement, Fixture
<1>8. MemInv'
  BY DEF CoreInv, DriverTyped, MainTypes, DiskTypes, TimerTypes, Manifests, PlaceInv, TimerInv,
         FileInv, MemInv, Fixture, Place, Ahead, Failing, Labels, Judge, At, GoOn, Save, Raise,
         AfterJudge, RecordsJudgement
<1>9. ProcessInv'
  BY DEF CoreInv, DriverTyped, MainTypes, DiskTypes, TimerTypes, PlaceInv, ProcessInv, Judge, At,
         GoOn, Save, Raise, AfterJudge, RecordsJudgement, Fixture
<1>10. QED
  BY <1>4, <1>5, <1>6, <1>7, <1>8, <1>9 DEF CoreInv

LEMMA EnterCleanupKeeps == ASSUME CoreInv, EnterCleanup PROVE CoreInv'
<1>1. MainTypes'
  BY DEF CoreInv, DriverTyped, MainTypes, PlaceInv, Manifests, EnterCleanup, At, GoOn, Enter
<1>2. DiskTypes'
  BY DEF CoreInv, DriverTyped, MainTypes, DiskTypes, TimerTypes, Manifests, EnterCleanup, At, GoOn,
         Enter
<1>3. TimerTypes'
  BY DEF CoreInv, DriverTyped, DiskTypes, TimerTypes, Blocked, Labels, EnterCleanup, At, GoOn, Enter
<1>4. DriverTyped'
  BY <1>1, <1>2, <1>3, MishapTyped DEF CoreInv, DriverTyped, EnterCleanup, At, GoOn, Enter
<1>5. PlaceInv'
  BY DEF CoreInv, DriverTyped, MainTypes, DiskTypes, TimerTypes, PlaceInv, Place, Ahead, Failing,
         EnterCleanup, At, GoOn, Enter
<1>6. TimerInv'
  BY DEF CoreInv, DriverTyped, MainTypes, DiskTypes, TimerTypes, PlaceInv, TimerInv, Place, Ahead,
         Failing, Labels, Blocked, EnterCleanup, At, GoOn, Enter
<1>7. FileInv'
  BY DEF CoreInv, DriverTyped, MainTypes, DiskTypes, TimerTypes, PlaceInv, TimerInv, FileInv, MemInv,
         Place, Ahead, Failing, Labels, Blocked, Quiet, Untorn, EnterCleanup, At, GoOn, Enter
<1>8. MemInv'
  BY DEF CoreInv, DriverTyped, MainTypes, DiskTypes, TimerTypes, Manifests, PlaceInv, TimerInv,
         FileInv, MemInv, Fixture, Place, Ahead, Failing, Labels, EnterCleanup, At, GoOn, Enter
<1>9. ProcessInv'
  BY DEF CoreInv, DriverTyped, MainTypes, DiskTypes, TimerTypes, PlaceInv, ProcessInv, EnterCleanup,
         At, GoOn, Enter
<1>10. QED
  BY <1>4, <1>5, <1>6, <1>7, <1>8, <1>9 DEF CoreInv

LEMMA CleanupKeeps == ASSUME CoreInv, Cleanup PROVE CoreInv'
<1>1. MainTypes'
  BY DEF CoreInv, DriverTyped, MainTypes, PlaceInv, Manifests, Cleanup, At, GoOn, Exit
<1>2. DiskTypes'
  BY DEF CoreInv, DriverTyped, MainTypes, DiskTypes, TimerTypes, Manifests, Cleanup, At, GoOn, Exit
<1>3. TimerTypes'
  BY DEF CoreInv, DriverTyped, DiskTypes, TimerTypes, Blocked, Labels, Cleanup, At, GoOn, Exit
<1>4. DriverTyped'
  BY <1>1, <1>2, <1>3, MishapTyped DEF CoreInv, DriverTyped, Cleanup, At, GoOn, Exit
<1>5. PlaceInv'
  BY DEF CoreInv, DriverTyped, MainTypes, DiskTypes, TimerTypes, PlaceInv, Place, Ahead, Failing,
         Cleanup, At, GoOn, Exit
<1>6. TimerInv'
  BY DEF CoreInv, DriverTyped, MainTypes, DiskTypes, TimerTypes, PlaceInv, TimerInv, Place, Ahead,
         Failing, Labels, Blocked, Cleanup, At, GoOn, Exit
<1>7. FileInv'
  BY DEF CoreInv, DriverTyped, MainTypes, DiskTypes, TimerTypes, PlaceInv, TimerInv, FileInv, MemInv,
         Place, Ahead, Failing, Labels, Blocked, Quiet, Untorn, Cleanup, At, GoOn, Exit
<1>8. MemInv'
  BY DEF CoreInv, DriverTyped, MainTypes, DiskTypes, TimerTypes, Manifests, PlaceInv, TimerInv,
         FileInv, MemInv, Fixture, Place, Ahead, Failing, Labels, Cleanup, At, GoOn, Exit
<1>9. ProcessInv'
  BY DEF CoreInv, DriverTyped, MainTypes, DiskTypes, TimerTypes, PlaceInv, ProcessInv, Cleanup, At,
         GoOn, Exit
<1>10. QED
  BY <1>4, <1>5, <1>6, <1>7, <1>8, <1>9 DEF CoreInv

LEMMA FinishKeeps == ASSUME CoreInv, Finish PROVE CoreInv'
<1>1. MainTypes'
  BY DEF CoreInv, DriverTyped, MainTypes, PlaceInv, Manifests, Finish, At, Save, Raise, GoOn
<1>2. DiskTypes'
  BY DEF CoreInv, DriverTyped, MainTypes, DiskTypes, TimerTypes, Manifests, Finish, At, Save, Raise,
         GoOn
<1>3. TimerTypes'
  BY DEF CoreInv, DriverTyped, DiskTypes, TimerTypes, Blocked, Labels, Finish, At, Save, Raise, GoOn
<1>4. DriverTyped'
  BY <1>1, <1>2, <1>3, MishapTyped DEF CoreInv, DriverTyped, Finish, At, Save, Raise, GoOn
<1>5. PlaceInv'
  BY DEF CoreInv, DriverTyped, MainTypes, DiskTypes, TimerTypes, PlaceInv, Place, Ahead, Failing,
         Finish, At, Save, Raise, GoOn
<1>6. TimerInv'
  BY DEF CoreInv, DriverTyped, MainTypes, DiskTypes, TimerTypes, PlaceInv, TimerInv, Place, Ahead,
         Failing, Labels, Blocked, Finish, At, Save, Raise, GoOn
<1>7. FileInv'
  BY DEF CoreInv, DriverTyped, MainTypes, DiskTypes, TimerTypes, PlaceInv, TimerInv, FileInv, MemInv,
         Place, Ahead, Failing, Labels, Blocked, Quiet, Untorn, Finish, At, Save, Raise, GoOn
<1>8. MemInv'
  BY DEF CoreInv, DriverTyped, MainTypes, DiskTypes, TimerTypes, Manifests, PlaceInv, TimerInv,
         FileInv, MemInv, Fixture, Place, Ahead, Failing, Labels, Finish, At, Save, Raise, GoOn
<1>9. ProcessInv'
  BY DEF CoreInv, DriverTyped, MainTypes, DiskTypes, TimerTypes, PlaceInv, ProcessInv, Finish, At,
         Save, Raise, GoOn
<1>10. QED
  BY <1>4, <1>5, <1>6, <1>7, <1>8, <1>9 DEF CoreInv

LEMMA UnwindKeeps == ASSUME CoreInv, Unwind PROVE CoreInv'
<1>1. MainTypes'
  BY DEF CoreInv, DriverTyped, MainTypes, PlaceInv, Manifests, Unwind, At, GoOn, Save
<1>2. DiskTypes'
  BY DEF CoreInv, DriverTyped, MainTypes, DiskTypes, TimerTypes, Manifests, Unwind, At, GoOn, Save
<1>3. TimerTypes'
  BY DEF CoreInv, DriverTyped, DiskTypes, TimerTypes, Blocked, Labels, Unwind, At, GoOn, Save
<1>4. DriverTyped'
  BY <1>1, <1>2, <1>3, MishapTyped DEF CoreInv, DriverTyped, Unwind, At, GoOn, Save
<1>5. PlaceInv'
  BY DEF CoreInv, DriverTyped, MainTypes, DiskTypes, TimerTypes, PlaceInv, Place, Ahead, Failing,
         Unwind, At, GoOn, Save
<1>6. TimerInv'
  BY DEF CoreInv, DriverTyped, MainTypes, DiskTypes, TimerTypes, PlaceInv, TimerInv, Place, Ahead,
         Failing, Labels, Blocked, Unwind, At, GoOn, Save
<1>7. FileInv'
  BY DEF CoreInv, DriverTyped, MainTypes, DiskTypes, TimerTypes, PlaceInv, TimerInv, FileInv, MemInv,
         Place, Ahead, Failing, Labels, Blocked, Quiet, Untorn, Unwind, At, GoOn, Save
<1>8. MemInv'
  BY DEF CoreInv, DriverTyped, MainTypes, DiskTypes, TimerTypes, Manifests, PlaceInv, TimerInv,
         FileInv, MemInv, Fixture, Place, Ahead, Failing, Labels, Unwind, At, GoOn, Save
<1>9. ProcessInv'
  BY DEF CoreInv, DriverTyped, MainTypes, DiskTypes, TimerTypes, PlaceInv, ProcessInv, Unwind, At,
         GoOn, Save
<1>10. QED
  BY <1>4, <1>5, <1>6, <1>7, <1>8, <1>9 DEF CoreInv

LEMMA ExceptKeeps == ASSUME CoreInv, Except PROVE CoreInv'
<1>1. MainTypes'
  BY DEF CoreInv, DriverTyped, MainTypes, PlaceInv, Manifests, Except, At, GoOn, OverBudget
<1>2. DiskTypes'
  BY DEF CoreInv, DriverTyped, MainTypes, DiskTypes, TimerTypes, Manifests, Except, At, GoOn,
         OverBudget
<1>3. TimerTypes'
  BY DEF CoreInv, DriverTyped, DiskTypes, TimerTypes, Blocked, Labels, Except, At, GoOn, OverBudget
<1>4. DriverTyped'
  BY <1>1, <1>2, <1>3, MishapTyped DEF CoreInv, DriverTyped, Except, At, GoOn, OverBudget
<1>5. PlaceInv'
  BY DEF CoreInv, DriverTyped, MainTypes, DiskTypes, TimerTypes, PlaceInv, Place, Ahead, Failing,
         Except, At, GoOn, OverBudget
<1>6. TimerInv'
  BY DEF CoreInv, DriverTyped, MainTypes, DiskTypes, TimerTypes, PlaceInv, TimerInv, Place, Ahead,
         Failing, Labels, Blocked, Except, At, GoOn, OverBudget
<1>7. FileInv'
  BY DEF CoreInv, DriverTyped, MainTypes, DiskTypes, TimerTypes, PlaceInv, TimerInv, FileInv, MemInv,
         Place, Ahead, Failing, Labels, Blocked, Quiet, Untorn, Except, At, GoOn, OverBudget
<1>8. MemInv'
  BY DEF CoreInv, DriverTyped, MainTypes, DiskTypes, TimerTypes, Manifests, PlaceInv, TimerInv,
         FileInv, MemInv, Fixture, Place, Ahead, Failing, Labels, Except, At, GoOn, OverBudget
<1>9. ProcessInv'
  BY DEF CoreInv, DriverTyped, MainTypes, DiskTypes, TimerTypes, PlaceInv, ProcessInv, Except, At,
         GoOn, OverBudget
<1>10. QED
  BY <1>4, <1>5, <1>6, <1>7, <1>8, <1>9 DEF CoreInv

LEMMA FinallyKeeps == ASSUME CoreInv, Finally PROVE CoreInv'
<1>1. MainTypes'
  <2>1. PICK drift \in BOOLEAN : code' = DriftCode(drift) /\ mem' = Ended(drift)
    BY DEF Finally
  <2>2. mem \in Manifests /\ code \in {0, 1, 3}
    BY DEF CoreInv, DriverTyped, MainTypes
  <2>3. DriftCode(drift) \in {0, 1, 3}
    BY <2>2 DEF DriftCode
  <2>4. Ended(drift) \in Manifests
    <3>1. DriftCode(drift) \in 0..3 /\ (mem.failures \/ drift) \in BOOLEAN
      BY <2>3
    <3>2. QED
      BY <2>2, <3>1 DEF Ended, Manifests
  <2>5. QED
    BY <2>1, <2>3, <2>4 DEF CoreInv, DriverTyped, MainTypes, Finally, Save
<1>2. DiskTypes'
  BY DEF CoreInv, DriverTyped, MainTypes, DiskTypes, TimerTypes, Manifests, Finally, At, Save,
         DriftCode, Ended
<1>3. TimerTypes'
  BY DEF CoreInv, DriverTyped, DiskTypes, TimerTypes, Blocked, Labels, Finally, At, Save, DriftCode,
         Ended
<1>4. DriverTyped'
  BY <1>1, <1>2, <1>3, MishapTyped DEF CoreInv, DriverTyped, Finally, At, Save, DriftCode, Ended
<1>5. PlaceInv'
  BY DEF CoreInv, DriverTyped, MainTypes, DiskTypes, TimerTypes, PlaceInv, Place, Ahead, Failing,
         Finally, At, Save, DriftCode, Ended
<1>6. TimerInv'
  BY DEF CoreInv, DriverTyped, MainTypes, DiskTypes, TimerTypes, PlaceInv, TimerInv, Place, Ahead,
         Failing, Labels, Blocked, Finally, At, Save, DriftCode, Ended
<1>7. FileInv'
  BY DEF CoreInv, DriverTyped, MainTypes, DiskTypes, TimerTypes, PlaceInv, TimerInv, FileInv, MemInv,
         Place, Ahead, Failing, Labels, Blocked, Quiet, Untorn, Finally, At, Save, DriftCode,
         Ended
<1>8. MemInv'
  BY DEF CoreInv, DriverTyped, MainTypes, DiskTypes, TimerTypes, Manifests, PlaceInv, TimerInv,
         FileInv, MemInv, Fixture, Place, Ahead, Failing, Labels, Finally, At, Save, DriftCode,
         Ended
<1>9. ProcessInv'
  BY DEF CoreInv, DriverTyped, MainTypes, DiskTypes, TimerTypes, PlaceInv, ProcessInv, Finally, At,
         Save, DriftCode, Ended
<1>10. QED
  BY <1>4, <1>5, <1>6, <1>7, <1>8, <1>9 DEF CoreInv

LEMMA LeaveKeeps == ASSUME CoreInv, Leave PROVE CoreInv'
<1>1. MainTypes'
  BY DEF CoreInv, DriverTyped, MainTypes, PlaceInv, Manifests, Leave, At
<1>2. DiskTypes'
  BY DEF CoreInv, DriverTyped, MainTypes, DiskTypes, TimerTypes, Manifests, Leave, At
<1>3. TimerTypes'
  BY DEF CoreInv, DriverTyped, DiskTypes, TimerTypes, Blocked, Labels, Leave, At
<1>4. DriverTyped'
  BY <1>1, <1>2, <1>3, MishapTyped DEF CoreInv, DriverTyped, Leave, At
<1>5. PlaceInv'
  BY DEF CoreInv, DriverTyped, MainTypes, DiskTypes, TimerTypes, PlaceInv, Place, Ahead, Failing,
         Leave, At
<1>6. TimerInv'
  BY DEF CoreInv, DriverTyped, MainTypes, DiskTypes, TimerTypes, PlaceInv, TimerInv, Place, Ahead,
         Failing, Labels, Blocked, Leave, At
<1>7. FileInv'
  BY DEF CoreInv, DriverTyped, MainTypes, DiskTypes, TimerTypes, PlaceInv, TimerInv, FileInv, MemInv,
         Place, Ahead, Failing, Labels, Blocked, Quiet, Untorn, Leave, At
<1>8. MemInv'
  BY DEF CoreInv, DriverTyped, MainTypes, DiskTypes, TimerTypes, Manifests, PlaceInv, TimerInv,
         FileInv, MemInv, Fixture, Place, Ahead, Failing, Labels, Leave, At
<1>9. ProcessInv'
  BY DEF CoreInv, DriverTyped, MainTypes, DiskTypes, TimerTypes, PlaceInv, ProcessInv, Leave, At
<1>10. QED
  BY <1>4, <1>5, <1>6, <1>7, <1>8, <1>9 DEF CoreInv

LEMMA WriteKeeps == ASSUME CoreInv, Write PROVE CoreInv'
<1>1. MainTypes'
  BY DEF CoreInv, DriverTyped, MainTypes, PlaceInv, Manifests, Write, At
<1>2. DiskTypes'
  BY DEF CoreInv, DriverTyped, MainTypes, DiskTypes, TimerTypes, Manifests, Write, At
<1>3. TimerTypes'
  BY DEF CoreInv, DriverTyped, DiskTypes, TimerTypes, Blocked, Labels, Write, At
<1>4. DriverTyped'
  BY <1>1, <1>2, <1>3, MishapTyped DEF CoreInv, DriverTyped, Write, At
<1>5. PlaceInv'
  BY DEF CoreInv, DriverTyped, MainTypes, DiskTypes, TimerTypes, PlaceInv, Place, Ahead, Failing,
         Write, At
<1>6. TimerInv'
  BY DEF CoreInv, DriverTyped, MainTypes, DiskTypes, TimerTypes, PlaceInv, TimerInv, Place, Ahead,
         Failing, Labels, Blocked, Write, At
<1>7. FileInv'
  BY DEF CoreInv, DriverTyped, MainTypes, DiskTypes, TimerTypes, PlaceInv, TimerInv, FileInv, MemInv,
         Place, Ahead, Failing, Labels, Blocked, Quiet, Untorn, Write, At
<1>8. MemInv'
  BY DEF CoreInv, DriverTyped, MainTypes, DiskTypes, TimerTypes, Manifests, PlaceInv, TimerInv,
         FileInv, MemInv, Fixture, Place, Ahead, Failing, Labels, Write, At
<1>9. ProcessInv'
  BY DEF CoreInv, DriverTyped, MainTypes, DiskTypes, TimerTypes, PlaceInv, ProcessInv, Write, At
<1>10. QED
  BY <1>4, <1>5, <1>6, <1>7, <1>8, <1>9 DEF CoreInv

LEMMA WriteFailsKeeps == ASSUME CoreInv, WriteFails PROVE CoreInv'
<1>1. MainTypes'
  BY DEF CoreInv, DriverTyped, MainTypes, PlaceInv, Manifests, WriteFails, At, GoOn
<1>2. DiskTypes'
  BY DEF CoreInv, DriverTyped, MainTypes, DiskTypes, TimerTypes, Manifests, WriteFails, At, GoOn
<1>3. TimerTypes'
  BY DEF CoreInv, DriverTyped, DiskTypes, TimerTypes, Blocked, Labels, WriteFails, At, GoOn
<1>4. DriverTyped'
  BY <1>1, <1>2, <1>3, MishapTyped DEF CoreInv, DriverTyped, WriteFails, At, GoOn
<1>5. PlaceInv'
  BY DEF CoreInv, DriverTyped, MainTypes, DiskTypes, TimerTypes, PlaceInv, Place, Ahead, Failing,
         WriteFails, At, GoOn
<1>6. TimerInv'
  BY DEF CoreInv, DriverTyped, MainTypes, DiskTypes, TimerTypes, PlaceInv, TimerInv, Place, Ahead,
         Failing, Labels, Blocked, WriteFails, At, GoOn
<1>7. FileInv'
  BY DEF CoreInv, DriverTyped, MainTypes, DiskTypes, TimerTypes, PlaceInv, TimerInv, FileInv, MemInv,
         Place, Ahead, Failing, Labels, Blocked, Quiet, Untorn, WriteFails, At, GoOn
<1>8. MemInv'
  BY DEF CoreInv, DriverTyped, MainTypes, DiskTypes, TimerTypes, Manifests, PlaceInv, TimerInv,
         FileInv, MemInv, Fixture, Place, Ahead, Failing, Labels, WriteFails, At, GoOn
<1>9. ProcessInv'
  BY DEF CoreInv, DriverTyped, MainTypes, DiskTypes, TimerTypes, PlaceInv, ProcessInv, WriteFails,
         At, GoOn
<1>10. QED
  BY <1>4, <1>5, <1>6, <1>7, <1>8, <1>9 DEF CoreInv

-----------------------------------------------------------------------------
(* A watchdog, step by step.                                               *)

LEMMA ExpireKeeps == ASSUME CoreInv, NEW l \in Labels, Expire(l) PROVE CoreInv'
<1>1. MainTypes'
  BY DEF CoreInv, DriverTyped, MainTypes, PlaceInv, Manifests, Expire
<1>2. DiskTypes'
  BY DEF CoreInv, DriverTyped, MainTypes, DiskTypes, TimerTypes, Manifests, Expire
<1>3. TimerTypes'
  BY DEF CoreInv, DriverTyped, DiskTypes, TimerTypes, Blocked, Labels, Expire
<1>4. DriverTyped'
  BY <1>1, <1>2, <1>3, MishapTyped DEF CoreInv, DriverTyped, Expire
<1>5. PlaceInv'
  BY DEF CoreInv, DriverTyped, MainTypes, DiskTypes, TimerTypes, PlaceInv, Place, Ahead, Failing,
         Expire
<1>6. TimerInv'
  BY DEF CoreInv, DriverTyped, MainTypes, DiskTypes, TimerTypes, PlaceInv, TimerInv, Place, Ahead,
         Failing, Labels, Blocked, Expire
<1>7. FileInv'
  BY DEF CoreInv, DriverTyped, MainTypes, DiskTypes, TimerTypes, PlaceInv, TimerInv, FileInv, MemInv,
         Place, Ahead, Failing, Labels, Blocked, Quiet, Untorn, Expire
<1>8. MemInv'
  BY DEF CoreInv, DriverTyped, MainTypes, DiskTypes, TimerTypes, Manifests, PlaceInv, TimerInv,
         FileInv, MemInv, Fixture, Place, Ahead, Failing, Labels, Expire
<1>9. ProcessInv'
  BY DEF CoreInv, DriverTyped, MainTypes, DiskTypes, TimerTypes, PlaceInv, ProcessInv, Expire
<1>10. QED
  BY <1>4, <1>5, <1>6, <1>7, <1>8, <1>9 DEF CoreInv

LEMMA FireKeeps == ASSUME CoreInv, NEW l \in Labels, Fire(l) PROVE CoreInv'
<1>1. MainTypes'
  BY DEF CoreInv, DriverTyped, MainTypes, PlaceInv, Manifests, Fire, Thread
<1>2. DiskTypes'
  BY DEF CoreInv, DriverTyped, MainTypes, DiskTypes, TimerTypes, Manifests, Fire, Thread
<1>3. TimerTypes'
  BY DEF CoreInv, DriverTyped, DiskTypes, TimerTypes, Blocked, Labels, Fire, Thread
<1>4. DriverTyped'
  BY <1>1, <1>2, <1>3, MishapTyped DEF CoreInv, DriverTyped, Fire, Thread
<1>5. PlaceInv'
  BY DEF CoreInv, DriverTyped, MainTypes, DiskTypes, TimerTypes, PlaceInv, Place, Ahead, Failing, Fire,
         Thread
<1>6. TimerInv'
  BY DEF CoreInv, DriverTyped, MainTypes, DiskTypes, TimerTypes, PlaceInv, TimerInv, Place, Ahead,
         Failing, Labels, Blocked, Fire, Thread
<1>7. FileInv'
  BY DEF CoreInv, DriverTyped, MainTypes, DiskTypes, TimerTypes, PlaceInv, TimerInv, FileInv, MemInv,
         Place, Ahead, Failing, Labels, Blocked, Quiet, Untorn, Fire, Thread
<1>8. MemInv'
  BY DEF CoreInv, DriverTyped, MainTypes, DiskTypes, TimerTypes, Manifests, PlaceInv, TimerInv,
         FileInv, MemInv, Fixture, Place, Ahead, Failing, Labels, Fire, Thread
<1>9. ProcessInv'
  BY DEF CoreInv, DriverTyped, MainTypes, DiskTypes, TimerTypes, PlaceInv, ProcessInv, Fire, Thread
<1>10. QED
  BY <1>4, <1>5, <1>6, <1>7, <1>8, <1>9 DEF CoreInv

LEMMA WriteEvidenceKeeps == ASSUME CoreInv, NEW l \in Labels, WriteEvidence(l) PROVE CoreInv'
<1>1. MainTypes'
  BY DEF CoreInv, DriverTyped, MainTypes, PlaceInv, Manifests, WriteEvidence, Thread
<1>2. DiskTypes'
  BY DEF CoreInv, DriverTyped, MainTypes, DiskTypes, TimerTypes, Manifests, WriteEvidence, Thread
<1>3. TimerTypes'
  BY DEF CoreInv, DriverTyped, DiskTypes, TimerTypes, Blocked, Labels, WriteEvidence, Thread
<1>4. DriverTyped'
  BY <1>1, <1>2, <1>3, MishapTyped DEF CoreInv, DriverTyped, WriteEvidence, Thread
<1>5. PlaceInv'
  BY DEF CoreInv, DriverTyped, MainTypes, DiskTypes, TimerTypes, PlaceInv, Place, Ahead, Failing,
         WriteEvidence, Thread
<1>6. TimerInv'
  BY DEF CoreInv, DriverTyped, MainTypes, DiskTypes, TimerTypes, PlaceInv, TimerInv, Place, Ahead,
         Failing, Labels, Blocked, WriteEvidence, Thread
<1>7. FileInv'
  BY DEF CoreInv, DriverTyped, MainTypes, DiskTypes, TimerTypes, PlaceInv, TimerInv, FileInv, MemInv,
         Place, Ahead, Failing, Labels, Blocked, Quiet, Untorn, WriteEvidence, Thread
<1>8. MemInv'
  BY DEF CoreInv, DriverTyped, MainTypes, DiskTypes, TimerTypes, Manifests, PlaceInv, TimerInv,
         FileInv, MemInv, Fixture, Place, Ahead, Failing, Labels, WriteEvidence, Thread
<1>9. ProcessInv'
  BY DEF CoreInv, DriverTyped, MainTypes, DiskTypes, TimerTypes, PlaceInv, ProcessInv, WriteEvidence,
         Thread
<1>10. QED
  BY <1>4, <1>5, <1>6, <1>7, <1>8, <1>9 DEF CoreInv

LEMMA ReadManifestKeeps == ASSUME CoreInv, NEW l \in Labels, ReadManifest(l) PROVE CoreInv'
<1>1. MainTypes'
  BY DEF CoreInv, DriverTyped, MainTypes, PlaceInv, Manifests, ReadManifest, Thread, Completes, HasPath
<1>2. DiskTypes'
  BY DEF CoreInv, DriverTyped, MainTypes, DiskTypes, TimerTypes, Manifests, ReadManifest, Thread,
         Completes, HasPath
<1>3. TimerTypes'
  BY DEF CoreInv, DriverTyped, DiskTypes, TimerTypes, Blocked, Labels, ReadManifest, Thread, Completes,
         HasPath
<1>4. DriverTyped'
  BY <1>1, <1>2, <1>3, MishapTyped DEF CoreInv, DriverTyped, ReadManifest, Thread, Completes, HasPath
<1>5. PlaceInv'
  BY DEF CoreInv, DriverTyped, MainTypes, DiskTypes, TimerTypes, PlaceInv, Place, Ahead, Failing,
         ReadManifest, Thread, Completes, HasPath
<1>6. TimerInv'
  BY DEF CoreInv, DriverTyped, MainTypes, DiskTypes, TimerTypes, PlaceInv, TimerInv, Place, Ahead,
         Failing, Labels, Blocked, ReadManifest, Thread, Completes, HasPath
<1>7. FileInv'
  BY DEF CoreInv, DriverTyped, MainTypes, DiskTypes, TimerTypes, PlaceInv, TimerInv, FileInv, MemInv,
         Place, Ahead, Failing, Labels, Blocked, Quiet, Untorn, ReadManifest, Thread, Completes,
         HasPath
<1>8. MemInv'
  BY DEF CoreInv, DriverTyped, MainTypes, DiskTypes, TimerTypes, Manifests, PlaceInv, TimerInv,
         FileInv, MemInv, Fixture, Place, Ahead, Failing, Labels, ReadManifest, Thread, Completes,
         HasPath
<1>9. ProcessInv'
  BY DEF CoreInv, DriverTyped, MainTypes, DiskTypes, TimerTypes, PlaceInv, ProcessInv, ReadManifest,
         Thread, Completes, HasPath
<1>10. QED
  BY <1>4, <1>5, <1>6, <1>7, <1>8, <1>9 DEF CoreInv

LEMMA TruncateKeeps == ASSUME CoreInv, NEW l \in Labels, Truncate(l) PROVE CoreInv'
<1>1. MainTypes'
  BY DEF CoreInv, DriverTyped, MainTypes, PlaceInv, Manifests, Truncate, Thread
<1>2. DiskTypes'
  BY DEF CoreInv, DriverTyped, MainTypes, DiskTypes, TimerTypes, Manifests, Truncate, Thread
<1>3. TimerTypes'
  BY DEF CoreInv, DriverTyped, DiskTypes, TimerTypes, Blocked, Labels, Truncate, Thread
<1>4. DriverTyped'
  BY <1>1, <1>2, <1>3, MishapTyped DEF CoreInv, DriverTyped, Truncate, Thread
<1>5. PlaceInv'
  BY DEF CoreInv, DriverTyped, MainTypes, DiskTypes, TimerTypes, PlaceInv, Place, Ahead, Failing,
         Truncate, Thread
<1>6. TimerInv'
  BY DEF CoreInv, DriverTyped, MainTypes, DiskTypes, TimerTypes, PlaceInv, TimerInv, Place, Ahead,
         Failing, Labels, Blocked, Truncate, Thread
<1>7. FileInv'
  BY DEF CoreInv, DriverTyped, MainTypes, DiskTypes, TimerTypes, PlaceInv, TimerInv, FileInv, MemInv,
         Place, Ahead, Failing, Labels, Blocked, Quiet, Untorn, Truncate, Thread
<1>8. MemInv'
  BY DEF CoreInv, DriverTyped, MainTypes, DiskTypes, TimerTypes, Manifests, PlaceInv, TimerInv,
         FileInv, MemInv, Fixture, Place, Ahead, Failing, Labels, Truncate, Thread
<1>9. ProcessInv'
  BY DEF CoreInv, DriverTyped, MainTypes, DiskTypes, TimerTypes, PlaceInv, ProcessInv, Truncate, Thread
<1>10. QED
  BY <1>4, <1>5, <1>6, <1>7, <1>8, <1>9 DEF CoreInv

LEMMA CompleteKeeps == ASSUME CoreInv, NEW l \in Labels, Complete(l) PROVE CoreInv'
<1>1. MainTypes'
  BY DEF CoreInv, DriverTyped, MainTypes, PlaceInv, Manifests, Complete, Thread
<1>2. DiskTypes'
  <2>1. seen[l] \in Manifests
    BY DEF CoreInv, DriverTyped, TimerTypes
  <2>2. [seen[l] EXCEPT !.ended = TRUE, !.code = 3, !.notes = TRUE] \in Manifests
    <3>1. TRUE \in BOOLEAN /\ 3 \in 0..3
      OBVIOUS
    <3>2. QED
      BY <2>1, <3>1, CompletedTyped
  <2>3. QED
    BY <2>2 DEF CoreInv, DriverTyped, DiskTypes, Complete, Thread
<1>3. TimerTypes'
  BY DEF CoreInv, DriverTyped, DiskTypes, TimerTypes, Blocked, Labels, Complete, Thread
<1>4. DriverTyped'
  BY <1>1, <1>2, <1>3, MishapTyped DEF CoreInv, DriverTyped, Complete, Thread
<1>5. PlaceInv'
  BY DEF CoreInv, DriverTyped, MainTypes, DiskTypes, TimerTypes, PlaceInv, Place, Ahead, Failing,
         Complete, Thread
<1>6. TimerInv'
  BY DEF CoreInv, DriverTyped, MainTypes, DiskTypes, TimerTypes, PlaceInv, TimerInv, Place, Ahead,
         Failing, Labels, Blocked, Complete, Thread
<1>7. FileInv'
  <2>1. /\ timer[l] = "complete" /\ timer' = [timer EXCEPT ![l] = "exit"] /\ l # "cleanup"
        /\ l \in evidence /\ evidence' = evidence
        /\ UNCHANGED <<mainVars, seen>>
        /\ l \in lost' \/ (fileState' = "whole" /\ file'.ended /\ file'.code = 3)
    <3>1. seen[l] \in Manifests
      BY DEF CoreInv, DriverTyped, TimerTypes
    <3>2. QED
      BY <3>1 DEF CoreInv, TimerInv, Complete, Thread, Manifests
  <2>2. ~Untorn' /\ ~Quiet(Labels \ {"cleanup"})'
    BY <2>1 DEF CoreInv, DriverTyped, TimerTypes, Untorn, Quiet
  <2>3. \A k \in Labels : k # l => ~Quiet(Labels \ {k})'
    BY <2>1 DEF CoreInv, DriverTyped, TimerTypes, Quiet
  <2>4. QED
    BY <2>1, <2>2, <2>3 DEF FileInv
<1>8. MemInv'
  BY DEF CoreInv, DriverTyped, MainTypes, DiskTypes, TimerTypes, Manifests, PlaceInv, TimerInv,
         FileInv, MemInv, Fixture, Place, Ahead, Failing, Labels, Complete, Thread
<1>9. ProcessInv'
  BY DEF CoreInv, DriverTyped, MainTypes, DiskTypes, TimerTypes, PlaceInv, ProcessInv, Complete, Thread
<1>10. QED
  BY <1>4, <1>5, <1>6, <1>7, <1>8, <1>9 DEF CoreInv

LEMMA KillKeeps == ASSUME CoreInv, NEW l \in Labels, Kill(l) PROVE CoreInv'
<1>1. MainTypes'
  BY DEF CoreInv, DriverTyped, MainTypes, PlaceInv, Manifests, Kill, Thread
<1>2. DiskTypes'
  BY DEF CoreInv, DriverTyped, MainTypes, DiskTypes, TimerTypes, Manifests, Kill, Thread
<1>3. TimerTypes'
  BY DEF CoreInv, DriverTyped, DiskTypes, TimerTypes, Blocked, Labels, Kill, Thread
<1>4. DriverTyped'
  BY <1>1, <1>2, <1>3, MishapTyped DEF CoreInv, DriverTyped, Kill, Thread
<1>5. PlaceInv'
  BY DEF CoreInv, DriverTyped, MainTypes, DiskTypes, TimerTypes, PlaceInv, Place, Ahead, Failing, Kill,
         Thread
<1>6. TimerInv'
  BY DEF CoreInv, DriverTyped, MainTypes, DiskTypes, TimerTypes, PlaceInv, TimerInv, Place, Ahead,
         Failing, Labels, Blocked, Kill, Thread
<1>7. FileInv'
  BY DEF CoreInv, DriverTyped, MainTypes, DiskTypes, TimerTypes, PlaceInv, TimerInv, FileInv, MemInv,
         Place, Ahead, Failing, Labels, Blocked, Quiet, Untorn, Kill, Thread
<1>8. MemInv'
  BY DEF CoreInv, DriverTyped, MainTypes, DiskTypes, TimerTypes, Manifests, PlaceInv, TimerInv,
         FileInv, MemInv, Fixture, Place, Ahead, Failing, Labels, Kill, Thread
<1>9. ProcessInv'
  BY DEF CoreInv, DriverTyped, MainTypes, DiskTypes, TimerTypes, PlaceInv, ProcessInv, Kill, Thread
<1>10. QED
  BY <1>4, <1>5, <1>6, <1>7, <1>8, <1>9 DEF CoreInv

-----------------------------------------------------------------------------
(* The theorems.                                                           *)

LEMMA DriverInitHolds == DriverInit => CoreInv
<1> SUFFICES ASSUME DriverInit PROVE CoreInv
  OBVIOUS
<1>1. Begun \in Manifests
  BY DEF Begun, Manifests
<1>2. cleanupCheck \in BOOLEAN
  BY CalibDriverAssumption DEF DriverInit
<1>3. DriverTyped
  <2>1. MainTypes /\ DiskTypes
    BY <1>1 DEF DriverInit, MainTypes, DiskTypes
  <2>2. TimerTypes
    BY <1>1 DEF DriverInit, TimerTypes
  <2>3. QED
    BY <1>2, <2>1, <2>2, CalibDriverAssumption DEF DriverInit, DriverTyped
<1>4. PlaceInv /\ TimerInv /\ FileInv /\ MemInv /\ ProcessInv
  BY DEF DriverInit, PlaceInv, TimerInv, FileInv, MemInv, ProcessInv, Place, Ahead, Failing, Labels
<1>5. QED
  BY <1>3, <1>4 DEF CoreInv

LEMMA DriverStutterKeeps == ASSUME CoreInv, UNCHANGED driverVars PROVE CoreInv'
<1>1. DriverTyped'
  <2>1. MainTypes' /\ DiskTypes'
    BY DEF CoreInv, DriverTyped, MainTypes, DiskTypes, driverVars
  <2>2. TimerTypes'
    BY DEF CoreInv, DriverTyped, TimerTypes, Blocked, driverVars
  <2>3. QED
    BY <2>1, <2>2 DEF CoreInv, DriverTyped, driverVars
<1>2. (PlaceInv /\ TimerInv /\ ProcessInv)'
  BY DEF CoreInv, PlaceInv, TimerInv, ProcessInv, Place, driverVars
<1>3. FileInv'
  BY DEF CoreInv, FileInv, Untorn, Quiet, Blocked, driverVars
<1>4. MemInv'
  BY DEF CoreInv, MemInv, Fixture, Place, driverVars
<1>5. QED
  BY <1>1, <1>2, <1>3, <1>4 DEF CoreInv

LEMMA DriverStepKeeps == CoreInv /\ [DriverNext]_driverVars => CoreInv'
<1> SUFFICES ASSUME CoreInv, [DriverNext]_driverVars PROVE CoreInv'
  OBVIOUS
<1>1. CASE MainStep
  BY <1>1, BeginKeeps, DeployKeeps, LoadKeeps, StartupCheckKeeps, PrepareKeeps, EnterRequestKeeps,
     RequestCheckKeeps, HandlerKeeps, AbortDoneKeeps, JudgeStepKeeps, EnterCleanupKeeps, FinishKeeps,
     UnwindKeeps, ExceptKeeps, FinallyKeeps, LeaveKeeps, WriteKeeps, WriteFailsKeeps DEF MainStep
<1>2. CASE EngineCall
  BY <1>2, StartupKeeps, RequestKeeps, AbortKeeps, CleanupKeeps DEF EngineCall
<1>3. ASSUME NEW l \in Labels, Expire(l) \/ Watchdog(l) PROVE CoreInv'
  BY <1>3, ExpireKeeps, FireKeeps, WriteEvidenceKeeps, ReadManifestKeeps, TruncateKeeps,
     CompleteKeeps, KillKeeps DEF Watchdog
<1>4. CASE UNCHANGED driverVars
  BY <1>4, DriverStutterKeeps
<1>5. QED
  BY <1>1, <1>2, <1>3, <1>4 DEF DriverNext

LEMMA CoreInvariant == DriverSpec => []CoreInv
  BY DriverInitHolds, DriverStepKeeps, PTL DEF DriverSpec

\* Every variable of a process keeps its type, and a watchdog is armed only
\* while main is in the call it watches.
THEOREM DriverTypeCorrect == DriverSpec => []DriverTyped
<1>1. CoreInv => DriverTyped
  BY DEF CoreInv
<1>2. QED
  BY <1>1, CoreInvariant, PTL

\* Success is never claimed for a run that was over budget, failed a check or
\* raised, and a returned process says in its manifest what it returned.
THEOREM DriverInvariant == DriverSpec => []DriverInv
<1>1. CoreInv => ReturnIsRecorded
  <2> SUFFICES ASSUME CoreInv, status = "returned", Quiet(Labels)
               PROVE  /\ fileState = "whole" /\ file.ended /\ file.code = code
                      /\ code = 0 => ~file.failures
                      /\ code = 1 => file.failures
                      /\ code = 3 => file.notes
    BY DEF ReturnIsRecorded
  <2>1. mainPc = "exit" /\ err # "escaped"
    BY DEF CoreInv, ProcessInv
  <2>2. fileState = "whole" /\ file = mem
    BY <2>1 DEF CoreInv, FileInv, Quiet
  <2>3. QED
    BY <2>1, <2>2 DEF CoreInv, MemInv, Place
<1>2. CoreInv => GreenIsClean
  <2> SUFFICES ASSUME CoreInv, status = "returned", code = 0
               PROVE  /\ ~expired["startup"] /\ ~expired["request"]
                      /\ ~failed /\ err = "none" /\ ~file.failures
    BY DEF GreenIsClean
  <2>1. mainPc = "exit" /\ err # "escaped" /\ Place = "exit"
    BY DEF CoreInv, ProcessInv, Place
  <2>2. err = "none" /\ ~failed /\ ~mem.failures
    BY <2>1 DEF CoreInv, MemInv
  <2>3. ~expired["startup"] /\ ~expired["request"] /\ ~expired["failure-cleanup"]
    BY <2>1, <2>2 DEF CoreInv, TimerInv
  <2>4. Quiet(Labels \ {"cleanup"})
    BY <2>3 DEF CoreInv, DriverTyped, TimerTypes, Quiet, Labels
  <2>5. QED
    BY <2>1, <2>2, <2>3, <2>4 DEF CoreInv, FileInv
<1>3. QED
  BY <1>1, <1>2, CoreInvariant, PTL DEF DriverInv

\* A watchdog of the startup, of the request or of the failure clean-up that ends
\* the process while main is still in the call it watches leaves its evidence file
\* and a manifest that is whole, ended and has code 3, if its own two writes
\* succeeded and no other watchdog had fired.  The clean-up check's
\* watchdog is not meant: it has no manifest to complete (Watchdog._fire).
THEOREM TimeoutsAreRecorded == DriverSpec => []TimeoutIsRecorded
<1>1. CoreInv => TimeoutIsRecorded
  BY DEF CoreInv, ProcessInv, FileInv, TimeoutIsRecorded, RecordedBy, Labels
<1>2. QED
  BY <1>1, CoreInvariant, PTL

\* If main returns, with an exception that was not a budget's and did not escape it,
\* error.txt is written, the exit code is 1 and the manifest in memory has a
\* failure.  Of a process that a watchdog has ended nothing is said (main, _run).
THEOREM ErrorsLand == DriverSpec => []ErrorLands
<1>1. CoreInv => ErrorLands
  BY DEF CoreInv, ProcessInv, MemInv, ErrorLands, Place
<1>2. QED
  BY <1>1, CoreInvariant, PTL

\* In the fixture arms, which save it early, the judgement of the request is on
\* disk, whole, when the watchdog of the clean-up check ends the process in that
\* check; the other arms save no judgement before it.
THEOREM JudgementIsOnDisk == DriverSpec => []JudgedBeforeCleanup
<1>1. CoreInv => JudgedBeforeCleanup
  <2> SUFFICES ASSUME CoreInv, Fixture, mainPc = "cleanup"
               PROVE  fileState = "whole" /\ file.failures = failed
    BY DEF JudgedBeforeCleanup, Blocked
  <2>1. err = "none" /\ Place = "cleanup"
    BY DEF CoreInv, PlaceInv, Place, Ahead
  <2>2. ~expired["startup"] /\ ~expired["request"] /\ ~expired["failure-cleanup"]
    BY <2>1 DEF CoreInv, TimerInv
  <2>3. Untorn
    BY <2>2 DEF CoreInv, DriverTyped, TimerTypes, Untorn, Labels
  <2>4. QED
    BY <2>1, <2>3 DEF CoreInv, FileInv, MemInv, Ahead
<1>2. QED
  BY <1>1, CoreInvariant, PTL

-----------------------------------------------------------------------------
(* The segmenter: the blank lines of a span, found by a scan.              *)

\* The newlines that end a match from i, and the scan from i, if g is the scan
\* from later places.
Match(e, i) ==
    {j \in (i + 1)..(e - 1) : Char(j) = "newline" /\ \A k \in (i + 1)..(j - 1) : Char(k) = "space"}
Scan(e, i, g) ==
    IF i = e THEN {}
    ELSE IF Char(i) = "newline" /\ Match(e, i) # {}
         THEN {Max(Match(e, i)) + 1} \cup g[Max(Match(e, i)) + 1]
         ELSE g[i + 1]

\* g is the scan of the places from s to e.
Scans(s, e, g) == g = [i \in s..e |-> Scan(e, i, g)]

\* A match ends at its last newline, inside the span.
LEMMA MatchEnd ==
  ASSUME NEW e \in Nat, NEW i \in Nat, i <= e, Match(e, i) # {}
  PROVE  /\ Max(Match(e, i)) \in Match(e, i) /\ Max(Match(e, i)) \in Nat
         /\ i < Max(Match(e, i)) /\ Max(Match(e, i)) + 1 \in (i + 1)..e
         /\ \A j \in Match(e, i) : j <= Max(Match(e, i))
<1> DEFINE M == Match(e, i)
<1>1. M \subseteq (i + 1)..(e - 1)
  BY DEF Match
<1>2. M \subseteq Nat /\ \A x \in M : x <= e
  BY <1>1
<1>3. M # {}
  OBVIOUS
<1> HIDE DEF M
<1>4. Max(M) \in M /\ \A x \in M : x <= Max(M)
  BY <1>2, <1>3, GreatestNumber
<1>5. Max(M) \in (i + 1)..(e - 1)
  BY <1>1, <1>4
<1>6. QED
  BY <1>4, <1>5 DEF M

\* The scan reads only later places, so it is there.
LEMMA ScanExists ==
  ASSUME NEW s \in Nat, NEW e \in Nat, s <= e
  PROVE  \E g : Scans(s, e, g)
<1> DEFINE Bad == {k \in s..e : ~\E g : Scans(k, e, g)}
<1>1. SUFFICES ASSUME Bad # {} PROVE FALSE
  OBVIOUS
<1>2. PICK k \in Bad : \A x \in Bad : x <= k
  <2>1. Bad \subseteq Nat /\ \A x \in Bad : x <= e
    OBVIOUS
  <2> HIDE DEF Bad
  <2>2. QED
    BY <1>1, <2>1, GreatestNumber
<1>3. k \in s..e /\ k \in Nat
  OBVIOUS
<1>4. k # e
  <2> DEFINE h == [i \in e..e |-> {}]
  <2>1. \A i \in e..e : Scan(e, i, h) = {}
    BY DEF Scan
  <2>2. h = [i \in e..e |-> Scan(e, i, h)]
    <3> HIDE DEF h
    <3>1. h = [i \in e..e |-> {}]
      BY DEF h
    <3>2. QED
      BY <2>1, <3>1
  <2>3. \E g : Scans(e, e, g)
    BY <2>2 DEF Scans
  <2>4. QED
    BY <2>3
<1>5. k + 1 \in s..e /\ k < e
  BY <1>3, <1>4
<1>6. PICK g : Scans(k + 1, e, g)
  <2>1. k + 1 \notin Bad
    BY <1>2, <1>3
  <2>2. QED
    BY <1>5, <2>1
<1> DEFINE h == [i \in k..e |-> IF i = k THEN Scan(e, k, g) ELSE g[i]]
<1>7. ASSUME NEW i \in k..e
      PROVE  Scan(e, i, h) = Scan(e, i, g)
  <2>1. i \in Nat /\ i <= e
    BY <1>3
  <2>2. CASE i = e
    BY <2>2 DEF Scan
  <2>3. CASE i # e
    <3>1. i + 1 \in k..e /\ i + 1 # k
      BY <1>3, <2>1, <2>3
    <3>2. h[i + 1] = g[i + 1]
      BY <3>1
    <3>3. ASSUME Match(e, i) # {}
          PROVE  h[Max(Match(e, i)) + 1] = g[Max(Match(e, i)) + 1]
      <4>1. Max(Match(e, i)) + 1 \in (i + 1)..e
        BY <2>1, <3>3, MatchEnd
      <4>2. Max(Match(e, i)) + 1 \in k..e /\ Max(Match(e, i)) + 1 # k
        BY <1>3, <2>1, <4>1
      <4>3. QED
        BY <4>2
    <3> HIDE DEF h
    <3>4. QED
      BY <3>2, <3>3 DEF Scan
  <2>4. QED
    BY <2>2, <2>3
<1>8. ASSUME NEW i \in k..e
      PROVE  h[i] = Scan(e, i, g)
  <2>1. CASE i = k
    BY <2>1
  <2>2. CASE i # k
    <3>1. i \in (k + 1)..e
      BY <1>3, <2>2
    <3>2. g[i] = Scan(e, i, g)
      <4>1. g = [x \in (k + 1)..e |-> Scan(e, x, g)]
        BY <1>6 DEF Scans
      <4>2. QED
        BY <3>1, <4>1
    <3>3. QED
      BY <2>2, <3>2
  <2>3. QED
    BY <2>1, <2>2
<1>9. h = [i \in k..e |-> h[i]]
  OBVIOUS
<1> HIDE DEF h
<1>10. Scans(k, e, h)
  BY <1>7, <1>8, <1>9 DEF Scans
<1>11. QED
  BY <1>10

\* The blank lines of a span, as its scan from the start finds them.
LEMMA LineEndsAre ==
  ASSUME NEW s \in Nat, NEW e \in Nat, s <= e
  PROVE  \E g : Scans(s, e, g) /\ LineEnds(s, e) = g[s]
<1> DEFINE g == CHOOSE f : Scans(s, e, f)
<1>1. LineEnds(s, e) = (CHOOSE f : f = [i \in s..e |-> Scan(e, i, f)])[s]
  BY DEF LineEnds, Scan, Match
<1>2. LineEnds(s, e) = g[s]
  BY <1>1 DEF Scans
<1>3. Scans(s, e, g)
  BY ScanExists
<1>4. QED
  BY <1>2, <1>3

\* Between the newlines i and k - 1 there are only spaces.
BlankLine(i, k) ==
    /\ Char(i) = "newline" /\ Char(k - 1) = "newline"
    /\ i < k - 1 /\ \A j \in (i + 1)..(k - 2) : Char(j) = "space"

\* What the scan finds ends a blank line,
LEMMA ScanSound ==
  ASSUME NEW s \in Nat, NEW e \in Nat, s <= e, NEW g, Scans(s, e, g)
  PROVE  \A x \in g[s] : x \in Nat /\ x <= e /\ \E i \in s..e : BlankLine(i, x)
<1> DEFINE Ok(k) == \A x \in g[k] : x \in Nat /\ x <= e /\ \E i \in k..e : BlankLine(i, x)
           Bad == {k \in s..e : ~Ok(k)}
<1>1. SUFFICES ASSUME Bad # {} PROVE FALSE
  <2>1. s \in s..e
    OBVIOUS
  <2>2. QED
    BY <2>1
<1>2. PICK k \in Bad : \A x \in Bad : x <= k
  <2>1. Bad \subseteq Nat /\ \A x \in Bad : x <= e
    OBVIOUS
  <2> HIDE DEF Bad
  <2>2. QED
    BY <1>1, <2>1, GreatestNumber
<1>3. k \in s..e /\ k \in Nat /\ k <= e /\ ~Ok(k)
  OBVIOUS
<1>4. g[k] = Scan(e, k, g)
  <2>1. g = [i \in s..e |-> Scan(e, i, g)]
    BY DEF Scans
  <2>2. QED
    BY <1>3, <2>1
<1>5. ASSUME NEW m \in (k + 1)..e
      PROVE  \A x \in g[m] : x \in Nat /\ x <= e /\ \E i \in k..e : BlankLine(i, x)
  <2>1. m \in s..e /\ ~(m <= k)
    BY <1>3
  <2>2. Ok(m)
    BY <1>2, <2>1
  <2>3. \A i \in m..e : i \in k..e
    BY <1>3
  <2>4. QED
    BY <2>2, <2>3
<1>6. ASSUME NEW x \in g[k]
      PROVE  x \in Nat /\ x <= e /\ \E i \in k..e : BlankLine(i, x)
  <2>1. k # e
    BY <1>4, <1>6 DEF Scan
  <2>2. k + 1 \in (k + 1)..e
    BY <1>3, <2>1
  <2>3. CASE Char(k) = "newline" /\ Match(e, k) # {}
    <3> DEFINE m == Max(Match(e, k))
    <3>1. m \in Match(e, k) /\ m \in Nat /\ k < m /\ m + 1 \in (k + 1)..e
      BY <1>3, <2>3, MatchEnd
    <3>2. x = m + 1 \/ x \in g[m + 1]
      BY <1>4, <1>6, <2>1, <2>3 DEF Scan
    <3> HIDE DEF m
    <3>3. CASE x = m + 1
      <4>1. (m + 1) - 1 = m /\ (m + 1) - 2 = m - 1 /\ m + 1 \in Nat /\ m + 1 <= e
        BY <1>3, <3>1
      <4>2. Char(m) = "newline" /\ \A j \in (k + 1)..(m - 1) : Char(j) = "space"
        BY <3>1 DEF Match
      <4>3. BlankLine(k, m + 1)
        BY <2>3, <3>1, <4>1, <4>2 DEF BlankLine
      <4>4. QED
        BY <1>3, <3>3, <4>1, <4>3
    <3>4. CASE x \in g[m + 1]
      BY <1>5, <3>1, <3>4
    <3>5. QED
      BY <3>2, <3>3, <3>4
  <2>4. CASE ~(Char(k) = "newline" /\ Match(e, k) # {})
    <3>1. x \in g[k + 1]
      BY <1>4, <1>6, <2>1, <2>4 DEF Scan
    <3>2. QED
      BY <1>5, <2>2, <3>1
  <2>5. QED
    BY <2>3, <2>4
<1>7. QED
  BY <1>3, <1>6

\* and if a blank line ends, one ends that the scan finds.
LEMMA ScanFinds ==
  ASSUME NEW s \in Nat, NEW e \in Nat, NEW g, Scans(s, e, g),
         NEW n \in s..e, NEW k \in Nat, k <= e, BlankLine(n, k)
  PROVE  \E x \in g[s] : x \in Nat /\ s < x /\ x <= k
<1> DEFINE Ok(i) == \E x \in g[i] : x \in Nat /\ i < x /\ x <= k
           Bad == {i \in s..n : ~Ok(i)}
<1>1. SUFFICES ASSUME Bad # {} PROVE FALSE
  <2>1. s \in s..n
    OBVIOUS
  <2>2. QED
    BY <2>1
<1>2. PICK i \in Bad : \A x \in Bad : x <= i
  <2>1. Bad \subseteq Nat /\ \A x \in Bad : x <= e
    OBVIOUS
  <2> HIDE DEF Bad
  <2>2. QED
    BY <1>1, <2>1, GreatestNumber
<1>3. i \in s..n /\ i \in Nat /\ i <= n /\ n < k - 1 /\ n \in Nat /\ i <= e /\ i # e /\ ~Ok(i) /\ i \in s..e
  BY DEF BlankLine
<1>4. g[i] = IF Char(i) = "newline" /\ Match(e, i) # {}
             THEN {Max(Match(e, i)) + 1} \cup g[Max(Match(e, i)) + 1] ELSE g[i + 1]
  <2>1. g = [x \in s..e |-> Scan(e, x, g)]
    BY DEF Scans
  <2>2. g[i] = Scan(e, i, g)
    BY <1>3, <2>1
  <2>3. QED
    BY <1>3, <2>2 DEF Scan
<1>5. k - 1 \in (n + 1)..(e - 1)
  BY <1>3
<1>6. CASE Char(i) = "newline" /\ Match(e, i) # {}
  <2> DEFINE m == Max(Match(e, i))
  <2>1. m \in Match(e, i) /\ m \in Nat /\ i < m /\ m + 1 \in (i + 1)..e /\ \A j \in Match(e, i) : j <= m
    BY <1>3, <1>6, MatchEnd
  <2>2. m + 1 \in g[i]
    BY <1>4, <1>6
  <2> HIDE DEF m
  <2>3. \A j \in (i + 1)..(m - 1) : Char(j) = "space"
    BY <2>1 DEF Match
  <2>4. m <= k - 1
    <3>1. SUFFICES ASSUME k - 1 < m PROVE FALSE
      BY <1>3, <2>1
    <3>2. k - 1 \in (i + 1)..(m - 1)
      BY <1>3, <2>1, <3>1
    <3>3. Char(k - 1) = "space" /\ Char(k - 1) = "newline"
      BY <2>3, <3>2 DEF BlankLine
    <3>4. QED
      BY <3>3
  <2>5. m + 1 \in Nat /\ i < m + 1 /\ m + 1 <= k
    BY <1>3, <2>1, <2>4
  <2>6. QED
    BY <1>3, <2>2, <2>5
<1>7. CASE ~(Char(i) = "newline" /\ Match(e, i) # {})
  <2>1. i # n
    <3>1. SUFFICES ASSUME i = n PROVE FALSE
      OBVIOUS
    <3>2. Char(i) = "newline" /\ k - 1 \in Match(e, i)
      BY <1>3, <1>5, <3>1 DEF BlankLine, Match
    <3>3. QED
      BY <1>7, <3>2
  <2>2. i + 1 \in s..n /\ ~(i + 1 <= i)
    BY <1>3, <2>1
  <2>3. Ok(i + 1)
    BY <1>2, <2>2
  <2>4. g[i] = g[i + 1]
    BY <1>4, <1>7
  <2>5. PICK x \in g[i] : x \in Nat /\ i + 1 < x /\ x <= k
    BY <2>3, <2>4
  <2>7. i < x
    BY <1>3, <2>5
  <2>8. QED
    BY <1>3, <2>5, <2>7
<1>8. QED
  BY <1>6, <1>7

-----------------------------------------------------------------------------
(* Tokens and the characters they cover.                                   *)

\* A text, and tokens that cover it.
Context ==
    /\ text \in Seq(CharClasses)
    /\ starts \subseteq 0..(Size - 1) /\ (Size > 0 => 0 \in starts)

\* Its characters and tokens are finitely many.
LEMMA ContextFacts ==
  ASSUME Context
  PROVE  /\ Size \in Nat
         /\ \A i \in 0..(Size - 1) : Char(i) \in CharClasses
         /\ starts \subseteq Nat /\ IsFiniteSet(starts)
<1>1. Size \in Nat /\ DOMAIN text = 1..Size
  BY DEF Context, Size
<1>2. ASSUME NEW i \in 0..(Size - 1)
      PROVE  Char(i) \in CharClasses
  <2>1. i + 1 \in 1..Size
    BY <1>1
  <2>2. QED
    BY <1>1, <2>1 DEF Context, Char
<1>3. IsFiniteSet(0..(Size - 1))
  BY <1>1, FS_Interval
<1>4. starts \subseteq Nat /\ IsFiniteSet(starts)
  <2>1. starts \subseteq 0..(Size - 1)
    BY DEF Context
  <2>2. IsFiniteSet(starts)
    BY <1>3, <2>1, FS_Subset
  <2>3. \A i \in 0..(Size - 1) : i \in Nat
    BY <1>1
  <2>4. QED
    BY <2>1, <2>2, <2>3
<1>5. QED
  BY <1>1, <1>2, <1>4

\* A token ends where the next begins.
LEMMA TokenEnd ==
  ASSUME Context, NEW i \in starts
  PROVE  /\ EndOf(i) \in Nat /\ i \in Nat /\ i < EndOf(i) /\ EndOf(i) <= Size
         /\ \A j \in starts : i < j => EndOf(i) <= j
         /\ EndOf(i) = Size \/ EndOf(i) \in starts
<1> DEFINE L == {j \in starts : j > i}
<1>1. i \in Nat /\ i < Size /\ Size \in Nat /\ \A j \in starts : j \in Nat /\ j < Size
  <2>1. starts \subseteq 0..(Size - 1) /\ Size \in Nat
    BY ContextFacts DEF Context
  <2>2. QED
    BY <2>1
<1>2. CASE L = {}
  <2>1. EndOf(i) = Size
    BY <1>2 DEF EndOf
  <2>2. \A j \in starts : ~(i < j)
    BY <1>1, <1>2
  <2>3. QED
    BY <1>1, <2>1, <2>2
<1>3. CASE L # {}
  <2>1. EndOf(i) = Min(L)
    BY <1>3 DEF EndOf
  <2>2. L \subseteq Nat
    BY <1>1
  <2>3. Min(L) \in L /\ \A j \in L : Min(L) <= j
    <3> HIDE DEF L
    <3>1. \E m \in L : \A j \in L : m <= j
      BY <1>3, <2>2, LeastNumber
    <3>2. QED
      BY <3>1 DEF Min
  <2>4. Min(L) \in starts /\ Min(L) > i
    BY <2>3
  <2>5. \A j \in starts : i < j => Min(L) <= j
    <3>1. \A j \in starts : i < j => j \in L
      BY <1>1
    <3> HIDE DEF L
    <3>2. QED
      BY <2>3, <3>1
  <2> HIDE DEF L
  <2>6. EndOf(i) \in starts /\ EndOf(i) > i
    BY <2>1, <2>4
  <2>7. EndOf(i) \in Nat /\ EndOf(i) < Size
    BY <1>1, <2>6
  <2>8. \A j \in starts : i < j => EndOf(i) <= j
    BY <2>1, <2>5
  <2>9. i < EndOf(i) /\ EndOf(i) <= Size
    BY <1>1, <2>6, <2>7
  <2>10. QED
    BY <1>1, <2>6, <2>7, <2>8, <2>9
<1>4. QED
  BY <1>2, <1>3

\* A token lies over every character.
LEMMA TokenMeets ==
  ASSUME Context, NEW k \in 0..(Size - 1)
  PROVE  \E i \in starts : i <= k /\ k < EndOf(i)
<1> DEFINE L == {i \in starts : i <= k}
<1>1. Size \in Nat /\ k \in Nat /\ starts \subseteq Nat /\ 0 \in starts
  BY ContextFacts DEF Context
<1>2. L \subseteq Nat /\ 0 \in L /\ \A i \in L : i <= k
  <2>1. 0 <= k /\ 0 \in starts
    BY <1>1
  <2>2. L \subseteq Nat
    BY <1>1
  <2>3. QED
    BY <2>1, <2>2
<1>3. PICK i \in L : \A j \in L : j <= i
  <2> HIDE DEF L
  <2>1. QED
    BY <1>1, <1>2, GreatestNumber
<1>4. /\ i \in starts /\ i <= k /\ i \in Nat /\ EndOf(i) \in Nat
      /\ i < EndOf(i) /\ (EndOf(i) = Size \/ EndOf(i) \in starts)
  BY <1>3, TokenEnd
<1>5. k < EndOf(i)
  <2>1. CASE EndOf(i) = Size
    BY <1>1, <2>1
  <2>2. CASE EndOf(i) \in starts
    <3>1. EndOf(i) <= k => EndOf(i) \in L
      BY <2>2
    <3>2. QED
      BY <1>1, <1>3, <1>4, <3>1
  <2>3. QED
    BY <1>4, <2>1, <2>2
<1>6. QED
  BY <1>4, <1>5

\* Two searches count the tokens that share a character with a span, and there
\* is one.
LEMMA OverlapIsCovering ==
  ASSUME Context, NEW s \in Nat, NEW e \in Nat, s < e, e <= Size
  PROVE  /\ Overlap(s, e) = Cardinality(Covering(s, e))
         /\ Overlap(s, e) \in Nat \ {0}
<1> DEFINE B == {i \in starts : i < e}
           A == {i \in starts : EndOf(i) <= s}
           C == Covering(s, e)
<1>1. Size \in Nat /\ starts \subseteq Nat /\ IsFiniteSet(starts)
  BY ContextFacts
<1>2. IsFiniteSet(A) /\ IsFiniteSet(B) /\ IsFiniteSet(C)
  <2>1. A \subseteq starts /\ B \subseteq starts /\ C \subseteq starts
    BY DEF Covering
  <2> HIDE DEF A, B, C
  <2>2. QED
    BY <1>1, <2>1, FS_Subset
<1>3. B = A \cup C /\ A \cap C = {}
  <2>1. ASSUME NEW i \in starts
        PROVE  (i \in C <=> i < e /\ ~(EndOf(i) <= s)) /\ (EndOf(i) <= s => i < e)
    <3>1. i \in Nat /\ EndOf(i) \in Nat /\ i < EndOf(i)
      BY TokenEnd
    <3>2. ASSUME i < e, s < EndOf(i)
          PROVE  i \in C
      <4>1. CASE i <= s
        <5>1. s \in i..(EndOf(i) - 1) /\ s <= s /\ s < e
          BY <3>1, <3>2, <4>1
        <5>2. QED
          BY <5>1 DEF Covering
      <4>2. CASE s < i
        <5>1. i \in i..(EndOf(i) - 1) /\ s <= i /\ i < e
          BY <3>1, <3>2, <4>2
        <5>2. QED
          BY <5>1 DEF Covering
      <4>3. QED
        BY <3>1, <4>1, <4>2
    <3>3. ASSUME i \in C
          PROVE  i < e /\ s < EndOf(i)
      <4>1. PICK k \in i..(EndOf(i) - 1) : s <= k /\ k < e
        BY <3>3 DEF Covering
      <4>2. QED
        BY <3>1, <4>1
    <3>4. QED
      BY <3>1, <3>2, <3>3
  <2>2. C \subseteq starts
    BY DEF Covering
  <2> HIDE DEF C
  <2>3. QED
    BY <2>1, <2>2
<1>4. C # {}
  <2>1. s \in 0..(Size - 1)
    BY <1>1
  <2>2. PICK i \in starts : i <= s /\ s < EndOf(i)
    BY <2>1, TokenMeets
  <2>3. i \in Nat /\ EndOf(i) \in Nat
    BY <2>2, TokenEnd
  <2>4. s \in i..(EndOf(i) - 1)
    BY <2>2, <2>3
  <2>5. i \in C
    BY <2>4 DEF Covering
  <2>6. QED
    BY <2>5
<1>5. Overlap(s, e) = Greater(0, Cardinality(B) - Cardinality(A))
  BY DEF Overlap
<1> HIDE DEF A, B, C
<1>6. /\ Cardinality(A) \in Nat /\ Cardinality(C) \in Nat /\ Cardinality(C) # 0
  <2>1. Cardinality(A) \in Nat /\ Cardinality(C) \in Nat
    BY <1>2, FS_CardinalityType
  <2>2. Cardinality(C) # 0
    BY <1>2, <1>4, FS_EmptySet
  <2>3. QED
    BY <2>1, <2>2
<1>7. Cardinality(B) = Cardinality(A) + Cardinality(C)
  <2>1. Cardinality(A \cup C) = Cardinality(A) + Cardinality(C) - Cardinality(A \cap C)
    BY <1>2, FS_Union
  <2>2. Cardinality(A \cap C) = 0
    BY <1>3, FS_EmptySet
  <2> DEFINE a == Cardinality(A)
             c == Cardinality(C)
             z == Cardinality(A \cap C)
  <2>3. Cardinality(B) = a + (c - z) /\ a \in Nat /\ c \in Nat /\ z = 0
    BY <1>3, <1>6, <2>1, <2>2
  <2> HIDE DEF a, c, z
  <2>4. Cardinality(B) = a + c
    BY <2>3
  <2>5. QED
    BY <2>4 DEF a, c
<1>8. Overlap(s, e) = Cardinality(C)
  BY <1>5, <1>6, <1>7 DEF Greater
<1>9. QED
  BY <1>6, <1>8 DEF C

\* A span of the text that is not empty.
Proper(s, e) == s \in Nat /\ e \in Nat /\ s < e /\ e <= Size

\* Every match inside a span is a usable cut.
LEMMA UsableIs ==
  ASSUME Context, NEW s, NEW e, Proper(s, e), NEW level \in Levels
  PROVE  /\ Matches(level, s, e) \subseteq Nat \X {0, 1}
         /\ Usable(level, s, e) = {c \in Matches(level, s, e) : s < c[1] /\ c[1] < e}
<1>1. s \in Nat /\ e \in Nat /\ Size \in Nat /\ s < e /\ e <= Size
  BY ContextFacts DEF Proper
<1>2. LineEnds(s, e) \subseteq Nat
  <2>1. PICK g : Scans(s, e, g) /\ LineEnds(s, e) = g[s]
    BY <1>1, LineEndsAre
  <2>2. \A x \in g[s] : x \in Nat
    BY <1>1, <2>1, ScanSound
  <2>3. QED
    BY <2>1, <2>2
<1>3. \A mark : MarkEnds(mark, s, e) \subseteq Nat
  BY <1>1 DEF MarkEnds
<1>4. BlankEnds(s, e) \subseteq Nat /\ BlankStarts(s, e) \subseteq Nat
  BY <1>1 DEF BlankEnds, BlankStarts
<1>5. {i + 1 : i \in {j \in s..(e - 1) : Char(j) = "newline"}} \subseteq Nat
  BY <1>1
<1>6. Matches(level, s, e) \subseteq Nat \X {0, 1}
  <2>1. CASE level = 1
    BY <1>2, <2>1 DEF Matches
  <2>2. CASE level = 2
    BY <1>5, <2>2 DEF Matches
  <2>3. CASE level = 3
    BY <1>3, <2>3 DEF Matches
  <2>4. CASE level = 4
    BY <1>3, <2>4 DEF Matches
  <2>5. CASE level = 5
    BY <1>4, <2>5 DEF Matches
  <2>6. QED
    BY <2>1, <2>2, <2>3, <2>4, <2>5 DEF Levels
<1>7. ASSUME NEW c \in Matches(level, s, e), s < c[1], c[1] < e
      PROVE  Overlap(s, c[1]) > 0 /\ Overlap(c[1], e) > 0
  <2>1. c[1] \in Nat /\ c[1] <= Size
    BY <1>1, <1>6, <1>7
  <2>2. Overlap(s, c[1]) \in Nat \ {0} /\ Overlap(c[1], e) \in Nat \ {0}
    BY <1>1, <1>7, <2>1, OverlapIsCovering
  <2>3. QED
    BY <2>2
<1>8. QED
  BY <1>6, <1>7 DEF Usable

-----------------------------------------------------------------------------
(* The choice of a cut.                                                    *)

\* Of some cuts with their distances, one is the best.
LEMMA BestThere ==
  ASSUME NEW P, P \subseteq Nat \X {0, 1}, P # {}, NEW D, \A c \in P : D[c] \in Nat
  PROVE  \E c \in P : \A d \in P \ {c} :
            \/ D[c] < D[d]
            \/ D[c] = D[d] /\ c[2] < d[2]
            \/ D[c] = D[d] /\ c[2] = d[2] /\ c[1] < d[1]
<1>1. PICK m \in {D[c] : c \in P} : \A x \in {D[c] : c \in P} : m <= x
  <2>1. {D[c] : c \in P} \subseteq Nat /\ {D[c] : c \in P} # {}
    OBVIOUS
  <2>2. QED
    BY <2>1, LeastNumber
<1> DEFINE P1 == {c \in P : D[c] = m}
<1>2. PICK k \in {c[2] : c \in P1} : \A x \in {c[2] : c \in P1} : k <= x
  <2>1. {c[2] : c \in P1} \subseteq Nat /\ {c[2] : c \in P1} # {}
    BY <1>1
  <2> HIDE DEF P1
  <2>2. QED
    BY <2>1, LeastNumber
<1> DEFINE P2 == {c \in P1 : c[2] = k}
<1>3. PICK n \in {c[1] : c \in P2} : \A x \in {c[1] : c \in P2} : n <= x
  <2>1. {c[1] : c \in P2} \subseteq Nat /\ {c[1] : c \in P2} # {}
    BY <1>2
  <2> HIDE DEF P2
  <2>2. QED
    BY <2>1, LeastNumber
<1>4. PICK c \in P2 : n = c[1]
  BY <1>3
<1>5. c \in P /\ D[c] = m /\ c[2] = k /\ c[1] = n
  BY <1>4
<1>6. ASSUME NEW d \in P \ {c}
      PROVE  \/ D[c] < D[d]
             \/ D[c] = D[d] /\ c[2] < d[2]
             \/ D[c] = D[d] /\ c[2] = d[2] /\ c[1] < d[1]
  <2>1. D[d] \in Nat /\ m <= D[d] /\ m \in Nat
    BY <1>1, <1>5
  <2>2. d[1] \in Nat /\ d[2] \in {0, 1} /\ c[1] \in Nat /\ c[2] \in {0, 1}
    BY <1>5
  <2>3. D[d] = m => k <= d[2]
    BY <1>2
  <2>4. D[d] = m /\ d[2] = k => n <= d[1]
    BY <1>3
  <2>5. c[1] # d[1] \/ c[2] # d[2]
    <3>1. c = <<c[1], c[2]>> /\ d = <<d[1], d[2]>>
      BY <1>5
    <3>2. QED
      BY <3>1
  <2>6. QED
    BY <1>5, <2>1, <2>2, <2>3, <2>4, <2>5
<1>7. QED
  BY <1>5, <1>6

\* The coarsest level that has a usable cut.
LEMMA LowestLevel ==
  ASSUME NEW s, NEW e, UsableLevels(s, e) # {}
  PROVE  /\ Min(UsableLevels(s, e)) \in Levels
         /\ Usable(Min(UsableLevels(s, e)), s, e) # {}
         /\ \A l \in Levels : Usable(l, s, e) # {} => Min(UsableLevels(s, e)) <= l
<1> DEFINE U == UsableLevels(s, e)
<1>1. \A l : l \in U <=> l \in Levels /\ Usable(l, s, e) # {}
  BY DEF UsableLevels
<1>2. U \subseteq Nat
  BY <1>1 DEF Levels
<1> HIDE DEF U
<1>3. \E m \in U : \A x \in U : m <= x
  BY <1>2, LeastNumber DEF U
<1>4. Min(U) \in U /\ \A x \in U : Min(U) <= x
  BY <1>3 DEF Min
<1>5. QED
  BY <1>1, <1>4 DEF U

\* The cut that is taken is usable, at the lowest level that has one.
LEMMA BestCutIs ==
  ASSUME Context, NEW s, NEW e, Proper(s, e), UsableLevels(s, e) # {}
  PROVE  \E c \in Usable(Min(UsableLevels(s, e)), s, e) : c[1] = BestCut(s, e)
<1> DEFINE usable == Usable(Min(UsableLevels(s, e)), s, e)
           left   == {c \in usable : Overlap(s, c[1]) <= CapTokens}
           right  == {c \in usable : Overlap(c[1], e) <= CapTokens}
           pool   == IF left # {} THEN left ELSE IF right # {} THEN right ELSE usable
           size(c) == IF left = {} /\ right # {} THEN Overlap(c[1], e) ELSE Overlap(s, c[1])
           D == [c \in pool |-> Distance(size(c))]
           score(c) == <<Distance(size(c)), c[2], c[1]>>
           lower(x, y) == \E i \in 1..3 : x[i] < y[i] /\ \A j \in 1..(i - 1) : x[j] = y[j]
           Best(c) == \A d \in pool \ {c} : lower(score(c), score(d))
<1>1. BestCut(s, e) = (CHOOSE c \in pool : Best(c))[1]
  BY DEF BestCut
<1>2. /\ usable # {} /\ usable \subseteq Nat \X {0, 1}
      /\ \A c \in usable : s < c[1] /\ c[1] < e
  BY LowestLevel, UsableIs
<1>3. pool \subseteq usable /\ pool # {}
  BY <1>2
<1>4. \A c \in pool : size(c) \in Nat
  <2>1. ASSUME NEW c \in pool
        PROVE  Overlap(c[1], e) \in Nat /\ Overlap(s, c[1]) \in Nat
    <3>1. c[1] \in Nat /\ s < c[1] /\ c[1] < e /\ s \in Nat /\ e \in Nat /\ e <= Size /\ Size \in Nat
      BY <1>2, <1>3, ContextFacts DEF Proper
    <3>2. c[1] <= Size
      BY <3>1
    <3>3. QED
      BY <3>1, <3>2, OverlapIsCovering
  <2> HIDE DEF pool, left, right
  <2>2. QED
    BY <2>1
<1> HIDE DEF usable, left, right, pool, size
<1>5. \A c \in pool : D[c] \in Nat
  <2>1. TargetTokens \in Nat
    BY SegmenterAssumption
  <2>2. ASSUME NEW n \in Nat
        PROVE  Distance(n) \in Nat
    BY <2>1 DEF Distance
  <2>3. QED
    BY <1>4, <2>2
<1>6. \E c \in pool : Best(c)
  <2>1. pool \subseteq Nat \X {0, 1}
    BY <1>2, <1>3
  <2>2. PICK c \in pool : \A d \in pool \ {c} :
            \/ D[c] < D[d]
            \/ D[c] = D[d] /\ c[2] < d[2]
            \/ D[c] = D[d] /\ c[2] = d[2] /\ c[1] < d[1]
    <3> HIDE DEF D
    <3>1. QED
      BY <1>3, <1>5, <2>1, BestThere
  <2>3. ASSUME NEW d \in pool \ {c}
        PROVE  lower(score(c), score(d))
    <3>1. score(c)[1] = D[c] /\ score(c)[2] = c[2] /\ score(c)[3] = c[1]
      OBVIOUS
    <3>2. score(d)[1] = D[d] /\ score(d)[2] = d[2] /\ score(d)[3] = d[1]
      OBVIOUS
    <3> HIDE DEF score, D
    <3>3. CASE D[c] < D[d]
      <4>1. 1..(1 - 1) = {} /\ 1 \in 1..3
        OBVIOUS
      <4>2. QED
        BY <3>1, <3>2, <3>3, <4>1
    <3>4. CASE D[c] = D[d] /\ c[2] < d[2]
      <4>1. 1..(2 - 1) = {1} /\ 2 \in 1..3
        OBVIOUS
      <4>2. QED
        BY <3>1, <3>2, <3>4, <4>1
    <3>5. CASE D[c] = D[d] /\ c[2] = d[2] /\ c[1] < d[1]
      <4>1. 1..(3 - 1) = {1, 2} /\ 3 \in 1..3
        OBVIOUS
      <4>2. QED
        BY <3>1, <3>2, <3>5, <4>1
    <3>6. QED
      BY <2>2, <3>3, <3>4, <3>5
  <2>4. QED
    BY <2>3
<1> HIDE DEF Best
<1>7. (CHOOSE c \in pool : Best(c)) \in pool
  BY <1>6
<1>8. QED
  BY <1>1, <1>3, <1>7 DEF usable

\* The first level finds a blank line if one ends inside.
LEMMA BlankLines ==
  ASSUME Context, NEW s, NEW e, Proper(s, e)
  PROVE  /\ \A x \in LineEnds(s, e) : s < x => EndsParagraph(x, s)
         /\ \A k \in (s + 1)..(e - 1) : EndsParagraph(k, s) =>
               \E x \in LineEnds(s, e) : s < x /\ x < e
<1>1. s \in Nat /\ e \in Nat /\ Size \in Nat /\ s < e /\ e <= Size /\ s <= e
  BY ContextFacts DEF Proper
<1>2. PICK g : Scans(s, e, g) /\ LineEnds(s, e) = g[s]
  BY <1>1, LineEndsAre
<1>3. ASSUME NEW x \in LineEnds(s, e)
      PROVE  EndsParagraph(x, s)
  <2>1. PICK i \in s..e : x \in Nat /\ x <= e /\ BlankLine(i, x)
    BY <1>1, <1>2, ScanSound
  <2>2. /\ Char(i) = "newline" /\ Char(x - 1) = "newline"
        /\ i < x - 1 /\ \A j \in (i + 1)..(x - 2) : Char(j) = "space"
    BY <2>1 DEF BlankLine
  <2>3. i \in s..(x - 2)
    BY <1>1, <2>1, <2>2
  <2>4. \A j \in (i + 1)..(x - 2) : Blank(j)
    BY <2>2 DEF Blank
  <2>5. QED
    BY <2>2, <2>3, <2>4 DEF EndsParagraph, EndsLine
<1>4. ASSUME NEW k \in (s + 1)..(e - 1), EndsParagraph(k, s)
      PROVE  \E x \in LineEnds(s, e) : s < x /\ x < e
  <2>1. PICK i \in s..(k - 2) : Char(i) = "newline" /\ \A j \in (i + 1)..(k - 2) : Blank(j)
    BY <1>4 DEF EndsParagraph
  <2> DEFINE N == {j \in s..(k - 2) : Char(j) = "newline"}
  <2>2. PICK n \in N : \A j \in N : j <= n
    <3>1. N \subseteq Nat /\ N # {} /\ k \in Nat /\ \A j \in N : j <= k
      BY <1>1, <2>1
    <3> HIDE DEF N
    <3>2. QED
      BY <3>1, GreatestNumber
  <2>3. n \in s..(k - 2) /\ Char(n) = "newline" /\ i <= n /\ n \in Nat /\ k \in Nat /\ k <= e /\ i \in Nat
    BY <1>1, <2>1, <2>2
  <2>4. ASSUME NEW j \in (n + 1)..(k - 2)
        PROVE  Char(j) = "space"
    <3>1. j \in (i + 1)..(k - 2) /\ j \in s..(k - 2) /\ ~(j <= n)
      BY <1>1, <2>3
    <3>2. Blank(j) /\ j \notin N
      BY <2>1, <2>2, <3>1
    <3>3. QED
      BY <3>1, <3>2 DEF Blank
  <2>5. BlankLine(n, k)
    <3>1. n < k - 1
      BY <2>3
    <3>2. QED
      BY <1>4, <2>3, <2>4, <3>1 DEF BlankLine, EndsParagraph, EndsLine
  <2>6. n \in s..e
    BY <1>1, <2>3
  <2>7. PICK x \in g[s] : x \in Nat /\ s < x /\ x <= k
    BY <1>1, <1>2, <2>3, <2>5, <2>6, ScanFinds
  <2>8. x < e
    BY <1>1, <2>7
  <2>9. QED
    BY <1>2, <2>7, <2>8
<1>5. QED
  BY <1>3, <1>4

\* Inside a span, what ends a line or stands behind a mark is a usable cut.
LEMMA BoundaryUsable ==
  ASSUME Context, NEW s, NEW e, Proper(s, e), NEW k \in (s + 1)..(e - 1)
  PROVE  /\ EndsLine(k) => Usable(2, s, e) # {}
         /\ Marked(k, "stop") => Usable(3, s, e) # {}
         /\ Marked(k, "comma") => Usable(4, s, e) # {}
         /\ Blank(k) # Blank(k - 1) => Usable(5, s, e) # {}
<1>1. s \in Nat /\ e \in Nat /\ Size \in Nat /\ s < e /\ e <= Size /\ k \in Nat /\ s < k /\ k < e
  BY ContextFacts DEF Proper
<1>2. ASSUME NEW level \in Levels, NEW p \in {0, 1}, <<k, p>> \in Matches(level, s, e)
      PROVE  Usable(level, s, e) # {}
  <2>1. Usable(level, s, e) = {c \in Matches(level, s, e) : s < c[1] /\ c[1] < e}
    BY UsableIs
  <2>2. <<k, p>>[1] = k
    OBVIOUS
  <2>3. <<k, p>> \in Usable(level, s, e)
    BY <1>1, <1>2, <2>1, <2>2
  <2>4. QED
    BY <2>3
<1>3. k - 1 \in Nat /\ k - 1 \in s..(e - 1) /\ k - 1 \in s..(e - 2) /\ (k - 1) + 1 = k
  BY <1>1
<1>4. ASSUME EndsLine(k)
      PROVE  Usable(2, s, e) # {}
  <2>1. k \in {i + 1 : i \in {j \in s..(e - 1) : Char(j) = "newline"}}
    BY <1>3, <1>4 DEF EndsLine
  <2>2. <<k, 0>> \in Matches(2, s, e)
    BY <2>1 DEF Matches
  <2>3. QED
    BY <1>2, <2>2 DEF Levels
<1>5. ASSUME NEW mark, Marked(k, mark)
      PROVE  k \in MarkEnds(mark, s, e)
  <2>1. Char(k - 1) = mark /\ Blank((k - 1) + 1)
    BY <1>3, <1>5 DEF Marked
  <2>2. QED
    BY <1>3, <2>1 DEF MarkEnds
<1>6. ASSUME Marked(k, "stop")
      PROVE  Usable(3, s, e) # {}
  <2>1. <<k, 0>> \in Matches(3, s, e)
    BY <1>5, <1>6 DEF Matches
  <2>2. QED
    BY <1>2, <2>1 DEF Levels
<1>7. ASSUME Marked(k, "comma")
      PROVE  Usable(4, s, e) # {}
  <2>1. <<k, 0>> \in Matches(4, s, e)
    BY <1>5, <1>7 DEF Matches
  <2>2. QED
    BY <1>2, <2>1 DEF Levels
<1>8. ASSUME Blank(k) # Blank(k - 1)
      PROVE  Usable(5, s, e) # {}
  <2>1. Blank(k) \in BOOLEAN /\ Blank(k - 1) \in BOOLEAN
    BY DEF Blank
  <2>2. CASE Blank(k) /\ ~Blank(k - 1)
    <3>1. k \in BlankStarts(s, e)
      BY <1>1, <2>2 DEF BlankStarts
    <3>2. <<k, 1>> \in Matches(5, s, e)
      BY <3>1 DEF Matches
    <3>3. QED
      BY <1>2, <3>2 DEF Levels
  <2>3. CASE ~Blank(k) /\ Blank(k - 1)
    <3>1. k \in BlankEnds(s, e)
      <4>1. Blank(k - 1) /\ ~Blank((k - 1) + 1)
        BY <1>3, <2>3
      <4>2. k - 1 \in {j \in s..(e - 1) : Blank(j) /\ (j + 1 = e \/ ~Blank(j + 1))}
        BY <1>3, <4>1
      <4>3. QED
        BY <1>3, <4>2 DEF BlankEnds
    <3>2. <<k, 0>> \in Matches(5, s, e)
      BY <3>1 DEF Matches
    <3>3. QED
      BY <1>2, <3>2 DEF Levels
  <2>4. QED
    BY <1>8, <2>1, <2>2, <2>3
<1>9. QED
  BY <1>4, <1>6, <1>7, <1>8

\* The cut c of a span is at the coarsest boundary there is inside.
Coarse(s, e, c) ==
    LET inside == (s + 1)..(e - 1)
    IN  /\ (\E k \in inside : EndsParagraph(k, s)) => EndsParagraph(c, s)
        /\ (\E k \in inside : EndsLine(k)) => EndsLine(c)
        /\ (\E k \in inside : Marked(k, "stop")) => EndsLine(c) \/ Marked(c, "stop")
        /\ (\E k \in inside : Marked(k, "comma")) =>
              EndsLine(c) \/ Marked(c, "stop") \/ Marked(c, "comma")

\* A usable cut of a level is a boundary of that level.
LEMMA UsableBoundary ==
  ASSUME Context, NEW s, NEW e, Proper(s, e), NEW level \in Levels, NEW c \in Usable(level, s, e)
  PROVE  /\ c[1] \in Nat /\ s < c[1] /\ c[1] < e
         /\ level = 1 => EndsParagraph(c[1], s) /\ EndsLine(c[1])
         /\ level = 2 => EndsLine(c[1])
         /\ level = 3 => Marked(c[1], "stop")
         /\ level = 4 => Marked(c[1], "comma")
<1>1. s \in Nat /\ e \in Nat
  BY DEF Proper
<1>2. c \in Matches(level, s, e) /\ c \in Nat \X {0, 1} /\ s < c[1] /\ c[1] < e
  BY UsableIs
<1>3. ASSUME level = 1
      PROVE  EndsParagraph(c[1], s) /\ EndsLine(c[1])
  <2>1. c[1] \in LineEnds(s, e)
    BY <1>2, <1>3 DEF Matches
  <2>2. EndsParagraph(c[1], s)
    BY <1>2, <2>1, BlankLines
  <2>3. QED
    BY <2>2 DEF EndsParagraph
<1>4. ASSUME level = 2
      PROVE  EndsLine(c[1])
  <2>1. c[1] \in {i + 1 : i \in {j \in s..(e - 1) : Char(j) = "newline"}}
    BY <1>2, <1>4 DEF Matches
  <2>2. PICK j \in s..(e - 1) : Char(j) = "newline" /\ c[1] = j + 1
    BY <2>1
  <2>3. c[1] - 1 = j
    BY <1>1, <2>2
  <2>4. QED
    BY <2>2, <2>3 DEF EndsLine
<1>5. ASSUME NEW mark, c[1] \in MarkEnds(mark, s, e)
      PROVE  Marked(c[1], mark)
  <2>1. PICK j \in s..(e - 2) : Char(j) = mark /\ Blank(j + 1) /\ c[1] = j + 1
    BY <1>5 DEF MarkEnds
  <2>2. c[1] - 1 = j
    BY <1>1, <2>1
  <2>3. QED
    BY <2>1, <2>2 DEF Marked
<1>6. ASSUME level = 3
      PROVE  Marked(c[1], "stop")
  <2>1. c[1] \in MarkEnds("stop", s, e)
    BY <1>2, <1>6 DEF Matches
  <2>2. QED
    BY <1>5, <2>1
<1>7. ASSUME level = 4
      PROVE  Marked(c[1], "comma")
  <2>1. c[1] \in MarkEnds("comma", s, e)
    BY <1>2, <1>7 DEF Matches
  <2>2. QED
    BY <1>5, <2>1
<1>8. QED
  BY <1>2, <1>3, <1>4, <1>6, <1>7

\* BestCut cuts inside, at the coarsest boundary.
LEMMA BestCutFacts ==
  ASSUME Context, NEW s, NEW e, Proper(s, e), UsableLevels(s, e) # {}
  PROVE  /\ BestCut(s, e) \in Nat /\ s < BestCut(s, e) /\ BestCut(s, e) < e
         /\ Coarse(s, e, BestCut(s, e))
<1> DEFINE level == Min(UsableLevels(s, e))
           inside == (s + 1)..(e - 1)
<1>1. /\ level \in Levels
      /\ \A l \in Levels : Usable(l, s, e) # {} => level <= l
  BY LowestLevel
<1>2. PICK c \in Usable(level, s, e) : c[1] = BestCut(s, e)
  BY BestCutIs
<1> HIDE DEF level
<1>3. /\ c[1] \in Nat /\ s < c[1] /\ c[1] < e
      /\ level = 1 => EndsParagraph(c[1], s) /\ EndsLine(c[1])
      /\ level = 2 => EndsLine(c[1])
      /\ level = 3 => Marked(c[1], "stop")
      /\ level = 4 => Marked(c[1], "comma")
  BY <1>1, UsableBoundary
<1>4. level = 1 \/ level = 2 \/ level = 3 \/ level = 4 \/ level = 5
  BY <1>1 DEF Levels
<1>5. ASSUME NEW k \in inside, EndsParagraph(k, s)
      PROVE  level = 1
  <2>1. PICK x \in LineEnds(s, e) : s < x /\ x < e
    BY <1>5, BlankLines
  <2>2. <<x, 0>> \in Matches(1, s, e) /\ <<x, 0>>[1] = x
    BY <2>1 DEF Matches
  <2>3. 1 \in Levels
    BY DEF Levels
  <2>4. Usable(1, s, e) = {d \in Matches(1, s, e) : s < d[1] /\ d[1] < e}
    BY <2>3, UsableIs
  <2>5. <<x, 0>> \in Usable(1, s, e)
    BY <2>1, <2>2, <2>4
  <2>6. level <= 1
    BY <1>1, <2>3, <2>5
  <2>7. QED
    BY <1>4, <2>6
<1>6. ASSUME NEW k \in inside, EndsLine(k)
      PROVE  level \in {1, 2}
  <2>1. Usable(2, s, e) # {} /\ 2 \in Levels
    BY <1>6, BoundaryUsable DEF Levels
  <2>2. level <= 2
    BY <1>1, <2>1
  <2>3. QED
    BY <1>4, <2>2
<1>7. ASSUME NEW k \in inside, Marked(k, "stop")
      PROVE  level \in {1, 2, 3}
  <2>1. Usable(3, s, e) # {} /\ 3 \in Levels
    BY <1>7, BoundaryUsable DEF Levels
  <2>2. level <= 3
    BY <1>1, <2>1
  <2>3. QED
    BY <1>4, <2>2
<1>8. ASSUME NEW k \in inside, Marked(k, "comma")
      PROVE  level \in {1, 2, 3, 4}
  <2>1. Usable(4, s, e) # {} /\ 4 \in Levels
    BY <1>8, BoundaryUsable DEF Levels
  <2>2. level <= 4
    BY <1>1, <2>1
  <2>3. QED
    BY <1>4, <2>2
<1> HIDE DEF inside
<1>9. Coarse(s, e, c[1])
  <2>1. (\E k \in inside : EndsParagraph(k, s)) => EndsParagraph(c[1], s)
    BY <1>3, <1>5
  <2>2. (\E k \in inside : EndsLine(k)) => EndsLine(c[1])
    BY <1>3, <1>6
  <2>3. (\E k \in inside : Marked(k, "stop")) => EndsLine(c[1]) \/ Marked(c[1], "stop")
    BY <1>3, <1>7
  <2>4. (\E k \in inside : Marked(k, "comma")) =>
            EndsLine(c[1]) \/ Marked(c[1], "stop") \/ Marked(c[1], "comma")
    BY <1>3, <1>8
  <2>5. QED
    BY <2>1, <2>2, <2>3, <2>4 DEF Coarse, inside
<1>10. QED
  BY <1>2, <1>3, <1>9

\* Neither an edge of white space nor a newline lies inside.
Atomic(s, e) == \A k \in (s + 1)..(e - 1) : Blank(k) = Blank(k - 1) /\ Char(k - 1) # "newline"

\* A span without a usable cut is atomic.
LEMMA NoCutAtomic ==
  ASSUME Context, NEW s, NEW e, Proper(s, e), UsableLevels(s, e) = {}
  PROVE  Atomic(s, e)
<1>1. \A l \in Levels : Usable(l, s, e) = {}
  BY DEF UsableLevels
<1>2. 2 \in Levels /\ 5 \in Levels
  BY DEF Levels
<1>3. ASSUME NEW k \in (s + 1)..(e - 1)
      PROVE  Blank(k) = Blank(k - 1) /\ Char(k - 1) # "newline"
  <2>1. (EndsLine(k) => Usable(2, s, e) # {}) /\ (Blank(k) # Blank(k - 1) => Usable(5, s, e) # {})
    BY BoundaryUsable
  <2>2. ~EndsLine(k) /\ ~(Blank(k) # Blank(k - 1))
    BY <1>1, <1>2, <2>1
  <2>3. QED
    BY <2>2 DEF EndsLine
<1>4. QED
  BY <1>3 DEF Atomic

-----------------------------------------------------------------------------
(* The invariant of the splitting.                                         *)

\* The i-th of the spans, those that are done and those still to be looked at.
SpanAt(i) == IF i <= Len(segments) THEN segments[i].span ELSE todo[i - Len(segments)]
Pieces == Len(segments) + Len(todo)

SplitTyped ==
    /\ text \in Texts /\ Context
    /\ segments \in Seq([span : Nat \X Nat, uncuttable : BOOLEAN])
    /\ todo \in Seq(Nat \X Nat)
    /\ phase \in {"split", "render", "done", "refused"}
    /\ phase # "split" => todo = <<>>

Tiles ==
    /\ Pieces > 0 /\ SpanAt(1)[1] = 0 /\ SpanAt(Pieces)[2] = Size
    /\ \A i \in 1..Pieces : SpanAt(i)[2] <= Size
    /\ \A i \in 1..(Pieces - 1) : SpanAt(i)[2] = SpanAt(i + 1)[1]
    /\ Size > 0 => \A i \in 1..Pieces : SpanAt(i)[1] < SpanAt(i)[2]

Placeholder ==
    AllBlank(<<0, Size>>) =>
        segments = << [span |-> <<0, Size>>, uncuttable |-> FALSE] >> /\ todo = <<>>

\* A segment that is done is within the limit or atomic.
Kept ==
    \A i \in 1..Len(segments), s, e \in Nat :
        segments[i].span = <<s, e>> =>
            AllBlank(<<0, Size>>) \/ Overlap(s, e) <= CapTokens \/ Atomic(s, e)

\* Of the rendered prompt: sink, segments and window follow one another.
Arranged(l) ==
    /\ l.prompt \in Nat \ {0}
    /\ l.sink = <<0, SinkTokens>> /\ SinkTokens <= l.prompt
    /\ l.segments \in [1..Len(segments) -> Nat \X Nat]
    /\ \A i \in 1..Len(segments) :
          /\ SinkTokens <= l.segments[i][1]
          /\ l.segments[i][1] < l.segments[i][2]
          /\ l.segments[i][2] <= l.window[1]
    /\ \A i, j \in 1..Len(segments) : i < j => l.segments[i][2] <= l.segments[j][1]
    /\ l.window \in Nat \X Nat /\ l.window[1] <= l.window[2] /\ l.window[2] = l.prompt

\* How many tokens begin before x: the number of the token that begins there.
Rank(S, x) == Cardinality({j \in S : j < x})

\* A span is the tokens over the text of the i-th segment, one for each character.
Over(S, span, i) ==
    /\ span[2] = span[1] + Trimmed(i)
    /\ \A d \in 0..(Trimmed(i) - 1) : Rank(S, TextStart(i) + d + 1) = span[1] + d + 1

\* The segments of a layout are where their texts are in the prompt.
Located(l, S) == S \subseteq Nat /\ \A i \in 1..Len(segments) : Over(S, l.segments[i], i)

Rendered ==
    /\ phase # "done" => layout = NoLayout /\ offsets = {}
    /\ phase = "done" => Arranged(layout) /\ Located(layout, offsets)

SegmenterInv == SplitTyped /\ Tiles /\ Placeholder /\ Kept /\ CoarsestBoundary /\ Rendered

\* What depends on the text and its tokens alone.
LEMMA TextSame ==
  ASSUME text' = text, starts' = starts
  PROVE  /\ Size' = Size /\ (Context' <=> Context)
         /\ \A s : AllBlank(s)' <=> AllBlank(s)
         /\ \A s, e : Overlap(s, e)' = Overlap(s, e) /\ (Atomic(s, e)' <=> Atomic(s, e))
         /\ \A s, e, c : Coarse(s, e, c)' <=> Coarse(s, e, c)
<1>1. Size' = Size
  BY DEF Size
<1>2. Context' <=> Context
  BY <1>1 DEF Context
<1>3. \A i : Char(i)' = Char(i) /\ (Blank(i)' <=> Blank(i))
  BY DEF Char, Blank
<1>4. \A s : AllBlank(s)' <=> AllBlank(s)
  BY <1>3 DEF AllBlank
<1>5. \A i : EndOf(i)' = EndOf(i)
  BY <1>1 DEF EndOf
<1>6. \A s, e : Overlap(s, e)' = Overlap(s, e)
  BY <1>5 DEF Overlap
<1>7. \A s, e : Atomic(s, e)' <=> Atomic(s, e)
  BY <1>3 DEF Atomic
<1>8. \A s, e, c : Coarse(s, e, c)' <=> Coarse(s, e, c)
  BY <1>3 DEF Coarse, EndsParagraph, EndsLine, Marked
<1>9. QED
  BY <1>1, <1>2, <1>4, <1>6, <1>7, <1>8

\* The property, in the words of the lemmas.
LEMMA CoarsestIs ==
  CoarsestBoundary <=> (cutFrom # NoCut => Coarse(cutFrom.span[1], cutFrom.span[2], cutFrom.at))
BY DEF CoarsestBoundary, Coarse

\* A cut once made stays what it was.
LEMMA CoarsestSame ==
  ASSUME text' = text, starts' = starts, cutFrom' = cutFrom, CoarsestBoundary
  PROVE  CoarsestBoundary'
<1>1. Size' = Size
  BY DEF Size
<1>2. \A i : Char(i)' = Char(i)
  BY DEF Char
<1>3. \A i : Blank(i)' <=> Blank(i)
  BY <1>2 DEF Blank
<1>4. \A k : EndsLine(k)' <=> EndsLine(k)
  BY <1>2 DEF EndsLine
<1>5. \A k, s : EndsParagraph(k, s)' <=> EndsParagraph(k, s)
  BY <1>2, <1>3, <1>4 DEF EndsParagraph
<1>6. \A k, mark : Marked(k, mark)' <=> Marked(k, mark)
  BY <1>2, <1>3 DEF Marked
<1>7. QED
  BY <1>4, <1>5, <1>6 DEF CoarsestBoundary

\* The initial state is one of the invariant's.
LEMMA SegmenterStarts ==
  ASSUME SegmenterInit
  PROVE  SegmenterInv
<1>1. text \in Texts /\ text \in Seq(CharClasses) /\ Size \in Nat
  BY SegmenterAssumption DEF SegmenterInit, Size
<1>2. Context
  BY <1>1 DEF SegmenterInit, Context
<1>3. CASE AllBlank(<<0, Size>>)
  <2>1. todo = <<>> /\ segments = << [span |-> <<0, Size>>, uncuttable |-> FALSE] >>
    BY <1>3 DEF SegmenterInit
  <2> DEFINE rec == [span |-> <<0, Size>>, uncuttable |-> FALSE]
             Recs == [span : Nat \X Nat, uncuttable : BOOLEAN]
  <2>2. SplitTyped
    <3>1. <<0, Size>> \in Nat \X Nat
      BY <1>1
    <3>2. rec \in Recs
      BY <3>1
    <3> HIDE DEF rec, Recs
    <3>3. <<rec>> \in Seq(Recs)
      BY <3>2
    <3>4. segments \in Seq(Recs)
      BY <2>1, <3>3 DEF rec
    <3>5. todo \in Seq(Nat \X Nat)
      BY <2>1
    <3>6. phase = "split"
      BY DEF SegmenterInit
    <3>7. QED
      BY <1>1, <1>2, <3>4, <3>5, <3>6 DEF SplitTyped, Recs
  <2>3. Pieces = 1 /\ SpanAt(1) = <<0, Size>>
    BY <2>1 DEF Pieces, SpanAt
  <2>4. Tiles
    BY <1>1, <2>3 DEF Tiles
  <2>5. Placeholder /\ Kept
    BY <1>3, <2>1 DEF Placeholder, Kept
  <2>6. CoarsestBoundary /\ Rendered
    BY DEF SegmenterInit, CoarsestBoundary, Rendered
  <2>7. QED
    BY <2>2, <2>4, <2>5, <2>6 DEF SegmenterInv
<1>4. CASE ~AllBlank(<<0, Size>>)
  <2>1. todo = << <<0, Size>> >> /\ segments = <<>>
    BY <1>4 DEF SegmenterInit
  <2>2. SplitTyped
    <3>1. <<0, Size>> \in Nat \X Nat
      BY <1>1
    <3> DEFINE first == <<0, Size>>
               SpanSet == Nat \X Nat
    <3>2. first \in SpanSet
      BY <3>1
    <3> HIDE DEF first, SpanSet
    <3>3. <<first>> \in Seq(SpanSet)
      BY <3>2
    <3>4. todo \in Seq(SpanSet)
      BY <2>1, <3>3 DEF first
    <3>5. segments \in Seq([span : Nat \X Nat, uncuttable : BOOLEAN])
      BY <2>1
    <3>6. phase = "split"
      BY DEF SegmenterInit
    <3>7. QED
      BY <1>1, <1>2, <3>4, <3>5, <3>6 DEF SplitTyped, SpanSet
  <2>3. Pieces = 1 /\ SpanAt(1) = <<0, Size>>
    BY <2>1 DEF Pieces, SpanAt
  <2>4. Tiles
    BY <1>1, <2>3 DEF Tiles
  <2>5. Placeholder /\ Kept
    BY <1>4, <2>1 DEF Placeholder, Kept
  <2>6. CoarsestBoundary /\ Rendered
    BY DEF SegmenterInit, CoarsestBoundary, Rendered
  <2>7. QED
    BY <2>2, <2>4, <2>5, <2>6 DEF SegmenterInv
<1>5. QED
  BY <1>3, <1>4

\* The next span to look at is a proper one.
LEMMA NextSpan ==
  ASSUME SplitTyped, Tiles, Placeholder, todo # <<>>
  PROVE  /\ Head(todo) \in Nat \X Nat /\ Proper(Head(todo)[1], Head(todo)[2])
         /\ Head(todo) = <<Head(todo)[1], Head(todo)[2]>>
         /\ Head(todo) = SpanAt(Len(segments) + 1) /\ Len(segments) + 1 \in 1..Pieces
         /\ ~AllBlank(<<0, Size>>) /\ Size > 0
<1>1. /\ todo \in Seq(Nat \X Nat) /\ Len(todo) \in Nat /\ Len(todo) > 0
      /\ Len(segments) \in Nat /\ Size \in Nat
  BY ContextFacts DEF SplitTyped
<1>2. ~AllBlank(<<0, Size>>)
  BY DEF Placeholder
<1>3. Size > 0
  <2>1. SUFFICES ASSUME Size = 0 PROVE FALSE
    BY <1>1
  <2>2. <<0, Size>>[1]..(<<0, Size>>[2] - 1) = {}
    BY <2>1
  <2>3. QED
    BY <1>2, <2>2 DEF AllBlank
<1>4. Head(todo) = todo[1] /\ todo[1] \in Nat \X Nat
  BY <1>1
<1>5. SpanAt(Len(segments) + 1) = todo[1]
  <2>1. ~(Len(segments) + 1 <= Len(segments)) /\ (Len(segments) + 1) - Len(segments) = 1
    BY <1>1
  <2>2. QED
    BY <2>1 DEF SpanAt
<1>6. Len(segments) + 1 \in 1..Pieces
  BY <1>1 DEF Pieces
<1>7. todo[1][1] < todo[1][2] /\ todo[1][2] <= Size
  BY <1>3, <1>5, <1>6 DEF Tiles
<1>8. QED
  BY <1>2, <1>3, <1>4, <1>5, <1>6, <1>7 DEF Proper

\* A span that is kept moves from what is left to what is done.
LEMMA KeepStep ==
  ASSUME SegmenterInv, phase = "split", todo # <<>>, NEW u \in BOOLEAN, Keep(u),
         \/ Overlap(Head(todo)[1], Head(todo)[2]) <= CapTokens
         \/ Atomic(Head(todo)[1], Head(todo)[2])
  PROVE  SegmenterInv'
<1>1. /\ SplitTyped /\ Tiles /\ Placeholder /\ Kept /\ CoarsestBoundary /\ Rendered
      /\ segments \in Seq([span : Nat \X Nat, uncuttable : BOOLEAN]) /\ todo \in Seq(Nat \X Nat)
  BY DEF SegmenterInv, SplitTyped
<1>2. /\ text' = text /\ starts' = starts /\ cutFrom' = cutFrom /\ phase' = phase /\ layout' = layout
      /\ offsets' = offsets
      /\ segments' = Append(segments, [span |-> Head(todo), uncuttable |-> u]) /\ todo' = Tail(todo)
  BY DEF Keep
<1>3. Head(todo) \in Nat \X Nat /\ Head(todo) = SpanAt(Len(segments) + 1) /\ ~AllBlank(<<0, Size>>)
  BY <1>1, NextSpan
<1> DEFINE n == Len(segments)
           m == Len(todo)
<1>4. n \in Nat /\ m \in Nat \ {0} /\ Size \in Nat
  BY <1>1, ContextFacts DEF SplitTyped
<1>5. /\ segments' \in Seq([span : Nat \X Nat, uncuttable : BOOLEAN]) /\ Len(segments') = n + 1
      /\ \A i \in 1..n : segments'[i] = segments[i]
      /\ segments'[n + 1].span = Head(todo)
  <2>1. [span |-> Head(todo), uncuttable |-> u] \in [span : Nat \X Nat, uncuttable : BOOLEAN]
    BY <1>3
  <2> DEFINE r == [span |-> Head(todo), uncuttable |-> u]
  <2>2. r.span = Head(todo)
    OBVIOUS
  <2> HIDE DEF r
  <2>3. QED
    BY <1>1, <1>2, <2>1, <2>2 DEF r
<1>6. todo' \in Seq(Nat \X Nat) /\ Len(todo') = m - 1 /\ \A i \in 1..(m - 1) : todo'[i] = todo[i + 1]
  BY <1>1, <1>2, <1>4
<1> HIDE DEF n, m
<1>7. Pieces' = Pieces /\ Pieces = n + m
  BY <1>4, <1>5, <1>6 DEF Pieces, n, m
<1>8. ASSUME NEW i \in 1..Pieces
      PROVE  SpanAt(i)' = SpanAt(i)
  <2>1. SpanAt(i)' = IF i <= n + 1 THEN segments'[i].span ELSE todo'[i - (n + 1)]
    BY <1>5 DEF SpanAt
  <2>2. SpanAt(i) = IF i <= n THEN segments[i].span ELSE todo[i - n]
    BY DEF SpanAt, n
  <2>3. CASE i <= n
    <3>1. i \in 1..n /\ i <= n + 1
      BY <1>4, <2>3
    <3>2. QED
      BY <1>5, <2>1, <2>2, <2>3, <3>1
  <2>4. CASE i = n + 1
    <3>1. SpanAt(n + 1) = Head(todo)
      BY <1>3 DEF n
    <3>2. n + 1 <= n + 1
      BY <1>4
    <3>3. SpanAt(i)' = segments'[n + 1].span
      BY <2>1, <2>4, <3>2
    <3>4. QED
      BY <1>5, <2>4, <3>1, <3>3
  <2>5. CASE i > n + 1
    <3>1. i - (n + 1) \in 1..(m - 1) /\ (i - (n + 1)) + 1 = i - n /\ ~(i <= n + 1) /\ ~(i <= n)
      BY <1>4, <1>7, <2>5
    <3>2. todo'[i - (n + 1)] = todo[i - n]
      BY <1>6, <3>1
    <3>3. QED
      BY <2>1, <2>2, <3>1, <3>2
  <2>6. QED
    BY <1>4, <2>3, <2>4, <2>5
<1>9. Size' = Size /\ Context' /\ ~AllBlank(<<0, Size>>)'
  BY <1>1, <1>2, <1>3, TextSame DEF SplitTyped
<1>10. SplitTyped'
  BY <1>1, <1>2, <1>5, <1>6, <1>9 DEF SplitTyped
<1>11. Tiles'
  <2>1. Pieces \in Nat /\ Pieces > 0 /\ 1 \in 1..Pieces /\ Pieces \in 1..Pieces
        /\ \A i \in 1..(Pieces - 1) : i \in 1..Pieces /\ i + 1 \in 1..Pieces
    BY <1>4, <1>7
  <2>2. SpanAt(1)' = SpanAt(1) /\ SpanAt(Pieces)' = SpanAt(Pieces)
    BY <1>7, <1>8, <2>1
  <2>3. \A i \in 1..(Pieces - 1) : SpanAt(i)' = SpanAt(i) /\ SpanAt(i + 1)' = SpanAt(i + 1)
    BY <1>8, <2>1
  <2>4. SpanAt(1)'[1] = 0 /\ SpanAt(Pieces)'[2] = Size
    BY <1>1, <2>2 DEF Tiles
  <2>5. \A i \in 1..Pieces : SpanAt(i)'[2] <= Size
    BY <1>1, <1>8 DEF Tiles
  <2>6. \A i \in 1..(Pieces - 1) : SpanAt(i)'[2] = SpanAt(i + 1)'[1]
    BY <1>1, <2>3 DEF Tiles
  <2>7. Size > 0 => \A i \in 1..Pieces : SpanAt(i)'[1] < SpanAt(i)'[2]
    BY <1>1, <1>8 DEF Tiles
  <2>8. QED
    BY <1>7, <1>9, <2>1, <2>4, <2>5, <2>6, <2>7 DEF Tiles
<1>12. Placeholder'
  BY <1>9 DEF Placeholder
<1>13. Kept'
  <2>1. ASSUME NEW i \in 1..(n + 1), NEW s \in Nat, NEW e \in Nat, segments'[i].span = <<s, e>>
        PROVE  Overlap(s, e) <= CapTokens \/ Atomic(s, e)
    <3>1. CASE i \in 1..n
      <4>1. segments'[i] = segments[i]
        BY <1>5, <3>1
      <4>2. QED
        BY <1>1, <1>3, <2>1, <3>1, <4>1 DEF Kept, n
    <3>2. CASE i = n + 1
      <4>1. Head(todo) = <<s, e>>
        BY <1>5, <2>1, <3>2
      <4>2. QED
        BY <4>1
    <3>3. QED
      BY <1>4, <3>1, <3>2
  <2>2. \A i \in 1..(n + 1), s, e \in Nat :
            segments'[i].span = <<s, e>> => Overlap(s, e)' <= CapTokens \/ Atomic(s, e)'
    BY <1>2, <2>1, TextSame
  <2>3. \A i \in 1..Len(segments') : i \in 1..(n + 1)
    BY <1>5
  <2>4. QED
    BY <2>2, <2>3 DEF Kept
<1>14. CoarsestBoundary' /\ Rendered'
  <2>1. CoarsestBoundary'
    BY <1>1, <1>2, CoarsestSame
  <2>2. Rendered'
    BY <1>1, <1>2 DEF Rendered
  <2>3. QED
    BY <2>1, <2>2
<1>15. QED
  BY <1>10, <1>11, <1>12, <1>13, <1>14 DEF SegmenterInv

\* A cut replaces the next span by its two sides.
LEMMA CutStep ==
  ASSUME SegmenterInv, Cut
  PROVE  SegmenterInv'
<1>1. /\ SplitTyped /\ Tiles /\ Placeholder /\ Kept /\ Rendered /\ Context
      /\ segments \in Seq([span : Nat \X Nat, uncuttable : BOOLEAN]) /\ todo \in Seq(Nat \X Nat)
  BY DEF SegmenterInv, SplitTyped
<1>2. phase = "split" /\ todo # <<>> /\ UsableLevels(Head(todo)[1], Head(todo)[2]) # {}
  BY DEF Cut
<1>3. /\ Head(todo) \in Nat \X Nat /\ Proper(Head(todo)[1], Head(todo)[2])
      /\ Head(todo) = <<Head(todo)[1], Head(todo)[2]>>
      /\ Head(todo) = SpanAt(Len(segments) + 1) /\ Len(segments) + 1 \in 1..Pieces
      /\ ~AllBlank(<<0, Size>>) /\ Size > 0
  BY <1>1, <1>2, NextSpan
<1>4. PICK a \in Nat, b \in Nat : a = Head(todo)[1] /\ b = Head(todo)[2] /\ Head(todo) = <<a, b>>
  BY <1>3
<1>5. PICK c : c = BestCut(a, b)
  OBVIOUS
<1>6. c \in Nat /\ a < c /\ c < b /\ Coarse(a, b, c)
  BY <1>1, <1>2, <1>3, <1>4, <1>5, BestCutFacts
<1>7. /\ todo' = << <<a, c>>, <<c, b>> >> \o Tail(todo)
      /\ cutFrom' = [span |-> <<a, b>>, at |-> c]
  BY <1>4, <1>5 DEF Cut
<1>8. /\ text' = text /\ starts' = starts /\ phase' = phase /\ layout' = layout /\ segments' = segments
      /\ offsets' = offsets
  BY DEF Cut
<1>a. PICK n \in Nat, m \in Nat, q \in Nat : n = Len(segments) /\ m = Len(todo) /\ q = Pieces
  BY <1>1 DEF Pieces
<1>9. n \in Nat /\ m \in Nat \ {0} /\ q \in Nat /\ Size \in Nat /\ b <= Size
  BY <1>1, <1>2, <1>3, <1>4, <1>a, ContextFacts DEF Proper
<1>10. /\ todo' \in Seq(Nat \X Nat) /\ Len(todo') = m + 1
       /\ todo'[1] = <<a, c>> /\ todo'[2] = <<c, b>>
       /\ \A i \in 3..(m + 1) : todo'[i] = todo[i - 1]
  <2> DEFINE first == <<a, c>>
             second == <<c, b>>
             SpanSet == Nat \X Nat
             rest == Tail(todo)
  <2>1. first \in SpanSet /\ second \in SpanSet
    BY <1>6
  <2>2. rest \in Seq(SpanSet) /\ Len(rest) = m - 1 /\ \A i \in 1..(m - 1) : rest[i] = todo[i + 1]
    BY <1>1, <1>2, <1>9, <1>a
  <2> HIDE DEF first, second, rest, SpanSet
  <2>3. /\ << first, second >> \o rest \in Seq(SpanSet)
        /\ Len(<< first, second >> \o rest) = 2 + Len(rest)
        /\ (<< first, second >> \o rest)[1] = first
        /\ (<< first, second >> \o rest)[2] = second
    BY <2>1, <2>2
  <2>4. ASSUME NEW i \in 3..(m + 1)
        PROVE  (<< first, second >> \o rest)[i] = todo[i - 1]
    <3>1. i - 2 \in 1..(m - 1) /\ (i - 2) + 1 = i - 1 /\ i > 2 /\ i <= 2 + Len(rest) /\ i \in Nat
      BY <1>9, <2>2
    <3>2. << first, second >> \in Seq(SpanSet) /\ Len(<< first, second >>) = 2
      BY <2>1
    <3>3. (<< first, second >> \o rest)[i] = rest[i - 2]
      BY <2>2, <3>1, <3>2
    <3>4. QED
      BY <2>2, <3>1, <3>3
  <2>5. todo' = << first, second >> \o rest
    BY <1>7 DEF first, second, rest
  <2>6. 2 + Len(rest) = m + 1
    BY <1>9, <2>2
  <2>7. /\ todo' \in Seq(SpanSet) /\ Len(todo') = m + 1 /\ todo'[1] = first /\ todo'[2] = second
        /\ \A i \in 3..(m + 1) : todo'[i] = todo[i - 1]
    BY <2>3, <2>4, <2>5, <2>6
  <2>8. QED
    BY <2>7 DEF first, second, SpanSet
<1>11. q = n + m /\ Pieces' = q + 1 /\ q = Pieces
  BY <1>8, <1>9, <1>10, <1>a DEF Pieces
<1>12. \A i \in 1..n : SpanAt(i)' = SpanAt(i)
  BY <1>8, <1>a DEF SpanAt
<1>13. SpanAt(n + 1)' = <<a, c>> /\ SpanAt(n + 2)' = <<c, b>>
  <2>1. ~(n + 1 <= n) /\ ~(n + 2 <= n) /\ (n + 1) - n = 1 /\ (n + 2) - n = 2
    BY <1>9
  <2>2. SpanAt(n + 1)' = todo'[(n + 1) - n] /\ SpanAt(n + 2)' = todo'[(n + 2) - n]
    BY <1>8, <1>a, <2>1 DEF SpanAt
  <2>3. QED
    BY <1>10, <2>1, <2>2
<1>14. ASSUME NEW i, i \in (n + 3)..(q + 1)
       PROVE  SpanAt(i)' = SpanAt(i - 1)
  <2>1. /\ i - n \in 3..(m + 1) /\ (i - n) - 1 = (i - 1) - n /\ ~(i <= n) /\ ~(i - 1 <= n) /\ i \in Nat
    BY <1>9, <1>11, <1>14
  <2>2. SpanAt(i)' = todo'[i - n] /\ SpanAt(i - 1) = todo[(i - 1) - n]
    BY <1>8, <1>a, <2>1 DEF SpanAt
  <2>3. todo'[i - n] = todo[(i - n) - 1]
    BY <1>10, <2>1
  <2>4. QED
    BY <2>1, <2>2, <2>3
<1>15. Size' = Size /\ Context' /\ ~AllBlank(<<0, Size>>)'
  BY <1>1, <1>3, <1>8, TextSame
<1>16. SplitTyped'
  BY <1>1, <1>2, <1>8, <1>10, <1>15 DEF SplitTyped
<1>17. SpanAt(n + 1) = <<a, b>> /\ n + 1 \in 1..q
  BY <1>3, <1>4, <1>a
<1>18. /\ \A i \in 1..q : SpanAt(i)[2] <= Size /\ SpanAt(i)[1] < SpanAt(i)[2]
       /\ \A i \in 1..(q - 1) : SpanAt(i)[2] = SpanAt(i + 1)[1]
       /\ SpanAt(1)[1] = 0 /\ SpanAt(q)[2] = Size
  BY <1>1, <1>3, <1>a DEF Tiles
<1>19. ASSUME NEW i, i \in 1..(q + 1)
       PROVE  SpanAt(i)'[2] <= Size /\ SpanAt(i)'[1] < SpanAt(i)'[2]
  <2>1. CASE i \in 1..n
    BY <1>9, <1>11, <1>12, <1>18, <2>1
  <2>2. CASE i = n + 1
    BY <1>6, <1>9, <1>13, <2>2
  <2>3. CASE i = n + 2
    BY <1>6, <1>9, <1>13, <2>3
  <2>4. CASE i \in (n + 3)..(q + 1)
    <3>1. i - 1 \in 1..q
      BY <1>9, <1>11, <2>4
    <3>2. QED
      BY <1>14, <1>18, <2>4, <3>1
  <2>5. QED
    BY <1>9, <1>11, <1>19, <2>1, <2>2, <2>3, <2>4
<1>20. ASSUME NEW i, i \in 1..q
       PROVE  SpanAt(i)'[2] = SpanAt(i + 1)'[1]
  <2>1. CASE i + 1 \in 1..n
    <3>1. i \in 1..n /\ i \in 1..(q - 1)
      BY <1>9, <1>11, <1>20, <2>1
    <3>2. QED
      BY <1>12, <1>18, <2>1, <3>1
  <2>2. CASE i = n
    <3>1. i \in 1..n /\ i \in 1..(q - 1)
      BY <1>9, <1>11, <1>20, <2>2
    <3>2. SpanAt(i)[2] = a
      BY <1>17, <1>18, <2>2, <3>1
    <3>3. SpanAt(i)'[2] = a
      BY <1>12, <3>1, <3>2
    <3>4. QED
      BY <1>13, <2>2, <3>3
  <2>3. CASE i = n + 1
    <3>1. i + 1 = n + 2
      BY <1>9, <2>3
    <3>2. QED
      BY <1>13, <2>3, <3>1
  <2>4. CASE i = n + 2
    <3>1. i + 1 \in (n + 3)..(q + 1) /\ (i + 1) - 1 = (n + 1) + 1 /\ n + 1 \in 1..(q - 1)
      BY <1>9, <1>11, <1>20, <2>4
    <3>2. SpanAt(i + 1)' = SpanAt((n + 1) + 1)
      BY <1>14, <3>1
    <3>3. SpanAt(n + 1)[2] = SpanAt((n + 1) + 1)[1]
      BY <1>18, <3>1
    <3>4. QED
      BY <1>13, <1>17, <2>4, <3>2, <3>3
  <2>5. CASE i > n + 2
    <3>1. /\ i \in (n + 3)..(q + 1) /\ i + 1 \in (n + 3)..(q + 1)
          /\ (i + 1) - 1 = (i - 1) + 1 /\ i - 1 \in 1..(q - 1)
      BY <1>9, <1>11, <1>20, <2>5
    <3>2. SpanAt(i)' = SpanAt(i - 1) /\ SpanAt(i + 1)' = SpanAt((i - 1) + 1)
      BY <1>14, <3>1
    <3>3. SpanAt(i - 1)[2] = SpanAt((i - 1) + 1)[1]
      BY <1>18, <3>1
    <3>4. QED
      BY <3>2, <3>3
  <2>6. QED
    BY <1>9, <1>11, <1>20, <2>1, <2>2, <2>3, <2>4, <2>5
<1>21. SpanAt(1)'[1] = 0
  <2>1. CASE n = 0
    <3>1. n + 1 = 1
      BY <2>1
    <3>2. QED
      BY <1>13, <1>17, <1>18, <3>1
  <2>2. CASE n > 0
    <3>1. 1 \in 1..n
      BY <1>9, <2>2
    <3>2. QED
      BY <1>12, <1>18, <3>1
  <2>3. QED
    BY <1>9, <2>1, <2>2
<1>22. SpanAt(q + 1)'[2] = Size
  <2>1. CASE m = 1
    <3>1. q + 1 = n + 2 /\ q = n + 1
      BY <1>9, <1>11, <2>1
    <3>2. QED
      BY <1>13, <1>17, <1>18, <3>1
  <2>2. CASE m > 1
    <3>1. q + 1 \in (n + 3)..(q + 1) /\ (q + 1) - 1 = q
      BY <1>9, <1>11, <2>2
    <3>2. QED
      BY <1>14, <1>18, <3>1
  <2>3. QED
    BY <1>9, <2>1, <2>2
<1>23. Tiles'
  <2>1. Pieces' = q + 1 /\ Pieces' > 0 /\ Pieces' - 1 = q /\ Size' = Size
    BY <1>9, <1>11, <1>15
  <2>2. SpanAt(Pieces)' = SpanAt(q + 1)'
    BY <2>1
  <2>3. QED
    BY <1>11, <1>15, <1>19, <1>20, <1>21, <1>22, <2>1 DEF Tiles
<1>24. Placeholder'
  BY <1>15 DEF Placeholder
<1>25. Kept'
  BY <1>1, <1>8, TextSame DEF Kept
<1>26. CoarsestBoundary'
  <2>1. cutFrom'.span = <<a, b>> /\ cutFrom'.at = c
    BY <1>7
  <2>2. Coarse(a, b, c)'
    BY <1>6, <1>8, TextSame
  <2>3. QED
    BY <2>1, <2>2 DEF CoarsestBoundary, Coarse
<1>27. Rendered'
  BY <1>1, <1>2, <1>8 DEF Rendered
<1>28. QED
  BY <1>16, <1>23, <1>24, <1>25, <1>26, <1>27 DEF SegmenterInv

-----------------------------------------------------------------------------
(* The places of the prompt and the tokens over them.                      *)

\* Ranks are numbers of tokens, and grow by one with every token.
LEMMA RankFacts ==
  ASSUME NEW S, S \subseteq Nat, IsFiniteSet(S)
  PROVE  /\ \A x \in Nat : Rank(S, x) \in Nat /\ Rank(S, x) <= Cardinality(S)
         /\ \A x, y \in Nat : x <= y => Rank(S, x) <= Rank(S, y)
         /\ \A x \in S : Rank(S, x + 1) = Rank(S, x) + 1
         /\ \A x \in S, y \in Nat : x < y => Rank(S, x) + 1 <= Rank(S, y)
<1> DEFINE Below(x) == {j \in S : j < x}
<1>0. \A j \in S : j \in Nat
  OBVIOUS
<1>1. \A x : IsFiniteSet(Below(x)) /\ Cardinality(Below(x)) <= Cardinality(S)
      /\ Cardinality(Below(x)) \in Nat
  <2>1. ASSUME NEW x
        PROVE  IsFiniteSet(Below(x)) /\ Cardinality(Below(x)) <= Cardinality(S)
               /\ Cardinality(Below(x)) \in Nat
    <3>1. Below(x) \subseteq S
      OBVIOUS
    <3> HIDE DEF Below
    <3>2. IsFiniteSet(Below(x)) /\ Cardinality(Below(x)) <= Cardinality(S)
      BY <3>1, FS_Subset
    <3>3. QED
      BY <3>2, FS_CardinalityType
  <2>2. QED
    BY <2>1
<1>2. ASSUME NEW x \in Nat, NEW y \in Nat, x <= y
      PROVE  Cardinality(Below(x)) <= Cardinality(Below(y))
  <2>1. \A j \in S : j < x => j < y
    BY <1>0, <1>2
  <2>2. Below(x) \subseteq Below(y)
    BY <2>1
  <2> HIDE DEF Below
  <2>3. QED
    BY <1>1, <2>2, FS_Subset
<1>3. ASSUME NEW x \in S
      PROVE  Cardinality(Below(x + 1)) = Cardinality(Below(x)) + 1
  <2>1. x \in Nat /\ ~(x < x) /\ \A j \in S : j < x + 1 <=> j < x \/ j = x
    BY <1>0
  <2>2. Below(x + 1) = Below(x) \cup {x} /\ x \notin Below(x)
    BY <2>1
  <2> HIDE DEF Below
  <2>3. QED
    BY <1>1, <2>2, FS_AddElement
<1>4. \A x : Rank(S, x) = Cardinality(Below(x))
  BY DEF Rank
<1> HIDE DEF Below
<1>5. ASSUME NEW x \in S, NEW y \in Nat, x < y
      PROVE  Cardinality(Below(x)) + 1 <= Cardinality(Below(y))
  <2>1. x + 1 \in Nat /\ x + 1 <= y
    BY <1>5
  <2>2. Cardinality(Below(x + 1)) <= Cardinality(Below(y))
    BY <1>2, <2>1
  <2>3. QED
    BY <1>3, <2>2
<1>6. QED
  BY <1>1, <1>2, <1>3, <1>4, <1>5

\* Where every character is a token, tokens are counted by characters.
LEMMA RankAlong ==
  ASSUME NEW S, S \subseteq Nat, IsFiniteSet(S), NEW x \in Nat, NEW y \in Nat, x <= y,
         \A k \in x..(y - 1) : k \in S
  PROVE  Rank(S, y) = Rank(S, x) + (y - x)
<1> DEFINE A == {j \in S : j < x}
           B == {j \in S : j < y}
           D == x..(y - 1)
<1>0. \A j \in S : j \in Nat
  OBVIOUS
<1>1. B = A \cup D /\ A \cap D = {} /\ A \subseteq S
  <2>1. \A j \in B : j \in A \cup D
    BY <1>0
  <2>2. \A j \in D : j \in B
    OBVIOUS
  <2>3. \A j \in A : j \in B /\ j \notin D
    BY <1>0
  <2>4. QED
    BY <2>1, <2>2, <2>3
<1>2. IsFiniteSet(D) /\ Cardinality(D) = y - x
  <2>1. IsFiniteSet(D) /\ Cardinality(D) = IF x > y - 1 THEN 0 ELSE (y - 1) - x + 1
    BY FS_Interval
  <2>2. QED
    BY <2>1
<1> HIDE DEF A, B, D
<1>3. IsFiniteSet(A) /\ Cardinality(A) \in Nat
  BY <1>1, FS_Subset, FS_CardinalityType
<1>4. Cardinality(A \cup D) = Cardinality(A) + Cardinality(D) - Cardinality(A \cap D)
  BY <1>2, <1>3, FS_Union
<1>5. Cardinality(A \cap D) = 0
  BY <1>1, FS_EmptySet
<1>6. Cardinality(B) = Cardinality(A) + (y - x)
  BY <1>1, <1>2, <1>3, <1>4, <1>5
<1>7. QED
  BY <1>6 DEF Rank, A, B

\* The last token that begins before e.
LastBefore(S, e, b) == b \in S /\ b < e /\ \A x \in S : x < e => x <= b

\* Places of the prompt.
InPrompt(S) == PromptChars \in Nat /\ S \subseteq 0..(PromptChars - 1)

\* A range of characters has the tokens from the one over its first character to the one over its last.
LEMMA TokenRangeIs ==
  ASSUME NEW S, InPrompt(S),
         NEW s \in Nat, NEW e \in Nat, s < e, s < PromptChars,
         NEW a, LastBefore(S, s + 1, a), NEW b, LastBefore(S, e, b)
  PROVE  TokenRange(S, s, e) = <<Rank(S, a), Rank(S, b) + 1>>
<1> DEFINE end(i) == IF \E j \in S : j > i THEN Min({j \in S : j > i}) ELSE PromptChars
           in == {i \in S : i < e /\ end(i) > s}
<1>1. /\ a \in S /\ b \in S /\ S \subseteq Nat /\ a \in Nat /\ b \in Nat /\ a <= b
      /\ a <= s /\ \A x \in S : x <= s => x <= a
      /\ b < e /\ \A x \in S : x < e => x <= b
  <2>1. a \in S /\ b \in S /\ \A x \in S : x \in Nat
    BY DEF LastBefore, InPrompt
  <2>2. a <= s /\ \A x \in S : x <= s => x <= a
    BY <2>1 DEF LastBefore
  <2>3. b < e /\ \A x \in S : x < e => x <= b
    BY DEF LastBefore
  <2>4. QED
    BY <2>1, <2>2, <2>3
<1>2. ASSUME NEW x \in S
      PROVE  end(x) > s <=> a <= x
  <2> DEFINE L == {j \in S : j > x}
  <2>1. CASE L = {}
    <3>1. end(x) = PromptChars
      BY <2>1
    <3>2. ~(a > x)
      BY <1>1, <2>1
    <3>3. QED
      BY <1>1, <3>1, <3>2
  <2>2. CASE L # {}
    <3>1. L \subseteq Nat
      BY <1>1
    <3>2. end(x) = Min(L)
      BY <2>2
    <3> HIDE DEF L
    <3>3. PICK m \in L : \A y \in L : m <= y
      BY <2>2, <3>1, LeastNumber
    <3>4. Min(L) \in L /\ \A y \in L : Min(L) <= y
      BY <3>3 DEF Min
    <3>5. end(x) \in S /\ end(x) > x /\ \A y \in S : y > x => end(x) <= y
      BY <3>2, <3>4 DEF L
    <3> HIDE DEF end
    <3>6. PICK y : y = end(x)
      OBVIOUS
    <3>7. y \in S /\ y > x /\ (a > x => y <= a) /\ y \in Nat /\ x \in Nat
      BY <1>1, <3>5, <3>6
    <3>8. y <= s => y <= a
      BY <1>1, <3>7
    <3>9. y > s <=> a <= x
      BY <1>1, <3>7, <3>8
    <3>10. QED
      BY <3>6, <3>9
  <2>3. QED
    BY <2>1, <2>2
<1>3. in = {x \in S : x < e /\ a <= x}
  BY <1>2
<1>4. /\ a \in in /\ b \in in
      /\ \A x \in in : a <= x /\ x <= b /\ x \in Nat
  <2>1. a < e
    BY <1>1
  <2>2. QED
    BY <1>1, <1>3, <2>1
<1>5. TokenRange(S, s, e) = <<Rank(S, Min(in)), Rank(S, Max(in)) + 1>>
  BY DEF TokenRange, Rank
<1> HIDE DEF in
<1>6. Min(in) = a
  <2>1. Min(in) \in in /\ \A y \in in : Min(in) <= y
    BY <1>4 DEF Min
  <2>2. Min(in) \in Nat /\ Min(in) <= a /\ a <= Min(in)
    BY <1>4, <2>1
  <2>3. QED
    BY <1>1, <2>2
<1>7. Max(in) = b
  <2>1. Max(in) \in in /\ \A y \in in : y <= Max(in)
    BY <1>4 DEF Max
  <2>2. Max(in) \in Nat /\ Max(in) <= b /\ b <= Max(in)
    BY <1>4, <2>1
  <2>3. QED
    BY <1>1, <2>2
<1>8. QED
  BY <1>5, <1>6, <1>7

\* What is left of a segment is a number of characters.
LEMMA TrimmedIs ==
  ASSUME SplitTyped, Tiles, Placeholder, NEW i \in 1..Len(segments)
  PROVE  Trimmed(i) \in Nat
<1>1. CASE AllBlank(<<0, Size>>)
  BY <1>1 DEF Trimmed
<1>2. CASE ~AllBlank(<<0, Size>>)
  <2> DEFINE s == segments[i].span
             K == {k \in s[1]..(s[2] - 1) : ~Blank(k)}
  <2>1. s \in Nat \X Nat
    <3> DEFINE Recs == [span : Nat \X Nat, uncuttable : BOOLEAN]
    <3>1. segments \in Seq(Recs)
      BY DEF SplitTyped
    <3> HIDE DEF Recs
    <3>2. segments[i] \in Recs
      BY <3>1
    <3>3. QED
      BY <3>2 DEF Recs
  <2>2. CASE AllBlank(s)
    BY <1>2, <2>2 DEF Trimmed
  <2>3. CASE ~AllBlank(s)
    <3>1. K # {} /\ K \subseteq Nat
      BY <2>1, <2>3 DEF AllBlank
    <3>2. \A k \in K : k <= s[2]
      BY <2>1
    <3> HIDE DEF K
    <3>3. Max(K) \in K
      BY <2>1, <3>1, <3>2, GreatestNumber
    <3>4. Max(K) \in Nat /\ s[1] \in Nat /\ s[1] <= Max(K)
      BY <2>1, <3>3 DEF K
    <3>5. Trimmed(i) = Max(K) + 1 - s[1]
      BY <1>2, <2>3 DEF Trimmed, K
    <3>6. QED
      BY <3>4, <3>5
  <2>4. QED
    BY <2>2, <2>3
<1>3. QED
  BY <1>1, <1>2

\* The prompt can be rendered: every segment has a character left.
Ready ==
    /\ SplitTyped /\ Tiles /\ Placeholder /\ todo = <<>>
    /\ \A i \in DOMAIN segments : Trimmed(i) > 0

\* The texts of the segments follow one another, three pieces of the template apart.
LEMMA PlacesGrow ==
  ASSUME Ready
  PROVE  /\ Len(segments) \in Nat \ {0} /\ DOMAIN segments = 1..Len(segments)
         /\ \A i \in 1..Len(segments) : Trimmed(i) \in Nat /\ Trimmed(i) > 0
         /\ SinkTokens \in Nat /\ TextStart(1) = SinkTokens + 4
         /\ \A i \in 1..(Len(segments) + 1) : TextStart(i) \in Nat
         /\ \A i \in 1..Len(segments) : TextStart(i + 1) = TextStart(i) + Trimmed(i) + 3
<1> DEFINE n == Len(segments)
           c == [j \in 1..n |-> BlockLen(j)]
           sum(i) == Cardinality(Pairs(c, i))
<1>1. n \in Nat \ {0} /\ DOMAIN segments = 1..n
  <2>1. Len(todo) = 0 /\ Len(segments) \in Nat
    BY DEF Ready, SplitTyped
  <2>2. Pieces = Len(segments)
    BY <2>1 DEF Pieces
  <2>3. Pieces > 0
    BY DEF Ready, Tiles
  <2>4. QED
    BY <2>1, <2>2, <2>3 DEF Ready, SplitTyped
<1>2. \A i \in 1..n : Trimmed(i) \in Nat /\ Trimmed(i) > 0
  BY <1>1, TrimmedIs DEF Ready
<1>3. \A i \in 1..n : c[i] \in Nat /\ c[i] = Trimmed(i) + 3
  BY <1>2 DEF BlockLen
<1>4. SinkTokens \in Nat
  BY SegmenterAssumption
<1> HIDE DEF n, c
<1>5. \A i \in 0..n : IsFiniteSet(Pairs(c, i))
  BY <1>1, <1>3, PairsFinite
<1>6. \A i \in 0..n : sum(i) \in Nat
  BY <1>5, FS_CardinalityType
<1>7. ASSUME NEW i \in 1..(n + 1)
      PROVE  TextStart(i) = SinkTokens + 4 + sum(i - 1)
  <2> DEFINE q == [j \in 1..(i - 1) |-> BlockLen(j)]
  <2>1. \A j \in 1..(i - 1) : q[j] = c[j]
    BY <1>1 DEF c
  <2>2. DOMAIN q = 1..(i - 1)
    OBVIOUS
  <2> HIDE DEF q
  <2>3. {{j} \X (1..q[j]) : j \in DOMAIN q} = {{j} \X (1..c[j]) : j \in 1..(i - 1)}
    BY <2>1, <2>2
  <2>4. Total(q) = sum(i - 1)
    BY <2>3 DEF Total, Pairs
  <2>5. TextStart(i) = FirstBlock + Total(q) + 2
    BY DEF TextStart, q
  <2>6. i - 1 \in 0..n
    BY <1>1
  <2>7. sum(i - 1) \in Nat
    BY <1>6, <2>6
  <2> HIDE DEF sum
  <2>8. QED
    BY <1>4, <2>4, <2>5, <2>7 DEF FirstBlock
<1>8. ASSUME NEW i \in 1..n
      PROVE  sum(i) = sum(i - 1) + c[i]
  <2>1. PICK k \in 0..n : i = k + 1 /\ k \in Nat /\ i - 1 = k
    <3>1. i - 1 \in 0..n /\ i = (i - 1) + 1 /\ i - 1 \in Nat
      BY <1>1
    <3>2. QED
      BY <3>1
  <2>2. c[k + 1] \in Nat /\ IsFiniteSet(Pairs(c, k))
    BY <1>3, <1>5, <2>1
  <2>3. Cardinality(Pairs(c, k + 1)) = Cardinality(Pairs(c, k)) + c[k + 1]
    BY <2>1, <2>2, PairsGrow
  <2>4. QED
    BY <2>1, <2>3
<1>9. sum(0) = 0
  <2>1. Pairs(c, 0) = {}
    BY DEF Pairs
  <2>2. QED
    BY <2>1, FS_EmptySet
<1> HIDE DEF sum
<1>10. TextStart(1) = SinkTokens + 4
  <2>1. 1 \in 1..(n + 1) /\ 1 - 1 = 0
    BY <1>1
  <2>2. TextStart(1) = SinkTokens + 4 + sum(0)
    BY <1>7, <2>1
  <2>3. QED
    BY <1>4, <1>9, <2>2
<1>11. ASSUME NEW i \in 1..(n + 1)
       PROVE  TextStart(i) \in Nat
  <2>1. i - 1 \in 0..n
    BY <1>1
  <2>2. QED
    BY <1>4, <1>6, <1>7, <2>1
<1>12. ASSUME NEW i \in 1..n
       PROVE  TextStart(i + 1) = TextStart(i) + Trimmed(i) + 3
  <2>1. i \in 1..(n + 1) /\ i + 1 \in 1..(n + 1) /\ (i + 1) - 1 = i /\ i - 1 \in 0..n
    BY <1>1
  <2>2. TextStart(i + 1) = SinkTokens + 4 + sum(i) /\ TextStart(i) = SinkTokens + 4 + sum(i - 1)
    BY <1>7, <2>1
  <2>3. sum(i) = sum(i - 1) + (Trimmed(i) + 3) /\ sum(i - 1) \in Nat /\ Trimmed(i) \in Nat
    BY <1>2, <1>3, <1>6, <1>8, <2>1
  <2>4. QED
    BY <1>4, <2>2, <2>3
<1>13. QED
  BY <1>1, <1>2, <1>4, <1>10, <1>11, <1>12 DEF n

\* So the text of a segment ends before that of any later one begins.
LEMMA PlacesIncrease ==
  ASSUME Ready
  PROVE  \A i \in 1..Len(segments), j \in 1..(Len(segments) + 1) :
             i < j => TextStart(i) + Trimmed(i) + 3 <= TextStart(j)
<1> DEFINE n == Len(segments)
           Bad(i) == {j \in 1..(n + 1) : i < j /\ ~(TextStart(i) + Trimmed(i) + 3 <= TextStart(j))}
<1>1. /\ n \in Nat
      /\ \A i \in 1..n : Trimmed(i) \in Nat
      /\ \A i \in 1..(n + 1) : TextStart(i) \in Nat
      /\ \A i \in 1..n : TextStart(i + 1) = TextStart(i) + Trimmed(i) + 3
  BY PlacesGrow
<1>2. ASSUME NEW i \in 1..n, Bad(i) # {}
      PROVE  FALSE
  <2>1. Bad(i) \subseteq Nat
    BY <1>1
  <2>2. PICK j \in Bad(i) : \A k \in Bad(i) : j <= k
    BY <1>2, <2>1, LeastNumber
  <2>3. PICK k \in 1..n : j = k + 1
    <3>1. j - 1 \in 1..n /\ j = (j - 1) + 1
      BY <1>1
    <3>2. QED
      BY <3>1
  <2>4. /\ TextStart(k + 1) = TextStart(k) + Trimmed(k) + 3 /\ k \in 1..(n + 1)
        /\ TextStart(k) \in Nat /\ Trimmed(k) \in Nat
        /\ TextStart(i) \in Nat /\ Trimmed(i) \in Nat
    BY <1>1
  <2>5. CASE k = i
    BY <2>2, <2>3, <2>4, <2>5
  <2>6. CASE k # i
    <3>1. i < k /\ k < j
      BY <1>1, <2>2, <2>3, <2>6
    <3>2. TextStart(i) + Trimmed(i) + 3 <= TextStart(k)
      <4>1. k \notin Bad(i)
        BY <2>2, <2>4, <3>1
      <4>2. QED
        BY <2>4, <3>1, <4>1
    <3>3. TextStart(i) + Trimmed(i) + 3 <= TextStart(j)
      BY <2>3, <2>4, <3>2
    <3>4. QED
      BY <2>2, <3>3
  <2>7. QED
    BY <2>5, <2>6
<1>3. QED
  BY <1>2

\* What lies where in the prompt: the places, and which of them are surely tokens.
LEMMA PromptFacts ==
  ASSUME Ready, NEW glued \in SUBSET Glues
  PROVE  LET S == PromptStarts(glued)
         IN  /\ PromptChars \in Nat /\ S \subseteq 0..(PromptChars - 1)
             /\ QuestionStart \in S /\ QuestionStart + 1 < PromptChars
             /\ \A x \in 0..SinkTokens : x \in S
             /\ \A i \in 1..Len(segments) :
                   /\ TextStart(i) > SinkTokens + 3
                   /\ TextStart(i) + Trimmed(i) + 2 <= QuestionStart
                   /\ TextStart(i) - 1 \in S
                   /\ \A x \in (TextStart(i) + 1)..(TextStart(i) + Trimmed(i) - 1) : x \in S
<1> DEFINE n == Len(segments)
           S == PromptStarts(glued)
<1>1. /\ n \in Nat \ {0} /\ DOMAIN segments = 1..n
      /\ \A i \in 1..n : Trimmed(i) \in Nat /\ Trimmed(i) > 0
      /\ SinkTokens \in Nat /\ TextStart(1) = SinkTokens + 4
      /\ \A i \in 1..(n + 1) : TextStart(i) \in Nat
  BY PlacesGrow
<1>2. \A i \in 1..n, j \in 1..(n + 1) : i < j => TextStart(i) + Trimmed(i) + 3 <= TextStart(j)
  BY PlacesIncrease
<1>3. \A i \in 1..n : TextStart(i) > SinkTokens + 3
  <2>1. ASSUME NEW i \in 1..n PROVE TextStart(i) > SinkTokens + 3
    <3>1. CASE i = 1
      BY <1>1, <3>1
    <3>2. CASE i > 1
      <4>1. 1 \in 1..n /\ 1 < i /\ i \in 1..(n + 1)
        BY <1>1, <3>2
      <4>2. TextStart(1) + Trimmed(1) + 3 <= TextStart(i)
        BY <1>2, <4>1
      <4>3. Trimmed(1) \in Nat /\ TextStart(i) \in Nat
        BY <1>1, <4>1
      <4>4. QED
        BY <1>1, <4>2, <4>3
    <3>3. QED
      BY <1>1, <3>1, <3>2
  <2>2. QED
    BY <2>1
<1>4. QuestionStart = TextStart(n + 1) - 1 /\ TextStart(n + 1) \in Nat /\ n + 1 \in 1..(n + 1)
  BY <1>1 DEF QuestionStart
<1>5. \A i \in 1..n : TextStart(i) + Trimmed(i) + 2 <= QuestionStart
  <2>1. ASSUME NEW i \in 1..n PROVE TextStart(i) + Trimmed(i) + 2 <= QuestionStart
    <3>1. TextStart(i) + Trimmed(i) + 3 <= TextStart(n + 1)
      BY <1>1, <1>2, <1>4
    <3>2. TextStart(i) \in Nat /\ Trimmed(i) \in Nat
      BY <1>1
    <3>3. QED
      BY <1>4, <3>1, <3>2
  <2>2. QED
    BY <2>1
<1>6. QuestionStart \in Nat /\ QuestionStart > SinkTokens + 3
  <2>1. 1 \in 1..n
    BY <1>1
  <2>2. QED
    BY <1>1, <1>3, <1>4, <1>5, <2>1
<1>7. PromptChars = QuestionStart + 2 /\ PromptChars \in Nat
  BY <1>6 DEF PromptChars
<1>8. \A x \in glued : \E i \in 1..n : x = TextStart(i) \/ x = TextStart(i) + Trimmed(i)
  BY <1>1 DEF Glues
<1>9. S \subseteq 0..(PromptChars - 1)
  BY DEF PromptStarts
<1>10. ASSUME NEW x \in 0..(PromptChars - 1),
              \A i \in 1..n : x # TextStart(i) /\ x # TextStart(i) + Trimmed(i)
       PROVE  x \in S
  BY <1>8, <1>10 DEF PromptStarts
<1> HIDE DEF S, n
<1>11. QuestionStart \in S
  <2>1. \A i \in 1..n : QuestionStart # TextStart(i) /\ QuestionStart # TextStart(i) + Trimmed(i)
    BY <1>1, <1>5, <1>6
  <2>2. QED
    BY <1>6, <1>7, <1>10, <2>1
<1>12. ASSUME NEW x \in 0..SinkTokens
       PROVE  x \in S
  <2>1. \A i \in 1..n : x # TextStart(i) /\ x # TextStart(i) + Trimmed(i)
    BY <1>1, <1>3
  <2>2. x \in 0..(PromptChars - 1)
    BY <1>1, <1>6, <1>7
  <2>3. QED
    BY <1>10, <2>1, <2>2
<1>13. ASSUME NEW i \in 1..n
       PROVE  TextStart(i) - 1 \in S
  <2>1. /\ TextStart(i) \in Nat /\ Trimmed(i) \in Nat /\ Trimmed(i) > 0
        /\ TextStart(i) + Trimmed(i) + 2 <= QuestionStart /\ TextStart(i) > SinkTokens + 3
    BY <1>1, <1>3, <1>5
  <2>2. ASSUME NEW j \in 1..n
        PROVE  TextStart(i) - 1 # TextStart(j) /\ TextStart(i) - 1 # TextStart(j) + Trimmed(j)
    <3>1. /\ TextStart(j) \in Nat /\ Trimmed(j) \in Nat /\ Trimmed(j) > 0 /\ i \in 1..(n + 1) /\ j \in 1..(n + 1)
      BY <1>1
    <3>2. CASE j < i
      <4>1. TextStart(j) + Trimmed(j) + 3 <= TextStart(i)
        BY <1>2, <3>1, <3>2
      <4>2. QED
        BY <2>1, <3>1, <4>1
    <3>3. CASE i < j
      <4>1. TextStart(i) + Trimmed(i) + 3 <= TextStart(j)
        BY <1>2, <3>1, <3>3
      <4>2. QED
        BY <2>1, <3>1, <4>1
    <3>4. CASE i = j
      BY <2>1, <3>4
    <3>5. QED
      BY <1>1, <3>2, <3>3, <3>4
  <2>3. TextStart(i) - 1 \in 0..(PromptChars - 1)
    BY <1>1, <1>6, <1>7, <2>1
  <2>4. QED
    BY <1>10, <2>2, <2>3
<1>14. ASSUME NEW i \in 1..n, NEW x \in (TextStart(i) + 1)..(TextStart(i) + Trimmed(i) - 1)
       PROVE  x \in S
  <2>1. /\ TextStart(i) \in Nat /\ Trimmed(i) \in Nat /\ Trimmed(i) > 0
        /\ TextStart(i) + Trimmed(i) + 2 <= QuestionStart
    BY <1>1, <1>5
  <2>2. x \in Nat /\ TextStart(i) < x /\ x < TextStart(i) + Trimmed(i)
    BY <2>1
  <2>3. ASSUME NEW j \in 1..n
        PROVE  x # TextStart(j) /\ x # TextStart(j) + Trimmed(j)
    <3>1. /\ TextStart(j) \in Nat /\ Trimmed(j) \in Nat /\ Trimmed(j) > 0 /\ i \in 1..(n + 1) /\ j \in 1..(n + 1)
      BY <1>1
    <3>2. CASE j < i
      <4>1. TextStart(j) + Trimmed(j) + 3 <= TextStart(i)
        BY <1>2, <3>1, <3>2
      <4>2. QED
        BY <2>1, <2>2, <3>1, <4>1
    <3>3. CASE i < j
      <4>1. TextStart(i) + Trimmed(i) + 3 <= TextStart(j)
        BY <1>2, <3>1, <3>3
      <4>2. QED
        BY <2>1, <2>2, <3>1, <4>1
    <3>4. CASE i = j
      BY <2>1, <2>2, <3>4
    <3>5. QED
      BY <1>1, <3>2, <3>3, <3>4
  <2>4. x \in 0..(PromptChars - 1)
    BY <1>6, <1>7, <2>1, <2>2
  <2>5. QED
    BY <1>10, <2>3, <2>4
<1>15. QED
  BY <1>3, <1>5, <1>6, <1>7, <1>9, <1>11, <1>12, <1>13, <1>14 DEF n, S

\* The tokens of a segment run from a to b, which lie over its first and last character.
Between(S, i) ==
    \E a, b \in S :
       /\ TextStart(i) - 1 <= a /\ a <= TextStart(i) /\ a <= b /\ b < TextStart(i) + Trimmed(i)
       /\ LastBefore(S, TextStart(i) + 1, a) /\ LastBefore(S, TextStart(i) + Trimmed(i), b)
       /\ SpanIn(S, i) = <<Rank(S, a), Rank(S, b) + 1>>

\* The tokens of a segment: from the one over its first character to the one over its last.
LEMMA SpanIs ==
  ASSUME Ready, NEW glued \in SUBSET Glues, NEW i \in 1..Len(segments)
  PROVE  Between(PromptStarts(glued), i)
<1> DEFINE S == PromptStarts(glued)
           s == TextStart(i)
           t == Trimmed(i)
           e == s + t
<1>2. s \in Nat /\ t \in Nat /\ t > 0 /\ SinkTokens \in Nat
  BY PlacesGrow
<1>a. /\ PromptChars \in Nat /\ S \subseteq 0..(PromptChars - 1)
      /\ QuestionStart + 1 < PromptChars /\ QuestionStart \in S
      /\ TextStart(i) > SinkTokens + 3
      /\ TextStart(i) + Trimmed(i) + 2 <= QuestionStart
      /\ TextStart(i) - 1 \in S
      /\ \A x \in (TextStart(i) + 1)..(TextStart(i) + Trimmed(i) - 1) : x \in S
  BY PromptFacts
<1>b. QuestionStart \in Nat
  BY <1>a
<1>1. /\ PromptChars \in Nat /\ S \subseteq 0..(PromptChars - 1)
      /\ QuestionStart + 1 < PromptChars /\ QuestionStart \in S
      /\ s > SinkTokens + 3 /\ e + 2 <= QuestionStart /\ s - 1 \in S
      /\ \A x \in (s + 1)..(e - 1) : x \in S
  <2>1. e - 1 = s + t - 1 /\ (e + 2 <= QuestionStart <=> s + t + 2 <= QuestionStart)
    BY <1>2, <1>b
  <2>2. QED
    BY <1>a, <2>1
<1>3. SpanIn(S, i) = TokenRange(S, s, e)
  BY DEF SpanIn
<1> HIDE DEF S, s, t
<1>4. QuestionStart \in Nat /\ e \in Nat /\ s < e /\ s < PromptChars
  BY <1>1, <1>2
<1>5. \A x \in S : x \in Nat
  BY <1>1
<1>6. PICK a \in S : s - 1 <= a /\ a <= s /\ \A x \in S : x <= s => x <= a
  <2>1. CASE s \in S
    BY <1>2, <2>1
  <2>2. CASE s \notin S
    <3>1. \A x \in S : x <= s => x <= s - 1
      BY <1>2, <1>5, <2>2
    <3>2. s - 1 <= s - 1 /\ s - 1 <= s
      BY <1>2
    <3>3. QED
      BY <1>1, <3>1, <3>2
  <2>3. QED
    BY <2>1, <2>2
<1>7. PICK b \in S : a <= b /\ b < e /\ (t > 1 => b = e - 1) /\ \A x \in S : x < e => x <= b
  <2>1. CASE t > 1
    <3>1. e - 1 \in S
      <4>1. e - 1 \in (s + 1)..(e - 1)
        BY <1>2, <2>1
      <4>2. QED
        BY <1>1, <4>1
    <3>2. a <= e - 1 /\ e - 1 < e
      BY <1>2, <1>5, <1>6, <2>1
    <3>3. \A x \in S : x < e => x <= e - 1
      BY <1>4, <1>5
    <3>4. QED
      BY <3>1, <3>2, <3>3
  <2>2. CASE t = 1
    <3>1. \A x \in S : x < e => x <= a
      BY <1>2, <1>5, <1>6, <2>2
    <3>2. a \in Nat /\ a < e /\ a <= a
      <4>1. a \in Nat
        BY <1>5
      <4>2. QED
        BY <1>2, <1>4, <1>6, <4>1
    <3>3. QED
      BY <2>2, <3>1, <3>2
  <2>3. QED
    BY <1>2, <2>1, <2>2
<1>8. /\ TokenRange(S, s, e) = <<Rank(S, a), Rank(S, b) + 1>>
      /\ LastBefore(S, s + 1, a) /\ LastBefore(S, e, b)
  <2>1. LastBefore(S, s + 1, a) /\ LastBefore(S, e, b) /\ InPrompt(S)
    BY <1>1, <1>2, <1>5, <1>6, <1>7 DEF LastBefore, InPrompt
  <2> HIDE DEF e
  <2>2. QED
    BY <1>2, <1>4, <2>1, TokenRangeIs
<1>9. QED
  BY <1>3, <1>6, <1>7, <1>8 DEF S, s, t, Between

\* Between the token over the first character and the one over the last, every
\* character but the first begins a token.
LEMMA SpanOver ==
  ASSUME Ready, NEW glued \in SUBSET Glues, NEW i \in 1..Len(segments)
  PROVE  Over(PromptStarts(glued), SpanIn(PromptStarts(glued), i), i)
<1> DEFINE S == PromptStarts(glued)
           s == TextStart(i)
           t == Trimmed(i)
<1>1. s \in Nat /\ t \in Nat /\ t > 0
  BY PlacesGrow
<1>2. /\ PromptChars \in Nat /\ S \subseteq 0..(PromptChars - 1)
      /\ \A x \in (s + 1)..(s + t - 1) : x \in S
  BY PromptFacts
<1>3. PICK a \in S, b \in S :
         /\ LastBefore(S, s + 1, a) /\ LastBefore(S, s + t, b)
         /\ SpanIn(S, i) = <<Rank(S, a), Rank(S, b) + 1>>
  BY SpanIs DEF Between
<1> HIDE DEF S, s, t
<1>4. S \subseteq Nat /\ IsFiniteSet(S) /\ a \in Nat /\ b \in Nat
  <2>1. IsFiniteSet(0..(PromptChars - 1))
    BY <1>2, FS_Interval
  <2>2. \A x \in S : x \in Nat
    BY <1>2
  <2>3. QED
    BY <1>2, <2>1, <2>2, FS_Subset
<1>5. /\ \A x \in Nat : Rank(S, x) \in Nat
      /\ \A x \in S : Rank(S, x + 1) = Rank(S, x) + 1
  BY <1>4, RankFacts
<1>6. ASSUME NEW x \in Nat, NEW c \in S, LastBefore(S, x, c)
      PROVE  Rank(S, x) = Rank(S, c) + 1
  <2>1. \A j \in S : j \in Nat /\ (j < x <=> j < c + 1)
    BY <1>4, <1>6 DEF LastBefore
  <2>2. {j \in S : j < x} = {j \in S : j < c + 1}
    BY <2>1
  <2>3. QED
    BY <1>5, <2>2 DEF Rank
<1>7. Rank(S, s + 1) = Rank(S, a) + 1 /\ Rank(S, s + t) = Rank(S, b) + 1
  BY <1>1, <1>3, <1>6
<1>8. ASSUME NEW d \in 0..(t - 1)
      PROVE  Rank(S, s + d + 1) = Rank(S, a) + d + 1
  <2>1. d \in Nat /\ s + 1 \in Nat /\ s + d + 1 \in Nat /\ s + 1 <= s + d + 1
    BY <1>1
  <2>2. \A k \in (s + 1)..((s + d + 1) - 1) : k \in S
    BY <1>1, <1>2
  <2>3. Rank(S, s + d + 1) = Rank(S, s + 1) + ((s + d + 1) - (s + 1))
    BY <1>4, <2>1, <2>2, RankAlong
  <2>4. (s + d + 1) - (s + 1) = d
    BY <1>1, <2>1
  <2>5. QED
    BY <1>4, <1>5, <1>7, <2>1, <2>3, <2>4
<1>9. Rank(S, b) + 1 = Rank(S, a) + t
  <2>1. t - 1 \in 0..(t - 1) /\ s + (t - 1) + 1 = s + t
    BY <1>1
  <2>2. Rank(S, s + t) = Rank(S, a) + (t - 1) + 1
    BY <1>8, <2>1
  <2>3. QED
    BY <1>1, <1>4, <1>5, <1>7, <2>2
<1>10. QED
  BY <1>3, <1>8, <1>9 DEF S, s, t, Over

\* The rendered prompt is arranged so.
LEMMA LayoutArranged ==
  ASSUME Ready, NEW glued \in SUBSET Glues
  PROVE  Arranged(LayoutOf(PromptStarts(glued)))
<1> DEFINE S == PromptStarts(glued)
           n == Len(segments)
           q == QuestionStart
           l == LayoutOf(S)
<1>1. /\ PromptChars \in Nat /\ S \subseteq 0..(PromptChars - 1)
      /\ q \in S /\ q + 1 < PromptChars
      /\ \A x \in 0..SinkTokens : x \in S
      /\ \A i \in 1..n : TextStart(i) > SinkTokens + 3 /\ TextStart(i) + Trimmed(i) + 2 <= q
                         /\ \A x \in (TextStart(i) + 1)..(TextStart(i) + Trimmed(i) - 1) : x \in S
  BY PromptFacts
<1>2. /\ n \in Nat \ {0} /\ DOMAIN segments = 1..n /\ SinkTokens \in Nat
      /\ \A i \in 1..n : Trimmed(i) \in Nat /\ Trimmed(i) > 0 /\ TextStart(i) \in Nat
  BY PlacesGrow
<1>3. \A i \in 1..n, j \in 1..(n + 1) : i < j => TextStart(i) + Trimmed(i) + 3 <= TextStart(j)
  BY PlacesIncrease
<1>4. \A i \in 1..n : Between(S, i)
  BY SpanIs
<1>5. /\ l.prompt = Cardinality(S)
      /\ l.segments = [i \in 1..n |-> SpanIn(S, i)]
      /\ l.window = <<TokenRange(S, q, q + 1)[1], Cardinality(S)>>
      /\ l.sink = <<0, Lesser(SinkTokens, Cardinality(S))>>
  BY <1>2 DEF LayoutOf
<1> HIDE DEF S, n, l, q
<1>6. S \subseteq Nat /\ IsFiniteSet(S) /\ \A x \in S : x \in Nat
  <2>1. IsFiniteSet(0..(PromptChars - 1))
    BY <1>1, FS_Interval
  <2>2. IsFiniteSet(S)
    BY <1>1, <2>1, FS_Subset
  <2>3. \A x \in S : x \in Nat
    BY <1>1
  <2>4. QED
    BY <2>2, <2>3
<1>7. q \in Nat
  BY <1>1, <1>6
<1>8. TokenRange(S, q, q + 1) = <<Rank(S, q), Rank(S, q) + 1>>
  <2>1. q + 1 \in Nat /\ q < q + 1 /\ q < PromptChars /\ LastBefore(S, q + 1, q) /\ InPrompt(S)
    BY <1>1, <1>6, <1>7 DEF LastBefore, InPrompt
  <2> HIDE DEF LastBefore
  <2>2. QED
    BY <1>7, <2>1, TokenRangeIs
<1>9. Cardinality(S) \in Nat
  BY <1>6, FS_CardinalityType
<1>10. /\ \A x \in Nat : Rank(S, x) \in Nat /\ Rank(S, x) <= Cardinality(S)
       /\ \A x, y \in Nat : x <= y => Rank(S, x) <= Rank(S, y)
       /\ \A x \in S : Rank(S, x + 1) = Rank(S, x) + 1
       /\ \A x \in S, y \in Nat : x < y => Rank(S, x) + 1 <= Rank(S, y)
  BY <1>6, RankFacts
<1>11. Rank(S, q) \in Nat /\ Rank(S, q) + 1 <= Cardinality(S)
  <2>1. Rank(S, q + 1) = Rank(S, q) + 1 /\ q + 1 \in Nat
    BY <1>1, <1>7, <1>10
  <2>2. QED
    BY <1>7, <1>10, <2>1
<1>12. Rank(S, SinkTokens) = SinkTokens
  <2>1. Rank(S, 0) = 0
    <3>0. \A j \in S : ~(j < 0)
      BY <1>6
    <3>1. {j \in S : j < 0} = {}
      BY <3>0
    <3>2. QED
      BY <3>1, FS_EmptySet DEF Rank
  <2>2. 0 <= SinkTokens /\ \A k \in 0..(SinkTokens - 1) : k \in S
    BY <1>1, <1>2
  <2>3. Rank(S, SinkTokens) = Rank(S, 0) + (SinkTokens - 0)
    BY <1>2, <1>6, <2>2, RankAlong
  <2>4. QED
    BY <1>2, <2>1, <2>3
<1>13. ASSUME NEW i \in 1..n
       PROVE  /\ SpanIn(S, i) \in Nat \X Nat
              /\ SinkTokens <= SpanIn(S, i)[1] /\ SpanIn(S, i)[1] < SpanIn(S, i)[2]
              /\ SpanIn(S, i)[2] <= Rank(S, q)
  <2>1. PICK a \in S, b \in S :
          /\ TextStart(i) - 1 <= a /\ a <= TextStart(i) /\ a <= b /\ b < TextStart(i) + Trimmed(i)
          /\ SpanIn(S, i) = <<Rank(S, a), Rank(S, b) + 1>>
    BY <1>4 DEF Between
  <2> DEFINE s == TextStart(i)
             t == Trimmed(i)
             ra == Rank(S, a)
             rb == Rank(S, b)
  <2>2. /\ s \in Nat /\ t \in Nat /\ t > 0 /\ s > SinkTokens + 3 /\ s + t + 2 <= q
        /\ \A x \in (s + 1)..(s + t - 1) : x \in S
    BY <1>1, <1>2
  <2>3. a \in Nat /\ b \in Nat
    BY <1>6
  <2>4. ra \in Nat /\ rb \in Nat
    BY <1>10, <2>3
  <2>5. ra <= rb
    BY <1>10, <2>1, <2>3
  <2>6. SinkTokens <= ra
    <3>1. SinkTokens <= a
      BY <1>2, <2>1, <2>2, <2>3
    <3>2. QED
      BY <1>2, <1>10, <1>12, <2>3, <3>1
  <2>7. rb + 1 <= Rank(S, q)
    <3>1. b < q
      BY <1>7, <2>1, <2>2, <2>3
    <3>2. QED
      BY <1>7, <1>10, <3>1
  <2>8. QED
    BY <2>1, <2>4, <2>5, <2>6, <2>7
<1>14. ASSUME NEW i \in 1..n, NEW j \in 1..n, i < j
       PROVE  SpanIn(S, i)[2] <= SpanIn(S, j)[1]
  <2>1. PICK a \in S, b \in S :
          /\ TextStart(i) - 1 <= a /\ a <= TextStart(i) /\ a <= b /\ b < TextStart(i) + Trimmed(i)
          /\ SpanIn(S, i) = <<Rank(S, a), Rank(S, b) + 1>>
    BY <1>4 DEF Between
  <2>2. PICK c \in S, d \in S :
          /\ TextStart(j) - 1 <= c /\ c <= TextStart(j) /\ c <= d /\ d < TextStart(j) + Trimmed(j)
          /\ SpanIn(S, j) = <<Rank(S, c), Rank(S, d) + 1>>
    BY <1>4 DEF Between
  <2>3. TextStart(i) + Trimmed(i) + 3 <= TextStart(j)
    BY <1>2, <1>3, <1>14
  <2>a. /\ TextStart(i) \in Nat /\ Trimmed(i) \in Nat /\ TextStart(j) \in Nat
        /\ b \in Nat /\ c \in Nat
    BY <1>2, <1>6
  <2>4. b < c
    BY <2>1, <2>2, <2>3, <2>a
  <2>5. Rank(S, b) + 1 <= Rank(S, c)
    BY <1>6, <1>10, <2>4
  <2>6. QED
    BY <2>1, <2>2, <2>5
<1>15. Lesser(SinkTokens, Cardinality(S)) = SinkTokens /\ SinkTokens <= Cardinality(S)
  BY <1>2, <1>9, <1>10, <1>12 DEF Lesser
<1>16. Cardinality(S) # 0
  BY <1>9, <1>11
<1>17. l.segments \in [1..n -> Nat \X Nat] /\ \A i \in 1..n : l.segments[i] = SpanIn(S, i)
  BY <1>5, <1>13
<1>18. l.window = <<Rank(S, q), Cardinality(S)>>
  BY <1>5, <1>8
<1>19. l.window \in Nat \X Nat /\ l.window[1] = Rank(S, q) /\ l.window[2] = Cardinality(S)
       /\ Rank(S, q) <= Cardinality(S)
  BY <1>9, <1>11, <1>18
<1>20. /\ l.prompt \in Nat \ {0}
       /\ l.sink = <<0, SinkTokens>> /\ SinkTokens <= l.prompt
  BY <1>5, <1>9, <1>15, <1>16
<1>21. \A i \in 1..n :
          /\ SinkTokens <= l.segments[i][1]
          /\ l.segments[i][1] < l.segments[i][2]
          /\ l.segments[i][2] <= l.window[1]
  BY <1>13, <1>17, <1>19
<1>22. \A i, j \in 1..n : i < j => l.segments[i][2] <= l.segments[j][1]
  BY <1>14, <1>17
<1>23. l.window \in Nat \X Nat /\ l.window[1] <= l.window[2] /\ l.window[2] = l.prompt
  BY <1>5, <1>19
<1>24. Arranged(l)
  BY <1>17, <1>20, <1>21, <1>22, <1>23 DEF Arranged, n
<1>25. QED
  BY <1>24 DEF l, S

\* And its segments are where their texts are.
LEMMA LayoutLocated ==
  ASSUME Ready, NEW glued \in SUBSET Glues
  PROVE  Located(LayoutOf(PromptStarts(glued)), PromptStarts(glued))
<1>1. DOMAIN segments = 1..Len(segments)
  BY PlacesGrow
<1>2. \A x \in PromptStarts(glued) : x \in Nat
  BY PromptFacts
<1>3. \A i \in 1..Len(segments) : Over(PromptStarts(glued), SpanIn(PromptStarts(glued), i), i)
  BY SpanOver
<1>4. \A i \in 1..Len(segments) :
         LayoutOf(PromptStarts(glued)).segments[i] = SpanIn(PromptStarts(glued), i)
  BY <1>1 DEF LayoutOf
<1>5. QED
  BY <1>2, <1>3, <1>4 DEF Located

-----------------------------------------------------------------------------
(* The steps and the theorems.                                             *)

\* What depends on the text, its tokens and the spans alone.
LEMMA SpansSame ==
  ASSUME SegmenterInv, UNCHANGED <<text, starts, todo, segments, cutFrom>>
  PROVE  /\ Context' /\ Tiles' /\ Placeholder' /\ Kept' /\ CoarsestBoundary'
         /\ \A l : Arranged(l)' <=> Arranged(l)
         /\ \A l, S : Located(l, S)' <=> Located(l, S)
<1>1. SplitTyped /\ Tiles /\ Placeholder /\ Kept /\ CoarsestBoundary /\ Context
  BY DEF SegmenterInv, SplitTyped
<1>2. text' = text /\ starts' = starts /\ todo' = todo /\ segments' = segments /\ cutFrom' = cutFrom
  OBVIOUS
<1>3. Size' = Size /\ Context' /\ (AllBlank(<<0, Size>>)' <=> AllBlank(<<0, Size>>))
  BY <1>1, <1>2, TextSame
<1>4. (\A i : SpanAt(i)' = SpanAt(i)) /\ Pieces' = Pieces
  BY <1>2 DEF SpanAt, Pieces
<1>5. Tiles'
  <2>1. PICK q : q = Pieces
    OBVIOUS
  <2>2. SpanAt(Pieces)' = SpanAt(q)
    BY <1>4, <2>1
  <2>3. QED
    BY <1>1, <1>3, <1>4, <2>1, <2>2 DEF Tiles
<1>6. Placeholder'
  BY <1>1, <1>2, <1>3 DEF Placeholder
<1>7. Kept'
  BY <1>1, <1>2, <1>3, TextSame DEF Kept
<1>8. CoarsestBoundary'
  BY <1>1, <1>2, CoarsestSame
<1>9. \A i : Trimmed(i)' = Trimmed(i)
  <2>1. \A i : Blank(i)' <=> Blank(i)
    BY <1>2 DEF Blank, Char
  <2>2. ASSUME NEW i
        PROVE  Trimmed(i)' = Trimmed(i)
    <3>1. PICK s : s = segments[i].span
      OBVIOUS
    <3>2. segments'[i].span = s
      BY <1>2, <3>1
    <3>3. AllBlank(s)' <=> AllBlank(s)
      BY <1>2, TextSame
    <3>4. {k \in s[1]..(s[2] - 1) : ~Blank(k)'} = {k \in s[1]..(s[2] - 1) : ~Blank(k)}
      BY <2>1
    <3>5. QED
      BY <1>3, <3>1, <3>2, <3>3, <3>4 DEF Trimmed
  <2>3. QED
    BY <2>2
<1>10. \A l : Arranged(l)' <=> Arranged(l)
  BY <1>2 DEF Arranged
<1>11. \A i : TextStart(i)' = TextStart(i)
  <2>1. \A j : BlockLen(j)' = BlockLen(j)
    BY <1>9 DEF BlockLen
  <2>2. \A i : [j \in 1..(i - 1) |-> BlockLen(j)'] = [j \in 1..(i - 1) |-> BlockLen(j)]
    BY <2>1
  <2>3. QED
    BY <2>2 DEF TextStart, FirstBlock
<1>12. \A S, span, i : Over(S, span, i)' <=> Over(S, span, i)
  BY <1>9, <1>11 DEF Over, Rank
<1>13. \A l, S : Located(l, S)' <=> Located(l, S)
  BY <1>2, <1>12 DEF Located
<1>14. QED
  BY <1>3, <1>5, <1>6, <1>7, <1>8, <1>10, <1>13

\* Every step keeps the invariant.
LEMMA SegmenterKept ==
  ASSUME SegmenterInv, [SegmenterNext]_segmenterVars
  PROVE  SegmenterInv'
<1>1. SplitTyped /\ Tiles /\ Placeholder /\ Rendered /\ Context
  BY DEF SegmenterInv, SplitTyped
<1>2. CASE KeepWhole
  BY <1>2, KeepStep DEF KeepWhole, Fits
<1>3. CASE KeepAtomic
  <2>1. phase = "split" /\ todo # <<>> /\ Keep(TRUE) /\ UsableLevels(Head(todo)[1], Head(todo)[2]) = {}
    BY <1>3 DEF KeepAtomic
  <2>2. Atomic(Head(todo)[1], Head(todo)[2])
    BY <1>1, <2>1, NextSpan, NoCutAtomic
  <2>3. QED
    BY <2>1, <2>2, KeepStep
<1>4. CASE Cut
  BY <1>4, CutStep
<1>5. CASE Split
  <2>1. /\ UNCHANGED <<text, starts, todo, segments, cutFrom>> /\ layout' = layout /\ offsets' = offsets
        /\ todo = <<>> /\ phase = "split" /\ phase' \in {"render", "refused"}
    BY <1>5 DEF Split
  <2>2. SplitTyped'
    BY <1>1, <2>1, SpansSame DEF SplitTyped
  <2>3. Rendered'
    BY <1>1, <2>1 DEF Rendered
  <2>4. QED
    BY <2>1, <2>2, <2>3, SpansSame DEF SegmenterInv
<1>6. CASE Render
  <2>1. /\ UNCHANGED <<text, starts, todo, segments, cutFrom>>
        /\ phase = "render" /\ phase' = "done"
        /\ \A i \in DOMAIN segments : Trimmed(i) > 0
    BY <1>6 DEF Render
  <2>2. PICK glued \in SUBSET Glues : /\ layout' = LayoutOf(PromptStarts(glued))
                                      /\ offsets' = PromptStarts(glued)
    BY <1>6 DEF Render
  <2>3. todo = <<>>
    BY <1>1, <2>1 DEF SplitTyped
  <2>4. Ready
    BY <1>1, <2>1, <2>3 DEF Ready
  <2>5. PICK l, S : l = layout' /\ S = offsets'
    OBVIOUS
  <2>6. Arranged(l) /\ Located(l, S)
    BY <2>2, <2>4, <2>5, LayoutArranged, LayoutLocated
  <2>7. Arranged(l)' /\ Located(l, S)'
    BY <2>1, <2>6, SpansSame
  <2>8. Rendered'
    BY <2>1, <2>5, <2>7 DEF Rendered, Arranged, Located, Over, Rank
  <2>9. SplitTyped'
    BY <1>1, <2>1, SpansSame DEF SplitTyped
  <2>10. QED
    BY <2>1, <2>8, <2>9, SpansSame DEF SegmenterInv
<1>7. CASE RenderFails
  <2>1. /\ UNCHANGED <<text, starts, todo, segments, cutFrom>> /\ layout' = layout /\ offsets' = offsets
        /\ phase = "render" /\ phase' = "refused"
    BY <1>7 DEF RenderFails
  <2>2. SplitTyped'
    BY <1>1, <2>1, SpansSame DEF SplitTyped
  <2>3. Rendered'
    BY <1>1, <2>1 DEF Rendered
  <2>4. QED
    BY <2>1, <2>2, <2>3, SpansSame DEF SegmenterInv
<1>8. CASE UNCHANGED segmenterVars
  <2>1. /\ UNCHANGED <<text, starts, todo, segments, cutFrom>> /\ layout' = layout /\ phase' = phase
        /\ offsets' = offsets
    BY <1>8 DEF segmenterVars
  <2>2. SplitTyped'
    BY <1>1, <2>1, SpansSame DEF SplitTyped
  <2>3. Rendered'
    <3>1. PICK l, S : l = layout /\ S = offsets
      OBVIOUS
    <3>2. (Arranged(l)' <=> Arranged(l)) /\ (Located(l, S)' <=> Located(l, S))
      BY <2>1, SpansSame
    <3>3. /\ phase = "done" => Arranged(l) /\ Located(l, S)
          /\ phase # "done" => l = NoLayout /\ S = {}
      BY <1>1, <3>1 DEF Rendered
    <3>4. layout' = l /\ offsets' = S /\ phase' = phase
      BY <2>1, <3>1
    <3>5. phase' = "done" => Arranged(layout)' /\ Located(layout, offsets)'
      BY <3>2, <3>3, <3>4 DEF Arranged, Located, Over, Rank
    <3>6. QED
      BY <3>3, <3>4, <3>5 DEF Rendered, NoLayout
  <2>4. QED
    BY <2>1, <2>2, <2>3, SpansSame DEF SegmenterInv
<1>9. QED
  BY <1>2, <1>3, <1>4, <1>5, <1>6, <1>7, <1>8 DEF SegmenterNext

\* From the first span to the rendered prompt the invariant holds.
THEOREM SegmenterHolds == SegmenterSpec => []SegmenterInv
<1>1. SegmenterInit => SegmenterInv
  BY SegmenterStarts
<1>2. SegmenterInv /\ [SegmenterNext]_segmenterVars => SegmenterInv'
  BY SegmenterKept
<1>3. QED
  BY <1>1, <1>2, PTL DEF SegmenterSpec

\* Every cut was made at the coarsest boundary its span has.
THEOREM CutsAreCoarsest == SegmenterSpec => []CoarsestBoundary
<1>1. SegmenterInv => CoarsestBoundary
  BY DEF SegmenterInv
<1>2. QED
  BY <1>1, SegmenterHolds, PTL

\* The spans, written as one sequence.
LEMMA SpansAre ==
  ASSUME SplitTyped
  PROVE  LET spans == [i \in DOMAIN segments |-> segments[i].span] \o todo
         IN  Len(spans) = Pieces /\ DOMAIN spans = 1..Pieces /\ \A i \in 1..Pieces : spans[i] = SpanAt(i)
<1> DEFINE n == Len(segments)
           m == Len(todo)
           Recs == [span : Nat \X Nat, uncuttable : BOOLEAN]
           SpanSet == Nat \X Nat
           done == [i \in DOMAIN segments |-> segments[i].span]
           spans == done \o todo
<1>1. /\ segments \in Seq(Recs) /\ todo \in Seq(SpanSet)
      /\ \A r \in Recs : r.span \in SpanSet
  BY DEF SplitTyped
<1> HIDE DEF Recs, SpanSet
<1>2. n \in Nat /\ m \in Nat /\ DOMAIN segments = 1..n /\ \A i \in 1..n : segments[i] \in Recs
  BY <1>1
<1>3. done \in [1..n -> SpanSet] /\ \A i \in 1..n : done[i] = segments[i].span
  BY <1>1, <1>2
<1> HIDE DEF done, n
<1>4. done \in Seq(SpanSet) /\ Len(done) = n
  BY <1>2, <1>3
<1> HIDE DEF m
<1>5. Len(spans) = n + m /\ spans \in Seq(SpanSet)
  BY <1>1, <1>4 DEF m
<1>6. Pieces = n + m
  BY DEF Pieces, n, m
<1>7. DOMAIN spans = 1..Pieces
  BY <1>5, <1>6
<1>8. ASSUME NEW i \in 1..Pieces
      PROVE  spans[i] = SpanAt(i)
  <2>1. CASE i <= n
    <3>1. i \in 1..n
      BY <1>2, <1>6, <2>1
    <3>2. spans[i] = done[i]
      BY <1>1, <1>4, <3>1
    <3>3. SpanAt(i) = segments[i].span
      BY <2>1 DEF SpanAt, n
    <3>4. QED
      BY <1>3, <3>1, <3>2, <3>3
  <2>2. CASE ~(i <= n)
    <3>1. i > n /\ i <= n + m /\ i \in Nat
      BY <1>2, <1>6, <2>2
    <3>2. spans[i] = todo[i - n]
      BY <1>1, <1>2, <1>4, <3>1 DEF m
    <3>3. SpanAt(i) = todo[i - n]
      BY <2>2 DEF SpanAt, n
    <3>4. QED
      BY <3>2, <3>3
  <2>3. QED
    BY <2>1, <2>2
<1>9. QED
  BY <1>5, <1>6, <1>7, <1>8 DEF done

\* An arranged layout is one that the hooks accept.
LEMMA ArrangedIsValid ==
  ASSUME SplitTyped, NEW l, Arranged(l)
  PROVE  ValidLayout(l)
<1> DEFINE n == Len(segments)
<1>1. /\ n \in Nat /\ SinkTokens \in Nat
  BY SegmenterAssumption DEF SplitTyped
<1>2. /\ l.prompt \in Nat /\ l.prompt > 0
      /\ l.sink = <<0, SinkTokens>> /\ SinkTokens <= l.prompt
      /\ l.segments \in [1..n -> Nat \X Nat]
      /\ l.window \in Nat \X Nat /\ l.window[1] <= l.window[2] /\ l.window[2] = l.prompt
      /\ \A i \in 1..n : l.segments[i][1] < l.segments[i][2] /\ l.segments[i][2] <= l.window[1]
  BY DEF Arranged
<1> HIDE DEF n
<1>3. l.segments \in Seq(Nat \X Nat) /\ DOMAIN l.segments = 1..n
  BY <1>1, <1>2
<1>4. l.sink \in Nat \X Nat /\ l.sink[1] <= l.sink[2] /\ l.sink[2] <= l.prompt
  BY <1>1, <1>2
<1>5. ASSUME NEW span \in ToSet(l.segments)
      PROVE  span[1] <= span[2] /\ span[2] <= l.prompt
  <2>1. PICK i \in 1..n : span = l.segments[i]
    BY <1>3 DEF ToSet
  <2>2. l.segments[i] \in Nat \X Nat
    BY <1>2
  <2>3. span[1] \in Nat /\ span[2] \in Nat /\ l.window[1] \in Nat /\ l.window[2] \in Nat
    BY <1>2, <2>1, <2>2
  <2>4. QED
    BY <1>2, <2>1, <2>3
<1>6. LayoutType(l)
  BY <1>2, <1>3, <1>4 DEF LayoutType
<1>7. QED
  BY <1>2, <1>4, <1>5, <1>6 DEF ValidLayout

\* The type invariant, and with it that the segments restore the text.
LEMMA SegmenterTypes ==
  ASSUME SegmenterInv
  PROVE  SegmenterTypeOK
<1>1. SplitTyped /\ Tiles /\ Rendered /\ Context /\ text \in Texts
      /\ phase \in {"split", "render", "done", "refused"}
  BY DEF SegmenterInv, SplitTyped
<1>2. Size \in Nat /\ starts \subseteq 0..Size
  <2>1. Size \in Nat
    BY <1>1, ContextFacts
  <2>2. starts \subseteq 0..(Size - 1)
    BY <1>1 DEF Context
  <2>3. QED
    BY <2>1, <2>2
<1> DEFINE spans == [i \in DOMAIN segments |-> segments[i].span] \o todo
<1>3. Len(spans) = Pieces /\ DOMAIN spans = 1..Pieces /\ \A i \in 1..Pieces : spans[i] = SpanAt(i)
  BY <1>1, SpansAre
<1>4. Pieces \in Nat
  BY <1>1 DEF Pieces, SplitTyped
<1> HIDE DEF spans
<1>5. /\ Pieces > 0 /\ SpanAt(1)[1] = 0 /\ SpanAt(Pieces)[2] = Size
      /\ \A i \in 1..(Pieces - 1) : SpanAt(i)[2] = SpanAt(i + 1)[1]
      /\ Size > 0 => \A i \in 1..Pieces : SpanAt(i)[1] < SpanAt(i)[2]
  BY <1>1 DEF Tiles
<1>6. 1 \in 1..Pieces /\ Pieces \in 1..Pieces /\ \A i \in 1..(Pieces - 1) : i \in 1..Pieces /\ i + 1 \in 1..Pieces
  BY <1>4, <1>5
<1>7. /\ spans # <<>> /\ spans[1][1] = 0 /\ Last(spans)[2] = Size
      /\ \A i \in 1..(Len(spans) - 1) : spans[i][2] = spans[i + 1][1]
      /\ Size > 0 => \A i \in DOMAIN spans : spans[i][1] < spans[i][2]
  <2>1. spans # <<>>
    BY <1>3, <1>6
  <2>2. Last(spans) = SpanAt(Pieces)
    BY <1>3, <1>6 DEF Last
  <2>3. \A i \in 1..(Pieces - 1) : spans[i][2] = spans[i + 1][1]
    BY <1>3, <1>5, <1>6
  <2>4. QED
    BY <1>3, <1>5, <1>6, <2>1, <2>2, <2>3
<1>8. \A i \in DOMAIN segments : segments[i].uncuttable \in BOOLEAN
  <2> DEFINE Recs == [span : Nat \X Nat, uncuttable : BOOLEAN]
  <2>1. segments \in Seq(Recs) /\ \A r \in Recs : r.uncuttable \in BOOLEAN
    BY <1>1 DEF SplitTyped
  <2> HIDE DEF Recs
  <2>2. QED
    BY <2>1
<1>9. (layout # NoLayout => ValidLayout(layout)) /\ offsets \subseteq Nat
  BY <1>1, ArrangedIsValid DEF Rendered, Located
<1>10. QED
  BY <1>1, <1>2, <1>7, <1>8, <1>9 DEF SegmenterTypeOK, spans

\* A segment over the limit holds no boundary.
LEMMA OverLimit ==
  ASSUME SegmenterInv
  PROVE  OverLimitIsAtomic
<1>1. SplitTyped /\ Tiles /\ Kept /\ Context /\ Size \in Nat /\ CapTokens \in Nat
  BY ContextFacts, SegmenterAssumption DEF SegmenterInv, SplitTyped
<1>2. SUFFICES ASSUME NEW i \in DOMAIN segments, ~AllBlank(<<0, Size>>),
                      Cardinality(Covering(segments[i].span[1], segments[i].span[2])) > CapTokens
               PROVE  Atomic(segments[i].span[1], segments[i].span[2])
  BY DEF OverLimitIsAtomic, Atomic
<1>3. /\ i \in 1..Len(segments) /\ i <= Len(segments) /\ Len(segments) \in Nat /\ Len(todo) \in Nat
  BY <1>1 DEF SplitTyped
<1>4. i \in 1..Pieces /\ SpanAt(i) = segments[i].span
  BY <1>3 DEF Pieces, SpanAt
<1>5. PICK s \in Nat, e \in Nat : segments[i].span = <<s, e>>
  <2> DEFINE Recs == [span : Nat \X Nat, uncuttable : BOOLEAN]
  <2>1. segments \in Seq(Recs) /\ \A r \in Recs : r.span \in Nat \X Nat
    BY <1>1 DEF SplitTyped
  <2> HIDE DEF Recs
  <2>2. segments[i].span \in Nat \X Nat
    BY <2>1
  <2>3. QED
    BY <2>2
<1>6. Size > 0
  <2>1. SUFFICES ASSUME Size = 0 PROVE FALSE
    BY <1>1
  <2>2. <<0, Size>>[1]..(<<0, Size>>[2] - 1) = {}
    BY <2>1
  <2>3. QED
    BY <1>2, <2>2 DEF AllBlank
<1>7. s < e /\ e <= Size
  BY <1>1, <1>4, <1>5, <1>6 DEF Tiles
<1>8. Overlap(s, e) = Cardinality(Covering(s, e)) /\ Overlap(s, e) \in Nat
  BY <1>1, <1>7, OverlapIsCovering
<1>9. Overlap(s, e) > CapTokens
  BY <1>2, <1>5, <1>8
<1>10. Overlap(s, e) <= CapTokens \/ Atomic(s, e)
  BY <1>1, <1>2, <1>3, <1>5 DEF Kept
<1>11. QED
  BY <1>1, <1>5, <1>8, <1>9, <1>10

\* The segments tile the text in order and are within the limit or atomic.
THEOREM SegmentsTile == SegmenterSpec => []WellSegmented
<1>1. SegmenterInv => WellSegmented
  BY SegmenterTypes, OverLimit DEF WellSegmented
<1>2. QED
  BY <1>1, SegmenterHolds, PTL

\* The tokens over the text of a segment are its span.
LEMMA TokensOverAre ==
  ASSUME SegmenterInv, phase = "done", NEW i \in 1..Len(segments)
  PROVE  TokensOver(i) = layout.segments[i][1]..(layout.segments[i][2] - 1)
<1> DEFINE s == TextStart(i)
           t == Trimmed(i)
           from == layout.segments[i][1]
           to == layout.segments[i][2]
<1>1. SplitTyped /\ Tiles /\ Placeholder /\ Arranged(layout) /\ Located(layout, offsets)
  BY DEF SegmenterInv, Rendered
<1>2. t \in Nat /\ from \in Nat /\ to \in Nat /\ from < to
  <2>1. layout.segments[i] \in Nat \X Nat /\ from < to
    BY <1>1 DEF Arranged
  <2>2. QED
    BY <1>1, <2>1, TrimmedIs
<1>3. /\ to = from + t
      /\ \A d \in 0..(t - 1) : Rank(offsets, s + d + 1) = from + d + 1
      /\ \A x \in offsets : x \in Nat
  BY <1>1 DEF Located, Over
<1>4. s \in Nat
  <2>1. todo = <<>> /\ DOMAIN segments = 1..Len(segments)
    BY <1>1 DEF SplitTyped
  <2>2. ASSUME NEW j \in 1..Len(segments)
        PROVE  Trimmed(j) > 0
    <3>1. layout.segments[j] \in Nat \X Nat /\ layout.segments[j][1] < layout.segments[j][2]
      BY <1>1 DEF Arranged
    <3>2. layout.segments[j][2] = layout.segments[j][1] + Trimmed(j)
      BY <1>1 DEF Located, Over
    <3>3. Trimmed(j) \in Nat
      BY <1>1, TrimmedIs
    <3>4. QED
      BY <3>1, <3>2, <3>3
  <2>3. Ready
    BY <1>1, <2>1, <2>2 DEF Ready
  <2>4. i \in 1..(Len(segments) + 1)
    BY <1>1 DEF SplitTyped
  <2>5. QED
    BY <2>3, <2>4, PlacesGrow
<1>5. ASSUME NEW d \in 0..(t - 1)
      PROVE  TokenOver(s + d) = from + d
  <2>1. d \in Nat /\ s + d \in Nat
    BY <1>2, <1>4
  <2>2. \A j \in offsets : j <= s + d <=> j < s + d + 1
    BY <1>3, <1>4, <2>1
  <2>3. {j \in offsets : j <= s + d} = {j \in offsets : j < s + d + 1}
    BY <2>2
  <2>4. TokenOver(s + d) = Rank(offsets, s + d + 1) - 1
    BY <2>3 DEF TokenOver, Rank
  <2>5. QED
    BY <1>2, <1>3, <2>1, <2>4
<1>6. TokensOver(i) = {TokenOver(k) : k \in s..(s + t - 1)}
  BY DEF TokensOver
<1> HIDE DEF s, t, from, to
<1>7. ASSUME NEW k \in s..(s + t - 1)
      PROVE  TokenOver(k) \in from..(to - 1)
  <2>1. PICK d \in 0..(t - 1) : k = s + d
    <3>1. k - s \in 0..(t - 1) /\ k = s + (k - s)
      BY <1>2, <1>4
    <3>2. QED
      BY <3>1
  <2>2. QED
    BY <1>2, <1>3, <1>5, <2>1
<1>8. ASSUME NEW p \in from..(to - 1)
      PROVE  \E k \in s..(s + t - 1) : TokenOver(k) = p
  <2>1. PICK d \in 0..(t - 1) : p = from + d
    <3>1. p - from \in 0..(t - 1) /\ p = from + (p - from)
      BY <1>2, <1>3
    <3>2. QED
      BY <3>1
  <2>2. s + d \in s..(s + t - 1) /\ TokenOver(s + d) = p
    BY <1>2, <1>4, <1>5, <2>1
  <2>3. QED
    BY <2>2
<1>9. QED
  BY <1>6, <1>7, <1>8 DEF from, to

\* In an arranged prompt, a focus on one segment shows it whole and nothing of another.
LEMMA FocusShows ==
  ASSUME SegmenterInv
  PROVE  FocusShowsTheSegment
<1>1. SUFFICES ASSUME phase = "done", NEW i \in DOMAIN segments
               PROVE  LET shown == Selected("focus", {i}, layout, layout.prompt)
                      IN  /\ TokensOver(i) \subseteq shown
                          /\ TokensOver(i) = layout.segments[i][1]..(layout.segments[i][2] - 1)
                          /\ \A j \in DOMAIN segments \ {i} : TokensOver(j) \cap shown = {}
  BY DEF FocusShowsTheSegment
<1> DEFINE n == Len(segments)
           shown == Selected("focus", {i}, layout, layout.prompt)
           seg(j) == layout.segments[j]
<1>2. SplitTyped /\ Arranged(layout)
  BY <1>1 DEF SegmenterInv, Rendered
<1>3. n \in Nat /\ SinkTokens \in Nat /\ DOMAIN segments = 1..n
  BY <1>2, SegmenterAssumption DEF SplitTyped
<1>4. /\ layout.prompt \in Nat
      /\ layout.sink = <<0, SinkTokens>>
      /\ \A j \in 1..n : /\ seg(j) \in Nat \X Nat /\ SinkTokens <= seg(j)[1] /\ seg(j)[1] < seg(j)[2]
                         /\ seg(j)[2] <= layout.window[1]
      /\ \A j, k \in 1..n : j < k => seg(j)[2] <= seg(k)[1]
      /\ layout.window \in Nat \X Nat /\ layout.window[1] <= layout.window[2]
      /\ layout.window[2] = layout.prompt
  BY <1>2 DEF Arranged
<1> HIDE DEF n, seg
<1>5. /\ layout.sink[1] = 0 /\ layout.sink[2] = SinkTokens
      /\ layout.window[1] \in Nat
      /\ \A j \in 1..n : seg(j)[1] \in Nat /\ seg(j)[2] \in Nat
  BY <1>4
<1>6. ASSUME NEW p \in Nat
      PROVE  p \in shown <=> /\ p < layout.prompt
                             /\ p < SinkTokens \/ layout.window[1] <= p \/ (seg(i)[1] <= p /\ p < seg(i)[2])
  <2>1. p \in shown <=> /\ p \in 0..(layout.prompt - 1)
                        /\ \/ layout.sink[1] <= p /\ p < layout.sink[2]
                           \/ layout.window[1] <= p /\ p < layout.window[2]
                           \/ layout.prompt <= p
                           \/ seg(i)[1] <= p /\ p < seg(i)[2]
    BY DEF Selected, seg
  <2>2. QED
    BY <1>3, <1>4, <1>5, <2>1
<1>7. seg(i)[1]..(seg(i)[2] - 1) \subseteq shown
  <2>1. ASSUME NEW p \in seg(i)[1]..(seg(i)[2] - 1)
        PROVE  p \in shown
    <3>1. p \in Nat /\ seg(i)[1] <= p /\ p < seg(i)[2]
      BY <1>3, <1>5
    <3>2. p < layout.prompt
      BY <1>3, <1>4, <1>5, <3>1
    <3>3. QED
      BY <1>6, <3>1, <3>2
  <2>2. QED
    BY <2>1
<1>8. ASSUME NEW j \in DOMAIN segments \ {i}
      PROVE  shown \cap (seg(j)[1]..(seg(j)[2] - 1)) = {}
  <2>1. ASSUME NEW p \in seg(j)[1]..(seg(j)[2] - 1), p \in shown
        PROVE  FALSE
    <3>1. p \in Nat /\ seg(j)[1] <= p /\ p < seg(j)[2]
      BY <1>3, <1>5
    <3>2. ~(p < SinkTokens) /\ ~(layout.window[1] <= p)
      <4>1. j \in 1..n
        BY <1>3
      <4>2. SinkTokens <= seg(j)[1] /\ seg(j)[2] <= layout.window[1]
        BY <1>4, <4>1
      <4>3. seg(j)[1] \in Nat /\ seg(j)[2] \in Nat
        BY <1>5, <4>1
      <4>4. QED
        BY <1>3, <1>5, <3>1, <4>2, <4>3
    <3>3. seg(i)[1] <= p /\ p < seg(i)[2]
      BY <1>6, <2>1, <3>1, <3>2
    <3>4. i < j \/ j < i
      BY <1>3
    <3>5. seg(i)[2] <= seg(j)[1] \/ seg(j)[2] <= seg(i)[1]
      BY <1>3, <1>4, <3>4
    <3>6. QED
      BY <1>3, <1>5, <3>1, <3>3, <3>5
  <2>2. QED
    BY <2>1
<1>9. \A j \in DOMAIN segments : TokensOver(j) = seg(j)[1]..(seg(j)[2] - 1)
  BY <1>1, <1>3, TokensOverAre DEF n, seg
<1>10. ASSUME NEW j \in DOMAIN segments \ {i}
       PROVE  TokensOver(j) \cap shown = {}
  BY <1>8, <1>9
<1>11. QED
  BY <1>7, <1>9, <1>10 DEF seg

\* The span of a segment is the tokens over its characters; a focus on it shows all
\* of them and none of another segment's.
THEOREM FocusIsTheSegment == SegmenterSpec => []FocusShowsTheSegment
<1>1. SegmenterInv => FocusShowsTheSegment
  BY FocusShows
<1>2. QED
  BY <1>1, SegmenterHolds, PTL

=============================================================================
