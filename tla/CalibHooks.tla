----------------------------- MODULE CalibHooks -----------------------------
(***************************************************************************)
(* The calibration hooks of the worker adapter and the driver that checks  *)
(* what they wrote.  In every forward of the engine three hooks may speak: *)
(* calibration_note_override when the read view of a batch was restricted, *)
(* calibration_capture_logits when the logits are there, and               *)
(* calibration_force_tokens when tokens were sampled.  All are armed by a  *)
(* file that the driver writes after it has submitted its request, so the  *)
(* warm-up goes through unarmed hooks; from then on they must touch that   *)
(* one request and no other.                                               *)
(*                                                                         *)
(* A token is the place it has in the trajectory, or 0 if the sampler      *)
(* chose it.  The engine is external: it may chunk the prompt, preempt the *)
(* request, put another one beside it, or compute nothing.                 *)
(***************************************************************************)
EXTENDS Naturals, Sequences

CONSTANTS
    MaxTokens,      \* max_tokens of the main request
    Trajectories,   \* lengths of --force-trajectory; 0 if there is none
    OtherTokens,    \* bound on the tokens of the other requests
    Slack,          \* rounds the driver grants beyond MaxTokens
    MaxFaults       \* departures of the engine and failures of a hook

ASSUME CalibHooksAssumption ==
    /\ MaxTokens \in Nat \ {0} /\ Trajectories \subseteq Nat
    /\ OtherTokens \in Nat /\ Slack \in Nat /\ MaxFaults \in Nat

Main == "main"
Other == "other"    \* warm-up, clean-up and foreign requests
Requests == {Main, Other}

\* sampled: the rows with num_sampled = 1; a row without is a part of a prompt.
Batches == [reqs : SUBSET Requests, sampled : SUBSET Requests]
NoBatch == [reqs |-> {}, sampled |-> {}]
Unsampled == [r \in Requests |-> 0]

VARIABLES
    pc,             \* the driver: "startup", "drive", "check", "cleanup", "ended"
    verdict,        \* "none", "accepted", "rejected" or "raised"
    \* the arguments of the run
    traj,           \* length of the trajectory
    masked,         \* the arm with restricted read views
    recordLayers,   \* a LayerCapture watches the forwards
    \* the hooks
    armFile,        \* the control file exists
    cached,         \* _CALIB_STATE["arm"] has been read from it
    forceStep, logitsStep,
    forceLog, logits, trace,    \* force.jsonl, logits.pt, steps.jsonl
    \* the engine
    stage,          \* "idle", "forward", "logits", "sample" or "deliver"
    batch,
    behind,         \* the main request still has a prompt to compute
    token,          \* sampled_token_ids of this step
    out,            \* out[r]: the tokens of a request
    \* the driver
    steps, consuming, foreign,
    faults

argVars == <<traj, masked, recordLayers>>
hookVars == <<armFile, cached, forceStep, logitsStep, forceLog, logits, trace>>
engVars == <<stage, batch, behind, token, out>>
hostVars == <<steps, consuming, foreign>>
vars == <<pc, verdict, argVars, hookVars, engVars, hostVars, faults>>

Init ==
    /\ pc = "startup" /\ verdict = "none" /\ traj \in Trajectories
    /\ masked \in BOOLEAN /\ recordLayers \in BOOLEAN
    /\ armFile = FALSE /\ cached = FALSE
    /\ forceStep = 0 /\ logitsStep = 0
    /\ forceLog = <<>> /\ logits = <<>> /\ trace = <<>>
    /\ stage = "idle" /\ batch = NoBatch /\ behind = TRUE
    /\ token = Unsampled /\ out = [r \in Requests |-> <<>>]
    /\ steps = 0 /\ consuming = 0 /\ foreign = FALSE
    /\ faults = 0

Fault == faults < MaxFaults /\ faults' = faults + 1

Raised ==
    /\ pc' = "ended" /\ verdict' = "raised"
    /\ stage' = "idle"

-----------------------------------------------------------------------------
(* The driver submits its request and only then writes the control file,   *)
(* both before the first step.                                             *)

Submit ==
    /\ pc = "startup" /\ stage = "idle"
    /\ armFile' = TRUE /\ pc' = "drive"
    /\ UNCHANGED <<verdict, argVars, cached, forceStep, logitsStep, forceLog, logits, trace, engVars,
                   hostVars, faults>>

-----------------------------------------------------------------------------
(* The engine.                                                             *)

Driving == pc = "drive" /\ stage = "idle" /\ steps < MaxTokens + Slack

Runs(b) ==
    /\ batch' = b /\ stage' = "forward" /\ token' = Unsampled
    /\ UNCHANGED <<pc, verdict, argVars, hookVars, behind, out, hostVars>>

Schedule ==
    /\ Driving
    /\ \/ Runs([reqs |-> {Main}, sampled |-> {Main}]) /\ UNCHANGED faults
       \/ Fault /\ behind /\ Runs([reqs |-> {Main}, sampled |-> {}])
       \/ Fault /\ \E S \in SUBSET {Main} : Runs([reqs |-> S \cup {Other}, sampled |-> S \cup {Other}])

\* Requests of the warm-up, before the file is written, and of the clean-up.
ScheduleOther ==
    /\ pc \in {"startup", "cleanup"} /\ stage = "idle" /\ Len(out[Other]) < OtherTokens
    /\ Runs([reqs |-> {Other}, sampled |-> {Other}])
    /\ UNCHANGED faults

\* The cache of the request is given up; prompt and output are a prompt again.
Preempt ==
    /\ Driving /\ ~behind
    /\ Fault
    /\ behind' = TRUE
    /\ UNCHANGED <<pc, verdict, argVars, hookVars, stage, batch, token, out, hostVars>>

EmptyStep ==
    /\ Driving
    /\ Fault
    /\ steps' = steps + 1
    /\ UNCHANGED <<pc, verdict, argVars, hookVars, engVars, consuming, foreign>>

-----------------------------------------------------------------------------
(* The hooks.                                                              *)

\* Mutant: the file is read anew whenever it is consulted.
CounterAnew(n) == 0

\* calibration_arm: reading the file for the first time resets the counters.
Counter(n) == IF cached THEN n ELSE 0

\* The row the hooks are bound to is in the batch.
Bound == armFile /\ Main \in batch.reqs

TraceStep == Counter(forceStep)

\* Mutant: the capture lets every batch pass.
RefusedNone == FALSE

\* LayerCapture, where it is installed, ends the run at the first forward that
\* is not the prompt in one piece, or one more token, of the request alone.
Refused ==
    /\ recordLayers /\ armFile
    /\ \/ batch # [reqs |-> {Main}, sampled |-> {Main}]
       \/ behind /\ out[Main] # <<>>

\* The override of a decode row is computed, and noted; then the layers run.
Forward ==
    /\ stage = "forward"
    /\ \E restricted \in IF masked /\ Main \in batch.reqs /\ ~behind THEN BOOLEAN ELSE {FALSE} :
         IF restricted /\ Bound
         THEN /\ trace' = Append(trace, [step |-> TraceStep, reqs |-> batch.reqs,
                                         decode |-> Len(out[Main])])
              /\ cached' = TRUE
              /\ forceStep' = Counter(forceStep) /\ logitsStep' = Counter(logitsStep)
         ELSE UNCHANGED <<trace, cached, forceStep, logitsStep>>
    /\ IF Refused /\ pc = "drive"
       THEN Raised
       ELSE stage' = "logits" /\ UNCHANGED <<pc, verdict>>
    /\ UNCHANGED <<argVars, armFile, forceLog, logits, batch, behind, token, out, hostVars, faults>>

\* calibration_capture_logits; the logits of the token to come.
CaptureLogits ==
    /\ stage = "logits"
    /\ IF Bound
       THEN /\ logits' = Append(logits, [step |-> Counter(logitsStep) + 1, reqs |-> batch.reqs,
                                         place |-> Len(out[Main]) + 1])
            /\ logitsStep' = Counter(logitsStep) + 1
       ELSE logits' = logits /\ logitsStep' = IF armFile THEN Counter(logitsStep) ELSE logitsStep
    /\ forceStep' = IF armFile THEN Counter(forceStep) ELSE forceStep
    /\ cached' = armFile
    /\ stage' = "sample"
    /\ UNCHANGED <<pc, verdict, argVars, armFile, forceLog, trace, batch, behind, token, out, hostVars,
                   faults>>

ForcedRows == {Main}

\* Mutant: a forward that only computed a part of the prompt counts as well.
ConsumesChunk == Bound

Consumes == Bound /\ Main \in batch.sampled

Exhausted == forceStep >= traj

\* calibration_force_tokens.
ForceTokens ==
    /\ stage = "sample"
    /\ IF ~Consumes
       THEN stage' = "deliver" /\ UNCHANGED <<pc, verdict, forceStep, forceLog, token>>
       ELSE IF Exhausted
       THEN Raised /\ UNCHANGED <<forceStep, forceLog, token>>
       ELSE /\ stage' = "deliver"
            /\ token' = [r \in Requests |-> IF r \in ForcedRows THEN forceStep + 1 ELSE token[r]]
            /\ forceStep' = forceStep + 1
            /\ forceLog' = Append(forceLog, [step |-> forceStep + 1, reqs |-> batch.reqs,
                                             forced |-> forceStep + 1])
            /\ UNCHANGED <<pc, verdict>>
    /\ UNCHANGED <<argVars, armFile, cached, logitsStep, logits, trace, batch, behind, out, hostVars, faults>>

\* A file cannot be written, or the worker fails for another reason.
HookFails ==
    /\ pc = "drive" /\ stage # "idle"
    /\ Fault
    /\ Raised
    /\ UNCHANGED <<argVars, hookVars, batch, behind, token, out, hostVars>>

\* The token goes to the worker's history and, the same, to the host; the
\* request is over with its last token, or when a token ends the text.
Deliver ==
    /\ stage = "deliver"
    /\ out' = [r \in Requests |-> IF r \in batch.sampled THEN Append(out[r], token[r]) ELSE out[r]]
    /\ behind' = (behind /\ Main \notin batch.sampled)
    /\ stage' = "idle"
    /\ IF pc = "drive"
       THEN /\ steps' = steps + 1
            /\ consuming' = IF Main \in batch.sampled THEN consuming + 1 ELSE consuming
            /\ foreign' = (foreign \/ Other \in batch.sampled)
            /\ \/ pc' = (IF Len(out'[Main]) = MaxTokens THEN "check" ELSE pc) /\ UNCHANGED faults
               \/ Fault /\ Main \in batch.sampled /\ pc' = "check"
       ELSE UNCHANGED <<hostVars, pc, faults>>
    /\ UNCHANGED <<verdict, argVars, hookVars, batch, token>>

-----------------------------------------------------------------------------
(* The driver's checks.                                                    *)

OutOfBudget ==
    /\ pc = "drive" /\ stage = "idle" /\ steps >= MaxTokens + Slack
    /\ Raised
    /\ UNCHANGED <<argVars, hookVars, batch, behind, token, out, hostVars, faults>>

\* Records are numbered from 1 and belong to the main request.
Numbered(log) == \A i \in DOMAIN log : log[i].step = i /\ log[i].reqs = {Main}

\* verify_force_log and the counts around it.
ForceLogOK ==
    IF traj = 0 THEN forceLog = <<>>
    ELSE /\ forceLog # <<>> /\ Numbered(forceLog)
         /\ Len(forceLog) = traj /\ Len(forceLog) = consuming
         /\ \A i \in DOMAIN forceLog : forceLog[i].forced = i

\* verify_override_trace.
TraceOK ==
    /\ (trace # <<>>) <=> masked
    /\ \A i \in DOMAIN trace : trace[i].reqs = {Main}

\* verify_logits_records.
LogitsOK == Numbered(logits) /\ Len(logits) = steps

Check ==
    /\ pc = "check"
    /\ verdict' = IF /\ Len(out[Main]) = MaxTokens /\ ~foreign
                   /\ ForceLogOK /\ TraceOK /\ LogitsOK
                THEN "accepted" ELSE "rejected"
    /\ pc' = "cleanup"
    /\ UNCHANGED <<argVars, hookVars, engVars, hostVars, faults>>

CleanedUp ==
    /\ pc = "cleanup" /\ stage = "idle"
    /\ pc' = "ended"
    /\ UNCHANGED <<verdict, argVars, hookVars, engVars, hostVars, faults>>

Next ==
    \/ Submit \/ Schedule \/ ScheduleOther \/ Preempt \/ EmptyStep
    \/ Forward \/ CaptureLogits \/ ForceTokens \/ HookFails \/ Deliver
    \/ OutOfBudget \/ Check \/ CleanedUp

Spec == Init /\ [][Next]_vars

-----------------------------------------------------------------------------
\* Type invariant.
TypeOK ==
    /\ pc \in {"startup", "drive", "check", "cleanup", "ended"}
    /\ verdict \in {"none", "accepted", "rejected", "raised"}
    /\ traj \in Trajectories /\ masked \in BOOLEAN /\ recordLayers \in BOOLEAN
    /\ armFile \in BOOLEAN /\ cached \in BOOLEAN /\ behind \in BOOLEAN /\ foreign \in BOOLEAN
    /\ forceStep \in 0..traj /\ logitsStep \in Nat
    /\ forceLog \in Seq([step : Nat, reqs : SUBSET Requests, forced : Nat])
    /\ logits \in Seq([step : Nat, reqs : SUBSET Requests, place : Nat])
    /\ trace \in Seq([step : Nat, reqs : SUBSET Requests, decode : Nat])
    /\ stage \in {"idle", "forward", "logits", "sample", "deliver"}
    /\ batch \in Batches /\ batch.sampled \subseteq batch.reqs
    /\ token \in [Requests -> Nat] /\ out \in [Requests -> Seq(Nat)]
    /\ steps \in Nat /\ consuming \in Nat /\ faults \in Nat

\* The main request receives the trajectory token by token, each once and in
\* order, whatever the engine chunks, preempts and computes again: the counter
\* of the hook advances with the tokens, not with the forwards.
TrajectoryInOrder == \A i \in DOMAIN out[Main] : out[Main][i] = i

\* No request but the target is ever given a token it did not sample: not the
\* warm-up before the file exists, not a neighbour in the batch, not the
\* clean-up requests while the file still exists.
OnlyTargetForced == \A i \in DOMAIN out[Other] : out[Other][i] = 0

\* What was noted of a restricted read is filed under the decode step it
\* belongs to: the number of tokens the request had when it ran.
TraceFiledUnderDecode == \A i \in DOMAIN trace : trace[i].step = trace[i].decode

\* An accepted replay is one: all of the trajectory was forced and nothing
\* else, and if layers were captured, logits i are those of token i.
AcceptedIsReplay ==
    (verdict = "accepted" /\ traj # 0) =>
        /\ Len(out[Main]) = MaxTokens /\ traj = MaxTokens
        /\ Len(forceLog) = MaxTokens
        /\ recordLayers => /\ Len(logits) = MaxTokens
                           /\ \A i \in DOMAIN logits : logits[i].place = i

\* A run is stopped for want of trajectory only if one was given, and after
\* the request has received all of it.
StoppedOnlyAtItsEnd ==
    [][(stage = "sample" /\ verdict' = "raised" /\ faults' = faults) =>
          traj # 0 /\ Len(out[Main]) >= traj]_vars

-----------------------------------------------------------------------------
(* The inductive invariant. *)

\* The phases of the driver against the hooks: what is armed, and which batches
\* may be under way (Submit, Check).
PhaseInv ==
    /\ armFile <=> pc # "startup"
    /\ pc \in {"startup", "drive", "check"} => verdict = "none"
    /\ pc \in {"check", "ended"} => stage = "idle"
    /\ verdict = "raised" => pc = "ended"
    /\ pc \in {"startup", "cleanup"} => Main \notin batch.reqs \/ stage = "idle"
    /\ ~armFile => out[Main] = <<>> /\ logits = <<>>

\* The hook's own counters: while the request runs, its counter is the number
\* of tokens the request has, and the log holds a record for each.
CounterInv ==
    /\ cached => armFile
    /\ stage \in {"sample", "deliver"} => (armFile => cached)
    /\ ~cached => forceStep = 0 /\ logitsStep = 0
    /\ (stage # "deliver" /\ verdict # "raised") => forceStep = Len(out[Main])
    /\ Len(forceLog) = forceStep

\* What the sampler hands over, before and after calibration_force_tokens.
TokenInv ==
    /\ stage \notin {"idle", "deliver"} => token = Unsampled
    /\ stage = "deliver" =>
         /\ forceStep = Len(out[Main]) + (IF Consumes THEN 1 ELSE 0)
         /\ Consumes => token[Main] = forceStep
         /\ token[Other] = 0

Captured == stage \in {"sample", "deliver"} /\ Main \in batch.reqs

\* With a LayerCapture the forwards, the logits and the tokens keep step.
LayersInv ==
    (recordLayers /\ armFile /\ verdict # "raised") =>
        /\ \A i \in DOMAIN logits : logits[i].place = i
        /\ Len(logits) = Len(out[Main]) + (IF Captured THEN 1 ELSE 0)
        /\ (pc = "drive" /\ stage \in {"logits", "sample", "deliver"}) =>
              batch = [reqs |-> {Main}, sampled |-> {Main}]

HookInv ==
    /\ TypeOK
    /\ PhaseInv
    /\ CounterInv
    /\ TokenInv
    /\ LayersInv
    /\ TrajectoryInOrder /\ OnlyTargetForced /\ TraceFiledUnderDecode
=============================================================================
