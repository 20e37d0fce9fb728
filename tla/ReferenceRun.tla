---------------------------- MODULE ReferenceRun ----------------------------
(***************************************************************************)
(* One calibration run of tools/p2-calib-run.py around a real engine: the  *)
(* layer capture (LayerCapture) and, in the reference arm, the independent *)
(* dense reference (attnview/reference_run.py, reference_hook.py) replace  *)
(* impl.forward, model.forward and runner.prepare_inputs, number the       *)
(* forwards of the one request they are armed for, and put the originals   *)
(* back.  The engine is external: it may chunk or preempt the prompt, mix  *)
(* in another request, prepare a batch past the wrapper, skip or repeat a  *)
(* layer, and any hook may raise.                                          *)
(*                                                                         *)
(* Data abstraction: tensors, block tables and digests are gone; what a    *)
(* layer computes is the positions it computes and who computes them.  A   *)
(* wrapped method is named by what its attribute holds: the original, the  *)
(* reference's wrapper or the capture's.                                   *)
(***************************************************************************)
EXTENDS Naturals, Sequences, FiniteSets

CONSTANTS
    Layers,         \* the full-attention layers
    Model,          \* the slot of model.forward
    Prepare,        \* the slot of runner.prepare_inputs
    Arm,            \* "plain", "masked" or "reference"
    PromptLen,      \* prompt length the driver states
    Total,          \* max_tokens: forwards the main request should take
    Slack,          \* steps the driver grants beyond Total (16 in the code)
    CleanupForwards,\* forwards of the clean-up check
    MaxFaults       \* departures of the engine from the plain course

ASSUME ReferenceRunAssumption ==
    /\ IsFiniteSet(Layers) /\ Layers # {}
    /\ Model \notin Layers /\ Prepare \notin Layers /\ Model # Prepare
    /\ Arm \in {"plain", "masked", "reference"}
    /\ PromptLen \in Nat \ {0}
    /\ Total \in Nat \ {0, 1}
    /\ Slack \in Nat /\ CleanupForwards \in Nat /\ MaxFaults \in Nat

Slots == Layers \cup {Model, Prepare}
HasReference == Arm = "reference"
Fixture == Arm \in {"masked", "reference"}
Structured == Fixture
StepBudget == Total + Slack

Main == "main"
Other == "other"
NoReq == "none"
Requests == {Main, Other}

\* A batch: the requests in it, the first position and the number of tokens it
\* computes (for the main request, if it is there), and the is_prefilling flag.
Batches == [reqs : SUBSET Requests, start : Nat, len : Nat, prefill : BOOLEAN]
NoBatch == [reqs |-> {}, start |-> 0, len |-> 0, prefill |-> FALSE]

VARIABLES
    pc,             \* what the driver is doing
    verdict,        \* "none", "accepted", "rejected" or "raised"
    \* the wrapped attributes
    at,             \* at[s]: what the attribute holds: "orig", "att" or "cap"
    attSaved,       \* attachment.wrapped: "none", or what was found there
    capSaved,       \* capture._restores: "none", or what was found there
    \* the capture
    armed,          \* armed_req_id is the main request
    stepOpen,       \* _step_open
    requestStep,    \* request_step
    records,        \* records[k]: the layers observed in step k
    positions,      \* positions[k]: start and len of finished step k
    batch, fresh,   \* current_input_batch; not yet used by the reference
    \* the reference
    reqId,          \* ReferenceRun.request_id
    enabled,        \* switch.enabled
    curReq, curStep,\* switch.current_request_id, current_step
    completed,      \* number of finished forwards
    snaps,          \* snapshots[k]: the layers checked in forward k
    ledger,         \* attachment.ledger
    \* the engine and the driver's loop
    fw,             \* "idle", "prepared" or "running"
    real,           \* the batch the engine really computes
    called,         \* layers already called in this forward
    computed,       \* tokens of the main request computed so far
    prompt,         \* length of the prompt the engine holds
    prefillLen,     \* tokens that count as its prompt: more after a preemption
    steps, tokens,  \* engine.step() rounds and tokens the driver saw
    foreign,        \* outputs of another request were seen
    rounds,         \* forwards of the clean-up check
    \* history and budget
    truth,          \* every attention computation while armed
    faults

wrapVars == <<at, attSaved, capSaved>>
capVars == <<armed, stepOpen, requestStep, records, positions>>
refVars == <<reqId, enabled, curReq, curStep, completed, snaps, ledger>>
engVars == <<prompt, computed, prefillLen, steps, tokens, foreign, rounds>>
batchVars == <<batch, fresh, fw, real, called>>
vars == <<pc, verdict, wrapVars, capVars, refVars, engVars, batchVars, truth, faults>>

Init ==
    /\ pc = "install" /\ verdict = "none"
    /\ at = [s \in Slots |-> "orig"]
    /\ attSaved = [s \in Slots |-> "none"]
    /\ capSaved = [s \in Slots |-> "none"]
    /\ armed = FALSE /\ stepOpen = FALSE
    /\ requestStep = 0 /\ records = <<>> /\ positions = <<>>
    /\ batch = NoBatch /\ fresh = FALSE
    /\ reqId = NoReq /\ enabled = FALSE /\ curReq = NoReq /\ curStep = 0
    /\ completed = 0 /\ snaps = <<>> /\ ledger = <<>>
    /\ fw = "idle" /\ real = NoBatch /\ called = {}
    /\ computed = 0 /\ prompt = PromptLen /\ prefillLen = PromptLen
    /\ steps = 0 /\ tokens = 0 /\ foreign = FALSE /\ rounds = 0
    /\ truth = <<>> /\ faults = 0

Fault == faults < MaxFaults /\ faults' = faults + 1

-----------------------------------------------------------------------------
(* Disarming and restoring.                                                *)

Disarm ==
    /\ armed' = FALSE
    /\ enabled' = FALSE
    /\ curReq' = NoReq

\* Mutant: the reference is restored before the capture.
OriginalSwapped(s) ==
    IF capSaved[s] # "none" THEN capSaved[s]
    ELSE IF attSaved[s] # "none" THEN attSaved[s]
    ELSE at[s]

\* LayerCapture.restore puts back what it found, then the reference what it
\* found: the wrapper of the reference was installed first and goes last.
Original(s) ==
    IF attSaved[s] # "none" THEN attSaved[s]
    ELSE IF capSaved[s] # "none" THEN capSaved[s]
    ELSE at[s]

Restore ==
    /\ at' = [s \in Slots |-> Original(s)]
    /\ capSaved' = [s \in Slots |-> "none"]
    /\ UNCHANGED attSaved

-----------------------------------------------------------------------------
(* install_capture: the reference wraps every layer, then the capture wraps *)
(* every layer, prepare_inputs and the model.  A failure restores.          *)

AttachLayer(l) ==
    /\ pc = "install" /\ HasReference
    /\ attSaved[l] = "none"
    /\ at' = [at EXCEPT ![l] = "att"]
    /\ attSaved' = [attSaved EXCEPT ![l] = at[l]]
    /\ UNCHANGED <<pc, verdict, capSaved, capVars, refVars, engVars, batchVars, truth, faults>>

Wrapped(S) == \A s \in S : capSaved[s] # "none"

CaptureSlot(s) ==
    /\ pc = "install"
    /\ HasReference => \A l \in Layers : attSaved[l] # "none"
    /\ capSaved[s] = "none"
    /\ s = Prepare => Wrapped(Layers)
    /\ s = Model => Wrapped(Layers \cup {Prepare})
    /\ at' = [at EXCEPT ![s] = "cap"]
    /\ capSaved' = [capSaved EXCEPT ![s] = at[s]]
    /\ pc' = IF s = Model THEN "submit" ELSE pc
    /\ UNCHANGED <<verdict, attSaved, capVars, refVars, engVars, batchVars, truth, faults>>

InstallFails ==
    /\ pc = "install"
    /\ Fault
    /\ Restore
    /\ Disarm
    /\ pc' = "ended" /\ verdict' = "raised"
    /\ UNCHANGED <<stepOpen, requestStep, records, positions, reqId, curStep, completed,
                   snaps, ledger, engVars, batchVars, truth>>

\* submit_request, the arm file and capture.arm; the engine may hold a prompt
\* one token longer than the driver states.
Submit ==
    /\ pc = "submit"
    /\ \/ UNCHANGED <<prompt, faults>>
       \/ Fault /\ prompt' = PromptLen + 1
    /\ prefillLen' = prompt'
    /\ armed' = TRUE
    /\ IF HasReference
       THEN reqId' = Main /\ enabled' = TRUE
       ELSE UNCHANGED <<reqId, enabled>>
    /\ pc' = "drive"
    /\ UNCHANGED <<verdict, wrapVars, stepOpen, requestStep, records, positions, curReq, curStep,
                   completed, snaps, ledger, computed, steps, tokens, foreign, rounds,
                   batchVars, truth>>

SubmitFails ==
    /\ pc = "submit"
    /\ Fault
    /\ pc' = "leaving" /\ verdict' = "raised"
    /\ UNCHANGED <<wrapVars, capVars, refVars, engVars, batchVars, truth>>

-----------------------------------------------------------------------------
(* The engine prepares a batch.                                            *)

\* What the scheduler gives the main request when nothing is amiss.
PlainBatch ==
    [reqs |-> {Main}, start |-> computed, prefill |-> computed < prefillLen,
     len |-> IF computed < prefillLen THEN prefillLen - computed ELSE 1]

\* The prepare_inputs wrapper sees the batch the engine computes.
Seen(b) ==
    /\ fw' = "prepared" /\ real' = b /\ called' = {}
    /\ IF at[Prepare] = "cap" THEN batch' = b /\ fresh' = TRUE
                              ELSE UNCHANGED <<batch, fresh>>

Stepping == pc = "drive" /\ fw = "idle" /\ tokens < Total /\ steps < StepBudget

Scheduled ==
    /\ Stepping
    /\ \/ Seen(PlainBatch) /\ UNCHANGED faults
       \/ /\ Fault             \* part of the prompt
          /\ \E n \in 1..(PlainBatch.len - 1) : Seen([PlainBatch EXCEPT !.len = n])
       \/ /\ Fault             \* another request beside or instead of the main one
          /\ \E b \in {[PlainBatch EXCEPT !.reqs = Requests],
                       [reqs |-> {Other}, start |-> 0, len |-> PromptLen, prefill |-> TRUE]} : Seen(b)
       \/ /\ Fault             \* a batch prepared past the wrapper
          /\ fw' = "prepared" /\ real' = PlainBatch /\ called' = {}
          /\ UNCHANGED <<batch, fresh>>
    /\ UNCHANGED <<pc, verdict, wrapVars, capVars, refVars, engVars, truth>>

\* The engine gives up the cache of the main request and will compute its
\* prompt and its output again.
Preempt ==
    /\ Stepping /\ computed > 0
    /\ Fault
    /\ computed' = 0
    /\ prefillLen' = IF computed < prefillLen THEN prefillLen ELSE computed + 1
    /\ UNCHANGED <<pc, verdict, wrapVars, capVars, refVars, prompt, steps, tokens, foreign, rounds,
                   batchVars, truth>>

\* A round of engine.step() that computes nothing.
EmptyStep ==
    /\ Stepping
    /\ steps' = steps + 1
    /\ UNCHANGED <<pc, verdict, wrapVars, capVars, refVars, prompt, computed, prefillLen, tokens,
                   foreign, rounds, batchVars, truth, faults>>

\* A request of the clean-up check, or one left over after the abort.
OtherScheduled ==
    /\ fw = "idle"
    /\ \/ pc = "cleanup" /\ rounds < CleanupForwards /\ UNCHANGED faults
       \/ pc = "aborting" /\ Fault
    /\ Seen([reqs |-> {Other}, start |-> 0, len |-> PromptLen, prefill |-> TRUE])
    /\ UNCHANGED <<pc, verdict, wrapVars, capVars, refVars, engVars, truth>>

-----------------------------------------------------------------------------
(* model.forward: the capture's wrapper opens a step, the layers run, and  *)
(* the wrapper closes the step.                                            *)

\* The positions the fixed trajectory gives forward k.
StartOf(k) == IF k = 1 THEN 0 ELSE PromptLen + k - 2
LenOf(k) == IF k = 1 THEN PromptLen ELSE 1

\* Mutant: the model wrapper lets an exception pass without closing the step.
FailsOpen ==
    /\ fw' = "idle" /\ UNCHANGED stepOpen
    /\ IF pc = "drive"
       THEN pc' = "failing" /\ verdict' = "raised"
       ELSE IF pc = "aborting"
            THEN pc' = "finally" /\ UNCHANGED verdict
            ELSE pc' = "leaving" /\ verdict' = "rejected"

\* An exception leaves model.forward: the step is not closed, and what
\* happens next is up to the part of the driver that called the engine.
Fails ==
    /\ fw' = "idle" /\ stepOpen' = FALSE
    /\ IF pc = "drive"
       THEN pc' = "failing" /\ verdict' = "raised"
       ELSE IF pc = "aborting"
            THEN pc' = "finally" /\ UNCHANGED verdict
            ELSE pc' = "leaving" /\ verdict' = "rejected"

\* ReferenceRun.begin_step, for the step the capture has just numbered k.
BeginAccepted(k) ==
    /\ fresh /\ batch.reqs = {Main}
    /\ k = completed + 1 /\ k <= Total
    /\ batch.prefill = (k = 1)
    /\ batch.len = LenOf(k) /\ real.start = StartOf(k)

Begin ==
    LET k == requestStep + 1 IN
    /\ fw = "prepared"
    /\ IF ~armed \/ at[Model] # "cap"
       THEN /\ fw' = "running" /\ stepOpen' = FALSE
            /\ UNCHANGED <<pc, verdict, requestStep, records, curReq, curStep, snaps, fresh>>
       ELSE /\ requestStep' = k
            /\ records' = Append(records, {})
            /\ IF HasReference /\ ~BeginAccepted(k)
               THEN Fails /\ UNCHANGED <<curReq, curStep, snaps, fresh>>
               ELSE /\ fw' = "running" /\ stepOpen' = TRUE
                    /\ IF HasReference
                       THEN /\ fresh' = FALSE
                            /\ curReq' = Main /\ curStep' = k - 1
                            /\ snaps' = Append(snaps, {})
                       ELSE UNCHANGED <<fresh, curReq, curStep, snaps>>
                    /\ UNCHANGED <<pc, verdict>>
    /\ UNCHANGED <<wrapVars, armed, positions, reqId, enabled, completed, ledger, engVars,
                   batch, real, called, truth, faults>>

\* The engine calls the layers of a forward once each; a second call is a fault.
Turn(l) ==
    /\ fw = "running"
    /\ IF l \in called THEN Fault ELSE UNCHANGED faults
    /\ called' = called \cup {l}

\* Who computes layer l: the history of the run, and anything dense.
Computed(l, by) ==
    truth' = IF pc = "drive" \/ by = "dense"
             THEN Append(truth, [layer |-> l, reqs |-> real.reqs, start |-> real.start,
                                 len |-> real.len, by |-> by])
             ELSE truth

Intercepts(l) == at[l] = "att" \/ (at[l] = "cap" /\ capSaved[l] = "att")

Targeted == enabled /\ curReq = reqId

\* should_override: the decode steps.
Overrides == curStep \in 1..(Total - 1)

\* snapshot_layer: the batch the capture has seen is this one.
Evidence == batch.reqs = {Main} /\ batch.len = real.len

\* before_layer.
LayerAccepted(l) ==
    /\ stepOpen /\ l \notin snaps[requestStep]
    /\ Evidence
    /\ real.start = StartOf(requestStep) /\ real.len = LenOf(requestStep)

Row(l, action) == [layer |-> l, step |-> curStep, req |-> curReq, action |-> action]

\* The layers of a step grow by one.
Added(q, k, l) == [q EXCEPT ![k] = @ \cup {l}]

\* LayerCapture._record, after the layer has been computed.
Observes(l) == at[l] = "cap" /\ armed /\ stepOpen
Refused(l) == Observes(l) /\ Structured /\ (l \in records[requestStep] \/ ~Evidence)
Observe(l) ==
    records' = IF Observes(l) THEN Added(records, requestStep, l) ELSE records

\* A layer the reference does not wrap, or wraps without being meant.
CallThrough(l) ==
    /\ ~(Intercepts(l) /\ Targeted)
    /\ Turn(l)
    /\ Computed(l, "original")
    /\ ledger' = IF Intercepts(l) THEN Append(ledger, Row(l, "passthrough")) ELSE ledger
    /\ IF Refused(l)
       THEN Fails /\ UNCHANGED records
       ELSE Observe(l) /\ UNCHANGED <<fw, stepOpen, pc, verdict>>
    /\ UNCHANGED <<wrapVars, armed, requestStep, positions, reqId, enabled, curReq, curStep,
                   completed, snaps, engVars, batch, fresh, real>>

\* Mutant: the wrapper goes on to the original after it has overridden.
CallReferenceFallsThrough(l) ==
    /\ Intercepts(l) /\ Targeted /\ LayerAccepted(l)
    /\ Turn(l)
    /\ snaps' = Added(snaps, requestStep, l)
    /\ truth' = truth \o [i \in 1..(IF Overrides THEN 2 ELSE 1) |->
                            [layer |-> l, reqs |-> real.reqs, start |-> real.start, len |-> real.len,
                             by |-> IF Overrides /\ i = 1 THEN "dense" ELSE "original"]]
    /\ ledger' = Append(ledger, Row(l, IF Overrides THEN "overrode" ELSE "passthrough"))
    /\ Observe(l)
    /\ UNCHANGED <<pc, verdict, wrapVars, armed, stepOpen, requestStep, positions, reqId, enabled,
                   curReq, curStep, completed, engVars, batch, fresh, fw, real>>

\* A layer of the target: the prompt is computed by the original, every later
\* token by the dense reference.
CallReference(l) ==
    /\ Intercepts(l) /\ Targeted /\ LayerAccepted(l)
    /\ Turn(l)
    /\ snaps' = Added(snaps, requestStep, l)
    /\ Computed(l, IF Overrides THEN "dense" ELSE "original")
    /\ ledger' = Append(ledger, Row(l, IF Overrides THEN "overrode" ELSE "passthrough"))
    /\ Observe(l)
    /\ UNCHANGED <<pc, verdict, wrapVars, armed, stepOpen, requestStep, positions, reqId, enabled,
                   curReq, curStep, completed, engVars, batch, fresh, fw, real>>

\* The wrapper refuses the layer or computing it raises: the switch goes off
\* and the attachment puts its originals back, over the capture's wrappers too.
ReferenceRaises(l) ==
    /\ Intercepts(l) /\ Targeted
    /\ IF LayerAccepted(l) THEN fw = "running" /\ Fault /\ called' = called \cup {l} ELSE Turn(l)
    /\ enabled' = FALSE
    /\ at' = [s \in Slots |-> IF attSaved[s] # "none" THEN attSaved[s] ELSE at[s]]
    /\ ledger' = Append(ledger, Row(l, "error_restored"))
    /\ Fails
    /\ UNCHANGED <<attSaved, capSaved, armed, requestStep, records, positions, reqId, curReq, curStep,
                   completed, snaps, engVars, batch, fresh, real, truth>>

\* The engine or a hook raises between two layers.
EngineRaises ==
    /\ fw = "running"
    /\ Fault
    /\ Fails
    /\ UNCHANGED <<wrapVars, armed, requestStep, records, positions, refVars, engVars,
                   batch, fresh, real, called, truth>>

-----------------------------------------------------------------------------
(* The end of a forward.                                                   *)

LedgerRows(k) == {i \in DOMAIN ledger : ledger[i].step = k - 1}

\* _check_step: every layer was checked, and has one row of the right kind.
StepCovered(k) ==
    /\ snaps[k] = Layers
    /\ Cardinality(LedgerRows(k)) = Cardinality(Layers)
    /\ {ledger[i] : i \in LedgerRows(k)} =
          {[layer |-> l, step |-> k - 1, req |-> reqId,
            action |-> IF k = 1 THEN "passthrough" ELSE "overrode"] : l \in Layers}

\* _end_step, then ReferenceRun.end_step.  The positions of two requests never
\* run on from each other.
EndAccepted(k) ==
    /\ records[k] # {}
    /\ batch.len = real.len /\ Cardinality(real.reqs) = 1
    /\ real.start = StartOf(k) /\ real.len = LenOf(k)
    /\ Main \in batch.reqs /\ batch.prefill = (k = 1)
    /\ HasReference => StepCovered(k)

\* engine.step() returns: the main request has a token once its prompt is
\* computed, and the driver goes on until it has seen Total of them.
Returned ==
    LET upto == real.start + real.len
        token == Main \in real.reqs /\ upto >= prefillLen
    IN  /\ steps' = steps + 1
        /\ computed' = IF Main \in real.reqs THEN upto ELSE computed
        /\ tokens' = IF token THEN tokens + 1 ELSE tokens
        /\ foreign' = (foreign \/ Other \in real.reqs)
        /\ pc' = IF tokens' = Total THEN "finally" ELSE "drive"
        /\ UNCHANGED <<prompt, prefillLen, rounds, verdict>>

\* The layers are done; one may have been left out, and the file of the step
\* may fail to be written.
EndForward ==
    LET k == requestStep IN
    /\ fw = "running" /\ pc = "drive"
    /\ IF called = Layers THEN UNCHANGED faults ELSE Fault
    /\ IF ~stepOpen
       THEN /\ Returned /\ fw' = "idle"
            /\ UNCHANGED <<stepOpen, positions, completed, curReq>>
       ELSE IF EndAccepted(k)
       THEN /\ positions' = Append(positions, [start |-> real.start, len |-> real.len])
            /\ IF HasReference THEN completed' = k /\ curReq' = NoReq
                               ELSE UNCHANGED <<completed, curReq>>
            /\ Returned /\ fw' = "idle" /\ stepOpen' = FALSE
       ELSE /\ Fails
            /\ UNCHANGED <<positions, completed, curReq, engVars>>
    /\ UNCHANGED <<wrapVars, armed, requestStep, records, reqId, enabled, curStep, snaps, ledger,
                   batch, fresh, real, called, truth>>

FlushFails ==
    /\ fw = "running" /\ pc = "drive" /\ called = Layers
    /\ stepOpen /\ EndAccepted(requestStep)
    /\ Fault
    /\ positions' = Append(positions, [start |-> real.start, len |-> real.len])
    /\ IF HasReference THEN completed' = requestStep /\ curReq' = NoReq
                       ELSE UNCHANGED <<completed, curReq>>
    /\ Fails
    /\ UNCHANGED <<wrapVars, armed, requestStep, records, reqId, enabled, curStep, snaps, ledger,
                   engVars, batch, fresh, real, called, truth>>

EndOther ==
    /\ fw = "running" /\ pc \in {"cleanup", "aborting"} /\ called = Layers
    /\ fw' = "idle" /\ stepOpen' = FALSE
    /\ IF pc = "cleanup" THEN rounds' = rounds + 1 /\ UNCHANGED pc
                         ELSE pc' = "finally" /\ UNCHANGED rounds
    /\ UNCHANGED <<verdict, wrapVars, armed, requestStep, records, positions, refVars, prompt,
                   computed, prefillLen, steps, tokens, foreign, batch, fresh, real, called,
                   truth, faults>>

-----------------------------------------------------------------------------
(* The driver around the loop (_run_impl).                                 *)

\* Mutant: only the steps that produced a token count against the budget.
OutOfBudgetTokens ==
    /\ pc = "drive" /\ fw = "idle" /\ tokens < Total /\ tokens >= StepBudget
    /\ pc' = "failing" /\ verdict' = "raised"
    /\ UNCHANGED <<wrapVars, capVars, refVars, engVars, batchVars, truth, faults>>

OutOfBudget ==
    /\ pc = "drive" /\ fw = "idle" /\ tokens < Total /\ steps >= StepBudget
    /\ pc' = "failing" /\ verdict' = "raised"
    /\ UNCHANGED <<wrapVars, capVars, refVars, engVars, batchVars, truth, faults>>

\* except: the fixture arms disarm, abort the request and step once more.
Handle ==
    /\ pc = "failing"
    /\ IF Fixture
       THEN pc' = "aborting" /\ Disarm
       ELSE pc' = "finally" /\ UNCHANGED <<armed, enabled, curReq>>
    /\ UNCHANGED <<verdict, wrapVars, stepOpen, requestStep, records, positions, reqId, curStep,
                   completed, snaps, ledger, engVars, batchVars, truth, faults>>

AbortStep ==
    /\ pc = "aborting" /\ fw = "idle"
    /\ pc' = "finally"
    /\ UNCHANGED <<verdict, wrapVars, capVars, refVars, engVars, batchVars, truth, faults>>

\* finally: the reference arm restores here, before anything is judged.
Finally ==
    /\ pc = "finally"
    /\ Disarm
    /\ IF HasReference THEN Restore ELSE UNCHANGED wrapVars
    /\ pc' = IF verdict = "raised" THEN "leaving" ELSE "check"
    /\ UNCHANGED <<verdict, stepOpen, requestStep, records, positions, reqId, curStep, completed,
                   snaps, ledger, engVars, batchVars, truth, faults>>

\* ReferenceRun.validate.
Validate ==
    /\ completed = Total
    /\ Len(ledger) = Total * Cardinality(Layers)
    /\ \A k \in 1..Total : StepCovered(k)

\* capture_accounting: one prefill, and as many steps as tokens.
Accounted ==
    /\ Len(positions) = tokens /\ Len(records) = tokens
    /\ \A k \in DOMAIN positions : (k = 1) <=> (positions[k].start = 0)

ChecksPass ==
    /\ prompt = PromptLen /\ tokens = Total /\ ~foreign
    /\ Len(records) = steps
    /\ \A k \in DOMAIN records : records[k] = Layers
    /\ Accounted
    /\ HasReference => Validate

Check ==
    /\ pc = "check"
    /\ pc' = "cleanup"
    /\ verdict' = IF ChecksPass THEN "accepted" ELSE "rejected"
    /\ UNCHANGED <<wrapVars, capVars, refVars, engVars, batchVars, truth, faults>>

CleanedUp ==
    /\ pc = "cleanup" /\ fw = "idle" /\ rounds = CleanupForwards
    /\ pc' = "leaving"
    /\ UNCHANGED <<verdict, wrapVars, capVars, refVars, engVars, batchVars, truth, faults>>

\* The exit stack runs restore_capture, whatever happened before.
Leave ==
    /\ pc = "leaving"
    /\ Disarm
    /\ Restore
    /\ pc' = "ended"
    /\ UNCHANGED <<verdict, stepOpen, requestStep, records, positions, reqId, curStep, completed,
                   snaps, ledger, engVars, batchVars, truth, faults>>

Next ==
    \/ \E l \in Layers : AttachLayer(l) \/ CallThrough(l) \/ CallReference(l) \/ ReferenceRaises(l)
    \/ \E s \in Slots : CaptureSlot(s)
    \/ InstallFails \/ Submit \/ SubmitFails
    \/ Scheduled \/ Preempt \/ EmptyStep \/ OtherScheduled
    \/ Begin \/ EndForward \/ FlushFails \/ EndOther \/ EngineRaises
    \/ OutOfBudget \/ Handle \/ AbortStep \/ Finally \/ Check \/ CleanedUp \/ Leave

Spec == Init /\ [][Next]_vars

\* One thread runs all of it, and each call returns (a call that hangs is the
\* business of the watchdog: CalibDriver).
FairSpec == Spec /\ WF_vars(Next)

-----------------------------------------------------------------------------
Wrappers == {"orig", "att", "cap"}
Rows == [layer : Layers, step : Nat, req : {NoReq, Main},
         action : {"passthrough", "overrode", "error_restored"}]
Computations == [layer : Layers, reqs : SUBSET Requests, start : Nat, len : Nat,
                 by : {"original", "dense"}]

\* Type invariant.
TypeOK ==
    /\ pc \in {"install", "submit", "drive", "failing", "aborting", "finally", "check", "cleanup",
               "leaving", "ended"}
    /\ verdict \in {"none", "accepted", "rejected", "raised"}
    /\ at \in [Slots -> Wrappers]
    /\ attSaved \in [Slots -> {"none", "orig"}]
    /\ capSaved \in [Slots -> {"none", "orig", "att"}]
    /\ armed \in BOOLEAN /\ stepOpen \in BOOLEAN /\ fresh \in BOOLEAN
    /\ enabled \in BOOLEAN /\ foreign \in BOOLEAN
    /\ {requestStep, curStep, completed, computed, prompt, prefillLen, steps, tokens, rounds, faults} \subseteq Nat
    /\ records \in Seq(SUBSET Layers) /\ snaps \in Seq(SUBSET Layers)
    /\ ledger \in Seq(Rows) /\ truth \in Seq(Computations)
    /\ positions \in Seq([start : Nat, len : Nat])
    /\ {reqId, curReq} \subseteq {NoReq, Main}
    /\ batch \in Batches /\ real \in Batches
    /\ fw \in {"idle", "prepared", "running"} /\ called \subseteq Layers

\* When the process leaves the run, every attribute holds the method it held
\* before, however far the installation had come and whoever failed when:
\* each wrapper saved what it found, and they come off in the order that ends
\* with the first.  The reference arm is clean before its run is judged.
OriginalsBack ==
    pc \in (IF HasReference THEN {"check", "cleanup", "ended"} ELSE {"ended"}) =>
        \A s \in Slots : at[s] = "orig"

\* The dense reference computes nothing but decode tokens of the request the
\* run is armed for: never the prompt, another request, the request being
\* aborted or the clean-up requests.
DenseOnlyForTarget ==
    \A i \in DOMAIN truth : truth[i].by = "dense" =>
        /\ truth[i].reqs = {Main}
        /\ truth[i].start >= PromptLen /\ truth[i].len = 1

\* The reference arm accepts a run only if the attention of the main request
\* was computed exactly once per forward and layer, at the positions of the
\* fixed trajectory: the prompt by the original, all later tokens densely.
AcceptedIsCovered ==
    (verdict = "accepted" /\ HasReference) =>
        /\ Len(truth) = Total * Cardinality(Layers)
        /\ {truth[i] : i \in DOMAIN truth} =
             {[layer |-> l, reqs |-> {Main}, start |-> StartOf(k), len |-> LenOf(k),
               by |-> IF k = 1 THEN "original" ELSE "dense"] : l \in Layers, k \in 1..Total}

\* Whatever the arm, an accepted capture numbers the forwards of the main
\* request: step k holds all layers at the positions of its k-th forward, and
\* those layers really were computed there for that request alone.
AcceptedIsTheRequest ==
    verdict = "accepted" =>
        /\ Len(positions) = Total
        /\ \A k \in 1..Total :
             /\ positions[k] = [start |-> StartOf(k), len |-> LenOf(k)]
             /\ records[k] = Layers
             /\ \A l \in Layers : \E i \in DOMAIN truth :
                  truth[i].layer = l /\ truth[i].reqs = {Main} /\ truth[i].start = StartOf(k)

\* A step is open only inside a forward, and then all the counters that name
\* it agree: the capture's, the reference's, and the one rows are filed under.
CountersAgree ==
    stepOpen =>
        /\ fw = "running" /\ Len(records) = requestStep
        /\ HasReference => /\ requestStep = completed + 1
                           /\ Len(snaps) = requestStep /\ curStep = completed

-----------------------------------------------------------------------------
(* The parts of the inductive invariant.                                   *)

\* What an attribute holds was saved by whoever put it there, the capture
\* saves the reference's wrapper only over a layer the reference has saved,
\* and while the installation lasts it goes on in the order of install_capture.
WrapInv ==
    /\ \A s \in Slots :
         /\ at[s] = "att" => attSaved[s] = "orig"
         /\ at[s] = "cap" => capSaved[s] # "none"
         /\ capSaved[s] = "att" => attSaved[s] = "orig"
         /\ attSaved[s] # "none" => s \in Layers /\ HasReference
         /\ pc \in {"install", "submit"} =>
              /\ capSaved[s] # "none" => at[s] = "cap"
              /\ (capSaved[s] = "none" /\ attSaved[s] # "none") => at[s] = "att"
              /\ (HasReference /\ capSaved[s] # "none") => \A l \in Layers : attSaved[l] = "orig"
              /\ (attSaved[s] # "none" /\ capSaved[s] # "none") => capSaved[s] = "att"
              /\ (pc = "submit" \/ capSaved[Model] # "none") => capSaved[s] # "none"
    /\ pc = "install" => capSaved[Model] = "none"

\* Where the driver can be while the capture is armed, the switch is on, a
\* forward runs or a step is open.
ControlInv ==
    /\ armed => pc \in {"drive", "failing", "finally"}
    /\ enabled => armed /\ HasReference
    /\ fw # "idle" => pc \in {"drive", "aborting", "cleanup"}
    /\ stepOpen => fw = "running" /\ armed
    /\ Len(records) = requestStep
    /\ verdict = "accepted" => pc \in {"cleanup", "leaving", "ended"}
    /\ pc \in {"install", "submit", "drive", "check"} => verdict = "none"
    /\ pc \in {"failing", "aborting"} => verdict = "raised"
    /\ pc = "finally" => verdict \in {"none", "raised"}
    /\ pc \in {"install", "submit"} =>
         /\ ~armed /\ fw = "idle" /\ ~fresh
         /\ records = <<>> /\ snaps = <<>> /\ completed = 0
         /\ ledger = <<>> /\ truth = <<>>

\* The reference arm while it drives the main request: all wrappers are in
\* place, the counters name the forward in hand, and a forward that runs was
\* begun on a batch the wrapper saw.
DriveInv ==
    (HasReference /\ pc = "drive") =>
        /\ armed /\ enabled /\ reqId = Main
        /\ at[Model] = "cap" /\ at[Prepare] = "cap"
        /\ \A l \in Layers : at[l] = "cap" /\ capSaved[l] = "att"
        /\ completed <= Total /\ Len(snaps) = requestStep
        /\ fw # "prepared" => ~fresh
        /\ (fw = "prepared" /\ fresh) => batch = real
        /\ fw # "running" => requestStep = completed
        /\ fw = "running" =>
             /\ stepOpen /\ curReq = Main /\ batch = real /\ batch.reqs = {Main}
             /\ requestStep = completed + 1 /\ requestStep <= Total /\ curStep = completed

\* What really was computed and the ledger of the attachment agree row by row.
RowIsTrue(i) ==
    LET k == ledger[i].step + 1 IN
    /\ ledger[i].step \in 0..(Total - 1)
    /\ ledger[i] = [layer |-> ledger[i].layer, step |-> ledger[i].step, req |-> Main,
                    action |-> IF k = 1 THEN "passthrough" ELSE "overrode"]
    /\ truth[i] = [layer |-> ledger[i].layer, reqs |-> {Main}, start |-> StartOf(k), len |-> LenOf(k),
                   by |-> IF k = 1 THEN "original" ELSE "dense"]
    /\ ledger[i].layer \in Layers

LogInv ==
    HasReference =>
        /\ verdict \in {"none", "accepted"} =>
             /\ Len(truth) = Len(ledger)
             /\ \A i \in DOMAIN ledger : RowIsTrue(i)
        /\ verdict = "accepted" => Validate

\* The inductive invariant behind the theorems of ReferenceRunProofs.
RunInv == WrapInv /\ ControlInv /\ DriveInv /\ LogInv /\ OriginalsBack /\ DenseOnlyForTarget

\* A run ends, with everything restored.
RunEnds == <>(pc = "ended")
=============================================================================
