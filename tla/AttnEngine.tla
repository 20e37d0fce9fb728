----------------------------- MODULE AttnEngine -----------------------------
(***************************************************************************)
(* The EngineCore side of the declarative read views: one pass of          *)
(* EngineCore.step() and the AttnViewEngine hooks inside it.  A step is    *)
(*                                                                         *)
(*   schedule() -> on_step_scheduled() -> execute_model() (worker)         *)
(*     -> _process_aborts_queue(); update_from_output()                    *)
(*     -> on_step_outputs()                                                *)
(*                                                                         *)
(* and clients add and abort requests around and during it.  The           *)
(* scheduler and the model runner are vLLM code: their actions are the     *)
(* external half of the model, taken from how the hooks use them.          *)
(*                                                                         *)
(* Data abstraction: a view stands for a mode with its references; a       *)
(* sampled token either declares a view (a tag closes inside it) or is     *)
(* NoTag.  The tag parser that decides which is outside this module.       *)
(***************************************************************************)
EXTENDS Naturals, FiniteSets, Sequences

CONSTANTS
    Requests,       \* internal request ids; the frontend makes each one unique
    Views,          \* the read views a stream can be in
    Global,         \* the view of a request that declared nothing
    NoTag,          \* a token in which no tag closes
    Nothing,        \* no token was sampled for this row
    Prompt,         \* Prompt[r]: number of prompt tokens of r
    MaxOut,         \* max_tokens: a request stops at this many tokens
    Chunk,          \* most tokens of one request scheduled in a step
    Kinds,          \* the payload kinds clients submit in this instance
    Setups,         \* the engine configurations of this instance
    Impatient,      \* the requests whose clients may abort them in this instance
    TokenizerMayFail  \* the lazily loaded tokenizer may be unavailable

PayloadKinds == {"plain", "da", "forced", "malformed", "mismatched", "unplannable"}
SetupKinds == {"ok", "unsupported", "no_geometry", "async"}

ASSUME EngineAssumption ==
    /\ IsFiniteSet(Requests)
    /\ Global \in Views
    /\ NoTag \notin Views
    /\ Nothing \notin Views \cup {NoTag}
    /\ Prompt \in [Requests -> Nat \ {0}]
    /\ MaxOut \in Nat \ {0}
    /\ Chunk \in Nat \ {0}
    /\ Kinds \subseteq PayloadKinds
    /\ Setups \subseteq SetupKinds
    /\ Impatient \subseteq Requests
    /\ TokenizerMayFail \in BOOLEAN

VARIABLES
    \* the scheduler's ledger (external)
    ledger,         \* ledger[r]: "new", "waiting", "running" or "gone"
    payload,        \* payload[r]: what extra_args["attnview"] holds
    computed,       \* num_computed_tokens, already advanced by schedule()
    out,            \* number of output tokens the scheduler accepted
    stream,         \* the view the accepted output stream stands for
    finishedIds,    \* ids finished since the last schedule()
    \* between the client and the engine loop
    client,         \* what the client has sent of r: "none", "added", "aborted"
    inputQueue,     \* input_queue: messages for the time between two steps
    aborts,         \* aborts_queue: ids for the middle of a step
    passing,        \* an abort the input thread has put into one queue so far
    \* the SchedulerOutput of the step in flight, and its results
    phase,          \* where EngineCore.step() is
    sched,          \* num_scheduled_tokens
    newReqs,        \* scheduled_new_reqs
    lastFinished,   \* finished_req_ids: the snapshot of the previous step
    preempted,      \* preempted_req_ids
    sampled,        \* sampled_token_ids of the ModelRunnerOutput
    finishItems,    \* requests with a finish_reason in this step's outputs
    \* AttnViewEngine
    setup,          \* what check_supported_config and the worker geometry say
    configs,        \* _configs (registry and detokenizers have the same keys)
    view,           \* RequestProtocolState.mode/refs of the registered
    gen,            \* RequestProtocolState.generated_tokens
    plan,           \* _pending, which is also scheduler_output.da_step_plans
    ended,          \* kinds of terminal trace written for each request
    \* the model runner
    known,          \* requests the worker holds a state for
    written,        \* KV positions written without a hole
    shown           \* the view of the last forward that had the request

ledgerVars == <<ledger, payload, computed, out, stream, finishedIds>>
stepVars   == <<sched, newReqs, lastFinished, preempted, sampled, finishItems>>
queueVars  == <<client, inputQueue, aborts, passing>>
engineVars == <<configs, view, gen, plan, ended>>
workerVars == <<known, written, shown>>
vars == <<ledgerVars, queueVars, phase, stepVars, setup, engineVars, workerVars>>

Tokens == Views \cup {NoTag}
Message == [req : Requests, what : PayloadKinds \cup {"abort"}]
Plan == [view : Views, kvLen : Nat, step : Nat]

\* No entry for the request: the worker keeps the vanilla read metadata.
NoPlan == [view |-> Global, kvLen |-> 0, step |-> 0]

\* What one parsed token does to the view (mode_after of a StepRecord).
After(v, tok) == IF tok = NoTag THEN v ELSE tok

Alive == {r \in Requests : ledger[r] \in {"waiting", "running"}}
HasPayload(r) == payload[r] # "plain"

\* The rows of the batch.
Rows == {r \in Requests : sched[r] > 0}

TypeOK ==
    /\ ledger \in [Requests -> {"new", "waiting", "running", "gone"}]
    /\ payload \in [Requests -> PayloadKinds]
    /\ computed \in [Requests -> Nat]
    /\ out \in [Requests -> Nat]
    /\ stream \in [Requests -> Views]
    /\ finishedIds \subseteq Requests
    /\ client \in [Requests -> {"none", "added", "aborted"}]
    /\ inputQueue \in Seq(Message)
    /\ aborts \subseteq Requests
    /\ passing \subseteq Requests
    /\ phase \in {"idle", "scheduled", "planned", "executed", "recovered", "down"}
    /\ sched \in [Requests -> Nat]
    /\ newReqs \subseteq Requests
    /\ lastFinished \subseteq Requests
    /\ preempted \subseteq Requests
    /\ sampled \in [Requests -> Tokens \cup {Nothing}]
    /\ finishItems \subseteq Requests
    /\ setup \in SetupKinds
    /\ configs \subseteq Requests
    /\ view \in [Requests -> Views]
    /\ gen \in [Requests -> Nat]
    /\ plan \in [Requests -> Plan]
    /\ ended \in [Requests -> SUBSET {"finished", "cancelled", "preempted",
                                       "fail_fast", "shutdown"}]
    /\ known \subseteq Requests
    /\ written \in [Requests -> Nat]
    /\ shown \in [Requests -> Views]

Init ==
    /\ ledger = [r \in Requests |-> "new"]
    /\ payload = [r \in Requests |-> "plain"]
    /\ computed = [r \in Requests |-> 0]
    /\ out = [r \in Requests |-> 0]
    /\ stream = [r \in Requests |-> Global]
    /\ finishedIds = {}
    /\ client = [r \in Requests |-> "none"]
    /\ inputQueue = <<>>
    /\ aborts = {}
    /\ passing = {}
    /\ phase = "idle"
    /\ sched = [r \in Requests |-> 0]
    /\ newReqs = {}
    /\ lastFinished = {}
    /\ preempted = {}
    /\ sampled = [r \in Requests |-> Nothing]
    /\ finishItems = {}
    /\ setup \in Setups
    /\ configs = {}
    /\ view = [r \in Requests |-> Global]
    /\ gen = [r \in Requests |-> 0]
    /\ plan = [r \in Requests |-> NoPlan]
    /\ ended = [r \in Requests |-> {}]
    /\ known = {}
    /\ written = [r \in Requests |-> 0]
    /\ shown = [r \in Requests |-> Global]

-----------------------------------------------------------------------------
(* The client, the input thread and the scheduler. *)

\* process_input_sockets: an ADD goes into the input queue only.  A client sends
\* one for a request, and its frontend at most one ABORT after it.
QueueAdd(r, kind) ==
    /\ phase # "down"
    /\ passing = {}
    /\ client[r] = "none"
    /\ client' = [client EXCEPT ![r] = "added"]
    /\ inputQueue' = Append(inputQueue, [req |-> r, what |-> kind])
    /\ UNCHANGED <<ledgerVars, aborts, passing, phase, stepVars, setup, engineVars,
                   workerVars>>

\* An ABORT goes into both queues, one after the other, at any moment of a step:
\* first where the step in flight finds it, although the ADD may still be
\* waiting in the input queue and the request may have ended by itself ...
QueueAbort(r) ==
    /\ phase # "down"
    /\ passing = {}
    /\ r \in Impatient
    /\ client[r] = "added"
    /\ client' = [client EXCEPT ![r] = "aborted"]
    /\ aborts' = aborts \cup {r}
    /\ passing' = {r}
    /\ UNCHANGED <<ledgerVars, inputQueue, phase, stepVars, setup, engineVars,
                   workerVars>>

\* Mutant: the step in flight will see the abort, the input queue gets none.
PassOnAdditionsOnly(r) ==
    /\ r \in passing
    /\ passing' = {}
    /\ UNCHANGED <<ledgerVars, client, inputQueue, aborts, phase, stepVars, setup,
                   engineVars, workerVars>>

\* ... then behind everything the client sent before.
PassOnAbort(r) ==
    /\ r \in passing
    /\ passing' = {}
    /\ inputQueue' = Append(inputQueue, [req |-> r, what |-> "abort"])
    /\ UNCHANGED <<ledgerVars, client, aborts, phase, stepVars, setup, engineVars,
                   workerVars>>

\* _process_input_queue, between two steps: the next message is what of r.
Takes(r, what) ==
    /\ phase = "idle"
    /\ inputQueue # <<>>
    /\ Head(inputQueue) = [req |-> r, what |-> what]
    /\ inputQueue' = Tail(inputQueue)

\* scheduler.add_request, of an id the scheduler has not seen.
AddRequest(r, kind) ==
    /\ Takes(r, kind)
    /\ ledger[r] = "new"
    /\ ledger' = [ledger EXCEPT ![r] = "waiting"]
    /\ payload' = [payload EXCEPT ![r] = kind]
    /\ UNCHANGED <<computed, out, stream, finishedIds, client, aborts, passing, phase,
                   stepVars, setup, engineVars, workerVars>>

\* scheduler.finish_requests(ids, FINISHED_ABORTED): the ids still in the
\* ledger leave it; the others are ignored.
FinishRequests(ids, freed) ==
    /\ freed = ids \cap Alive
    /\ ledger' = [r \in Requests |-> IF r \in freed THEN "gone" ELSE ledger[r]]
    /\ finishedIds' = finishedIds \cup freed

\* The abort taken in its turn; nothing is left to do when a step was faster.
HandleAbort(r) ==
    /\ Takes(r, "abort")
    /\ FinishRequests({r}, {r} \cap Alive)
    /\ UNCHANGED <<payload, computed, out, stream, client, aborts, passing, phase,
                   stepVars, setup, engineVars, workerVars>>

\* scheduler.has_requests: unfinished, or finished and not yet reported.
HasRequests == Alive # {} \/ finishedIds # {}

\* Without work the loop throws the aborts queue away unprocessed before it waits
\* for a message.  It has found the input queue empty just before, but not
\* under a lock: what came in between stays there.
ClearAborts ==
    /\ phase = "idle"
    /\ ~HasRequests
    /\ aborts # {}
    /\ aborts' = {}
    /\ UNCHANGED <<ledgerVars, client, inputQueue, passing, phase, stepVars, setup,
                   engineVars, workerVars>>

\* Tokens of r still to be computed, after P has been preempted.
Remaining(r, P) == Prompt[r] + out[r] - (IF r \in P THEN 0 ELSE computed[r])

\* schedule(): preempts P, schedules n, advances num_computed_tokens and hands
\* over (and clears) the finished ids.  The loop begins a step when it has found
\* the input queue empty; a message that comes after that waits for the next one.
\* A preempted request stays in the ledger and may be resumed in the same step.
Schedule(n, P) ==
    /\ phase = "idle"
    /\ inputQueue = <<>>
    /\ HasRequests
    /\ P \subseteq {r \in Requests : ledger[r] = "running"}
    /\ \A r \in Requests :
          n[r] > 0 => r \in Alive /\ n[r] <= Chunk /\ n[r] <= Remaining(r, P)
    /\ phase' = "scheduled"
    /\ sched' = n
    /\ newReqs' = {r \in Requests : n[r] > 0 /\ (ledger[r] = "waiting" \/ r \in P)}
    /\ preempted' = P
    /\ lastFinished' = finishedIds
    /\ finishedIds' = {}
    /\ ledger' = [r \in Requests |-> IF n[r] > 0 THEN "running"
                                     ELSE IF r \in P THEN "waiting" ELSE ledger[r]]
    /\ computed' = [r \in Requests |->
                      n[r] + (IF r \in P THEN 0 ELSE computed[r])]
    /\ UNCHANGED <<payload, out, stream, queueVars, sampled, finishItems, setup,
                   engineVars, workerVars>>

\* step() returns or raises: the SchedulerOutput and its results are garbage.
EndStep ==
    /\ phase' = "idle"
    /\ sched' = [r \in Requests |-> 0]
    /\ newReqs' = {}
    /\ lastFinished' = {}
    /\ preempted' = {}
    /\ sampled' = [r \in Requests |-> Nothing]
    /\ finishItems' = {}

-----------------------------------------------------------------------------
(* on_step_scheduled: after schedule(), before execute_model(). *)

\* _reject_preempted: registered requests, and new ones with a payload.
Rejected == {r \in preempted : r \in configs \/ (r \in newReqs /\ HasPayload(r))}

\* register_new_requests skips the known, the dead and the preempted.
ToRegister == {r \in newReqs \cap Alive :
                  r \notin configs /\ r \notin preempted /\ HasPayload(r)}

\* The protocol state of r after registration.
RegView(r) == IF r \in ToRegister THEN Global ELSE view[r]
RegGen(r)  == IF r \in ToRegister THEN 0 ELSE gen[r]

\* build_plans raises for r: the layout contradicts the ledger, the view comes
\* before the first token, or build_step_plan finds no plan for it.
PlanError(r) ==
    /\ r \in Alive
    /\ \/ payload[r] = "mismatched"
       \/ /\ sched[r] > 0
          /\ payload[r] # "forced"
          /\ RegView(r) # Global
          /\ computed[r] - sched[r] < Prompt[r] \/ payload[r] = "unplannable"

HookRaises ==
    \/ Rejected # {}
    \/ preempted # {} /\ \E r \in newReqs : payload[r] = "malformed"
    \/ \E r \in ToRegister : payload[r] = "malformed"
    \/ ToRegister # {} /\ setup = "unsupported"
    \/ configs \cup ToRegister # {} /\ setup = "no_geometry"
    \/ \E r \in configs \cup ToRegister : PlanError(r)

\* Mutants of PlanOf: a plan computed once and kept; a length to which the
\* scheduled tokens are added again; enforce_global ignored.
PlanOfCached(r) ==
    IF r \notin configs \/ sched[r] = 0 THEN NoPlan
    ELSE IF plan[r] # NoPlan THEN plan[r]
    ELSE IF payload[r] = "forced" \/ RegView(r) = Global THEN NoPlan
    ELSE [view |-> RegView(r), kvLen |-> computed[r], step |-> RegGen(r)]

PlanOfCountedTwice(r) ==
    IF r \in configs /\ sched[r] > 0 /\ payload[r] # "forced" /\ RegView(r) # Global
    THEN [view |-> RegView(r), kvLen |-> computed[r] + sched[r], step |-> RegGen(r)]
    ELSE NoPlan

PlanOfForcedToo(r) ==
    IF r \in configs /\ sched[r] > 0 /\ RegView(r) # Global
    THEN [view |-> RegView(r), kvLen |-> computed[r], step |-> RegGen(r)]
    ELSE NoPlan

\* build_plans: a plan for a decoding row in a restricted view.  The ledger is
\* already past this step, so num_computed_tokens is the attention length.
PlanOf(r) ==
    IF /\ r \in configs \cup ToRegister
       /\ r \in Alive
       /\ sched[r] > 0
       /\ payload[r] # "forced"
    THEN IF RegView(r) = Global
         THEN NoPlan
         ELSE [view |-> RegView(r), kvLen |-> computed[r], step |-> RegGen(r)]
    ELSE NoPlan

OnStepScheduled ==
    /\ phase = "scheduled"
    /\ setup # "async"
    /\ ~HookRaises
    /\ phase' = "planned"
    /\ configs' = configs \cup ToRegister
    /\ view' = [r \in Requests |-> RegView(r)]
    /\ gen' = [r \in Requests |-> RegGen(r)]
    /\ plan' = [r \in Requests |-> PlanOf(r)]
    /\ UNCHANGED <<ledgerVars, queueVars, stepVars, setup, ended, workerVars>>

\* A malformed new payload raises before anything preempted is handled.
RejectedFirst == IF \E r \in newReqs : payload[r] = "malformed" THEN {} ELSE Rejected

\* Mutant: only registered requests are aborted.
PendingRegistered == configs \ RejectedFirst

\* The candidates of _abort_pending_da_requests.
Pending == (configs \ RejectedFirst) \cup {r \in newReqs : HasPayload(r)}

\* Any exception above: _reject_preempted has already released and aborted what
\* it found, _abort_pending_da_requests does the rest, and the exception ends
\* the step.
OnStepScheduledRaises ==
    LET dropped == RejectedFirst \cup Pending
    IN  /\ phase = "scheduled"
        /\ setup # "async"
        /\ HookRaises
        /\ FinishRequests(dropped, dropped \cap Alive)
        /\ configs' = configs \ dropped
        /\ plan' = [r \in Requests |-> IF r \in dropped THEN NoPlan ELSE plan[r]]
        /\ ended' = [r \in Requests |->
                ended[r] \cup (IF r \in RejectedFirst THEN {"preempted"} ELSE {})
                         \cup (IF r \in Pending THEN {"fail_fast"} ELSE {})]
        /\ EndStep
        /\ UNCHANGED <<payload, computed, out, stream, queueVars, setup, view, gen,
                       workerVars>>

-----------------------------------------------------------------------------
(* execute_model and the worker's consumption boundary. *)

\* fa_override_for_step refuses a batch it was not built for.
WorkerRefuses ==
    /\ \E r \in Requests : plan[r] # NoPlan
    /\ \/ Cardinality(Rows) # 1
       \/ \E r \in Rows : \/ plan[r] = NoPlan
                          \/ sched[r] # 1
                          \/ computed[r] - sched[r] < Prompt[r]

\* finish_requests() and add_requests() of the model runner: a finished or
\* preempted request loses its state, a new or resumed one gets a fresh one.
KnownNow == (known \ (lastFinished \cup preempted)) \cup newReqs
KVEnd(r) == IF r \in newReqs THEN 0 ELSE written[r]

\* update_requests() has no row for a request the worker was never told about.
UnknownRow == ~(Rows \subseteq KnownNow)

\* A forward over the batch samples one token for every row that has no
\* token left to compute.
Execute(tok) ==
    /\ phase = "planned"
    /\ ~UnknownRow
    /\ ~WorkerRefuses
    /\ \A r \in Requests :
          /\ tok[r] # Nothing <=> r \in Rows /\ computed[r] = Prompt[r] + out[r]
          /\ ~HasPayload(r) => tok[r] \in {NoTag, Nothing}
    /\ phase' = "executed"
    /\ sampled' = tok
    /\ known' = KnownNow
    /\ written' = [r \in Requests |->
                     IF r \in Rows /\ KVEnd(r) >= computed[r] - sched[r]
                     THEN computed[r] ELSE KVEnd(r)]
    /\ shown' = [r \in Requests |-> IF r \in Rows THEN plan[r].view ELSE shown[r]]
    /\ UNCHANGED <<ledgerVars, queueVars, sched, newReqs, lastFinished, preempted,
                   finishItems, setup, engineVars>>

\* The exception propagates out of step(): nothing is executed or recovered.
ExecuteRaises ==
    /\ phase = "planned"
    /\ UnknownRow \/ WorkerRefuses
    /\ known' = KnownNow
    /\ written' = [r \in Requests |-> KVEnd(r)]
    /\ EndStep
    /\ UNCHANGED <<ledgerVars, queueVars, setup, engineVars, shown>>

\* _process_aborts_queue, then update_from_output: rows that left the ledger
\* are skipped, the others take their token, and those in F (all that reach
\* max_tokens among them) finish.
Recover(F) ==
    LET aborted == aborts \cap Alive
        taken == {r \in Alive \ aborted : sampled[r] # Nothing}
    IN  /\ phase = "executed"
        /\ F \subseteq taken
        /\ \A r \in taken : out[r] + 1 >= MaxOut => r \in F
        /\ phase' = "recovered"
        /\ aborts' = {}
        /\ UNCHANGED <<client, inputQueue, passing>>
        /\ out' = [r \in Requests |-> IF r \in taken THEN out[r] + 1 ELSE out[r]]
        /\ stream' = [r \in Requests |->
                        IF r \in taken THEN After(stream[r], sampled[r]) ELSE stream[r]]
        /\ ledger' = [r \in Requests |->
                        IF r \in aborted \cup F THEN "gone" ELSE ledger[r]]
        /\ finishedIds' = finishedIds \cup aborted \cup F
        /\ finishItems' = F
        /\ UNCHANGED <<payload, computed, sched, newReqs, lastFinished, preempted,
                       sampled, setup, engineVars, workerVars>>

-----------------------------------------------------------------------------
(* on_step_outputs: after update_from_output, before the next schedule(). *)

\* The defensive second _reject_preempted, drop_finished, and _drop_gone.
AfterReject == configs \ Rejected
AfterDrop   == AfterReject \ lastFinished
\* Mutant: the ledger is not consulted.
GoneIgnored == {}
Gone        == {r \in AfterDrop : r \notin Alive /\ r \notin finishItems}
\* Mutants: nothing is released; a cancelled request is traced and kept.
KeptAll     == AfterReject
KeptGone    == AfterDrop
Kept        == AfterDrop \ Gone

\* Mutant: the request is registered after its first step.
ParsedLate == {r \in Kept : r \in Rows /\ sampled[r] # Nothing /\ r \notin newReqs}

\* parse_outputs(allow = alive or finished in this step).
Parsed == {r \in Kept : r \in Rows /\ sampled[r] # Nothing}

DropTraces(r) ==
    ended[r] \cup (IF r \in Rejected THEN {"preempted"} ELSE {})
             \cup (IF r \in Gone THEN {"cancelled"} ELSE {})

Release(R) == plan' = [r \in Requests |-> IF r \in R THEN NoPlan ELSE plan[r]]

Parse(R) ==
    /\ view' = [r \in Requests |->
                  IF r \in R THEN After(view[r], sampled[r]) ELSE view[r]]
    /\ gen' = [r \in Requests |-> IF r \in R THEN gen[r] + 1 ELSE gen[r]]

OnStepOutputs ==
    LET finished == Kept \cap finishItems
    IN  /\ phase = "recovered"
        /\ setup # "async"
        /\ FinishRequests(Rejected, Rejected \cap Alive)
        /\ Parse(Parsed)
        /\ configs' = Kept \ finished
        /\ Release(Requests \ configs')
        /\ ended' = [r \in Requests |->
                       DropTraces(r) \cup (IF r \in finished THEN {"finished"} ELSE {})]
        /\ EndStep
        /\ UNCHANGED <<payload, computed, out, stream, queueVars, setup, workerVars>>

\* The tokenizer raises at one row: the rows before it are parsed, no finished
\* request is released, and the exception ends the step.
OnStepOutputsRaises(R) ==
    /\ TokenizerMayFail
    /\ phase = "recovered"
    /\ setup # "async"
    /\ R \subseteq Parsed /\ R # Parsed
    /\ FinishRequests(Rejected, Rejected \cap Alive)
    /\ Parse(R)
    /\ configs' = Kept
    /\ Release(Requests \ Kept)
    /\ ended' = [r \in Requests |-> DropTraces(r)]
    /\ EndStep
    /\ UNCHANGED <<payload, computed, out, stream, queueVars, setup, workerVars>>

-----------------------------------------------------------------------------
(* step_with_batch_queue, the path of asynchronous scheduling: no hook but the *)
(* guard runs there.  The queue is modelled one step deep, the guard's state   *)
(* is the same at any depth.                                                   *)

\* refuse_unsupported_step raises at any new request with a payload.
RefuseUnsupportedStep ==
    /\ phase = "scheduled"
    /\ setup = "async"
    /\ \E r \in newReqs : HasPayload(r)
    /\ EndStep
    /\ UNCHANGED <<ledgerVars, queueVars, setup, engineVars, workerVars>>

PassBatchStep ==
    /\ phase = "scheduled"
    /\ setup = "async"
    /\ \A r \in newReqs : ~HasPayload(r)
    /\ phase' = "planned"
    /\ UNCHANGED <<ledgerVars, queueVars, stepVars, setup, engineVars, workerVars>>

EndBatchStep ==
    /\ phase = "recovered"
    /\ setup = "async"
    /\ EndStep
    /\ UNCHANGED <<ledgerVars, queueVars, setup, engineVars, workerVars>>

-----------------------------------------------------------------------------
\* EngineCore.shutdown: freeze and release whatever is registered.
Shutdown ==
    /\ phase = "idle"
    /\ phase' = "down"
    /\ configs' = {}
    /\ plan' = [r \in Requests |-> NoPlan]
    /\ ended' = [r \in Requests |->
                   IF r \in configs THEN ended[r] \cup {"shutdown"} ELSE ended[r]]
    /\ UNCHANGED <<ledgerVars, queueVars, stepVars, setup, view, gen, workerVars>>

-----------------------------------------------------------------------------
\* One move of the engine loop inside or into a step.
Step ==
    \/ \E n \in [Requests -> 0..Chunk], P \in SUBSET Requests : Schedule(n, P)
    \/ OnStepScheduled
    \/ OnStepScheduledRaises
    \/ \E tok \in [Requests -> Tokens \cup {Nothing}] : Execute(tok)
    \/ ExecuteRaises
    \/ \E F \in SUBSET Requests : Recover(F)
    \/ OnStepOutputs
    \/ \E R \in SUBSET Requests : OnStepOutputsRaises(R)
    \/ RefuseUnsupportedStep
    \/ PassBatchStep
    \/ EndBatchStep

\* One move of _process_input_queue.
TakeMessage ==
    \/ \E r \in Requests, kind \in Kinds : AddRequest(r, kind)
    \/ \E r \in Requests : HandleAbort(r)
    \/ ClearAborts

\* One move of the input thread.
ReceiveMessage ==
    \/ \E r \in Requests, kind \in Kinds : QueueAdd(r, kind)
    \/ \E r \in Requests : QueueAbort(r)
    \/ \E r \in Requests : PassOnAbort(r)

Next ==
    \/ ReceiveMessage
    \/ TakeMessage
    \/ Step
    \/ Shutdown

Spec == Init /\ [][Next]_vars

\* The engine loop keeps taking messages and stepping while there is work, and
\* the input thread puts an abort it holds into the second queue.
FairSpec ==
    /\ Spec
    /\ WF_vars(TakeMessage \/ Step)
    /\ WF_vars(\E r \in Requests : PassOnAbort(r))

-----------------------------------------------------------------------------
(* Properties. *)

\* The parser state of a live registered request is exactly what the output the
\* scheduler accepted says, whenever no output is half way through the step:
\* no token skipped, none parsed twice (on_step_outputs against
\* update_from_output).
RegistryTracksStream ==
    phase # "recovered" =>
        \A r \in configs \cap Alive : gen[r] = out[r] /\ view[r] = stream[r]

\* A token sampled in the step in which its request was aborted never reaches
\* the parser (_drop_gone, and the allow set of parse_outputs).
CancelledTokenNeverParsed == \A r \in Requests : gen[r] <= out[r]

\* The batch will be run by the worker, not refused.
Executes == phase = "planned" /\ ~UnknownRow /\ ~WorkerRefuses

\* Parse at t, effect at t+1, and never a silent fall-back to the vanilla read:
\* when the worker runs a batch, every payload row is registered and the view it
\* is read through is the one its accepted stream stands for.
ViewMatchesStream ==
    Executes =>
        \A r \in Rows : HasPayload(r) =>
            /\ r \in configs
            /\ plan[r].view = IF payload[r] = "forced" THEN Global ELSE stream[r]

\* The attention length of a plan counts the current token exactly once and its
\* effect step is the token that forward consumes; nothing outside the batch
\* has a plan (build_plans on the already advanced ledger).
PlanCountsCurrentTokenOnce ==
    phase = "planned" =>
        \A r \in Requests : plan[r] # NoPlan =>
            /\ r \in Rows /\ r \in Alive
            /\ plan[r].kvLen = Prompt[r] + out[r]
            /\ plan[r].step = out[r]
            /\ plan[r].step >= 1

\* While one request is served at a time (the supported case), the attention
\* length of its plan is also what the worker has written plus the token of
\* this forward: a chunked prompt, a resumed or a skipped step cannot put the
\* two apart. (Two requests in one batch can: the worker refuses them with the
\* ledger advanced, and the one that survives goes on with a gap.)
Alone(r) == \A q \in Requests \ {r} : ledger[q] = "new"
PlanLengthMatchesKV ==
    Executes => \A r \in Rows :
        plan[r] # NoPlan /\ Alone(r) => plan[r].kvLen = KVEnd(r) + 1

\* A snapshot that still schedules a preempted payload request is never handed
\* to the worker (_reject_preempted raises before execute_model).
PreemptedNeverExecuted ==
    Executes => \A r \in preempted : ~(HasPayload(r) /\ r \in Rows)

\* Registered state does not outlive its request by more than a completed step:
\* what is registered when on_step_outputs is done belongs to a live request or
\* to one whose id the next schedule() will report (drop_finished, _drop_gone).
NoLeakedState ==
    [][phase = "recovered" /\ phase' = "idle" =>
        configs' \subseteq Alive' \cup finishedIds']_vars

\* When on_step_scheduled raises, no payload request of that step is left
\* scheduled in the ledger and no protocol state survives
\* (_abort_pending_da_requests).
FailFastLeavesNothing ==
    [][phase = "scheduled" /\ phase' = "idle" /\ setup # "async" =>
        /\ configs' = {}
        /\ \A r \in Rows : HasPayload(r) => r \notin Alive']_vars

\* A request that finished normally has exactly that terminal trace, and a
\* request still served has none.
TerminalTraceIsUnique ==
    \A r \in Requests :
        /\ "finished" \in ended[r] => ended[r] = {"finished"} /\ ledger[r] = "gone"
        /\ phase = "idle" /\ r \in configs => ended[r] = {}

\* The state of a request that left the ledger is released in the end.
GoneIsReleased ==
    \A r \in Requests : (r \in configs /\ r \notin Alive) ~> (r \notin configs)

\* An abort takes effect in the end, whenever it comes: before its request has been
\* taken from the input queue, in a step that fails before it looks at the aborts
\* queue, or just before the idle loop throws that queue away (the copy in the
\* input queue, behind the ADD, is what makes up for all of them).
AbortTakesEffect ==
    \A r \in Requests :
        client[r] = "aborted" ~> (ledger[r] = "gone" \/ phase = "down")

-----------------------------------------------------------------------------
(* The inductive invariant behind the safety properties. *)

InvNew ==
    \A r \in Requests : ledger[r] = "new" =>
        /\ r \notin configs /\ r \notin known /\ r \notin newReqs
        /\ out[r] = 0 /\ computed[r] = 0 /\ sched[r] = 0 /\ gen[r] = 0
        /\ stream[r] = Global /\ payload[r] = "plain"

InvIdle ==
    phase \in {"idle", "down"} =>
        /\ newReqs = {} /\ lastFinished = {} /\ preempted = {} /\ finishItems = {}
        /\ \A r \in Requests : sched[r] = 0 /\ sampled[r] = Nothing

\* The batch of a step in flight is in the ledger.
InvRows ==
    phase \in {"scheduled", "planned", "executed"} =>
        /\ finishItems = {}
        /\ \A r \in newReqs : sched[r] > 0
        /\ \A r \in Requests : sched[r] > 0 => ledger[r] = "running"
        /\ \A r \in Requests :
              sampled[r] # Nothing <=>
                  phase = "executed" /\ sched[r] > 0 /\ computed[r] = Prompt[r] + out[r]

InvGone ==
    \A r \in finishedIds \cup lastFinished \cup finishItems : ledger[r] = "gone"

\* A live payload request that is not registered has not started.
InvUnregistered ==
    setup # "async" /\ phase # "down" =>
        \A r \in Alive : HasPayload(r) /\ r \notin configs =>
            /\ out[r] = 0 /\ stream[r] = Global
            /\ ledger[r] = "waiting" \/ (phase = "scheduled" /\ r \in newReqs)

\* Without the hooks nothing is registered and no payload reaches the worker.
InvAsync ==
    setup = "async" =>
        /\ configs = {}
        /\ \A r \in Requests :
              /\ plan[r] = NoPlan
              /\ HasPayload(r) => /\ r \notin known
                                  /\ phase = "planned" => r \notin newReqs

\* How far the ledger's progress and the output can be apart: once schedule()
\* has given a request its turn, nothing is left to compute.
InvProgress ==
    /\ \A r \in Alive : computed[r] <= Prompt[r] + out[r]
    /\ \A r \in configs \cap Alive : out[r] >= 1 /\ r \notin preempted =>
          IF phase \in {"scheduled", "planned", "executed"} /\ sched[r] > 0
          THEN computed[r] = Prompt[r] + out[r]
          ELSE computed[r] + 1 >= Prompt[r] + out[r]

\* What on_step_scheduled let through holds no preempted payload request.
InvPreempted ==
    phase \in {"planned", "executed", "recovered"} => Rejected = {}

InvPlan ==
    phase = "planned" =>
        \A r \in Requests :
            plan[r] = IF r \in configs /\ sched[r] > 0 /\ payload[r] # "forced"
                           /\ view[r] # Global
                      THEN [view |-> view[r], kvLen |-> computed[r], step |-> gen[r]]
                      ELSE NoPlan

\* Between update_from_output and on_step_outputs the parser is behind where the
\* scheduler accepted a token.
InvBehind ==
    phase = "recovered" =>
        \A r \in configs :
            (r \in Alive \/ r \in finishItems) /\ sampled[r] # Nothing =>
                sched[r] > 0 /\ gen[r] < out[r]

\* Behind by that token and nothing else.
InvParse ==
    phase = "recovered" =>
        \A r \in configs : r \in Alive \/ r \in finishItems =>
            IF sampled[r] = Nothing
            THEN gen[r] = out[r] /\ view[r] = stream[r]
            ELSE out[r] = gen[r] + 1 /\ stream[r] = After(view[r], sampled[r])

InvGen ==
    \A r \in Requests : gen[r] <= out[r] /\ (view[r] # Global => gen[r] >= 1)

\* Requests without a payload stay out of all this.
InvPlain ==
    \A r \in Requests : ~HasPayload(r) =>
        r \notin configs /\ stream[r] = Global /\ sampled[r] \in {NoTag, Nothing}

InvFinish == finishItems \subseteq finishedIds

\* A request is served or has its terminal trace, not both.
InvEnded ==
    /\ \A r \in Requests : "finished" \in ended[r] =>
          ended[r] = {"finished"} /\ ledger[r] = "gone"
    /\ phase # "down" =>
          \A r \in Requests : r \in configs \/ ledger[r] # "gone" => ended[r] = {}

\* The parser is exact as long as the tokenizer does not fail.
InvExact == TokenizerMayFail \/ (InvParse /\ RegistryTracksStream)

IInv ==
    /\ TypeOK
    /\ InvNew
    /\ InvIdle
    /\ InvRows
    /\ InvGone
    /\ InvUnregistered
    /\ InvAsync
    /\ InvProgress
    /\ InvPreempted
    /\ InvPlan
    /\ InvBehind
    /\ InvGen
    /\ InvPlain
    /\ InvFinish
    /\ InvEnded
    /\ InvExact

-----------------------------------------------------------------------------
(* The inductive invariant behind PlanLengthMatchesKV. *)

\* A request that waits has nothing computed (schedule() with its preemptions).
InvWaiting == \A r \in Requests : ledger[r] = "waiting" => computed[r] = 0

\* A decoding row gets its one token, and a plan is made only behind the prompt.
InvDecoding ==
    /\ phase \in {"scheduled", "planned"} =>
         \A r \in configs \cap Alive :
            out[r] >= 1 /\ r \notin preempted /\ sched[r] > 0 => sched[r] = 1
    /\ phase = "planned" =>
         \A r \in Requests : plan[r] # NoPlan => Prompt[r] + sched[r] <= computed[r]

\* What the worker has written of a payload request that is served alone is what
\* the ledger says, but for the tokens of the step in flight.
InvWritten ==
    setup # "async" =>
        \A r \in Requests : Alone(r) /\ HasPayload(r) /\ ledger[r] = "running" =>
            IF phase \notin {"scheduled", "planned"}
            THEN r \in known /\ written[r] = computed[r]
            ELSE IF r \in newReqs THEN computed[r] = sched[r]
            ELSE r \in known \ preempted /\ written[r] + sched[r] = computed[r]

KVInv == InvWaiting /\ InvDecoding /\ InvWritten

-----------------------------------------------------------------------------
(* The engine implements the service. *)

Service == INSTANCE ReadViewService WITH
    declared <- stream,
    shown    <- shown,
    fresh    <- IF phase = "executed" THEN {r \in Requests : sampled[r] # Nothing} ELSE {},
    forced   <- {r \in Requests : payload[r] = "forced"}

\* Seen from outside, the engine is the read view service.
ImplementsService == Service!Spec

-----------------------------------------------------------------------------
(* What the documents say of the exceptional paths. *)

\* Every registered request that is released leaves a terminal trace: the module
\* header lists the traces of ended and cancelled requests among its duties.
ReleaseIsTraced ==
    [][\A r \in configs \ configs' : ended'[r] # {}]_vars

\* A step that ends in an exception has aborted the payload requests it had
\* scheduled.
FailedStepAborts ==
    [][phase = "planned" /\ phase' = "idle" =>
        \A r \in Rows : HasPayload(r) => r \notin Alive']_vars

\* Requests without a payload are not affected: each of their forwards starts
\* where the worker's KV of the request ends.
OrdinaryUnaffected ==
    phase = "planned" =>
        \A r \in Rows : ~HasPayload(r) =>
            r \in KnownNow /\ KVEnd(r) = computed[r] - sched[r]
=============================================================================
