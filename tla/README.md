# A verification development for peephole

peephole adds *declarative read views* to a pinned vLLM: the model writes
`<focus …>`, `<local>` and `<global>` tags in its own output, and the engine reads
only the KV blocks the declared view makes visible, from the next token on. This
directory holds TLA+ specifications of the parts of it that keep state, TLC
configurations that check them on small instances, and TLAPS proofs of their main
properties for every instance. All modules are written from the code under `src/`;
paths below are relative to the root of the repository.

Contents: 1 the system, 2 the modules, 3 the runs, 4 the proofs, 5 where code and
documentation disagree, 6 what is not modelled, 7 the plan.

## 1. The system

### Components, state, operations

| Component | Where | State | Operations |
| --- | --- | --- | --- |
| Engine hooks, `AttnViewEngine` | `vllm-patch/files/vllm/v1/engine/attnview_engine.py` | `_configs`, the protocol registry, the pending plans, trace records | `on_step_scheduled` (reject preempted, register, build and attach plans, fail fast), `on_step_outputs` (drop finished, drop gone, parse, release), `refuse_unsupported_step`, `shutdown` |
| Engine loop, `EngineCore` | `vllm-patch/patched/v1/engine/core.py` | input queue, aborts queue | `step`, `step_with_batch_queue`, `_process_aborts_queue`, `add_request`, `abort_requests` |
| Scheduler (vLLM, not in this repository) | used from the two above | request ledger, `num_computed_tokens`, finished ids | `schedule`, `update_from_output`, `finish_requests` |
| Worker adapter | `vllm-patch/files/vllm/v1/worker/gpu/attnview_adapter.py`, patched `attn_utils.py`, `model_runner.py` | persistent read row, pinned staging buffers, request states | `fa_override_for_step`, `add_requests`, `update_requests`, `execute_model` |
| Read view arithmetic | `src/attnview/readview.py`, `gpukv.py`, `step_plan.py` | none | spans → aligned spans → blocks → prefix length, and the checks of a plan |
| Reference | `src/attnview/reference.py` | none | position by position definition of what is visible |
| Protocol parser and request state | `src/attnview/parser.py`, `state.py`, `decode.py` | mode, references, tag buffer, statistics | `detok.feed`, `feed_generated_token`, `feed`, `flush`, `finish` |
| Deployment tool | `tools/p2-apply-patch.py` | targets, backups, `deployed.json` | `apply`, `revert`, `--force` |
| Segmenter and prompt layout | `src/attnview/segmenter.py`, `prompt.py` | none | `segment_context`, `render_arm`: context → segments → token spans |
| Calibration driver | `tools/p2-calib-run.py` | manifest, evidence, `error.txt`, watchdog threads, wrapped methods | the arms of a run, `drive_main_request`, `run_cleanup_check`, `Watchdog`, `LayerCapture` |
| Dense reference | `src/attnview/reference_run.py`, `reference_hook.py`, `reference_bridge.py`, `reference_dense.py` | attachment, switch, steps, ledger | attach, `before_forward`, the wrapped forward, `validate`, restore |
| Calibration hooks | `attnview_adapter.py` (in the worker), armed by a file of the driver | arm cache, two step counters, log files | `calibration_note_override`, `calibration_capture_logits`, `calibration_force_tokens` |
| Masked diagnostic | `src/attnview/smoke_structure.py`, `trace.py` | snapshots of forwards | `snapshot_layer`, `check_capture_structure`, `build_step_trace` |
| Numerical acceptance, extraction, prompt texts, patch generation, evidence tools | `numeric_acceptance.py`, `gpucheck.py`, `extract.py`, `prompts.py`, `tools/p2-gen-patch.py`, … | none | measurement and text functions |

### How they interact

One pass of `EngineCore.step()` is

    schedule()                 the ledger advances, a SchedulerOutput snapshot is cut
    on_step_scheduled()        preempted payload requests refused; new ones registered;
                               a plan for every decoding row in a restricted view
    execute_model()            the worker replaces the read metadata of planned rows,
                               runs the forward, samples
    _process_aborts_queue()    client aborts that arrived meanwhile
    update_from_output()       the scheduler accepts tokens, finishes requests
    on_step_outputs()          finished and vanished requests dropped, tokens parsed

so the hooks work with *two* views of the truth: the live ledger and the snapshot of
this step. Requests may be added and aborted from outside in between. An input thread puts an
ADD into the input queue, which the loop empties between steps, and an ABORT into the aborts queue
as well, where the step in flight finds it; an idle loop throws the aborts queue away. Exceptions anywhere end the step at once. With
asynchronous scheduling the loop takes `step_with_batch_queue` instead, where no hook
but a guard is called.

A *calibration run* is one process that loads an engine, drives one request through
it and judges what was recorded. The driver submits the request and then writes the
file that arms the worker's hooks; it wraps methods of the loaded model, in the reference
arm twice (the reference, and over it the capture); it gives every call that may never
return to a watchdog thread, which may end the process at any point of the main
thread's work. Afterwards it aborts, restores, checks, runs a clean-up request, and
says in the manifest how it ended.

### What is hard

* the order of parsing and reading: a token parsed a step late, twice, or after its
  request was aborted changes what is read and nothing fails;
* snapshot against ledger: a request may be preempted *and* scheduled in one
  snapshot, finished outside any step, aborted between sampling and acceptance;
* counting: the ledger is one step ahead when a plan is made;
* failure half way: the hook raises after the ledger advanced; the worker refuses
  after the hooks have run; the tokenizer fails between two rows;
* tags and characters cut between tokens, tags that never close, text that only looks
  like a tag;
* one pinned buffer and one persistent device row shared by all steps, copied
  asynchronously;
* wrappers that come off in the wrong order, or stay when something failed half-way, and
  would then compute the next request;
* hooks that see every batch of the engine – warm-up, neighbours, clean-up – and count
  steps although the engine chunks, preempts and computes again;
* a timer thread that cannot be cancelled any more and writes the manifest while main does;
  an error that is replaced by another on its way out; a judgement that must be
  on disk before the next call that may hang;
* an audit that must not agree with the engine by sharing its mistakes, and three
  timelines (by token, by forward, by trace row) that must not be off by one;
* a token that crosses the border of a segment, in the context and again in the prompt;
* a deployment that may be killed between any two file operations and whose recovery
  may be killed too, while others edit the same files.

`PROJECT.json` lists each hazard with its line and the properties that watch it.

### What makes each component correct

* *Engine and worker*: every forward reads each request through the view its accepted
  output declares (parse at *t*, effect at *t+1*), never silently through another one;
  its attention length counts the current token once; state lives exactly as long
  as its request; a failing step leaves no half-served payload request.
* *Paged read*: the kernel dereferences exactly the slots of the positions that the
  reference shows, and writes stay where the canonical table says.
* *Parser and request state*: however the stream is cut into tokens, each step record
  holds the view that the text so far declares; void declarations change nothing;
  nothing of the text and no anomaly is lost; calls of focus are counted once.
* *Calibration run*: originals are back in the end; only decode tokens of the armed
  request are computed densely; an accepted run was covered exactly once per forward and
  layer; forced tokens reach their request in order, and nobody else; how the process
  ended is what disk and exit code say; it does end.
* *Masked diagnostic*: the audit accepts no run that read anything else than declared,
  and rejects none that read just that.
* *Segmenter*: the segments are the text, as coarse as the limit allows, and each can
  be shown alone.
* *Deployment*: at every moment the disk can be explained by the journal and taken
  back to the originals; foreign edits survive; recovery ends.

## 2. The modules

### `ReadViewService` – what the views promise

The abstract specification: for each request the view `declared` by accepted
output and the view `shown` at its last forward. `Forward` shows what has been declared
so far (or the global view for requests forced to it), `Accept` takes or drops sampled
tokens. It knows no scheduler, registry, plan or worker.

### `AttnEngine` – the engine implements it

State and code: `client`, `inputQueue`, `aborts`, `passing` are what a client has sent, the two
queues and an abort that the input thread has put into only one of them so far;
`ledger`, `computed`, `out`, `finishedIds` are the scheduler's;
`sched`, `newReqs`, `preempted`, `lastFinished` the `SchedulerOutput` in flight; `sampled`
and `finishItems` its results; `configs`, `view`, `gen`, `plan`, `ended` the fields of
`AttnViewEngine`; `known`, `written`, `shown` the worker. `phase` is where `step()` is.

| Action | Code |
| --- | --- |
| `QueueAdd`, `QueueAbort`, `PassOnAbort` | the input thread, `process_input_sockets`, at any moment: an ADD into the input queue; an ABORT into the aborts queue, then into the input queue |
| `AddRequest`, `HandleAbort` | `_process_input_queue` and `_handle_client_request`, one message at a time between two steps |
| `ClearAborts` | `_process_input_queue` without work: the aborts queue is emptied unprocessed |
| `Schedule(n, P)` | any batch `n` and any preempted set `P` the scheduler may choose (external) |
| `OnStepScheduled`, `OnStepScheduledRaises` | the whole hook: all of its early exits, and its clean-up before raising |
| `Execute(tok)`, `ExecuteRaises` | the forward with any sampled tokens; or the worker refuses (`WorkerRefuses`) or does not know a row (`UnknownRow`) |
| `Recover(F)` | aborts queue, then `update_from_output` |
| `OnStepOutputs`, `OnStepOutputsRaises(R)` | the whole hook; or the tokenizer fails after the rows `R` |
| `RefuseUnsupportedStep`, `PassBatchStep`, `EndBatchStep` | the batch-queue path |
| `Shutdown` | `shutdown` |

Abstractions: a view stands for a mode with its references; a sampled token either
declares a view or is `NoTag` (the parser decides which, see `ProtocolState`);
payloads are kinds: `da`, `forced` (`enforce_global`), `malformed`, `mismatched`
(layout against prompt), `unplannable` (`build_step_plan` raises), or `plain`.
Configurations are kinds as well: `ok`, `unsupported`, `no_geometry`, `async`.
Request ids are never used twice: the frontend makes internal ids unique, and sends one ADD and at
most one ABORT for each. `Impatient` is the set of requests whose clients may abort at all.
A step begins with an empty input queue: the loop has just emptied it, and a message that comes
between that and `schedule()` is in the same place as one that comes during the step. `ClearAborts`
does not ask whether the input queue is empty: the loop has seen that, but not under a lock.

After an exception the model goes on. In vLLM's multi-process mode an exception in
`step()` ends the engine process; in the in-process mode
(`VLLM_ENABLE_V1_MULTIPROCESSING=0`, used for calibration, see
`reports/p2-single/integration-design.md`) it reaches the caller, who can step again.
The model covers both: the first is a prefix of the second's behaviours.

### `TagParser` and `ProtocolState` – from tokens to views

`TagParser` says what a closed tag means (`Void`, `Declared`, `TagEvent`, with the three
regular expressions as `Regular`, `Loose` and `NameOf`) and, independently, what a whole
stream says: `Decode` of all its bytes at once, `Tags` by position, `Declaration` by
the protocol's legal forms, `Meaning` of a text, `Outside` and `FocusCalls`, all by recursive
functions over positions or by sets of them, none by a loop over characters. `ProtocolState` is one request: `view`,
`buf`, `plain`, `anomalies` are the fields of the parser, `pending` the incremental
decoder, `steps`, `flushEvents`, `closed` those of `RequestProtocolState`. `Sample`
takes a token, `HoldLead` and the branches of `FeedChar` are the loop of `feed` unrolled
(one action per branch of `_feed_char`), `EndToken` appends the step record, `Finish`
ends the generation.

A character of the model is a lexeme: delimiter, tag name, blank with a complete
attribute, other text. The parser looks inside one only when its tag is complete, at the
limit or cut off, so a cut inside a lexeme changes nothing; an incomplete name is
`word`. The buffer limit counts lexemes for the same reason. Multi-byte characters
have two bytes. Reason codes and messages are abstracted to "is an anomaly".

`AttnEngine` uses this module's result: a token either changes the view or does not. A
tag whose effect depends on the current mode (`</focus>`) is covered because the sampled
token is arbitrary in every state.

### `ReadView` and `PagedRead` – from a view to memory

`ReadView` is the arithmetic as operators (`Clip`, `AlignOutward`, `Merge`, `BlocksOf`,
`Covered`, `Plan`, `PlanRefused`) next to the independent `ReferenceVisible`. Loops over data
appear by what they compute, so that the theorems of section 4 can speak of them: `Merge`
says which spans open a merged one (`Opens`) and how far it reaches (`Reach`), lengths are
summed as numbers of pairs (`Covered`, `Total`), `sorted` is `InOrder`. That `Merge` is what the
loop of `_merge` returns is the assumption `MergeIsTheLoop` of `MCPagedRead`, which TLC
evaluates for every set of up to four spans from a short stretch of positions.
`PagedRead` runs one request over it: `BeginStep` plans and issues two asynchronous
copies and the forward to a device `stream`; `CopyIndex`, `CopyLength` and `Forward`
execute them in order but at the device's own pace; `EndStep` is the host waiting for
the sampled token. The cache records which position lies in each slot, so "the kernel
read the right thing" is a statement about contents. Table growth and the choice of
physical blocks are left to the cache manager (external).

### `DeployTxn` – the deployment transaction

`disk`, `tmp`, `backup`, `journal` are files; `pc`, `at`, `todo`, … the process. One
action per file operation (`BackUp`, `SaveJournal`, `MarkWriting`, `CopyTmp`, `Replace`,
`MarkWritten`, `Commit`, `BeginRestore`, `EndRestore`, `Remove`, `RemoveBackups`,
`Discard`), so that `Crash` may fall between any two; every operation may also fail
with `OSError`, `RestoreRaises` is a target that vanishes before it is hashed after the copy, and
`RemoveBackups` may leave some, as `rmtree(ignore_errors=True)` does. `Edit` is somebody else. Content is `pre`, `post`, `torn`, `foreign`
or `missing`, which is all that the tool's hash comparison tells apart.

### `ReferenceRun` – one capture of the forwards

`at`, `attSaved`, `capSaved` are the attributes that are wrapped and what the two
wrappers saved; `armed`, `stepOpen`, `requestStep`, `records`, `positions`, `batch`,
`fresh` belong to `LayerCapture`; `reqId`, `enabled`, `curReq`, `curStep`,
`completed`, `snaps`, `ledger` to the reference's attachment and run; `fw`, `real`, `called`,
`computed`, `prefillLen` to the engine; `truth` records who really computed what.

| Action group | Code |
| --- | --- |
| installation, layer by layer, and its failure | `build_reference_run`, `install_capture`, `restore_capture` |
| `prepare_inputs`, `model.forward`, the layers, in their order | the wrappers of `LayerCapture` and of the attachment, each with the checks that raise |
| departures: chunk, preempt, mix, prepare past the wrapper, skip or repeat a layer, raise | external |
| driving, abort, finally, checks, clean-up, leaving | `drive_main_request`, `_run_impl` |

### `CalibHooks` – forced tokens and logs

`armFile`, `cached`, `forceStep`, `logitsStep` are the file and `_CALIB_STATE`; `forceLog`,
`logits`, `trace` the files the hooks write; `stage` is how far the engine's step has come.
`Forward`, `CaptureLogits`, `ForceTokens` are the three hooks, `Check` the driver's
verification of their files. A token is its place in the trajectory, or 0 if sampled
freely, so order, repetition and the wrong recipient can be told. `behind` says that
the request has a prompt to compute, the first time or after a preemption: rows
without a token.

### `CalibDriver` – how a run ends

`mainPc` walks through `main` and `_run_impl`; `err`, `failed`, `code`, `mem` are the exception in
flight, the check log, the exit code and the manifest in memory. `Write` is the second half
of a save, after the file was emptied. Per watchdog `timer` goes through the steps of
`_fire`: evidence, read the manifest, empty it, write it, `os._exit`. `Enter` and `Exit` are
`__enter__` and `__exit__`: the latter cannot stop a thread that has begun.
`Startup`, `Request`, `Abort`, `Cleanup` are calls into the engine: they return, raise, or
never happen, which is a hang. `Prepare` installs the layer capture, or goes without it
(`--no-record-layers`). Calls outside a watchdog (`collective_rpc`, the
installation of the capture, the interpreter's exit) are assumed to return.

### `MaskedDiagnostic` – the audit against an engine that may err

Extends `ReadView`. `Step` is one forward: the engine reads by `Plan`, writes, and leaves
its records (`structure`, `overrides`, `parsed`); up to `MaxDepartures` forwards
depart in one of six ways: an override a step old, one layer that reads by itself, a
table moved under the request, a write through the compressed table, an override that was not
recorded, a declaration that was lost. `Expanded`, `SemanticPositions`, `ExpectedView` are the
audit's own derivation, `BridgeView` the reference's, `Row` the step trace's. `right` is
the truth: every forward read what its declarations make visible. That a physical
block belongs to one position range only is assumed of the allocator; the audit would not see it.

### `Segmenter` – from a context to spans of tokens

Extends `ReadView` for the layout. `Cut`, `KeepWhole`, `KeepAtomic` are `_split_span`,
one span at a time, the leftmost first; `Render` is `render_arm`: the segments are trimmed, put
between template text, tokenized anew (`offsets`), and their character ranges mapped to tokens.
A character is a class (word, stop, comma, space, newline); tokenizations are arbitrary,
with tokens of up to three characters, and in the prompt a segment's first and last
character may be one token with the template beside it.

### Other modules

`MCAttnEngine`, `MCProtocolState`, `MCPagedRead`, `MCMaskedDiagnostic` and `MCSegmenter` give
constants their values. `…Proofs` hold the proofs; `CalibProofs` those of `CalibHooks` and
`CalibDriver`, the two halves of `p2-calib-run.py`, and of `Segmenter`, from which that program
builds its prompt (`tools/p2-calib-run.py:347-353`); their names are kept apart (`DriverNext`, `DriverTyped`,
`SegmenterNext`). Definitions commented
"Mutant" are deliberately wrong variants of the definition they precede; substituted
for it, they show that a property can fail. `Next` uses none of them.

## 3. The runs

| Run | Instance | Shows |
| --- | --- | --- |
| `engine` | 2 requests, 2 views, prompts of 1 and 2, 2 output tokens, chunks of 1, all payload kinds, all configurations, both clients may abort (4.9M states) | the safety properties, the inductive invariant, and that the engine implements the service |
| `engine_live` | 2 requests, one client may abort, 2 views, 3 payload kinds, tokenizer may fail, fair loop (382k states) | state of ended requests is released and aborts take effect in the end; plan length against written KV |
| `engine_refusal` | 2 requests | the first disagreement of section 5 |
| `protocol` | 2 segments, 2 attribute values, limit of 4 lexemes, 4 tokens out of 19 (680k states) | step views, plain text and focus count against the whole stream; the inductive invariant |
| `reference_run` | 2 layers, prompt of 2, 3 forwards, 1 extra step, 3 faults, reference arm (18k states) | originals back, coverage, the inductive invariant, the run ends |
| `calib_hooks` | 3 tokens, trajectories of 2, 3 and 4, both kinds of arm, with and without a layer capture, 2 foreign tokens, 3 faults (52k states) | the trajectory in order, complete replays, the hooks' invariant |
| `calib_driver` | all arms, with and without the clean-up check, 2 faults, 4 watchdogs (24k states) | evidence, manifest, exit code and `error.txt` agree; the process ends |
| `masked_diagnostic` | 3 scripts, 2 layouts, blocks of 2, 6 physical blocks, 2 layers, 1 departure (78k states) | the audit is sound and complete; the three accounts agree |
| `segmenter` | all texts of up to 5 characters, some of 7, all tokenizations with tokens of up to 3 characters, target 1, limit 2 (271k states) | tiling, limit, coarsest boundary, spans and focus against the characters |
| `deploy` | 3 targets (2 replace, 1 adds), 3 faults, 2 edits (230k states) | journal, backups, foreign edits, recovery ends |
| `deploy_torn` | 2 targets, 2 faults | the second disagreement |
| `paged_read` | 3 layouts, blocks of 2, 9 positions, 5 physical blocks (98k states) | exact reads, canonical writes, plans exist |

A property that is a conjunction is listed once: `IInv`, `ProtocolInv`, `RunInv` and `DeployInv`
are the inductive invariants of section 4 with their parts; `HookInv` contains
`OnlyTargetForced` and `TraceFiledUnderDecode`; `DriverInv` contains `ReturnIsRecorded` and
`GreenIsClean`; `AccountsAgree` contains `TimelinesAgree` and `TraceTellsForwards`;
`WellSegmented` contains `OverLimitIsAtomic`; `PagedInv` contains `WritesAreCanonical` and
`PlanAlwaysExists`. Apart from `RunInv`, whose types are proved, each of them contains
its module's `TypeOK`.

Further configurations, for use by hand: `MCReferenceRunPlain.cfg` (module `ReferenceRun`, an arm
without the reference, where no hook looks at the batch before it runs: `AcceptedIsTheRequest`
holds, 199k states), and those that section 5 names.

**Why the bounds suffice.** *Engine*: interference is pairwise (one request's fault
against another one's batch), so two requests; two output tokens give one read under a
declared view and one finish by length; a prompt of two with chunks of one gives
chunked prefill, whose last chunk looks like a decode step; schedules, preemptions,
abort times and finishes are unrestricted. A declared view and the global one suffice: the engine
compares a row's view with the global one and hands it on, and never two views with each other.
In `engine_live` one client is patient, which keeps the graph small enough for liveness; the aborted
request meets another one that is added, runs, fails and ends at any moment. *Deploy*: three targets
give one before, at and behind the point of failure, and both kinds; three faults
allow a failed apply, a crashed recovery and a crash of the recovery after that.
*Protocol*: the 19 tokens cut tags before, inside and after the name, put two tags into
one token, start a tag inside a tag, give void and partly invalid references, and
cut a character before a `>`; four of them reach open, close, reopen and overflow of
a tag at the limit, which a longer stream only repeats from one of the same views.
*Paged read*: the layouts cover spans that start inside a block, touch, overlap,
are empty, or lack a window; nine positions cross two block borders while
decoding. *Reference run*: two layers give a first and a last one, with a failure before,
between and after them; three forwards give the prompt, the first decode step and one that follows
a decode step; three faults allow a preemption, a wrong forward and a failure while
aborting. *Hooks*: trajectories one shorter than, as long as and one longer than the request;
three departures allow a chunk, a preemption and a neighbour. *Driver*: each phase happens
once; two faults allow an exception and another one on its way out; deadlines are free.
*Diagnostic*: scripts change the view on and off block borders, repeat one and end
restricted; one departure, since the audit judges each forward and layer by itself.
*Segmenter*: five characters give a cut with something left on both sides of it, twice; tokens of
three span a boundary from both sides; limits of one and two are the tightest.

The bounds are the constants `MaxOut`, `Chunk`, `MaxFaults`, `MaxMishaps`, `MaxEdits`,
`MaxLen`, `MaxTokens`, `Total`, `Slack`, `CleanupForwards`, `OtherTokens`, `MaxDepartures`,
`MaxTokenLen` and `Impatient`; `MaxOut`, `MaxLen`, `Total` and `Slack` are real limits of the system too.
`TokenizerMayFail` separates the runs in which the lazily loaded tokenizer always
answers from those in which it may not.

Deadlock is not checked: a system that has nothing to do, is shut down, has ended or has used its
budget of faults stops rightly.

**Properties of the engine.** `RegistryTracksStream`: the parser state equals what the
accepted output says. `CancelledTokenNeverParsed`: it has never read more.
`ViewMatchesStream`: what the worker runs is read through the accepted view.
`PlanCountsCurrentTokenOnce` and `PlanLengthMatchesKV`: plan length against ledger and
against written KV. `NoLeakedState`, `FailFastLeavesNothing`,
`TerminalTraceIsUnique`: life-cycle. `ImplementsService`: refinement. `GoneIsReleased`: liveness.
`AbortTakesEffect`: liveness over the two abort channels. An abort may come before its request has
left the input queue, so that the aborts queue is processed too early; its step may raise before it
looks at that queue; or the loop throws the queue away; only the copy behind the ADD in the input queue
makes it take effect in each case, and without it (the mutant `PassOnAdditionsOnly`) the
property fails. The first four hold although a batch may mix payload
kinds, chunks and preempted rows. `PlanLengthMatchesKV` speaks of a request that is
served alone: after a batch of two was refused by the worker, the survivor's ledger is
ahead of its cache (see section 5).

**Properties of the protocol state.** `StepViewsFollowText`: each record's view is the
meaning of the text up to its token. `TextConserved`: plain text plus open tag is the
text without its closed tags. `AttemptsCounted`: `focus_stats` counts the openings of
focus in the text. `AnomaliesTraced`, `AnomalyKeepsView`, `FocusIsValid`,
`BufferIsOpenTag` (with `InvBetween` the parts of `TraceInv`, one half of `ProtocolInv`):
consistency of parser, trace and view. `TextInv`, the other half, is what the first three need.

**Properties of a calibration run.** `OriginalsBack`: no wrapper survives, whatever failed when.
`DenseOnlyForTarget` (in `RunInv`): nothing but decode tokens of the armed request is computed
densely. `AcceptedIsCovered`: an accepted run was computed once per forward and layer,
compared with `truth`, not with the run's own records. `TrajectoryInOrder`,
`OnlyTargetForced`, `TraceFiledUnderDecode`: the counters of the hooks follow the tokens, not the
forwards. `AcceptedIsReplay`: matching counts mean matching places. `TimeoutIsRecorded`: a
watchdog that ends its call leaves evidence and a completed manifest, unless it could not
write or met another writer; the watchdog of the clean-up check is not meant. `ReturnIsRecorded` and `GreenIsClean`: the manifest says what was
returned, and success is clean. `ErrorLands`: an exception reaches `error.txt` and the manifest.
These two say nothing of a process that a watchdog ended. `JudgedBeforeCleanup`: for the fixture arms the judgement is on disk before the clean-up, which
may be killed; the other arms do not save it before.
Runs that leave `main` by an exception of the very first or last save
(`status = "escaped"`) are outside `ReturnIsRecorded` and `ErrorLands`; so are processes in which
a late watchdog writes the manifest beside main, which can leave it torn.

**Properties of the diagnostic and the segmenter.** `AuditSound`, `AuditComplete`: the verdict
against what really happened, with and without departures. `CoarsestBoundary`: a cut is at the
coarsest boundary of its span, also where a token crosses it. `FocusShowsTheSegment`: in the
rendered prompt the span of a segment is exactly the tokens over the characters of its trimmed
text (`TokensOver`, counted from `offsets` and the place of the text, not from the span; a first or
last token may be shared with the template), so a focus shows every one of these characters and no
token over another segment's. It is about the span, before the read is widened to blocks.

**Fairness.** `engine_live` assumes `WF_vars(TakeMessage \/ Step)`: `run_busy_loop` takes what is
in the input queue and then calls `_process_engine_step` as long as `has_requests()`, and `HasRequests`
is in the guard of `Schedule`. It also assumes `WF_vars(\E r \in Requests : PassOnAbort(r))`: the
input thread, which does not block between its two `put_nowait`, finishes handing on an abort.
Nothing is assumed about clients, the scheduler's choices or failures. `Schedule` may choose an empty batch for ever, so these properties do
not depend on the scheduler making progress. With asynchronous scheduling the guard of the
batch-queue path may refuse the same batch for ever, so that configuration is in `engine` only.
`deploy` assumes `WF_vars(Apply \/ Undo)`
(a process that is not killed runs on) and `WF_vars(Revert(FALSE))` (the operator runs
`revert` until the journal is gone, which is what the tool's messages ask for); faults
are bounded, so recovery is eventually undisturbed. `reference_run` assumes `WF_vars(Next)`: one
thread, whose calls return; that the run ends is due to the step budget of
`drive_main_request`, since the engine may return without a token as often as it likes.
`calib_driver` assumes that the main thread and the watchdog threads run and that time passes, and
nothing of a call into the engine, which may hang for ever.

## 4. The proofs

`tlapm` proves the following for all constants that satisfy the assumptions of the modules
(`EngineAssumption`, `DeployAssumption`, `ParserAssumption`, `VocabularyAssumption`,
`ReferenceRunAssumption`, `CalibHooksAssumption`, `CalibDriverAssumption`, `PagedAssumption`,
`DiagnosticAssumption`, `SegmenterAssumption`):
finite sets of requests or layers, positive limits, distinct sentinels, a buffer limit of at least
two, attributes with at least one number, valid layouts whose prompt is shorter than the model's
length, enough physical blocks for one request, scripts that are not empty and refer to existing
segments, a token target within the limit. No other fact is assumed.

| Theorem | Statement |
| --- | --- |
| `AttnEngineProofs!TypeCorrect` | `Spec => []TypeOK` |
| `Inductive` | `Spec => []IInv` |
| `CancelledNeverParsed`, `OneTerminalTrace`, `NoPreemptedRun` | `Spec => []P` for `CancelledTokenNeverParsed`, `TerminalTraceIsUnique`, `PreemptedNeverExecuted` |
| `NothingLeaks`, `FailFast` | the action properties `NoLeakedState`, `FailFastLeavesNothing` |
| `ParserTracksStream`, `ViewFollowsStream`, `PlanCountsOnce` | if `~TokenizerMayFail`: `[]RegistryTracksStream`, `[]ViewMatchesStream`, `[]PlanCountsCurrentTokenOnce` |
| `KVTracksLedger`, `PlanLengthFollowsKV` | `[]KVInv`, `[]PlanLengthMatchesKV` |
| `Implements` | if `~TokenizerMayFail`: `Spec => ImplementsService` |
| `ReadViewProofs!SpansAreReference` | for every valid layout, mode, references, length and block size: the visible spans cover exactly `ReferenceVisible` |
| `PlanIsReference` | `ShowsBlocks`: the plan lists the blocks of the reference in order, uses all of each but the last, and the last up to the current position |
| `TableIsReference` | `ReadsOnce`: the first `seqused` slots of the gathered table are the reference's positions, each once |
| `PlanIsAccepted` | no check refuses that plan, but for the local view without a window |
| `PagedReadProofs!PagedInvariant`, `ReadsAreVisible` | `[]PagedInv`, `[]ReadsExactlyVisible` |
| `ProtocolStateProofs!ProtocolInductive` | `Spec => []ProtocolInv` |
| `ViewsFollowText`, `NoCharacterLost`, `EveryCallCounted` | `[]P` for `StepViewsFollowText`, `TextConserved`, `AttemptsCounted` |
| `RecordedViewsAreValid`, `AnomaliesKeepView`, `NoAnomalyUntraced`, `BufferBounded` | `FocusIsValid` with every recorded view in `View`, `AnomalyKeepsView`, `AnomaliesTraced`, `BufferIsOpenTag` |
| `ReferenceRunProofs!RunInvariant` | `Spec => [](TypeOK /\ RunInv)` |
| `RunTypeCorrect`, `OriginalsComeBack`, `DenseIsForTarget`, `AcceptedRunIsCovered`, `CountersAlwaysAgree` | `[]P` for `TypeOK`, `OriginalsBack`, `DenseOnlyForTarget`, `AcceptedIsCovered`, `CountersAgree` |
| `CalibProofs!HooksInvariant` | `Spec => []HookInv` |
| `TrajectoryDelivered`, `OthersUntouched`, `TraceFiled`, `AcceptedWasReplayed` | `[]P` for `TrajectoryInOrder`, `OnlyTargetForced`, `TraceFiledUnderDecode`, `AcceptedIsReplay` |
| `StoppedAtTheEnd` | `[][Stops => Supplied]_vars`: when the forcing hook itself ends a run, the request was to get one token more and has exactly the `traj` tokens of the trajectory, each in its place and with its record; for `traj = 0` that is its first token (5.11) |
| `DriverTypeCorrect`, `DriverInvariant` | `DriverSpec => []P` for `DriverTyped`, `DriverInv` |
| `TimeoutsAreRecorded` | `[]TimeoutIsRecorded`: for the watchdogs of startup, request and failure clean-up, with main in the watched call, both own writes successful and no other watchdog fired (5.9 is outside) |
| `ErrorsLand` | `[]ErrorLands`: for runs in which main returns (5.10 is outside) |
| `JudgementIsOnDisk` | `[]JudgedBeforeCleanup`: for the masked and the reference arm |
| `MaskedDiagnosticProofs!SoundHolds`, `AuditIsSound` | `Spec => []SoundInv`, `[]AuditSound`: what the audit accepts has read, in every forward and layer, what its declarations make visible |
| `CompleteHolds`, `AuditIsComplete` | `Spec => []CompleteInv`, `[]AuditComplete`: a run without departures is accepted |
| `AccountsHold` | `[]AccountsAgree` |
| `CalibProofs!SegmenterHolds` | `SegmenterSpec => []SegmenterInv` |
| `SegmentsTile`, `CutsAreCoarsest`, `FocusIsTheSegment` | `[]P` for `WellSegmented`, `CoarsestBoundary`, `FocusShowsTheSegment` (spans are the tokens over the characters): for every text, every tokenization, every limit and every way in which the template merges with a segment's ends |
| `DeployTxnProofs!DeployInductive` | `Spec => []DeployInv` |
| `JournalCovers`, `Recoverable`, `PendingStays`, `ForeignStays` | `JournalCoversWrites`, `DeployedIsRecoverable`, `PendingUntouched`, `CheckedForeignPreserved` |

The assumption `~TokenizerMayFail` is needed: a tokenizer that fails between two rows
leaves the later rows unparsed for good, and the next plan reads a stale view.

**The engine's invariant.** None of the properties is inductive. `IInv` adds, in
order of importance: `InvUnregistered` (a live payload request that is not registered
has not produced a token and is still waiting, or is new in this very snapshot – so
registering it with an empty parser is right, and a running payload row is always
registered); `InvBehind` and `InvParse` (between acceptance and parsing, the parser is
behind by the one sampled token, exactly for the rows that are still served or
finished just now); `InvProgress` (once a decoding request is scheduled nothing is left
to compute, hence the advanced ledger *is* prompt plus output); `InvPlan` (plans are
what `build_plans` says, of the current state); `InvPreempted` (nothing that passed
the hook holds a preempted payload request, so the second `_reject_preempted` in
`on_step_outputs` never finds anything); `InvAsync` (without hooks no payload reaches
the worker); `InvEnded`, `InvGone`, `InvFinish` (terminal traces and finished ids
against the ledger); `InvRows`, `InvIdle`, `InvNew`, `InvPlain` (the shape of a batch,
of an idle engine, of untouched and ordinary requests). There is one lemma per action
and one step per conjunct. The queues need none of it: what moves only there (`QueueMove`) leaves the rest
as it is, and an abort taken too early or twice finds its request unknown or gone.

**The refinement.** `Execute` maps to `Forward`, `Recover` to `Accept`, the admission
of a forced request to `Admit`, everything else to a stutter. The interesting step is
`Execute`: a planned row shows `plan[r].view`, which is the accepted view by
`InvPlan` and `RegistryTracksStream`; a row without plan reads globally, which is
right because it is forced, plain, or in the global view.

**Plan length and written KV.** `PlanLengthMatchesKV` speaks of a payload request that is
served alone; for it `KVInv` relates ledger and cache in every phase (`InvWritten`: what is
written is what is computed, and within a step less by just the tokens in flight; `InvDecoding`: a
decoding row gets one token; `InvWaiting`: a waiting request has nothing computed, so after a
preemption it starts afresh on both sides).

**The read path.** The arithmetic is proved for every layout, block size and length, without
induction. Where the argument would be one over a list, it is one over sets: `Opener` says that
every span lies in a merged one, because among the spans that open and begin no later than it
there is a greatest (`GreatestNumber`); a first counterexample (`LeastNumber`) replaces the
induction step in `InOrderFacts`; lengths are cardinalities of disjoint unions (`CoveredCount`,
`TotalCount`), so no sum is unfolded here; those of the diagnostic and of the prompt, which grow, are
unfolded one number at a time (`PairsGrow`). `BlockCount` is the point on which everything
rests: merged spans do not overlap, so counting each for itself counts every position of a block
once, and alignment makes all blocks but the last full. `PagedInv` then needs only what
asynchrony adds: `TableHolds` (the table has exactly the blocks of the positions, each once),
`Written` (all positions but the current one are in the cache; that one too, when the device has
caught up) and `StepInPlace` (what is left in the stream, and that staging buffer, device row
and length already hold the plan of *this* step for the operations that are done). `Forward` is the
interesting step: the slots it reads are `ReadsOnce` of that plan, `Written` says what is in them.

**The protocol's invariant.** `ProtocolInv` has two halves. `TraceInv` is the conjunction of
`AnomaliesTraced`, `AnomalyKeepsView`, `FocusIsValid`, `BufferIsOpenTag` and `InvBetween` (no
half-fed token between tokens, no flushed event before the end). Its heart is `AfterTagFacts`: a
tag that is not void maps a good view to a good one, because the one attribute it has lists at
least one segment and only existing ones. The branches of `_feed_char` fall into those that raise
an event and those that do not, with one lemma for each kind.

`TextInv` relates the parser to the text. `Heard` is the text that has come out of the decoder so
far, and `DecoderInv` says that it is `Decode` of the bytes taken (a lead byte that the next byte
does not continue has already come out before that byte is taken), so every `Consume` appends
exactly its `Char` to `Heard` (`ConsumeHeard`). `ParserInv` says that the parser is right about
`Heard` in *every* state, not only between tokens: `Reads` gives its view (`Meaning`), its plain
text with the buffer (`Outside`), and what may be in the buffer (`OpenIn`: nothing, a `<` that may
still open a tag, or the text from the one tag on that is still open). `AttemptsInv` counts, before
the end, the calls whose tag has ended. None of this is induction over data: a step appends one
character, and one lemma per definition says what that changes in it (`EndOfLonger`,
`OpeningsLonger`, `TagsLonger`, `MeaningLonger`, `PlainLonger`, `ClosingLonger`, `DecodeAppend`,
`EndedCallsLonger`). The recursive functions behind these definitions have a solution, and only
one, by least counterexample (`LeastNumber`). On them rest `ReadsPlain`, `ReadsSecond`,
`ReadsInside` and `ReadsClose`, one for each state of the buffer. `DeclarationIs` carries
`ReadsClose`: `_close` with its two regular expressions and its list of anomalies (`AfterTag`)
gives the view that the protocol's three legal forms give (`Declaration`), for every tag and every
good view; it is where `FocusIsValid` is needed. `CallsClosed`, `CallsGivenUp` and `CallsCut` say
the same of the attempts, for the three ways a tag ends.

**The reference run's invariant.** `RunInv` adds to `OriginalsBack` and `DenseOnlyForTarget`:
`WrapInv` (what an attribute holds was saved by whoever put it there, and the capture saved
the reference's wrapper only after the reference had saved the original – so taking off the
capture first and the reference second ends with the originals, from any stage of a failed
installation); `ControlInv` (where the driver may be while the capture is armed, the switch is on
or a step is open); `DriveInv` (while the main request is driven, all counters name the forward in
hand, and a running forward was begun on the batch the wrapper saw); `LogInv` (ledger and truth
agree row by row until something raises). Coverage then follows by counting: `Validate` finds
`Total` forwards of distinct rows for all layers, `LogInv` says the rows are true, and a
sequence of that length onto a set of that size has no repetition.

**The hooks' invariant.** `HookInv` adds to the properties it contains: `PhaseInv` (what is
armed, and which batches may be under way, in each phase of the driver), `CounterInv` and
`TokenInv` (the forcing counter is the number of tokens of the request and, between the hook
and the delivery, one more, exactly if the row of the armed request consumes one; its log has a
record for each), `LayersInv` (with a layer capture, forwards, logits and tokens keep step). `AcceptedIsReplay` is a counting argument on top: as many entries as tokens, in
order and without a gap, are the same entries (`AcceptedOnce`).

**The driver's invariant.** `CoreInv` has a part for each thing that main and the watchdogs
share: `PlaceInv` (which exception can be in flight where), `TimerInv` (which watchdog can have
fired where), `FileInv` (when the manifest on disk is whole, and when complete), `MemInv` (what the
manifest in memory already says, from the judgement to the end), `ProcessInv`. The place of a
save is where it continues, so that a save is no case of its own. `DriverInv`,
`TimeoutIsRecorded`, `ErrorLands` and `JudgedBeforeCleanup` follow from it, with the limits that the
table names.

**The deployment's invariant.** `DeployInv` adds to the two properties: marks
against the position of `apply` (`InvApplying`), backups complete before the first write
(`InvBackups`), the list of an undo containing every deployed file and no pending one
(`InvUndo`), and disjoint from what was found edited (`InvSeen`).

**The diagnostic's invariants.** The audit never looks at the cache; it judges records of the
engine by expectations of its own. So the argument has three parts. First, arithmetic: the audit's
derivation of a mask is the reference (`SemanticIsSelected`, `ExpandedIsBlocks`, `MaskIsReference`),
a table of the mask's blocks shows exactly the reference's positions (`SeesReads`), and so does
`ReadView`'s plan (`PlanIsMask`). Second, the timeline: `Ends` is a sum of lengths, so the
expected view before token `n` is that of the last piece that is closed (`ExpectedIsDue`,
`AfterViews`), and it changes only where a piece ends (`AfterIsNext`). Third, the inductive
invariants. `SoundInv`: all records have the shape the audit reads (`Typed`, `Extent`); the view
declared is the one expected of the next forward (`Declares`); the request's table is the one the
last record names (`Chained`); if every record so far passes `LayerOK`, then every forward has read
rightly *and* every position is in its slot of every layer (`Judged`). The second half is what
makes it inductive: a forward that reads rightly still spoils the next one by writing elsewhere,
and only the requirement that a record's canonical table extends the one before excludes that
(`StoredNow`). A departing forward whose record passes nevertheless is the interesting case
(`JudgesNewRecord`): the record does not say which kind it was. `CompleteInv` adds what holds
without departures: the engine follows the declarations, all records pass, the parsed traces and
the overrides are those of the expected timeline, one for each restricted forward, in order.
`AccountsHold` then needs only that a trace row and a mask are computed from the same view.
The pool's promise not to give a block twice (`Allocated`) is a guard of the model, not proved.

**The segmenter's invariant.** `SegmenterInv` says that finished and unfinished spans together
tile the text (`Tiles`), that a finished span is within the limit or atomic (`Kept`), that the last
cut is at the coarsest boundary, and, once the prompt is rendered, that sink, segments and window
follow one another in it (`Arranged`) and each segment's span is where its text is (`Located`). It rests on facts about the operators. `OverlapIsCovering`:
the count of tokens by two numbers of starts and ends is the number of tokens that share a
character with the span, so a span has at least one; hence *every* match inside a span is a usable cut
(`UsableIs`), also one that a token crosses, and a span without a usable cut has no boundary at all
(`NoCutAtomic`). `LineEnds` is a scan, a recursive function; that it has a value is shown by
least counterexample (`ScanExists`), and so is that it misses no paragraph although its matches do not
overlap (`ScanSound`, `ScanFinds`). `BestCutIs` shows that the order among the cuts has a first
one, which the minimum over the levels makes the coarsest (`BestCutFacts`). For the prompt, tokens are
counted by `Rank`: a segment's token range runs from the token over its first character to the
one over its last (`TokenRangeIs`, `SpanIs`), and between two segments lie characters of the
template that are tokens of their own (`PromptFacts`), whatever is merged at their ends. Within the
range every character but the first begins a token, so counting on gives the token of each
(`Over`, `SpanOver`), which `TokensOverAre` compares with the property's own count.

**Only model-checked**: the liveness properties (`GoneIsReleased`, `AbortTakesEffect`,
`RunEnds` of two modules, `UnfinishedIsClosed`; fairness is beyond the prover). They are checked on
bounded instances. Every invariant and every action property that a passing run checks is proved, those
of the engine that need it under `~TokenizerMayFail`.

## 5. Where code and documentation disagree

The first two are runs; `PROJECT.json` quotes both sides. The others have a
configuration of their own, in which the property named has a counterexample.

1. `engine_refusal`: when the worker refuses a batch (two rows, one with a plan),
   nothing aborts the payload request; the design document promises an abort before
   the exception.
2. `deploy_torn`: restoration copies onto the target in place. Interrupted, the target
   is neither old nor new; the next `revert` takes it for a foreign edit, leaves it,
   succeeds and removes the backups. The tool's header excludes half-written targets
   (`tools/p2-apply-patch.py:17-18`).
3. `MCAttnEngineTrace.cfg`, `ReleaseIsTraced`: a request aborted *between* two steps is released by
   `drop_finished`, which writes no trace; the module header counts the traces of
   ended and cancelled requests among its duties (`attnview_engine.py:8`).
4. `MCAttnEngineOrdinary.cfg`, `OrdinaryUnaffected`: when the hook raises for a payload request,
   ordinary requests of
   the same batch keep an advanced ledger and never get that forward; they are said
   not to be affected (`attnview_engine.py:382`). (Only where the engine goes on after the exception.)
5. `MCProtocolStateLost.cfg`, `AttemptNotLost`: `_name_of_incomplete` recognises the name in
   `<focus="1"`, so open, it
   is a call of focus; `_LOOSE_TAG_RE` wants a blank after the name, so closed, it is an
   unknown tag and no call, although the comment above (`parser.py:197`) says that a tag with a
   recognisable name is reported as malformed.
6. `MCDeployTxnStuck.cfg`, `DeployedCanBeReverted`: `revert` removes the backups before the journal.
   A crash in between
   leaves a recorded deployment that no later `revert` accepts, though repeating it
   is said to be harmless (`tools/p2-apply-patch.py:561`).
7. `MCDeployTxnRace.cfg`, `ForeignNeverOverwritten`: `revert` decides once which targets to restore;
   one that is edited before its turn is overwritten without `--force`. The header promises
   never to overwrite such a target (line 30).
8. `MCDeployTxnLeft.cfg`, `NothingLeftBehind`: killed between the temporary copy and `os.replace`,
   `apply` leaves the copy beside an unchanged target; recovery skips that record and with
   it the only place that removes the copy.
9. `MCCalibDriverTimeout.cfg`, `EveryTimeoutIsRecorded`: the watchdog of the clean-up check has no
   manifest path (`tools/p2-calib-run.py:1904`) and ends the process with a manifest without end or
   exit code; the test of the watchdog says every timeout completes them
   (`tests/test_p2_calib_hooks.py:1765`).
10. `MCCalibDriverError.cfg`, `EveryErrorLands`: in the fixture arms a failed request is aborted before
    its exception is recorded; if the abort hangs, its watchdog ends the process and neither
    `error.txt` nor the manifest names the error (against `tests/test_p2_calib_hooks.py:1146`).
11. `MCCalibHooksNoTrajectory.cfg`, `StoppedOnlyAtItsEnd`: without `--force-trajectory` the forcing hook
    raises at the first token, step 0 being no longer inside an empty trajectory; the driver
    has checks for such runs (`tools/p2-calib-run.py:2099`, `2676`) that none can reach.
12. `MCSegmenterBlank.cfg`, `EverySegmentIsAddressable`: a cut beside white space may leave a segment
    without a word; the template trims it to nothing and `_char_range_to_token_range` refuses
    the whole prompt. A segment is documented as an addressable fragment (`segmenter.py:44`).

## 6. Not modelled

The scheduler, the model runner and the kernel are vLLM code; they appear as far as
the hooks depend on them. Trace contents, logging, messages, bytecode and directories
are left out, and so are the values of tensors: the dense reference appears as *who computes
which positions*. Not modelled at all:

* numerical acceptance (`numeric_acceptance.py`, `gpucheck.py`, `fixture_rebuild.py`): floating-point
  comparisons and report checks, nothing concurrent or stateful; `gpuoracle.py` repeats the
  position arithmetic of `ReadView`;
* prompt texts and answer extraction (`prompts.py`, `extract.py`): constants and one pure function;
* patch generation (`tools/p2-gen-patch.py`): sequential text substitution;
* evidence tools, and the directories under `evidence/`, which hold the tools again as they
  were on the day of a run, besides results; the models are of the current ones in `tools/`;
* `abort_immediately` of the KV connector (`core.py:508`), data parallelism, utility calls and idle
  callbacks in the engine loop;
* tokenizations with gaps: the model's tokens cover the text. The stand-in tokenizer of the tests leaves
  gaps; what the code does there (the guard `segmenter.py:238`) is not exercised;
* white space other than blank and newline: `\r` has no class, so blank lines that end in CRLF are outside
  `CoarsestBoundary`;
* what the manifest holds when main and a late watchdog both write it: the model has the race, no
  property says how it ends;
* in modelled parts: `verify` of the deployment tool (it only reads), `derive_geometry`,
  `mark_stop_token`, `to_kernel_args`, fixtures and argument parsing of the driver, fingerprints of
  the calibration logs, `fa_bindings` and the coverage of captured tensors in the diagnostic.

## 7. Plan

Written so far: all modules of section 2; proved: the engine (types, safety, plan length,
refinement), the read view arithmetic, the paged read, the protocol state (its own invariant, and
decoder and parser against the whole text), the deployment transaction, the reference run, the
calibration hooks, the calibration driver, the diagnostic from the theorems of
`ReadViewProofs`, and the segmenter.

Next, in this order:

1. `PlanAdmission`: the payload checks of `step_plan.py` (`from_extra_args`, the layout
   gates) against what `ReadView` assumes of a layout.
2. The engine's verdict per token as a refinement: `ProtocolState` for every registered
   request in place of `After`.
3. `build_oracle_view` of `gpuoracle.py` against `ReadView`.
