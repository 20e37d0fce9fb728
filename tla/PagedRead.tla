----------------------------- MODULE PagedRead -----------------------------
(***************************************************************************)
(* One request decoding through read views on a paged KV cache: the plan   *)
(* is computed when the step is scheduled, the worker puts it in place     *)
(* through pinned staging buffers and asynchronous copies, and the         *)
(* attention kernel reads the cache through the table it finds then.       *)
(*                                                                         *)
(* The cache holds, for each slot, the position whose key and value lie    *)
(* there, or Junk.  The device executes its operations in order, at its    *)
(* own pace; the KV cache manager and the kernel are external.             *)
(***************************************************************************)
EXTENDS ReadView

CONSTANTS
    Layouts,    \* the token layouts of this instance
    BlockSize,  \* kernel_block_size
    MaxLen,     \* max_model_len
    PhysBlocks, \* physical block ids
    Junk        \* a slot nothing was written to

ASSUME PagedAssumption ==
    /\ BlockSize \in Nat \ {0}
    /\ MaxLen \in Nat \ {0}
    /\ \A layout \in Layouts : ValidLayout(layout) /\ layout.prompt < MaxLen
    /\ PhysBlocks \subseteq Nat
    /\ Cardinality(PhysBlocks) >= CeilDiv(MaxLen, BlockSize)

VARIABLES
    layout,     \* the layout of the request
    mode, refs, \* the view the parsed stream declares
    kvLen,      \* positions written or being written
    table,      \* the request's block table, as the scheduler allocated it
    phase,      \* "new", "idle", "running" or "refused"
    staging,    \* the pinned host buffers: block indices and seqused_k
    stream,     \* operations the device has not executed
    rowTable,   \* the persistent device block table of the row
    rowLen,     \* the persistent device seq_lens of the row
    cache,      \* contents of the KV cache
    step,       \* the step the last executed forward belonged to
    slots       \* the slots that forward read, in order

vars == <<layout, mode, refs, kvLen, table, phase, staging, stream, rowTable,
          rowLen, cache, step, slots>>

Slots == {b * BlockSize + o : b \in PhysBlocks, o \in 0..(BlockSize - 1)}
Width == CeilDiv(MaxLen, BlockSize)

\* canonical_slot
SlotOf(tab, p) == tab[(p \div BlockSize) + 1] * BlockSize + (p % BlockSize)

\* The views a parsed stream can declare.
DeclaredViews ==
    {<<"global", {}>>, <<"local", {}>>}
      \cup {<<"focus", R>> : R \in SUBSET (1..Len(layout.segments)) \ {{}}}

NoStep == [mode |-> "global", refs |-> {}, kvLen |-> 0]

TypeOK ==
    /\ layout \in Layouts
    /\ <<mode, refs>> \in DeclaredViews
    /\ kvLen \in 0..MaxLen
    /\ table \in BoundedSeq(PhysBlocks, Width)
    /\ phase \in {"new", "idle", "running", "refused"}
    /\ staging.index \in BoundedSeq(0..(Width - 1), Width)
    /\ staging.len \in 0..MaxLen
    /\ Len(rowTable) \in {0, Width}
    /\ rowLen \in 0..MaxLen
    /\ cache \in [Slots -> 0..(MaxLen - 1) \cup {Junk}]
    /\ ToSet(slots) \subseteq Slots

Init ==
    /\ layout \in Layouts
    /\ mode = "global"
    /\ refs = {}
    /\ kvLen = 0
    /\ table = <<>>
    /\ phase = "new"
    /\ staging = [index |-> <<>>, len |-> 0]
    /\ stream = <<>>
    /\ rowTable = <<>>
    /\ rowLen = 0
    /\ cache = [s \in Slots |-> Junk]
    /\ step = NoStep
    /\ slots = <<>>

\* The KV cache manager extends the table to hold n positions.
Allocated(tab, n) ==
    /\ Len(tab) = CeilDiv(n, BlockSize)
    /\ SubSeq(tab, 1, Len(table)) = table
    /\ IsInjective(tab)

Tables == {table} \cup {Append(table, b) : b \in PhysBlocks}

\* The whole prompt, through the vanilla metadata.
Prefill(tab) ==
    /\ phase = "new"
    /\ Allocated(tab, layout.prompt)
    /\ table' = tab
    /\ kvLen' = layout.prompt
    /\ cache' = [s \in Slots |->
                   IF \E p \in 0..(layout.prompt - 1) : SlotOf(tab, p) = s
                   THEN CHOOSE p \in 0..(layout.prompt - 1) : SlotOf(tab, p) = s
                   ELSE cache[s]]
    /\ phase' = "idle"
    /\ UNCHANGED <<layout, mode, refs, staging, stream, rowTable, rowLen, step, slots>>

\* The operations of one decode step, in the order the worker issues them.
Operations(override) ==
    LET forward == [op |-> "forward", override |-> override,
                    mode |-> mode, refs |-> refs, kvLen |-> kvLen + 1]
    IN  IF override THEN <<[op |-> "index"], [op |-> "length"], forward>>
        ELSE <<forward>>

\* Schedule one token; a restricted view gets a plan, and the worker stages it.
BeginStep(tab) ==
    /\ phase = "idle"
    /\ kvLen < MaxLen
    /\ Allocated(tab, kvLen + 1)
    /\ table' = tab
    /\ kvLen' = kvLen + 1
    /\ IF mode = "global"
       THEN /\ stream' = stream \o Operations(FALSE)
            /\ phase' = "running"
            /\ UNCHANGED staging
       ELSE IF PlanRefused(mode, refs, layout, kvLen + 1, BlockSize, tab, MaxLen)
       THEN /\ phase' = "refused"
            /\ UNCHANGED <<stream, staging>>
       ELSE LET p == Plan(mode, refs, layout, kvLen + 1, BlockSize)
            IN  /\ staging' = [index |-> p.blocks, len |-> p.seqused]
                /\ stream' = stream \o Operations(TRUE)
                /\ phase' = "running"
    /\ UNCHANGED <<layout, mode, refs, rowTable, rowLen, cache, step, slots>>

\* index_select of the visible blocks, padded with the last one.
Gathered(index) ==
    [c \in 1..Width |->
       table[index[IF c <= Len(index) THEN c ELSE Len(index)] + 1]]

CopyIndex ==
    /\ stream # <<>>
    /\ Head(stream).op = "index"
    /\ rowTable' = Gathered(staging.index)
    /\ stream' = Tail(stream)
    /\ UNCHANGED <<layout, mode, refs, kvLen, table, phase, staging, rowLen, cache,
                   step, slots>>

CopyLength ==
    /\ stream # <<>>
    /\ Head(stream).op = "length"
    /\ rowLen' = staging.len
    /\ stream' = Tail(stream)
    /\ UNCHANGED <<layout, mode, refs, kvLen, table, phase, staging, rowTable, cache,
                   step, slots>>

\* What the kernel dereferences: the first n slots of the table, in its order.
Dereferenced(tab, n) == [j \in 1..n |-> SlotOf(tab, j - 1)]

\* Mutant: the token is written behind the view that was read last.
WriteSlotBehindView(p) == IF rowLen > 0 THEN SlotOf(rowTable, rowLen - 1) ELSE SlotOf(table, p)

\* next_write_slot: the slot of position p in the canonical table.
WriteSlot(p) == SlotOf(table, p)

\* The kernel: the current token is written at its canonical slot, whatever the
\* view; the read follows the metadata.
Forward ==
    /\ stream # <<>>
    /\ Head(stream).op = "forward"
    /\ LET f == Head(stream)
       IN  /\ cache' = [cache EXCEPT ![WriteSlot(f.kvLen - 1)] = f.kvLen - 1]
           /\ step' = [mode |-> f.mode, refs |-> f.refs, kvLen |-> f.kvLen]
           /\ slots' = IF f.override THEN Dereferenced(rowTable, rowLen)
                       ELSE Dereferenced(table, f.kvLen)
    /\ stream' = Tail(stream)
    /\ UNCHANGED <<layout, mode, refs, kvLen, table, phase, staging, rowTable, rowLen>>

\* Mutant: the host goes on while the device still works.
NeverWaits == TRUE

\* step() waits for the sampled token: everything it issued has been executed.
Drained == stream = <<>>

EndStep(view) ==
    /\ phase = "running"
    /\ Drained
    /\ mode' = view[1]
    /\ refs' = view[2]
    /\ phase' = "idle"
    /\ UNCHANGED <<layout, kvLen, table, staging, stream, rowTable, rowLen, cache,
                   step, slots>>

Next ==
    \/ \E tab \in BoundedSeq(PhysBlocks, Width) : Prefill(tab)
    \/ \E tab \in Tables : BeginStep(tab)
    \/ CopyIndex
    \/ CopyLength
    \/ Forward
    \/ \E view \in DeclaredViews : EndStep(view)

Spec == Init /\ [][Next]_vars

-----------------------------------------------------------------------------
\* The forward read, each exactly once, the positions the reference says are
\* visible, and no slot that holds anything else: alignment, merging, the
\* compressed table with its prefix semantics, padding and the staging buffers
\* together.
ReadsExactlyVisible ==
    /\ IsInjective(slots)
    /\ {cache[s] : s \in ToSet(slots)} =
          ReferenceVisible(step.mode, step.refs, layout, step.kvLen, BlockSize)

\* The read view never moves a write: every position is found where the
\* canonical table says, for the views of later steps to read.
WritesAreCanonical ==
    \A p \in 0..(kvLen - 1) :
        p < kvLen - 1 \/ (phase = "idle" /\ stream = <<>>) =>
            cache[SlotOf(table, p)] = p

\* A validated layout always has a plan; the one exception is the local view of
\* a request without a local window.
PlanAlwaysExists ==
    phase = "refused" => mode = "local" /\ layout.window = NoWindow

-----------------------------------------------------------------------------
(* What the steps rest on, as one inductive invariant. *)

\* Behind the prompt the request owns exactly the blocks of its positions, each
\* once; a step in the making has a current token.
TableHolds ==
    /\ phase = "new" => kvLen = 0 /\ table = <<>> /\ step = NoStep /\ slots = <<>>
    /\ phase # "new" =>
          /\ IsInjective(table)
          /\ Len(table) = CeilDiv(kvLen, BlockSize)
          /\ layout.prompt <= kvLen
    /\ phase \in {"running", "refused"} => layout.prompt < kvLen

\* Every position but the current one is written where the table says; the
\* current one too, once the device has caught up.
Written ==
    \A p \in 0..(kvLen - 1) :
        p < kvLen - 1 \/ (phase # "refused" /\ stream = <<>>) =>
            cache[SlotOf(table, p)] = p

\* What the device has left to do, and what it has already put in place: the
\* forward of the current step sees the plan of that step and no other.
Forwarding(override) ==
    [op |-> "forward", override |-> override,
     mode |-> mode, refs |-> refs, kvLen |-> kvLen]

StepPlan == Plan(mode, refs, layout, kvLen, BlockSize)

StepInPlace ==
    /\ phase # "running" => stream = <<>>
    /\ stream # <<>> /\ mode = "global" => stream = <<Forwarding(FALSE)>>
    /\ stream # <<>> /\ mode # "global" =>
          /\ staging = [index |-> StepPlan.blocks, len |-> StepPlan.seqused]
          /\ \/ stream = <<[op |-> "index"], [op |-> "length"], Forwarding(TRUE)>>
             \/ /\ stream = <<[op |-> "length"], Forwarding(TRUE)>>
                /\ rowTable = Gathered(StepPlan.blocks)
             \/ /\ stream = <<Forwarding(TRUE)>>
                /\ rowTable = Gathered(StepPlan.blocks)
                /\ rowLen = StepPlan.seqused

\* Writes where the canonical table says, reads of what the reference shows, no
\* refusal of a view that can be served, and what the steps need for it.
PagedInv ==
    /\ TypeOK
    /\ WritesAreCanonical
    /\ PlanAlwaysExists
    /\ TableHolds
    /\ Written
    /\ StepInPlace
    /\ ReadsExactlyVisible
=============================================================================
