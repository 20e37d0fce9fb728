-------------------------- MODULE MaskedDiagnostic --------------------------
(***************************************************************************)
(* The masked diagnostic: one request follows a fixed script of            *)
(* declarations, every forward leaves its positions, tables, lengths and   *)
(* write slots layer by layer, and check_capture_structure compares them   *)
(* with expectations derived from the script and the spans alone           *)
(* (smoke_structure.py, reference_dense.py, reference_bridge.py).          *)
(*                                                                         *)
(* What the engine computes is ReadView; the audit computes the same       *)
(* position by position and on a timeline of its own.  To see what the     *)
(* audit is worth, the engine may depart from what it promises.            *)
(*                                                                         *)
(* Forward 1 is the prompt, forward d + 1 consumes token d - 1.            *)
(***************************************************************************)
EXTENDS ReadView

CONSTANTS
    Layouts,        \* layouts of the prompt, all with a local window
    Scripts,        \* generation_script: [tokens, mode, refs] per piece
    BlockSize,
    PhysBlocks,
    Layers,         \* full attention layers
    Junk,           \* a slot nothing was written to
    MaxDepartures   \* forwards in which the engine departs

\* A piece of a script: how many tokens, and what the parser makes of them.
Pieces(layout) ==
    {piece \in [tokens : Nat \ {0}, mode : {"global", "local", "focus"},
                refs : SUBSET (1..Len(layout.segments))] :
        piece.refs # {} <=> piece.mode = "focus"}

ASSUME DiagnosticAssumption ==
    /\ BlockSize \in Nat \ {0} /\ PhysBlocks \subseteq Nat /\ MaxDepartures \in Nat
    /\ \A layout \in Layouts : ValidLayout(layout) /\ layout.window # NoWindow
    /\ \A layout \in Layouts, script \in Scripts : script \in Seq(Pieces(layout)) \ {<<>>}

VARIABLES
    layout, script,
    \* the engine
    view, last,     \* the view to come, the view of the last forward
    table, cache,   \* cache[l]: what position lies in a slot of layer l
    \* what the run leaves
    structure,      \* structure[f][l]: the record of layer l in forward f
    overrides,      \* steps.jsonl
    parsed,         \* traces with a parse_step; the protocol's step records
    verdict,        \* of the audit: "none", "accepted" or "rejected"
    \* what really happened
    declared,       \* the view the tokens so far stand for
    right,          \* every forward read what that view makes visible
    departures

vars == <<layout, script, view, last, table, cache, structure, overrides, parsed, verdict, declared,
          right, departures>>

Global == [mode |-> "global", refs |-> {}]
Slots == {k * BlockSize + o : k \in PhysBlocks, o \in 0..(BlockSize - 1)}
SlotOf(tab, p) == tab[(p \div BlockSize) + 1] * BlockSize + (p % BlockSize)

\* The declarations: each piece takes effect with its last token.
Ends == [i \in DOMAIN script |-> Total([j \in 1..i |-> script[j].tokens]) - 1]

\* One more sample than the script has tokens; its last token is sampled twice.
TotalForwards == Ends[Len(script)] + 2

Init ==
    /\ layout \in Layouts /\ script \in Scripts
    /\ view = Global /\ last = Global /\ declared = Global
    /\ table = <<>> /\ cache = [l \in Layers |-> [s \in Slots |-> Junk]]
    /\ structure = <<>> /\ overrides = <<>> /\ parsed = <<>>
    /\ verdict = "none" /\ right = TRUE /\ departures = 0

-----------------------------------------------------------------------------
(* The expectations.                                                       *)

\* block_expanded_positions: runs of neighbours grow to whole blocks.
Expanded(S, kv) ==
    LET starts == {p \in S : p - 1 \notin S}
        EndOf(p) == CHOOSE q \in S : q >= p /\ p..q \subseteq S /\ q + 1 \notin S
        Grown(p) == ((p \div BlockSize) * BlockSize) ..
                      (Lesser(((EndOf(p) \div BlockSize) + 1) * BlockSize, kv) - 1)
    IN  UNION {Grown(p) : p \in starts}

\* independent_visible_positions
SemanticPositions(v, kv) ==
    LET spans == {layout.sink, layout.window, <<layout.prompt, kv>>}
                   \cup (IF v.mode = "global" THEN {<<0, kv>>} ELSE {})
                   \cup (IF v.mode = "focus" THEN {layout.segments[i] : i \in v.refs} ELSE {})
    IN  UNION {s[1] .. (Lesser(s[2], kv) - 1) : s \in spans}

\* Blocks in order and how much of each is read, as VisibleMask has them.
Mask(v, kv) ==
    LET read   == Expanded(SemanticPositions(v, kv), kv)
        blocks == InOrder({p \div BlockSize : p \in read})
    IN  [blocks |-> blocks, total |-> Cardinality(read)]

ViewOf(piece) == [mode |-> piece.mode, refs |-> piece.refs]

\* Mutant: a decode consumes the token sampled after it.
ConsumedLate(f) == f - 1

Consumed(f) == f - 2

\* expectations_from_config: later declarations override earlier ones.
ExpectedView(f) ==
    LET due == {i \in DOMAIN script : Ends[i] <= Consumed(f)}
    IN  IF f = 1 \/ due = {} THEN Global ELSE ViewOf(script[Max(due)])

ExpectedLen(f) == layout.prompt + f - 1

\* Mutant: a declaration takes effect a step after the token that closed it.
ReachedAfter(end, t) == end < t

Reached(end, t) == end <= t

\* TimelineBridge.mode_at: up to the first declaration that is still to come.
BridgeView(t) ==
    LET passed == {i \in DOMAIN script : \A j \in 1..i : Reached(Ends[j], t)}
    IN  IF passed = {} THEN Global ELSE ViewOf(script[Max(passed)])

BridgeLen(t) == layout.prompt + t + 1

-----------------------------------------------------------------------------
(* The engine.                                                             *)

Forwards == Len(structure)
KvLen == layout.prompt + Forwards

Kinds == {"none", "stale", "layer", "moved", "compressed", "silent", "lost"}

\* As many blocks of the pool as the forward needs, each given once.
Allocated(tab) == tab \in [1..CeilDiv(KvLen, BlockSize) -> PhysBlocks] /\ IsInjective(tab)

\* The table grows by what the next forward writes; "moved": a block that was
\* given before is another one now.
Grows(tab) ==
    /\ Allocated(tab)
    /\ SubSeq(tab, 1, Len(table)) = table

Moves(tab) ==
    /\ table # <<>> /\ Allocated(tab)
    /\ \E i \in DOMAIN table :
          /\ tab[i] # table[i]
          /\ \A j \in DOMAIN table \ {i} : tab[j] = table[j]

BatchPositions == IF Forwards = 0 THEN 0..(layout.prompt - 1) ELSE {KvLen - 1}

\* The block table and length the attention of a layer gets under a plan.
Read(v, plan, tab) ==
    IF v = Global THEN [physical |-> tab, len |-> KvLen]
    ELSE [physical |-> [i \in DOMAIN plan.blocks |-> tab[plan.blocks[i] + 1]], len |-> plan.seqused]

Shown(kind) == IF kind = "stale" THEN last ELSE view

OddLayer == CHOOSE l \in Layers : TRUE

\* snapshot_layer, called inside the forward.
Snapshot(kind, l, plan, tab) ==
    LET read == Read(IF kind = "layer" /\ l = OddLayer THEN Global ELSE Shown(kind), plan, tab)
    IN  [positions |-> BatchPositions, canonical |-> tab, physical |-> read.physical, len |-> read.len,
         slots |-> [p \in BatchPositions |-> IF kind = "compressed" THEN SlotOf(read.physical, read.len - 1)
                                             ELSE SlotOf(tab, p)]]

Written(c, rec) ==
    [s \in Slots |-> IF \E p \in rec.positions : rec.slots[p] = s
                     THEN CHOOSE p \in rec.positions : rec.slots[p] = s
                     ELSE c[s]]

Dereferenced(rec) == {SlotOf(rec.physical, j) : j \in 0..(rec.len - 1)}

\* The view after token t has been parsed.
After(v, t) ==
    IF \E i \in DOMAIN script : Ends[i] = t
    THEN ViewOf(script[CHOOSE i \in DOMAIN script : Ends[i] = t])
    ELSE v

\* One step: the forward, the trace of its override, and the parse of the token
\* it sampled, which is effective in the next one.
Step(kind, tab) ==
    /\ verdict = "none" /\ Forwards < TotalForwards
    /\ IF kind = "moved" THEN Moves(tab) ELSE Grows(tab)
    /\ kind = "none" \/ departures < MaxDepartures
    /\ Forwards = 0 => kind \in {"none", "lost"}
    /\ departures' = IF kind = "none" THEN departures ELSE departures + 1
    /\ \E plan \in {Plan(Shown(kind).mode, Shown(kind).refs, layout, KvLen, BlockSize)} :
         /\ structure' = Append(structure, [l \in Layers |-> Snapshot(kind, l, plan, tab)])
         /\ overrides' = IF Shown(kind) = Global \/ kind = "silent" THEN overrides
                         ELSE Append(overrides, [step |-> Forwards, blocks |-> plan.blocks,
                                                 len |-> plan.seqused])
    /\ cache' = [l \in Layers |-> Written(cache[l], Last(structure')[l])]
    /\ right' = (right /\ \A l \in Layers :
                    {cache'[l][s] : s \in Dereferenced(Last(structure')[l])}
                       = ReferenceVisible(declared.mode, declared.refs, layout, KvLen, BlockSize))
    /\ table' = tab
    /\ last' = view
    /\ view' = IF kind = "lost" THEN view ELSE After(view, Forwards)
    /\ declared' = After(declared, Forwards)
    /\ parsed' = Append(parsed, [parse |-> Forwards, effect |-> Forwards + 1, view |-> view'])
    /\ UNCHANGED <<layout, script, verdict>>

-----------------------------------------------------------------------------
(* The audit: check_capture_structure.                                     *)

\* Mutant: one layer speaks for all.
AuditedLayersOne == {CHOOSE l \in Layers : l # OddLayer}

AuditedLayers == Layers

LayerOK(f, l) ==
    LET rec  == structure[f][l]
        mask == Mask(ExpectedView(f), ExpectedLen(f))
    IN  /\ rec.positions = IF f = 1 THEN 0..(layout.prompt - 1) ELSE {layout.prompt + f - 2}
        /\ Len(rec.canonical) = CeilDiv(ExpectedLen(f), BlockSize)
        /\ f > 1 => LET before == structure[f - 1][l].canonical
                    IN  SubSeq(rec.canonical, 1, Len(before)) = before
        /\ rec.len = mask.total
        /\ rec.physical = [i \in DOMAIN mask.blocks |-> rec.canonical[mask.blocks[i] + 1]]
        /\ \A p \in rec.positions : rec.slots[p] = SlotOf(rec.canonical, p)

Restricted == {f \in DOMAIN structure : ExpectedView(f) # Global}

OverridesOK ==
    /\ [i \in DOMAIN overrides |-> overrides[i].step] = InOrder({f - 1 : f \in Restricted})
    /\ \A i \in DOMAIN overrides :
          LET f == overrides[i].step + 1
              mask == Mask(ExpectedView(f), ExpectedLen(f))
          IN  overrides[i].blocks = mask.blocks /\ overrides[i].len = mask.total

ParsedOK ==
    /\ [i \in DOMAIN parsed |-> parsed[i].parse] = [i \in DOMAIN structure |-> i - 1]
    /\ \A f \in DOMAIN structure \ {1} :
          parsed[f - 1].effect = f - 1 /\ parsed[f - 1].view = ExpectedView(f)

\* A script that says something, and whose last forward is global again.
ScriptOK == Restricted # {} /\ ExpectedView(TotalForwards) = Global

Audit ==
    /\ verdict = "none" /\ Forwards = TotalForwards
    /\ verdict' = IF /\ \A f \in DOMAIN structure : \A l \in AuditedLayers : LayerOK(f, l)
                     /\ OverridesOK /\ ParsedOK /\ ScriptOK
                  THEN "accepted" ELSE "rejected"
    /\ UNCHANGED <<layout, script, view, last, table, cache, structure, overrides, parsed, declared,
                   right, departures>>

Tables ==
    LET n == CeilDiv(KvLen, BlockSize)
        fresh == CHOOSE k \in PhysBlocks : k \notin ToSet(table)
    IN  IF table = <<>> THEN {s \in [1..n -> PhysBlocks] : IsInjective(s)}
        ELSE LET grown == IF Len(table) = n THEN table ELSE Append(table, fresh)
             IN  {grown} \cup {[grown EXCEPT ![i] = k] : i \in DOMAIN table, k \in PhysBlocks \ ToSet(grown)}

Next ==
    \/ \E kind \in Kinds : \E tab \in Tables : Step(kind, tab)
    \/ Audit

Spec == Init /\ [][Next]_vars

-----------------------------------------------------------------------------
(* build_step_trace, the table made of the parser's records.               *)

RowOf(record) == record.parse + 1

\* Row d of the table, for a token that was forwarded.
Row(d) ==
    LET record == CHOOSE r \in ToSet(parsed) : RowOf(r) = d
    IN  [view |-> record.view, kvLen |-> layout.prompt + d, write |-> layout.prompt + d - 1]

-----------------------------------------------------------------------------
\* Type invariant.
TypeOK ==
    /\ layout \in Layouts /\ script \in Scripts
    /\ ToSet(table) \subseteq PhysBlocks /\ IsInjective(table)
    /\ cache \in [Layers -> [Slots -> 0..(layout.prompt + TotalForwards) \cup {Junk}]]
    /\ Forwards <= TotalForwards /\ Len(parsed) = Forwards /\ Len(overrides) <= Forwards
    /\ \A f \in DOMAIN structure : \A l \in Layers :
          LET rec == structure[f][l] IN Len(rec.physical) = CeilDiv(rec.len, BlockSize)
    /\ verdict \in {"none", "accepted", "rejected"} /\ right \in BOOLEAN
    /\ departures \in 0..MaxDepartures

\* An accepted run read in every forward and every layer exactly the positions
\* its declarations make visible, whatever the engine did otherwise.
AuditSound == verdict = "accepted" => right

\* A run without departures is accepted: the spans and blocks of the engine and
\* the positions of the audit, the parser's steps and the audit's timeline come
\* to the same.
AuditComplete == (verdict = "rejected" /\ departures = 0) => ~ScriptOK

\* The two timelines of the tools are one: the reference at step t and the
\* audit at the forward that consumes token t.
TimelinesAgree ==
    \A t \in 0..(TotalForwards - 2) :
        BridgeView(t) = ExpectedView(t + 2) /\ BridgeLen(t) = ExpectedLen(t + 2)

\* The step trace tells in row d what forward d + 1 read and where it wrote
\* (stated of the last forward, in every state).
TraceTellsForwards ==
    (departures = 0 /\ Forwards > 1) =>
        \E row \in {Row(Forwards - 1)} :
        \E plan \in {Plan(row.view.mode, row.view.refs, layout, row.kvLen, BlockSize)} :
            \A l \in Layers :
                LET rec == structure[Forwards][l]
                IN  /\ rec.len = plan.seqused
                    /\ rec.physical = [i \in DOMAIN plan.blocks |-> rec.canonical[plan.blocks[i] + 1]]
                    /\ rec.positions = {row.write}

\* The three accounts of one run name the same thing by the same number: the
\* reference's timeline, the audit's, and the rows of the step trace.
AccountsAgree == TypeOK /\ TimelinesAgree /\ TraceTellsForwards
=============================================================================
