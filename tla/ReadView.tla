------------------------------ MODULE ReadView ------------------------------
(***************************************************************************)
(* The arithmetic of one read view: from a mode with its references and    *)
(* the token layout of a request to the KV blocks a decode step reads, and *)
(* the checks on the way (readview.py, gpukv.py, step_plan.py).  At the    *)
(* end, the independent definition of what should be visible               *)
(* (reference.py).                                                         *)
(*                                                                         *)
(* A span is a pair <<start, end>> of positions, end excluded.  A layout   *)
(* has fields prompt, segments, window and sink.                           *)
(***************************************************************************)
EXTENDS Integers, Sequences, FiniteSets, FiniteSetsExt, SequencesExt

\* The fields of a layout.
LayoutType(layout) ==
    /\ layout.prompt \in Nat
    /\ layout.sink \in Nat \X Nat /\ layout.window \in Nat \X Nat
    /\ layout.segments \in Seq(Nat \X Nat)

\* DaRequestConfig.from_extra_args accepts the layout: every span lies inside
\* the prompt; a missing window is <<0, 0>>.
ValidLayout(layout) ==
    /\ LayoutType(layout)
    /\ layout.prompt > 0
    /\ \A span \in {layout.window, layout.sink} \cup ToSet(layout.segments) :
          span[1] <= span[2] /\ span[2] <= layout.prompt

NoWindow == <<0, 0>>

Lesser(a, b) == IF a <= b THEN a ELSE b
Greater(a, b) == IF a >= b THEN a ELSE b

\* _clip: cut to the written positions, drop what is empty.
Clip(S, kv) ==
    {s \in {<<Lesser(s[1], kv), Lesser(s[2], kv)>> : s \in S} : s[1] < s[2]}

\* _align_outward: to whole blocks.
AlignOutward(S, b) ==
    {<<(s[1] \div b) * b, ((s[2] + b - 1) \div b) * b>> : s \in S}

\* _merge: in ascending order, a span that begins inside or at the end of what
\* is merged so far extends it.  So a span opens a merged one if it begins behind
\* the ends of all that begin before it, and the merged one reaches as far as any
\* span that begins before the next opening.
Opens(S, s) == \A t \in S : t[1] < s[1] => t[2] < s[1]

Reach(S, s) ==
    {t[2] : t \in {t \in S : /\ s[1] <= t[1]
                             /\ \A u \in S : Opens(S, u) => u[1] <= s[1] \/ t[1] < u[1]}}

Merge(S) == {<<s[1], Max(Reach(S, s))>> : s \in {s \in S : Opens(S, s)}}

\* The spans a mode makes visible before alignment.
Semantic(mode, refs, layout, kv) ==
    {layout.sink, layout.window, <<layout.prompt, kv>>}
      \cup (IF mode = "focus" THEN {layout.segments[i] : i \in refs} ELSE {})
      \cup (IF mode = "global" THEN {<<0, kv>>} ELSE {})

VisibleSpans(mode, refs, layout, kv, b) ==
    LET raw == Merge(Clip(Semantic(mode, refs, layout, kv), kv))
    IN  Merge(Clip(AlignOutward(raw, b), kv))

BlocksOf(S, b) == UNION {(s[1] \div b) .. (((s[2] + b - 1) \div b) - 1) : s \in S}

\* The positions of block k that span s covers.
SpanInBlock(s, k, b, kv) == Greater(s[1], k * b) .. (Lesser(s[2], Lesser((k + 1) * b, kv)) - 1)

\* How many positions of block k the spans cover, each span counted for itself:
\* a sum of lengths is a number of pairs.
Covered(S, k, b, kv) == Cardinality(UNION {{s} \X SpanInBlock(s, k, b, kv) : s \in S})

\* sum of a sequence of natural numbers, as a number of pairs
Total(counts) == Cardinality(UNION {{i} \X (1..counts[i]) : i \in DOMAIN counts})

\* sorted of a set of natural numbers
InOrder(S) ==
    [i \in 1..Cardinality(S) |->
        CHOOSE x \in S : Cardinality({y \in S : y < x}) = i - 1]

CeilDiv(n, b) == (n + b - 1) \div b

\* The step plan: visible blocks in order, how much of each is used.
Plan(mode, refs, layout, kv, b) ==
    LET spans  == VisibleSpans(mode, refs, layout, kv, b)
        blocks == InOrder(BlocksOf(spans, b))
        counts == [i \in 1..Len(blocks) |-> Covered(spans, blocks[i], b, kv)]
    IN  [blocks |-> blocks, counts |-> counts,
         seqused |-> Total(counts), kvLen |-> kv]

\* The checks that turn a bad plan into an exception: build_step_plan,
\* build_read_view, read_table_from_read_view, StepPlan.validate.  The table is
\* the allocated prefix of the request's block table.
PlanRefused(mode, refs, layout, kv, b, table, maxLen) ==
    LET p == Plan(mode, refs, layout, kv, b)
        n == Len(p.blocks)
    IN  \/ kv <= 0
        \/ \E i, j \in 1..Len(table) : i # j /\ table[i] = table[j]
        \/ mode = "local" /\ layout.window = NoWindow
        \/ mode = "focus" /\ ~(refs \subseteq 1..Len(layout.segments))
        \/ n = 0
        \/ \E i \in 1..n : p.blocks[i] >= Len(table)
        \/ CeilDiv(maxLen, b) < n
        \/ \E i \in 1..n : p.blocks[i] * b >= kv
        \/ \E i \in 1..(n - 1) : p.counts[i] # b
        \/ p.counts[n] = 0
        \/ (kv - 1) \div b \notin ToSet(p.blocks)
        \/ CeilDiv(p.seqused, b) # n
        \/ p.seqused > kv

-----------------------------------------------------------------------------
(* The reference: position by position, from the words of the protocol. *)

\* The positions the protocol shows in a mode, before alignment.
Selected(mode, refs, layout, kv) ==
    {p \in 0..(kv - 1) :
        \/ layout.sink[1] <= p /\ p < layout.sink[2]
        \/ layout.window[1] <= p /\ p < layout.window[2]
        \/ layout.prompt <= p
        \/ mode = "global"
        \/ /\ mode = "focus"
           /\ \E i \in refs : layout.segments[i][1] <= p /\ p < layout.segments[i][2]}

\* reference_visible_mask: the whole block of every selected position.
ReferenceVisible(mode, refs, layout, kv, b) ==
    {p \in 0..(kv - 1) :
        \E q \in Selected(mode, refs, layout, kv) : q \div b = p \div b}
=============================================================================
