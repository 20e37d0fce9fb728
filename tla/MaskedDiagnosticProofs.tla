------------------------ MODULE MaskedDiagnosticProofs -----------------------
(***************************************************************************)
(* The audit of a masked diagnostic is sound and complete for every        *)
(* layout, script, block size, set of layers and number of departures.     *)
(*                                                                         *)
(* Sound: an engine may read a stale view, serve one layer globally, move  *)
(* a block that holds positions, write to compressed slots, drop a trace   *)
(* or lose a declaration.  A forward the audit approves of read through    *)
(* the recorded table exactly the visible positions, because so far every  *)
(* position lies in the slot that table gives it.  Complete: a run that    *)
(* does none of this is approved of, forward by forward, so that only the  *)
(* script can fail it.                                                     *)
(***************************************************************************)
EXTENDS MaskedDiagnostic, ReadViewProofs

-----------------------------------------------------------------------------
(* When a declaration takes effect.                                        *)

\* What is known of a script.
LEMMA ScriptFacts ==
  ASSUME layout \in Layouts, script \in Scripts
  PROVE  /\ Len(script) \in Nat \ {0} /\ DOMAIN script = 1..Len(script)
         /\ \A i \in 1..Len(script) :
               /\ script[i].tokens \in Nat \ {0}
               /\ script[i].mode \in {"global", "local", "focus"}
               /\ script[i].refs \subseteq 1..Len(layout.segments)
               /\ script[i].refs # {} <=> script[i].mode = "focus"
<1>1. script \in Seq(Pieces(layout)) /\ script # <<>>
  BY DiagnosticAssumption
<1>2. \A i \in 1..Len(script) : script[i] \in Pieces(layout)
  BY <1>1
<1>3. Len(script) \in Nat \ {0} /\ DOMAIN script = 1..Len(script)
  BY <1>1
<1>4. QED
  BY <1>2, <1>3 DEF Pieces

\* The last token of every piece comes later than that of the piece before.
LEMMA EndsGrow ==
  ASSUME layout \in Layouts, script \in Scripts
  PROVE  /\ DOMAIN Ends = 1..Len(script)
         /\ \A i \in 1..Len(script) : Ends[i] \in Nat
         /\ \A i \in 1..(Len(script) - 1) : Ends[i] < Ends[i + 1]
<1> DEFINE m == Len(script)
           c == [j \in 1..m |-> script[j].tokens]
           sum(i) == Cardinality(Pairs(c, i))
<1>1. /\ m \in Nat \ {0} /\ DOMAIN script = 1..m
      /\ \A i \in 1..m : c[i] \in Nat \ {0}
  BY ScriptFacts
<1>2. \A i \in 0..m : IsFiniteSet(Pairs(c, i))
  <2>1. \A i \in 1..m : c[i] \in Nat
    BY <1>1
  <2> HIDE DEF c, m
  <2>2. QED
    BY <1>1, <2>1, PairsFinite
<1>3. \A i \in 0..m : sum(i) \in Nat
  BY <1>2, FS_CardinalityType
<1>4. ASSUME NEW i \in 1..m
      PROVE  Ends[i] = sum(i) - 1
  <2> DEFINE q == [j \in 1..i |-> script[j].tokens]
  <2>1. Ends[i] = Total(q) - 1
    BY <1>1 DEF Ends
  <2>2. \A j \in 1..i : q[j] = c[j]
    BY <1>1
  <2>3. {{j} \X (1..q[j]) : j \in DOMAIN q} = {{j} \X (1..c[j]) : j \in 1..i}
    <3>1. DOMAIN q = 1..i
      OBVIOUS
    <3> HIDE DEF q, c
    <3>2. QED
      BY <2>2, <3>1
  <2>4. Total(q) = sum(i)
    BY <2>3 DEF Total, Pairs
  <2>5. QED
    BY <2>1, <2>4
<1>5. \A i \in 0..(m - 1) : sum(i + 1) = sum(i) + c[i + 1]
  <2>1. ASSUME NEW i \in 0..(m - 1)
        PROVE  sum(i + 1) = sum(i) + c[i + 1]
    <3>1. i \in Nat /\ i + 1 \in 1..m /\ i \in 0..m
      BY <1>1
    <3>2. c[i + 1] \in Nat /\ IsFiniteSet(Pairs(c, i))
      BY <1>1, <1>2, <3>1
    <3> HIDE DEF c, m
    <3>3. QED
      BY <3>1, <3>2, PairsGrow
  <2>2. QED
    BY <2>1
<1> HIDE DEF c, sum
<1>6. ASSUME NEW i \in 1..m
      PROVE  Ends[i] \in Nat
  <2>1. PICK k \in 0..(m - 1) : i = k + 1
    <3>1. i - 1 \in 0..(m - 1) /\ i = (i - 1) + 1
      BY <1>1
    <3>2. QED
      BY <3>1
  <2>2. k + 1 \in 1..m /\ k \in 0..m
    BY <1>1
  <2>3. sum(k + 1) = sum(k) + c[k + 1] /\ sum(k) \in Nat /\ c[k + 1] \in Nat \ {0}
    BY <1>1, <1>3, <1>5, <2>2
  <2>4. sum(k + 1) - 1 \in Nat
    BY <2>3
  <2>5. QED
    BY <1>4, <2>1, <2>4
<1>7. ASSUME NEW i \in 1..(m - 1)
      PROVE  Ends[i] < Ends[i + 1]
  <2>1. i \in 0..(m - 1) /\ i \in 1..m /\ i + 1 \in 1..m /\ i \in 0..m
    BY <1>1
  <2>2. sum(i + 1) = sum(i) + c[i + 1] /\ sum(i) \in Nat /\ c[i + 1] \in Nat \ {0}
    BY <1>1, <1>3, <1>5, <2>1
  <2>3. Ends[i] = sum(i) - 1 /\ Ends[i + 1] = sum(i + 1) - 1
    BY <1>4, <2>1
  <2>4. QED
    BY <2>2, <2>3
<1>8. DOMAIN Ends = 1..m
  BY <1>1 DEF Ends
<1>9. QED
  BY <1>6, <1>7, <1>8

\* So do the last tokens of any two pieces.
LEMMA EndsIncrease ==
  ASSUME layout \in Layouts, script \in Scripts
  PROVE  \A i, j \in 1..Len(script) : i < j => Ends[i] < Ends[j]
<1> DEFINE m == Len(script)
           Bad(i) == {j \in 1..m : i < j /\ ~(Ends[i] < Ends[j])}
<1>1. /\ m \in Nat
      /\ \A i \in 1..m : Ends[i] \in Nat
      /\ \A i \in 1..(m - 1) : Ends[i] < Ends[i + 1]
  BY EndsGrow, ScriptFacts
<1>2. ASSUME NEW i \in 1..m, Bad(i) # {}
      PROVE  FALSE
  <2>1. Bad(i) \subseteq Nat
    BY <1>1
  <2>2. PICK j \in Bad(i) : \A k \in Bad(i) : j <= k
    BY <1>2, <2>1, LeastNumber
  <2>3. PICK k \in 1..(m - 1) : j = k + 1
    <3>1. j - 1 \in 1..(m - 1) /\ j = (j - 1) + 1
      BY <1>1
    <3>2. QED
      BY <3>1
  <2>4. k \in 1..m /\ Ends[k] < Ends[k + 1] /\ k + 1 \in 1..m
    BY <1>1
  <2>5. CASE k = i
    BY <2>2, <2>3, <2>4, <2>5
  <2>6. CASE k # i
    <3>1. i < k /\ k < j
      BY <1>1, <2>2, <2>3, <2>6
    <3>2. Ends[i] < Ends[k]
      <4>1. k \notin Bad(i)
        BY <2>2, <2>4, <3>1
      <4>2. QED
        BY <2>4, <3>1, <4>1
    <3>3. Ends[i] \in Nat /\ Ends[k] \in Nat /\ Ends[j] \in Nat
      BY <1>1, <2>3, <2>4
    <3>4. Ends[i] < Ends[j]
      BY <2>3, <2>4, <3>2, <3>3
    <3>5. QED
      BY <2>2, <3>4
  <2>7. QED
    BY <2>5, <2>6
<1>3. QED
  BY <1>2

-----------------------------------------------------------------------------
(* The audit's positions are those of the reference.                       *)

\* What a view can be in this run.
Views == [mode : {"global", "local", "focus"}, refs : SUBSET (1..Len(layout.segments))]

\* The reference's account of a view, for the layout of the run.
Visible(v, kv) == ReferenceVisible(v.mode, v.refs, layout, kv, BlockSize)

\* The prompt is not empty, and every view is one the layout can show.
LEMMA LayoutFacts ==
  ASSUME layout \in Layouts
  PROVE  /\ LayoutType(layout) /\ layout.prompt \in Nat \ {0}
         /\ BlockSize \in Nat \ {0}
         /\ Global \in Views
         /\ \A v \in Views : DeclaredView(v.mode, v.refs, layout)
<1>1. ValidLayout(layout) /\ BlockSize \in Nat \ {0}
  BY DiagnosticAssumption
<1>2. LayoutType(layout) /\ layout.prompt \in Nat \ {0}
  BY <1>1 DEF ValidLayout, LayoutType
<1>3. Global \in Views
  BY DEF Global, Views
<1>4. \A v \in Views : DeclaredView(v.mode, v.refs, layout)
  BY DEF Views, DeclaredView
<1>5. QED
  BY <1>1, <1>2, <1>3, <1>4

\* The audit cuts spans off at kv, the engine's selection keeps what is below kv.
LEMMA SemanticIsSelected ==
  ASSUME layout \in Layouts, NEW v \in Views, NEW kv \in Nat
  PROVE  SemanticPositions(v, kv) = Selected(v.mode, v.refs, layout, kv)
<1> DEFINE A == Semantic(v.mode, v.refs, layout, kv)
<1>1. A \subseteq Nat \X Nat /\ {p \in Positions(A) : p < kv} = Selected(v.mode, v.refs, layout, kv)
  BY LayoutFacts, SemanticSpans
<1>2. SemanticPositions(v, kv) = UNION {s[1] .. (Lesser(s[2], kv) - 1) : s \in A}
  BY DEF SemanticPositions, Semantic
<1> HIDE DEF A
<1>3. \A s \in A : \A p : p \in s[1] .. (Lesser(s[2], kv) - 1) <=> p \in s[1] .. (s[2] - 1) /\ p < kv
  <2>1. ASSUME NEW s \in A
        PROVE  \A p : p \in s[1] .. (Lesser(s[2], kv) - 1) <=> p \in s[1] .. (s[2] - 1) /\ p < kv
    <3>1. s[1] \in Nat /\ s[2] \in Nat
      BY <1>1
    <3>2. QED
      BY <3>1 DEF Lesser
  <2>2. QED
    BY <2>1
<1>4. UNION {s[1] .. (Lesser(s[2], kv) - 1) : s \in A} = {p \in Positions(A) : p < kv}
  <2>1. ASSUME NEW p
        PROVE  p \in UNION {s[1] .. (Lesser(s[2], kv) - 1) : s \in A}
                  <=> \E s \in A : p \in s[1] .. (Lesser(s[2], kv) - 1)
    OBVIOUS
  <2>2. ASSUME NEW p
        PROVE  p \in {x \in Positions(A) : x < kv} <=> (\E s \in A : p \in s[1] .. (s[2] - 1)) /\ p < kv
    BY DEF Positions
  <2>3. ASSUME NEW p
        PROVE  (\E s \in A : p \in s[1] .. (Lesser(s[2], kv) - 1))
                  <=> (\E s \in A : p \in s[1] .. (s[2] - 1)) /\ p < kv
    BY <1>3
  <2>4. QED
    BY <2>1, <2>2, <2>3
<1>5. QED
  BY <1>1, <1>2, <1>4

\* Neighbours grow to the same blocks whether they grow together or one by one.
LEMMA ExpandedIsBlocks ==
  ASSUME BlockSize \in Nat \ {0}, NEW kv \in Nat, NEW S, S \subseteq 0..(kv - 1)
  PROVE  Expanded(S, kv) = {p \in 0..(kv - 1) : \E q \in S : q \div BlockSize = p \div BlockSize}
<1> DEFINE b == BlockSize
           starts == {p \in S : p - 1 \notin S}
           IsEnd(p, q) == q >= p /\ p..q \subseteq S /\ q + 1 \notin S
           EndOf(p) == CHOOSE q \in S : IsEnd(p, q)
           Grown(p) == ((p \div b) * b) .. (Lesser(((EndOf(p) \div b) + 1) * b, kv) - 1)
<1>1. Expanded(S, kv) = UNION {Grown(p) : p \in starts}
  BY DEF Expanded
<1>2. S \subseteq Nat /\ \A q \in S : q \in Nat /\ q <= kv - 1
  OBVIOUS
<1>3. ASSUME NEW p \in S
      PROVE  \E q \in S : IsEnd(p, q)
  <2> DEFINE Runs == {q \in S : q >= p /\ p..q \subseteq S}
  <2>1. p \in Runs
    <3>1. p..p = {p} /\ p >= p
      BY <1>2
    <3>2. QED
      BY <3>1
  <2>2. Runs \subseteq Nat /\ Runs # {} /\ \A q \in Runs : q <= kv
    <3>1. \A q \in Runs : q \in S
      OBVIOUS
    <3>2. \A q \in S : q <= kv
      BY <1>2
    <3>3. Runs # {}
      BY <2>1
    <3> HIDE DEF Runs
    <3>4. QED
      BY <1>2, <3>1, <3>2, <3>3
  <2> DEFINE m == Max(Runs)
  <2>3. m \in Runs /\ \A q \in Runs : q <= m
    <3> HIDE DEF Runs
    <3>1. QED
      BY <2>2, GreatestNumber
  <2>4. m \in S /\ m >= p /\ p..m \subseteq S /\ m \in Nat
    BY <1>2, <2>3
  <2> HIDE DEF m
  <2>5. ASSUME m + 1 \in S
        PROVE  FALSE
    <3>1. p..(m + 1) \subseteq S
      <4>1. \A x \in p..(m + 1) : x \in p..m \/ x = m + 1
        BY <1>2, <2>4
      <4>2. QED
        BY <2>4, <2>5, <4>1
    <3>2. m + 1 >= p
      BY <1>2, <2>4
    <3>3. m + 1 <= m
      BY <2>3, <2>5, <3>1, <3>2
    <3>4. QED
      BY <2>4, <3>3
  <2>6. QED
    BY <2>4, <2>5
<1>4. ASSUME NEW p \in S
      PROVE  EndOf(p) \in S /\ IsEnd(p, EndOf(p))
  BY <1>3
<1> HIDE DEF EndOf
<1>5. ASSUME NEW p \in S, NEW x \in Nat
      PROVE  x \in Grown(p) <=> p \div b <= x \div b /\ x \div b <= EndOf(p) \div b /\ x < kv
  <2> DEFINE k == p \div b
             e == EndOf(p) \div b
             y == x \div b
  <2>1. EndOf(p) \in Nat /\ p \in Nat
    BY <1>2, <1>4
  <2>2. /\ k \in Nat /\ e \in Nat /\ y \in Nat
        /\ k * b \in Nat /\ e * b \in Nat /\ y * b \in Nat /\ (e + 1) * b = e * b + b
        /\ y * b <= x /\ x < y * b + b
    <3>1. k \in Nat /\ e \in Nat /\ y \in Nat /\ y * b <= x /\ x < y * b + b
          /\ k * b \in Nat /\ e * b \in Nat /\ y * b \in Nat
      BY <2>1, BlockEnds
    <3> HIDE DEF k, e, y
    <3>2. (e + 1) * b = e * b + b
      BY <3>1
    <3>3. QED
      BY <3>1, <3>2
  <2> HIDE DEF k, e, y
  <2>3. k * b <= x <=> k <= y
    <3>1. y < k => y * b + b <= k * b
      BY <2>2, ProductOrder
    <3>2. k < y => k * b + b <= y * b
      BY <2>2, ProductOrder
    <3>3. QED
      BY <2>2, <3>1, <3>2
  <2>4. x < e * b + b <=> y <= e
    <3>1. e < y => e * b + b <= y * b
      BY <2>2, ProductOrder
    <3>2. y < e => y * b + b <= e * b
      BY <2>2, ProductOrder
    <3>3. QED
      BY <2>2, <3>1, <3>2
  <2>5. x \in (k * b) .. (Lesser(e * b + b, kv) - 1) <=> k * b <= x /\ x < e * b + b /\ x < kv
    BY <2>2 DEF Lesser
  <2>6. Grown(p) = (k * b) .. (Lesser(e * b + b, kv) - 1)
    BY <2>2 DEF k, e
  <2>7. QED
    BY <2>3, <2>4, <2>5, <2>6 DEF k, e, y
<1>6. ASSUME NEW p \in S
      PROVE  Grown(p) \subseteq Nat
  <2>1. (p \div b) * b \in Nat /\ EndOf(p) \in Nat
    BY <1>2, <1>4, BlockEnds
  <2>2. ((EndOf(p) \div b) + 1) * b \in Nat
    <3>1. EndOf(p) \div b \in Nat
      BY <2>1, BlockEnds
    <3>2. QED
      BY <3>1
  <2> HIDE DEF b
  <2>3. Lesser(((EndOf(p) \div b) + 1) * b, kv) \in Nat
    BY <2>2 DEF Lesser
  <2>4. QED
    BY <2>1, <2>3
<1> HIDE DEF Grown
<1>7. ASSUME NEW x \in Nat, NEW q \in S, q \div b = x \div b, x < kv
      PROVE  \E p \in starts : x \in Grown(p)
  <2> DEFINE Firsts == {p \in S : p <= q /\ p..q \subseteq S}
  <2>1. q \in Firsts
    <3>1. q..q = {q} /\ q <= q
      BY <1>2
    <3>2. QED
      BY <3>1
  <2>2. Firsts \subseteq Nat
    BY <1>2
  <2>3. PICK p \in Firsts : \A y \in Firsts : p <= y
    <3> HIDE DEF Firsts
    <3>1. QED
      BY <2>1, <2>2, LeastNumber
  <2>4. p \in S /\ p <= q /\ p..q \subseteq S /\ p \in Nat /\ q \in Nat
    BY <1>2, <2>3
  <2>5. p \in starts
    <3>1. ASSUME p - 1 \in S
          PROVE  FALSE
      <4>1. p - 1 <= q /\ \A y \in (p - 1)..q : y = p - 1 \/ y \in p..q
        BY <2>4
      <4>2. (p - 1)..q \subseteq S
        BY <2>4, <3>1, <4>1
      <4>3. p <= p - 1
        BY <2>3, <3>1, <4>1, <4>2
      <4>4. QED
        BY <2>4, <4>3
    <3>2. QED
      BY <2>4, <3>1
  <2>6. EndOf(p) \in Nat /\ q <= EndOf(p)
    <3>1. EndOf(p) \in S /\ IsEnd(p, EndOf(p))
      BY <1>4, <2>4
    <3>2. EndOf(p) \in Nat
      BY <1>2, <3>1
    <3>3. EndOf(p) < q => EndOf(p) + 1 \in p..q
      BY <2>4, <3>1, <3>2
    <3>4. ~(EndOf(p) < q)
      BY <2>4, <3>1, <3>3
    <3>5. QED
      BY <2>4, <3>2, <3>4
  <2>7. p \div b <= q \div b /\ q \div b <= EndOf(p) \div b
    BY <2>4, <2>6, BlockOrder
  <2>8. x \in Grown(p)
    BY <1>5, <1>7, <2>4, <2>7
  <2>9. QED
    BY <2>5, <2>8
<1>8. ASSUME NEW p \in S, NEW x \in Grown(p)
      PROVE  /\ x \in 0..(kv - 1)
             /\ \E q \in S : q \div b = x \div b
  <2> DEFINE k == x \div b
  <2>1. /\ x \in Nat /\ x < kv /\ p \in Nat /\ EndOf(p) \in Nat
        /\ p \div b <= k /\ k <= EndOf(p) \div b
    BY <1>2, <1>4, <1>5, <1>6
  <2>2. x \in 0..(kv - 1)
    BY <2>1
  <2>3. /\ k \in Nat /\ k * b \in Nat /\ k * b <= x /\ x < k * b + b
        /\ p < (p \div b) * b + b /\ (p \div b) * b \in Nat /\ p \div b \in Nat
        /\ (p \div b) * b <= p
        /\ (EndOf(p) \div b) * b <= EndOf(p) /\ (EndOf(p) \div b) * b \in Nat /\ EndOf(p) \div b \in Nat
    BY <2>1, BlockEnds
  <2>4. IsEnd(p, EndOf(p))
    BY <1>4
  <2> HIDE DEF k
  <2>5. CASE k = p \div b
    BY <2>2, <2>5 DEF k
  <2>6. CASE p \div b < k
    <3>1. (p \div b) * b + b <= k * b
      BY <2>3, <2>6, ProductOrder
    <3>2. k < EndOf(p) \div b => k * b + b <= (EndOf(p) \div b) * b
      BY <2>3, ProductOrder
    <3>3. k * b <= EndOf(p)
      <4>1. CASE k = EndOf(p) \div b
        BY <2>3, <4>1
      <4>2. CASE k < EndOf(p) \div b
        <5> DEFINE z == (EndOf(p) \div b) * b
        <5>1. z \in Nat /\ z <= EndOf(p) /\ k * b + b <= z
          BY <2>3, <3>2, <4>2
        <5> HIDE DEF z
        <5>2. QED
          BY <2>1, <2>3, <5>1
      <4>3. QED
        BY <2>1, <2>3, <4>1, <4>2
    <3> DEFINE z == (p \div b) * b
    <3>4. z \in Nat /\ z + b <= k * b /\ p < z + b
      BY <2>3, <3>1
    <3> HIDE DEF z
    <3>5. p <= k * b
      BY <2>1, <2>3, <3>4
    <3>6. k * b \in p .. EndOf(p)
      BY <2>1, <2>3, <3>3, <3>5
    <3>7. k * b \in S
      BY <2>4, <3>6
    <3>8. (k * b) \div b = k
      <4>1. k * b + 0 = k * b /\ 0 < b /\ 0 \in Nat
        BY <2>3
      <4>2. (k * b + 0) \div b = k
        BY <2>3, <4>1, AtBlock
      <4>3. QED
        BY <4>1, <4>2
    <3>9. QED
      BY <2>2, <3>7, <3>8 DEF k
  <2>7. QED
    BY <2>1, <2>3, <2>5, <2>6
<1>9. ASSUME NEW x
      PROVE  x \in UNION {Grown(p) : p \in starts} <=> \E p \in starts : x \in Grown(p)
  OBVIOUS
<1>10. ASSUME NEW x
       PROVE  (\E p \in starts : x \in Grown(p))
                 <=> x \in {y \in 0..(kv - 1) : \E q \in S : q \div b = y \div b}
  <2>1. ASSUME NEW p \in starts, x \in Grown(p)
        PROVE  x \in {y \in 0..(kv - 1) : \E q \in S : q \div b = y \div b}
    BY <1>8, <2>1
  <2>2. ASSUME x \in 0..(kv - 1), NEW q \in S, q \div b = x \div b
        PROVE  \E p \in starts : x \in Grown(p)
    <3>1. x \in Nat /\ x < kv
      BY <2>2
    <3>2. QED
      BY <1>7, <2>2, <3>1
  <2>3. QED
    BY <2>1, <2>2
<1>11. QED
  BY <1>1, <1>9, <1>10

\* The audit's positions are those of the reference.
LEMMA MaskIsReference ==
  ASSUME layout \in Layouts, NEW v \in Views, NEW kv \in Nat
  PROVE  Expanded(SemanticPositions(v, kv), kv) = Visible(v, kv)
<1> DEFINE S == Selected(v.mode, v.refs, layout, kv)
<1>1. S \subseteq 0..(kv - 1)
  BY DEF Selected
<1>2. SemanticPositions(v, kv) = S
  BY SemanticIsSelected
<1>3. BlockSize \in Nat \ {0}
  BY LayoutFacts
<1>4. Visible(v, kv) = {p \in 0..(kv - 1) : \E q \in S : q \div BlockSize = p \div BlockSize}
  BY DEF Visible, ReferenceVisible
<1> HIDE DEF S
<1>5. Expanded(S, kv) = {p \in 0..(kv - 1) : \E q \in S : q \div BlockSize = p \div BlockSize}
  BY <1>1, <1>3, ExpandedIsBlocks
<1>6. QED
  BY <1>2, <1>4, <1>5

-----------------------------------------------------------------------------
(* The engine's plan is the audit's mask.                                  *)

\* s lists S in ascending order.
Lists(s, n, S) ==
    /\ s \in [1..n -> S]
    /\ \A i, j \in 1..n : i < j => s[i] < s[j]
    /\ \A x \in S : \E i \in 1..n : s[i] = x

\* There is one way to list a set in ascending order.
LEMMA InOrderIs ==
  ASSUME NEW n \in Nat, NEW S, S \subseteq Nat, NEW s, Lists(s, n, S)
  PROVE  IsFiniteSet(S) /\ Cardinality(S) = n /\ InOrder(S) = s
<1> DEFINE Below(x) == {y \in S : y < x}
<1>1. /\ s \in [1..n -> S]
      /\ \A i, j \in 1..n : i < j => s[i] < s[j]
      /\ \A x \in S : \E i \in 1..n : s[i] = x
      /\ \A i \in 1..n : s[i] \in Nat
  BY DEF Lists
<1>2. ASSUME NEW i \in 1..n, NEW j \in 1..n
      PROVE  /\ s[i] = s[j] => i = j
             /\ s[i] < s[j] <=> i < j
  <2>1. i < j \/ i = j \/ j < i
    OBVIOUS
  <2>2. s[i] \in Nat /\ s[j] \in Nat
    BY <1>1
  <2>3. CASE i < j
    BY <1>1, <2>2, <2>3
  <2>4. CASE i = j
    BY <2>2, <2>4
  <2>5. CASE j < i
    BY <1>1, <2>2, <2>5
  <2>6. QED
    BY <2>1, <2>3, <2>4, <2>5
<1>3. IsFiniteSet(S) /\ Cardinality(S) = n
  <2>1. s \in Injection(1..n, S)
    BY <1>1, <1>2 DEF Injection, IsInjective
  <2>2. s \in Surjection(1..n, S)
    BY <1>1 DEF Surjection
  <2>3. s \in Bijection(1..n, S)
    BY <2>1, <2>2 DEF Bijection
  <2>4. ExistsBijection(1..n, S)
    BY <2>3 DEF ExistsBijection
  <2>5. QED
    BY <2>4, UpTo, FS_Bijection
<1>4. ASSUME NEW i \in 1..n
      PROVE  Cardinality(Below(s[i])) = i - 1
  <2> DEFINE k == i - 1
             t == [j \in 1..k |-> s[j]]
  <2>1. k \in Nat /\ \A j \in 1..k : j \in 1..n /\ j < i
    OBVIOUS
  <2>2. t \in [1..k -> Below(s[i])]
    BY <1>1, <2>1
  <2>3. t \in Injection(1..k, Below(s[i]))
    BY <1>2, <2>1, <2>2 DEF Injection, IsInjective
  <2>4. ASSUME NEW y \in Below(s[i])
        PROVE  \E j \in 1..k : t[j] = y
    <3>1. PICK j \in 1..n : s[j] = y
      BY <1>1
    <3>2. j < i
      BY <1>2, <3>1
    <3>3. j \in 1..k
      BY <3>2
    <3>4. QED
      BY <3>1, <3>3
  <2>5. t \in Surjection(1..k, Below(s[i]))
    BY <2>2, <2>4 DEF Surjection
  <2>6. ExistsBijection(1..k, Below(s[i]))
    BY <2>3, <2>5 DEF Bijection, ExistsBijection
  <2> HIDE DEF k, t, Below
  <2>7. Cardinality(Below(s[i])) = k
    BY <2>1, <2>6, UpTo, FS_Bijection
  <2>8. QED
    BY <2>7 DEF k
<1>5. ASSUME NEW i \in 1..n
      PROVE  (CHOOSE x \in S : Cardinality(Below(x)) = i - 1) = s[i]
  <2>1. s[i] \in S /\ Cardinality(Below(s[i])) = i - 1
    BY <1>1, <1>4
  <2>2. ASSUME NEW x \in S, Cardinality(Below(x)) = i - 1
        PROVE  x = s[i]
    <3>1. PICK j \in 1..n : s[j] = x
      BY <1>1
    <3>2. j - 1 = i - 1
      BY <1>4, <2>2, <3>1
    <3>3. j = i
      BY <3>2
    <3>4. QED
      BY <3>1, <3>3
  <2> HIDE DEF Below
  <2>3. QED
    BY <2>1, <2>2
<1>6. InOrder(S) = [i \in 1..n |-> s[i]]
  BY <1>3, <1>5 DEF InOrder
<1>7. QED
  BY <1>1, <1>3, <1>6

\* What a table of blocks and a length, made for kv positions, lets a reader
\* see: exactly the positions of V.
Sees(blocks, total, V, kv) ==
    /\ total \in Nat \ {0} /\ Len(blocks) = CeilDiv(total, BlockSize)
    /\ blocks \in [1..Len(blocks) -> 0..((kv - 1) \div BlockSize)]
    /\ \A q \in 0..(total - 1) :
          (q \div BlockSize) + 1 \in 1..Len(blocks) /\ PositionAt(blocks, q, BlockSize) \in V
    /\ \A x \in V : \E q \in 0..(total - 1) : PositionAt(blocks, q, BlockSize) = x

\* The engine's plan of a decode is the audit's mask.
LEMMA PlanIsMask ==
  ASSUME layout \in Layouts, NEW v \in Views, NEW kv \in Nat, layout.prompt < kv
  PROVE  LET p == Plan(v.mode, v.refs, layout, kv, BlockSize)
         IN  p.blocks = Mask(v, kv).blocks /\ p.seqused = Mask(v, kv).total
<1> DEFINE b == BlockSize
           S == VisibleSpans(v.mode, v.refs, layout, kv, b)
           V == Visible(v, kv)
           p == Plan(v.mode, v.refs, layout, kv, b)
<1>1. LayoutType(layout) /\ DeclaredView(v.mode, v.refs, layout) /\ b \in Nat \ {0}
  BY LayoutFacts
<1>2. S \subseteq Spans(kv) /\ Positions(S) = V
  BY <1>1, SpansAreReference DEF Visible
<1>3. ReadsOnce(p, V, b)
  BY <1>1, TableIsReference DEF Visible
<1>4. p.blocks = InOrder(BlocksOf(S, b))
  BY DEF Plan
<1>5. Expanded(SemanticPositions(v, kv), kv) = V
  BY MaskIsReference
<1>6. Mask(v, kv) = [blocks |-> InOrder({x \div b : x \in V}), total |-> Cardinality(V)]
  BY <1>5 DEF Mask
<1> HIDE DEF S, V, p
<1>7. BlocksOf(S, b) = {x \div b : x \in V}
  BY <1>1, <1>2, BlocksOfPositions
<1>8. p.seqused = Cardinality(V)
  <2> DEFINE n == p.seqused
             f == [q \in 0..(n - 1) |-> PositionAt(p.blocks, q, b)]
  <2>1. /\ n \in Nat \ {0}
        /\ \A q \in 0..(n - 1) : PositionAt(p.blocks, q, b) \in V
        /\ \A q, r \in 0..(n - 1) : PositionAt(p.blocks, q, b) = PositionAt(p.blocks, r, b) => q = r
        /\ \A x \in V : \E q \in 0..(n - 1) : PositionAt(p.blocks, q, b) = x
    BY <1>3 DEF ReadsOnce
  <2> HIDE DEF n, b
  <2>2. f \in Injection(0..(n - 1), V)
    BY <2>1 DEF Injection, IsInjective
  <2>3. f \in Surjection(0..(n - 1), V)
    BY <2>1 DEF Surjection
  <2>4. ExistsBijection(0..(n - 1), V)
    BY <2>2, <2>3 DEF Bijection, ExistsBijection
  <2>5. IsFiniteSet(0..(n - 1)) /\ Cardinality(0..(n - 1)) = n
    <3>1. 0 \in Int /\ n - 1 \in Int /\ ~(0 > n - 1) /\ n - 1 - 0 + 1 = n
      BY <2>1
    <3>2. /\ IsFiniteSet(0..(n - 1))
          /\ Cardinality(0..(n - 1)) = IF 0 > n - 1 THEN 0 ELSE n - 1 - 0 + 1
      BY <3>1, FS_Interval
    <3>3. QED
      BY <3>1, <3>2
  <2>6. Cardinality(V) = n
    BY <2>4, <2>5, FS_Bijection
  <2>7. QED
    BY <2>6 DEF n
<1>9. QED
  BY <1>4, <1>6, <1>7, <1>8 DEF p

\* The reader of a mask sees what the reference shows.
LEMMA MaskSees ==
  ASSUME layout \in Layouts, NEW v \in Views, NEW kv \in Nat, layout.prompt < kv
  PROVE  Sees(Mask(v, kv).blocks, Mask(v, kv).total, Visible(v, kv), kv)
<1> DEFINE b == BlockSize
           V == Visible(v, kv)
           p == Plan(v.mode, v.refs, layout, kv, b)
           top == (kv - 1) \div b
           n == Len(p.blocks)
           rest == kv - top * b
<1>1. /\ LayoutType(layout) /\ DeclaredView(v.mode, v.refs, layout) /\ b \in Nat \ {0}
      /\ layout.prompt \in Nat \ {0}
  BY LayoutFacts
<1>2. ReadsOnce(p, V, b)
  BY <1>1, TableIsReference DEF Visible
<1>3. ShowsBlocks(p, V, kv, b)
  BY <1>1, PlanIsReference DEF Visible
<1>4. p.blocks = Mask(v, kv).blocks /\ p.seqused = Mask(v, kv).total
  BY PlanIsMask
<1>5. kv - 1 \in Nat /\ top \in Nat /\ top * b \in Nat /\ top * b <= kv - 1 /\ kv - 1 < top * b + b
  <2>1. kv - 1 \in Nat
    BY <1>1
  <2>2. QED
    BY <1>1, <2>1, BlockEnds
<1> HIDE DEF p, V, top
<1>6. n \in Nat \ {0} /\ p.blocks \in [1..n -> 0..top] /\ p.seqused = (n - 1) * b + rest
  BY <1>3 DEF ShowsBlocks, top
<1> HIDE DEF n
<1>7. rest \in 1..b
  BY <1>1, <1>5
<1> HIDE DEF rest, b
<1>8. CeilDiv(p.seqused, b) = n
  <2> DEFINE k == n - 1
             x == k * b + (rest - 1)
  <2>1. k \in Nat /\ rest - 1 \in Nat /\ rest - 1 < b /\ k * b \in Nat
    BY <1>1, <1>6, <1>7
  <2>2. x \in Nat /\ x \div b = k
    <3> HIDE DEF k
    <3>1. QED
      BY <1>1, <2>1, AtBlock
  <2>3. p.seqused \in Nat \ {0} /\ p.seqused - 1 = x
    <3> HIDE DEF k
    <3>1. p.seqused = k * b + rest
      BY <1>6 DEF k
    <3>2. QED
      BY <1>7, <2>1, <3>1
  <2> HIDE DEF x, k
  <2>4. CeilDiv(p.seqused, b) = k + 1
    BY <1>1, <2>2, <2>3, RoundUp DEF CeilDiv
  <2>5. k + 1 = n
    BY <1>6 DEF k
  <2>6. QED
    BY <2>4, <2>5
<1>9. Sees(p.blocks, p.seqused, V, kv)
  BY <1>2, <1>6, <1>8 DEF ReadsOnce, Sees, n, top, b
<1>10. QED
  BY <1>4, <1>9 DEF V

\* The global mask: every block, every position.
LEMMA GlobalMask ==
  ASSUME layout \in Layouts, NEW kv \in Nat \ {0}
  PROVE  /\ Visible(Global, kv) = 0..(kv - 1)
         /\ Mask(Global, kv).total = kv
         /\ CeilDiv(kv, BlockSize) = ((kv - 1) \div BlockSize) + 1
         /\ Mask(Global, kv).blocks = [i \in 1..CeilDiv(kv, BlockSize) |-> i - 1]
<1> DEFINE b == BlockSize
           V == 0..(kv - 1)
           top == (kv - 1) \div b
           n == CeilDiv(kv, b)
           s == [i \in 1..n |-> i - 1]
<1>1. b \in Nat \ {0} /\ Global \in Views /\ kv - 1 \in Nat
  BY LayoutFacts
<1>2. Visible(Global, kv) = V
  BY DEF Visible, ReferenceVisible, Selected, Global
<1>3. Mask(Global, kv) = [blocks |-> InOrder({x \div b : x \in V}), total |-> Cardinality(V)]
  BY <1>1, <1>2, MaskIsReference DEF Mask
<1>4. top \in Nat /\ n = top + 1
  BY <1>1, RoundUp, BlockEnds DEF CeilDiv
<1>5. {x \div b : x \in V} = 0..top
  <2>1. ASSUME NEW x \in V
        PROVE  x \div b \in 0..top
    <3>1. x \in Nat /\ x <= kv - 1
      BY <1>1
    <3>2. x \div b \in Nat /\ x \div b <= top
      BY <1>1, <3>1, BlockEnds, BlockOrder
    <3>3. QED
      BY <1>4, <3>2
  <2>2. ASSUME NEW k \in 0..top
        PROVE  \E x \in V : x \div b = k
    <3>1. /\ k \in Nat /\ k * b \in Nat /\ top * b \in Nat /\ top * b <= kv - 1
      BY <1>1, <1>4, BlockEnds
    <3> HIDE DEF top, b
    <3>2. k < top => k * b + b <= top * b
      BY <1>1, <1>4, <3>1, ProductOrder
    <3>3. k * b <= kv - 1
      <4>1. CASE k = top
        BY <3>1, <4>1
      <4>2. CASE k < top
        BY <1>1, <3>1, <3>2, <4>2
      <4>3. QED
        BY <1>4, <4>1, <4>2
    <3>4. k * b + 0 = k * b /\ 0 < b /\ 0 \in Nat
      BY <1>1, <3>1
    <3>5. (k * b + 0) \div b = k
      BY <1>1, <3>1, <3>4, AtBlock
    <3>6. k * b \in V
      BY <1>1, <3>1, <3>3
    <3>7. QED
      BY <3>4, <3>5, <3>6
  <2> HIDE DEF top, V
  <2>3. QED
    BY <2>1, <2>2
<1>6. Cardinality(V) = kv
  <2>1. 0 \in Int /\ kv - 1 \in Int /\ ~(0 > kv - 1) /\ kv - 1 - 0 + 1 = kv
    BY <1>1
  <2>2. Cardinality(0..(kv - 1)) = IF 0 > kv - 1 THEN 0 ELSE kv - 1 - 0 + 1
    BY <2>1, FS_Interval
  <2>3. QED
    BY <2>1, <2>2
<1> HIDE DEF top, n
<1>7. Lists(s, n, 0..top)
  <2>1. s \in [1..n -> 0..top]
    BY <1>4
  <2>2. \A i, j \in 1..n : i < j => s[i] < s[j]
    BY <1>4
  <2>3. ASSUME NEW x \in 0..top
        PROVE  \E i \in 1..n : s[i] = x
    <3>1. x + 1 \in 1..n /\ (x + 1) - 1 = x
      BY <1>4
    <3>2. QED
      BY <3>1
  <2>4. QED
    BY <2>1, <2>2, <2>3 DEF Lists
<1>8. InOrder(0..top) = s
  <2>1. n \in Nat /\ 0..top \subseteq Nat
    BY <1>4
  <2> HIDE DEF s
  <2>2. QED
    BY <1>7, <2>1, InOrderIs
<1>9. Mask(Global, kv).blocks = InOrder(0..top) /\ Mask(Global, kv).total = kv
  <2> DEFINE B == {x \div b : x \in V}
  <2>1. Mask(Global, kv).blocks = InOrder(B) /\ Mask(Global, kv).total = Cardinality(V)
    <3> HIDE DEF V
    <3>1. QED
      BY <1>3
  <2>2. B = 0..top
    BY <1>5
  <2> HIDE DEF B, V
  <2>3. QED
    BY <1>6, <2>1, <2>2
<1>10. n = ((kv - 1) \div b) + 1
  BY <1>4 DEF top
<1>11. Mask(Global, kv).blocks = [i \in 1..CeilDiv(kv, b) |-> i - 1]
  BY <1>8, <1>9 DEF n
<1>12. QED
  BY <1>2, <1>9, <1>10, <1>11 DEF n

\* Its reader sees every position.
LEMMA GlobalSees ==
  ASSUME layout \in Layouts, NEW kv \in Nat \ {0}
  PROVE  Sees(Mask(Global, kv).blocks, Mask(Global, kv).total, Visible(Global, kv), kv)
<1> DEFINE b == BlockSize
           top == (kv - 1) \div b
           n == CeilDiv(kv, b)
           s == [i \in 1..n |-> i - 1]
<1>1. b \in Nat \ {0} /\ kv - 1 \in Nat
  BY LayoutFacts
<1>2. /\ Visible(Global, kv) = 0..(kv - 1)
      /\ Mask(Global, kv).total = kv
      /\ n = top + 1
      /\ Mask(Global, kv).blocks = s
  BY GlobalMask
<1>3. top \in Nat
  BY <1>1, BlockEnds
<1>4. Len(s) = n /\ s \in [1..n -> 0..top]
  BY <1>2, <1>3
<1>5. ASSUME NEW q \in 0..(kv - 1)
      PROVE  (q \div b) + 1 \in 1..n /\ PositionAt(s, q, b) = q
  <2>1. q \in Nat /\ q <= kv - 1
    BY <1>1
  <2>2. q \div b \in Nat /\ q \div b <= top /\ q = (q \div b) * b + (q % b)
    BY <1>1, <2>1, DivMod, BlockOrder
  <2>3. (q \div b) + 1 \in 1..n /\ ((q \div b) + 1) - 1 = q \div b
    BY <1>2, <1>3, <2>2
  <2>4. s[(q \div b) + 1] = q \div b
    BY <2>3
  <2>5. QED
    BY <2>2, <2>3, <2>4 DEF PositionAt
<1> HIDE DEF s
<1>6. Sees(s, kv, 0..(kv - 1), kv)
  BY <1>2, <1>4, <1>5 DEF Sees
<1>7. QED
  BY <1>2, <1>6

-----------------------------------------------------------------------------
(* Reading through a table; the timelines.                                 *)

\* The blocks of kv positions, each given once.
TableFor(tab, kv) ==
    /\ tab \in [1..CeilDiv(kv, BlockSize) -> PhysBlocks] /\ IsInjective(tab)

\* Every position lies in a slot, no two in the same.
LEMMA SlotFacts ==
  ASSUME NEW kv \in Nat \ {0}, NEW tab, TableFor(tab, kv)
  PROVE  /\ CeilDiv(kv, BlockSize) = ((kv - 1) \div BlockSize) + 1
         /\ \A p \in 0..(kv - 1) :
               (p \div BlockSize) + 1 \in 1..CeilDiv(kv, BlockSize) /\ SlotOf(tab, p) \in Slots
         /\ \A p, q \in 0..(kv - 1) : SlotOf(tab, p) = SlotOf(tab, q) => p = q
<1> DEFINE b == BlockSize
           n == CeilDiv(kv, b)
           top == (kv - 1) \div b
<1>1. b \in Nat \ {0} /\ PhysBlocks \subseteq Nat /\ kv - 1 \in Nat
  BY DiagnosticAssumption
<1>2. n = top + 1 /\ top \in Nat
  BY <1>1, RoundUp, BlockEnds DEF CeilDiv
<1>3. tab \in [1..n -> PhysBlocks] /\ \A i, j \in 1..n : tab[i] = tab[j] => i = j
  BY DEF TableFor, IsInjective
<1> HIDE DEF n
<1>4. ASSUME NEW p \in 0..(kv - 1)
      PROVE  /\ p \in Nat /\ p \div b \in Nat /\ p % b \in Nat /\ p % b < b
             /\ p = (p \div b) * b + (p % b)
             /\ (p \div b) + 1 \in 1..n
             /\ tab[(p \div b) + 1] \in PhysBlocks /\ tab[(p \div b) + 1] \in Nat
             /\ SlotOf(tab, p) = tab[(p \div b) + 1] * b + (p % b)
  <2>1. p \in Nat /\ p <= kv - 1
    BY <1>1
  <2>2. /\ p \div b \in Nat /\ p % b \in Nat /\ p % b < b /\ p = (p \div b) * b + (p % b)
        /\ p \div b <= top
    BY <1>1, <2>1, DivMod, BlockOrder
  <2>3. (p \div b) + 1 \in 1..n
    <3> DEFINE k == p \div b
    <3>1. k \in Nat /\ k <= top
      BY <2>2
    <3> HIDE DEF k, top
    <3>2. k + 1 \in 1..n
      BY <1>2, <3>1
    <3>3. QED
      BY <3>2 DEF k
  <2>4. tab[(p \div b) + 1] \in PhysBlocks /\ tab[(p \div b) + 1] \in Nat
    BY <1>1, <1>3, <2>3
  <2>5. SlotOf(tab, p) = tab[(p \div b) + 1] * b + (p % b)
    BY DEF SlotOf
  <2>6. QED
    BY <2>1, <2>2, <2>3, <2>4, <2>5
<1>5. ASSUME NEW p \in 0..(kv - 1)
      PROVE  SlotOf(tab, p) \in Slots
  <2>1. p % b \in 0..(b - 1)
    BY <1>1, <1>4
  <2>2. QED
    BY <1>4, <2>1 DEF Slots
<1>6. ASSUME NEW p \in 0..(kv - 1), NEW q \in 0..(kv - 1), SlotOf(tab, p) = SlotOf(tab, q)
      PROVE  p = q
  <2> DEFINE x == tab[(p \div b) + 1]
             y == tab[(q \div b) + 1]
  <2>1. /\ x \in Nat /\ y \in Nat /\ p % b \in Nat /\ q % b \in Nat /\ p % b < b /\ q % b < b
        /\ SlotOf(tab, p) = x * b + (p % b) /\ SlotOf(tab, q) = y * b + (q % b)
    BY <1>4
  <2> HIDE DEF x, y
  <2>2. /\ (x * b + (p % b)) \div b = x /\ (x * b + (p % b)) % b = p % b
        /\ (y * b + (q % b)) \div b = y /\ (y * b + (q % b)) % b = q % b
    BY <1>1, <2>1, AtBlock
  <2>3. x = y /\ p % b = q % b
    BY <1>6, <2>1, <2>2
  <2>4. (p \div b) + 1 = (q \div b) + 1
    <3>1. (p \div b) + 1 \in 1..n /\ (q \div b) + 1 \in 1..n
      BY <1>4
    <3>2. QED
      BY <1>3, <2>3, <3>1 DEF x, y
  <2>5. p \div b = q \div b
    <3>1. p \div b \in Nat /\ q \div b \in Nat
      BY <1>4
    <3>2. QED
      BY <2>4, <3>1
  <2>6. p = (p \div b) * b + (p % b) /\ q = (q \div b) * b + (q % b)
    BY <1>4
  <2>7. QED
    BY <2>3, <2>5, <2>6
<1>7. QED
  BY <1>2, <1>4, <1>5, <1>6 DEF n

\* The table a layer gets for the blocks of a plan.
Physical(tab, blocks) == [i \in DOMAIN blocks |-> tab[blocks[i] + 1]]

\* What cache c holds in the slots of a table.
ReadThrough(c, physical, len) == {c[s] : s \in {SlotOf(physical, j) : j \in 0..(len - 1)}}

\* The positions of V lie in their slots.
Holds(c, tab, V) == \A p \in V : c[SlotOf(tab, p)] = p

\* Who sees V through the blocks reads V through the table, if every position
\* lies in its slot.
LEMMA SeesReads ==
  ASSUME NEW kv \in Nat \ {0}, NEW tab, TableFor(tab, kv),
         NEW V, NEW blocks, NEW total, Sees(blocks, total, V, kv),
         NEW c, Holds(c, tab, V)
  PROVE  ReadThrough(c, Physical(tab, blocks), total) = V
<1> DEFINE b == BlockSize
           phys == Physical(tab, blocks)
           S == {SlotOf(phys, j) : j \in 0..(total - 1)}
           top == (kv - 1) \div b
<1>1. b \in Nat \ {0} /\ kv - 1 \in Nat
  BY DiagnosticAssumption
<1>2. /\ total \in Nat \ {0}
      /\ blocks \in [1..Len(blocks) -> 0..top]
      /\ \A q \in 0..(total - 1) :
            (q \div b) + 1 \in 1..Len(blocks) /\ PositionAt(blocks, q, b) \in V
      /\ \A x \in V : \E q \in 0..(total - 1) : PositionAt(blocks, q, b) = x
  BY DEF Sees
<1>3. top \in Nat
  BY <1>1, BlockEnds
<1> HIDE DEF top
<1>4. ASSUME NEW q \in 0..(total - 1)
      PROVE  SlotOf(phys, q) = SlotOf(tab, PositionAt(blocks, q, b))
  <2> DEFINE i == (q \div b) + 1
             k == blocks[i]
             r == q % b
  <2>1. q \in Nat
    BY <1>2
  <2>2. r \in Nat /\ r < b
    BY <1>1, <2>1, DivMod
  <2>3. i \in 1..Len(blocks) /\ k \in Nat
    BY <1>2, <1>3
  <2>4. phys[i] = tab[k + 1]
    BY <1>2, <2>3 DEF Physical
  <2> HIDE DEF k, r, phys
  <2>5. (k * b + r) \div b = k /\ (k * b + r) % b = r
    BY <1>1, <2>2, <2>3, AtBlock
  <2>6. PositionAt(blocks, q, b) = k * b + r
    BY DEF PositionAt, k, r
  <2>7. SlotOf(phys, q) = tab[k + 1] * b + r
    BY <2>4 DEF SlotOf, r
  <2>8. SlotOf(tab, k * b + r) = tab[k + 1] * b + r
    BY <2>5 DEF SlotOf
  <2>9. QED
    BY <2>6, <2>7, <2>8
<1>5. ASSUME NEW q \in 0..(total - 1)
      PROVE  c[SlotOf(phys, q)] = PositionAt(blocks, q, b) /\ PositionAt(blocks, q, b) \in V
  BY <1>2, <1>4 DEF Holds
<1> HIDE DEF phys
<1>6. ASSUME NEW x \in V
      PROVE  \E s \in S : c[s] = x
  <2>1. PICK q \in 0..(total - 1) : PositionAt(blocks, q, b) = x
    BY <1>2
  <2>2. SlotOf(phys, q) \in S /\ c[SlotOf(phys, q)] = x
    BY <1>5, <2>1
  <2>3. QED
    BY <2>2
<1>7. ASSUME NEW s \in S
      PROVE  c[s] \in V
  <2>1. PICK q \in 0..(total - 1) : s = SlotOf(phys, q)
    OBVIOUS
  <2>2. QED
    BY <1>5, <2>1
<1> HIDE DEF S
<1>8. {c[s] : s \in S} = V
  BY <1>6, <1>7
<1>9. QED
  BY <1>8 DEF S, phys, ReadThrough

-----------------------------------------------------------------------------
(* The timelines. *)

\* The pieces that are complete with token t.
Due(t) == {i \in DOMAIN script : Ends[i] <= t}

\* The last of them is one of them.
LEMMA LastDue ==
  ASSUME layout \in Layouts, script \in Scripts, NEW t, Due(t) # {}
  PROVE  /\ Max(Due(t)) \in 1..Len(script) /\ Max(Due(t)) \in Due(t)
         /\ \A i \in Due(t) : i <= Max(Due(t))
<1>1. Due(t) \subseteq 1..Len(script) /\ Len(script) \in Nat
  BY ScriptFacts DEF Due
<1>2. Due(t) \subseteq Nat /\ \A i \in Due(t) : i <= Len(script)
  BY <1>1
<1>3. QED
  BY <1>1, <1>2, GreatestNumber

\* The audit expects the view of the last complete piece.
LEMMA ExpectedIsDue ==
  ASSUME NEW f \in Nat
  PROVE  ExpectedView(f) = IF f = 1 \/ Due(f - 2) = {} THEN Global ELSE ViewOf(script[Max(Due(f - 2))])
BY DEF ExpectedView, Due, Consumed

\* A piece declares a view the layout can show.
LEMMA PieceViews ==
  ASSUME layout \in Layouts, script \in Scripts, NEW i \in 1..Len(script)
  PROVE  ViewOf(script[i]) \in Views
BY ScriptFacts DEF ViewOf, Views

\* So what the audit expects is one.
LEMMA ExpectedViews ==
  ASSUME layout \in Layouts, script \in Scripts, NEW f \in Nat
  PROVE  ExpectedView(f) \in Views
<1>1. CASE f = 1 \/ Due(f - 2) = {}
  BY <1>1, ExpectedIsDue, LayoutFacts
<1>2. CASE ~(f = 1 \/ Due(f - 2) = {})
  <2>1. Max(Due(f - 2)) \in 1..Len(script)
    BY <1>2, LastDue
  <2>2. QED
    BY <1>2, <2>1, ExpectedIsDue, PieceViews
<1>3. QED
  BY <1>1, <1>2

\* And what a parse leads to.
LEMMA AfterViews ==
  ASSUME layout \in Layouts, script \in Scripts, NEW t, NEW v \in Views
  PROVE  After(v, t) \in Views
<1>1. CASE \E i \in DOMAIN script : Ends[i] = t
  <2> DEFINE i == CHOOSE j \in DOMAIN script : Ends[j] = t
  <2>1. i \in 1..Len(script)
    BY <1>1, ScriptFacts
  <2>2. After(v, t) = ViewOf(script[i])
    BY <1>1 DEF After
  <2> HIDE DEF i
  <2>3. QED
    BY <2>1, <2>2, PieceViews
<1>2. CASE ~\E i \in DOMAIN script : Ends[i] = t
  BY <1>2 DEF After
<1>3. QED
  BY <1>1, <1>2

\* The parse of token t leads from one expected view to the next.
LEMMA AfterIsNext ==
  ASSUME layout \in Layouts, script \in Scripts, NEW t \in Nat
  PROVE  After(ExpectedView(t + 1), t) = ExpectedView(t + 2)
<1>1. Len(script) \in Nat /\ DOMAIN script = 1..Len(script) /\ \A i \in 1..Len(script) : Ends[i] \in Nat
  BY ScriptFacts, EndsGrow
<1>2. t + 2 \in Nat /\ t + 2 # 1 /\ (t + 2) - 2 = t /\ t + 1 \in Nat
  OBVIOUS
<1>3. CASE \E i \in DOMAIN script : Ends[i] = t
  <2> DEFINE i == CHOOSE j \in DOMAIN script : Ends[j] = t
             m == Max(Due(t))
  <2>1. i \in 1..Len(script) /\ Ends[i] = t
    BY <1>1, <1>3
  <2>2. After(ExpectedView(t + 1), t) = ViewOf(script[i])
    BY <1>3 DEF After
  <2> HIDE DEF i
  <2>3. i \in Due(t)
    BY <1>1, <2>1 DEF Due
  <2>4. m \in 1..Len(script) /\ m \in Due(t) /\ i <= m
    BY <2>3, LastDue
  <2>5. Ends[m] <= t
    BY <2>4 DEF Due
  <2> HIDE DEF m
  <2>6. i < m => t < Ends[m]
    BY <2>1, <2>4, EndsIncrease
  <2>7. Ends[m] \in Nat
    BY <1>1, <2>4
  <2>8. i = m
    BY <1>1, <2>1, <2>4, <2>5, <2>6, <2>7
  <2>9. ExpectedView(t + 2) = ViewOf(script[m])
    BY <1>2, <2>3, ExpectedIsDue DEF m
  <2>10. QED
    BY <2>2, <2>8, <2>9
<1>4. CASE ~\E i \in DOMAIN script : Ends[i] = t
  <2>1. After(ExpectedView(t + 1), t) = ExpectedView(t + 1)
    BY <1>4 DEF After
  <2>2. CASE t = 0
    <3>1. Due(t) = {}
      <4>1. \A i \in 1..Len(script) : ~(Ends[i] <= t)
        BY <1>1, <1>4, <2>2
      <4>2. QED
        BY <1>1, <4>1 DEF Due
    <3>2. t + 1 = 1
      BY <2>2
    <3>3. ExpectedView(t + 1) = Global /\ ExpectedView(t + 2) = Global
      BY <1>2, <3>1, <3>2, ExpectedIsDue
    <3>4. QED
      BY <2>1, <3>3
  <2>3. CASE t # 0
    <3>1. t + 1 # 1 /\ (t + 1) - 2 = t - 1
      BY <2>3
    <3>2. Due(t - 1) = Due(t)
      <4>1. \A i \in 1..Len(script) : Ends[i] <= t - 1 <=> Ends[i] <= t
        BY <1>1, <1>4
      <4>2. QED
        BY <1>1, <4>1 DEF Due
    <3>3. ExpectedView(t + 1) = ExpectedView(t + 2)
      BY <1>2, <3>1, <3>2, ExpectedIsDue
    <3>4. QED
      BY <2>1, <3>3
  <2>4. QED
    BY <2>2, <2>3
<1>5. QED
  BY <1>3, <1>4

\* There is a prompt and at least one decode.
LEMMA TotalFacts ==
  ASSUME layout \in Layouts, script \in Scripts
  PROVE  TotalForwards \in Nat /\ TotalForwards > 1
<1>1. Ends[Len(script)] \in Nat
  BY ScriptFacts, EndsGrow
<1>2. QED
  BY <1>1 DEF TotalForwards

\* The reference's timeline and the audit's are one.
LEMMA TimelineFacts ==
  ASSUME layout \in Layouts, script \in Scripts
  PROVE  TimelinesAgree
<1>1. Len(script) \in Nat /\ DOMAIN script = 1..Len(script) /\ \A i \in 1..Len(script) : Ends[i] \in Nat
  BY ScriptFacts, EndsGrow
<1>2. ASSUME NEW t \in 0..(TotalForwards - 2)
      PROVE  BridgeView(t) = ExpectedView(t + 2) /\ BridgeLen(t) = ExpectedLen(t + 2)
  <2> DEFINE passed == {i \in DOMAIN script : \A j \in 1..i : Reached(Ends[j], t)}
  <2>1. t \in Nat /\ layout.prompt \in Nat
    BY TotalFacts, LayoutFacts
  <2>2. passed = Due(t)
    <3>1. ASSUME NEW i \in 1..Len(script)
          PROVE  (\A j \in 1..i : Ends[j] <= t) <=> Ends[i] <= t
      <4>1. i \in 1..i
        BY <1>1
      <4>2. ASSUME NEW j \in 1..i, Ends[i] <= t
            PROVE  Ends[j] <= t
        <5>1. j \in 1..Len(script) /\ (j = i \/ j < i)
          BY <1>1
        <5>2. j < i => Ends[j] < Ends[i]
          BY <5>1, EndsIncrease
        <5>3. Ends[i] \in Nat /\ Ends[j] \in Nat
          BY <1>1, <5>1
        <5>4. QED
          BY <2>1, <4>2, <5>1, <5>2, <5>3
      <4>3. QED
        BY <4>1, <4>2
    <3>2. QED
      BY <1>1, <3>1 DEF Due, Reached
  <2>3. BridgeView(t) = IF Due(t) = {} THEN Global ELSE ViewOf(script[Max(Due(t))])
    BY <2>2 DEF BridgeView
  <2>4. t + 2 \in Nat /\ t + 2 # 1 /\ (t + 2) - 2 = t
    BY <2>1
  <2>5. ExpectedView(t + 2) = IF Due(t) = {} THEN Global ELSE ViewOf(script[Max(Due(t))])
    BY <2>4, ExpectedIsDue
  <2>6. BridgeLen(t) = ExpectedLen(t + 2)
    BY <2>1 DEF BridgeLen, ExpectedLen
  <2>7. QED
    BY <2>3, <2>5, <2>6
<1>3. QED
  BY <1>2 DEF TimelinesAgree

-----------------------------------------------------------------------------
(* The shape of the state, and the record of a step.                       *)

\* What a layer can leave of a forward.
Records ==
    [positions : SUBSET Nat, canonical : Seq(PhysBlocks), physical : Seq(PhysBlocks),
     len : Nat \ {0}, slots : UNION {[P -> Slots] : P \in SUBSET Nat}]

\* The shape of the state.
Typed ==
    /\ layout \in Layouts /\ script \in Scripts
    /\ view \in Views /\ last \in Views /\ declared \in Views
    /\ table \in Seq(PhysBlocks) /\ IsInjective(table)
    /\ cache \in [Layers -> [Slots -> 0..(layout.prompt + TotalForwards) \cup {Junk}]]
    /\ structure \in Seq([Layers -> Records])
    /\ overrides \in Seq([step : Nat, blocks : Seq(Nat), len : Nat])
    /\ parsed \in Seq([parse : Nat, effect : Nat, view : Views])
    /\ verdict \in {"none", "accepted", "rejected"} /\ right \in BOOLEAN
    /\ departures \in 0..MaxDepartures

\* How far the run is, by everything that grows with it.
Extent ==
    /\ Forwards <= TotalForwards /\ Len(parsed) = Forwards /\ Len(overrides) <= Forwards
    /\ Len(table) = IF Forwards = 0 THEN 0 ELSE CeilDiv(KvLen - 1, BlockSize)
    /\ Forwards = 0 => view = Global
    /\ \A f \in 1..Forwards : \A l \in Layers :
          Len(structure[f][l].physical) = CeilDiv(structure[f][l].len, BlockSize)

\* The numbers of a run.
LEMMA CountFacts ==
  ASSUME Typed
  PROVE  /\ Forwards \in Nat /\ DOMAIN structure = 1..Forwards
         /\ layout.prompt \in Nat \ {0} /\ KvLen \in Nat \ {0} /\ KvLen = layout.prompt + Forwards
         /\ BlockSize \in Nat \ {0} /\ TotalForwards \in Nat /\ TotalForwards > 1
<1>1. structure \in Seq([Layers -> Records])
  BY DEF Typed
<1>2. Forwards \in Nat /\ DOMAIN structure = 1..Forwards
  BY <1>1 DEF Forwards
<1>3. /\ layout.prompt \in Nat \ {0} /\ BlockSize \in Nat \ {0}
      /\ TotalForwards \in Nat /\ TotalForwards > 1
  BY LayoutFacts, TotalFacts DEF Typed
<1>4. QED
  BY <1>2, <1>3 DEF KvLen

\* The guards of a step, and what it shows.
LEMMA StepFacts ==
  ASSUME Typed, Extent, NEW kind \in Kinds, NEW tab, Step(kind, tab)
  PROVE  /\ TableFor(tab, KvLen) /\ Forwards < TotalForwards
         /\ Shown(kind) \in Views /\ (Shown(kind) = Global \/ layout.prompt < KvLen)
         /\ Forwards = 0 => kind \in {"none", "lost"} /\ Shown(kind) = Global
<1>1. Allocated(tab)
  BY DEF Step, Grows, Moves
<1>2. Forwards < TotalForwards /\ (Forwards = 0 => kind \in {"none", "lost"})
  BY DEF Step
<1>3. Shown(kind) \in Views
  BY DEF Typed, Shown
<1>4. Forwards = 0 => Shown(kind) = Global
  BY <1>2 DEF Extent, Shown
<1>5. Forwards # 0 => layout.prompt < KvLen
  BY CountFacts
<1>6. QED
  BY <1>1, <1>2, <1>3, <1>4, <1>5 DEF Allocated, TableFor

\* What the engine gives a layer for a view is the view's mask.
LEMMA ReadIsMask ==
  ASSUME Typed, NEW v \in Views, v = Global \/ layout.prompt < KvLen,
         NEW tab, TableFor(tab, KvLen), NEW plan,
         v # Global => plan = Plan(v.mode, v.refs, layout, KvLen, BlockSize)
  PROVE  Read(v, plan, tab) = [physical |-> Physical(tab, Mask(v, KvLen).blocks),
                               len |-> Mask(v, KvLen).total]
<1>1. layout \in Layouts /\ KvLen \in Nat \ {0} /\ BlockSize \in Nat \ {0}
  BY CountFacts DEF Typed
<1>2. CASE v = Global
  <2> DEFINE n == CeilDiv(KvLen, BlockSize)
             s == [i \in 1..n |-> i - 1]
  <2>1. Mask(Global, KvLen).total = KvLen /\ Mask(Global, KvLen).blocks = s
    BY <1>1, GlobalMask
  <2>2. tab \in [1..n -> PhysBlocks]
    BY DEF TableFor
  <2>3. Physical(tab, s) = tab
    <3>1. DOMAIN s = 1..n /\ \A i \in 1..n : tab[s[i] + 1] = tab[i]
      <4>1. \A i \in 1..n : (i - 1) + 1 = i
        OBVIOUS
      <4>2. QED
        BY <4>1
    <3> HIDE DEF s, n
    <3>2. QED
      BY <2>2, <3>1 DEF Physical
  <2>4. Read(v, plan, tab) = [physical |-> tab, len |-> KvLen]
    BY <1>2 DEF Read
  <2> HIDE DEF s, n
  <2>5. QED
    BY <1>2, <2>1, <2>3, <2>4
<1>3. CASE v # Global
  <2>1. plan.blocks = Mask(v, KvLen).blocks /\ plan.seqused = Mask(v, KvLen).total
    BY <1>1, <1>3, PlanIsMask
  <2>2. Read(v, plan, tab) = [physical |-> [i \in DOMAIN plan.blocks |-> tab[plan.blocks[i] + 1]],
                              len |-> plan.seqused]
    BY <1>3 DEF Read
  <2>3. QED
    BY <2>1, <2>2 DEF Physical
<1>4. QED
  BY <1>2, <1>3

\* The reader of a mask, global or not, sees what the reference shows.
LEMMA ViewSees ==
  ASSUME Typed, NEW v \in Views, v = Global \/ layout.prompt < KvLen
  PROVE  Sees(Mask(v, KvLen).blocks, Mask(v, KvLen).total, Visible(v, KvLen), KvLen)
<1>1. layout \in Layouts /\ KvLen \in Nat \ {0}
  BY CountFacts DEF Typed
<1>2. CASE v = Global
  BY <1>1, <1>2, GlobalSees
<1>3. CASE v # Global
  BY <1>1, <1>3, MaskSees
<1>4. QED
  BY <1>2, <1>3

\* Blocks from which something is seen are blocks of the table.
LEMMA SeenTables ==
  ASSUME NEW kv \in Nat \ {0}, NEW tab, TableFor(tab, kv), NEW V,
         NEW blocks, NEW total, Sees(blocks, total, V, kv)
  PROVE  /\ Physical(tab, blocks) \in Seq(PhysBlocks) /\ total \in Nat \ {0}
         /\ blocks \in Seq(Nat)
         /\ Len(Physical(tab, blocks)) = CeilDiv(total, BlockSize)
         /\ SlotOf(Physical(tab, blocks), total - 1) \in Slots
<1> DEFINE b == BlockSize
           top == (kv - 1) \div b
           n == Len(blocks)
           phys == Physical(tab, blocks)
<1>1. b \in Nat \ {0} /\ kv - 1 \in Nat /\ PhysBlocks \subseteq Nat
  BY DiagnosticAssumption
<1>2. /\ total \in Nat \ {0} /\ n = CeilDiv(total, b) /\ blocks \in [1..n -> 0..top]
      /\ \A q \in 0..(total - 1) : (q \div b) + 1 \in 1..n
  BY DEF Sees
<1>3. top \in Nat /\ CeilDiv(kv, b) = top + 1
  BY <1>1, SlotFacts, BlockEnds
<1>4. n \in Nat
  <2>1. total + b - 1 \in Nat
    BY <1>1, <1>2
  <2>2. QED
    BY <1>1, <1>2, <2>1, BlockEnds DEF CeilDiv
<1> HIDE DEF top, n
<1>5. blocks \in Seq(Nat)
  <2>1. blocks \in [1..n -> Nat]
    BY <1>2, <1>3
  <2>2. QED
    BY <1>4, <2>1
<1>6. phys \in [1..n -> PhysBlocks]
  <2>1. \A i \in 1..n : blocks[i] + 1 \in 1..(top + 1)
    BY <1>2, <1>3
  <2>2. tab \in [1..(top + 1) -> PhysBlocks]
    BY <1>3 DEF TableFor
  <2>3. QED
    BY <1>2, <2>1, <2>2 DEF Physical
<1>7. phys \in Seq(PhysBlocks) /\ Len(phys) = n
  <2> HIDE DEF phys
  <2>1. QED
    BY <1>4, <1>6
<1>8. SlotOf(phys, total - 1) \in Slots
  <2> DEFINE q == total - 1
  <2>1. q \in 0..(total - 1) /\ q \in Nat
    BY <1>2
  <2> HIDE DEF q, phys
  <2>2. phys[(q \div b) + 1] \in PhysBlocks
    BY <1>2, <1>6, <2>1
  <2>3. q % b \in 0..(b - 1)
    <3>1. q % b \in Nat /\ q % b < b
      BY <1>1, <2>1, DivMod
    <3>2. QED
      BY <1>1, <3>1
  <2>4. SlotOf(phys, q) \in Slots
    BY <2>2, <2>3 DEF SlotOf, Slots
  <2>5. QED
    BY <2>4 DEF q
<1>9. QED
  BY <1>2, <1>5, <1>7, <1>8 DEF n

-----------------------------------------------------------------------------
(* One forward. *)

\* What a step records of a layer.
NewRecord(kind, l, tab) ==
    Snapshot(kind, l, Plan(Shown(kind).mode, Shown(kind).refs, layout, KvLen, BlockSize), tab)

\* A forward computes the last position, and with it all that no forward before it has.
LEMMA BatchFacts ==
  ASSUME Typed
  PROVE  /\ BatchPositions \subseteq 0..(KvLen - 1)
         /\ KvLen - 1 \in BatchPositions
         /\ \A p \in 0..(KvLen - 1) : p \notin BatchPositions => Forwards # 0 /\ p \in 0..(KvLen - 2)
BY CountFacts DEF BatchPositions

\* The new record, field by field.
LEMMA RecordFacts ==
  ASSUME Typed, Extent, NEW kind \in Kinds, NEW tab, Step(kind, tab), NEW l \in Layers
  PROVE  LET rec  == NewRecord(kind, l, tab)
             v    == IF kind = "layer" /\ l = OddLayer THEN Global ELSE Shown(kind)
             mask == Mask(v, KvLen)
         IN  /\ rec \in Records
             /\ rec.positions = BatchPositions /\ rec.canonical = tab
             /\ rec.physical = Physical(tab, mask.blocks) /\ rec.len = mask.total
             /\ Len(rec.physical) = CeilDiv(rec.len, BlockSize)
             /\ kind # "compressed" => \A p \in BatchPositions : rec.slots[p] = SlotOf(tab, p)
<1> DEFINE rec == NewRecord(kind, l, tab)
           v == IF kind = "layer" /\ l = OddLayer THEN Global ELSE Shown(kind)
           plan == Plan(Shown(kind).mode, Shown(kind).refs, layout, KvLen, BlockSize)
           phys == Physical(tab, Mask(v, KvLen).blocks)
           len == Mask(v, KvLen).total
           slots == [p \in BatchPositions |-> IF kind = "compressed" THEN SlotOf(phys, len - 1)
                                              ELSE SlotOf(tab, p)]
<1>1. TableFor(tab, KvLen) /\ KvLen \in Nat \ {0}
  BY StepFacts, CountFacts
<1>2. v \in Views /\ (v = Global \/ layout.prompt < KvLen)
  <2>1. Global \in Views
    BY LayoutFacts DEF Typed
  <2>2. QED
    BY <2>1, StepFacts
<1>3. v # Global => plan = Plan(v.mode, v.refs, layout, KvLen, BlockSize)
  OBVIOUS
<1>4. Read(v, plan, tab) = [physical |-> phys, len |-> len]
  <2> HIDE DEF v, plan
  <2>1. QED
    BY <1>1, <1>2, <1>3, ReadIsMask
<1>5. rec = [positions |-> BatchPositions, canonical |-> tab, physical |-> phys, len |-> len,
             slots |-> slots]
  BY <1>4 DEF NewRecord, Snapshot
<1> HIDE DEF v
<1>6. Sees(Mask(v, KvLen).blocks, len, Visible(v, KvLen), KvLen)
  BY <1>2, ViewSees
<1>7. /\ phys \in Seq(PhysBlocks) /\ len \in Nat \ {0} /\ Len(phys) = CeilDiv(len, BlockSize)
      /\ SlotOf(phys, len - 1) \in Slots
  BY <1>1, <1>6, SeenTables
<1>8. tab \in Seq(PhysBlocks)
  <2>1. CeilDiv(KvLen, BlockSize) \in Nat
    <3>1. KvLen - 1 \in Nat /\ BlockSize \in Nat \ {0}
      BY <1>1, CountFacts
    <3>2. QED
      BY <1>1, <3>1, SlotFacts, BlockEnds
  <2>2. QED
    BY <1>1, <2>1 DEF TableFor
<1>9. BatchPositions \in SUBSET Nat /\ slots \in [BatchPositions -> Slots]
  <2>1. \A p \in BatchPositions : SlotOf(tab, p) \in Slots
    BY <1>1, BatchFacts, SlotFacts
  <2>2. BatchPositions \in SUBSET Nat
    BY <1>1, BatchFacts
  <2> HIDE DEF phys, len
  <2>3. QED
    BY <1>7, <2>1, <2>2
<1>10. kind # "compressed" => \A p \in BatchPositions : slots[p] = SlotOf(tab, p)
  OBVIOUS
<1> HIDE DEF slots, phys, len
<1>11. rec \in Records
  <2>1. slots \in UNION {[P -> Slots] : P \in SUBSET Nat}
    BY <1>9
  <2>2. QED
    BY <1>5, <1>7, <1>8, <1>9, <2>1 DEF Records
<1>12. /\ rec.positions = BatchPositions /\ rec.canonical = tab /\ rec.physical = phys
       /\ rec.len = len /\ rec.slots = slots
  BY <1>5
<1> HIDE DEF rec
<1>13. QED
  BY <1>7, <1>10, <1>11, <1>12 DEF rec, v, phys, len

\* Append leaves the sequence and adds the element.
LEMMA AppendIs ==
  ASSUME NEW S, NEW q \in Seq(S), NEW e \in S
  PROVE  /\ Append(q, e) \in Seq(S) /\ Len(Append(q, e)) = Len(q) + 1
         /\ \A i \in 1..Len(q) : Append(q, e)[i] = q[i]
         /\ Append(q, e)[Len(q) + 1] = e
OBVIOUS

\* A step adds its records to the structure.
LEMMA StructureGrows ==
  ASSUME Typed, Extent, NEW kind \in Kinds, NEW tab, Step(kind, tab)
  PROVE  /\ structure' \in Seq([Layers -> Records])
         /\ Forwards' = Forwards + 1 /\ KvLen' = KvLen + 1
         /\ \A f \in 1..Forwards : structure'[f] = structure[f]
         /\ \A l \in Layers : structure'[Forwards + 1][l] = NewRecord(kind, l, tab)
         /\ Last(structure') = structure'[Forwards + 1]
<1> DEFINE new == [l \in Layers |-> NewRecord(kind, l, tab)]
<1>1. structure' = Append(structure, new)
  BY DEF Step, NewRecord
<1>2. new \in [Layers -> Records]
  BY RecordFacts
<1>3. \A l \in Layers : new[l] = NewRecord(kind, l, tab)
  OBVIOUS
<1>4. structure \in Seq([Layers -> Records]) /\ layout' = layout
  BY DEF Typed, Step
<1> HIDE DEF new
<1>5. /\ structure' \in Seq([Layers -> Records]) /\ Len(structure') = Len(structure) + 1
      /\ \A f \in 1..Len(structure) : structure'[f] = structure[f]
      /\ structure'[Len(structure) + 1] = new
  BY <1>1, <1>2, <1>4, AppendIs
<1>6. Forwards' = Forwards + 1
  BY <1>5 DEF Forwards
<1>7. KvLen' = KvLen + 1
  <2>1. layout.prompt \in Nat /\ Forwards \in Nat
    BY CountFacts
  <2>2. QED
    BY <1>4, <1>6, <2>1 DEF KvLen
<1>8. Last(structure') = structure'[Forwards + 1]
  BY <1>5 DEF Last, Forwards
<1>9. QED
  BY <1>3, <1>5, <1>6, <1>7, <1>8 DEF Forwards

-----------------------------------------------------------------------------
(* The invariant of soundness.                                             *)

\* The audit judges every forward so far to be right.
AllOK == \A f \in 1..Forwards : \A l \in Layers : LayerOK(f, l)

\* The view the tokens stand for is the one the audit expects of the next forward.
Declares == declared = ExpectedView(Forwards + 1)

\* The table is the one the last forward recorded.
Chained == Forwards > 0 => \A l \in Layers : structure[Forwards][l].canonical = table

\* Every position so far lies in the slot the table gives it.
Stored == Forwards > 0 => \A l \in Layers : \A p \in 0..(KvLen - 2) : cache[l][SlotOf(table, p)] = p

\* Approved forwards were right and left the cache right.
Judged == AllOK => right /\ Stored

\* The audit accepts nothing it has not approved of.
Accepts == verdict = "accepted" => AllOK

\* The inductive invariant of soundness.
SoundInv == Typed /\ Extent /\ Declares /\ Chained /\ Judged /\ Accepts

\* The expectations depend on the layout and the script alone.
LEMMA ScriptSame ==
  ASSUME layout' = layout, script' = script
  PROVE  /\ Views' = Views /\ TotalForwards' = TotalForwards
         /\ \A f : ExpectedView(f)' = ExpectedView(f) /\ ExpectedLen(f)' = ExpectedLen(f)
<1>1. Views' = Views /\ Ends' = Ends
  BY DEF Views, Ends
<1>2. TotalForwards' = TotalForwards
  BY <1>1 DEF TotalForwards
<1>3. \A f : ExpectedView(f)' = ExpectedView(f)
  BY <1>1 DEF ExpectedView, ViewOf
<1>4. \A f : ExpectedLen(f)' = ExpectedLen(f)
  BY DEF ExpectedLen
<1>5. QED
  BY <1>1, <1>2, <1>3, <1>4

\* The initial state has the shape.
LEMMA TypedStarts ==
  ASSUME Init
  PROVE  Typed
<1>1. /\ layout \in Layouts /\ script \in Scripts
      /\ view = Global /\ last = Global /\ declared = Global
      /\ table = <<>> /\ cache = [l \in Layers |-> [s \in Slots |-> Junk]]
      /\ structure = <<>> /\ overrides = <<>> /\ parsed = <<>>
      /\ verdict = "none" /\ right = TRUE /\ departures = 0
  BY DEF Init
<1>2. Global \in Views
  BY <1>1, LayoutFacts
<1>3. table \in Seq(PhysBlocks) /\ IsInjective(table)
  BY <1>1 DEF IsInjective
<1>4. departures \in 0..MaxDepartures
  BY <1>1, DiagnosticAssumption
<1>5. /\ structure \in Seq([Layers -> Records])
      /\ overrides \in Seq([step : Nat, blocks : Seq(Nat), len : Nat])
      /\ parsed \in Seq([parse : Nat, effect : Nat, view : Views])
  BY <1>1
<1>6. cache \in [Layers -> [Slots -> 0..(layout.prompt + TotalForwards) \cup {Junk}]]
  BY <1>1
<1>7. QED
  BY <1>1, <1>2, <1>3, <1>4, <1>5, <1>6 DEF Typed

\* A plan lists block numbers and counts positions.
LEMMA PlanTyped ==
  ASSUME Typed, NEW v \in Views, layout.prompt < KvLen
  PROVE  LET p == Plan(v.mode, v.refs, layout, KvLen, BlockSize)
         IN  p.blocks \in Seq(Nat) /\ p.seqused \in Nat
<1> DEFINE p == Plan(v.mode, v.refs, layout, KvLen, BlockSize)
           mask == Mask(v, KvLen)
           top == (KvLen - 1) \div BlockSize
<1>1. p.blocks = mask.blocks /\ p.seqused = mask.total
  BY CountFacts, PlanIsMask DEF Typed
<1>2. Sees(mask.blocks, mask.total, Visible(v, KvLen), KvLen)
  BY ViewSees
<1>3. KvLen - 1 \in Nat /\ BlockSize \in Nat \ {0}
  BY CountFacts
<1>4. top \in Nat
  BY <1>3, BlockEnds
<1> HIDE DEF p, mask, top
<1>5. mask.total \in Nat \ {0} /\ mask.blocks \in [1..Len(mask.blocks) -> 0..top]
      /\ Len(mask.blocks) = CeilDiv(mask.total, BlockSize)
  BY <1>2 DEF Sees, top
<1>6. Len(mask.blocks) \in Nat
  <2>1. mask.total + BlockSize - 1 \in Nat
    BY <1>3, <1>5
  <2>2. QED
    BY <1>3, <1>5, <2>1, BlockEnds DEF CeilDiv
<1>7. mask.blocks \in Seq(Nat)
  <2>1. mask.blocks \in [1..Len(mask.blocks) -> Nat]
    BY <1>4, <1>5
  <2>2. QED
    BY <1>6, <2>1
<1>8. QED
  BY <1>1, <1>5, <1>7 DEF p

\* A step keeps the shape,
LEMMA TypedStep ==
  ASSUME Typed, Extent, NEW kind \in Kinds, NEW tab, Step(kind, tab)
  PROVE  Typed'
<1>1. layout' = layout /\ script' = script /\ verdict' = verdict
  BY DEF Step
<1>2. Views' = Views /\ TotalForwards' = TotalForwards
  BY <1>1, ScriptSame
<1>3. layout' \in Layouts /\ script' \in Scripts /\ verdict' \in {"none", "accepted", "rejected"}
  BY <1>1 DEF Typed
<1>4. view' \in Views /\ last' \in Views /\ declared' \in Views
  <2>1. After(view, Forwards) \in Views /\ After(declared, Forwards) \in Views
    BY AfterViews DEF Typed
  <2>2. QED
    BY <2>1 DEF Step, Typed
<1>5. table' \in Seq(PhysBlocks) /\ IsInjective(table')
  <2>1. table' = tab /\ TableFor(tab, KvLen)
    BY StepFacts DEF Step
  <2>2. CeilDiv(KvLen, BlockSize) \in Nat
    <3>1. KvLen - 1 \in Nat /\ BlockSize \in Nat \ {0} /\ KvLen \in Nat \ {0}
      BY CountFacts
    <3>2. QED
      BY <2>1, <3>1, SlotFacts, BlockEnds
  <2>3. QED
    BY <2>1, <2>2 DEF TableFor
<1>6. structure' \in Seq([Layers -> Records])
  BY StructureGrows
<1>7. cache' \in [Layers -> [Slots -> 0..(layout.prompt + TotalForwards) \cup {Junk}]]
  <2>1. cache' = [l \in Layers |-> Written(cache[l], NewRecord(kind, l, tab))]
    <3>1. cache' = [l \in Layers |-> Written(cache[l], Last(structure')[l])]
      BY DEF Step
    <3>2. \A l \in Layers : Last(structure')[l] = NewRecord(kind, l, tab)
      BY StructureGrows
    <3>3. QED
      BY <3>1, <3>2
  <2>2. ASSUME NEW l \in Layers
        PROVE  Written(cache[l], NewRecord(kind, l, tab))
                 \in [Slots -> 0..(layout.prompt + TotalForwards) \cup {Junk}]
    <3> DEFINE rec == NewRecord(kind, l, tab)
               bound == layout.prompt + TotalForwards
    <3>1. rec.positions = BatchPositions
      BY RecordFacts
    <3>2. BatchPositions \subseteq 0..bound
      <4>1. BatchPositions \subseteq 0..(KvLen - 1) /\ KvLen - 1 <= bound /\ KvLen \in Nat /\ bound \in Nat
        BY BatchFacts, CountFacts, StepFacts
      <4> HIDE DEF bound
      <4>2. QED
        BY <4>1
    <3>3. cache[l] \in [Slots -> 0..bound \cup {Junk}]
      BY DEF Typed
    <3> HIDE DEF rec, bound
    <3>4. ASSUME NEW s \in Slots
          PROVE  (IF \E p \in rec.positions : rec.slots[p] = s
                  THEN CHOOSE p \in rec.positions : rec.slots[p] = s
                  ELSE cache[l][s]) \in 0..bound \cup {Junk}
      <4>1. ASSUME \E p \in rec.positions : rec.slots[p] = s
            PROVE  (CHOOSE p \in rec.positions : rec.slots[p] = s) \in 0..bound
        BY <3>1, <3>2, <4>1
      <4>2. cache[l][s] \in 0..bound \cup {Junk}
        BY <3>3
      <4>3. QED
        BY <4>1, <4>2
    <3>5. Written(cache[l], rec) \in [Slots -> 0..bound \cup {Junk}]
      BY <3>4 DEF Written
    <3>6. QED
      BY <3>5 DEF rec, bound
  <2>3. QED
    BY <2>1, <2>2
<1>8. overrides' \in Seq([step : Nat, blocks : Seq(Nat), len : Nat])
  <2> DEFINE plan == Plan(Shown(kind).mode, Shown(kind).refs, layout, KvLen, BlockSize)
             e == [step |-> Forwards, blocks |-> plan.blocks, len |-> plan.seqused]
             T == [step : Nat, blocks : Seq(Nat), len : Nat]
  <2>1. overrides' = IF Shown(kind) = Global \/ kind = "silent" THEN overrides ELSE Append(overrides, e)
    BY DEF Step
  <2>2. overrides \in Seq(T)
    BY DEF Typed
  <2>3. Shown(kind) # Global => e \in T
    <3>1. ASSUME Shown(kind) # Global
          PROVE  plan.blocks \in Seq(Nat) /\ plan.seqused \in Nat
      BY <3>1, StepFacts, PlanTyped
    <3>2. Forwards \in Nat
      BY CountFacts
    <3> HIDE DEF plan
    <3>3. QED
      BY <3>1, <3>2
  <2> HIDE DEF e, T
  <2>4. CASE Shown(kind) = Global \/ kind = "silent"
    BY <2>1, <2>2, <2>4 DEF T
  <2>5. CASE ~(Shown(kind) = Global \/ kind = "silent")
    <3>1. e \in T /\ overrides' = Append(overrides, e)
      BY <2>1, <2>3, <2>5
    <3>2. Append(overrides, e) \in Seq(T)
      BY <2>2, <3>1, AppendIs
    <3>3. QED
      BY <3>1, <3>2 DEF T
  <2>6. QED
    BY <2>4, <2>5
<1>9. parsed' \in Seq([parse : Nat, effect : Nat, view : Views])
  <2> DEFINE e == [parse |-> Forwards, effect |-> Forwards + 1, view |-> view']
             T == [parse : Nat, effect : Nat, view : Views]
  <2>1. parsed' = Append(parsed, e)
    BY DEF Step
  <2>2. parsed \in Seq(T)
    BY DEF Typed
  <2>3. e \in T
    BY <1>4, CountFacts
  <2> HIDE DEF e, T
  <2>4. Append(parsed, e) \in Seq(T)
    BY <2>2, <2>3, AppendIs
  <2>5. QED
    BY <2>1, <2>4 DEF T
<1>10. right' \in BOOLEAN
  <2> DEFINE seen == \A l \in Layers :
                        {cache'[l][s] : s \in Dereferenced(Last(structure')[l])}
                           = ReferenceVisible(declared.mode, declared.refs, layout, KvLen, BlockSize)
  <2>1. right' = (right /\ seen)
    BY DEF Step
  <2>2. (right /\ seen) \in BOOLEAN
    OBVIOUS
  <2> HIDE DEF seen
  <2>3. QED
    BY <2>1, <2>2
<1>11. departures' \in 0..MaxDepartures
  <2>1. departures \in 0..MaxDepartures /\ MaxDepartures \in Nat
    BY DiagnosticAssumption DEF Typed
  <2>2. kind = "none" \/ departures < MaxDepartures
    BY DEF Step
  <2>3. departures' = IF kind = "none" THEN departures ELSE departures + 1
    BY DEF Step
  <2>4. QED
    BY <2>1, <2>2, <2>3
<1>12. QED
  <2>1. cache' \in [Layers -> [Slots -> 0..(layout'.prompt + TotalForwards') \cup {Junk}]]
    BY <1>1, <1>2, <1>7
  <2>2. parsed' \in Seq([parse : Nat, effect : Nat, view : Views'])
    BY <1>2, <1>9
  <2>3. view' \in Views' /\ last' \in Views' /\ declared' \in Views'
    BY <1>2, <1>4
  <2>4. QED
    BY <1>3, <1>5, <1>6, <1>8, <1>10, <1>11, <2>1, <2>2, <2>3 DEF Typed

\* and how far the run is.
LEMMA ExtentStep ==
  ASSUME Typed, Extent, NEW kind \in Kinds, NEW tab, Step(kind, tab)
  PROVE  Extent'
<1>1. /\ Forwards \in Nat /\ Forwards' = Forwards + 1 /\ KvLen' = KvLen + 1
      /\ Forwards < TotalForwards /\ TotalForwards \in Nat /\ KvLen \in Nat \ {0}
      /\ TotalForwards' = TotalForwards
  <2>1. layout' = layout /\ script' = script
    BY DEF Step
  <2>2. QED
    BY <2>1, CountFacts, StructureGrows, StepFacts, ScriptSame
<1>2. Len(parsed') = Forwards'
  <2> DEFINE e == [parse |-> Forwards, effect |-> Forwards + 1, view |-> view']
             T == [parse : Nat, effect : Nat, view : Views]
  <2>1. parsed' = Append(parsed, e) /\ parsed \in Seq(T)
    BY DEF Step, Typed
  <2> HIDE DEF e, T
  <2>2. Len(Append(parsed, e)) = Len(parsed) + 1
    BY <2>1
  <2>3. QED
    BY <1>1, <2>1, <2>2 DEF Extent
<1>3. Len(overrides') <= Forwards'
  <2> DEFINE plan == Plan(Shown(kind).mode, Shown(kind).refs, layout, KvLen, BlockSize)
             e == [step |-> Forwards, blocks |-> plan.blocks, len |-> plan.seqused]
             T == [step : Nat, blocks : Seq(Nat), len : Nat]
  <2>1. overrides' = overrides \/ overrides' = Append(overrides, e)
    BY DEF Step
  <2>2. overrides \in Seq(T) /\ Len(overrides) <= Forwards
    BY DEF Typed, Extent
  <2> HIDE DEF e, T
  <2>3. Len(overrides) \in Nat /\ Len(Append(overrides, e)) = Len(overrides) + 1
    BY <2>2
  <2>4. QED
    BY <1>1, <2>1, <2>2, <2>3
<1>4. Len(table') = CeilDiv(KvLen' - 1, BlockSize)
  <2>1. table' = tab /\ tab \in [1..CeilDiv(KvLen, BlockSize) -> PhysBlocks]
    BY StepFacts DEF Step, TableFor
  <2>2. CeilDiv(KvLen, BlockSize) \in Nat
    <3>1. KvLen - 1 \in Nat /\ BlockSize \in Nat \ {0} /\ TableFor(tab, KvLen)
      BY CountFacts, StepFacts
    <3>2. QED
      BY <1>1, <3>1, SlotFacts, BlockEnds
  <2>3. KvLen' - 1 = KvLen
    BY <1>1
  <2>4. QED
    BY <2>1, <2>2, <2>3
<1>5. ASSUME NEW f \in 1..Forwards', NEW l \in Layers
      PROVE  Len(structure'[f][l].physical) = CeilDiv(structure'[f][l].len, BlockSize)
  <2>1. CASE f \in 1..Forwards
    BY <2>1, StructureGrows DEF Extent
  <2>2. CASE f = Forwards + 1
    <3>1. structure'[f][l] = NewRecord(kind, l, tab)
      BY <2>2, StructureGrows
    <3>2. Len(NewRecord(kind, l, tab).physical) = CeilDiv(NewRecord(kind, l, tab).len, BlockSize)
      BY RecordFacts
    <3>3. QED
      BY <3>1, <3>2
  <2>3. QED
    BY <1>1, <2>1, <2>2
<1>6. Forwards' # 0 /\ Forwards' <= TotalForwards'
  BY <1>1
<1>7. QED
  BY <1>2, <1>3, <1>4, <1>5, <1>6 DEF Extent

-----------------------------------------------------------------------------
(* The invariant is inductive.                                             *)

\* The declarations advance as the expectations do.
LEMMA DeclaresStep ==
  ASSUME Typed, Declares, NEW kind \in Kinds, NEW tab, Step(kind, tab), Forwards' = Forwards + 1
  PROVE  Declares'
<1>1. layout' = layout /\ script' = script /\ declared' = After(declared, Forwards)
  BY DEF Step
<1>2. Forwards \in Nat /\ layout \in Layouts /\ script \in Scripts
  BY CountFacts DEF Typed
<1>3. After(ExpectedView(Forwards + 1), Forwards) = ExpectedView(Forwards + 2)
  BY <1>2, AfterIsNext
<1>4. Forwards' + 1 = Forwards + 2
  BY <1>2
<1>5. declared' = ExpectedView(Forwards' + 1)
  BY <1>1, <1>3, <1>4 DEF Declares
<1>6. ExpectedView(Forwards + 1)' = ExpectedView(Forwards' + 1)
  <2>1. Ends' = Ends
    BY <1>1 DEF Ends
  <2>2. QED
    BY <1>1, <2>1 DEF ExpectedView, ViewOf
<1>7. QED
  BY <1>5, <1>6 DEF Declares

\* So do the masks.
LEMMA MaskSame ==
  ASSUME layout' = layout, script' = script, NEW f
  PROVE  Mask(ExpectedView(f), ExpectedLen(f))' = Mask(ExpectedView(f), ExpectedLen(f))
<1>1. ExpectedView(f)' = ExpectedView(f) /\ ExpectedLen(f)' = ExpectedLen(f)
  BY ScriptSame
<1>2. QED
  BY <1>1 DEF Mask, SemanticPositions

\* A forward that was judged keeps its judgement.
LEMMA JudgedBefore ==
  ASSUME layout' = layout, script' = script, NEW f, NEW l,
         structure'[f] = structure[f], f > 1 => structure'[f - 1] = structure[f - 1]
  PROVE  LayerOK(f, l)' <=> LayerOK(f, l)
<1>1. /\ ExpectedView(f)' = ExpectedView(f) /\ ExpectedLen(f)' = ExpectedLen(f)
  BY ScriptSame
<1>2. Mask(ExpectedView(f), ExpectedLen(f))' = Mask(ExpectedView(f), ExpectedLen(f))
  BY MaskSame
<1> DEFINE m == Mask(ExpectedView(f), ExpectedLen(f))
<1>3. f > 1 => structure'[f - 1][l].canonical = structure[f - 1][l].canonical
  OBVIOUS
<1>4. QED
  BY <1>1, <1>2, <1>3 DEF LayerOK

\* Only the new record is left to judge.
LEMMA AllBefore ==
  ASSUME Typed, Extent, NEW kind \in Kinds, NEW tab, Step(kind, tab), NEW n, n = Forwards
  PROVE  AllOK' <=> AllOK /\ \A l \in Layers : LayerOK(n + 1, l)'
<1>1. layout' = layout /\ script' = script
  BY DEF Step
<1>2. n \in Nat /\ Forwards' = n + 1 /\ \A f \in 1..n : structure'[f] = structure[f]
  BY CountFacts, StructureGrows
<1>3. ASSUME NEW f \in 1..n, NEW l \in Layers
      PROVE  LayerOK(f, l)' <=> LayerOK(f, l)
  <2>1. f \in Nat /\ (f > 1 => f - 1 \in 1..n)
    BY <1>2
  <2>2. structure'[f] = structure[f] /\ (f > 1 => structure'[f - 1] = structure[f - 1])
    BY <1>2, <2>1
  <2>3. QED
    BY <1>1, <2>1, <2>2, JudgedBefore
<1>4. AllOK' <=> \A f \in 1..(n + 1) : \A l \in Layers : LayerOK(f, l)'
  BY <1>2 DEF AllOK
<1>5. \A f : f \in 1..(n + 1) <=> f \in 1..n \/ f = n + 1
  BY <1>2
<1>6. AllOK <=> \A f \in 1..n : \A l \in Layers : LayerOK(f, l)
  BY DEF AllOK
<1>7. QED
  BY <1>3, <1>4, <1>5, <1>6

\* What the audit's judgement of the new record comes to.
JudgesNew(rec, tab) ==
    /\ rec.len = Mask(ExpectedView(Forwards + 1), KvLen).total
    /\ rec.physical = Physical(tab, Mask(ExpectedView(Forwards + 1), KvLen).blocks)
    /\ \A p \in rec.positions : rec.slots[p] = SlotOf(tab, p)
    /\ Forwards > 0 => SubSeq(tab, 1, Len(table)) = table

\* That is the judgement of the audit.
LEMMA JudgesNewRecord ==
  ASSUME Typed, Extent, Chained, NEW kind \in Kinds, NEW tab, Step(kind, tab), NEW l \in Layers,
         NEW n, n = Forwards
  PROVE  LayerOK(n + 1, l)' <=> JudgesNew(NewRecord(kind, l, tab), tab)
<1> DEFINE f == n + 1
           rec == NewRecord(kind, l, tab)
           m == Mask(ExpectedView(f), KvLen)
<1>1. layout' = layout /\ script' = script
  BY DEF Step
<1>2. /\ n \in Nat /\ f \in Nat /\ f - 1 = n /\ (f = 1 <=> n = 0)
      /\ (f > 1 <=> n > 0)
      /\ KvLen = layout.prompt + n /\ layout.prompt \in Nat \ {0} /\ KvLen \in Nat \ {0}
      /\ layout.prompt + f - 1 = KvLen /\ layout.prompt + f - 2 = KvLen - 1
  <2> DEFINE p == layout.prompt
  <2>1. n \in Nat /\ p \in Nat \ {0} /\ KvLen = p + n /\ KvLen \in Nat \ {0}
    BY CountFacts
  <2> HIDE DEF p
  <2>2. p + f - 1 = KvLen /\ p + f - 2 = KvLen - 1
    BY <2>1
  <2>3. f \in Nat /\ f - 1 = n /\ (f = 1 <=> n = 0) /\ (f > 1 <=> n > 0)
    BY <2>1
  <2> HIDE DEF f
  <2>4. QED
    BY <2>1, <2>2, <2>3 DEF p
<1>3. /\ structure'[f][l] = rec
      /\ n > 0 => structure'[f - 1] = structure[f - 1]
  <2>1. n > 0 => f - 1 \in 1..n
    BY <1>2
  <2>2. QED
    BY <2>1, StructureGrows
<1>4. ExpectedLen(f) = KvLen
  BY <1>2 DEF ExpectedLen
<1>5. /\ ExpectedView(f)' = ExpectedView(f) /\ ExpectedLen(f)' = ExpectedLen(f)
  BY <1>1, ScriptSame
<1>6. Mask(ExpectedView(f), ExpectedLen(f))' = m
  <2>1. PICK g : g = f
    OBVIOUS
  <2>2. Mask(ExpectedView(g), ExpectedLen(g))' = Mask(ExpectedView(g), ExpectedLen(g))
    BY <1>1, MaskSame
  <2>3. QED
    BY <1>4, <2>1, <2>2
<1>7. rec.positions = BatchPositions /\ rec.canonical = tab
  BY RecordFacts
<1>8. n > 0 => structure[f - 1][l].canonical = table
  BY <1>2 DEF Chained
<1>9. BatchPositions = IF f = 1 THEN 0..(layout.prompt - 1) ELSE {layout.prompt + f - 2}
  BY <1>2 DEF BatchPositions
<1>10. Len(tab) = CeilDiv(KvLen, BlockSize)
  <2>1. TableFor(tab, KvLen)
    BY StepFacts
  <2>2. KvLen - 1 \in Nat /\ BlockSize \in Nat \ {0}
    BY <1>2, CountFacts
  <2>3. CeilDiv(KvLen, BlockSize) \in Nat
    BY <1>2, <2>1, <2>2, SlotFacts, BlockEnds
  <2>4. QED
    BY <2>1, <2>3 DEF TableFor
<1> HIDE DEF rec, m, f
<1>11. LayerOK(f, l)' <=>
         /\ rec.positions = IF f = 1 THEN 0..(layout.prompt - 1) ELSE {layout.prompt + f - 2}
         /\ Len(rec.canonical) = CeilDiv(ExpectedLen(f), BlockSize)
         /\ f > 1 => SubSeq(rec.canonical, 1, Len(structure'[f - 1][l].canonical))
                       = structure'[f - 1][l].canonical
         /\ rec.len = m.total
         /\ rec.physical = [i \in DOMAIN m.blocks |-> rec.canonical[m.blocks[i] + 1]]
         /\ \A p \in rec.positions : rec.slots[p] = SlotOf(rec.canonical, p)
  BY <1>1, <1>3, <1>5, <1>6 DEF LayerOK, SlotOf, f
<1>12. f > 1 => structure'[f - 1][l].canonical = table
  BY <1>2, <1>3, <1>8
<1>13. LayerOK(f, l)' <=>
         /\ f > 1 => SubSeq(tab, 1, Len(table)) = table
         /\ rec.len = m.total
         /\ rec.physical = [i \in DOMAIN m.blocks |-> tab[m.blocks[i] + 1]]
         /\ \A p \in rec.positions : rec.slots[p] = SlotOf(tab, p)
  BY <1>4, <1>7, <1>9, <1>10, <1>11, <1>12
<1>14. JudgesNew(rec, tab) <=>
         /\ n > 0 => SubSeq(tab, 1, Len(table)) = table
         /\ rec.len = m.total
         /\ rec.physical = [i \in DOMAIN m.blocks |-> tab[m.blocks[i] + 1]]
         /\ \A p \in rec.positions : rec.slots[p] = SlotOf(tab, p)
  BY DEF JudgesNew, Physical, m, f
<1>15. QED
  BY <1>2, <1>13, <1>14 DEF f, rec

\* The table chains.
LEMMA ChainedStep ==
  ASSUME Typed, Extent, NEW kind \in Kinds, NEW tab, Step(kind, tab)
  PROVE  Chained'
<1>1. table' = tab /\ Forwards' = Forwards + 1
  BY StructureGrows DEF Step
<1>2. \A l \in Layers : structure'[Forwards + 1][l].canonical = tab
  BY StructureGrows, RecordFacts
<1>3. QED
  BY <1>1, <1>2 DEF Chained

\* The cache of a layer takes what its record says was written.
LEMMA CacheStep ==
  ASSUME Typed, Extent, NEW kind \in Kinds, NEW tab, Step(kind, tab), NEW l \in Layers
  PROVE  cache'[l] = Written(cache[l], NewRecord(kind, l, tab))
<1>1. cache' = [k \in Layers |-> Written(cache[k], Last(structure')[k])]
  BY DEF Step
<1>2. Last(structure')[l] = NewRecord(kind, l, tab)
  BY StructureGrows
<1>3. QED
  BY <1>1, <1>2

\* A forward the audit approves of leaves every position in its slot.
LEMMA StoredNow ==
  ASSUME Typed, Extent, Stored, NEW kind \in Kinds, NEW tab, Step(kind, tab), NEW l \in Layers,
         JudgesNew(NewRecord(kind, l, tab), tab)
  PROVE  \A p \in 0..(KvLen - 1) : cache'[l][SlotOf(tab, p)] = p
<1> DEFINE rec == NewRecord(kind, l, tab)
           b == BlockSize
<1>1. cache'[l] = Written(cache[l], rec)
  BY CacheStep
<1>2. rec.positions = BatchPositions /\ \A p \in BatchPositions : rec.slots[p] = SlotOf(tab, p)
  BY RecordFacts DEF JudgesNew
<1>3. TableFor(tab, KvLen) /\ KvLen \in Nat \ {0} /\ Forwards \in Nat /\ b \in Nat \ {0}
  BY StepFacts, CountFacts
<1>4. /\ BatchPositions \subseteq 0..(KvLen - 1)
      /\ \A p \in 0..(KvLen - 1) : p \notin BatchPositions => Forwards # 0 /\ p \in 0..(KvLen - 2)
  BY BatchFacts
<1>5. /\ \A p \in 0..(KvLen - 1) : SlotOf(tab, p) \in Slots
      /\ \A p, q \in 0..(KvLen - 1) : SlotOf(tab, p) = SlotOf(tab, q) => p = q
  BY <1>3, SlotFacts
<1>6. Forwards > 0 => SubSeq(tab, 1, Len(table)) = table
  BY DEF JudgesNew
<1> HIDE DEF rec
<1>7. ASSUME NEW p \in 0..(KvLen - 1)
      PROVE  cache'[l][SlotOf(tab, p)] =
                IF \E q \in BatchPositions : SlotOf(tab, q) = SlotOf(tab, p)
                THEN CHOOSE q \in BatchPositions : SlotOf(tab, q) = SlotOf(tab, p)
                ELSE cache[l][SlotOf(tab, p)]
  <2> DEFINE s == SlotOf(tab, p)
  <2>1. s \in Slots
    BY <1>5
  <2>2. cache'[l][s] = IF \E q \in rec.positions : rec.slots[q] = s
                       THEN CHOOSE q \in rec.positions : rec.slots[q] = s
                       ELSE cache[l][s]
    BY <1>1, <2>1 DEF Written
  <2>3. \A q : q \in rec.positions /\ rec.slots[q] = s <=> q \in BatchPositions /\ SlotOf(tab, q) = s
    BY <1>2
  <2> HIDE DEF s
  <2>4. (CHOOSE q \in rec.positions : rec.slots[q] = s) = CHOOSE q \in BatchPositions : SlotOf(tab, q) = s
    BY <2>3
  <2>5. QED
    BY <2>2, <2>3, <2>4 DEF s
<1>8. ASSUME NEW p \in 0..(KvLen - 1)
      PROVE  cache'[l][SlotOf(tab, p)] = p
  <2>1. CASE p \in BatchPositions
    <3>1. \A q \in BatchPositions : SlotOf(tab, q) = SlotOf(tab, p) => q = p
      BY <1>4, <1>5
    <3>2. (CHOOSE q \in BatchPositions : SlotOf(tab, q) = SlotOf(tab, p)) = p
      BY <2>1, <3>1
    <3>3. QED
      BY <1>7, <2>1, <3>2
  <2>2. CASE p \notin BatchPositions
    <3>1. Forwards # 0 /\ p \in 0..(KvLen - 2)
      BY <1>4, <2>2
    <3>2. ~\E q \in BatchPositions : SlotOf(tab, q) = SlotOf(tab, p)
      BY <1>4, <1>5, <2>2
    <3>3. cache'[l][SlotOf(tab, p)] = cache[l][SlotOf(tab, p)]
      BY <1>7, <3>2
    <3>4. cache[l][SlotOf(table, p)] = p
      BY <1>3, <3>1 DEF Stored
    <3>5. tab[(p \div b) + 1] = table[(p \div b) + 1]
      <4> DEFINE i == (p \div b) + 1
      <4>1. KvLen - 1 \in Nat \ {0} /\ (KvLen - 1) - 1 = KvLen - 2 /\ p \in Nat /\ p <= KvLen - 2
            /\ KvLen - 2 \in Nat
        BY <1>3, <3>1, CountFacts
      <4>2. Len(table) = ((KvLen - 2) \div b) + 1
        <5>1. Len(table) = CeilDiv(KvLen - 1, b)
          BY <3>1 DEF Extent
        <5>2. CeilDiv(KvLen - 1, b) = (((KvLen - 1) - 1) \div b) + 1
          BY <1>3, <4>1, RoundUp DEF CeilDiv
        <5>3. QED
          BY <4>1, <5>1, <5>2
      <4>3. p \div b <= (KvLen - 2) \div b /\ p \div b \in Nat /\ (KvLen - 2) \div b \in Nat
        BY <1>3, <4>1, BlockOrder, BlockEnds
      <4>4. i \in 1..Len(table)
        <5> DEFINE x == p \div b
                   y == (KvLen - 2) \div b
        <5>1. x \in Nat /\ y \in Nat /\ x <= y /\ Len(table) = y + 1
          BY <4>2, <4>3
        <5> HIDE DEF x, y
        <5>2. x + 1 \in 1..Len(table)
          BY <5>1
        <5>3. QED
          BY <5>2 DEF x
      <4>5. i \in Nat /\ Len(table) \in Nat
        BY <4>2, <4>3
      <4> HIDE DEF i
      <4>6. SubSeq(tab, 1, Len(table))[i] = tab[i]
        BY <4>4, <4>5
      <4>7. SubSeq(tab, 1, Len(table)) = table
        BY <1>3, <1>6, <3>1
      <4>8. QED
        BY <4>6, <4>7 DEF i
    <3>6. SlotOf(tab, p) = SlotOf(table, p)
      BY <3>5 DEF SlotOf
    <3>7. QED
      BY <3>3, <3>4, <3>6
  <2>3. QED
    BY <2>1, <2>2
<1>9. QED
  BY <1>8

\* A forward the audit approves of read what the declarations make visible.
LEMMA ReadNow ==
  ASSUME Typed, Extent, Declares, Stored, NEW kind \in Kinds, NEW tab, Step(kind, tab),
         NEW l \in Layers, JudgesNew(NewRecord(kind, l, tab), tab)
  PROVE  {cache'[l][s] : s \in Dereferenced(NewRecord(kind, l, tab))} = Visible(declared, KvLen)
<1> DEFINE rec == NewRecord(kind, l, tab)
           V == Visible(declared, KvLen)
           m == Mask(declared, KvLen)
           c == cache'[l]
<1>1. rec.len = m.total /\ rec.physical = Physical(tab, m.blocks)
  BY DEF JudgesNew, Declares
<1>2. declared \in Views /\ (declared = Global \/ layout.prompt < KvLen)
  <2>1. CASE Forwards = 0
    <3>1. Forwards + 1 = 1
      BY <2>1
    <3>2. declared = Global
      BY <3>1 DEF Declares, ExpectedView
    <3>3. QED
      BY <3>2 DEF Typed
  <2>2. CASE Forwards # 0
    BY <2>2, CountFacts DEF Typed
  <2>3. QED
    BY <2>1, <2>2
<1>3. Sees(m.blocks, m.total, V, KvLen)
  BY <1>2, ViewSees
<1>4. TableFor(tab, KvLen) /\ KvLen \in Nat \ {0}
  BY StepFacts, CountFacts
<1>5. V \subseteq 0..(KvLen - 1)
  BY DEF Visible, ReferenceVisible
<1>6. Holds(c, tab, V)
  BY <1>5, StoredNow DEF Holds
<1> HIDE DEF c, m, V, rec
<1>7. ReadThrough(c, Physical(tab, m.blocks), m.total) = V
  <2> DEFINE kv == KvLen
             blocks == m.blocks
             total == m.total
  <2>1. kv \in Nat \ {0} /\ TableFor(tab, kv) /\ V \subseteq 0..(kv - 1) /\ Sees(blocks, total, V, kv)
    BY <1>3, <1>4, <1>5
  <2> HIDE DEF kv, blocks, total
  <2>2. ReadThrough(c, Physical(tab, blocks), total) = V
    BY <1>6, <2>1, SeesReads
  <2>3. QED
    BY <2>2 DEF blocks, total
<1>8. Dereferenced(rec) = {SlotOf(Physical(tab, m.blocks), j) : j \in 0..(m.total - 1)}
  BY <1>1 DEF Dereferenced
<1>9. {c[s] : s \in Dereferenced(rec)} = V
  BY <1>7, <1>8 DEF ReadThrough
<1>10. QED
  BY <1>9 DEF c, V, rec

\* A step to an approved forward reads right and stores right.
LEMMA JudgedStep ==
  ASSUME Typed, Extent, Declares, Chained, Judged, NEW kind \in Kinds, NEW tab, Step(kind, tab)
  PROVE  Judged'
<1>1. SUFFICES ASSUME AllOK' PROVE right' /\ Stored'
  BY DEF Judged
<1>2. AllOK /\ \A l \in Layers : JudgesNew(NewRecord(kind, l, tab), tab)
  <2>1. PICK n : n = Forwards
    OBVIOUS
  <2>2. AllOK /\ \A l \in Layers : LayerOK(n + 1, l)'
    BY <1>1, <2>1, AllBefore
  <2>3. QED
    BY <2>1, <2>2, JudgesNewRecord
<1>3. right /\ Stored
  BY <1>2 DEF Judged
<1>4. \A l \in Layers : \A p \in 0..(KvLen - 1) : cache'[l][SlotOf(tab, p)] = p
  BY <1>2, <1>3, StoredNow
<1>5. Stored'
  <2>1. KvLen' - 2 = KvLen - 1 /\ table' = tab
    <3>1. KvLen' = KvLen + 1 /\ KvLen \in Nat /\ table' = tab
      BY StructureGrows, CountFacts DEF Step
    <3>2. (KvLen + 1) - 2 = KvLen - 1
      BY <3>1
    <3>3. QED
      BY <3>1, <3>2
  <2>2. QED
    BY <1>4, <2>1 DEF Stored, SlotOf
<1>6. right'
  <2>1. right' = (right /\ \A l \in Layers :
                    {cache'[l][s] : s \in Dereferenced(Last(structure')[l])} = Visible(declared, KvLen))
    BY DEF Step, Visible
  <2>2. \A l \in Layers : {cache'[l][s] : s \in Dereferenced(Last(structure')[l])} = Visible(declared, KvLen)
    <3>1. ASSUME NEW l \in Layers
          PROVE  {cache'[l][s] : s \in Dereferenced(Last(structure')[l])} = Visible(declared, KvLen)
      <4>1. Last(structure')[l] = NewRecord(kind, l, tab)
        BY StructureGrows
      <4>2. QED
        BY <1>2, <1>3, <4>1, ReadNow
    <3>2. QED
      BY <3>1
  <2>3. QED
    BY <1>3, <2>1, <2>2
<1>7. QED
  BY <1>5, <1>6

\* Nothing has happened at first.
LEMMA SoundStarts ==
  ASSUME Init
  PROVE  SoundInv
<1>1. Typed
  BY TypedStarts
<1>2. /\ structure = <<>> /\ parsed = <<>> /\ overrides = <<>> /\ table = <<>> /\ view = Global
      /\ declared = Global /\ right = TRUE /\ verdict = "none"
  BY DEF Init
<1>3. Forwards = 0 /\ Len(parsed) = 0 /\ Len(overrides) = 0 /\ Len(table) = 0
  BY <1>2 DEF Forwards
<1>4. Extent
  BY <1>1, <1>2, <1>3, CountFacts DEF Extent
<1>5. Declares
  <2>1. Forwards + 1 = 1
    BY <1>3
  <2>2. ExpectedView(Forwards + 1) = Global
    BY <2>1 DEF ExpectedView
  <2>3. QED
    BY <1>2, <2>2 DEF Declares
<1>6. Chained /\ Judged /\ Accepts
  BY <1>2, <1>3 DEF Chained, Judged, Stored, Accepts
<1>7. QED
  BY <1>1, <1>4, <1>5, <1>6 DEF SoundInv

\* A step keeps the invariant.
LEMMA SoundStep ==
  ASSUME SoundInv, NEW kind \in Kinds, NEW tab, Step(kind, tab)
  PROVE  SoundInv'
<1>1. Typed /\ Extent /\ Declares /\ Chained /\ Judged
  BY DEF SoundInv
<1>2. Typed' /\ Extent'
  BY <1>1, TypedStep, ExtentStep
<1>3. Declares' /\ Chained' /\ Judged'
  BY <1>1, StructureGrows, DeclaresStep, ChainedStep, JudgedStep
<1>4. Accepts'
  BY DEF Step, Accepts
<1>5. QED
  BY <1>2, <1>3, <1>4 DEF SoundInv

\* What neither the verdict nor a pause changes.
LEMMA RunUntouched ==
  ASSUME UNCHANGED <<layout, script, view, last, table, cache, structure, overrides, parsed, declared,
                     right, departures>>
  PROVE  /\ verdict' \in {"none", "accepted", "rejected"} => (Typed => Typed')
         /\ (Extent => Extent') /\ (Declares => Declares') /\ (Chained => Chained')
         /\ (Judged => Judged') /\ (AllOK' <=> AllOK)
<1>1. Views' = Views /\ TotalForwards' = TotalForwards
  BY ScriptSame
<1>2. Forwards' = Forwards /\ KvLen' = KvLen
  BY DEF Forwards, KvLen
<1>3. verdict' \in {"none", "accepted", "rejected"} => (Typed => Typed')
  BY <1>1 DEF Typed
<1>4. Extent => Extent'
  BY <1>1, <1>2 DEF Extent
<1>5. ExpectedView(Forwards + 1)' = ExpectedView(Forwards + 1)
  <2>1. Ends' = Ends
    BY DEF Ends
  <2>2. QED
    BY <1>2, <2>1 DEF ExpectedView, ViewOf
<1>6. Declares => Declares'
  BY <1>5 DEF Declares
<1>7. (Chained => Chained') /\ (Stored => Stored')
  BY <1>2 DEF Chained, Stored, SlotOf
<1>8. AllOK' <=> AllOK
  <2>1. ASSUME NEW f, NEW l
        PROVE  LayerOK(f, l)' <=> LayerOK(f, l)
    BY JudgedBefore
  <2>2. QED
    BY <1>2, <2>1 DEF AllOK
<1>9. Judged => Judged'
  BY <1>7, <1>8 DEF Judged
<1>10. QED
  BY <1>3, <1>4, <1>6, <1>7, <1>8, <1>9

\* And so do the verdict and a pause.
LEMMA SoundKept ==
  ASSUME SoundInv, [Next]_vars
  PROVE  SoundInv'
<1>1. ASSUME NEW kind \in Kinds, NEW tab, Step(kind, tab)
      PROVE  SoundInv'
  BY <1>1, SoundStep
<1>2. CASE Audit
  <2>1. UNCHANGED <<layout, script, view, last, table, cache, structure, overrides, parsed, declared,
                    right, departures>>
    BY <1>2 DEF Audit
  <2>2. verdict' \in {"accepted", "rejected"}
    BY <1>2 DEF Audit
  <2>3. verdict' = "accepted" => AllOK
    <3>1. ASSUME verdict' = "accepted"
          PROVE  \A f \in DOMAIN structure : \A l \in AuditedLayers : LayerOK(f, l)
      BY <1>2, <3>1 DEF Audit
    <3>2. DOMAIN structure = 1..Forwards
      BY CountFacts DEF SoundInv
    <3>3. QED
      BY <3>1, <3>2 DEF AllOK, AuditedLayers
  <2>4. Accepts'
    BY <2>1, <2>3, RunUntouched DEF Accepts
  <2>5. QED
    BY <2>1, <2>2, <2>4, RunUntouched DEF SoundInv
<1>3. CASE UNCHANGED vars
  <2>1. UNCHANGED <<layout, script, view, last, table, cache, structure, overrides, parsed, declared,
                    right, departures>> /\ verdict' = verdict
    BY <1>3 DEF vars
  <2>2. verdict' \in {"none", "accepted", "rejected"}
    BY <2>1 DEF SoundInv, Typed
  <2>3. Accepts'
    BY <2>1, RunUntouched DEF SoundInv, Accepts
  <2>4. QED
    BY <2>1, <2>2, <2>3, RunUntouched DEF SoundInv
<1>4. QED
  BY <1>1, <1>2, <1>3 DEF Next

\* In every run SoundInv holds: whatever the engine departs from, the forwards
\* check_capture_structure approves of were right and left every position in its slot.
THEOREM SoundHolds == Spec => []SoundInv
<1>1. Init => SoundInv
  BY SoundStarts
<1>2. SoundInv /\ [Next]_vars => SoundInv'
  BY SoundKept
<1>3. QED
  BY <1>1, <1>2, PTL DEF Spec

\* An accepted run read in every forward and every layer exactly the positions
\* its declarations make visible, for every script, layout, block size and
\* number of departures.
THEOREM AuditIsSound == Spec => []AuditSound
<1>1. SoundInv => AuditSound
  BY DEF SoundInv, Accepts, Judged, AuditSound
<1>2. QED
  BY <1>1, SoundHolds, PTL

-----------------------------------------------------------------------------
(* Runs without departures.                                                *)

\* The engine is at the view the tokens stand for.
Follows == departures = 0 => view = declared

\* The audit approves of every forward.
Passes == departures = 0 => AllOK

\* Record i is that of token i - 1, with the view of the forward that consumes it.
Parses == departures = 0 =>
    \A i \in 1..Forwards :
        parsed[i] = [parse |-> i - 1, effect |-> i, view |-> ExpectedView(i + 1)]

\* The steps that should have an override, of the first n forwards.
RestrictedSteps(n) == {f - 1 : f \in {g \in 1..n : ExpectedView(g) # Global}}

\* An override tells what the audit expects of its forward.
TellsMask(e) ==
    LET mask == Mask(ExpectedView(e.step + 1), ExpectedLen(e.step + 1))
    IN  e.blocks = mask.blocks /\ e.len = mask.total

\* The overrides are those of the restricted forwards, in order, each the mask.
Tells == departures = 0 =>
    /\ Lists([i \in 1..Len(overrides) |-> overrides[i].step], Len(overrides), RestrictedSteps(Forwards))
    /\ \A i \in 1..Len(overrides) : TellsMask(overrides[i])

\* The inductive invariant of completeness.
CompleteInv == SoundInv /\ Follows /\ Passes /\ Parses /\ Tells /\ AuditComplete

\* A run without departures takes only plain steps.
LEMMA FaithfulStep ==
  ASSUME Typed, NEW kind \in Kinds, NEW tab, Step(kind, tab), departures' = 0
  PROVE  departures = 0 /\ kind = "none"
<1>1. departures \in 0..MaxDepartures
  BY DEF Typed
<1>2. departures' = IF kind = "none" THEN departures ELSE departures + 1
  BY DEF Step
<1>3. MaxDepartures \in Nat
  BY DiagnosticAssumption
<1>4. QED
  BY <1>1, <1>2, <1>3

\* Then the parse leads the engine where the tokens lead.
LEMMA FollowsStep ==
  ASSUME Typed, Follows, Declares, NEW kind \in Kinds, NEW tab, Step(kind, tab), departures' = 0
  PROVE  view' = declared' /\ view' = ExpectedView(Forwards + 2)
<1>1. departures = 0 /\ kind = "none"
  BY FaithfulStep
<1>2. view' = After(view, Forwards) /\ declared' = After(declared, Forwards)
  BY <1>1 DEF Step
<1>3. view = declared /\ declared = ExpectedView(Forwards + 1)
  BY <1>1 DEF Follows, Declares
<1>4. After(ExpectedView(Forwards + 1), Forwards) = ExpectedView(Forwards + 2)
  BY CountFacts, AfterIsNext DEF Typed
<1>5. QED
  BY <1>2, <1>3, <1>4

\* Then the audit approves of the new forward.
LEMMA PassesStep ==
  ASSUME SoundInv, Follows, Passes, NEW kind \in Kinds, NEW tab, Step(kind, tab), departures' = 0
  PROVE  AllOK'
<1>1. Typed /\ Extent /\ Chained /\ Declares
  BY DEF SoundInv
<1>2. departures = 0 /\ kind = "none"
  BY <1>1, FaithfulStep
<1>3. AllOK
  BY <1>2 DEF Passes
<1>4. ASSUME NEW l \in Layers
      PROVE  JudgesNew(NewRecord(kind, l, tab), tab)
  <2> DEFINE rec == NewRecord(kind, l, tab)
             v == IF kind = "layer" /\ l = OddLayer THEN Global ELSE Shown(kind)
  <2>1. v = ExpectedView(Forwards + 1)
    BY <1>1, <1>2 DEF Follows, Declares, Shown
  <2>2. /\ rec.positions = BatchPositions
        /\ rec.physical = Physical(tab, Mask(v, KvLen).blocks) /\ rec.len = Mask(v, KvLen).total
        /\ \A p \in BatchPositions : rec.slots[p] = SlotOf(tab, p)
    BY <1>1, <1>2, RecordFacts
  <2>3. SubSeq(tab, 1, Len(table)) = table
    BY <1>2 DEF Step, Grows
  <2> HIDE DEF rec, v
  <2>4. JudgesNew(rec, tab)
    BY <2>1, <2>2, <2>3 DEF JudgesNew
  <2>5. QED
    BY <2>4 DEF rec
<1>5. PICK n : n = Forwards
  OBVIOUS
<1>6. \A l \in Layers : LayerOK(n + 1, l)'
  BY <1>1, <1>4, <1>5, JudgesNewRecord
<1>7. QED
  BY <1>1, <1>3, <1>5, <1>6, AllBefore

\* Then the parse is recorded as the audit expects.
LEMMA ParsesStep ==
  ASSUME SoundInv, Follows, Parses, NEW kind \in Kinds, NEW tab, Step(kind, tab), departures' = 0
  PROVE  Parses'
<1>1. Typed /\ Extent /\ Declares
  BY DEF SoundInv
<1>2. departures = 0 /\ view' = ExpectedView(Forwards + 2)
  BY <1>1, FaithfulStep, FollowsStep
<1>3. PICK n \in Nat : n = Forwards
  BY <1>1, CountFacts
<1> DEFINE e == [parse |-> n, effect |-> n + 1, view |-> ExpectedView(n + 2)]
           T == [parse : Nat, effect : Nat, view : Views]
<1>4. parsed' = Append(parsed, e) /\ parsed \in Seq(T) /\ Len(parsed) = n
  BY <1>1, <1>2, <1>3 DEF Step, Typed, Extent
<1>5. e \in T
  <2>1. ExpectedView(n + 2) \in Views
    BY <1>1, <1>3, ExpectedViews DEF Typed
  <2>2. QED
    BY <2>1
<1>6. Forwards' = n + 1
  BY <1>1, <1>3, StructureGrows
<1>7. layout' = layout /\ script' = script
  BY DEF Step
<1>8. \A i : ExpectedView(i)' = ExpectedView(i)
  BY <1>7, ScriptSame
<1>9. \A i \in 1..n : parsed[i] = [parse |-> i - 1, effect |-> i, view |-> ExpectedView(i + 1)]
  BY <1>2, <1>3 DEF Parses
<1>10. n = (n + 1) - 1 /\ n + 2 = (n + 1) + 1
  BY <1>3
<1>11. e = [parse |-> (n + 1) - 1, effect |-> n + 1, view |-> ExpectedView((n + 1) + 1)]
  BY <1>10
<1> HIDE DEF e, T
<1>12. (\A i \in 1..n : parsed'[i] = parsed[i]) /\ parsed'[n + 1] = e
  BY <1>4, <1>5, AppendIs
<1>13. ASSUME NEW i \in 1..(n + 1)
       PROVE  parsed'[i] = [parse |-> i - 1, effect |-> i, view |-> ExpectedView(i + 1)]
  <2>1. CASE i \in 1..n
    BY <1>9, <1>12, <2>1
  <2>2. CASE i = n + 1
    BY <1>11, <1>12, <2>2
  <2>3. QED
    BY <2>1, <2>2
<1>14. QED
  BY <1>6, <1>8, <1>13 DEF Parses

\* A later step goes to the end of the list.
LEMMA ListsMore ==
  ASSUME NEW n \in Nat, NEW S, S \subseteq Nat, NEW s, Lists(s, n, S), NEW x \in Nat,
         \A y \in S : y < x, NEW t, t = [i \in 1..(n + 1) |-> IF i = n + 1 THEN x ELSE s[i]]
  PROVE  Lists(t, n + 1, S \cup {x})
<1>1. /\ s \in [1..n -> S]
      /\ \A i, j \in 1..n : i < j => s[i] < s[j]
      /\ \A y \in S : \E i \in 1..n : s[i] = y
  BY DEF Lists
<1>2. /\ \A i \in 1..n : i \in 1..(n + 1) /\ i # n + 1 /\ t[i] = s[i]
      /\ n + 1 \in 1..(n + 1) /\ t[n + 1] = x
      /\ \A i \in 1..(n + 1) : i \in 1..n \/ i = n + 1
  OBVIOUS
<1>3. t \in [1..(n + 1) -> S \cup {x}]
  BY <1>1, <1>2
<1>4. ASSUME NEW i \in 1..(n + 1), NEW j \in 1..(n + 1), i < j
      PROVE  t[i] < t[j]
  <2>1. i \in 1..n
    BY <1>4
  <2>2. CASE j \in 1..n
    BY <1>1, <1>2, <1>4, <2>1, <2>2
  <2>3. CASE j = n + 1
    BY <1>1, <1>2, <2>1, <2>3
  <2>4. QED
    BY <1>2, <2>2, <2>3
<1>5. ASSUME NEW y \in S \cup {x}
      PROVE  \E i \in 1..(n + 1) : t[i] = y
  BY <1>1, <1>2
<1>6. QED
  BY <1>3, <1>4, <1>5 DEF Lists

\* Then the override is recorded when the audit expects one, and only then.
LEMMA TellsStep ==
  ASSUME SoundInv, Follows, Tells, NEW kind \in Kinds, NEW tab, Step(kind, tab), departures' = 0
  PROVE  Tells'
<1>1. Typed /\ Extent /\ Declares
  BY DEF SoundInv
<1>2. departures = 0 /\ kind = "none"
  BY <1>1, FaithfulStep
<1>3. PICK n \in Nat : n = Forwards
  BY <1>1, CountFacts
<1> DEFINE v == ExpectedView(n + 1)
           plan == Plan(v.mode, v.refs, layout, KvLen, BlockSize)
           e == [step |-> n, blocks |-> plan.blocks, len |-> plan.seqused]
           T == [step : Nat, blocks : Seq(Nat), len : Nat]
           k == Len(overrides)
           S == RestrictedSteps(n)
           steps == [i \in 1..k |-> overrides[i].step]
<1>4. Shown(kind) = v
  BY <1>2, <1>3, <1>1 DEF Shown, Follows, Declares
<1>5. overrides' = IF v = Global THEN overrides ELSE Append(overrides, e)
  BY <1>2, <1>3, <1>4 DEF Step
<1>6. overrides \in Seq(T) /\ k \in Nat
  BY <1>1 DEF Typed
<1>7. Lists(steps, k, S) /\ \A i \in 1..k : TellsMask(overrides[i])
  BY <1>2, <1>3 DEF Tells
<1>8. layout' = layout /\ script' = script /\ Forwards' = n + 1
  BY <1>1, <1>3, StructureGrows DEF Step
<1>9. \A f : ExpectedView(f)' = ExpectedView(f)
  BY <1>8, ScriptSame
<1>10. \A x : TellsMask(x)' <=> TellsMask(x)
  <2>1. ASSUME NEW x
        PROVE  TellsMask(x)' <=> TellsMask(x)
    <3>1. PICK f : f = x.step + 1
      OBVIOUS
    <3>2. Mask(ExpectedView(f), ExpectedLen(f))' = Mask(ExpectedView(f), ExpectedLen(f))
      BY <1>8, MaskSame
    <3>3. QED
      BY <3>1, <3>2 DEF TellsMask
  <2>2. QED
    BY <2>1
<1>11. RestrictedSteps(n + 1) = IF v = Global THEN S ELSE S \cup {n}
  <2>1. \A f : f \in 1..(n + 1) <=> f \in 1..n \/ f = n + 1
    OBVIOUS
  <2>2. (n + 1) - 1 = n
    OBVIOUS
  <2>3. CASE v = Global
    BY <2>1, <2>3 DEF RestrictedSteps
  <2>4. CASE v # Global
    <3>1. {g \in 1..(n + 1) : ExpectedView(g) # Global}
            = {g \in 1..n : ExpectedView(g) # Global} \cup {n + 1}
      BY <2>1, <2>4
    <3>2. RestrictedSteps(n + 1) = {f - 1 : f \in {g \in 1..n : ExpectedView(g) # Global} \cup {n + 1}}
      BY <3>1 DEF RestrictedSteps
    <3>3. S = {f - 1 : f \in {g \in 1..n : ExpectedView(g) # Global}}
      BY DEF RestrictedSteps
    <3> DEFINE G == {g \in 1..n : ExpectedView(g) # Global}
    <3> HIDE DEF G, S, v
    <3>4. {f - 1 : f \in G \cup {n + 1}} = {f - 1 : f \in G} \cup {n}
      BY <2>2
    <3>5. QED
      BY <2>4, <3>2, <3>3, <3>4 DEF G
  <2>5. QED
    BY <2>3, <2>4
<1>12. S \subseteq Nat /\ \A y \in S : y < n
  BY DEF RestrictedSteps
<1>13. /\ Lists([i \in 1..Len(overrides') |-> overrides'[i].step], Len(overrides'), RestrictedSteps(n + 1))
       /\ \A i \in 1..Len(overrides') : TellsMask(overrides'[i])
  <2>1. CASE v = Global
    BY <1>5, <1>7, <1>11, <2>1
  <2>2. CASE v # Global
    <3>1. layout.prompt < KvLen /\ v \in Views
      <4>1. v \in Views
        BY <1>1, <1>3, ExpectedViews DEF Typed
      <4>2. Forwards # 0
        BY <1>4, <2>2, StepFacts, <1>1
      <4>3. QED
        BY <1>1, <4>1, <4>2, CountFacts
    <3>2. plan.blocks \in Seq(Nat) /\ plan.seqused \in Nat
      <4> HIDE DEF v
      <4>1. QED
        BY <1>1, <3>1, PlanTyped
    <3>3. ExpectedLen(n + 1) = KvLen
      BY <1>1, <1>3, CountFacts DEF ExpectedLen
    <3>4. plan.blocks = Mask(v, KvLen).blocks /\ plan.seqused = Mask(v, KvLen).total
      <4> HIDE DEF v
      <4>1. QED
        BY <1>1, <3>1, CountFacts, PlanIsMask DEF Typed
    <3> HIDE DEF plan
    <3>5. e \in T /\ TellsMask(e)
      BY <3>2, <3>3, <3>4 DEF TellsMask
    <3>6. e.step = n
      OBVIOUS
    <3> HIDE DEF e, T, S, v
    <3>7. /\ Len(overrides') = k + 1
          /\ \A i \in 1..k : overrides'[i] = overrides[i]
          /\ overrides'[k + 1] = e
      BY <1>5, <1>6, <2>2, <3>5, AppendIs
    <3> DEFINE t == [i \in 1..(k + 1) |-> IF i = k + 1 THEN n ELSE steps[i]]
    <3>8. [i \in 1..Len(overrides') |-> overrides'[i].step] = t
      <4>1. ASSUME NEW i \in 1..(k + 1)
            PROVE  overrides'[i].step = IF i = k + 1 THEN n ELSE steps[i]
        <5>1. CASE i = k + 1
          BY <3>6, <3>7, <5>1
        <5>2. CASE i # k + 1
          <6>1. i \in 1..k
            BY <1>6, <5>2
          <6>2. QED
            BY <3>7, <5>2, <6>1
        <5>3. QED
          BY <5>1, <5>2
      <4>2. QED
        BY <3>7, <4>1
    <3>9. Lists(t, k + 1, S \cup {n})
      <4> DEFINE u == t
      <4>1. u = [i \in 1..(k + 1) |-> IF i = k + 1 THEN n ELSE steps[i]]
        OBVIOUS
      <4> HIDE DEF u, steps, k
      <4>2. Lists(u, k + 1, S \cup {n})
        BY <1>6, <1>7, <1>12, <4>1, ListsMore
      <4>3. QED
        BY <4>2 DEF u, steps, k
    <3> HIDE DEF t
    <3>10. \A i \in 1..Len(overrides') : TellsMask(overrides'[i])
      <4>1. \A i \in 1..(k + 1) : i \in 1..k \/ i = k + 1
        BY <1>6
      <4>2. QED
        BY <1>7, <3>5, <3>7, <4>1
    <3>11. QED
      BY <1>11, <2>2, <3>7, <3>8, <3>9, <3>10
  <2>3. QED
    BY <2>1, <2>2
<1>14. RestrictedSteps(Forwards)' = RestrictedSteps(n + 1)
  BY <1>8, <1>9 DEF RestrictedSteps
<1>15. QED
  BY <1>10, <1>13, <1>14 DEF Tells

-----------------------------------------------------------------------------
(* The audit accepts them, and the accounts agree.                         *)

\* What a run without departures is, the audit approves of.
LEMMA FaithfulPasses ==
  ASSUME CompleteInv, departures = 0
  PROVE  /\ \A f \in DOMAIN structure : \A l \in AuditedLayers : LayerOK(f, l)
         /\ OverridesOK /\ ParsedOK
<1>1. /\ Typed /\ Extent /\ AllOK
      /\ \A i \in 1..Forwards :
            parsed[i] = [parse |-> i - 1, effect |-> i, view |-> ExpectedView(i + 1)]
  BY DEF CompleteInv, SoundInv, Passes, Parses
<1>2. Forwards \in Nat /\ DOMAIN structure = 1..Forwards
  BY <1>1, CountFacts
<1>3. \A f \in DOMAIN structure : \A l \in AuditedLayers : LayerOK(f, l)
  BY <1>1, <1>2 DEF AllOK, AuditedLayers
<1>4. OverridesOK
  <2> DEFINE k == Len(overrides)
             S == RestrictedSteps(Forwards)
             steps == [i \in 1..k |-> overrides[i].step]
  <2>1. Lists(steps, k, S) /\ \A i \in 1..k : TellsMask(overrides[i])
    BY DEF CompleteInv, Tells
  <2>2. k \in Nat /\ DOMAIN overrides = 1..k
    BY <1>1 DEF Typed
  <2>3. S \subseteq Nat
    BY <1>2 DEF RestrictedSteps
  <2>4. S = {f - 1 : f \in Restricted}
    BY <1>2 DEF RestrictedSteps, Restricted
  <2>5. [i \in DOMAIN overrides |-> overrides[i].step] = steps
    BY <2>2
  <2> HIDE DEF S, steps
  <2>6. InOrder(S) = steps
    BY <2>1, <2>2, <2>3, InOrderIs
  <2>7. [i \in DOMAIN overrides |-> overrides[i].step] = InOrder({f - 1 : f \in Restricted})
    BY <2>4, <2>5, <2>6
  <2>8. \A i \in DOMAIN overrides :
           LET f == overrides[i].step + 1
               mask == Mask(ExpectedView(f), ExpectedLen(f))
           IN  overrides[i].blocks = mask.blocks /\ overrides[i].len = mask.total
    BY <2>1, <2>2 DEF TellsMask
  <2>9. QED
    BY <2>7, <2>8 DEF OverridesOK
<1>5. ParsedOK
  <2>1. parsed \in Seq([parse : Nat, effect : Nat, view : Views]) /\ Len(parsed) = Forwards
    BY <1>1 DEF Typed, Extent
  <2>2. DOMAIN parsed = 1..Forwards
    BY <2>1
  <2>3. [i \in DOMAIN parsed |-> parsed[i].parse] = [i \in DOMAIN structure |-> i - 1]
    <3>1. ASSUME NEW i \in 1..Forwards
          PROVE  parsed[i].parse = i - 1
      <4>1. parsed[i] = [parse |-> i - 1, effect |-> i, view |-> ExpectedView(i + 1)]
        BY <1>1
      <4>2. QED
        BY <4>1
    <3>2. QED
      BY <1>2, <2>2, <3>1
  <2>4. ASSUME NEW f \in DOMAIN structure \ {1}
        PROVE  parsed[f - 1].effect = f - 1 /\ parsed[f - 1].view = ExpectedView(f)
    <3>1. PICK i \in 1..Forwards : f = i + 1
      <4>1. f - 1 \in 1..Forwards /\ f = (f - 1) + 1
        BY <1>2
      <4>2. QED
        BY <4>1
    <3>2. f - 1 = i
      BY <1>2, <3>1
    <3>3. parsed[i].effect = i /\ parsed[i].view = ExpectedView(i + 1)
      <4>1. parsed[i] = [parse |-> i - 1, effect |-> i, view |-> ExpectedView(i + 1)]
        BY <1>1
      <4>2. QED
        BY <4>1
    <3>4. QED
      BY <3>1, <3>2, <3>3
  <2>5. QED
    BY <2>3, <2>4 DEF ParsedOK
<1>6. QED
  BY <1>3, <1>4, <1>5

\* Whether a script is fit for the audit is settled by what was run.
LEMMA ScriptOKSame ==
  ASSUME UNCHANGED <<layout, script, structure>>
  PROVE  ScriptOK' <=> ScriptOK
<1>1. TotalForwards' = TotalForwards /\ \A f : ExpectedView(f)' = ExpectedView(f)
  BY ScriptSame
<1>2. Restricted' = Restricted
  BY <1>1 DEF Restricted
<1>3. ExpectedView(TotalForwards)' = ExpectedView(TotalForwards)
  <2>1. Ends' = Ends
    BY DEF Ends
  <2>2. QED
    BY <1>1, <2>1 DEF ExpectedView, ViewOf
<1>4. QED
  BY <1>2, <1>3 DEF ScriptOK

\* What neither the verdict nor a pause changes of a run without departures.
LEMMA FaithfulUntouched ==
  ASSUME UNCHANGED <<layout, script, view, last, table, cache, structure, overrides, parsed, declared,
                     right, departures>>
  PROVE  (Follows => Follows') /\ (Passes => Passes') /\ (Parses => Parses') /\ (Tells => Tells')
<1>1. Forwards' = Forwards /\ \A f : ExpectedView(f)' = ExpectedView(f)
  BY ScriptSame DEF Forwards
<1>2. (Follows => Follows') /\ (Passes => Passes')
  BY RunUntouched DEF Follows, Passes
<1>3. Parses => Parses'
  BY <1>1 DEF Parses
<1>4. \A x : TellsMask(x)' <=> TellsMask(x)
  <2>1. ASSUME NEW x
        PROVE  TellsMask(x)' <=> TellsMask(x)
    <3>1. PICK f : f = x.step + 1
      OBVIOUS
    <3>2. Mask(ExpectedView(f), ExpectedLen(f))' = Mask(ExpectedView(f), ExpectedLen(f))
      BY MaskSame
    <3>3. QED
      BY <3>1, <3>2 DEF TellsMask
  <2>2. QED
    BY <2>1
<1>5. RestrictedSteps(Forwards)' = RestrictedSteps(Forwards)
  BY <1>1 DEF RestrictedSteps
<1>6. Tells => Tells'
  BY <1>4, <1>5 DEF Tells
<1>7. QED
  BY <1>2, <1>3, <1>6

\* Nothing has happened at first.
LEMMA CompleteStarts ==
  ASSUME Init
  PROVE  CompleteInv
<1>1. SoundInv
  BY SoundStarts
<1>2. /\ structure = <<>> /\ overrides = <<>> /\ view = Global /\ declared = Global /\ verdict = "none"
  BY DEF Init
<1>3. Forwards = 0 /\ Len(overrides) = 0
  BY <1>2 DEF Forwards
<1>4. Follows /\ Passes /\ Parses /\ AuditComplete
  BY <1>2, <1>3 DEF Follows, Passes, AllOK, Parses, AuditComplete
<1>5. RestrictedSteps(Forwards) = {}
  BY <1>3 DEF RestrictedSteps
<1>6. Tells
  BY <1>3, <1>5 DEF Tells, Lists
<1>7. QED
  BY <1>1, <1>4, <1>6 DEF CompleteInv

\* No step, verdict or pause ends the invariant.
LEMMA CompleteKept ==
  ASSUME CompleteInv, [Next]_vars
  PROVE  CompleteInv'
<1>1. SoundInv /\ SoundInv'
  BY SoundKept DEF CompleteInv
<1>2. ASSUME NEW kind \in Kinds, NEW tab, Step(kind, tab)
      PROVE  CompleteInv'
  <2>1. SoundInv /\ Follows /\ Passes /\ Parses /\ Tells /\ Typed
    BY DEF CompleteInv, SoundInv
  <2>2. departures' = 0 => Passes' /\ Parses' /\ Tells' /\ Follows'
    <3>1. ASSUME departures' = 0
          PROVE  AllOK' /\ Parses' /\ Tells' /\ view' = declared'
      BY <1>2, <2>1, <3>1, PassesStep, ParsesStep, TellsStep, FollowsStep DEF SoundInv
    <3>2. QED
      BY <3>1 DEF Passes, Follows
  <2>3. departures' # 0 => Passes' /\ Parses' /\ Tells' /\ Follows'
    BY DEF Passes, Parses, Tells, Follows
  <2>4. verdict' = "none"
    BY <1>2 DEF Step
  <2>5. AuditComplete'
    BY <2>4 DEF AuditComplete
  <2>6. QED
    BY <1>1, <2>2, <2>3, <2>5 DEF CompleteInv
<1>3. CASE Audit
  <2>1. UNCHANGED <<layout, script, view, last, table, cache, structure, overrides, parsed, declared,
                    right, departures>>
    BY <1>3 DEF Audit
  <2>2. Follows' /\ Passes' /\ Parses' /\ Tells'
    BY <2>1, FaithfulUntouched DEF CompleteInv
  <2>3. ScriptOK' <=> ScriptOK
    BY <2>1, ScriptOKSame
  <2>4. ASSUME verdict' = "rejected", departures' = 0
        PROVE  ~ScriptOK'
    <3>1. /\ \A f \in DOMAIN structure : \A l \in AuditedLayers : LayerOK(f, l)
          /\ OverridesOK /\ ParsedOK
      BY <2>1, <2>4, FaithfulPasses
    <3>2. ~((\A f \in DOMAIN structure : \A l \in AuditedLayers : LayerOK(f, l))
             /\ OverridesOK /\ ParsedOK /\ ScriptOK)
      BY <1>3, <2>4 DEF Audit
    <3>3. QED
      BY <2>3, <3>1, <3>2
  <2>5. AuditComplete'
    BY <2>4 DEF AuditComplete
  <2>6. QED
    BY <1>1, <2>2, <2>5 DEF CompleteInv
<1>4. CASE UNCHANGED vars
  <2>1. UNCHANGED <<layout, script, view, last, table, cache, structure, overrides, parsed, declared,
                    right, departures>> /\ verdict' = verdict
    BY <1>4 DEF vars
  <2>2. Follows' /\ Passes' /\ Parses' /\ Tells'
    BY <2>1, FaithfulUntouched DEF CompleteInv
  <2>3. ScriptOK' <=> ScriptOK
    BY <2>1, ScriptOKSame
  <2>4. AuditComplete'
    BY <2>1, <2>3 DEF CompleteInv, AuditComplete
  <2>5. QED
    BY <1>1, <2>2, <2>4 DEF CompleteInv
<1>5. QED
  BY <1>2, <1>3, <1>4 DEF Next

\* In every run CompleteInv holds: without departures the engine follows the
\* declarations, the audit approves of every forward, and the parser's records
\* and the overrides are the ones it expects.
THEOREM CompleteHolds == Spec => []CompleteInv
<1>1. Init => CompleteInv
  BY CompleteStarts
<1>2. CompleteInv /\ [Next]_vars => CompleteInv'
  BY CompleteKept
<1>3. QED
  BY <1>1, <1>2, PTL DEF Spec

\* A run without departures is rejected only for a script that is not fit for
\* the audit: check_capture_structure raises no false alarm.
THEOREM AuditIsComplete == Spec => []AuditComplete
<1>1. CompleteInv => AuditComplete
  BY DEF CompleteInv
<1>2. QED
  BY <1>1, CompleteHolds, PTL

-----------------------------------------------------------------------------
\* The invariant implies the type invariant.
LEMMA TypesAgree ==
  ASSUME SoundInv
  PROVE  TypeOK
<1>1. Typed /\ Extent
  BY DEF SoundInv
<1>2. ToSet(table) \subseteq PhysBlocks /\ IsInjective(table)
  <2>1. table \in Seq(PhysBlocks)
    BY <1>1 DEF Typed
  <2>2. QED
    BY <1>1, <2>1 DEF Typed, ToSet
<1>3. \A f \in DOMAIN structure : \A l \in Layers :
         LET rec == structure[f][l] IN Len(rec.physical) = CeilDiv(rec.len, BlockSize)
  <2>1. DOMAIN structure = 1..Forwards
    BY <1>1, CountFacts
  <2>2. QED
    BY <1>1, <2>1 DEF Extent
<1>4. QED
  BY <1>1, <1>2, <1>3 DEF TypeOK, Typed, Extent

\* And that the step trace tells the last forward.
LEMMA TraceIsRight ==
  ASSUME CompleteInv
  PROVE  TraceTellsForwards
<1>1. SUFFICES ASSUME departures = 0, Forwards > 1
               PROVE  \E row \in {Row(Forwards - 1)} :
                      \E plan \in {Plan(row.view.mode, row.view.refs, layout, row.kvLen, BlockSize)} :
                        \A l \in Layers :
                          LET rec == structure[Forwards][l]
                          IN  /\ rec.len = plan.seqused
                              /\ rec.physical = [i \in DOMAIN plan.blocks |->
                                                    rec.canonical[plan.blocks[i] + 1]]
                              /\ rec.positions = {row.write}
  BY DEF TraceTellsForwards
<1>2. /\ Typed /\ Extent /\ AllOK
      /\ \A i \in 1..Forwards :
            parsed[i] = [parse |-> i - 1, effect |-> i, view |-> ExpectedView(i + 1)]
  BY <1>1 DEF CompleteInv, SoundInv, Passes, Parses
<1>3. PICK n \in Nat : n = Forwards /\ n > 1
  BY <1>1, <1>2, CountFacts
<1>4. PICK d \in Nat : d + 1 = n /\ d \in 1..n /\ d = n - 1
  <2>1. n - 1 \in Nat /\ (n - 1) + 1 = n /\ n - 1 \in 1..n
    BY <1>3
  <2>2. QED
    BY <2>1
<1> DEFINE v == ExpectedView(n)
           kv == layout.prompt + d
           row == Row(Forwards - 1)
           plan == Plan(v.mode, v.refs, layout, kv, BlockSize)
<1>5. layout.prompt \in Nat \ {0} /\ kv \in Nat /\ layout.prompt < kv /\ ExpectedLen(n) = kv
      /\ layout.prompt + n - 2 = kv - 1
  <2> DEFINE p == layout.prompt
  <2>1. p \in Nat \ {0}
    BY <1>2, CountFacts
  <2> HIDE DEF p
  <2>2. p + d \in Nat /\ p < p + d /\ p + n - 1 = p + d /\ p + n - 2 = (p + d) - 1
    BY <1>3, <1>4, <2>1
  <2>3. QED
    BY <2>1, <2>2 DEF p, ExpectedLen
<1>6. row = [view |-> v, kvLen |-> kv, write |-> kv - 1]
  <2>1. parsed \in Seq([parse : Nat, effect : Nat, view : Views]) /\ Len(parsed) = n
    BY <1>2, <1>3 DEF Typed, Extent
  <2>2. ToSet(parsed) = {parsed[i] : i \in 1..n}
    BY <2>1 DEF ToSet
  <2>3. ASSUME NEW i \in 1..n
        PROVE  RowOf(parsed[i]) = i
    <3>1. parsed[i] = [parse |-> i - 1, effect |-> i, view |-> ExpectedView(i + 1)]
      BY <1>2, <1>3
    <3>2. parsed[i].parse = i - 1 /\ (i - 1) + 1 = i
      BY <3>1
    <3>3. QED
      BY <3>2 DEF RowOf
  <2>4. (CHOOSE r \in ToSet(parsed) : RowOf(r) = d) = parsed[d]
    <3>1. parsed[d] \in ToSet(parsed) /\ RowOf(parsed[d]) = d
      BY <1>4, <2>2, <2>3
    <3>2. \A r \in ToSet(parsed) : RowOf(r) = d => r = parsed[d]
      BY <2>2, <2>3
    <3>3. QED
      BY <3>1, <3>2
  <2>5. parsed[d].view = v
    <3>1. parsed[d] = [parse |-> d - 1, effect |-> d, view |-> ExpectedView(d + 1)]
      BY <1>2, <1>3, <1>4
    <3>2. QED
      BY <1>4, <3>1
  <2>6. Row(d) = [view |-> v, kvLen |-> layout.prompt + d, write |-> layout.prompt + d - 1]
    BY <2>4, <2>5 DEF Row
  <2>7. layout.prompt + d - 1 = kv - 1
    BY <1>4, <1>5
  <2>8. Forwards - 1 = d
    BY <1>3, <1>4
  <2>9. QED
    BY <2>6, <2>7, <2>8
<1>7. plan.blocks = Mask(v, kv).blocks /\ plan.seqused = Mask(v, kv).total
  <2>1. v \in Views
    BY <1>2, <1>3, ExpectedViews DEF Typed
  <2> HIDE DEF v, kv
  <2>2. QED
    BY <1>2, <1>5, <2>1, PlanIsMask DEF Typed
<1>8. ASSUME NEW l \in Layers
      PROVE  /\ structure[n][l].len = plan.seqused
             /\ structure[n][l].physical = [i \in DOMAIN plan.blocks |->
                                               structure[n][l].canonical[plan.blocks[i] + 1]]
             /\ structure[n][l].positions = {kv - 1}
  <2>1. LayerOK(n, l)
    <3>1. n \in 1..Forwards
      BY <1>3
    <3>2. QED
      BY <1>2, <3>1 DEF AllOK
  <2>2. /\ structure[n][l].positions = {layout.prompt + n - 2}
        /\ structure[n][l].len = Mask(v, kv).total
        /\ structure[n][l].physical = [i \in DOMAIN Mask(v, kv).blocks |->
                                         structure[n][l].canonical[Mask(v, kv).blocks[i] + 1]]
    <3>1. n # 1
      BY <1>3
    <3>2. QED
      BY <1>5, <2>1, <3>1 DEF LayerOK
  <2> HIDE DEF plan, v, kv
  <2>3. QED
    BY <1>5, <1>7, <2>2
<1>9. row.view = v /\ row.kvLen = kv /\ row.write = kv - 1
  BY <1>6
<1> HIDE DEF row, v, kv
<1>10. QED
  BY <1>3, <1>8, <1>9 DEF row

\* The reference's timeline, the audit's and the rows of build_step_trace name
\* the same forward by the same number, and the row of the last forward tells
\* what it read and where it wrote.
THEOREM AccountsHold == Spec => []AccountsAgree
<1>1. CompleteInv => AccountsAgree
  <2>1. ASSUME CompleteInv
        PROVE  TypeOK /\ TimelinesAgree /\ TraceTellsForwards
    <3>1. SoundInv /\ layout \in Layouts /\ script \in Scripts
      BY <2>1 DEF CompleteInv, SoundInv, Typed
    <3>2. QED
      BY <2>1, <3>1, TypesAgree, TimelineFacts, TraceIsRight
  <2>2. QED
    BY <2>1 DEF AccountsAgree
<1>2. QED
  BY <1>1, CompleteHolds, PTL

=============================================================================
