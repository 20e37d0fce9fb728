--------------------------- MODULE ReadViewProofs ---------------------------
(***************************************************************************)
(* The arithmetic of a read view is right for every layout, every block    *)
(* size and every length: the spans, the blocks and the counts of a plan   *)
(* are those of the reference, and a layout that was accepted always has a *)
(* plan.  Where the code folds over a list, the argument is a least        *)
(* counterexample.                                                         *)
(***************************************************************************)
EXTENDS ReadView, FiniteSetTheorems, TLAPS

\* A set of spans of the first kv positions, none empty.
Spans(kv) == {s \in Nat \X Nat : s[1] < s[2] /\ s[2] <= kv}

Positions(S) == UNION {s[1] .. (s[2] - 1) : s \in S}

-----------------------------------------------------------------------------
(* Least and greatest numbers. *)

LEMMA LeastNumber ==
  ASSUME NEW S, S \subseteq Nat, S # {}
  PROVE  \E m \in S : \A x \in S : m <= x
<1>1. \E m \in S : \A x \in S : ~(<<x, m>> \in OpToRel(<, Nat))
  BY WFMin, NatLessThanWellFounded
<1>2. PICK m \in S : \A x \in S : ~(<<x, m>> \in OpToRel(<, Nat))
  BY <1>1
<1>3. \A x \in S : ~(x < m)
  BY <1>2 DEF OpToRel
<1>4. QED
  BY <1>3

LEMMA GreatestNumber ==
  ASSUME NEW S, S \subseteq Nat, S # {}, NEW n \in Nat, \A x \in S : x <= n
  PROVE  Max(S) \in S /\ \A x \in S : x <= Max(S)
<1> DEFINE D == {n - x : x \in S}
<1>1. D \subseteq Nat
  OBVIOUS
<1> D # {}
  OBVIOUS
<1>2. PICK d \in D : \A x \in D : d <= x
  BY <1>1, LeastNumber
<1>3. PICK m \in S : d = n - m
  OBVIOUS
<1>4. \A x \in S : n - m <= n - x
  BY <1>2, <1>3
<1>5. \A x \in S : m >= x
  BY <1>4
<1>6. QED
  BY <1>5 DEF Max

-----------------------------------------------------------------------------
(* _merge keeps the positions and leaves the spans apart. *)

\* What a merged span reaches, and who ends it.
LEMMA ReachFacts ==
  ASSUME NEW kv \in Nat, NEW S, S \subseteq Spans(kv), NEW s \in S, Opens(S, s)
  PROVE  /\ \E t \in S : /\ t[2] = Max(Reach(S, s)) /\ s[1] <= t[1]
                         /\ \A u \in S : Opens(S, u) => u[1] <= s[1] \/ t[1] < u[1]
         /\ Max(Reach(S, s)) \in Nat /\ Max(Reach(S, s)) <= kv
         /\ \A x \in Reach(S, s) : x <= Max(Reach(S, s))
         /\ s[1] \in Nat /\ s[1] < Max(Reach(S, s))
<1>1. \A t \in S : t[1] \in Nat /\ t[2] \in Nat /\ t[1] < t[2] /\ t[2] <= kv
  BY DEF Spans
<1>2. Reach(S, s) \subseteq Nat /\ \A x \in Reach(S, s) : x <= kv
  BY <1>1 DEF Reach
<1>3. s[2] \in Reach(S, s)
  BY <1>1 DEF Reach
<1>4. Max(Reach(S, s)) \in Reach(S, s) /\ \A x \in Reach(S, s) : x <= Max(Reach(S, s))
  BY <1>2, <1>3, GreatestNumber
<1>5. \E t \in S : /\ t[2] = Max(Reach(S, s)) /\ s[1] <= t[1]
                   /\ \A u \in S : Opens(S, u) => u[1] <= s[1] \/ t[1] < u[1]
  BY <1>4 DEF Reach
<1>6. s[1] < Max(Reach(S, s))
  BY <1>1, <1>2, <1>3, <1>4
<1>7. QED
  BY <1>1, <1>2, <1>4, <1>5, <1>6

LEMMA MergeSpans ==
  ASSUME NEW kv \in Nat, NEW S, S \subseteq Spans(kv)
  PROVE  Merge(S) \subseteq Spans(kv)
<1> SUFFICES ASSUME NEW s \in S, Opens(S, s)
             PROVE  <<s[1], Max(Reach(S, s))>> \in Spans(kv)
  BY DEF Merge
<1>1. /\ Max(Reach(S, s)) \in Nat /\ Max(Reach(S, s)) <= kv
      /\ s[1] \in Nat /\ s[1] < Max(Reach(S, s))
  BY ReachFacts
<1>2. QED
  BY <1>1 DEF Spans

\* Two merged spans neither overlap nor touch.
LEMMA MergeApart ==
  ASSUME NEW kv \in Nat, NEW S, S \subseteq Spans(kv),
         NEW x \in Merge(S), NEW y \in Merge(S), x # y
  PROVE  x[2] < y[1] \/ y[2] < x[1]
<1>1. ASSUME NEW s \in S, NEW u \in S, Opens(S, s), Opens(S, u), s[1] < u[1]
      PROVE  Max(Reach(S, s)) < u[1]
  <2>1. PICK t \in S : /\ t[2] = Max(Reach(S, s)) /\ s[1] <= t[1]
                       /\ \A w \in S : Opens(S, w) => w[1] <= s[1] \/ t[1] < w[1]
    BY <1>1, ReachFacts
  <2>2. t[1] < u[1]
    BY <1>1, <2>1 DEF Spans
  <2>3. QED
    BY <1>1, <2>1, <2>2 DEF Opens
<1>2. PICK s \in S : Opens(S, s) /\ x = <<s[1], Max(Reach(S, s))>>
  BY DEF Merge
<1>3. PICK u \in S : Opens(S, u) /\ y = <<u[1], Max(Reach(S, u))>>
  BY DEF Merge
<1>4. s[1] \in Nat /\ u[1] \in Nat
  BY DEF Spans
<1>5. CASE s[1] = u[1]
  <2>1. Reach(S, s) = Reach(S, u)
    BY <1>5 DEF Reach
  <2>2. QED
    BY <1>2, <1>3, <1>5, <2>1
<1>6. CASE s[1] < u[1]
  BY <1>1, <1>2, <1>3, <1>6
<1>7. CASE u[1] < s[1]
  BY <1>1, <1>2, <1>3, <1>7
<1>8. QED
  BY <1>4, <1>5, <1>6, <1>7

\* Every span has an opening span it belongs to: the last one that begins no
\* later.
LEMMA Opener ==
  ASSUME NEW kv \in Nat, NEW S, S \subseteq Spans(kv), NEW t \in S
  PROVE  \E s \in S : Opens(S, s) /\ s[1] <= t[1] /\ t[2] \in Reach(S, s)
<1> DEFINE B == {u[1] : u \in S}
           A == {u[1] : u \in {w \in S : Opens(S, w) /\ w[1] <= t[1]}}
<1>1. \A u \in S : u[1] \in Nat /\ u[2] \in Nat /\ u[1] < u[2] /\ u[2] <= kv
  BY DEF Spans
<1>2. B \subseteq Nat /\ t[1] \in B
  BY <1>1
<1>3. PICK m \in B : \A x \in B : m <= x
  BY <1>2, LeastNumber
<1>4. PICK f \in S : f[1] = m
  BY <1>3
<1>5. \A u \in S : f[1] <= u[1]
  BY <1>3, <1>4
<1>6. Opens(S, f) /\ f[1] <= t[1]
  BY <1>1, <1>5 DEF Opens
<1>7. A \subseteq Nat /\ f[1] \in A /\ \A x \in A : x <= kv
  BY <1>1, <1>6
<1>8. Max(A) \in A /\ \A x \in A : x <= Max(A)
  BY <1>7, GreatestNumber
<1>9. PICK s \in S : Opens(S, s) /\ s[1] <= t[1] /\ s[1] = Max(A)
  BY <1>8
<1>10. \A u \in S : Opens(S, u) => u[1] <= s[1] \/ t[1] < u[1]
  BY <1>1, <1>8, <1>9
<1>11. QED
  BY <1>9, <1>10 DEF Reach

LEMMA MergeKeepsPositions ==
  ASSUME NEW kv \in Nat, NEW S, S \subseteq Spans(kv)
  PROVE  Positions(Merge(S)) = Positions(S)
<1>1. \A u \in S : u[1] \in Nat /\ u[2] \in Nat /\ u[1] < u[2] /\ u[2] <= kv
  BY DEF Spans
<1>2. ASSUME NEW t \in S, NEW p \in t[1] .. (t[2] - 1)
      PROVE  p \in Positions(Merge(S))
  <2>1. PICK s \in S : Opens(S, s) /\ s[1] <= t[1] /\ t[2] \in Reach(S, s)
    BY Opener
  <2>2. t[2] <= Max(Reach(S, s)) /\ Max(Reach(S, s)) \in Nat
    BY <2>1, ReachFacts
  <2>3. p \in s[1] .. (Max(Reach(S, s)) - 1)
    BY <1>1, <2>1, <2>2
  <2>4. <<s[1], Max(Reach(S, s))>> \in Merge(S)
    BY <2>1 DEF Merge
  <2>5. QED
    BY <2>3, <2>4 DEF Positions
<1>3. ASSUME NEW s \in S, Opens(S, s), NEW p \in s[1] .. (Max(Reach(S, s)) - 1),
             p \notin Positions(S)
      PROVE  FALSE
  <2> DEFINE Later == {u[1] : u \in {w \in S : p < w[1]}}
  <2>0. Max(Reach(S, s)) \in Nat
    BY <1>3, ReachFacts
  <2>1. p \in Nat /\ s[1] <= p /\ p < Max(Reach(S, s))
    BY <1>1, <1>3, <2>0
  <2>2. \A u \in S : u[1] <= p => u[2] <= p
    BY <1>1, <1>3, <2>1 DEF Positions
  <2>3. PICK t \in S : /\ t[2] = Max(Reach(S, s)) /\ s[1] <= t[1]
                       /\ \A u \in S : Opens(S, u) => u[1] <= s[1] \/ t[1] < u[1]
    BY <1>3, ReachFacts
  <2>4. p < t[1]
    BY <1>1, <2>0, <2>1, <2>2, <2>3
  <2>5. Later \subseteq Nat /\ t[1] \in Later
    BY <1>1, <2>4
  <2>6. PICK m \in Later : \A x \in Later : m <= x
    BY <2>5, LeastNumber
  <2>7. PICK u \in S : u[1] = m /\ p < u[1]
    BY <2>6
  <2>8. ASSUME NEW w \in S, w[1] < u[1] PROVE w[1] <= p
    <3>1. p < w[1] => w[1] \in Later
      OBVIOUS
    <3>2. p < w[1] => u[1] <= w[1]
      BY <2>6, <2>7, <3>1
    <3>3. QED
      BY <1>1, <2>1, <2>7, <2>8, <3>2
  <2>9. Opens(S, u)
    BY <1>1, <2>1, <2>2, <2>7, <2>8 DEF Opens
  <2>10. u[1] <= t[1]
    BY <2>5, <2>6, <2>7
  <2>11. QED
    BY <1>1, <2>1, <2>3, <2>7, <2>9, <2>10
<1>4. Positions(S) \subseteq Positions(Merge(S))
  BY <1>2 DEF Positions
<1>5. Positions(Merge(S)) \subseteq Positions(S)
  BY <1>3 DEF Positions, Merge
<1>6. QED
  BY <1>4, <1>5

-----------------------------------------------------------------------------
(* Blocks: division by a block size that is any positive number. *)

LEMMA ProductOrder ==
  ASSUME NEW i \in Nat, NEW j \in Nat, NEW b \in Nat, i < j
  PROVE  i * b + b <= j * b
<1>1. (j - i) \in Nat /\ j - i >= 1
  OBVIOUS
<1>2. (j - i) * b >= b
  BY <1>1
<1>3. (j - i) * b = j * b - i * b
  OBVIOUS
<1>4. i * b \in Nat /\ j * b \in Nat
  OBVIOUS
<1>5. QED
  BY <1>2, <1>3, <1>4

LEMMA DivMod ==
  ASSUME NEW n \in Nat, NEW b \in Nat \ {0}
  PROVE  /\ n \div b \in Nat /\ n % b \in Nat /\ n % b < b
         /\ n = (n \div b) * b + (n % b)
  OBVIOUS

LEMMA BlockEnds ==
  ASSUME NEW b \in Nat \ {0}
  PROVE  \A n \in Nat : /\ n \div b \in Nat /\ (n \div b) * b \in Nat
                       /\ (n \div b) * b <= n /\ n < (n \div b) * b + b
  BY DivMod

\* The block of a position is the one between whose ends it lies.
LEMMA BlockOf ==
  ASSUME NEW n \in Nat, NEW b \in Nat \ {0}, NEW k \in Nat
  PROVE  n \div b = k <=> k * b <= n /\ n < k * b + b
<1>1. /\ n \div b \in Nat /\ (n \div b) * b \in Nat /\ k * b \in Nat
      /\ (n \div b) * b <= n /\ n < (n \div b) * b + b
  BY DivMod
<1>2. n \div b < k => (n \div b) * b + b <= k * b
  BY <1>1, ProductOrder
<1>3. k < n \div b => k * b + b <= (n \div b) * b
  BY <1>1, ProductOrder
<1>4. QED
  BY <1>1, <1>2, <1>3

LEMMA BlockOrder ==
  ASSUME NEW m \in Nat, NEW n \in Nat, NEW b \in Nat \ {0}, m <= n
  PROVE  m \div b <= n \div b
<1>1. /\ m \div b \in Nat /\ n \div b \in Nat
      /\ (m \div b) * b <= m /\ n < (n \div b) * b + b
      /\ (m \div b) * b \in Nat /\ (n \div b) * b \in Nat
  BY DivMod
<1>2. n \div b < m \div b => (n \div b) * b + b <= (m \div b) * b
  BY <1>1, ProductOrder
<1>3. QED
  BY <1>1, <1>2

\* Rounding up gives the block behind the last position.
LEMMA RoundUp ==
  ASSUME NEW n \in Nat \ {0}, NEW b \in Nat \ {0}
  PROVE  (n + b - 1) \div b = ((n - 1) \div b) + 1
<1>1. n - 1 \in Nat /\ n + b - 1 \in Nat
  OBVIOUS
<1>2. /\ (n - 1) \div b \in Nat /\ ((n - 1) \div b) * b \in Nat
      /\ ((n - 1) \div b) * b <= n - 1 /\ n - 1 < ((n - 1) \div b) * b + b
  BY <1>1, DivMod
<1>3. (((n - 1) \div b) + 1) * b = ((n - 1) \div b) * b + b
  BY <1>2
<1> DEFINE k == ((n - 1) \div b) + 1
<1>4. k \in Nat /\ k * b <= n + b - 1 /\ n + b - 1 < k * b + b
  BY <1>2, <1>3
<1> HIDE DEF k
<1>5. (n + b - 1) \div b = k
  BY <1>1, <1>4, BlockOf
<1>6. QED
  BY <1>5 DEF k

-----------------------------------------------------------------------------
(* The visible spans cover exactly what the reference marks. *)

LEMMA ClipSpans ==
  ASSUME NEW kv \in Nat, NEW S, S \subseteq Nat \X Nat
  PROVE  /\ Clip(S, kv) \subseteq Spans(kv)
         /\ Positions(Clip(S, kv)) = {p \in Positions(S) : p < kv}
<1>1. \A s \in S : s[1] \in Nat /\ s[2] \in Nat
  OBVIOUS
<1>2. Clip(S, kv) \subseteq Spans(kv)
  BY <1>1 DEF Clip, Spans, Lesser
<1>3. ASSUME NEW s \in S, NEW p \in s[1] .. (s[2] - 1), p < kv
      PROVE  p \in Positions(Clip(S, kv))
  <2> DEFINE c == <<Lesser(s[1], kv), Lesser(s[2], kv)>>
  <2>1. c[1] < c[2] /\ p \in c[1] .. (c[2] - 1)
    BY <1>1, <1>3 DEF Lesser
  <2>2. c \in Clip(S, kv)
    BY <2>1 DEF Clip
  <2>3. QED
    BY <2>1, <2>2 DEF Positions
<1>4. ASSUME NEW s \in S, NEW p \in Lesser(s[1], kv) .. (Lesser(s[2], kv) - 1)
      PROVE  p \in s[1] .. (s[2] - 1) /\ p < kv
  BY <1>1, <1>4 DEF Lesser
<1>5. Positions(Clip(S, kv)) \subseteq {p \in Positions(S) : p < kv}
  BY <1>4 DEF Positions, Clip
<1>6. {p \in Positions(S) : p < kv} \subseteq Positions(Clip(S, kv))
  BY <1>3 DEF Positions
<1>7. QED
  BY <1>2, <1>5, <1>6

\* One span grows to the blocks it touches.
LEMMA AlignedSpan ==
  ASSUME NEW kv \in Nat, NEW b \in Nat \ {0}, NEW s \in Spans(kv), NEW p \in Nat
  PROVE  p \in ((s[1] \div b) * b) .. (((s[2] + b - 1) \div b) * b - 1)
            <=> \E q \in s[1] .. (s[2] - 1) : q \div b = p \div b
<1>1. s[1] \in Nat /\ s[2] \in Nat \ {0} /\ s[1] < s[2] /\ s[2] - 1 \in Nat
  BY DEF Spans
<1> DEFINE x == s[1] \div b
           y == (s[2] - 1) \div b
           k == p \div b
<1>2. /\ x \in Nat /\ y \in Nat /\ k \in Nat
      /\ x * b \in Nat /\ y * b \in Nat /\ k * b \in Nat
      /\ x * b <= s[1] /\ s[1] < x * b + b
      /\ y * b <= s[2] - 1 /\ s[2] - 1 < y * b + b
      /\ k * b <= p /\ p < k * b + b
  BY <1>1, BlockEnds
<1>3. ((s[2] + b - 1) \div b) * b = y * b + b
  <2>1. (s[2] + b - 1) \div b = y + 1
    BY <1>1, RoundUp
  <2>2. (y + 1) * b = y * b + b
    BY <1>2
  <2>3. QED
    BY <2>1, <2>2
<1> HIDE DEF x, y, k
<1>4. x * b <= p /\ p < y * b + b <=> x <= k /\ k <= y
  <2>1. k < x => k * b + b <= x * b
    BY <1>2, ProductOrder
  <2>2. x < k => x * b + b <= k * b
    BY <1>2, ProductOrder
  <2>3. y < k => y * b + b <= k * b
    BY <1>2, ProductOrder
  <2>4. k < y => k * b + b <= y * b
    BY <1>2, ProductOrder
  <2>5. QED
    BY <1>2, <2>1, <2>2, <2>3, <2>4
<1>5. ASSUME x <= k, k <= y
      PROVE  \E q \in s[1] .. (s[2] - 1) : q \div b = k
  <2>1. CASE x = k
    BY <1>1, <1>2, <2>1 DEF x
  <2>2. CASE x < k
    <3>1. x * b + b <= k * b
      BY <1>2, <2>2, ProductOrder
    <3>2. k < y => k * b + b <= y * b
      BY <1>2, ProductOrder
    <3>3. k * b \in s[1] .. (s[2] - 1)
      BY <1>1, <1>2, <1>5, <3>1, <3>2
    <3>4. (k * b) \div b = k
      BY <1>2, BlockOf
    <3>5. QED
      BY <3>3, <3>4
  <2>3. QED
    BY <1>2, <1>5, <2>1, <2>2
<1>6. ASSUME NEW q \in s[1] .. (s[2] - 1), q \div b = k
      PROVE  x <= k /\ k <= y
  <2>1. q \in Nat /\ s[1] <= q /\ q <= s[2] - 1
    BY <1>1
  <2>2. s[1] \div b <= q \div b /\ q \div b <= (s[2] - 1) \div b
    BY <1>1, <2>1, BlockOrder
  <2>3. QED
    BY <1>6, <2>2 DEF x, y
<1>7. p \in (x * b) .. (y * b + b - 1) <=> x * b <= p /\ p < y * b + b
  BY <1>2
<1>8. ((s[1] \div b) * b) .. (((s[2] + b - 1) \div b) * b - 1)
         = (x * b) .. (y * b + b - 1)
  <2>1. (y * b + b) - 1 = y * b + b - 1
    BY <1>2
  <2>2. QED
    BY <1>3, <2>1 DEF x
<1>9. QED
  BY <1>4, <1>5, <1>6, <1>7, <1>8 DEF k

LEMMA AlignOutwardPositions ==
  ASSUME NEW kv \in Nat, NEW b \in Nat \ {0}, NEW S, S \subseteq Spans(kv)
  PROVE  /\ AlignOutward(S, b) \subseteq Nat \X Nat
         /\ \A p \in Nat : p \in Positions(AlignOutward(S, b))
                              <=> \E q \in Positions(S) : q \div b = p \div b
<1>1. \A s \in S : s[1] \in Nat /\ s[2] \in Nat /\ s[2] + b - 1 \in Nat
  BY DEF Spans
<1>2. \A s \in S : /\ (s[1] \div b) * b \in Nat
                   /\ ((s[2] + b - 1) \div b) * b \in Nat
  BY <1>1, DivMod
<1>3. ASSUME NEW p \in Nat
      PROVE  p \in Positions(AlignOutward(S, b))
                <=> \E q \in Positions(S) : q \div b = p \div b
  <2>1. p \in Positions(AlignOutward(S, b)) <=>
          \E s \in S : p \in ((s[1] \div b) * b) .. (((s[2] + b - 1) \div b) * b - 1)
    <3>1. \A s \in S : <<(s[1] \div b) * b, ((s[2] + b - 1) \div b) * b>>
                          \in AlignOutward(S, b)
      BY DEF AlignOutward
    <3>2. \A t \in AlignOutward(S, b) : \E s \in S :
             t[1] = (s[1] \div b) * b /\ t[2] = ((s[2] + b - 1) \div b) * b
      BY DEF AlignOutward
    <3>3. p \in Positions(AlignOutward(S, b))
             <=> \E t \in AlignOutward(S, b) : p \in t[1] .. (t[2] - 1)
      BY DEF Positions
    <3>4. QED
      BY <3>1, <3>2, <3>3
  <2>2. (\E q \in Positions(S) : q \div b = p \div b) <=>
          \E s \in S : \E q \in s[1] .. (s[2] - 1) : q \div b = p \div b
    BY DEF Positions
  <2>3. \A s \in S :
          p \in ((s[1] \div b) * b) .. (((s[2] + b - 1) \div b) * b - 1)
            <=> \E q \in s[1] .. (s[2] - 1) : q \div b = p \div b
    BY AlignedSpan
  <2>4. QED
    BY <2>1, <2>2, <2>3
<1>4. QED
  BY <1>2, <1>3 DEF AlignOutward

\* A view the parser can hold: a mode, and references for a focus only.
DeclaredView(mode, refs, layout) ==
    /\ mode \in {"global", "local", "focus"}
    /\ refs \subseteq 1..Len(layout.segments)

LEMMA SemanticSpans ==
  ASSUME NEW layout, LayoutType(layout), NEW mode, NEW refs,
         DeclaredView(mode, refs, layout), NEW kv \in Nat
  PROVE  /\ Semantic(mode, refs, layout, kv) \subseteq Nat \X Nat
         /\ {p \in Positions(Semantic(mode, refs, layout, kv)) : p < kv}
              = Selected(mode, refs, layout, kv)
<1> DEFINE segments == layout.segments
<1>1. \A i \in refs : segments[i] \in Nat \X Nat
  BY DEF LayoutType, DeclaredView
<1>2. Semantic(mode, refs, layout, kv) \subseteq Nat \X Nat
  BY <1>1 DEF Semantic, LayoutType
<1>3. \A p : p \in Positions(Semantic(mode, refs, layout, kv)) <=>
         \E s \in Semantic(mode, refs, layout, kv) : p \in s[1] .. (s[2] - 1)
  BY DEF Positions
<1>4. ASSUME NEW p \in Nat, p < kv
      PROVE  (\E s \in Semantic(mode, refs, layout, kv) : p \in s[1] .. (s[2] - 1))
               <=> p \in Selected(mode, refs, layout, kv)
  <2>1. p \in 0 .. (kv - 1)
    BY <1>4
  <2>2. \A s \in Nat \X Nat : p \in s[1] .. (s[2] - 1) <=> s[1] <= p /\ p < s[2]
    OBVIOUS
  <2>3. <<layout.prompt, kv>>[1] = layout.prompt /\ <<layout.prompt, kv>>[2] = kv
        /\ <<0, kv>>[1] = 0 /\ <<0, kv>>[2] = kv
    OBVIOUS
  <2>4. (\E s \in Semantic(mode, refs, layout, kv) : s[1] <= p /\ p < s[2])
          <=> p \in Selected(mode, refs, layout, kv)
    <3>1. \A s : s \in Semantic(mode, refs, layout, kv) <=>
            \/ s = layout.sink \/ s = layout.window \/ s = <<layout.prompt, kv>>
            \/ mode = "focus" /\ \E i \in refs : s = layout.segments[i]
            \/ mode = "global" /\ s = <<0, kv>>
      BY DEF Semantic
    <3>2. (\E s \in Semantic(mode, refs, layout, kv) : s[1] <= p /\ p < s[2]) <=>
            \/ layout.sink[1] <= p /\ p < layout.sink[2]
            \/ layout.window[1] <= p /\ p < layout.window[2]
            \/ layout.prompt <= p
            \/ mode = "focus" /\ \E i \in refs : /\ layout.segments[i][1] <= p
                                                /\ p < layout.segments[i][2]
            \/ mode = "global"
      <4>1. /\ layout.sink \in Semantic(mode, refs, layout, kv)
            /\ layout.window \in Semantic(mode, refs, layout, kv)
            /\ <<layout.prompt, kv>> \in Semantic(mode, refs, layout, kv)
            /\ mode = "global" => <<0, kv>> \in Semantic(mode, refs, layout, kv)
            /\ mode = "focus" => \A i \in refs :
                  layout.segments[i] \in Semantic(mode, refs, layout, kv)
        BY DEF Semantic
      <4>2. ASSUME NEW s \in Semantic(mode, refs, layout, kv), s[1] <= p, p < s[2]
            PROVE  \/ layout.sink[1] <= p /\ p < layout.sink[2]
                   \/ layout.window[1] <= p /\ p < layout.window[2]
                   \/ layout.prompt <= p
                   \/ mode = "focus" /\ \E i \in refs : /\ layout.segments[i][1] <= p
                                                       /\ p < layout.segments[i][2]
                   \/ mode = "global"
        BY <3>1, <4>2
      <4>3. QED
        BY <1>4, <2>3, <4>1, <4>2
    <3>3. QED
      BY <2>1, <3>2 DEF Selected
  <2>5. QED
    BY <1>2, <2>2, <2>4
<1>5. \A p \in Positions(Semantic(mode, refs, layout, kv)) : p \in Nat
  BY <1>2, <1>3
<1>6. \A p \in Selected(mode, refs, layout, kv) : p \in Nat /\ p < kv
  BY DEF Selected
<1>7. QED
  BY <1>2, <1>3, <1>4, <1>5, <1>6

\* For every accepted layout, every view and every block size, the visible spans
\* are well formed, do not touch, and cover the positions the reference marks
\* one by one: clipping, merging and alignment lose and add nothing.
THEOREM SpansAreReference ==
  ASSUME NEW layout, LayoutType(layout), NEW mode, NEW refs,
         DeclaredView(mode, refs, layout), NEW kv \in Nat, NEW b \in Nat \ {0}
  PROVE  LET S == VisibleSpans(mode, refs, layout, kv, b)
         IN  /\ S \subseteq Spans(kv)
             /\ \A x, y \in S : x # y => x[2] < y[1] \/ y[2] < x[1]
             /\ Positions(S) = ReferenceVisible(mode, refs, layout, kv, b)
<1> DEFINE A == Semantic(mode, refs, layout, kv)
           raw == Merge(Clip(A, kv))
           aligned == AlignOutward(raw, b)
           S == Merge(Clip(aligned, kv))
<1>1. /\ A \subseteq Nat \X Nat
      /\ {p \in Positions(A) : p < kv} = Selected(mode, refs, layout, kv)
  BY SemanticSpans
<1>2. /\ Clip(A, kv) \subseteq Spans(kv)
      /\ Positions(Clip(A, kv)) = Selected(mode, refs, layout, kv)
  BY <1>1, ClipSpans
<1>3. raw \subseteq Spans(kv) /\ Positions(raw) = Selected(mode, refs, layout, kv)
  BY <1>2, MergeSpans, MergeKeepsPositions
<1>4. /\ aligned \subseteq Nat \X Nat
      /\ \A p \in Nat : p \in Positions(aligned) <=>
            \E q \in Selected(mode, refs, layout, kv) : q \div b = p \div b
  BY <1>3, AlignOutwardPositions
<1>5. /\ Clip(aligned, kv) \subseteq Spans(kv)
      /\ Positions(Clip(aligned, kv)) = {p \in Positions(aligned) : p < kv}
  BY <1>4, ClipSpans
<1>6. /\ S \subseteq Spans(kv)
      /\ Positions(S) = {p \in Positions(aligned) : p < kv}
      /\ \A x, y \in S : x # y => x[2] < y[1] \/ y[2] < x[1]
  BY <1>5, MergeSpans, MergeKeepsPositions, MergeApart
<1>7. \A p \in Positions(aligned) : p \in Nat
  BY <1>4 DEF Positions
<1>8. {p \in Positions(aligned) : p < kv} = ReferenceVisible(mode, refs, layout, kv, b)
  BY <1>4, <1>7 DEF ReferenceVisible
<1>9. S = VisibleSpans(mode, refs, layout, kv, b)
  BY DEF VisibleSpans
<1>10. QED
  BY <1>6, <1>8, <1>9

-----------------------------------------------------------------------------
(* A finite set of numbers in ascending order. *)

LEMMA InOrderFacts ==
  ASSUME NEW S, S \subseteq Nat, IsFiniteSet(S)
  PROVE  /\ Cardinality(S) \in Nat
         /\ InOrder(S) \in [1..Cardinality(S) -> S]
         /\ \A i, j \in 1..Cardinality(S) : i < j => InOrder(S)[i] < InOrder(S)[j]
         /\ \A x \in S : \E i \in 1..Cardinality(S) : InOrder(S)[i] = x
<1> DEFINE n == Cardinality(S)
           Below(x) == {y \in S : y < x}
           rank == [x \in S |-> Cardinality(Below(x))]
<1>1. n \in Nat
  BY FS_CardinalityType
<1>2. ASSUME NEW x \in S
      PROVE  IsFiniteSet(Below(x)) /\ Cardinality(Below(x)) \in 0..(n - 1)
  <2>1. Below(x) \in SUBSET S /\ Below(x) # S
    OBVIOUS
  <2>2. IsFiniteSet(Below(x)) /\ Cardinality(Below(x)) <= n /\ Cardinality(Below(x)) # n
    BY <2>1, FS_Subset
  <2>3. Cardinality(Below(x)) \in Nat
    BY <2>2, FS_CardinalityType
  <2>4. QED
    BY <1>1, <2>2, <2>3
<1>3. ASSUME NEW x \in S, NEW y \in S, x < y
      PROVE  Cardinality(Below(x)) < Cardinality(Below(y))
  <2>0. \A z \in S : z \in Nat
    OBVIOUS
  <2>1. Below(x) \in SUBSET Below(y) /\ Below(x) # Below(y)
    <3>1. \A z \in Below(x) : z < y
      BY <1>3, <2>0
    <3>2. x \in Below(y) /\ x \notin Below(x)
      BY <1>3, <2>0
    <3>3. QED
      BY <3>1, <3>2
  <2>2. /\ Cardinality(Below(x)) <= Cardinality(Below(y))
        /\ Cardinality(Below(x)) # Cardinality(Below(y))
    BY <1>2, <2>1, FS_Subset
  <2>3. QED
    BY <1>1, <1>2, <2>2
<1>4. rank \in [S -> 0..(n - 1)]
  BY <1>2
<1>5. \A x, y \in S : rank[x] = rank[y] => x = y
  BY <1>1, <1>2, <1>3
<1>6. rank \in Injection(S, 0..(n - 1))
  BY <1>4, <1>5 DEF Injection, IsInjective
<1>7. IsFiniteSet(0..(n - 1)) /\ Cardinality(0..(n - 1)) = n
  <2>1. 0 \in Int /\ n - 1 \in Int /\ (0 > n - 1 <=> n = 0) /\ n - 1 - 0 + 1 = n
    BY <1>1
  <2>2. /\ IsFiniteSet(0..(n - 1))
        /\ Cardinality(0..(n - 1)) = IF 0 > n - 1 THEN 0 ELSE n - 1 - 0 + 1
    BY <2>1, FS_Interval
  <2>3. QED
    BY <2>1, <2>2
<1>8. rank \in Surjection(S, 0..(n - 1))
  BY <1>6, <1>7, FS_Injection
<1>9. ASSUME NEW i \in 1..n
      PROVE  \E x \in S : Cardinality(Below(x)) = i - 1
  <2>1. i - 1 \in 0..(n - 1)
    BY <1>1
  <2>2. QED
    BY <1>8, <2>1 DEF Surjection
<1>10. \A i \in 1..n : InOrder(S)[i] \in S /\ Cardinality(Below(InOrder(S)[i])) = i - 1
  BY <1>9 DEF InOrder
<1>11. InOrder(S) \in [1..n -> S]
  BY <1>10 DEF InOrder
<1>12. ASSUME NEW i \in 1..n, NEW j \in 1..n, i < j
       PROVE  InOrder(S)[i] < InOrder(S)[j]
  <2>1. InOrder(S)[j] < InOrder(S)[i] => j - 1 < i - 1
    BY <1>3, <1>10
  <2>2. InOrder(S)[j] # InOrder(S)[i]
    <3>1. i - 1 # j - 1
      BY <1>1, <1>12
    <3>2. QED
      BY <1>10, <3>1
  <2>3. InOrder(S)[i] \in Nat /\ InOrder(S)[j] \in Nat
    BY <1>10
  <2>4. QED
    BY <1>1, <1>12, <2>1, <2>2, <2>3
<1>13. ASSUME NEW x \in S
       PROVE  \E i \in 1..n : InOrder(S)[i] = x
  <2> DEFINE i == Cardinality(Below(x)) + 1
  <2>1. i \in 1..n /\ i - 1 = Cardinality(Below(x))
    BY <1>1, <1>2
  <2>2. InOrder(S)[i] \in S /\ Cardinality(Below(InOrder(S)[i])) = Cardinality(Below(x))
    BY <1>10, <2>1
  <2>3. InOrder(S)[i] = x
    BY <1>5, <2>2
  <2>4. QED
    BY <2>1, <2>3
<1>14. QED
  BY <1>1, <1>11, <1>12, <1>13

-----------------------------------------------------------------------------
(* The blocks of the spans, and how much of each they cover. *)

\* The positions of V in block k.
InBlock(V, b, k) == {p \in V : p \div b = k}

\* With a position, V has every position below kv of the same block.
WholeBlocks(V, kv, b) ==
    /\ V \subseteq 0..(kv - 1)
    /\ \A p \in V : \A q \in 0..(kv - 1) : q \div b = p \div b => q \in V

LEMMA BlocksOfPositions ==
  ASSUME NEW kv \in Nat, NEW b \in Nat \ {0}, NEW S, S \subseteq Spans(kv)
  PROVE  BlocksOf(S, b) = {p \div b : p \in Positions(S)}
<1>1. ASSUME NEW s \in S, NEW k
      PROVE  k \in (s[1] \div b) .. (((s[2] + b - 1) \div b) - 1)
               <=> \E q \in s[1] .. (s[2] - 1) : q \div b = k
  <2>1. s[1] \in Nat /\ s[2] \in Nat \ {0} /\ s[1] < s[2] /\ s[2] - 1 \in Nat
    BY DEF Spans
  <2> DEFINE x == s[1] \div b
             y == (s[2] - 1) \div b
  <2>2. x \in Nat /\ y \in Nat /\ ((s[2] + b - 1) \div b) - 1 = y
    <3>1. x \in Nat /\ y \in Nat
      BY <2>1, BlockEnds
    <3>2. (s[2] + b - 1) \div b = y + 1
      BY <2>1, RoundUp
    <3>3. QED
      BY <3>1, <3>2
  <2>3. ASSUME NEW q \in s[1] .. (s[2] - 1)
        PROVE  q \div b \in x .. y
    BY <2>1, <2>2, DivMod, BlockOrder
  <2>4. ASSUME k \in x .. y
        PROVE  \E q \in s[1] .. (s[2] - 1) : q \div b = k
    <3>1. k \in Nat /\ k * b \in Nat /\ (k * b) \div b = k
      <4>1. k \in Nat /\ k * b \in Nat
        BY <2>2, <2>4
      <4>2. QED
        BY <4>1, BlockOf
    <3>2. k * b <= s[2] - 1
      <4>1. y * b \in Nat /\ y * b <= s[2] - 1
        BY <2>1, BlockEnds
      <4>2. k < y => k * b + b <= y * b
        BY <2>2, <3>1, ProductOrder
      <4>3. QED
        BY <2>1, <2>2, <2>4, <3>1, <4>1, <4>2
    <3>3. CASE k = x
      BY <2>1, <3>3
    <3>4. CASE k > x
      <4>1. x * b \in Nat /\ s[1] < x * b + b
        BY <2>1, BlockEnds
      <4>2. x * b + b <= k * b
        BY <2>2, <3>1, <3>4, ProductOrder
      <4>3. k * b \in s[1] .. (s[2] - 1)
        BY <2>1, <3>1, <3>2, <4>1, <4>2
      <4>4. QED
        BY <3>1, <4>3
    <3>5. QED
      BY <2>2, <2>4, <3>3, <3>4
  <2>5. QED
    BY <2>2, <2>3, <2>4
<1>2. \A k : k \in BlocksOf(S, b)
               <=> \E s \in S : k \in (s[1] \div b) .. (((s[2] + b - 1) \div b) - 1)
  BY DEF BlocksOf
<1>3. \A k : k \in {p \div b : p \in Positions(S)}
               <=> \E s \in S : \E q \in s[1] .. (s[2] - 1) : q \div b = k
  BY DEF Positions
<1>4. QED
  BY <1>1, <1>2, <1>3

\* Spans that stay apart count every position once.
LEMMA CoveredCount ==
  ASSUME NEW kv \in Nat, NEW b \in Nat \ {0}, NEW k \in Nat,
         NEW S, S \subseteq Spans(kv),
         \A x, y \in S : x # y => x[2] < y[1] \/ y[2] < x[1]
  PROVE  Covered(S, k, b, kv) = Cardinality(InBlock(Positions(S), b, k))
<1> DEFINE P == {p \in Positions(S) : p \div b = k}
           Pairs == UNION {{s} \X SpanInBlock(s, k, b, kv) : s \in S}
           second == [c \in Pairs |-> c[2]]
<1>1. \A s \in S : s[1] \in Nat /\ s[2] \in Nat /\ s[1] < s[2] /\ s[2] <= kv
  BY DEF Spans
<1>2. k * b \in Nat /\ (k + 1) * b = k * b + b
  OBVIOUS
<1>3. ASSUME NEW s \in S, NEW p
      PROVE  p \in SpanInBlock(s, k, b, kv) <=> p \in s[1] .. (s[2] - 1) /\ p \div b = k
  <2>1. p \in SpanInBlock(s, k, b, kv) <=>
           p \in Nat /\ s[1] <= p /\ p < s[2] /\ k * b <= p /\ p < k * b + b
    BY <1>1, <1>2 DEF SpanInBlock, Greater, Lesser
  <2>2. p \in s[1] .. (s[2] - 1) <=> p \in Nat /\ s[1] <= p /\ p < s[2]
    BY <1>1
  <2>3. p \in Nat => (p \div b = k <=> k * b <= p /\ p < k * b + b)
    BY BlockOf
  <2>4. QED
    BY <2>1, <2>2, <2>3
<1>4. \A c \in Pairs : c[1] \in S /\ c[2] \in SpanInBlock(c[1], k, b, kv) /\ c = <<c[1], c[2]>>
  OBVIOUS
<1>5. \A s \in S : \A p \in SpanInBlock(s, k, b, kv) : <<s, p>> \in Pairs
  OBVIOUS
<1>6. P \subseteq 0..(kv - 1)
  BY <1>1 DEF Positions
<1>7. IsFiniteSet(P)
  <2>1. IsFiniteSet(0..(kv - 1))
    BY FS_Interval
  <2>2. QED
    BY <1>6, <2>1, FS_Subset
<1>8. second \in [Pairs -> P]
  BY <1>3, <1>4 DEF Positions
<1>9. \A c, d \in Pairs : second[c] = second[d] => c = d
  <2> SUFFICES ASSUME NEW c \in Pairs, NEW d \in Pairs, c[2] = d[2] PROVE c = d
    OBVIOUS
  <2>1. /\ c[2] \in c[1][1] .. (c[1][2] - 1)
        /\ c[2] \in d[1][1] .. (d[1][2] - 1)
        /\ c[1] \in S /\ d[1] \in S
    BY <1>3, <1>4
  <2>2. c[1] = d[1]
    BY <1>1, <2>1
  <2>3. QED
    BY <1>4, <2>2
<1>10. \A p \in P : \E c \in Pairs : second[c] = p
  <2> SUFFICES ASSUME NEW p \in P PROVE \E c \in Pairs : c[2] = p
    OBVIOUS
  <2>1. PICK s \in S : p \in s[1] .. (s[2] - 1) /\ p \div b = k
    BY DEF Positions
  <2>2. <<s, p>> \in Pairs
    BY <1>3, <1>5, <2>1
  <2>3. QED
    BY <2>2
<1>11. second \in Injection(Pairs, P) /\ second \in Surjection(Pairs, P)
  BY <1>8, <1>9, <1>10 DEF Injection, IsInjective, Surjection
<1>12. Cardinality(Pairs) = Cardinality(P)
  BY <1>7, <1>11, FS_Injection
<1>13. QED
  BY <1>12 DEF Covered, InBlock

LEMMA UpTo ==
  ASSUME NEW n \in Nat
  PROVE  IsFiniteSet(1..n) /\ Cardinality(1..n) = n
<1>1. (1 > n <=> n = 0) /\ n - 1 + 1 = n
  OBVIOUS
<1>2. IsFiniteSet(1..n) /\ Cardinality(1..n) = IF 1 > n THEN 0 ELSE n - 1 + 1
  BY FS_Interval
<1>3. QED
  BY <1>1, <1>2

\* n times b and t add up.
LEMMA TotalCount ==
  ASSUME NEW n \in Nat, NEW b \in Nat, NEW t \in Nat, NEW counts,
         DOMAIN counts = 1..(n + 1),
         \A i \in 1..n : counts[i] = b, counts[n + 1] = t
  PROVE  Total(counts) = n * b + t
<1> DEFINE full == (1..n) \X (1..b)
           rest == {n + 1} \X (1..t)
           pairs == UNION {{i} \X (1..counts[i]) : i \in DOMAIN counts}
<1>1. /\ IsFiniteSet(1..n) /\ Cardinality(1..n) = n
      /\ IsFiniteSet(1..b) /\ Cardinality(1..b) = b
      /\ IsFiniteSet(1..t) /\ Cardinality(1..t) = t
      /\ IsFiniteSet({n + 1}) /\ Cardinality({n + 1}) = 1
  BY UpTo, FS_Singleton
<1>2. IsFiniteSet(full) /\ Cardinality(full) = n * b
  <2>1. IsFiniteSet(full) /\ Cardinality(full) = Cardinality(1..n) * Cardinality(1..b)
    BY <1>1, FS_Product
  <2>2. QED
    BY <1>1, <2>1
<1>3. IsFiniteSet(rest) /\ Cardinality(rest) = t
  <2>1. IsFiniteSet(rest) /\ Cardinality(rest) = Cardinality({n + 1}) * Cardinality(1..t)
    BY <1>1, FS_Product
  <2>2. QED
    BY <1>1, <2>1
<1>4. pairs = full \cup rest
  <2>1. ASSUME NEW c
        PROVE  c \in pairs <=> \E i \in 1..(n + 1) : c \in {i} \X (1..counts[i])
    OBVIOUS
  <2>2. ASSUME NEW c
        PROVE  (\E i \in 1..(n + 1) : c \in {i} \X (1..counts[i])) <=> c \in full \cup rest
    <3>1. ASSUME NEW i \in 1..(n + 1), c \in {i} \X (1..counts[i])
          PROVE  c \in full \cup rest
      BY <3>1
    <3>2. ASSUME c \in full
          PROVE  \E i \in 1..(n + 1) : c \in {i} \X (1..counts[i])
      <4>1. c[1] \in 1..n /\ c[2] \in 1..b /\ c = <<c[1], c[2]>>
        BY <3>2
      <4>2. c \in {c[1]} \X (1..counts[c[1]]) /\ c[1] \in 1..(n + 1)
        BY <4>1
      <4>3. QED
        BY <4>2
    <3>3. ASSUME c \in rest
          PROVE  \E i \in 1..(n + 1) : c \in {i} \X (1..counts[i])
      <4>1. c \in {n + 1} \X (1..counts[n + 1]) /\ n + 1 \in 1..(n + 1)
        BY <3>3
      <4>2. QED
        BY <4>1
    <3>4. QED
      BY <3>1, <3>2, <3>3
  <2>3. QED
    BY <2>1, <2>2
<1>5. full \cap rest = {}
  OBVIOUS
<1>6. Cardinality(pairs) = Cardinality(full) + Cardinality(rest) - Cardinality({})
  BY <1>2, <1>3, <1>4, <1>5, FS_Union
<1>7. Cardinality({}) = 0
  BY FS_EmptySet
<1>8. Cardinality(pairs) = n * b + t
  BY <1>2, <1>3, <1>6, <1>7
<1>9. QED
  BY <1>8 DEF Total

-----------------------------------------------------------------------------
(* The plan of a decode step. *)

\* The reference shows whole blocks, and the current token always.
LEMMA ReferenceFacts ==
  ASSUME NEW layout, LayoutType(layout), NEW mode, NEW refs,
         NEW kv \in Nat, NEW b \in Nat \ {0}, layout.prompt < kv
  PROVE  LET V == ReferenceVisible(mode, refs, layout, kv, b)
         IN  WholeBlocks(V, kv, b) /\ kv - 1 \in V
<1>1. kv - 1 \in 0..(kv - 1) /\ layout.prompt <= kv - 1
  BY DEF LayoutType
<1>2. kv - 1 \in Selected(mode, refs, layout, kv)
  BY <1>1 DEF Selected
<1>3. QED
  BY <1>1, <1>2 DEF ReferenceVisible, WholeBlocks

LEMMA Stretch ==
  ASSUME NEW lo \in Nat, NEW hi \in Nat, lo < hi,
         NEW P, \A p : p \in P <=> p \in Nat /\ lo <= p /\ p < hi
  PROVE  Cardinality(P) = hi - lo
<1> DEFINE top == hi - 1
<1>1. top \in Int /\ lo \in Int /\ ~(lo > top) /\ top - lo + 1 = hi - lo
  OBVIOUS
<1>2. P = lo..top
  <2>1. \A p : p \in lo..top <=> p \in Nat /\ lo <= p /\ p < hi
    OBVIOUS
  <2>2. QED
    BY <2>1
<1> HIDE DEF top
<1>3. Cardinality(lo..top) = IF lo > top THEN 0 ELSE top - lo + 1
  BY <1>1, FS_Interval
<1>4. QED
  BY <1>1, <1>2, <1>3

\* Every visible block but the last is full.
LEMMA BlockCount ==
  ASSUME NEW kv \in Nat \ {0}, NEW b \in Nat \ {0},
         NEW V, WholeBlocks(V, kv, b), NEW v \in V
  PROVE  Cardinality(InBlock(V, b, v \div b))
           = IF v \div b < (kv - 1) \div b THEN b ELSE kv - ((kv - 1) \div b) * b
<1> DEFINE k == v \div b
           last == (kv - 1) \div b
           P == InBlock(V, b, k)
<1>1. v \in Nat /\ v <= kv - 1 /\ kv - 1 \in Nat
  BY DEF WholeBlocks
<1>2. /\ k \in Nat /\ k * b \in Nat /\ k * b <= v /\ v < k * b + b
      /\ last \in Nat /\ last * b \in Nat /\ last * b <= kv - 1 /\ kv - 1 < last * b + b
  BY <1>1, BlockEnds
<1>3. k <= last
  BY <1>1, BlockOrder
<1>4. ASSUME NEW p
      PROVE  p \in P <=> p \in Nat /\ p < kv /\ k * b <= p /\ p < k * b + b
  <2>1. p \in P <=> p \in 0..(kv - 1) /\ p \div b = k
    BY DEF InBlock, WholeBlocks
  <2>2. p \in Nat => (p \div b = k <=> k * b <= p /\ p < k * b + b)
    BY <1>2, BlockOf
  <2>3. QED
    BY <1>1, <2>1, <2>2
<1> HIDE DEF k, last, P
<1>5. CASE k < last
  <2>1. k * b + b <= last * b
    BY <1>2, <1>5, ProductOrder
  <2>2. \A p : p \in P <=> p \in Nat /\ k * b <= p /\ p < k * b + b
    <3>1. ASSUME NEW p \in Nat, p < k * b + b
          PROVE  p < kv
      BY <1>1, <1>2, <2>1, <3>1
    <3>2. QED
      BY <1>4, <3>1
  <2>3. k * b + b \in Nat /\ k * b < k * b + b /\ (k * b + b) - k * b = b
    BY <1>2
  <2>4. Cardinality(P) = (k * b + b) - k * b
    BY <1>2, <2>2, <2>3, Stretch
  <2>5. QED
    BY <1>5, <2>3, <2>4 DEF k, last, P
<1>6. CASE k = last
  <2>1. \A p : p \in P <=> p \in Nat /\ last * b <= p /\ p < kv
    BY <1>1, <1>2, <1>4, <1>6
  <2>2. last * b < kv
    BY <1>1, <1>2
  <2>3. Cardinality(P) = kv - last * b
    BY <1>2, <2>1, <2>2, Stretch
  <2>4. QED
    BY <1>6, <2>3 DEF k, last, P
<1>7. QED
  BY <1>2, <1>3, <1>5, <1>6 DEF k, last, P

\* A plan that shows exactly the positions V: their blocks in ascending order,
\* each full but the last, which is the block of the current token.
ShowsBlocks(p, V, kv, b) ==
    LET n == Len(p.blocks)
        last == (kv - 1) \div b
    IN  /\ n \in Nat \ {0} /\ n <= last + 1
        /\ p.blocks \in [1..n -> 0..last]
        /\ \A i, j \in 1..n : i < j => p.blocks[i] < p.blocks[j]
        /\ \A k : (\E i \in 1..n : p.blocks[i] = k) <=> \E q \in V : q \div b = k
        /\ p.blocks[n] = last
        /\ \A i \in 1..n : p.counts[i] = IF i < n THEN b ELSE kv - last * b
        /\ p.seqused = (n - 1) * b + (kv - last * b)
        /\ p.kvLen = kv

\* The plan of a step shows the positions of the reference, for every accepted
\* layout, view, length and block size.
THEOREM PlanIsReference ==
  ASSUME NEW layout, LayoutType(layout), NEW mode, NEW refs,
         DeclaredView(mode, refs, layout),
         NEW kv \in Nat, NEW b \in Nat \ {0}, layout.prompt < kv
  PROVE  ShowsBlocks(Plan(mode, refs, layout, kv, b),
                     ReferenceVisible(mode, refs, layout, kv, b), kv, b)
<1> DEFINE S == VisibleSpans(mode, refs, layout, kv, b)
           B == BlocksOf(S, b)
           V == ReferenceVisible(mode, refs, layout, kv, b)
           last == (kv - 1) \div b
           c == Cardinality(B)
           blocks == InOrder(B)
           counts == [i \in 1..Len(blocks) |-> Covered(S, blocks[i], b, kv)]
<1>1. /\ S \subseteq Spans(kv)
      /\ \A x, y \in S : x # y => x[2] < y[1] \/ y[2] < x[1]
      /\ Positions(S) = V
  BY SpansAreReference
<1>2. WholeBlocks(V, kv, b) /\ V \subseteq 0..(kv - 1) /\ kv - 1 \in V
  BY ReferenceFacts DEF WholeBlocks
<1>3. kv - 1 \in Nat /\ last \in Nat /\ kv \in Nat \ {0}
  BY <1>2, BlockEnds
<1>4. B = {q \div b : q \in V}
  BY <1>1, BlocksOfPositions
<1>5. B \subseteq 0..last /\ last \in B
  <2>1. \A q \in V : q \div b \in 0..last
    BY <1>2, <1>3, BlockEnds, BlockOrder
  <2>2. QED
    BY <1>2, <1>4, <2>1
<1>6. IsFiniteSet(B) /\ c <= last + 1
  <2>1. /\ IsFiniteSet(0..last)
        /\ Cardinality(0..last) = last + 1
    <3>1. last \in Int /\ 0 \in Int /\ ~(0 > last) /\ last - 0 + 1 = last + 1
      BY <1>3
    <3> HIDE DEF last
    <3>2. /\ IsFiniteSet(0..last)
          /\ Cardinality(0..last) = IF 0 > last THEN 0 ELSE last - 0 + 1
      BY <3>1, FS_Interval
    <3>3. QED
      BY <3>1, <3>2
  <2>2. B \in SUBSET (0..last)
    BY <1>5
  <2> HIDE DEF B, last
  <2>3. QED
    BY <2>1, <2>2, FS_Subset
<1>7. B \subseteq Nat
  BY <1>3, <1>5
<1> HIDE DEF S, B, V, last
<1>8. /\ c \in Nat
      /\ blocks \in [1..c -> B]
      /\ \A i, j \in 1..c : i < j => blocks[i] < blocks[j]
      /\ \A x \in B : \E i \in 1..c : blocks[i] = x
  BY <1>6, <1>7, InOrderFacts
<1> HIDE DEF c, blocks
<1>9. Len(blocks) = c
  BY <1>8
<1>10. c # 0
  BY <1>5, <1>8
<1>11. c \in 1..c /\ c - 1 \in Nat
  BY <1>8, <1>10
<1>12. blocks[c] = last
  <2>1. PICK i \in 1..c : blocks[i] = last
    BY <1>5, <1>8
  <2>2. blocks[c] \in 0..last
    BY <1>5, <1>8, <1>11
  <2>3. i < c => blocks[i] < blocks[c]
    BY <1>8, <1>11
  <2>4. QED
    BY <1>3, <1>8, <2>1, <2>2, <2>3
<1>13. ASSUME NEW i \in 1..c
       PROVE  Covered(S, blocks[i], b, kv) = IF i < c THEN b ELSE kv - last * b
  <2>1. blocks[i] \in B /\ blocks[i] \in Nat
    BY <1>7, <1>8
  <2>2. PICK v \in V : v \div b = blocks[i]
    BY <1>4, <2>1
  <2>3. Covered(S, blocks[i], b, kv) = Cardinality(InBlock(V, b, blocks[i]))
    BY <1>1, <2>1, CoveredCount
  <2>4. Cardinality(InBlock(V, b, v \div b)) = IF v \div b < last THEN b ELSE kv - last * b
    BY <1>2, <1>3, <2>2, BlockCount DEF last
  <2>5. i < c <=> blocks[i] < last
    BY <1>3, <1>8, <1>11, <1>12, <2>1
  <2>6. QED
    BY <2>2, <2>3, <2>4, <2>5
<1>14. /\ DOMAIN counts = 1..c
       /\ \A i \in 1..c : counts[i] = IF i < c THEN b ELSE kv - last * b
  BY <1>9, <1>13
<1>15. kv - last * b \in Nat
  BY <1>3, BlockEnds DEF last
<1> HIDE DEF counts
<1>16. Total(counts) = (c - 1) * b + (kv - last * b)
  <2> DEFINE m == c - 1
  <2>1. m \in Nat /\ m + 1 = c /\ DOMAIN counts = 1..(m + 1)
    BY <1>11, <1>14
  <2>2. (\A i \in 1..m : counts[i] = b) /\ counts[m + 1] = kv - last * b
    BY <1>11, <1>14
  <2> HIDE DEF m
  <2>3. Total(counts) = m * b + (kv - last * b)
    BY <1>15, <2>1, <2>2, TotalCount
  <2>4. QED
    BY <2>3 DEF m
<1>17. Plan(mode, refs, layout, kv, b) =
         [blocks |-> blocks, counts |-> counts, seqused |-> Total(counts), kvLen |-> kv]
  BY DEF Plan, counts, blocks, S, B
<1>18. \A k : (\E i \in 1..c : blocks[i] = k) <=> \E q \in V : q \div b = k
  BY <1>4, <1>8
<1>19. blocks \in [1..c -> 0..last]
  BY <1>5, <1>8
<1> DEFINE p == Plan(mode, refs, layout, kv, b)
<1>20. p.blocks = blocks /\ p.counts = counts /\ p.seqused = Total(counts) /\ p.kvLen = kv
  BY <1>17
<1> HIDE DEF p
<1>21. c \in Nat \ {0} /\ c <= last + 1
  BY <1>6, <1>8, <1>10 DEF c
<1>22. /\ Len(p.blocks) \in Nat \ {0} /\ Len(p.blocks) <= last + 1
       /\ p.blocks \in [1..Len(p.blocks) -> 0..last]
       /\ \A i, j \in 1..Len(p.blocks) : i < j => p.blocks[i] < p.blocks[j]
       /\ \A k : (\E i \in 1..Len(p.blocks) : p.blocks[i] = k) <=> \E q \in V : q \div b = k
       /\ p.blocks[Len(p.blocks)] = last
       /\ \A i \in 1..Len(p.blocks) :
             p.counts[i] = IF i < Len(p.blocks) THEN b ELSE kv - last * b
       /\ p.seqused = (Len(p.blocks) - 1) * b + (kv - last * b)
       /\ p.kvLen = kv
  BY <1>8, <1>9, <1>12, <1>14, <1>16, <1>18, <1>19, <1>20, <1>21
<1>23. QED
  BY <1>22 DEF ShowsBlocks, p, V, last

\* What the kernel finds through the compressed table, by its index.
PositionAt(blocks, q, b) == blocks[(q \div b) + 1] * b + (q % b)

LEMMA AtBlock ==
  ASSUME NEW k \in Nat, NEW r \in Nat, NEW b \in Nat \ {0}, r < b
  PROVE  k * b + r \in Nat /\ (k * b + r) \div b = k /\ (k * b + r) % b = r
<1>1. k * b \in Nat /\ k * b + r \in Nat
  OBVIOUS
<1>2. (k * b + r) \div b = k
  BY <1>1, BlockOf
<1>3. k * b + r = ((k * b + r) \div b) * b + ((k * b + r) % b)
  BY <1>1, DivMod
<1>4. (k * b + r) % b \in Nat
  BY <1>1, DivMod
<1>5. QED
  BY <1>1, <1>2, <1>3, <1>4

\* Reading the used prefix of the table of plan p meets every position of V once
\* and nothing else.
ReadsOnce(p, V, b) ==
    /\ p.seqused \in Nat \ {0}
    /\ \A q \in 0..(p.seqused - 1) :
          (q \div b) + 1 \in 1..Len(p.blocks) /\ PositionAt(p.blocks, q, b) \in V
    /\ \A q, r \in 0..(p.seqused - 1) :
          PositionAt(p.blocks, q, b) = PositionAt(p.blocks, r, b) => q = r
    /\ \A v \in V : \E q \in 0..(p.seqused - 1) : PositionAt(p.blocks, q, b) = v

\* Reading the used prefix of the compressed table reads every position of the
\* reference, each once and none besides.
THEOREM TableIsReference ==
  ASSUME NEW layout, LayoutType(layout), NEW mode, NEW refs,
         DeclaredView(mode, refs, layout),
         NEW kv \in Nat, NEW b \in Nat \ {0}, layout.prompt < kv
  PROVE  ReadsOnce(Plan(mode, refs, layout, kv, b),
                   ReferenceVisible(mode, refs, layout, kv, b), b)
<1> DEFINE p == Plan(mode, refs, layout, kv, b)
           n == Len(p.blocks)
           V == ReferenceVisible(mode, refs, layout, kv, b)
           last == (kv - 1) \div b
           rest == kv - last * b
<1>1. /\ n \in Nat \ {0}
      /\ p.blocks \in [1..n -> 0..last]
      /\ \A i, j \in 1..n : i < j => p.blocks[i] < p.blocks[j]
      /\ \A k : (\E i \in 1..n : p.blocks[i] = k) <=> \E q \in V : q \div b = k
      /\ p.blocks[n] = last
      /\ p.seqused = (n - 1) * b + rest
  <2>1. ShowsBlocks(p, V, kv, b)
    BY PlanIsReference
  <2> HIDE DEF p, V
  <2>2. QED
    BY <2>1 DEF ShowsBlocks
<1>2. /\ V \subseteq 0..(kv - 1)
      /\ \A x \in V : \A y \in 0..(kv - 1) : y \div b = x \div b => y \in V
  BY ReferenceFacts DEF WholeBlocks
<1>3. /\ kv - 1 \in Nat /\ last \in Nat /\ last * b \in Nat
      /\ last * b <= kv - 1 /\ kv - 1 < last * b + b
  <2>1. kv - 1 \in Nat
    BY DEF LayoutType
  <2>2. QED
    BY <2>1, BlockEnds
<1> HIDE DEF p, V, last, n
<1>4. rest \in 1..b
  BY <1>3
<1> HIDE DEF rest
<1>5. n - 1 \in Nat /\ (n - 1) * b \in Nat
  BY <1>1
<1>6. p.seqused \in Nat \ {0}
  BY <1>1, <1>4, <1>5
<1>7. ASSUME NEW q \in 0..(p.seqused - 1)
      PROVE  /\ q \in Nat /\ q \div b \in Nat /\ q % b \in Nat /\ q % b < b
             /\ q = (q \div b) * b + (q % b)
             /\ (q \div b) + 1 \in 1..n
             /\ (q \div b) + 1 = n => q % b < rest
  <2>1. q \in Nat /\ q < (n - 1) * b + rest
    BY <1>1, <1>6
  <2>2. /\ q \div b \in Nat /\ q % b \in Nat /\ q % b < b
        /\ q = (q \div b) * b + (q % b)
    BY <2>1, DivMod
  <2> DEFINE k == q \div b
  <2>3. k * b \in Nat
    BY <2>2
  <2> HIDE DEF k
  <2>4. k \in Nat
    BY <2>2 DEF k
  <2>5. n - 1 < k => (n - 1) * b + b <= k * b
    BY <1>5, <2>4, ProductOrder
  <2>6. k * b <= q
    BY <2>2, <2>3 DEF k
  <2>7. k <= n - 1
    BY <1>4, <1>5, <2>1, <2>3, <2>4, <2>5, <2>6
  <2>8. k + 1 = n => k = n - 1
    BY <1>5, <2>4
  <2>9. k = n - 1 => q % b < rest
    BY <1>4, <1>5, <2>1, <2>2, <2>3 DEF k
  <2>10. k + 1 \in 1..n
    BY <1>1, <2>4, <2>7
  <2>11. QED
    BY <2>1, <2>2, <2>8, <2>9, <2>10 DEF k
<1>8. ASSUME NEW i \in 1..n, NEW r \in Nat, r < b, i = n => r < rest
      PROVE  /\ p.blocks[i] \in Nat
             /\ p.blocks[i] * b + r \in V
             /\ (p.blocks[i] * b + r) \div b = p.blocks[i]
             /\ (p.blocks[i] * b + r) % b = r
  <2> DEFINE k == p.blocks[i]
  <2>1. k \in Nat /\ k <= last
    BY <1>1, <1>3
  <2>2. PICK v \in V : v \div b = k
    BY <1>1
  <2> HIDE DEF k
  <2>3. /\ k * b + r \in Nat /\ (k * b + r) \div b = k /\ (k * b + r) % b = r
        /\ k * b \in Nat
    BY <1>8, <2>1, AtBlock
  <2>4. k < last => k * b + b <= last * b
    BY <1>3, <2>1, ProductOrder
  <2>5. i # n => k < last
    <3>1. i # n => i < n /\ n \in 1..n
      BY <1>1
    <3>2. QED
      BY <1>1, <3>1 DEF k
  <2>6. k * b + r <= kv - 1
    <3>1. CASE i # n
      BY <1>3, <1>8, <2>3, <2>4, <2>5, <3>1
    <3>2. CASE i = n
      <4>1. k = last
        BY <1>1, <3>2 DEF k
      <4>2. r < kv - last * b
        BY <1>8, <3>2 DEF rest
      <4>3. QED
        BY <1>3, <2>3, <4>1, <4>2
    <3>3. QED
      BY <3>1, <3>2
  <2>7. k * b + r \in 0..(kv - 1)
    BY <1>3, <2>3, <2>6
  <2>8. k * b + r \in V
    BY <1>2, <2>2, <2>3, <2>7
  <2>9. QED
    BY <2>1, <2>3, <2>8 DEF k
<1>9. ASSUME NEW q \in 0..(p.seqused - 1)
      PROVE  PositionAt(p.blocks, q, b) \in V
  <2>1. p.blocks[(q \div b) + 1] * b + (q % b) \in V
    BY <1>7, <1>8
  <2>2. QED
    BY <2>1 DEF PositionAt
<1>10. ASSUME NEW q \in 0..(p.seqused - 1), NEW r \in 0..(p.seqused - 1),
              PositionAt(p.blocks, q, b) = PositionAt(p.blocks, r, b)
       PROVE  q = r
  <2>1. p.blocks[(q \div b) + 1] = p.blocks[(r \div b) + 1] /\ q % b = r % b
    <3>1. /\ PositionAt(p.blocks, q, b) \div b = p.blocks[(q \div b) + 1]
          /\ PositionAt(p.blocks, q, b) % b = q % b
      BY <1>7, <1>8 DEF PositionAt
    <3>2. /\ PositionAt(p.blocks, r, b) \div b = p.blocks[(r \div b) + 1]
          /\ PositionAt(p.blocks, r, b) % b = r % b
      BY <1>7, <1>8 DEF PositionAt
    <3>3. QED
      BY <1>10, <3>1, <3>2
  <2>2. \A i, j \in 1..n : p.blocks[i] = p.blocks[j] => i = j
    <3>1. \A i, j \in 1..n : p.blocks[i] \in Nat /\ p.blocks[j] \in Nat
      BY <1>1, <1>3
    <3>2. \A i, j \in 1..n : i < j \/ j < i \/ i = j
      BY <1>1
    <3>3. QED
      BY <1>1, <3>1, <3>2
  <2>3. (q \div b) + 1 = (r \div b) + 1
    BY <1>7, <2>1, <2>2
  <2>4. q \div b = r \div b
    BY <1>7, <2>3
  <2>5. QED
    BY <1>7, <2>1, <2>4
<1>11. ASSUME NEW v \in V
       PROVE  \E q \in 0..(p.seqused - 1) : PositionAt(p.blocks, q, b) = v
  <2>1. /\ v \in Nat /\ v <= kv - 1 /\ v \div b \in Nat /\ v % b \in Nat /\ v % b < b
        /\ v = (v \div b) * b + (v % b)
    BY <1>2, <1>3, DivMod
  <2>2. PICK i \in 1..n : p.blocks[i] = v \div b
    BY <1>1
  <2> DEFINE m == i - 1
             r == v % b
             q == m * b + r
  <2>3. m \in Nat /\ m + 1 = i /\ m * b \in Nat /\ r \in Nat /\ r < b
    BY <1>1, <2>1
  <2>4. v = p.blocks[i] * b + r
    BY <2>1, <2>2
  <2> HIDE DEF m, r
  <2>5. q \in Nat /\ q \div b = m /\ q % b = r
    BY <2>3, AtBlock
  <2>6. q < (n - 1) * b + rest
    <3>1. CASE i = n
      <4>1. v = last * b + r
        BY <1>1, <2>4, <3>1
      <4>2. r < rest
        BY <1>3, <2>1, <2>3, <4>1 DEF rest
      <4>3. m = n - 1
        BY <1>1, <2>3, <3>1
      <4>4. QED
        BY <1>4, <1>5, <2>3, <4>2, <4>3
    <3>2. CASE i # n
      <4>1. m < n - 1
        BY <1>1, <2>3, <3>2
      <4>2. m * b + b <= (n - 1) * b
        BY <1>5, <2>3, <4>1, ProductOrder
      <4>3. QED
        BY <1>4, <1>5, <2>3, <4>2
    <3>3. QED
      BY <3>1, <3>2
  <2> HIDE DEF q
  <2>7. q \in 0..(p.seqused - 1)
    BY <1>1, <1>4, <1>5, <1>6, <2>5, <2>6
  <2>8. PositionAt(p.blocks, q, b) = v
    BY <2>3, <2>4, <2>5 DEF PositionAt
  <2>9. QED
    BY <2>7, <2>8
<1>12. ReadsOnce(p, V, b)
  BY <1>6, <1>7, <1>9, <1>10, <1>11 DEF ReadsOnce, n
<1>13. QED
  BY <1>12 DEF p, V

\* A layout that was accepted has a plan for every view but one: with the blocks
\* of all its positions allocated, no check of the plan fails unless the view is
\* local and the request has no local window.
THEOREM PlanIsAccepted ==
  ASSUME NEW layout, LayoutType(layout), NEW mode, NEW refs,
         DeclaredView(mode, refs, layout),
         mode = "local" => layout.window # NoWindow,
         NEW kv \in Nat, NEW b \in Nat \ {0}, layout.prompt < kv,
         NEW maxLen \in Nat, kv <= maxLen,
         NEW table, Len(table) = CeilDiv(kv, b),
         \A i, j \in 1..Len(table) : i # j => table[i] # table[j]
  PROVE  ~PlanRefused(mode, refs, layout, kv, b, table, maxLen)
<1> DEFINE p == Plan(mode, refs, layout, kv, b)
           n == Len(p.blocks)
           V == ReferenceVisible(mode, refs, layout, kv, b)
           last == (kv - 1) \div b
<1>1. /\ n \in Nat \ {0} /\ n <= last + 1
      /\ p.blocks \in [1..n -> 0..last]
      /\ p.blocks[n] = last
      /\ \A i \in 1..n : p.counts[i] = IF i < n THEN b ELSE kv - last * b
      /\ p.seqused = (n - 1) * b + (kv - last * b)
  <2>1. ShowsBlocks(p, V, kv, b)
    BY PlanIsReference
  <2> HIDE DEF p, V
  <2>2. QED
    BY <2>1 DEF ShowsBlocks
<1>2. /\ kv - 1 \in Nat /\ last \in Nat /\ last * b \in Nat
      /\ last * b <= kv - 1 /\ kv - 1 < last * b + b
  <2>1. kv - 1 \in Nat
    BY DEF LayoutType
  <2>2. QED
    BY <2>1, BlockEnds
<1>3. CeilDiv(kv, b) = last + 1 /\ last + 1 <= CeilDiv(maxLen, b)
  <2>1. kv \in Nat \ {0} /\ maxLen \in Nat \ {0} /\ maxLen - 1 \in Nat /\ kv - 1 <= maxLen - 1
    BY <1>2
  <2>2. CeilDiv(kv, b) = last + 1 /\ CeilDiv(maxLen, b) = ((maxLen - 1) \div b) + 1
    BY <2>1, RoundUp DEF CeilDiv
  <2>3. last <= (maxLen - 1) \div b /\ (maxLen - 1) \div b \in Nat
    BY <1>2, <2>1, BlockOrder, BlockEnds
  <2> HIDE DEF last
  <2>4. QED
    BY <1>2, <2>2, <2>3
<1> HIDE DEF p, n, last, V
<1>4. ASSUME NEW i \in 1..n
      PROVE  p.blocks[i] < Len(table) /\ p.blocks[i] * b < kv
  <2>1. p.blocks[i] \in Nat /\ p.blocks[i] <= last
    BY <1>1, <1>2
  <2> DEFINE k == p.blocks[i]
  <2> HIDE DEF k
  <2>2. k \in Nat /\ k <= last
    BY <2>1 DEF k
  <2>3. k * b <= last * b
    <3>1. k < last => k * b + b <= last * b
      BY <1>2, <2>2, ProductOrder
    <3>2. k * b \in Nat
      BY <2>2
    <3>3. QED
      BY <1>2, <2>2, <3>1, <3>2
  <2>4. k * b \in Nat
    BY <2>2
  <2>5. k < Len(table) /\ k * b < kv
    BY <1>2, <1>3, <2>2, <2>3, <2>4
  <2>6. QED
    BY <2>5 DEF k
<1>5. (\A i \in 1..(n - 1) : p.counts[i] = b) /\ p.counts[n] > 0 /\ n \in 1..n
  <2>1. n \in 1..n /\ \A i \in 1..(n - 1) : i \in 1..n /\ i < n
    BY <1>1
  <2>2. p.counts[n] = kv - last * b
    BY <1>1, <2>1
  <2>3. QED
    BY <1>1, <1>2, <2>1, <2>2
<1>6. last \in ToSet(p.blocks)
  <2>1. n \in DOMAIN p.blocks
    BY <1>1, <1>5
  <2>2. QED
    BY <1>1, <2>1 DEF ToSet
<1>7. CeilDiv(p.seqused, b) = n /\ p.seqused <= kv
  <2> DEFINE m == n - 1
             rest == kv - last * b
             u == m * b + rest
  <2>1. m \in Nat /\ m + 1 = n /\ m <= last /\ m * b \in Nat /\ rest \in 1..b
    BY <1>1, <1>2
  <2>2. p.seqused = u
    BY <1>1
  <2>3. m * b <= last * b
    <3>1. m < last => m * b + b <= last * b
      BY <1>2, <2>1, ProductOrder
    <3> HIDE DEF m
    <3>2. QED
      BY <1>2, <2>1, <3>1
  <2> HIDE DEF m
  <2>4. u <= kv
    BY <1>2, <2>1, <2>3
  <2> HIDE DEF rest
  <2>5. u \in Nat \ {0} /\ u - 1 \in Nat /\ m * b <= u - 1 /\ u - 1 < m * b + b
    BY <2>1
  <2> HIDE DEF u
  <2>6. (u - 1) \div b = m
    BY <2>1, <2>5, BlockOf
  <2>7. CeilDiv(u, b) = m + 1
    BY <2>5, <2>6, RoundUp DEF CeilDiv
  <2>8. QED
    BY <2>1, <2>2, <2>4, <2>7
<1>8. refs \subseteq 1..Len(layout.segments) /\ kv > 0 /\ n # 0
  BY <1>1, <1>2 DEF DeclaredView
<1>9. ~(CeilDiv(maxLen, b) < n)
  <2>1. last + 1 <= CeilDiv(maxLen, b)
    BY <1>3
  <2>2. CeilDiv(maxLen, b) \in Nat
    BY BlockEnds, <1>2 DEF CeilDiv
  <2>3. QED
    BY <1>1, <1>2, <2>1, <2>2
<1>10. \A i \in 1..n : ~(p.blocks[i] >= Len(table)) /\ ~(p.blocks[i] * b >= kv)
  <2>1. \A i \in 1..n : p.blocks[i] \in Nat /\ p.blocks[i] * b \in Nat
    <3>1. \A i \in 1..n : p.blocks[i] \in Nat
      <4>1. 0..last \subseteq Nat
        BY <1>2
      <4>2. \A i \in 1..n : p.blocks[i] \in 0..last
        BY <1>1
      <4>3. QED
        BY <4>1, <4>2
    <3>2. \A k \in Nat : k * b \in Nat
      OBVIOUS
    <3>3. QED
      BY <3>1, <3>2
  <2>2. Len(table) \in Nat
    BY <1>2, <1>3
  <2>3. QED
    BY <1>4, <2>1, <2>2
<1>11. ~(p.seqused > kv) /\ p.counts[n] # 0
  <2>1. p.seqused \in Nat
    <3>1. n - 1 \in Nat /\ kv - last * b \in Nat
      BY <1>1, <1>2
    <3>2. (n - 1) * b \in Nat
      BY <3>1
    <3>3. QED
      BY <1>1, <3>1, <3>2
  <2>2. QED
    BY <1>5, <1>7, <2>1
<1>12. QED
  BY <1>3, <1>5, <1>6, <1>7, <1>8, <1>9, <1>10, <1>11 DEF PlanRefused, p, n, last

-----------------------------------------------------------------------------
(* Sums, one number at a time. *)

\* The pairs whose number is the sum of c[1], ..., c[n].
Pairs(c, n) == UNION {{i} \X (1..c[i]) : i \in 1..n}

\* One more number adds itself.
LEMMA PairsGrow ==
  ASSUME NEW n \in Nat, NEW c, c[n + 1] \in Nat, IsFiniteSet(Pairs(c, n))
  PROVE  /\ IsFiniteSet(Pairs(c, n + 1))
         /\ Cardinality(Pairs(c, n + 1)) = Cardinality(Pairs(c, n)) + c[n + 1]
<1> DEFINE t == c[n + 1]
           old == Pairs(c, n)
           more == {n + 1} \X (1..t)
<1>1. /\ IsFiniteSet(1..t) /\ Cardinality(1..t) = t
      /\ IsFiniteSet({n + 1}) /\ Cardinality({n + 1}) = 1
  BY UpTo, FS_Singleton
<1>2. IsFiniteSet(more) /\ Cardinality(more) = t
  <2>1. IsFiniteSet(more) /\ Cardinality(more) = Cardinality({n + 1}) * Cardinality(1..t)
    BY <1>1, FS_Product
  <2>2. QED
    BY <1>1, <2>1
<1>3. Pairs(c, n + 1) = old \cup more
  <2>1. ASSUME NEW x, x \in Pairs(c, n + 1)
        PROVE  x \in old \cup more
    <3>1. PICK i \in 1..(n + 1) : x \in {i} \X (1..c[i])
      BY <2>1 DEF Pairs
    <3>2. CASE i \in 1..n
      BY <3>1, <3>2 DEF Pairs
    <3>3. CASE i = n + 1
      BY <3>1, <3>3
    <3>4. QED
      BY <3>2, <3>3
  <2>2. ASSUME NEW x, x \in old
        PROVE  x \in Pairs(c, n + 1)
    <3>1. PICK i \in 1..n : x \in {i} \X (1..c[i])
      BY <2>2 DEF Pairs
    <3>2. i \in 1..(n + 1)
      OBVIOUS
    <3>3. QED
      BY <3>1, <3>2 DEF Pairs
  <2>3. ASSUME NEW x, x \in more
        PROVE  x \in Pairs(c, n + 1)
    <3>1. n + 1 \in 1..(n + 1)
      OBVIOUS
    <3>2. QED
      BY <2>3, <3>1 DEF Pairs
  <2>4. QED
    BY <2>1, <2>2, <2>3
<1>4. old \cap more = {}
  <2>1. ASSUME NEW x, x \in old, x \in more
        PROVE  FALSE
    <3>1. PICK i \in 1..n : x \in {i} \X (1..c[i])
      BY <2>1 DEF Pairs
    <3>2. x[1] = i /\ x[1] = n + 1
      BY <2>1, <3>1
    <3>3. QED
      BY <3>2
  <2>2. QED
    BY <2>1
<1>5. Cardinality({}) = 0 /\ Cardinality(old) \in Nat
  BY FS_EmptySet, FS_CardinalityType
<1> HIDE DEF old, more, t
<1>6. /\ IsFiniteSet(old \cup more)
      /\ Cardinality(old \cup more) = Cardinality(old) + Cardinality(more) - Cardinality(old \cap more)
  BY <1>2, FS_Union DEF old
<1>7. t \in Nat
  BY DEF t
<1>8. Cardinality(old \cup more) = Cardinality(old) + t
  BY <1>2, <1>4, <1>5, <1>6, <1>7
<1>9. QED
  BY <1>3, <1>6, <1>8 DEF old, t

\* However many.
LEMMA PairsFinite ==
  ASSUME NEW m \in Nat, NEW c, \A i \in 1..m : c[i] \in Nat
  PROVE  \A n \in 0..m : IsFiniteSet(Pairs(c, n))
<1> DEFINE Bad == {n \in 0..m : ~IsFiniteSet(Pairs(c, n))}
<1>1. SUFFICES ASSUME Bad # {} PROVE FALSE
  OBVIOUS
<1>2. PICK n \in Bad : \A k \in Bad : n <= k
  <2>1. Bad \subseteq Nat
    OBVIOUS
  <2> HIDE DEF Bad
  <2>2. QED
    BY <1>1, <2>1, LeastNumber
<1>3. n # 0
  <2>1. Pairs(c, 0) = {}
    BY DEF Pairs
  <2>2. QED
    BY <2>1, FS_EmptySet
<1>4. PICK k \in Nat : n = k + 1
  <2>1. n - 1 \in Nat /\ n = (n - 1) + 1
    BY <1>3
  <2>2. QED
    BY <2>1
<1>5. IsFiniteSet(Pairs(c, k))
  BY <1>2, <1>4
<1>6. c[k + 1] \in Nat
  BY <1>4
<1>7. IsFiniteSet(Pairs(c, k + 1))
  BY <1>5, <1>6, PairsGrow
<1>8. QED
  BY <1>4, <1>7
=============================================================================
