--------------------------- MODULE PagedReadProofs ---------------------------
(***************************************************************************)
(* Proofs about decoding through read views: PagedInv is inductive, for    *)
(* every set of layouts, block size, length and pool of blocks; so every   *)
(* forward reads exactly what the reference shows.                         *)
(***************************************************************************)
EXTENDS PagedRead, ReadViewProofs

LEMMA Bounds ==
  /\ BlockSize \in Nat \ {0} /\ MaxLen \in Nat \ {0} /\ PhysBlocks \subseteq Nat
  /\ \A l \in Layouts : LayoutType(l) /\ l.prompt \in Nat \ {0} /\ l.prompt < MaxLen
<1>1. \A l \in Layouts : ValidLayout(l) => LayoutType(l) /\ l.prompt \in Nat \ {0}
  BY DEF ValidLayout, LayoutType
<1>2. QED
  BY <1>1, PagedAssumption

LEMMA Sequences ==
  ASSUME NEW S, NEW m \in Nat, NEW n \in Nat, n <= m, NEW f \in [1..n -> S]
  PROVE  f \in BoundedSeq(S, m) /\ Len(f) = n
<1>1. n \in 0..m
  OBVIOUS
<1>2. QED
  BY <1>1 DEF BoundedSeq, SeqOf

LEMMA BoundedIsSequence ==
  ASSUME NEW S, NEW m \in Nat, NEW f \in BoundedSeq(S, m)
  PROVE  Len(f) \in 0..m /\ f \in [1..Len(f) -> S] /\ f \in Seq(S)
<1>1. PICK n \in 0..m : f \in [1..n -> S]
  BY DEF BoundedSeq, SeqOf
<1>2. Len(f) = n
  BY <1>1
<1>3. QED
  BY <1>1, <1>2

\* How many blocks n positions take.
LEMMA BlocksFor ==
  ASSUME NEW n \in Nat \ {0}
  PROVE  /\ CeilDiv(n, BlockSize) \in Nat \ {0}
         /\ CeilDiv(n, BlockSize) = ((n - 1) \div BlockSize) + 1
         /\ \A p \in 0..(n - 1) : (p \div BlockSize) + 1 \in 1..CeilDiv(n, BlockSize)
         /\ \A m \in Nat : n <= m => CeilDiv(n, BlockSize) <= CeilDiv(m, BlockSize)
<1> DEFINE last == (n - 1) \div BlockSize
<1>1. BlockSize \in Nat \ {0} /\ n - 1 \in Nat
  BY Bounds
<1>2. last \in Nat /\ CeilDiv(n, BlockSize) = last + 1
  BY <1>1, BlockEnds, RoundUp DEF CeilDiv
<1>3. ASSUME NEW p \in 0..(n - 1)
      PROVE  p \div BlockSize \in Nat /\ p \div BlockSize <= last
  BY <1>1, BlockEnds, BlockOrder
<1>4. ASSUME NEW m \in Nat, n <= m
      PROVE  CeilDiv(n, BlockSize) <= CeilDiv(m, BlockSize)
  <2>1. m \in Nat \ {0} /\ m - 1 \in Nat /\ n - 1 <= m - 1
    BY <1>4
  <2>2. CeilDiv(m, BlockSize) = ((m - 1) \div BlockSize) + 1
    BY <1>1, <2>1, RoundUp DEF CeilDiv
  <2>3. last <= (m - 1) \div BlockSize /\ (m - 1) \div BlockSize \in Nat
    BY <1>1, <2>1, BlockEnds, BlockOrder
  <2> HIDE DEF last
  <2>4. QED
    BY <1>2, <2>2, <2>3
<1> HIDE DEF last
<1>5. QED
  BY <1>2, <1>3, <1>4 DEF last

LEMMA WidthBounds ==
  /\ Width \in Nat \ {0}
  /\ \A n \in Nat \ {0} : n <= MaxLen => CeilDiv(n, BlockSize) <= Width
  BY Bounds, BlocksFor DEF Width

\* A table without repetition gives every position a slot of its own.
LEMMA SlotFacts ==
  ASSUME NEW m \in Nat, NEW tab \in [1..m -> PhysBlocks], IsInjective(tab)
  PROVE  /\ \A p \in Nat : (p \div BlockSize) + 1 \in 1..m => SlotOf(tab, p) \in Slots
         /\ \A p, q \in Nat :
               /\ (p \div BlockSize) + 1 \in 1..m
               /\ (q \div BlockSize) + 1 \in 1..m
               /\ SlotOf(tab, p) = SlotOf(tab, q)
               => p = q
<1>1. BlockSize \in Nat \ {0} /\ PhysBlocks \subseteq Nat
  BY Bounds
<1>2. ASSUME NEW p \in Nat, (p \div BlockSize) + 1 \in 1..m
      PROVE  /\ tab[(p \div BlockSize) + 1] \in PhysBlocks
             /\ p % BlockSize \in Nat /\ p % BlockSize < BlockSize
             /\ SlotOf(tab, p) \div BlockSize = tab[(p \div BlockSize) + 1]
             /\ SlotOf(tab, p) % BlockSize = p % BlockSize
  <2>1. p % BlockSize \in Nat /\ p % BlockSize < BlockSize
    BY <1>1, DivMod
  <2>2. tab[(p \div BlockSize) + 1] \in PhysBlocks
    BY <1>2
  <2>3. QED
    BY <1>1, <2>1, <2>2, AtBlock DEF SlotOf
<1>3. ASSUME NEW p \in Nat, (p \div BlockSize) + 1 \in 1..m
      PROVE  SlotOf(tab, p) \in Slots
  <2>1. p % BlockSize \in 0..(BlockSize - 1)
    BY <1>1, <1>2, <1>3
  <2>2. QED
    BY <1>2, <1>3, <2>1 DEF SlotOf, Slots
<1>4. ASSUME NEW p \in Nat, NEW q \in Nat,
             (p \div BlockSize) + 1 \in 1..m, (q \div BlockSize) + 1 \in 1..m,
             SlotOf(tab, p) = SlotOf(tab, q)
      PROVE  p = q
  <2>1. tab[(p \div BlockSize) + 1] = tab[(q \div BlockSize) + 1] /\ p % BlockSize = q % BlockSize
    BY <1>2, <1>4
  <2>2. (p \div BlockSize) + 1 = (q \div BlockSize) + 1
    BY <1>4, <2>1 DEF IsInjective
  <2>3. /\ p \div BlockSize \in Nat /\ q \div BlockSize \in Nat
        /\ p = (p \div BlockSize) * BlockSize + (p % BlockSize)
        /\ q = (q \div BlockSize) * BlockSize + (q % BlockSize)
    BY <1>1, DivMod
  <2>4. p \div BlockSize = q \div BlockSize
    BY <2>2, <2>3
  <2>5. QED
    BY <2>1, <2>3, <2>4
<1>5. QED
  BY <1>3, <1>4

-----------------------------------------------------------------------------
(* The views, and what a forward reads. *)

LEMMA ViewOfType ==
  ASSUME layout \in Layouts, NEW view \in DeclaredViews
  PROVE  DeclaredView(view[1], view[2], layout)
<1>1. CASE view \in {<<"global", {}>>, <<"local", {}>>}
  BY <1>1 DEF DeclaredView
<1>2. CASE view \in {<<"focus", R>> : R \in SUBSET (1..Len(layout.segments)) \ {{}}}
  <2>1. PICK R \in SUBSET (1..Len(layout.segments)) : view = <<"focus", R>>
    BY <1>2
  <2>2. view[1] = "focus" /\ view[2] = R
    BY <2>1
  <2>3. QED
    BY <2>2 DEF DeclaredView
<1>3. QED
  BY <1>1, <1>2 DEF DeclaredViews

\* The cache c holds the first kv positions where table tab says.
Holds(c, tab, kv) == \A p \in 0..(kv - 1) : c[SlotOf(tab, p)] = p

\* The slots read hold the positions V, each once and no others.
Shows(read, c, V) ==
    /\ IsInjective(read) /\ ToSet(read) \subseteq Slots
    /\ {c[s] : s \in ToSet(read)} = V

\* Through the canonical table, a forward reads every written position.
LEMMA GlobalRead ==
  ASSUME NEW m \in Nat, NEW tab \in [1..m -> PhysBlocks], IsInjective(tab),
         NEW kv \in Nat \ {0}, m = CeilDiv(kv, BlockSize),
         NEW c, Holds(c, tab, kv),
         NEW l, NEW R, l.prompt \in Nat
  PROVE  Shows(Dereferenced(tab, kv), c, ReferenceVisible("global", R, l, kv, BlockSize))
<1> DEFINE read == Dereferenced(tab, kv)
<1>1. read = [j \in 1..kv |-> SlotOf(tab, j - 1)]
  BY DEF Dereferenced
<1> HIDE DEF read
<1>2. \A j \in 1..kv : j - 1 \in 0..(kv - 1) /\ j - 1 \in Nat
  OBVIOUS
<1>3. \A p \in 0..(kv - 1) : (p \div BlockSize) + 1 \in 1..m
  BY BlocksFor
<1>4. \A j \in 1..kv : read[j] \in Slots /\ c[read[j]] = j - 1
  BY <1>1, <1>2, <1>3, SlotFacts DEF Holds
<1>5. DOMAIN read = 1..kv
  BY <1>1
<1>6. IsInjective(read)
  BY <1>4, <1>5 DEF IsInjective
<1>7. ToSet(read) = {read[j] : j \in 1..kv}
  BY <1>5 DEF ToSet
<1>8. {c[s] : s \in ToSet(read)} = 0..(kv - 1)
  <2>1. \A p \in 0..(kv - 1) : p + 1 \in 1..kv /\ (p + 1) - 1 = p
    OBVIOUS
  <2>2. \A p \in 0..(kv - 1) : \E s \in ToSet(read) : c[s] = p
    BY <1>4, <1>7, <2>1
  <2>3. \A s \in ToSet(read) : c[s] \in 0..(kv - 1)
    BY <1>2, <1>4, <1>7
  <2>4. QED
    BY <2>2, <2>3
<1>9. ReferenceVisible("global", R, l, kv, BlockSize) = 0..(kv - 1)
  <2>1. Selected("global", R, l, kv) = 0..(kv - 1)
    BY DEF Selected
  <2>2. QED
    BY <2>1 DEF ReferenceVisible
<1>10. ToSet(read) \subseteq Slots
  BY <1>4, <1>7
<1>11. QED
  BY <1>6, <1>8, <1>9, <1>10 DEF Shows, read

\* Through the compressed table of a plan, a forward reads what the reference
\* shows: the padding behind the blocks is never reached.
LEMMA RestrictedRead ==
  ASSUME NEW m \in Nat, table \in [1..m -> PhysBlocks], IsInjective(table),
         NEW kv \in Nat \ {0}, m = CeilDiv(kv, BlockSize),
         NEW c, Holds(c, table, kv),
         NEW l, LayoutType(l), l.prompt < kv,
         NEW M, NEW R, DeclaredView(M, R, l), kv <= MaxLen
  PROVE  Shows(Dereferenced(Gathered(Plan(M, R, l, kv, BlockSize).blocks),
                            Plan(M, R, l, kv, BlockSize).seqused),
               c, ReferenceVisible(M, R, l, kv, BlockSize))
<1> DEFINE plan == Plan(M, R, l, kv, BlockSize)
           n == Len(plan.blocks)
           V == ReferenceVisible(M, R, l, kv, BlockSize)
           used == plan.seqused
           at(q) == PositionAt(plan.blocks, q, BlockSize)
           row == Gathered(plan.blocks)
           read == Dereferenced(row, used)
<1>1. BlockSize \in Nat \ {0} /\ PhysBlocks \subseteq Nat
  BY Bounds
<1>2. n \in Nat \ {0} /\ n <= m /\ plan.blocks \in [1..n -> 0..(m - 1)]
  <2>1. ShowsBlocks(plan, V, kv, BlockSize)
    BY <1>1, PlanIsReference
  <2> HIDE DEF plan, V
  <2>2. kv - 1 \in Nat /\ m = ((kv - 1) \div BlockSize) + 1
    BY BlocksFor
  <2> DEFINE last == (kv - 1) \div BlockSize
  <2>3. last \in Nat /\ m = last + 1 /\ m - 1 = last
    BY <1>1, <2>2, BlockEnds
  <2>4. n \in Nat \ {0} /\ n <= last + 1 /\ plan.blocks \in [1..n -> 0..last]
    BY <2>1 DEF ShowsBlocks
  <2> HIDE DEF last, n
  <2>5. QED
    BY <2>3, <2>4
<1>3. /\ used \in Nat \ {0}
      /\ \A q \in 0..(used - 1) : (q \div BlockSize) + 1 \in 1..n /\ at(q) \in V
      /\ \A q, r \in 0..(used - 1) : at(q) = at(r) => q = r
      /\ \A v \in V : \E q \in 0..(used - 1) : at(q) = v
  <2>1. ReadsOnce(plan, V, BlockSize)
    BY <1>1, TableIsReference
  <2> HIDE DEF plan, V
  <2>2. QED
    BY <2>1 DEF ReadsOnce
<1>4. V \subseteq 0..(kv - 1)
  BY <1>1, ReferenceFacts DEF WholeBlocks
<1>5. Width \in Nat /\ n <= Width
  BY <1>2, WidthBounds
<1>6. row = [k \in 1..Width |-> table[plan.blocks[IF k <= n THEN k ELSE n] + 1]]
  BY DEF Gathered
<1>7. read = [j \in 1..used |-> SlotOf(row, j - 1)]
  BY DEF Dereferenced
<1> HIDE DEF plan, n, V, used, row, read
<1>8. ASSUME NEW q \in 0..(used - 1)
      PROVE  SlotOf(row, q) = SlotOf(table, at(q))
  <2> DEFINE i == (q \div BlockSize) + 1
  <2>1. q \in Nat /\ q % BlockSize \in Nat /\ q % BlockSize < BlockSize
    BY <1>1, <1>3, DivMod
  <2>2. i \in 1..n /\ i \in 1..Width /\ i <= n
    BY <1>2, <1>3, <1>5
  <2>3. row[i] = table[plan.blocks[i] + 1]
    BY <1>6, <2>2
  <2>4. plan.blocks[i] \in Nat
    BY <1>2, <2>2
  <2>5. at(q) \div BlockSize = plan.blocks[i] /\ at(q) % BlockSize = q % BlockSize
    BY <1>1, <2>1, <2>4, AtBlock DEF PositionAt
  <2>6. QED
    BY <2>3, <2>5 DEF SlotOf
<1>9. ASSUME NEW q \in 0..(used - 1)
      PROVE  SlotOf(row, q) \in Slots /\ c[SlotOf(row, q)] = at(q)
  <2>1. at(q) \in 0..(kv - 1)
    BY <1>3, <1>4, Zenon
  <2>2. (at(q) \div BlockSize) + 1 \in 1..m
    BY <2>1, BlocksFor
  <2>3. QED
    BY <1>8, <2>1, <2>2, SlotFacts DEF Holds
<1>10. \A j \in 1..used : j - 1 \in 0..(used - 1)
  BY <1>3
<1>11. \A j \in 1..used : read[j] \in Slots /\ c[read[j]] = at(j - 1)
  BY <1>7, <1>9, <1>10
<1>12. DOMAIN read = 1..used
  BY <1>7
<1>13. IsInjective(read)
  <2>1. ASSUME NEW i \in 1..used, NEW j \in 1..used, read[i] = read[j]
        PROVE  i = j
    <3>1. i - 1 = j - 1
      <4>1. at(i - 1) = at(j - 1)
        BY <1>11, <2>1
      <4>2. QED
        BY <1>3, <1>10, <4>1
    <3>2. QED
      BY <1>3, <3>1
  <2>2. QED
    BY <1>12, <2>1 DEF IsInjective
<1>14. ToSet(read) = {read[j] : j \in 1..used}
  BY <1>12 DEF ToSet
<1>15. ToSet(read) \subseteq Slots
  BY <1>11, <1>14
<1>16. {c[s] : s \in ToSet(read)} = V
  <2>1. ASSUME NEW v \in V
        PROVE  \E s \in ToSet(read) : c[s] = v
    <3>1. PICK q \in 0..(used - 1) : at(q) = v
      BY <1>3
    <3>2. q + 1 \in 1..used /\ (q + 1) - 1 = q
      BY <1>3
    <3>3. c[read[q + 1]] = v /\ read[q + 1] \in ToSet(read)
      BY <1>11, <1>14, <3>1, <3>2
    <3>4. QED
      BY <3>3
  <2>2. ASSUME NEW s \in ToSet(read)
        PROVE  c[s] \in V
    <3>1. PICK j \in 1..used : s = read[j]
      BY <1>14
    <3>2. QED
      BY <1>3, <1>10, <1>11, <3>1
  <2>3. QED
    BY <2>1, <2>2
<1>17. QED
  BY <1>13, <1>15, <1>16 DEF Shows, read, row, V, used, plan

-----------------------------------------------------------------------------
(* Every action keeps PagedInv. *)

LEMMA StateFacts ==
  ASSUME TypeOK
  PROVE  /\ layout \in Layouts /\ LayoutType(layout)
         /\ layout.prompt \in Nat \ {0} /\ layout.prompt < MaxLen
         /\ DeclaredView(mode, refs, layout)
         /\ kvLen \in Nat /\ kvLen <= MaxLen /\ MaxLen \in Nat
         /\ table \in [1..Len(table) -> PhysBlocks] /\ Len(table) \in Nat
         /\ cache \in [Slots -> 0..(MaxLen - 1) \cup {Junk}]
<1>1. /\ layout \in Layouts /\ <<mode, refs>> \in DeclaredViews /\ kvLen \in 0..MaxLen
      /\ table \in BoundedSeq(PhysBlocks, Width)
      /\ cache \in [Slots -> 0..(MaxLen - 1) \cup {Junk}]
  BY DEF TypeOK
<1>2. LayoutType(layout) /\ layout.prompt \in Nat \ {0} /\ layout.prompt < MaxLen /\ MaxLen \in Nat
  BY <1>1, Bounds
<1>3. kvLen \in Nat /\ kvLen <= MaxLen
  BY <1>1, <1>2
<1>4. table \in [1..Len(table) -> PhysBlocks] /\ Len(table) \in Nat
  BY <1>1, WidthBounds, BoundedIsSequence
<1>5. DeclaredView(mode, refs, layout)
  BY <1>1, ViewOfType
<1>6. QED
  BY <1>1, <1>2, <1>3, <1>4, <1>5

\* What the device does next, and what is left behind it.
LEMMA Pending ==
  ASSUME StepInPlace, stream # <<>>
  PROVE  /\ phase = "running"
         /\ \/ /\ mode = "global"
               /\ Head(stream) = Forwarding(FALSE) /\ Tail(stream) = <<>>
            \/ /\ mode # "global"
               /\ staging = [index |-> StepPlan.blocks, len |-> StepPlan.seqused]
               /\ \/ /\ Head(stream) = [op |-> "index"]
                     /\ Tail(stream) = <<[op |-> "length"], Forwarding(TRUE)>>
                  \/ /\ Head(stream) = [op |-> "length"]
                     /\ Tail(stream) = <<Forwarding(TRUE)>>
                     /\ rowTable = Gathered(StepPlan.blocks)
                  \/ /\ Head(stream) = Forwarding(TRUE) /\ Tail(stream) = <<>>
                     /\ rowTable = Gathered(StepPlan.blocks)
                     /\ rowLen = StepPlan.seqused
<1>1. phase = "running"
  BY DEF StepInPlace
<1>2. CASE mode = "global"
  <2>1. stream = <<Forwarding(FALSE)>>
    BY <1>2 DEF StepInPlace
  <2>2. QED
    BY <1>1, <1>2, <2>1
<1>3. CASE mode # "global"
  <2>1. staging = [index |-> StepPlan.blocks, len |-> StepPlan.seqused]
    BY <1>3 DEF StepInPlace
  <2>2. \/ stream = <<[op |-> "index"], [op |-> "length"], Forwarding(TRUE)>>
        \/ /\ stream = <<[op |-> "length"], Forwarding(TRUE)>>
           /\ rowTable = Gathered(StepPlan.blocks)
        \/ /\ stream = <<Forwarding(TRUE)>>
           /\ rowTable = Gathered(StepPlan.blocks)
           /\ rowLen = StepPlan.seqused
    BY <1>3 DEF StepInPlace
  <2>3. CASE stream = <<[op |-> "index"], [op |-> "length"], Forwarding(TRUE)>>
    <3>1. /\ Head(stream) = [op |-> "index"]
          /\ Tail(stream) = <<[op |-> "length"], Forwarding(TRUE)>>
      <4>1. \A x, y, z : Head(<<x, y, z>>) = x /\ Tail(<<x, y, z>>) = <<y, z>>
        OBVIOUS
      <4>2. QED
        BY <2>3, <4>1
    <3>2. QED
      BY <1>1, <1>3, <2>1, <3>1
  <2>4. CASE /\ stream = <<[op |-> "length"], Forwarding(TRUE)>>
             /\ rowTable = Gathered(StepPlan.blocks)
    <3>1. Head(stream) = [op |-> "length"] /\ Tail(stream) = <<Forwarding(TRUE)>>
      <4>1. \A x, y : Head(<<x, y>>) = x /\ Tail(<<x, y>>) = <<y>>
        OBVIOUS
      <4>2. QED
        BY <2>4, <4>1
    <3>2. QED
      BY <1>1, <1>3, <2>1, <2>4, <3>1
  <2>5. CASE /\ stream = <<Forwarding(TRUE)>>
             /\ rowTable = Gathered(StepPlan.blocks)
             /\ rowLen = StepPlan.seqused
    <3>1. Head(stream) = Forwarding(TRUE) /\ Tail(stream) = <<>>
      BY <2>5
    <3>2. QED
      BY <1>1, <1>3, <2>1, <2>5, <3>1
  <2>6. QED
    BY <2>2, <2>3, <2>4, <2>5
<1>4. QED
  BY <1>2, <1>3

LEMMA OpNames ==
  /\ Forwarding(TRUE).op = "forward" /\ Forwarding(FALSE).op = "forward"
  /\ [op |-> "index"].op = "index" /\ [op |-> "length"].op = "length"
  /\ Forwarding(TRUE).override = TRUE /\ Forwarding(FALSE).override = FALSE
  /\ Forwarding(TRUE).kvLen = kvLen /\ Forwarding(FALSE).kvLen = kvLen
  /\ Forwarding(TRUE).mode = mode /\ Forwarding(FALSE).mode = mode
  /\ Forwarding(TRUE).refs = refs /\ Forwarding(FALSE).refs = refs
BY DEF Forwarding

\* Nothing is read of nothing.
LEMMA EmptyRead ==
  ASSUME NEW c, NEW l, NEW b
  PROVE  /\ IsInjective(<<>>) /\ ToSet(<<>>) \subseteq Slots
         /\ {c[s] : s \in ToSet(<<>>)} = ReferenceVisible("global", {}, l, 0, b)
<1>1. ToSet(<<>>) = {}
  BY DEF ToSet
<1>2. ReferenceVisible("global", {}, l, 0, b) = {}
  <2>1. \A p : p \notin 0..(0 - 1)
    OBVIOUS
  <2>2. QED
    BY <2>1 DEF ReferenceVisible
<1>3. IsInjective(<<>>)
  BY DEF IsInjective
<1>4. QED
  BY <1>1, <1>2, <1>3

LEMMA InitHolds == Init => PagedInv
<1> SUFFICES ASSUME Init PROVE PagedInv
  OBVIOUS
<1>1. /\ layout \in Layouts /\ mode = "global" /\ refs = {} /\ kvLen = 0 /\ table = <<>>
      /\ phase = "new" /\ staging = [index |-> <<>>, len |-> 0] /\ stream = <<>>
      /\ rowTable = <<>> /\ rowLen = 0 /\ cache = [s \in Slots |-> Junk]
      /\ step = NoStep /\ slots = <<>>
  BY DEF Init
<1>2. \A S : <<>> \in BoundedSeq(S, Width)
  <2>1. \A S : <<>> \in [1..0 -> S]
    OBVIOUS
  <2>2. 0 \in 0..Width
    BY WidthBounds
  <2>3. QED
    BY <2>1, <2>2 DEF BoundedSeq, SeqOf
<1>3. /\ IsInjective(slots) /\ ToSet(slots) \subseteq Slots
      /\ {cache[s] : s \in ToSet(slots)} =
            ReferenceVisible("global", {}, layout, 0, BlockSize)
  BY <1>1, EmptyRead
<1>4. TypeOK
  <2>1. <<mode, refs>> \in DeclaredViews
    BY <1>1 DEF DeclaredViews
  <2>2. cache \in [Slots -> 0..(MaxLen - 1) \cup {Junk}]
    BY <1>1
  <2>3. kvLen \in 0..MaxLen /\ rowLen \in 0..MaxLen /\ staging.len \in 0..MaxLen
    BY <1>1, Bounds
  <2>4. Len(rowTable) = 0
    BY <1>1
  <2>5. table \in BoundedSeq(PhysBlocks, Width)
        /\ staging.index \in BoundedSeq(0..(Width - 1), Width)
    BY <1>1, <1>2
  <2>6. QED
    BY <1>1, <1>3, <2>1, <2>2, <2>3, <2>4, <2>5 DEF TypeOK
<1>5. Written /\ WritesAreCanonical
  <2>1. \A p : p \notin 0..(kvLen - 1)
    BY <1>1
  <2>2. QED
    BY <2>1 DEF Written, WritesAreCanonical
<1>6. TableHolds /\ StepInPlace /\ PlanAlwaysExists
  BY <1>1 DEF TableHolds, StepInPlace, PlanAlwaysExists
<1>7. ReadsExactlyVisible
  BY <1>1, <1>3 DEF ReadsExactlyVisible, NoStep
<1>8. QED
  BY <1>4, <1>5, <1>6, <1>7 DEF PagedInv

LEMMA PrefillKeeps ==
  ASSUME PagedInv, NEW tab \in BoundedSeq(PhysBlocks, Width), Prefill(tab)
  PROVE  PagedInv'
<1>1. TypeOK /\ TableHolds /\ StepInPlace /\ PlanAlwaysExists
  BY DEF PagedInv
<1>2. /\ phase = "new" /\ phase' = "idle" /\ table' = tab /\ kvLen' = layout.prompt
      /\ cache' = [s \in Slots |->
                     IF \E p \in 0..(layout.prompt - 1) : SlotOf(tab, p) = s
                     THEN CHOOSE p \in 0..(layout.prompt - 1) : SlotOf(tab, p) = s
                     ELSE cache[s]]
      /\ UNCHANGED <<layout, mode, refs, staging, stream, rowTable, rowLen, step, slots>>
      /\ Len(tab) = CeilDiv(layout.prompt, BlockSize) /\ IsInjective(tab)
  BY DEF Prefill, Allocated
<1> DEFINE prompt == layout.prompt
<1>3. /\ prompt \in Nat \ {0} /\ prompt < MaxLen /\ MaxLen \in Nat
      /\ cache \in [Slots -> 0..(MaxLen - 1) \cup {Junk}] /\ layout \in Layouts
  BY <1>1, StateFacts
<1>4. step = NoStep /\ slots = <<>> /\ stream = <<>>
  BY <1>1, <1>2 DEF TableHolds, StepInPlace
<1>5. tab \in [1..CeilDiv(prompt, BlockSize) -> PhysBlocks] /\ CeilDiv(prompt, BlockSize) \in Nat
  BY <1>2, WidthBounds, BoundedIsSequence
<1> HIDE DEF prompt
<1>6. \A p \in 0..(prompt - 1) :
         p \in Nat /\ (p \div BlockSize) + 1 \in 1..CeilDiv(prompt, BlockSize)
  BY <1>3, BlocksFor
<1>7. \A p \in 0..(prompt - 1) : cache'[SlotOf(tab, p)] = p
  <2> SUFFICES ASSUME NEW p \in 0..(prompt - 1) PROVE cache'[SlotOf(tab, p)] = p
    OBVIOUS
  <2>1. SlotOf(tab, p) \in Slots
    BY <1>2, <1>5, <1>6, SlotFacts
  <2>2. \A q \in 0..(prompt - 1) : SlotOf(tab, q) = SlotOf(tab, p) => q = p
    BY <1>2, <1>5, <1>6, SlotFacts
  <2>3. (CHOOSE q \in 0..(prompt - 1) : SlotOf(tab, q) = SlotOf(tab, p)) = p
    BY <2>2
  <2>4. cache'[SlotOf(tab, p)] = CHOOSE q \in 0..(prompt - 1) : SlotOf(tab, q) = SlotOf(tab, p)
    BY <1>2, <2>1 DEF prompt
  <2>5. QED
    BY <2>3, <2>4
<1>8. cache' \in [Slots -> 0..(MaxLen - 1) \cup {Junk}]
  <2>1. 0..(prompt - 1) \subseteq 0..(MaxLen - 1)
    BY <1>3
  <2>2. ASSUME NEW s \in Slots
        PROVE  (IF \E p \in 0..(prompt - 1) : SlotOf(tab, p) = s
                THEN CHOOSE p \in 0..(prompt - 1) : SlotOf(tab, p) = s
                ELSE cache[s]) \in 0..(MaxLen - 1) \cup {Junk}
    <3>1. CASE \E p \in 0..(prompt - 1) : SlotOf(tab, p) = s
      <4>1. (CHOOSE p \in 0..(prompt - 1) : SlotOf(tab, p) = s) \in 0..(prompt - 1)
        BY <3>1
      <4>2. QED
        BY <2>1, <3>1, <4>1
    <3>2. CASE ~\E p \in 0..(prompt - 1) : SlotOf(tab, p) = s
      BY <1>3, <3>2
    <3>3. QED
      BY <3>1, <3>2
  <2>3. QED
    BY <1>2, <2>2 DEF prompt
<1>9. TypeOK'
  <2>1. kvLen' \in 0..MaxLen
    BY <1>2, <1>3 DEF prompt
  <2>2. table' \in BoundedSeq(PhysBlocks, Width)
    BY <1>2
  <2>3. QED
    BY <1>1, <1>2, <1>8, <2>1, <2>2 DEF TypeOK, DeclaredViews
<1>10. Written' /\ WritesAreCanonical'
  <2>1. \A p \in 0..(kvLen' - 1) : cache'[SlotOf(table', p)] = p
    BY <1>2, <1>7 DEF prompt
  <2>2. QED
    BY <2>1 DEF Written, WritesAreCanonical, SlotOf
<1>11. TableHolds'
  BY <1>2, <1>3 DEF TableHolds, prompt
<1>12. StepInPlace' /\ PlanAlwaysExists'
  BY <1>2, <1>4 DEF StepInPlace, PlanAlwaysExists
<1>13. ReadsExactlyVisible'
  <2>1. step' = NoStep /\ slots' = <<>> /\ layout' = layout
    BY <1>2, <1>4
  <2>2. /\ IsInjective(slots')
        /\ {cache'[s] : s \in ToSet(slots')} =
              ReferenceVisible("global", {}, layout', 0, BlockSize)
    BY <2>1, EmptyRead
  <2>3. step'.mode = "global" /\ step'.refs = {} /\ step'.kvLen = 0
    BY <2>1 DEF NoStep
  <2>4. QED
    BY <2>2, <2>3 DEF ReadsExactlyVisible
<1>14. QED
  BY <1>9, <1>10, <1>11, <1>12, <1>13 DEF PagedInv

\* Scheduling a token: the table grows to hold it, and a plan that is refused is
\* the local view of a request without a window.
LEMMA BeginStepKeeps ==
  ASSUME PagedInv, NEW tab \in Tables, BeginStep(tab)
  PROVE  PagedInv'
<1>1. /\ TypeOK /\ TableHolds /\ StepInPlace /\ PlanAlwaysExists
      /\ Written /\ ReadsExactlyVisible
  BY DEF PagedInv
<1> DEFINE kv == kvLen + 1
           plan == Plan(mode, refs, layout, kv, BlockSize)
           refused == PlanRefused(mode, refs, layout, kv, BlockSize, tab, MaxLen)
<1>2. /\ phase = "idle" /\ kvLen < MaxLen /\ table' = tab /\ kvLen' = kv
      /\ Len(tab) = CeilDiv(kv, BlockSize) /\ IsInjective(tab)
      /\ SubSeq(tab, 1, Len(table)) = table
      /\ UNCHANGED <<layout, mode, refs, rowTable, rowLen, cache, step, slots>>
      /\ \/ /\ mode = "global" /\ phase' = "running"
            /\ stream' = stream \o Operations(FALSE) /\ staging' = staging
         \/ /\ mode # "global" /\ refused /\ phase' = "refused"
            /\ stream' = stream /\ staging' = staging
         \/ /\ mode # "global" /\ ~refused /\ phase' = "running"
            /\ staging' = [index |-> plan.blocks, len |-> plan.seqused]
            /\ stream' = stream \o Operations(TRUE)
  BY DEF BeginStep, Allocated
<1>3. /\ layout \in Layouts /\ LayoutType(layout) /\ layout.prompt \in Nat
      /\ DeclaredView(mode, refs, layout)
      /\ kvLen \in Nat /\ MaxLen \in Nat
      /\ table \in [1..Len(table) -> PhysBlocks] /\ Len(table) \in Nat
      /\ cache \in [Slots -> 0..(MaxLen - 1) \cup {Junk}]
  BY <1>1, StateFacts
<1>4. stream = <<>> /\ layout.prompt <= kvLen /\ Len(table) = CeilDiv(kvLen, BlockSize)
  BY <1>1, <1>2 DEF StepInPlace, TableHolds
<1>5. kv \in Nat \ {0} /\ kv <= MaxLen /\ layout.prompt < kv
  BY <1>2, <1>3, <1>4
<1>6. tab \in [1..CeilDiv(kv, BlockSize) -> PhysBlocks] /\ CeilDiv(kv, BlockSize) \in Nat
  <2>1. tab \in Seq(PhysBlocks)
    <3>1. table \in Seq(PhysBlocks)
      BY <1>3
    <3>2. QED
      BY <3>1 DEF Tables
  <2>2. QED
    BY <1>2, <2>1
<1>7. tab \in BoundedSeq(PhysBlocks, Width)
  BY <1>5, <1>6, WidthBounds, Sequences
<1>8. \A p \in 0..(kvLen - 1) : SlotOf(tab, p) = SlotOf(table, p)
  <2> SUFFICES ASSUME NEW p \in 0..(kvLen - 1)
               PROVE  tab[(p \div BlockSize) + 1] = table[(p \div BlockSize) + 1]
    BY DEF SlotOf
  <2>1. kvLen \in Nat \ {0}
    BY <1>3
  <2>2. (p \div BlockSize) + 1 \in 1..Len(table)
    BY <1>4, <2>1, BlocksFor
  <2> DEFINE i == (p \div BlockSize) + 1
  <2> HIDE DEF i
  <2>3. i \in 1..Len(table)
    BY <2>2 DEF i
  <2>4. CASE tab = table
    BY <2>4
  <2>5. ASSUME NEW k \in PhysBlocks, tab = Append(table, k)
        PROVE  tab[i] = table[i]
    <3>1. table \in Seq(PhysBlocks)
      BY <1>3
    <3>2. QED
      BY <2>3, <2>5, <3>1
  <2>6. tab[i] = table[i]
    BY <2>4, <2>5 DEF Tables
  <2>7. QED
    BY <2>6 DEF i
<1> HIDE DEF kv, plan, refused
<1>9. \A p \in 0..(kvLen - 1) : cache[SlotOf(tab, p)] = p
  BY <1>1, <1>2, <1>4, <1>8 DEF Written
<1>10. Operations(FALSE) = <<Forwarding(FALSE)'>>
       /\ Operations(TRUE) = <<[op |-> "index"], [op |-> "length"], Forwarding(TRUE)'>>
  BY <1>2 DEF Operations, Forwarding, kv
<1>11. stream' # <<>> \/ phase' = "refused"
  <2>1. \A x, y, z : <<>> \o <<x>> # <<>> /\ <<>> \o <<x, y, z>> # <<>>
    OBVIOUS
  <2>2. QED
    BY <1>2, <1>4, <1>10, <2>1
<1>12. ~refused => /\ plan.blocks \in BoundedSeq(0..(Width - 1), Width)
                   /\ plan.seqused \in 0..MaxLen
  <2> SUFFICES ASSUME ~refused
               PROVE  /\ plan.blocks \in BoundedSeq(0..(Width - 1), Width)
                      /\ plan.seqused \in 0..MaxLen
    OBVIOUS
  <2> DEFINE n == Len(plan.blocks)
             V == ReferenceVisible(mode, refs, layout, kv, BlockSize)
             last == (kv - 1) \div BlockSize
  <2>1. ShowsBlocks(plan, V, kv, BlockSize) /\ ReadsOnce(plan, V, BlockSize)
    BY <1>3, <1>5, Bounds, PlanIsReference, TableIsReference DEF plan
  <2>2. plan.seqused <= kv /\ plan.seqused \in Nat
    <3>1. ~(plan.seqused > kv)
      BY DEF refused, PlanRefused, plan
    <3>2. plan.seqused \in Nat
      BY <2>1 DEF ReadsOnce
    <3>3. QED
      BY <1>5, <3>1, <3>2
  <2>3. last + 1 <= Width /\ last \in Nat /\ Width \in Nat
    BY <1>5, WidthBounds, BlocksFor, BlockEnds, Bounds
  <2> HIDE DEF V
  <2>4. n \in Nat /\ n <= last + 1 /\ plan.blocks \in [1..n -> 0..last]
    BY <2>1 DEF ShowsBlocks
  <2> HIDE DEF n, last
  <2>5. plan.blocks \in [1..n -> 0..(Width - 1)] /\ n <= Width
    <3>1. 0..last \subseteq 0..(Width - 1)
      BY <2>3
    <3>2. QED
      BY <2>3, <2>4, <3>1
  <2>6. plan.blocks \in BoundedSeq(0..(Width - 1), Width)
    BY <2>3, <2>4, <2>5, Sequences
  <2>7. QED
    BY <1>3, <1>5, <2>2, <2>6
<1>13. refused => mode = "local" /\ layout.window = NoWindow
  <2>1. \A i, j \in 1..Len(tab) : i # j => tab[i] # tab[j]
    BY <1>2, <1>6 DEF IsInjective
  <2>2. (mode = "local" => layout.window # NoWindow) => ~refused
    BY <1>2, <1>3, <1>5, <2>1, Bounds, PlanIsAccepted DEF refused
  <2>3. QED
    BY <2>2
<1>14. TypeOK'
  <2>1. /\ staging'.index \in BoundedSeq(0..(Width - 1), Width)
        /\ staging'.len \in 0..MaxLen
    <3>1. CASE staging' = staging
      BY <1>1, <3>1 DEF TypeOK
    <3>2. CASE ~refused /\ staging' = [index |-> plan.blocks, len |-> plan.seqused]
      BY <1>12, <3>2
    <3>3. QED
      BY <1>2, <3>1, <3>2
  <2>2. kvLen' \in 0..MaxLen
    BY <1>2, <1>3, <1>5
  <2>3. phase' \in {"new", "idle", "running", "refused"}
    BY <1>2
  <2>4. QED
    BY <1>1, <1>2, <1>7, <2>1, <2>2, <2>3 DEF TypeOK, DeclaredViews
<1>15. Written'
  <2>1. kvLen' - 1 = kvLen
    BY <1>2, <1>3 DEF kv
  <2>2. \A p \in 0..(kvLen' - 1) : p < kvLen' - 1 => p \in 0..(kvLen - 1)
    BY <1>3, <2>1
  <2>3. \A p \in 0..(kvLen' - 1) : p < kvLen' - 1 => cache'[SlotOf(tab, p)] = p
    BY <1>2, <1>9, <2>2
  <2>4. QED
    BY <1>2, <1>11, <2>3 DEF Written, SlotOf
<1>16. WritesAreCanonical'
  BY <1>2, <1>15 DEF WritesAreCanonical, Written
<1>17. TableHolds'
  <2>1. phase' \in {"running", "refused"}
    BY <1>2
  <2>2. layout'.prompt < kvLen' /\ layout'.prompt <= kvLen'
    BY <1>2, <1>3, <1>5
  <2>3. IsInjective(table') /\ Len(table') = CeilDiv(kvLen', BlockSize)
    BY <1>2
  <2>4. QED
    BY <2>1, <2>2, <2>3 DEF TableHolds
<1>18. PlanAlwaysExists'
  BY <1>2, <1>13 DEF PlanAlwaysExists
<1>19. StepInPlace'
  <2>1. StepPlan' = plan
    BY <1>2 DEF StepPlan, plan
  <2>2. \A s : <<>> \o <<s>> = <<s>>
    OBVIOUS
  <2>3. \A s, t, u : <<>> \o <<s, t, u>> = <<s, t, u>>
    OBVIOUS
  <2>4. CASE mode = "global"
    <3>1. stream' = <<Forwarding(FALSE)'>> /\ phase' = "running" /\ mode' = "global"
      BY <1>2, <1>4, <1>10, <2>2, <2>4
    <3>2. QED
      BY <3>1 DEF StepInPlace
  <2>5. CASE mode # "global" /\ refused
    BY <1>2, <1>4, <2>5 DEF StepInPlace
  <2>6. CASE mode # "global" /\ ~refused
    <3>1. /\ stream' = <<[op |-> "index"], [op |-> "length"], Forwarding(TRUE)'>>
          /\ phase' = "running" /\ mode' # "global"
          /\ staging' = [index |-> StepPlan'.blocks, len |-> StepPlan'.seqused]
      BY <1>2, <1>4, <1>10, <2>1, <2>3, <2>6
    <3>2. QED
      BY <3>1 DEF StepInPlace
  <2>7. QED
    BY <2>4, <2>5, <2>6
<1>20. ReadsExactlyVisible'
  BY <1>1, <1>2 DEF ReadsExactlyVisible
<1>21. QED
  BY <1>14, <1>15, <1>16, <1>17, <1>18, <1>19, <1>20 DEF PagedInv

\* What a device operation leaves alone.
LEMMA SameStep ==
  ASSUME UNCHANGED <<layout, mode, refs, kvLen, table>>
  PROVE  /\ StepPlan' = StepPlan
         /\ Forwarding(TRUE)' = Forwarding(TRUE)
         /\ Forwarding(FALSE)' = Forwarding(FALSE)
         /\ Gathered(StepPlan.blocks)' = Gathered(StepPlan.blocks)
<1>1. StepPlan' = StepPlan
  BY DEF StepPlan
<1>2. Forwarding(TRUE)' = Forwarding(TRUE) /\ Forwarding(FALSE)' = Forwarding(FALSE)
  BY DEF Forwarding
<1>3. Gathered(StepPlan.blocks)' = Gathered(StepPlan.blocks)
  BY <1>1 DEF Gathered
<1>4. QED
  BY <1>1, <1>2, <1>3

LEMMA CopyIndexKeeps ==
  ASSUME PagedInv, CopyIndex
  PROVE  PagedInv'
<1>1. /\ TypeOK /\ TableHolds /\ StepInPlace /\ PlanAlwaysExists
      /\ Written /\ WritesAreCanonical /\ ReadsExactlyVisible
  BY DEF PagedInv
<1>2. /\ stream # <<>> /\ Head(stream).op = "index"
      /\ rowTable' = Gathered(staging.index) /\ stream' = Tail(stream)
      /\ UNCHANGED <<layout, mode, refs, kvLen, table, phase, staging, rowLen, cache,
                     step, slots>>
  BY DEF CopyIndex
<1>3. /\ phase = "running" /\ mode # "global"
      /\ staging = [index |-> StepPlan.blocks, len |-> StepPlan.seqused]
      /\ Tail(stream) = <<[op |-> "length"], Forwarding(TRUE)>>
  <2>1. Head(stream).op # "forward" /\ Head(stream).op # "length"
    BY <1>2
  <2>2. QED
    BY <1>1, <1>2, <2>1, Pending, OpNames
<1>4. rowTable' = Gathered(StepPlan.blocks)
  BY <1>2, <1>3
<1>5. TypeOK'
  <2>1. Len(rowTable') = Width
    <3>1. Width \in Nat
      BY WidthBounds
    <3>2. QED
      BY <1>4, <3>1 DEF Gathered
  <2>2. QED
    BY <1>1, <1>2, <2>1 DEF TypeOK, DeclaredViews
<1>6. StepInPlace'
  <2>1. /\ stream' = <<[op |-> "length"], Forwarding(TRUE)'>>
        /\ rowTable' = Gathered(StepPlan.blocks)'
        /\ staging' = [index |-> StepPlan'.blocks, len |-> StepPlan'.seqused]
        /\ phase' = "running" /\ mode' # "global"
    BY <1>2, <1>3, <1>4, SameStep
  <2>2. QED
    BY <2>1 DEF StepInPlace
<1>7. stream' # <<>>
  BY <1>2, <1>3
<1>8. Written' /\ WritesAreCanonical'
  BY <1>1, <1>2, <1>7 DEF Written, WritesAreCanonical, SlotOf
<1>9. TableHolds' /\ PlanAlwaysExists' /\ ReadsExactlyVisible'
  BY <1>1, <1>2 DEF TableHolds, PlanAlwaysExists, ReadsExactlyVisible
<1>10. QED
  BY <1>5, <1>6, <1>8, <1>9 DEF PagedInv

LEMMA CopyLengthKeeps ==
  ASSUME PagedInv, CopyLength
  PROVE  PagedInv'
<1>1. /\ TypeOK /\ TableHolds /\ StepInPlace /\ PlanAlwaysExists
      /\ Written /\ WritesAreCanonical /\ ReadsExactlyVisible
  BY DEF PagedInv
<1>2. /\ stream # <<>> /\ Head(stream).op = "length"
      /\ rowLen' = staging.len /\ stream' = Tail(stream)
      /\ UNCHANGED <<layout, mode, refs, kvLen, table, phase, staging, rowTable, cache,
                     step, slots>>
  BY DEF CopyLength
<1>3. /\ phase = "running" /\ mode # "global"
      /\ staging = [index |-> StepPlan.blocks, len |-> StepPlan.seqused]
      /\ Tail(stream) = <<Forwarding(TRUE)>> /\ rowTable = Gathered(StepPlan.blocks)
  <2>1. Head(stream).op # "forward" /\ Head(stream).op # "index"
    BY <1>2
  <2>2. QED
    BY <1>1, <1>2, <2>1, Pending, OpNames
<1>4. rowLen' = StepPlan.seqused
  BY <1>2, <1>3
<1>5. TypeOK'
  BY <1>1, <1>2 DEF TypeOK, DeclaredViews
<1>6. StepInPlace'
  <2>1. /\ stream' = <<Forwarding(TRUE)'>>
        /\ rowTable' = Gathered(StepPlan.blocks)' /\ rowLen' = StepPlan'.seqused
        /\ staging' = [index |-> StepPlan'.blocks, len |-> StepPlan'.seqused]
        /\ phase' = "running" /\ mode' # "global"
    BY <1>2, <1>3, <1>4, SameStep
  <2>2. QED
    BY <2>1 DEF StepInPlace
<1>7. stream' # <<>>
  BY <1>2, <1>3
<1>8. Written' /\ WritesAreCanonical'
  BY <1>1, <1>2, <1>7 DEF Written, WritesAreCanonical, SlotOf
<1>9. TableHolds' /\ PlanAlwaysExists' /\ ReadsExactlyVisible'
  BY <1>1, <1>2 DEF TableHolds, PlanAlwaysExists, ReadsExactlyVisible
<1>10. QED
  BY <1>5, <1>6, <1>8, <1>9 DEF PagedInv

\* The kernel writes the current token where the canonical table says, and then
\* reads what the reference shows, in every view.
LEMMA ForwardKeeps ==
  ASSUME PagedInv, Forward
  PROVE  PagedInv'
<1>1. /\ TypeOK /\ TableHolds /\ StepInPlace /\ PlanAlwaysExists
      /\ Written /\ WritesAreCanonical /\ ReadsExactlyVisible
  BY DEF PagedInv
<1> DEFINE f == Head(stream)
           m == CeilDiv(kvLen, BlockSize)
<1>2. /\ stream # <<>> /\ f.op = "forward"
      /\ cache' = [cache EXCEPT ![WriteSlot(f.kvLen - 1)] = f.kvLen - 1]
      /\ step' = [mode |-> f.mode, refs |-> f.refs, kvLen |-> f.kvLen]
      /\ slots' = IF f.override THEN Dereferenced(rowTable, rowLen)
                  ELSE Dereferenced(table, f.kvLen)
      /\ stream' = Tail(stream)
      /\ UNCHANGED <<layout, mode, refs, kvLen, table, phase, staging, rowTable, rowLen>>
  BY DEF Forward
<1>3. /\ phase = "running" /\ Tail(stream) = <<>>
      /\ f.kvLen = kvLen /\ f.mode = mode /\ f.refs = refs
      /\ \/ mode = "global" /\ f.override = FALSE
         \/ /\ mode # "global" /\ f.override = TRUE
            /\ rowTable = Gathered(StepPlan.blocks) /\ rowLen = StepPlan.seqused
  <2>1. f.op # "index" /\ f.op # "length"
    BY <1>2
  <2>2. QED
    BY <1>1, <1>2, <2>1, Pending, OpNames
<1> HIDE DEF f
<1>4. /\ layout \in Layouts /\ LayoutType(layout) /\ layout.prompt \in Nat
      /\ DeclaredView(mode, refs, layout)
      /\ kvLen \in Nat /\ kvLen <= MaxLen /\ MaxLen \in Nat
      /\ table \in [1..Len(table) -> PhysBlocks]
      /\ cache \in [Slots -> 0..(MaxLen - 1) \cup {Junk}]
  BY <1>1, StateFacts
<1>5. IsInjective(table) /\ Len(table) = m /\ layout.prompt < kvLen
  BY <1>1, <1>3 DEF TableHolds
<1>6. kvLen \in Nat \ {0} /\ kvLen - 1 \in Nat /\ kvLen - 1 \in 0..(MaxLen - 1)
  BY <1>4, <1>5
<1>7. table \in [1..m -> PhysBlocks] /\ m \in Nat
  BY <1>4, <1>5, <1>6, BlocksFor
<1>8. \A p \in 0..(kvLen - 1) : p \in Nat /\ (p \div BlockSize) + 1 \in 1..m
  BY <1>6, BlocksFor
<1> HIDE DEF m
<1>9. \A p \in 0..(kvLen - 1) : SlotOf(table, p) \in Slots
  BY <1>5, <1>7, <1>8, SlotFacts
<1>10. \A p \in 0..(kvLen - 1) : SlotOf(table, p) = SlotOf(table, kvLen - 1) => p = kvLen - 1
  <2>1. kvLen - 1 \in 0..(kvLen - 1)
    BY <1>6
  <2>2. QED
    BY <1>5, <1>7, <1>8, <2>1, SlotFacts
<1>11. cache' = [cache EXCEPT ![SlotOf(table, kvLen - 1)] = kvLen - 1]
  BY <1>2, <1>3 DEF WriteSlot
<1>12. \A p \in 0..(kvLen - 1) : cache'[SlotOf(table, p)] = p
  <2> SUFFICES ASSUME NEW p \in 0..(kvLen - 1) PROVE cache'[SlotOf(table, p)] = p
    OBVIOUS
  <2>1. SlotOf(table, p) \in DOMAIN cache
    BY <1>4, <1>9
  <2>2. CASE p = kvLen - 1
    BY <1>11, <2>1, <2>2
  <2>3. CASE p # kvLen - 1
    <3>1. SlotOf(table, p) # SlotOf(table, kvLen - 1)
      BY <1>10, <2>3
    <3>2. cache[SlotOf(table, p)] = p
      <4>1. p < kvLen - 1
        BY <1>6, <2>3
      <4>2. QED
        BY <1>1, <4>1 DEF Written
    <3>3. QED
      BY <1>11, <2>1, <3>1, <3>2
  <2>4. QED
    BY <2>2, <2>3
<1>13. step' = [mode |-> mode, refs |-> refs, kvLen |-> kvLen]
  BY <1>2, <1>3
<1>14. Shows(slots', cache', ReferenceVisible(mode, refs, layout, kvLen, BlockSize))
  <2>1. Holds(cache', table, kvLen)
    BY <1>12 DEF Holds
  <2>2. CASE mode = "global"
    <3>1. slots' = Dereferenced(table, kvLen)
      BY <1>2, <1>3, <2>2
    <3>2. Shows(Dereferenced(table, kvLen), cache',
                ReferenceVisible("global", refs, layout, kvLen, BlockSize))
      BY <1>4, <1>5, <1>6, <1>7, <2>1, GlobalRead DEF m
    <3>3. QED
      BY <2>2, <3>1, <3>2
  <2>3. CASE mode # "global"
    <3>1. slots' = Dereferenced(Gathered(StepPlan.blocks), StepPlan.seqused)
      BY <1>2, <1>3, <2>3
    <3>2. QED
      BY <1>4, <1>5, <1>6, <1>7, <2>1, <3>1, RestrictedRead DEF m, StepPlan
  <2>4. QED
    BY <2>2, <2>3
<1>15. TypeOK'
  <2>1. cache' \in [Slots -> 0..(MaxLen - 1) \cup {Junk}]
    BY <1>4, <1>6, <1>11
  <2>2. QED
    BY <1>1, <1>2, <1>14, <2>1 DEF TypeOK, DeclaredViews, Shows
<1>16. Written' /\ WritesAreCanonical'
  BY <1>2, <1>12 DEF Written, WritesAreCanonical, SlotOf
<1>17. TableHolds'
  BY <1>1, <1>2, <1>3 DEF TableHolds
<1>18. StepInPlace' /\ PlanAlwaysExists'
  BY <1>2, <1>3 DEF StepInPlace, PlanAlwaysExists
<1>19. ReadsExactlyVisible'
  BY <1>2, <1>13, <1>14 DEF ReadsExactlyVisible, Shows
<1>20. QED
  BY <1>15, <1>16, <1>17, <1>18, <1>19 DEF PagedInv

LEMMA EndStepKeeps ==
  ASSUME PagedInv, NEW view \in DeclaredViews, EndStep(view)
  PROVE  PagedInv'
<1>1. /\ TypeOK /\ TableHolds /\ Written /\ ReadsExactlyVisible
  BY DEF PagedInv
<1>2. /\ phase = "running" /\ stream = <<>>
      /\ mode' = view[1] /\ refs' = view[2] /\ phase' = "idle"
      /\ UNCHANGED <<layout, kvLen, table, staging, stream, rowTable, rowLen, cache,
                     step, slots>>
  BY DEF EndStep, Drained
<1>3. <<mode, refs>>' \in DeclaredViews
  <2>1. view = <<view[1], view[2]>>
    BY DEF DeclaredViews
  <2>2. QED
    BY <1>2, <2>1
<1>4. TypeOK'
  <2>1. <<mode', refs'>> \in DeclaredViews'
    BY <1>2, <1>3 DEF DeclaredViews
  <2>2. QED
    BY <1>1, <1>2, <2>1 DEF TypeOK
<1>5. Written' /\ WritesAreCanonical'
  BY <1>1, <1>2 DEF Written, WritesAreCanonical, SlotOf
<1>6. TableHolds'
  BY <1>1, <1>2 DEF TableHolds
<1>7. StepInPlace' /\ PlanAlwaysExists'
  BY <1>2 DEF StepInPlace, PlanAlwaysExists
<1>8. ReadsExactlyVisible'
  BY <1>1, <1>2 DEF ReadsExactlyVisible
<1>9. QED
  BY <1>4, <1>5, <1>6, <1>7, <1>8 DEF PagedInv

LEMMA StutterKeeps ==
  ASSUME PagedInv, UNCHANGED vars
  PROVE  PagedInv'
<1>1. UNCHANGED <<layout, mode, refs, kvLen, table, phase, staging, stream, rowTable,
                  rowLen, cache, step, slots>>
  BY DEF vars
<1>2. TypeOK'
  BY <1>1 DEF PagedInv, TypeOK, DeclaredViews
<1>3. StepInPlace'
  BY <1>1, SameStep DEF PagedInv, StepInPlace
<1>4. Written' /\ WritesAreCanonical' /\ TableHolds' /\ PlanAlwaysExists'
  BY <1>1 DEF PagedInv, Written, WritesAreCanonical, TableHolds, PlanAlwaysExists, SlotOf
<1>5. ReadsExactlyVisible'
  BY <1>1 DEF PagedInv, ReadsExactlyVisible
<1>6. QED
  BY <1>2, <1>3, <1>4, <1>5 DEF PagedInv

-----------------------------------------------------------------------------
\* What decoding through read views rests on holds in every state, whatever the
\* layouts, the block size, the maximal length and the pool of physical blocks.
THEOREM PagedInvariant == Spec => []PagedInv
<1>1. ASSUME PagedInv, [Next]_vars PROVE PagedInv'
  <2>1. CASE \E tab \in BoundedSeq(PhysBlocks, Width) : Prefill(tab)
    BY <1>1, <2>1, PrefillKeeps
  <2>2. CASE \E tab \in Tables : BeginStep(tab)
    BY <1>1, <2>2, BeginStepKeeps
  <2>3. CASE CopyIndex
    BY <1>1, <2>3, CopyIndexKeeps
  <2>4. CASE CopyLength
    BY <1>1, <2>4, CopyLengthKeeps
  <2>5. CASE Forward
    BY <1>1, <2>5, ForwardKeeps
  <2>6. CASE \E view \in DeclaredViews : EndStep(view)
    BY <1>1, <2>6, EndStepKeeps
  <2>7. CASE UNCHANGED vars
    BY <1>1, <2>7, StutterKeeps
  <2>8. QED
    BY <1>1, <2>1, <2>2, <2>3, <2>4, <2>5, <2>6, <2>7 DEF Next
<1>2. QED
  BY InitHolds, <1>1, PTL DEF Spec

\* Every forward reads, each exactly once, the positions the reference marks as
\* visible: the plan, the compressed table, its padding and the staging buffers.
THEOREM ReadsAreVisible == Spec => []ReadsExactlyVisible
<1>1. PagedInv => ReadsExactlyVisible
  BY DEF PagedInv
<1>2. QED
  BY PagedInvariant, <1>1, PTL
=============================================================================
