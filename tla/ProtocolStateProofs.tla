------------------------ MODULE ProtocolStateProofs ------------------------
(***************************************************************************)
(* The protocol state of a request for every vocabulary, every stream,     *)
(* every number of segments and every buffer limit: ProtocolInv is         *)
(* inductive.                                                              *)
(*                                                                         *)
(* First the operators that say what a whole text means (TagParser): what  *)
(* one character more changes in them.  Then TraceInv, parser against      *)
(* trace, whose one fact about tags is AfterTagFacts.  Then TextInv,       *)
(* parser and decoder against the text, step by step.                      *)
(***************************************************************************)
EXTENDS ProtocolState, FiniteSetTheorems, TLAPS

\* Every nonempty set of numbers has a least element.
LEMMA LeastNumber ==
  ASSUME NEW S, S \subseteq Nat, S # {}
  PROVE  \E m \in S : \A x \in S : m <= x
<1>1. \E m \in S : \A x \in S : ~(<<x, m>> \in OpToRel(<, Nat))
  BY WFMin, NatLessThanWellFounded
<1>2. PICK m \in S : \A x \in S : ~(<<x, m>> \in OpToRel(<, Nat))
  BY <1>1
<1>3. \A x \in S : ~(x < m)
  BY <1>2 DEF OpToRel
<1>4. QED
  BY <1>3

-----------------------------------------------------------------------------
(* What Kept collects, position by position. *)

\* f[n] is what the first n positions contribute, up to m.
Collects(f, s, K, m) ==
    f = [n \in 0..m |-> IF n = 0 THEN <<>>
                        ELSE IF n \in K THEN Append(f[n - 1], s[n]) ELSE f[n - 1]]

\* The function that Kept describes exists: take the least length without one.
LEMMA CollectsExists ==
  ASSUME NEW s, NEW K, NEW m \in Nat
  PROVE  \E f : Collects(f, s, K, m)
<1> DEFINE Missing == {n \in Nat : ~\E f : Collects(f, s, K, n)}
<1>1. SUFFICES ASSUME Missing # {} PROVE FALSE
  OBVIOUS
<1>2. PICK n \in Missing : \A x \in Missing : n <= x
  BY <1>1, LeastNumber
<1>3. n # 0
  <2> DEFINE f == [i \in 0..0 |-> <<>>]
  <2>1. Collects(f, s, K, 0)
    BY DEF Collects
  <2>2. QED
    BY <2>1
<1>4. n - 1 \in Nat /\ n - 1 \notin Missing
  BY <1>2, <1>3
<1>5. PICK g : Collects(g, s, K, n - 1)
  BY <1>4
<1> DEFINE last == IF n \in K THEN Append(g[n - 1], s[n]) ELSE g[n - 1]
           f == [i \in 0..n |-> IF i = n THEN last ELSE g[i]]
<1>6. ASSUME NEW i \in 0..n
      PROVE  f[i] = IF i = 0 THEN <<>> ELSE IF i \in K THEN Append(f[i - 1], s[i]) ELSE f[i - 1]
  <2>1. CASE i = n
    BY <1>3, <1>4, <2>1
  <2>2. CASE i # n
    <3>1. i \in 0..(n - 1) /\ f[i] = g[i]
      BY <1>4, <2>2
    <3>2. i # 0 => i - 1 \in 0..n /\ i - 1 # n /\ f[i - 1] = g[i - 1]
      BY <1>4, <3>1
    <3>3. g[i] = IF i = 0 THEN <<>> ELSE IF i \in K THEN Append(g[i - 1], s[i]) ELSE g[i - 1]
      BY <1>5, <3>1 DEF Collects
    <3> HIDE DEF f
    <3>4. QED
      BY <3>1, <3>2, <3>3
  <2>3. QED
    BY <2>1, <2>2
<1>7. DOMAIN f = 0..n /\ f = [i \in 0..n |-> f[i]]
  OBVIOUS
<1> HIDE DEF f
<1>8. Collects(f, s, K, n)
  BY <1>6, <1>7 DEF Collects
<1>9. QED
  BY <1>2, <1>8

\* What is collected depends on K and on what s holds there only.
LEMMA CollectsSame ==
  ASSUME NEW f, NEW s, NEW K, NEW m \in Nat, Collects(f, s, K, m),
         NEW g, NEW t, NEW L, NEW n \in Nat, Collects(g, t, L, n),
         NEW i \in Nat, i <= m, i <= n,
         \A j \in 1..i : (j \in K <=> j \in L) /\ (j \in K => s[j] = t[j])
  PROVE  f[i] = g[i]
<1> DEFINE Differ == {j \in 0..i : f[j] # g[j]}
<1>1. SUFFICES ASSUME Differ # {} PROVE FALSE
  OBVIOUS
<1>2. PICK j \in Differ : \A x \in Differ : j <= x
  <2>1. Differ \subseteq Nat
    OBVIOUS
  <2>2. QED
    BY <1>1, <2>1, LeastNumber
<1>3. j \in 0..m /\ j \in 0..n
  OBVIOUS
<1>4. j # 0
  BY <1>3 DEF Collects
<1>5. j - 1 \in 0..i /\ f[j - 1] = g[j - 1] /\ j \in 1..i
  BY <1>2, <1>4
<1>6. f[j] = (IF j \in K THEN Append(f[j - 1], s[j]) ELSE f[j - 1])
      /\ g[j] = (IF j \in L THEN Append(g[j - 1], t[j]) ELSE g[j - 1])
  BY <1>3, <1>4 DEF Collects
<1>7. QED
  BY <1>2, <1>5, <1>6

\* Kept is the last value of that function, whichever one is taken.
LEMMA KeptCollects ==
  ASSUME NEW s, NEW K, Len(s) \in Nat, NEW f, Collects(f, s, K, Len(s))
  PROVE  Kept(s, K) = f[Len(s)]
<1>1. PICK g : Collects(g, s, K, Len(s)) /\ Kept(s, K) = g[Len(s)]
  BY CollectsExists DEF Collects, Kept
<1>2. QED
  BY <1>1, CollectsSame

\* Sequences with the same elements are the same.
LEMMA SeqEqual ==
  ASSUME NEW V, NEW s \in Seq(V), NEW t \in Seq(V), Len(s) = Len(t),
         \A i \in 1..Len(s) : s[i] = t[i]
  PROVE  s = t
  OBVIOUS

\* The function, value by value.
LEMMA CollectsAt ==
  ASSUME NEW f, NEW s, NEW K, NEW m, Collects(f, s, K, m), NEW i \in 0..m
  PROVE  f[i] = IF i = 0 THEN <<>>
                ELSE IF i \in K THEN Append(f[i - 1], s[i]) ELSE f[i - 1]
  BY DEF Collects

\* What is kept of a sequence has the elements of that sequence.
LEMMA KeptTyped ==
  ASSUME NEW V, NEW s \in Seq(V), NEW K
  PROVE  Kept(s, K) \in Seq(V)
<1>1. Len(s) \in Nat
  OBVIOUS
<1>2. PICK f : Collects(f, s, K, Len(s))
  BY <1>1, CollectsExists
<1> DEFINE Bad == {j \in 0..Len(s) : f[j] \notin Seq(V)}
<1>3. ASSUME Bad # {} PROVE FALSE
  <2>1. Bad \subseteq Nat
    BY <1>1
  <2>2. PICK j \in Bad : \A x \in Bad : j <= x
    BY <1>3, <2>1, LeastNumber
  <2>3. f[j] = IF j = 0 THEN <<>> ELSE IF j \in K THEN Append(f[j - 1], s[j]) ELSE f[j - 1]
    BY <1>2 DEF Collects
  <2>4. j # 0
    <3>1. <<>> \in Seq(V)
      OBVIOUS
    <3>2. QED
      BY <2>3, <3>1
  <2>5. j - 1 \in 0..Len(s) /\ s[j] \in V
    BY <2>4
  <2>6. f[j - 1] \in Seq(V)
    <3>1. j - 1 \notin Bad
      BY <2>2, <2>5
    <3>2. QED
      BY <2>5, <3>1
  <2>7. Append(f[j - 1], s[j]) \in Seq(V)
    BY <2>5, <2>6
  <2>8. QED
    BY <2>3, <2>4, <2>6, <2>7
<1>4. f[Len(s)] \in Seq(V)
  BY <1>1, <1>3
<1>5. QED
  BY <1>1, <1>2, <1>4, KeptCollects

\* Only what is kept matters.
LEMMA KeptSame ==
  ASSUME NEW V, NEW s \in Seq(V), NEW K, NEW t \in Seq(V), NEW L, Len(s) = Len(t),
         \A j \in 1..Len(s) : (j \in K <=> j \in L) /\ (j \in K => s[j] = t[j])
  PROVE  Kept(s, K) = Kept(t, L)
<1>1. Len(s) \in Nat
  OBVIOUS
<1>2. PICK f : Collects(f, s, K, Len(s))
  BY <1>1, CollectsExists
<1>3. PICK g : Collects(g, t, L, Len(s))
  BY <1>1, CollectsExists
<1>4. f[Len(s)] = g[Len(s)]
  BY <1>1, <1>2, <1>3, CollectsSame
<1>5. QED
  BY <1>1, <1>2, <1>3, <1>4, KeptCollects

\* The longest proper prefix.
LEMMA PrefixFacts ==
  ASSUME NEW V, NEW s \in Seq(V), NEW m \in 0..Len(s)
  PROVE  /\ SubSeq(s, 1, m) \in Seq(V) /\ Len(SubSeq(s, 1, m)) = m
         /\ \A j \in 1..m : SubSeq(s, 1, m)[j] = s[j]
  OBVIOUS

\* The function gives what is kept of each prefix.
LEMMA KeptPrefix ==
  ASSUME NEW V, NEW s \in Seq(V), NEW K, NEW m \in 0..Len(s),
         NEW f, Collects(f, s, K, Len(s))
  PROVE  Kept(SubSeq(s, 1, m), K) = f[m]
<1> DEFINE t == SubSeq(s, 1, m)
<1>1. m \in Nat /\ Len(s) \in Nat /\ m <= Len(s)
  OBVIOUS
<1>2. t \in Seq(V) /\ Len(t) = m /\ \A j \in 1..m : t[j] = s[j]
  BY PrefixFacts
<1> HIDE DEF t
<1>3. PICK g : Collects(g, t, K, Len(t))
  BY <1>1, <1>2, CollectsExists
<1>4. g[m] = f[m]
  BY <1>1, <1>2, <1>3, CollectsSame
<1>5. QED
  BY <1>1, <1>2, <1>3, <1>4, KeptCollects DEF t

\* One element more: it is kept, or nothing changes.
LEMMA KeptAppend ==
  ASSUME NEW V, NEW s \in Seq(V), NEW K, NEW c \in V, NEW t \in Seq(V), NEW L,
         Len(t) = Len(s),
         \A j \in 1..Len(s) : (j \in K <=> j \in L) /\ (j \in K => s[j] = t[j])
  PROVE  Kept(Append(t, c), L)
           = IF Len(s) + 1 \in L THEN Append(Kept(s, K), c) ELSE Kept(s, K)
<1> DEFINE u == Append(t, c)
           n == Len(s)
<1>1. /\ u \in Seq(V) /\ Len(u) = n + 1 /\ u[n + 1] = c
      /\ \A j \in 1..n : u[j] = t[j]
      /\ n \in Nat
  OBVIOUS
<1> HIDE DEF u, n
<1>2. PICK f : Collects(f, u, L, n + 1)
  <2>1. n + 1 \in Nat
    BY <1>1
  <2>2. QED
    BY <2>1, CollectsExists
<1>3. PICK g : Collects(g, s, K, n)
  BY <1>1, CollectsExists
<1>4. f[n] = g[n]
  <2>1. n <= n + 1 /\ n <= n /\ n + 1 \in Nat
    BY <1>1
  <2>2. \A j \in 1..n : (j \in L <=> j \in K) /\ (j \in L => u[j] = s[j])
    BY <1>1 DEF n
  <2>3. QED
    BY <1>1, <1>2, <1>3, <2>1, <2>2, CollectsSame
<1>5. f[n + 1] = IF n + 1 \in L THEN Append(f[n], c) ELSE f[n]
  <2>1. n + 1 \in 0..(n + 1) /\ n + 1 # 0 /\ n + 1 - 1 = n
    BY <1>1
  <2>2. f[n + 1] = IF n + 1 = 0 THEN <<>>
                   ELSE IF n + 1 \in L THEN Append(f[(n + 1) - 1], u[n + 1]) ELSE f[(n + 1) - 1]
    BY <1>2, <2>1, CollectsAt
  <2>3. QED
    BY <1>1, <2>1, <2>2
<1>6. Kept(u, L) = f[n + 1]
  <2>1. Len(u) \in Nat
    BY <1>1
  <2>2. QED
    BY <1>1, <1>2, <2>1, KeptCollects
<1>7. Kept(s, K) = g[n]
  BY <1>1, <1>3, KeptCollects DEF n
<1>8. QED
  BY <1>4, <1>5, <1>6, <1>7 DEF u, n

\* d is b with c at its end.
Glued(a, b, c, d) == Append(a \o b, c) = a \o d

\* Appending to the second part appends to the whole.
LEMMA GluedFacts ==
  ASSUME NEW V, NEW a \in Seq(V), NEW b \in Seq(V), NEW c \in V, NEW d, d = Append(b, c)
  PROVE  Glued(a, b, c, d)
<1>1. /\ Append(a \o b, c) \in Seq(V) /\ a \o d \in Seq(V)
      /\ Len(Append(a \o b, c)) = Len(a) + Len(b) + 1
      /\ Len(a \o d) = Len(a) + Len(b) + 1
  OBVIOUS
<1>2. \A i \in 1..(Len(a) + Len(b) + 1) : Append(a \o b, c)[i] = (a \o d)[i]
  OBVIOUS
<1>3. Append(a \o b, c) = a \o d
  BY <1>1, <1>2, SeqEqual
<1>4. QED
  BY <1>3 DEF Glued

\* A stretch at the end that is kept as a whole, or not at all.
LEMMA KeptRun ==
  ASSUME NEW V, NEW s \in Seq(V), NEW K, NEW m \in 0..Len(s)
  PROVE  /\ (\A j \in (m + 1)..Len(s) : j \in K)
              => Kept(s, K) = Kept(SubSeq(s, 1, m), K) \o SubSeq(s, m + 1, Len(s))
         /\ (\A j \in (m + 1)..Len(s) : j \notin K)
              => Kept(s, K) = Kept(SubSeq(s, 1, m), K)
<1> DEFINE n == Len(s)
<1>1. n \in Nat /\ m \in Nat /\ m <= n
  OBVIOUS
<1>2. PICK f : Collects(f, s, K, n)
  BY <1>1, CollectsExists
<1>3. /\ Kept(SubSeq(s, 1, m), K) = f[m]
      /\ \A i \in m..n : f[i] = Kept(SubSeq(s, 1, i), K)
  <2>1. \A i \in 0..n : f[i] = Kept(SubSeq(s, 1, i), K)
    BY <1>2, KeptPrefix
  <2>2. QED
    BY <1>1, <2>1
<1>4. \A i \in m..n : f[i] \in Seq(V)
  <2>1. \A i \in m..n : i \in 0..n /\ SubSeq(s, 1, i) \in Seq(V)
    BY PrefixFacts
  <2>2. QED
    BY <1>3, <2>1, KeptTyped
<1>5. Kept(s, K) = f[n]
  BY <1>1, <1>2, KeptCollects
<1>6. \A i \in (m + 1)..n : f[i] = IF i \in K THEN Append(f[i - 1], s[i]) ELSE f[i - 1]
  <2>1. \A i \in (m + 1)..n : i \in 0..n /\ i # 0
    BY <1>1
  <2>2. \A i \in 0..n : f[i] = IF i = 0 THEN <<>>
                         ELSE IF i \in K THEN Append(f[i - 1], s[i]) ELSE f[i - 1]
    BY <1>2 DEF Collects
  <2>3. QED
    BY <2>1, <2>2
<1>7. ASSUME \A j \in (m + 1)..n : j \in K
      PROVE  f[n] = f[m] \o SubSeq(s, m + 1, n)
  <2> DEFINE Bad == {i \in m..n : f[i] # f[m] \o SubSeq(s, m + 1, i)}
  <2>1. ASSUME Bad # {} PROVE FALSE
    <3>1. Bad \subseteq Nat
      <4>1. \A i \in m..n : i \in Nat
        BY <1>1
      <4>2. Bad \subseteq m..n
        BY Zenon
      <4>3. QED
        BY <4>1, <4>2
    <3>2. PICK i \in Bad : \A x \in Bad : i <= x
      BY <2>1, <3>1, LeastNumber
    <3>3. i # m
      <4>1. f[m] \in Seq(V) /\ SubSeq(s, m + 1, m) = <<>>
        BY <1>1, <1>4
      <4>2. f[m] \o <<>> = f[m]
        BY <4>1
      <4>3. QED
        BY <3>2, <4>1, <4>2
    <3>4. i - 1 \in m..n /\ i \in (m + 1)..n /\ i - 1 < i
      BY <1>1, <3>3
    <3>5. f[i - 1] = f[m] \o SubSeq(s, m + 1, i - 1)
      <4>1. i - 1 \notin Bad
        <5>1. i \in Nat /\ i - 1 \in Nat /\ ~(i <= i - 1)
          BY <1>1, <3>4
        <5> HIDE DEF Bad
        <5>2. QED
          BY <3>2, <5>1
      <4>2. QED
        BY <3>4, <4>1
    <3>6. f[i] = Append(f[m] \o SubSeq(s, m + 1, i - 1), s[i])
      BY <1>6, <1>7, <3>4, <3>5
    <3>7. f[m] \in Seq(V) /\ s[i] \in V /\ m \in Nat /\ i \in Nat
      BY <1>1, <1>4, <3>4
    <3>8. Append(f[m] \o SubSeq(s, m + 1, i - 1), s[i]) = f[m] \o SubSeq(s, m + 1, i)
      <4>1. SubSeq(s, m + 1, i) = Append(SubSeq(s, m + 1, i - 1), s[i])
        BY <1>1, <3>4
      <4>2. SubSeq(s, m + 1, i - 1) \in Seq(V)
        BY <1>1, <3>4
      <4>3. Glued(f[m], SubSeq(s, m + 1, i - 1), s[i], SubSeq(s, m + 1, i))
        BY <3>7, <4>1, <4>2, GluedFacts
      <4>4. QED
        BY <4>3 DEF Glued
    <3>9. QED
      BY <3>2, <3>6, <3>8
  <2>2. n \in m..n
    BY <1>1
  <2>3. QED
    BY <2>1, <2>2
<1>8. ASSUME \A j \in (m + 1)..n : j \notin K
      PROVE  f[n] = f[m]
  <2> DEFINE Bad == {i \in m..n : f[i] # f[m]}
  <2>1. ASSUME Bad # {} PROVE FALSE
    <3>1. Bad \subseteq Nat
      BY <1>1
    <3>2. PICK i \in Bad : \A x \in Bad : i <= x
      BY <2>1, <3>1, LeastNumber
    <3>3. i - 1 \in m..n /\ i \in (m + 1)..n /\ i - 1 < i
      BY <1>1, <3>2
    <3>4. f[i - 1] = f[m]
      BY <1>1, <3>2, <3>3
    <3>5. QED
      BY <1>6, <1>8, <3>2, <3>3, <3>4
  <2>2. QED
    BY <1>1, <2>1
<1>9. QED
  BY <1>3, <1>5, <1>7, <1>8

\* o gives the places in s of the elements of w, in ascending order.
Places(o, w, s, K, n) ==
    /\ o \in [1..Len(w) -> {j \in 1..n : j \in K}]
    /\ \A i, j \in 1..Len(w) : i < j => o[i] < o[j]
    /\ \A j \in 1..n : j \in K => \E i \in 1..Len(w) : o[i] = j
    /\ \A i \in 1..Len(w) : w[i] = s[o[i]]

\* The places of one element more.
LEMMA PlacesGrow ==
  ASSUME NEW V, NEW w \in Seq(V), NEW s, NEW K, NEW n \in Nat, NEW o, Places(o, w, s, K, n),
         s[n + 1] \in V
  PROVE  \E q : Places(q, IF n + 1 \in K THEN Append(w, s[n + 1]) ELSE w, s, K, n + 1)
<1>1. Len(w) \in Nat /\ \A i \in 1..Len(w) : o[i] \in 1..n /\ o[i] \in K
  BY DEF Places
<1>2. CASE n + 1 \notin K
  <2>1. {j \in 1..(n + 1) : j \in K} = {j \in 1..n : j \in K}
    BY <1>2
  <2>2. Places(o, w, s, K, n + 1)
    BY <2>1, <1>2 DEF Places
  <2>3. QED
    BY <1>2, <2>2
<1>3. CASE n + 1 \in K
  <2> DEFINE u == Append(w, s[n + 1])
             m == Len(w) + 1
             q == [i \in 1..m |-> IF i = m THEN n + 1 ELSE o[i]]
  <2>1. /\ Len(u) = m /\ u[m] = s[n + 1] /\ m \in Nat /\ m \in 1..m
        /\ \A i \in 1..Len(w) : u[i] = w[i] /\ i # m /\ i \in 1..m
        /\ \A i \in 1..m : i = m \/ i \in 1..Len(w)
    BY <1>1
  <2>2. \A i \in 1..m : q[i] = IF i = m THEN n + 1 ELSE o[i]
    OBVIOUS
  <2>3. q \in [1..Len(u) -> {j \in 1..(n + 1) : j \in K}]
    BY <1>1, <1>3, <2>1
  <2> HIDE DEF u, q, m
  <2>4. ASSUME NEW i \in 1..Len(u), NEW j \in 1..Len(u), i < j
        PROVE  q[i] < q[j]
    <3>1. i \in 1..Len(w) /\ q[i] = o[i]
      BY <2>1, <2>2, <2>4
    <3>2. CASE j = m
      BY <1>1, <2>1, <2>2, <3>1, <3>2
    <3>3. CASE j # m
      BY <1>1, <2>1, <2>2, <2>4, <3>1, <3>3 DEF Places
    <3>4. QED
      BY <3>2, <3>3
  <2>5. ASSUME NEW j \in 1..(n + 1), j \in K
        PROVE  \E i \in 1..Len(u) : q[i] = j
    <3>1. CASE j = n + 1
      BY <2>1, <2>2, <3>1
    <3>2. CASE j # n + 1
      <4>1. j \in 1..n
        BY <3>2
      <4>2. PICK i \in 1..Len(w) : o[i] = j
        BY <2>5, <4>1 DEF Places
      <4>3. QED
        BY <2>1, <2>2, <4>2
    <3>3. QED
      BY <3>1, <3>2
  <2>6. ASSUME NEW i \in 1..Len(u) PROVE u[i] = s[q[i]]
    BY <2>1, <2>2 DEF Places
  <2>7. Places(q, u, s, K, n + 1)
    BY <2>3, <2>4, <2>5, <2>6 DEF Places
  <2>8. QED
    BY <1>3, <2>7 DEF u
<1>4. QED
  BY <1>2, <1>3

\* The elements of Kept have places, in ascending order.
LEMMA KeptPlaces ==
  ASSUME NEW V, NEW s \in Seq(V), NEW K
  PROVE  \E o : Places(o, Kept(s, K), s, K, Len(s))
<1>1. Len(s) \in Nat
  OBVIOUS
<1>2. PICK f : Collects(f, s, K, Len(s))
  BY <1>1, CollectsExists
<1> DEFINE Bad == {n \in 0..Len(s) : ~\E o : Places(o, f[n], s, K, n)}
<1>3. ASSUME Bad # {} PROVE FALSE
  <2>1. Bad \subseteq Nat
    BY <1>1
  <2>2. PICK n \in Bad : \A x \in Bad : n <= x
    BY <1>3, <2>1, LeastNumber
  <2>3. n # 0
    <3>1. f[0] = <<>>
      BY <1>1, <1>2, CollectsAt
    <3>2. Places(<<>>, <<>>, s, K, 0)
      BY DEF Places
    <3>3. QED
      BY <2>2, <3>1, <3>2
  <2>4. n - 1 \in 0..Len(s) /\ n - 1 \in Nat /\ n \in 1..Len(s) /\ (n - 1) + 1 = n
    BY <2>3
  <2>5. PICK o : Places(o, f[n - 1], s, K, n - 1)
    <3>1. ~(n <= n - 1)
      BY <2>4
    <3>2. n - 1 \notin Bad
      BY <2>2, <3>1
    <3>3. QED
      BY <2>4, <3>2
  <2>6. f[n - 1] \in Seq(V)
    <3>1. SubSeq(s, 1, n - 1) \in Seq(V)
      BY <2>4, PrefixFacts
    <3>2. f[n - 1] = Kept(SubSeq(s, 1, n - 1), K)
      BY <1>2, <2>4, KeptPrefix
    <3>3. QED
      BY <3>1, <3>2, KeptTyped
  <2>7. s[n] \in V
    BY <2>4
  <2>8. \E q : Places(q, IF n \in K THEN Append(f[n - 1], s[n]) ELSE f[n - 1], s, K, n)
    <3>1. PICK k \in Nat : k = n - 1 /\ k + 1 = n
      BY <2>4
    <3>2. f[k] \in Seq(V) /\ Places(o, f[k], s, K, k) /\ s[k + 1] \in V
      BY <2>5, <2>6, <2>7, <3>1
    <3>3. \E q : Places(q, IF k + 1 \in K THEN Append(f[k], s[k + 1]) ELSE f[k], s, K, k + 1)
      BY <3>2, PlacesGrow
    <3>4. QED
      BY <3>1, <3>3
  <2>9. f[n] = IF n \in K THEN Append(f[n - 1], s[n]) ELSE f[n - 1]
    BY <1>2, <2>3, CollectsAt
  <2>10. QED
    BY <2>2, <2>8, <2>9
<1>4. \E o : Places(o, f[Len(s)], s, K, Len(s))
  <2>1. Len(s) \in 0..Len(s) /\ Len(s) \notin Bad
    BY <1>1, <1>3
  <2>2. QED
    BY <2>1
<1>5. QED
  BY <1>1, <1>2, <1>4, KeptCollects

-----------------------------------------------------------------------------
(* FlattenSeq, one sequence more. *)

\* f[i] is the first i parts of s put together, up to m.
Flattens(f, s, m) == f = [i \in 1..m |-> IF i = 1 THEN s[i] ELSE f[i - 1] \o s[i]]

\* The function that FlattenSeq describes, value by value.
LEMMA FlattensAt ==
  ASSUME NEW f, NEW s, NEW m, Flattens(f, s, m), NEW i \in 1..m
  PROVE  f[i] = IF i = 1 THEN s[i] ELSE f[i - 1] \o s[i]
  BY DEF Flattens

\* It exists up to every length, ...
LEMMA FlattensExists ==
  ASSUME NEW V, NEW s \in Seq(Seq(V))
  PROVE  \A m \in 1..Len(s) : \E f \in [1..m -> Seq(V)] : Flattens(f, s, m)
<1> DEFINE Missing == {n \in 1..Len(s) : ~\E f \in [1..n -> Seq(V)] : Flattens(f, s, n)}
<1>1. SUFFICES ASSUME Missing # {} PROVE FALSE
  OBVIOUS
<1>2. PICK n \in Missing : \A x \in Missing : n <= x
  <2>1. Missing \subseteq Nat
    OBVIOUS
  <2>2. QED
    BY <1>1, <2>1, LeastNumber
<1>3. n \in 1..Len(s) /\ s[n] \in Seq(V) /\ n \in Nat
  OBVIOUS
<1>4. n # 1
  <2> DEFINE f == [i \in 1..1 |-> s[i]]
  <2>1. ASSUME n = 1 PROVE FALSE
    <3>1. f \in [1..n -> Seq(V)]
      BY <1>3, <2>1
    <3>2. Flattens(f, s, n)
      BY <2>1 DEF Flattens
    <3>3. QED
      BY <1>2, <3>1, <3>2
  <2>2. QED
    BY <2>1
<1>5. n - 1 \in 1..Len(s) /\ n - 1 \notin Missing
  <2>1. n - 1 \in 1..Len(s) /\ ~(n <= n - 1)
    BY <1>3, <1>4
  <2> HIDE DEF Missing
  <2>2. QED
    BY <1>2, <2>1
<1>6. PICK g \in [1..(n - 1) -> Seq(V)] : Flattens(g, s, n - 1)
  BY <1>5
<1> DEFINE f == [i \in 1..n |-> IF i = n THEN g[n - 1] \o s[n] ELSE g[i]]
<1>7. ASSUME NEW i \in 1..n
      PROVE  f[i] \in Seq(V) /\ f[i] = IF i = 1 THEN s[i] ELSE f[i - 1] \o s[i]
  <2>1. n - 1 \in 1..(n - 1) /\ n - 1 \in 1..n /\ n - 1 # n
    BY <1>5
  <2>2. CASE i = n
    <3>1. f[i] = g[n - 1] \o s[n] /\ f[n - 1] = g[n - 1] /\ g[n - 1] \in Seq(V)
      BY <2>1, <2>2
    <3>2. g[n - 1] \o s[n] \in Seq(V)
      BY <1>3, <3>1
    <3> HIDE DEF f
    <3>3. QED
      BY <1>4, <2>2, <3>1, <3>2
  <2>3. CASE i # n
    <3>1. i \in 1..(n - 1) /\ f[i] = g[i] /\ g[i] \in Seq(V)
      BY <1>3, <2>3
    <3>2. i # 1 => i - 1 \in 1..n /\ i - 1 # n /\ f[i - 1] = g[i - 1]
      BY <1>3, <3>1
    <3>a. Flattens(g, s, n - 1) /\ i \in 1..(n - 1)
      BY <1>6, <3>1
    <3>3. g[i] = IF i = 1 THEN s[i] ELSE g[i - 1] \o s[i]
      BY <3>a DEF Flattens
    <3> HIDE DEF f
    <3>4. QED
      BY <3>1, <3>2, <3>3
  <2>4. QED
    BY <2>2, <2>3
<1>8. f = [i \in 1..n |-> f[i]]
  OBVIOUS
<1> HIDE DEF f
<1>9. f \in [1..n -> Seq(V)]
  BY <1>7, <1>8
<1>10. Flattens(f, s, n)
  BY <1>7, <1>8 DEF Flattens
<1>11. QED
  BY <1>2, <1>9, <1>10

\* s and t agree up to m.
Alike(s, t, m) == \A i \in 1..m : s[i] = t[i]

\* ... and there is only one.
LEMMA FlattensSame ==
  ASSUME NEW s, NEW t, NEW m \in Nat, NEW n \in Nat, m <= n,
         NEW f, Flattens(f, s, m), NEW g, Flattens(g, t, n),
         Alike(s, t, m)
  PROVE  Alike(f, g, m)
<1> USE DEF Alike
<1> DEFINE Differ == {i \in 1..m : f[i] # g[i]}
<1>1. SUFFICES ASSUME Differ # {} PROVE FALSE
  OBVIOUS
<1>2. PICK i \in Differ : \A x \in Differ : i <= x
  <2>1. Differ \subseteq Nat
    OBVIOUS
  <2>2. QED
    BY <1>1, <2>1, LeastNumber
<1>3. i \in 1..m /\ i \in 1..n
  OBVIOUS
<1>4. f[i] = (IF i = 1 THEN s[i] ELSE f[i - 1] \o s[i])
      /\ g[i] = (IF i = 1 THEN t[i] ELSE g[i - 1] \o t[i])
  BY <1>3, FlattensAt
<1>5. i # 1 => f[i - 1] = g[i - 1]
  BY <1>2, <1>3
<1>6. QED
  BY <1>2, <1>3, <1>4, <1>5

\* A sequence of sequences, put together, has the elements of its parts.
LEMMA FlattenTyped ==
  ASSUME NEW V, NEW s \in Seq(Seq(V))
  PROVE  FlattenSeq(s) \in Seq(V)
<1>1. CASE Len(s) = 0
  <2>1. s = <<>> /\ <<>> \in Seq(V)
    BY <1>1
  <2>2. QED
    BY <1>1, <2>1 DEF FlattenSeq
<1>2. CASE Len(s) # 0
  <2>1. Len(s) \in 1..Len(s) /\ Len(s) \in Nat
    BY <1>2
  <2>2. PICK f \in [1..Len(s) -> Seq(V)] : Flattens(f, s, Len(s))
    BY <2>1, FlattensExists
  <2>3. PICK g : Flattens(g, s, Len(s)) /\ FlattenSeq(s) = g[Len(s)]
    BY <1>2, <2>2 DEF Flattens, FlattenSeq
  <2>4. g[Len(s)] = f[Len(s)]
    BY <2>1, <2>2, <2>3, FlattensSame DEF Alike
  <2>5. QED
    BY <2>1, <2>2, <2>3, <2>4
<1>3. QED
  BY <1>1, <1>2

\* One part more comes at the end.
LEMMA FlattenAppend ==
  ASSUME NEW V, NEW s \in Seq(Seq(V)), NEW t \in Seq(V)
  PROVE  FlattenSeq(Append(s, t)) = FlattenSeq(s) \o t
<1> DEFINE u == Append(s, t)
           n == Len(s)
<1>1. /\ u \in Seq(Seq(V)) /\ Len(u) = n + 1 /\ u[n + 1] = t /\ n \in Nat
      /\ \A i \in 1..n : s[i] = u[i]
      /\ n + 1 \in 1..Len(u) /\ Len(u) # 0 /\ n + 1 \in Nat /\ n <= n + 1
  OBVIOUS
<1> HIDE DEF u, n
<1>2. PICK f : Flattens(f, u, n + 1) /\ FlattenSeq(u) = f[n + 1]
  <2>1. \E f \in [1..(n + 1) -> Seq(V)] : Flattens(f, u, n + 1)
    BY <1>1, FlattensExists
  <2>2. QED
    BY <1>1, <2>1 DEF Flattens, FlattenSeq
<1>3. f[n + 1] = IF n = 0 THEN t ELSE f[n] \o t
  <2>1. n + 1 \in 1..(n + 1) /\ (n + 1 = 1 <=> n = 0) /\ (n + 1) - 1 = n
    BY <1>1
  <2>2. f[n + 1] = IF n + 1 = 1 THEN u[n + 1] ELSE f[(n + 1) - 1] \o u[n + 1]
    BY <1>2, <2>1, FlattensAt
  <2>3. QED
    BY <1>1, <2>1, <2>2
<1>4. CASE n = 0
  <2>1. FlattenSeq(s) = <<>>
    BY <1>4 DEF FlattenSeq, n
  <2>2. <<>> \o t = t
    OBVIOUS
  <2>3. QED
    BY <1>2, <1>3, <1>4, <2>1, <2>2 DEF u
<1>5. CASE n # 0
  <2>1. n \in 1..n /\ Len(s) # 0
    BY <1>1, <1>5 DEF n
  <2>2. PICK g : Flattens(g, s, n) /\ FlattenSeq(s) = g[n]
    <3>1. \E g \in [1..n -> Seq(V)] : Flattens(g, s, n)
      BY <2>1, FlattensExists DEF n
    <3>2. QED
      BY <2>1, <3>1 DEF Flattens, FlattenSeq, n
  <2>3. g[n] = f[n]
    <3>1. n \in Nat /\ n + 1 \in Nat /\ n <= n + 1 /\ \A i \in 1..n : s[i] = u[i]
      BY <1>1
    <3>2. Flattens(g, s, n) /\ Flattens(f, u, n + 1)
      BY <1>2, <2>2
    <3>3. \A i \in 1..n : g[i] = f[i]
      <4>1. Alike(s, u, n)
        BY <3>1 DEF Alike
      <4>2. Alike(g, f, n)
        BY <3>1, <3>2, <4>1, FlattensSame
      <4>3. QED
        BY <4>2 DEF Alike
    <3>4. QED
      BY <2>1, <3>3
  <2>4. QED
    BY <1>2, <1>3, <1>5, <2>2, <2>3 DEF u
<1>6. QED
  BY <1>4, <1>5

\* u is the text t and one character more.
Longer(t, u, c) ==
    /\ t \in Seq(Chars) /\ u \in Seq(Chars) /\ c \in Chars
    /\ Len(t) \in Nat /\ Len(u) = Len(t) + 1
    /\ u[Len(t) + 1] = c
    /\ \A j \in 1..Len(t) : u[j] = t[j]

\* A text and the same text with a character appended.
LEMMA LongerAppend ==
  ASSUME NEW t \in Seq(Chars), NEW c \in Chars
  PROVE  Longer(t, Append(t, c), c)
  BY DEF Longer

\* e is where the tag that opens at k ends.
IsEnd(text, k, e) ==
    /\ e \in (k + 1)..(k + MaxTagBuffer)
    /\ e = k + MaxTagBuffer \/ (e <= Len(text) /\ text[e] = ">")
    /\ \A j \in (k + 1)..Len(text) : text[j] = ">" => e <= j

\* EndOf is an end, ...
LEMMA EndOfFacts ==
  ASSUME NEW text, Len(text) \in Nat, NEW k \in Nat
  PROVE  IsEnd(text, k, EndOf(text, k))
<1> DEFINE S == {j \in (k + 1)..Len(text) : text[j] = ">"} \cup {k + MaxTagBuffer}
<1>1. MaxTagBuffer \in Nat /\ MaxTagBuffer >= 2
  BY ParserAssumption
<1>2. S \subseteq Nat /\ S # {}
  BY <1>1
<1>3. \E m \in S : \A x \in S : m <= x
  BY <1>2, LeastNumber
<1>4. EndOf(text, k) = CHOOSE m \in S : \A x \in S : m <= x
  BY DEF EndOf, Min
<1>5. PICK e \in S : e = EndOf(text, k) /\ \A x \in S : e <= x
  BY <1>3, <1>4
<1>6. IsEnd(text, k, e)
  BY <1>1, <1>5 DEF IsEnd
<1>7. QED
  BY <1>5, <1>6

\* ... and there is only one.
LEMMA EndUnique ==
  ASSUME NEW text, Len(text) \in Nat, NEW k \in Nat, NEW e, IsEnd(text, k, e)
  PROVE  EndOf(text, k) = e
<1>1. IsEnd(text, k, EndOf(text, k))
  BY EndOfFacts
<1>2. MaxTagBuffer \in Nat
  BY ParserAssumption
<1>3. QED
  BY <1>1, <1>2 DEF IsEnd

\* Where a tag ends in the longer text: where it ended, or with the character, or at the limit.
LEMMA EndOfLonger ==
  ASSUME NEW t, NEW u, NEW c, Longer(t, u, c), NEW k \in Nat, k <= Len(t)
  PROVE  EndOf(u, k) = IF EndOf(t, k) <= Len(t) THEN EndOf(t, k)
                       ELSE IF c = ">" THEN Len(t) + 1
                       ELSE k + MaxTagBuffer
<1>1. IsEnd(t, k, EndOf(t, k))
  BY EndOfFacts DEF Longer
<1>2. MaxTagBuffer \in Nat
  BY ParserAssumption
<1>3. Len(u) \in Nat
  BY DEF Longer
<1>4. CASE EndOf(t, k) <= Len(t)
  <2>1. IsEnd(u, k, EndOf(t, k))
    BY <1>1, <1>2, <1>4 DEF IsEnd, Longer
  <2>2. QED
    BY <1>3, <1>4, <2>1, EndUnique
<1>5. CASE EndOf(t, k) > Len(t) /\ c = ">"
  <2>1. IsEnd(u, k, Len(t) + 1)
    BY <1>1, <1>2, <1>5 DEF IsEnd, Longer
  <2>2. ~(EndOf(t, k) <= Len(t))
    BY <1>1, <1>2, <1>5 DEF IsEnd, Longer
  <2>3. QED
    BY <1>3, <1>5, <2>1, <2>2, EndUnique
<1>6. CASE EndOf(t, k) > Len(t) /\ c # ">"
  <2>1. EndOf(t, k) = k + MaxTagBuffer
    BY <1>1, <1>2, <1>6 DEF IsEnd, Longer
  <2>2. IsEnd(u, k, k + MaxTagBuffer)
    BY <1>1, <1>2, <1>6, <2>1 DEF IsEnd, Longer
  <2>3. ~(EndOf(t, k) <= Len(t))
    BY <1>1, <1>2, <1>6 DEF IsEnd, Longer
  <2>4. QED
    BY <1>3, <1>6, <2>2, <2>3, EndUnique
<1>7. QED
  BY <1>1, <1>2, <1>4, <1>5, <1>6 DEF IsEnd, Longer

-----------------------------------------------------------------------------
(* The openings of a text are the one solution of their equation. *)

\* A tag opens at k if O are the openings before it.
OpensAt(text, O, k) ==
    /\ text[k] = "<"
    /\ k < Len(text) /\ text[k + 1] \in Letters \cup {"/"}
    /\ \A i \in 1..(k - 1) : i \in O => EndOf(text, i) < k

\* O are the openings up to m.
IsOpenings(text, O, m) ==
    O \subseteq 1..m /\ \A k \in 1..m : k \in O <=> OpensAt(text, O, k)

\* The equation of the openings has a solution, ...
LEMMA OpeningsExist ==
  ASSUME NEW text, NEW m \in Nat
  PROVE  \E O : IsOpenings(text, O, m)
<1> DEFINE Missing == {n \in Nat : ~\E O : IsOpenings(text, O, n)}
<1>1. SUFFICES ASSUME Missing # {} PROVE FALSE
  OBVIOUS
<1>2. PICK n \in Missing : \A x \in Missing : n <= x
  BY <1>1, LeastNumber
<1>3. n # 0
  <2>1. IsOpenings(text, {}, 0)
    BY DEF IsOpenings
  <2>2. QED
    BY <2>1
<1>4. n - 1 \in Nat /\ n - 1 \notin Missing
  BY <1>2, <1>3
<1>5. PICK O : IsOpenings(text, O, n - 1)
  BY <1>4
<1> DEFINE P == O \cup {k \in {n} : OpensAt(text, O, k)}
<1>6. \A k \in 1..n : \A i \in 1..(k - 1) : i \in P <=> i \in O
  BY <1>4, <1>5 DEF IsOpenings
<1>7. n \notin O
  BY <1>4, <1>5 DEF IsOpenings
<1>8. \A k \in 1..n : k \in P <=> OpensAt(text, O, k)
  BY <1>4, <1>5, <1>7 DEF IsOpenings
<1>9. P \subseteq 1..n
  <2>1. n \in 1..n /\ O \subseteq 1..n
    BY <1>3, <1>4, <1>5 DEF IsOpenings
  <2>2. QED
    BY <2>1
<1> HIDE DEF P
<1>10. \A k \in 1..n : OpensAt(text, P, k) <=> OpensAt(text, O, k)
  BY <1>6 DEF OpensAt
<1>11. IsOpenings(text, P, n)
  BY <1>8, <1>9, <1>10 DEF IsOpenings
<1>12. QED
  BY <1>2, <1>11

\* ... only one, ...
LEMMA OpeningsUnique ==
  ASSUME NEW text, NEW m \in Nat, NEW O, IsOpenings(text, O, m),
         NEW P, IsOpenings(text, P, m)
  PROVE  O = P
<1> DEFINE Differ == {k \in 1..m : ~(k \in O <=> k \in P)}
<1>1. ASSUME Differ # {} PROVE FALSE
  <2>1. Differ \subseteq Nat
    OBVIOUS
  <2>2. PICK k \in Differ : \A x \in Differ : k <= x
    BY <1>1, <2>1, LeastNumber
  <2>3. \A i \in 1..(k - 1) : i \in 1..m /\ ~(k <= i)
    OBVIOUS
  <2>4. \A i \in 1..(k - 1) : i \in O <=> i \in P
    BY <2>2, <2>3
  <2>5. OpensAt(text, O, k) <=> OpensAt(text, P, k)
    BY <2>4 DEF OpensAt
  <2>6. QED
    BY <2>2, <2>5 DEF IsOpenings
<1>2. \A k \in 1..m : k \in O <=> k \in P
  BY <1>1
<1>3. QED
  BY <1>2 DEF IsOpenings

\* ... and Openings is that solution.
LEMMA OpeningsFacts ==
  ASSUME NEW text, Len(text) \in Nat
  PROVE  IsOpenings(text, Openings(text), Len(text))
<1> DEFINE n == Len(text)
<1>1. PICK O : IsOpenings(text, O, n)
  BY OpeningsExist
<1> DEFINE Solves(f) == f = [k \in 1..n |->
              /\ text[k] = "<"
              /\ k < Len(text) /\ text[k + 1] \in Letters \cup {"/"}
              /\ \A i \in 1..(k - 1) : f[i] => EndOf(text, i) < k]
           g == [k \in 1..n |-> k \in O]
<1>2. \A k \in 1..n : g[k] = OpensAt(text, O, k)
  <2>1. ASSUME NEW k \in 1..n PROVE (k \in O) = OpensAt(text, O, k)
    <3>1. k \in O <=> OpensAt(text, O, k)
      BY <1>1 DEF IsOpenings
    <3>2. OpensAt(text, O, k) \in BOOLEAN
      BY DEF OpensAt
    <3>3. QED
      BY <3>1, <3>2
  <2>2. QED
    BY <2>1
<1>3. \A k \in 1..n : \A i \in 1..(k - 1) : g[i] = (i \in O)
  OBVIOUS
<1>4. g = [k \in 1..n |->
              /\ text[k] = "<"
              /\ k < Len(text) /\ text[k + 1] \in Letters \cup {"/"}
              /\ \A i \in 1..(k - 1) : g[i] => EndOf(text, i) < k]
  BY <1>2, <1>3 DEF OpensAt
<1>5. Solves(g)
  BY <1>4
<1>6. PICK f : Solves(f) /\ Openings(text) = {k \in 1..n : f[k]}
  <2>1. Openings(text) = {k \in 1..n : (CHOOSE f : Solves(f))[k]}
    BY DEF Openings
  <2> HIDE DEF Solves
  <2>2. Solves(CHOOSE f : Solves(f))
    BY <1>5
  <2>3. QED
    BY <2>1, <2>2
<1>7. \A k \in 1..n : f[k] <=> OpensAt(text, Openings(text), k)
  BY <1>6 DEF OpensAt
<1>8. QED
  BY <1>6, <1>7 DEF IsOpenings

\* Where an end before m is concerned, the longer text says the same.
LEMMA EndBefore ==
  ASSUME NEW t, NEW u, NEW c, Longer(t, u, c), NEW k \in Nat, k <= Len(t),
         NEW m \in Nat, m <= Len(t) + 1
  PROVE  /\ EndOf(u, k) < m <=> EndOf(t, k) < m
         /\ EndOf(t, k) \in Nat /\ k < EndOf(t, k) /\ EndOf(t, k) <= k + MaxTagBuffer
         /\ EndOf(u, k) \in Nat
<1>1. IsEnd(t, k, EndOf(t, k)) /\ Len(t) \in Nat
  BY EndOfFacts DEF Longer
<1>2. MaxTagBuffer \in Nat
  BY ParserAssumption
<1>3. EndOf(u, k) = IF EndOf(t, k) <= Len(t) THEN EndOf(t, k)
                    ELSE IF c = ">" THEN Len(t) + 1
                    ELSE k + MaxTagBuffer
  BY EndOfLonger
<1>4. QED
  BY <1>1, <1>2, <1>3 DEF IsEnd

\* The new character opens no tag; it confirms the "<" before it as one.
LEMMA OpeningsLonger ==
  ASSUME NEW t, NEW u, NEW c, Longer(t, u, c)
  PROVE  Openings(u) = Openings(t)
           \cup {k \in {Len(t)} : Fresh(t) /\ c \in Letters \cup {"/"}}
<1> DEFINE n == Len(t)
           O == Openings(t)
           new == Fresh(t) /\ c \in Letters \cup {"/"}
           P == O \cup {k \in {n} : new}
<1>1. /\ n \in Nat /\ Len(u) = n + 1 /\ u[n + 1] = c /\ \A j \in 1..n : u[j] = t[j]
      /\ Len(u) \in Nat
  BY DEF Longer
<1>2. IsOpenings(t, O, n)
  BY <1>1, OpeningsFacts
<1>3. O \subseteq 1..n /\ \A k \in 1..n : k \in O <=> OpensAt(t, O, k)
  BY <1>2 DEF IsOpenings
<1>4. n \notin O
  <2>1. ~OpensAt(t, O, n)
    BY <1>1 DEF OpensAt
  <2>2. QED
    BY <1>3, <2>1
<1>5. \A k \in 1..(n + 1) : \A i \in 1..(k - 1) : EndOf(u, i) < k <=> EndOf(t, i) < k
  <2>1. ASSUME NEW k \in 1..(n + 1), NEW i \in 1..(k - 1)
        PROVE  EndOf(u, i) < k <=> EndOf(t, i) < k
    <3>1. i \in Nat /\ i <= n /\ k \in Nat /\ k <= n + 1
      BY <1>1
    <3>2. QED
      BY <3>1, EndBefore
  <2>2. QED
    BY <2>1
<1>6. P \subseteq 1..(n + 1)
  <2>1. new => n \in 1..(n + 1)
    BY <1>1 DEF Fresh
  <2>2. O \subseteq 1..(n + 1)
    BY <1>1, <1>3
  <2> HIDE DEF new, O, n
  <2>3. QED
    BY <2>1, <2>2
<1>7. ASSUME NEW k \in 1..(n + 1)
      PROVE  k \in P <=> OpensAt(u, P, k)
  <2>1. k <= n => \A i \in 1..(k - 1) : i \in P <=> i \in O
    BY <1>1
  <2>2. k <= n =>
          (OpensAt(u, P, k) <=> /\ u[k] = "<"
                                /\ k < n + 1 /\ u[k + 1] \in Letters \cup {"/"}
                                /\ \A i \in 1..(k - 1) : i \in O => EndOf(t, i) < k)
    BY <1>1, <1>5, <2>1 DEF OpensAt
  <2>3. CASE k = n + 1
    <3>1. k \notin P
      BY <1>1, <1>3, <2>3
    <3>2. ~OpensAt(u, P, k)
      BY <1>1, <2>3 DEF OpensAt
    <3>3. QED
      BY <3>1, <3>2
  <2>4. CASE k = n
    <3>1. k \in P <=> new
      BY <1>4, <2>4
    <3>2. (\A i \in 1..(n - 1) : i \in O => EndOf(t, i) < n)
            <=> \A i \in O : EndOf(t, i) < n
      BY <1>1, <1>3, <1>4
    <3>3. k \in 1..n /\ u[k] = t[k] /\ u[k + 1] = c /\ k < n + 1 /\ n >= 1
      BY <1>1, <2>4
    <3>4. OpensAt(u, P, k) <=> new
      BY <2>2, <2>4, <3>2, <3>3 DEF Fresh
    <3>5. QED
      BY <3>1, <3>4
  <2>5. CASE k < n
    <3>1. k \in 1..n /\ k + 1 \in 1..n /\ u[k] = t[k] /\ u[k + 1] = t[k + 1] /\ k # n
      BY <1>1, <2>5
    <3>2. OpensAt(u, P, k) <=> OpensAt(t, O, k)
      BY <1>1, <2>2, <2>5, <3>1 DEF OpensAt
    <3>3. k \in P <=> k \in O
      BY <3>1
    <3>4. QED
      BY <1>3, <3>1, <3>2, <3>3
  <2>6. QED
    BY <1>1, <2>3, <2>4, <2>5
<1>8. IsOpenings(u, P, n + 1)
  <2> HIDE DEF P
  <2>1. QED
    BY <1>6, <1>7 DEF IsOpenings
<1>9. IsOpenings(u, Openings(u), n + 1)
  BY <1>1, OpeningsFacts
<1>10. P = Openings(u)
  <2>1. n + 1 \in Nat
    BY <1>1
  <2> HIDE DEF P, n
  <2>2. QED
    BY <1>8, <1>9, <2>1, OpeningsUnique
<1>11. QED
  BY <1>10

\* An opening is a "<" before the end, followed by what may begin a tag.
LEMMA OpeningIs ==
  ASSUME NEW t, Len(t) \in Nat, NEW k \in Openings(t)
  PROVE  /\ k \in Nat /\ k >= 1 /\ k < Len(t) /\ k <= Len(t)
         /\ t[k] = "<" /\ t[k + 1] \in Letters \cup {"/"}
         /\ \A i \in Openings(t) : i < k => EndOf(t, i) < k
<1>1. IsOpenings(t, Openings(t), Len(t))
  BY OpeningsFacts
<1>2. k \in 1..Len(t) /\ OpensAt(t, Openings(t), k) /\ Openings(t) \subseteq 1..Len(t)
  BY <1>1 DEF IsOpenings
<1>3. QED
  BY <1>2 DEF OpensAt

\* Only ">" closes a tag, and it closes the open ones.
LEMMA TagsLonger ==
  ASSUME NEW t, NEW u, NEW c, Longer(t, u, c)
  PROVE  /\ Tags(u) = Tags(t) \cup {k \in Unended(t) : c = ">"}
         /\ \A k \in Tags(t) : EndOf(u, k) = EndOf(t, k) /\ EndOf(t, k) <= Len(t)
<1> DEFINE n == Len(t)
<1>1. /\ n \in Nat /\ Len(u) = n + 1 /\ u[n + 1] = c /\ \A j \in 1..n : u[j] = t[j]
      /\ MaxTagBuffer \in Nat /\ MaxTagBuffer >= 2
  BY ParserAssumption DEF Longer
<1>2. \A k \in Openings(t) : k \in 1..n
  BY <1>1, OpeningIs
<1>3. ASSUME NEW k \in 1..n
      PROVE  /\ EndOf(u, k) = IF EndOf(t, k) <= n THEN EndOf(t, k)
                              ELSE IF c = ">" THEN n + 1
                              ELSE k + MaxTagBuffer
             /\ EndOf(t, k) \in Nat /\ k < EndOf(t, k) /\ EndOf(t, k) <= k + MaxTagBuffer
  <2>1. k \in Nat /\ k <= Len(t) /\ n \in Nat /\ n <= Len(t) + 1
    BY <1>1
  <2>2. QED
    BY <2>1, EndOfLonger, EndBefore
<1>4. \A k \in Tags(t) : EndOf(u, k) = EndOf(t, k) /\ EndOf(t, k) <= Len(t)
  BY <1>2, <1>3 DEF Tags
<1>5. ASSUME NEW k \in Openings(t)
      PROVE  k \in Tags(u) <=> k \in Tags(t) \/ (EndOf(t, k) > n /\ c = ">")
  <2>1. k \in Openings(u) /\ k \in 1..n
    BY <1>2, OpeningsLonger
  <2>2. CASE EndOf(t, k) <= n
    <3>1. EndOf(u, k) = EndOf(t, k) /\ EndOf(t, k) \in 1..n
      BY <1>1, <1>3, <2>1, <2>2
    <3>2. QED
      BY <1>1, <2>1, <2>2, <3>1 DEF Tags
  <2>3. CASE EndOf(t, k) > n /\ c = ">"
    <3>1. EndOf(u, k) = n + 1
      BY <1>1, <1>3, <2>1, <2>3
    <3>2. QED
      BY <1>1, <2>1, <2>3, <3>1 DEF Tags
  <2>4. CASE EndOf(t, k) > n /\ c # ">"
    <3>1. EndOf(u, k) = k + MaxTagBuffer /\ k + MaxTagBuffer > n
      BY <1>1, <1>3, <2>1, <2>4
    <3>2. k + MaxTagBuffer <= n + 1 => k + MaxTagBuffer = n + 1
      BY <1>1, <2>1, <3>1
    <3>3. k \notin Tags(u)
      BY <1>1, <2>4, <3>1, <3>2 DEF Tags
    <3>4. k \notin Tags(t)
      BY <1>1, <1>3, <2>1, <2>4 DEF Tags
    <3>5. QED
      BY <2>4, <3>3, <3>4
  <2>5. QED
    BY <1>1, <1>3, <2>1, <2>2, <2>3, <2>4
<1>6. ASSUME NEW k \in Tags(u) PROVE k \in Openings(t)
  <2>1. SUFFICES ASSUME k \notin Openings(t) PROVE FALSE
    OBVIOUS
  <2>2. k = n /\ Fresh(t) /\ c \in Letters \cup {"/"}
    BY <2>1, OpeningsLonger DEF Tags
  <2>3. k \in 1..n /\ c # ">"
    BY <1>1, <2>2 DEF Fresh, Letters, Names
  <2>4. EndOf(u, k) \in Nat /\ EndOf(u, k) <= n + 1 /\ u[EndOf(u, k)] = ">"
        /\ k < EndOf(u, k)
    <3>1. IsEnd(u, k, EndOf(u, k))
      <4>1. Len(u) \in Nat /\ k \in Nat
        BY <1>1, <2>3
      <4>2. QED
        BY <4>1, EndOfFacts
    <3>2. QED
      BY <1>1, <2>3, <3>1 DEF IsEnd, Tags
  <2>5. EndOf(u, k) = n + 1
    BY <1>1, <2>2, <2>4
  <2>6. QED
    BY <1>1, <2>3, <2>4, <2>5
<1>7. \A k \in Tags(t) : k \in Openings(t)
  BY DEF Tags
<1>8. Tags(u) = Tags(t) \cup {k \in Unended(t) : c = ">"}
  BY <1>5, <1>6, <1>7 DEF Unended
<1>9. QED
  BY <1>4, <1>8

\* What the character at n does to a view: something only if it closes a tag.
Effect(text, tags, n, v) ==
    LET closing == {k \in tags : EndOf(text, k) = n}
    IN  IF closing = {} THEN v ELSE Declaration(Inner(text, Min(closing)), v)

\* f[n] is the view after n characters, up to m.
Says(f, text, tags, m) ==
    f = [n \in 0..m |-> IF n = 0 THEN GlobalView ELSE Effect(text, tags, n, f[n - 1])]

\* The views of a text, position by position.
LEMMA SaysAt ==
  ASSUME NEW f, NEW text, NEW tags, NEW m, Says(f, text, tags, m), NEW i \in 0..m
  PROVE  f[i] = IF i = 0 THEN GlobalView ELSE Effect(text, tags, i, f[i - 1])
  BY DEF Says

\* They exist, ...
LEMMA SaysExists ==
  ASSUME NEW text, NEW tags, NEW m \in Nat
  PROVE  \E f : Says(f, text, tags, m)
<1> DEFINE Missing == {n \in Nat : ~\E f : Says(f, text, tags, n)}
<1>1. SUFFICES ASSUME Missing # {} PROVE FALSE
  OBVIOUS
<1>2. PICK n \in Missing : \A x \in Missing : n <= x
  BY <1>1, LeastNumber
<1>3. n # 0
  <2> DEFINE f == [i \in 0..0 |-> GlobalView]
  <2>1. Says(f, text, tags, 0)
    BY DEF Says
  <2>2. QED
    BY <2>1
<1>4. n - 1 \in Nat /\ n - 1 \notin Missing
  BY <1>2, <1>3
<1>5. PICK g : Says(g, text, tags, n - 1)
  BY <1>4
<1> DEFINE last == Effect(text, tags, n, g[n - 1])
           f == [i \in 0..n |-> IF i = n THEN last ELSE g[i]]
<1>6. ASSUME NEW i \in 0..n
      PROVE  f[i] = IF i = 0 THEN GlobalView ELSE Effect(text, tags, i, f[i - 1])
  <2>1. CASE i = n
    <3>1. n - 1 \in 0..n /\ n - 1 # n /\ n \in 0..n
      BY <1>3, <1>4
    <3>2. f[n - 1] = g[n - 1] /\ f[n] = Effect(text, tags, n, g[n - 1])
      BY <3>1
    <3> HIDE DEF f
    <3>3. QED
      BY <1>3, <2>1, <3>2
  <2>2. CASE i # n
    <3>1. i \in 0..(n - 1) /\ f[i] = g[i]
      BY <1>4, <2>2
    <3>2. i # 0 => i - 1 \in 0..n /\ i - 1 # n /\ f[i - 1] = g[i - 1]
      BY <1>4, <3>1
    <3>3. g[i] = IF i = 0 THEN GlobalView ELSE Effect(text, tags, i, g[i - 1])
      BY <1>5, <3>1, SaysAt
    <3> HIDE DEF f
    <3>4. QED
      BY <3>1, <3>2, <3>3
  <2>3. QED
    BY <2>1, <2>2
<1>7. f = [i \in 0..n |-> f[i]]
  OBVIOUS
<1> HIDE DEF f
<1>8. Says(f, text, tags, n)
  BY <1>6, <1>7 DEF Says
<1>9. QED
  BY <1>2, <1>8

\* Up to m, the characters of both texts do the same to every view.
SameEffects(text, tags, text2, tags2, m) ==
    \A n \in 1..m : \A v : Effect(text, tags, n, v) = Effect(text2, tags2, n, v)

\* ... are the same where the effects are, ...
LEMMA SaysSame ==
  ASSUME NEW f, NEW t, NEW K, NEW m \in Nat, Says(f, t, K, m),
         NEW g, NEW u, NEW L, NEW n \in Nat, Says(g, u, L, n),
         NEW i \in Nat, i <= m, i <= n, SameEffects(t, K, u, L, i)
  PROVE  f[i] = g[i]
<1> DEFINE Differ == {j \in 0..i : f[j] # g[j]}
<1>1. SUFFICES ASSUME Differ # {} PROVE FALSE
  OBVIOUS
<1>2. PICK j \in Differ : \A x \in Differ : j <= x
  <2>1. Differ \subseteq Nat
    OBVIOUS
  <2>2. QED
    BY <1>1, <2>1, LeastNumber
<1>3. j \in 0..m /\ j \in 0..n
  OBVIOUS
<1>4. j # 0
  BY <1>3, SaysAt
<1>5. j - 1 \in 0..i /\ f[j - 1] = g[j - 1] /\ j \in 1..i
  BY <1>2, <1>4
<1>6. f[j] = Effect(t, K, j, f[j - 1]) /\ g[j] = Effect(u, L, j, g[j - 1])
  BY <1>3, <1>4, SaysAt
<1>7. Effect(t, K, j, f[j - 1]) = Effect(u, L, j, g[j - 1])
  BY <1>5 DEF SameEffects
<1>8. QED
  BY <1>2, <1>6, <1>7

\* ... and Meaning is the last of them.
LEMMA MeaningSays ==
  ASSUME NEW text, Len(text) \in Nat, NEW f, Says(f, text, Tags(text), Len(text))
  PROVE  Meaning(text) = f[Len(text)]
<1>1. PICK g : Says(g, text, Tags(text), Len(text)) /\ Meaning(text) = g[Len(text)]
  BY SaysExists DEF Says, Effect, Meaning
<1>2. SameEffects(text, Tags(text), text, Tags(text), Len(text))
  BY DEF SameEffects
<1>3. QED
  BY <1>1, <1>2, SaysSame

\* A piece of the text is the same piece of the longer text.
LEMMA PieceSame ==
  ASSUME NEW t \in Seq(Chars), NEW u \in Seq(Chars), NEW a \in Nat, a >= 1,
         NEW d \in Nat, d <= Len(t), Len(u) = Len(t) + 1, \A j \in 1..Len(t) : u[j] = t[j]
  PROVE  SubSeq(u, a, d) = SubSeq(t, a, d)
<1> DEFINE v == SubSeq(t, a, d)
           w == SubSeq(u, a, d)
<1>1. CASE a > d
  BY <1>1
<1>2. CASE a <= d
  <2>1. v \in Seq(Chars) /\ w \in Seq(Chars) /\ Len(v) = d - a + 1 /\ Len(w) = d - a + 1
    BY <1>2
  <2>2. \A j \in 1..(d - a + 1) : v[j] = t[a + j - 1] /\ w[j] = u[a + j - 1]
                                  /\ a + j - 1 \in 1..Len(t)
    BY <1>2
  <2>3. \A j \in 1..Len(v) : v[j] = w[j]
    BY <2>1, <2>2
  <2> HIDE DEF v, w
  <2>4. v = w
    BY <2>1, <2>3, SeqEqual
  <2>5. QED
    BY <2>4 DEF v, w
<1>3. QED
  BY <1>1, <1>2

\* The meaning of the longer text is what its last character does to that of the text.
LEMMA MeaningLonger ==
  ASSUME NEW t, NEW u, NEW c, Longer(t, u, c)
  PROVE  Meaning(u) = Effect(u, Tags(u), Len(t) + 1, Meaning(t))
<1> DEFINE n == Len(t)
<1>1. /\ n \in Nat /\ n + 1 \in Nat /\ Len(u) = n + 1 /\ \A j \in 1..n : u[j] = t[j]
      /\ t \in Seq(Chars) /\ u \in Seq(Chars)
  BY DEF Longer
<1>2. /\ Tags(u) = Tags(t) \cup {k \in Unended(t) : c = ">"}
      /\ \A k \in Tags(t) : EndOf(u, k) = EndOf(t, k) /\ EndOf(t, k) <= n
  BY TagsLonger
<1>3. \A k \in Openings(t) : k \in 1..n
  BY <1>1, OpeningIs
<1>4. \A k \in Unended(t) : c = ">" => EndOf(u, k) = n + 1
  <2>1. ASSUME NEW k \in Unended(t), c = ">" PROVE EndOf(u, k) = n + 1
    <3>1. k \in Nat /\ k <= n /\ EndOf(t, k) > n
      BY <1>1, <1>3 DEF Unended
    <3>2. ~(EndOf(t, k) <= n)
      BY <1>1, <3>1, EndBefore
    <3>3. QED
      BY <2>1, <3>1, <3>2, EndOfLonger
  <2>2. QED
    BY <2>1
<1>5. \A m \in 1..n : {k \in Tags(u) : EndOf(u, k) = m} = {k \in Tags(t) : EndOf(t, k) = m}
  BY <1>1, <1>2, <1>4
<1>6. ASSUME NEW k \in Tags(t) PROVE Inner(u, k) = Inner(t, k)
  <2>1. k \in 1..n /\ EndOf(t, k) \in Nat /\ EndOf(t, k) <= n /\ EndOf(u, k) = EndOf(t, k)
    <3>1. k \in Openings(t)
      BY DEF Tags
    <3>2. k \in 1..n /\ k \in Nat /\ k <= n
      BY <1>1, <1>3, <3>1
    <3>3. QED
      BY <1>1, <1>2, <3>2, EndBefore
  <2>2. PICK e \in Nat : e = EndOf(t, k)
    BY <2>1
  <2>3. PICK d \in Nat : d = e - 1
    <3>1. e >= 1
      <4>1. k < EndOf(t, k)
        BY <1>1, <2>1, EndBefore
      <4>2. QED
        BY <2>1, <2>2, <4>1
    <3>2. QED
      BY <2>2, <3>1
  <2>4. d <= n /\ k + 1 \in Nat /\ k + 1 >= 1
    BY <1>1, <2>1, <2>2, <2>3
  <2>5. SubSeq(u, k + 1, d) = SubSeq(t, k + 1, d)
    <3>1. PICK a \in Nat : a = k + 1 /\ a >= 1
      BY <2>4
    <3>2. d <= n /\ d \in Nat /\ n = Len(t)
      BY <2>3, <2>4
    <3>3. SubSeq(u, a, d) = SubSeq(t, a, d)
      BY <1>1, <3>1, <3>2, PieceSame
    <3>4. QED
      BY <3>1, <3>3
  <2>6. QED
    BY <2>1, <2>2, <2>3, <2>5 DEF Inner
<1>7. SameEffects(u, Tags(u), t, Tags(t), n)
  <2>1. ASSUME NEW m \in 1..n, NEW v
        PROVE  Effect(u, Tags(u), m, v) = Effect(t, Tags(t), m, v)
    <3> DEFINE K == {k \in Tags(t) : EndOf(t, k) = m}
    <3>1. K = {k \in Tags(u) : EndOf(u, k) = m}
      BY <1>5
    <3>2. K # {} => Min(K) \in Tags(t)
      <4>1. SUFFICES ASSUME K # {} PROVE Min(K) \in K
        OBVIOUS
      <4>2. K \subseteq Nat
        BY <1>3 DEF Tags
      <4> HIDE DEF K
      <4>3. \E x \in K : \A y \in K : x <= y
        BY <4>1, <4>2, LeastNumber
      <4>4. QED
        BY <4>3 DEF Min
    <3>3. K # {} => Inner(u, Min(K)) = Inner(t, Min(K))
      BY <3>2, <1>6
    <3>4. Effect(t, Tags(t), m, v) = IF K = {} THEN v ELSE Declaration(Inner(t, Min(K)), v)
      BY DEF Effect
    <3>5. Effect(u, Tags(u), m, v) = IF K = {} THEN v ELSE Declaration(Inner(u, Min(K)), v)
      BY <3>1 DEF Effect
    <3>6. QED
      BY <3>3, <3>4, <3>5
  <2>2. QED
    BY <2>1 DEF SameEffects
<1>8. PICK f : Says(f, u, Tags(u), n + 1)
  BY <1>1, SaysExists
<1>9. PICK g : Says(g, t, Tags(t), n)
  BY <1>1, SaysExists
<1>10. f[n] = g[n]
  <2>1. n <= n + 1 /\ n <= n
    BY <1>1
  <2> HIDE DEF n
  <2>2. QED
    BY <1>1, <1>7, <1>8, <1>9, <2>1, SaysSame
<1>11. f[n + 1] = Effect(u, Tags(u), n + 1, f[n])
  <2>1. n + 1 \in 0..(n + 1) /\ n + 1 # 0 /\ (n + 1) - 1 = n
    BY <1>1
  <2>2. f[n + 1] = IF n + 1 = 0 THEN GlobalView ELSE Effect(u, Tags(u), n + 1, f[(n + 1) - 1])
    BY <1>8, <2>1, SaysAt
  <2>3. QED
    BY <2>1, <2>2
<1>12. Meaning(u) = f[n + 1] /\ Meaning(t) = g[n]
  <2>1. Meaning(t) = g[n]
    BY <1>1, <1>9, MeaningSays
  <2>2. Len(u) \in Nat /\ Says(f, u, Tags(u), Len(u))
    BY <1>1, <1>8
  <2>3. QED
    BY <1>1, <2>1, <2>2, MeaningSays
<1>13. QED
  BY <1>10, <1>11, <1>12

-----------------------------------------------------------------------------
(* What a character does to the meaning and to the text outside the tags. *)

\* A character that closes no tag.
LEMMA PlainLonger ==
  ASSUME NEW t, NEW u, NEW c, Longer(t, u, c), c # ">" \/ Unended(t) = {}
  PROVE  Meaning(u) = Meaning(t) /\ Outside(u) = Append(Outside(t), c)
<1> DEFINE n == Len(t)
<1>1. /\ n \in Nat /\ Len(u) = n + 1 /\ u[n + 1] = c /\ \A j \in 1..n : u[j] = t[j]
      /\ t \in Seq(Chars) /\ u \in Seq(Chars) /\ c \in Chars
  BY DEF Longer
<1>2. /\ Tags(u) = Tags(t)
      /\ \A k \in Tags(t) : EndOf(u, k) = EndOf(t, k) /\ EndOf(t, k) <= n
  BY TagsLonger
<1>3. \A k \in Tags(t) : k \in 1..n /\ EndOf(t, k) \in Nat
  <2>1. ASSUME NEW k \in Tags(t) PROVE k \in 1..n /\ EndOf(t, k) \in Nat
    <3>1. k \in Openings(t)
      BY DEF Tags
    <3>2. k \in 1..n /\ k \in Nat /\ k <= n
      BY <1>1, <3>1, OpeningIs
    <3>3. QED
      BY <1>1, <3>2, EndBefore
  <2>2. QED
    BY <2>1
<1>4. Meaning(u) = Meaning(t)
  <2>1. {k \in Tags(u) : EndOf(u, k) = n + 1} = {}
    BY <1>1, <1>2, <1>3
  <2>2. QED
    BY <2>1, MeaningLonger DEF Effect
<1>5. Outside(u) = Append(Outside(t), c)
  <2> DEFINE K == {i \in DOMAIN t : \A k \in Tags(t) : i < k \/ EndOf(t, k) < i}
             L == {i \in DOMAIN u : \A k \in Tags(u) : i < k \/ EndOf(u, k) < i}
  <2>1. \A j \in 1..n : j \in K <=> j \in L
    BY <1>1, <1>2
  <2>2. n + 1 \in L
    BY <1>1, <1>2, <1>3
  <2>3. Outside(t) = Kept(t, K) /\ Outside(u) = Kept(u, L)
    BY DEF Outside
  <2> HIDE DEF K, L
  <2>4. u = Append(t, c)
    BY <1>1, SeqEqual
  <2>5. Kept(Append(t, c), L) = IF Len(t) + 1 \in L THEN Append(Kept(t, K), c) ELSE Kept(t, K)
    BY <1>1, <2>1, KeptAppend
  <2>6. QED
    BY <2>2, <2>3, <2>4, <2>5
<1>6. QED
  BY <1>4, <1>5

\* The character that closes it.
LEMMA ClosingLonger ==
  ASSUME NEW t, NEW u, Longer(t, u, ">"), NEW k, LastOpen(t, k)
  PROVE  /\ Meaning(u) = Declaration(SubSeq(t, k + 1, Len(t)), Meaning(t))
         /\ Outside(t) = Outside(u) \o SubSeq(t, k, Len(t))
<1> DEFINE n == Len(t)
           c == ">"
<1>1. /\ n \in Nat /\ n + 1 \in Nat /\ Len(u) = n + 1 /\ u[n + 1] = c
      /\ \A j \in 1..n : u[j] = t[j]
      /\ t \in Seq(Chars) /\ u \in Seq(Chars) /\ c \in Chars
  BY DEF Longer
<1>2. /\ Tags(u) = Tags(t) \cup Unended(t)
      /\ \A i \in Tags(t) : EndOf(u, i) = EndOf(t, i) /\ EndOf(t, i) <= n
  BY TagsLonger
<1>3. k \in Openings(t) /\ k \in 1..n /\ k \in Nat /\ k <= n
  BY <1>1, OpeningIs DEF LastOpen, Unended
<1>4. Unended(t) = {k}
  <2>1. \A i \in Openings(t) : i # k => EndOf(t, i) \in Nat /\ EndOf(t, i) < k
    <3>1. \A i \in Openings(t) : i \in Nat /\ i <= n
      BY <1>1, OpeningIs
    <3>2. QED
      BY <1>1, <3>1, EndBefore DEF LastOpen
  <2>2. \A i \in Unended(t) : i = k
    BY <1>1, <1>3, <2>1 DEF Unended
  <2>3. QED
    BY <2>2 DEF LastOpen
<1>5. EndOf(u, k) = n + 1
  <2>1. EndOf(t, k) > n /\ EndOf(t, k) \in Nat
    BY <1>1, <1>3, EndBefore DEF LastOpen, Unended
  <2>2. ~(EndOf(t, k) <= n)
    BY <1>1, <2>1
  <2>3. QED
    BY <1>3, <2>2, EndOfLonger
<1>6. \A i \in Tags(t) : i # k /\ i \in 1..n /\ EndOf(t, i) \in Nat /\ EndOf(t, i) < k /\ i < k
  <2>1. ASSUME NEW i \in Tags(t)
        PROVE  i # k /\ i \in 1..n /\ EndOf(t, i) \in Nat /\ EndOf(t, i) < k /\ i < k
    <3>1. i \in Openings(t)
      BY DEF Tags
    <3>2. i \in 1..n /\ i \in Nat /\ i <= n
      BY <1>1, <3>1, OpeningIs
    <3>3. EndOf(t, i) \in Nat /\ i < EndOf(t, i)
      BY <1>1, <3>2, EndBefore
    <3>4. i # k
      BY <1>1, <1>2, <3>3 DEF LastOpen, Unended
    <3>5. EndOf(t, i) < k
      BY <3>1, <3>4 DEF LastOpen
    <3>6. QED
      BY <1>3, <3>2, <3>3, <3>4, <3>5
  <2>2. QED
    BY <2>1
<1>7. Meaning(u) = Declaration(SubSeq(t, k + 1, Len(t)), Meaning(t))
  <2>1. {i \in Tags(u) : EndOf(u, i) = n + 1} = {k}
    BY <1>1, <1>2, <1>4, <1>5, <1>6
  <2>2. Min({k}) = k
    BY <1>3 DEF Min
  <2>3. Inner(u, k) = SubSeq(t, k + 1, n)
    <3>1. Inner(u, k) = SubSeq(u, k + 1, (n + 1) - 1)
      BY <1>5 DEF Inner
    <3>2. (n + 1) - 1 = n
      BY <1>1
    <3>3. SubSeq(u, k + 1, n) = SubSeq(t, k + 1, n)
      BY <1>1, <1>3
    <3>4. QED
      BY <3>1, <3>2, <3>3
  <2>4. {k} # {}
    OBVIOUS
  <2>5. QED
    BY <2>1, <2>2, <2>3, <2>4, MeaningLonger DEF Effect
<1>8. Outside(t) = Outside(u) \o SubSeq(t, k, Len(t))
  <2> DEFINE K == {i \in DOMAIN t : \A j \in Tags(t) : i < j \/ EndOf(t, j) < i}
             L == {i \in DOMAIN u : \A j \in Tags(u) : i < j \/ EndOf(u, j) < i}
             m == k - 1
  <2>1. /\ m \in 0..Len(t) /\ m \in 0..Len(u) /\ m + 1 = k /\ m \in Nat /\ m <= n
    BY <1>1, <1>3
  <2>2. \A j \in 1..m : j \in K <=> j \in L
    BY <1>1, <1>2, <1>3, <1>4, <1>6
  <2>3. \A j \in (m + 1)..Len(t) : j \in K
    BY <1>1, <1>3, <1>6
  <2>4. \A j \in (m + 1)..Len(u) : j \notin L
    BY <1>1, <1>2, <1>3, <1>4, <1>5
  <2>5. Outside(t) = Kept(t, K) /\ Outside(u) = Kept(u, L)
    BY DEF Outside
  <2> HIDE DEF K, L, m
  <2>6. Kept(t, K) = Kept(SubSeq(t, 1, m), K) \o SubSeq(t, m + 1, Len(t))
    BY <1>1, <2>1, <2>3, KeptRun
  <2>7. Kept(u, L) = Kept(SubSeq(u, 1, m), L)
    BY <1>1, <2>1, <2>4, KeptRun
  <2>8. Kept(SubSeq(u, 1, m), L) = Kept(SubSeq(t, 1, m), K)
    <3>1. /\ SubSeq(t, 1, m) \in Seq(Chars) /\ Len(SubSeq(t, 1, m)) = m
          /\ \A j \in 1..m : SubSeq(t, 1, m)[j] = t[j]
      BY <1>1, <2>1, PrefixFacts
    <3>2. /\ SubSeq(u, 1, m) \in Seq(Chars) /\ Len(SubSeq(u, 1, m)) = m
          /\ \A j \in 1..m : SubSeq(u, 1, m)[j] = u[j]
      BY <1>1, <2>1, PrefixFacts
    <3>3. \A j \in 1..m : SubSeq(u, 1, m)[j] = SubSeq(t, 1, m)[j]
      BY <1>1, <2>1, <3>1, <3>2
    <3> DEFINE v == SubSeq(t, 1, m)
               w == SubSeq(u, 1, m)
    <3>4. /\ w \in Seq(Chars) /\ v \in Seq(Chars) /\ Len(w) = Len(v)
          /\ \A j \in 1..Len(w) : (j \in L <=> j \in K) /\ (j \in L => w[j] = v[j])
      BY <2>2, <3>1, <3>2, <3>3
    <3> HIDE DEF v, w
    <3>5. Kept(w, L) = Kept(v, K)
      BY <3>4, KeptSame
    <3>6. QED
      BY <3>5 DEF v, w
  <2>9. QED
    BY <2>1, <2>5, <2>6, <2>7, <2>8
<1>9. QED
  BY <1>7, <1>8

\* The ends of the openings before and after the character.
LEMMA EndsTyped ==
  ASSUME NEW t, NEW u, NEW c, Longer(t, u, c), NEW k \in Openings(t)
  PROVE  /\ k \in Nat /\ k >= 1 /\ k <= Len(t)
         /\ EndOf(t, k) \in Nat /\ k < EndOf(t, k) /\ EndOf(t, k) <= k + MaxTagBuffer
         /\ EndOf(u, k) = IF EndOf(t, k) <= Len(t) THEN EndOf(t, k)
                          ELSE IF c = ">" THEN Len(t) + 1
                          ELSE k + MaxTagBuffer
<1>1. Len(t) \in Nat
  BY DEF Longer
<1>2. k \in Nat /\ k >= 1 /\ k <= Len(t)
  BY <1>1, OpeningIs
<1>3. QED
  BY <1>1, <1>2, EndBefore, EndOfLonger

\* No tag is open where the last character may open one.
LEMMA FreshFacts ==
  ASSUME NEW t, NEW u, NEW c, Longer(t, u, c)
  PROVE  /\ Fresh(t) => Unended(t) = {} /\ Len(t) >= 1
         /\ Fresh(u) <=> c = "<" /\ Unended(t) = {}
<1> DEFINE n == Len(t)
<1>1. n \in Nat /\ Len(u) = n + 1 /\ u[n + 1] = c
  BY DEF Longer
<1>2. \A k \in Openings(t) : EndOf(t, k) \in Nat /\ k \in Nat /\ k <= n
  BY EndsTyped
<1>3. Fresh(t) => Unended(t) = {} /\ n >= 1
  BY <1>1, <1>2 DEF Fresh, Unended
<1>4. \A k \in Openings(t) : EndOf(u, k) < n + 1 <=> EndOf(t, k) < n + 1
  <2>1. ASSUME NEW k \in Openings(t) PROVE EndOf(u, k) < n + 1 <=> EndOf(t, k) < n + 1
    <3>1. k \in Nat /\ k <= Len(t) /\ n + 1 \in Nat /\ n + 1 <= Len(t) + 1
      BY <1>1, <1>2
    <3>2. QED
      BY <3>1, EndBefore
  <2>2. QED
    BY <2>1
<1>5. c = "<" => Openings(u) = Openings(t)
  <2>1. SUFFICES ASSUME c = "<" PROVE Openings(u) = Openings(t)
    OBVIOUS
  <2>2. c \notin Letters \cup {"/"}
    BY <2>1 DEF Letters, Names
  <2>3. Openings(u) = Openings(t) \cup {k \in {Len(t)} : Fresh(t) /\ c \in Letters \cup {"/"}}
    BY OpeningsLonger
  <2>4. QED
    BY <2>2, <2>3
<1>6. Unended(t) = {} <=> \A k \in Openings(t) : EndOf(t, k) < n + 1
  BY <1>1, <1>2 DEF Unended
<1>7. Fresh(u) <=> c = "<" /\ \A k \in Openings(u) : EndOf(u, k) < n + 1
  BY <1>1 DEF Fresh
<1>8. QED
  BY <1>3, <1>4, <1>5, <1>6, <1>7

\* What stays open: neither closed nor given up with this character.
LEMMA UnendedLonger ==
  ASSUME NEW t, NEW u, NEW c, Longer(t, u, c)
  PROVE  Unended(u) = {k \in Unended(t) : c # ">" /\ k + MaxTagBuffer > Len(t) + 1}
                        \cup {k \in {Len(t)} : Fresh(t) /\ c \in Letters \cup {"/"}}
<1> DEFINE n == Len(t)
<1>1. /\ n \in Nat /\ n + 1 \in Nat /\ Len(u) = n + 1 /\ MaxTagBuffer \in Nat
      /\ MaxTagBuffer >= 2
  BY ParserAssumption DEF Longer
<1>2. \A k \in Openings(t) :
         /\ k \in Nat /\ k >= 1 /\ k <= n
         /\ EndOf(t, k) \in Nat
         /\ EndOf(u, k) = IF EndOf(t, k) <= n THEN EndOf(t, k)
                          ELSE IF c = ">" THEN n + 1
                          ELSE k + MaxTagBuffer
  BY EndsTyped
<1>3. ASSUME NEW k \in Openings(t)
      PROVE  EndOf(u, k) > n + 1 <=> EndOf(t, k) > n /\ c # ">" /\ k + MaxTagBuffer > n + 1
  BY <1>1, <1>2
<1>4. ASSUME Fresh(t) /\ c \in Letters \cup {"/"} PROVE EndOf(u, n) > n + 1
  <2>1. n >= 1 /\ c # ">"
    BY <1>1, <1>4 DEF Fresh, Letters, Names
  <2>2. IsEnd(t, n, EndOf(t, n))
    BY <1>1, EndOfFacts
  <2>3. ~(EndOf(t, n) <= n)
    BY <1>1, <2>2 DEF IsEnd
  <2>4. EndOf(u, n) = n + MaxTagBuffer
    <3>1. n <= Len(t)
      BY <1>1
    <3>2. QED
      BY <1>1, <2>1, <2>3, <3>1, EndOfLonger
  <2>5. QED
    BY <1>1, <2>4
<1>5. Openings(u) = Openings(t) \cup {k \in {n} : Fresh(t) /\ c \in Letters \cup {"/"}}
  BY OpeningsLonger
<1>6. QED
  BY <1>1, <1>3, <1>4, <1>5 DEF Unended

\* A tag opens, or the open one stays the last.
LEMMA LastOpenLonger ==
  ASSUME NEW t, NEW u, NEW c, Longer(t, u, c)
  PROVE  /\ Fresh(t) /\ c \in Letters \cup {"/"} => LastOpen(u, Len(t))
         /\ \A k : LastOpen(t, k) /\ c # ">" /\ k + MaxTagBuffer > Len(t) + 1
                     => LastOpen(u, k)
<1> DEFINE n == Len(t)
<1>1. n \in Nat /\ n + 1 \in Nat /\ Len(u) = n + 1
  BY DEF Longer
<1>2. \A k \in Openings(t) : k \in Nat /\ k >= 1 /\ k <= n /\ EndOf(t, k) \in Nat
  BY EndsTyped
<1>3. \A k \in Openings(t) : \A m \in Nat :
         m <= n + 1 => (EndOf(u, k) < m <=> EndOf(t, k) < m)
  <2>1. ASSUME NEW k \in Openings(t), NEW m \in Nat, m <= n + 1
        PROVE  EndOf(u, k) < m <=> EndOf(t, k) < m
    <3>1. k \in Nat /\ k <= Len(t) /\ m <= Len(t) + 1
      BY <1>2, <2>1
    <3>2. QED
      BY <3>1, EndBefore
  <2>2. QED
    BY <2>1
<1>4. Openings(u) = Openings(t) \cup {k \in {n} : Fresh(t) /\ c \in Letters \cup {"/"}}
  BY OpeningsLonger
<1>5. ASSUME Fresh(t) /\ c \in Letters \cup {"/"} PROVE LastOpen(u, n)
  <2>1. n \in Unended(u)
    BY <1>5, UnendedLonger
  <2>2. \A i \in Openings(u) : i # n => i \in Openings(t)
    BY <1>4
  <2>3. \A i \in Openings(t) : EndOf(u, i) < n
    BY <1>1, <1>3, <1>5 DEF Fresh
  <2>4. QED
    BY <2>1, <2>2, <2>3 DEF LastOpen
<1>6. ASSUME NEW k, LastOpen(t, k), c # ">", k + MaxTagBuffer > n + 1
      PROVE  LastOpen(u, k)
  <2>1. k \in Unended(u)
    BY <1>6, UnendedLonger DEF LastOpen
  <2>2. ~Fresh(t)
    BY <1>6, FreshFacts DEF LastOpen
  <2>3. Openings(u) = Openings(t)
    BY <1>4, <2>2
  <2>4. k \in Nat /\ k <= n + 1
    BY <1>1, <1>2, <1>6 DEF LastOpen, Unended
  <2>5. QED
    BY <1>3, <1>6, <2>1, <2>3, <2>4 DEF LastOpen
<1>7. QED
  BY <1>5, <1>6

-----------------------------------------------------------------------------
(* The parser after the text t: buffer b, view v, plain text p. *)

\* Appending to the second part appends to the whole.
LEMMA AppendRight ==
  ASSUME NEW V, NEW p \in Seq(V), NEW b \in Seq(V), NEW c \in V
  PROVE  Append(p \o b, c) = p \o Append(b, c)
<1>1. Glued(p, b, c, Append(b, c))
  BY GluedFacts
<1>2. QED
  BY <1>1 DEF Glued

\* What is before a common end.
LEMMA SameFront ==
  ASSUME NEW V, NEW p \in Seq(V), NEW q \in Seq(V), NEW b \in Seq(V), p \o b = q \o b
  PROVE  p = q
<1>1. Len(p \o b) = Len(p) + Len(b) /\ Len(q \o b) = Len(q) + Len(b)
  OBVIOUS
<1>2. Len(p) = Len(q)
  BY <1>1
<1>3. \A i \in 1..Len(p) : p[i] = (p \o b)[i]
  OBVIOUS
<1>4. \A i \in 1..Len(q) : q[i] = (q \o b)[i]
  OBVIOUS
<1>5. QED
  BY <1>2, <1>3, <1>4, SeqEqual

\* A character outside every tag, with no tag open.
LEMMA ReadsPlain ==
  ASSUME NEW t, NEW u, NEW c, Longer(t, u, c), NEW v, NEW p, Reads(t, <<>>, v, p)
  PROVE  IF c = "<" THEN Reads(u, <<"<">>, v, p) ELSE Reads(u, <<>>, v, Append(p, c))
<1> DEFINE n == Len(t)
<1>1. Unended(t) = {} /\ ~Fresh(t) /\ p \in Seq(Chars) /\ v = Meaning(t)
      /\ p = Outside(t) /\ c \in Chars
  BY DEF Reads, OpenIn, Longer
<1>2. Meaning(u) = v /\ Outside(u) = Append(p, c)
  BY <1>1, PlainLonger
<1>3. Unended(u) = {}
  BY <1>1, UnendedLonger
<1>4. Fresh(u) <=> c = "<"
  BY <1>1, FreshFacts
<1>5. CASE c = "<"
  <2>1. <<"<">> \in Seq(Chars) /\ Len(<<"<">>) = 1 /\ <<"<">> # <<>>
        /\ p \o <<"<">> = Append(p, c)
    BY <1>1, <1>5
  <2>2. QED
    BY <1>1, <1>2, <1>4, <1>5, <2>1 DEF Reads, OpenIn
<1>6. CASE c # "<"
  <2>1. <<>> \in Seq(Chars) /\ Len(<<>>) = 0 /\ Append(p, c) \in Seq(Chars)
        /\ Append(p, c) \o <<>> = Append(p, c)
    BY <1>1
  <2>2. QED
    BY <1>1, <1>2, <1>3, <1>4, <1>6, <2>1 DEF Reads, OpenIn
<1>7. QED
  BY <1>5, <1>6

\* The character after a "<".
LEMMA ReadsSecond ==
  ASSUME NEW t, NEW u, NEW c, Longer(t, u, c), NEW v, NEW p, NEW b, Reads(t, b, v, p),
         Len(b) = 1
  PROVE  IF c \in Letters \cup {"/"} THEN Reads(u, Append(b, c), v, p)
         ELSE IF c = "<" THEN Reads(u, <<"<">>, v, Append(p, "<"))
         ELSE Reads(u, <<>>, v, p \o <<"<", c>>)
<1> DEFINE n == Len(t)
<1>1. Fresh(t) /\ p \in Seq(Chars) /\ v = Meaning(t) /\ b = <<"<">> /\ b \in Seq(Chars)
      /\ p \o b = Outside(t) /\ c \in Chars
  BY DEF Reads, OpenIn, Longer
<1>2. Unended(t) = {} /\ n >= 1 /\ n \in Nat /\ Len(u) = n + 1
  BY <1>1, FreshFacts DEF Longer
<1>3. Meaning(u) = v /\ Outside(u) = Append(p \o b, c)
  BY <1>1, <1>2, PlainLonger
<1>4. Fresh(u) <=> c = "<"
  BY <1>2, FreshFacts
<1>5. CASE c \in Letters \cup {"/"}
  <2>1. LastOpen(u, n)
    BY <1>1, <1>5, LastOpenLonger
  <2>2. Append(b, c) = SubSeq(u, n, Len(u))
    <3>1. u[n] = "<" /\ u[n + 1] = c /\ u \in Seq(Chars)
      <4>1. t[n] = "<" /\ n \in 1..n
        BY <1>1, <1>2 DEF Fresh
      <4>2. u[n] = t[n] /\ u[n + 1] = c /\ u \in Seq(Chars)
        BY <4>1 DEF Longer
      <4>3. QED
        BY <4>1, <4>2
    <3>2. SubSeq(u, n, n + 1) \in Seq(Chars) /\ Len(SubSeq(u, n, n + 1)) = 2
          /\ SubSeq(u, n, n + 1)[1] = "<" /\ SubSeq(u, n, n + 1)[2] = c
      BY <1>2, <3>1
    <3>3. Append(b, c) \in Seq(Chars) /\ Len(Append(b, c)) = 2
          /\ Append(b, c)[1] = "<" /\ Append(b, c)[2] = c
      BY <1>1
    <3>4. \A i \in 1..2 : i = 1 \/ i = 2
      OBVIOUS
    <3>5. Append(b, c) = SubSeq(u, n, n + 1)
      BY <3>2, <3>3, <3>4, SeqEqual
    <3>6. QED
      BY <1>2, <3>5
  <2>3. Append(b, c) \in Seq(Chars) /\ Len(Append(b, c)) = 2 /\ Append(b, c) # <<>>
    BY <1>1
  <2>4. p \o Append(b, c) = Append(p \o b, c)
    BY <1>1, AppendRight
  <2> DEFINE d == Append(b, c)
  <2> HIDE DEF d
  <2>5. OpenIn(u, d)
    <3>1. d # <<>> /\ Len(d) # 1 /\ d = SubSeq(u, n, Len(u)) /\ n \in Nat
      BY <1>2, <2>2, <2>3 DEF d
    <3>2. QED
      BY <2>1, <3>1 DEF OpenIn, LastOpen
  <2>6. Reads(u, d, v, p)
    BY <1>1, <1>3, <2>3, <2>4, <2>5 DEF Reads, d
  <2>7. QED
    BY <1>5, <2>6 DEF d
<1>6. CASE c \notin Letters \cup {"/"}
  <2>1. Unended(u) = {}
    BY <1>2, <1>6, UnendedLonger
  <2>2. CASE c = "<"
    <3>1. Append(p, "<") \o <<"<">> = Append(p \o b, c) /\ Append(p, "<") \in Seq(Chars)
      BY <1>1, <2>2
    <3>2. <<"<">> \in Seq(Chars) /\ Len(<<"<">>) = 1 /\ <<"<">> # <<>>
      BY <1>1
    <3>3. QED
      BY <1>1, <1>3, <1>4, <1>6, <2>2, <3>1, <3>2 DEF Reads, OpenIn
  <2>3. CASE c # "<"
    <3> DEFINE q == p \o <<"<", c>>
    <3>1. q = Append(p \o b, c) /\ q \in Seq(Chars)
      <4>1. Append(b, c) = <<"<", c>>
        <5>1. b = <<"<">> /\ c \in Chars
          BY <1>1
        <5>2. Append(b, c) \in Seq(Chars) /\ Len(Append(b, c)) = 2
              /\ Append(b, c)[1] = "<" /\ Append(b, c)[2] = c
          BY <1>1
        <5>3. <<"<", c>> \in Seq(Chars) /\ Len(<<"<", c>>) = 2
              /\ <<"<", c>>[1] = "<" /\ <<"<", c>>[2] = c
          BY <1>1
        <5>4. \A i \in 1..2 : i = 1 \/ i = 2
          OBVIOUS
        <5>5. QED
          BY <5>2, <5>3, <5>4, SeqEqual
      <4>2. q \in Seq(Chars)
        BY <1>1
      <4>3. QED
        BY <1>1, <4>1, <4>2, AppendRight
    <3>2. <<>> \in Seq(Chars) /\ Len(<<>>) = 0 /\ q \o <<>> = q
      BY <3>1
    <3> HIDE DEF q
    <3>3. Reads(u, <<>>, v, q)
      BY <1>1, <1>3, <1>4, <2>1, <2>3, <3>1, <3>2 DEF Reads, OpenIn
    <3>4. QED
      BY <1>6, <2>3, <3>3 DEF q
  <2>4. QED
    BY <2>2, <2>3
<1>7. QED
  BY <1>5, <1>6

\* A character in an open tag that does not close it: one more of the tag, or the
\* one at which the tag is given up.
LEMMA ReadsInside ==
  ASSUME NEW t, NEW u, NEW c, Longer(t, u, c), NEW v, NEW p, NEW b, Reads(t, b, v, p),
         Len(b) > 1, c # ">"
  PROVE  /\ Len(b) <= MaxTagBuffer
         /\ IF Len(b) < MaxTagBuffer THEN Reads(u, Append(b, c), v, p)
            ELSE Reads(u, <<>>, v, Append(p \o b, c))
<1> DEFINE n == Len(t)
<1>1. p \in Seq(Chars) /\ v = Meaning(t) /\ b \in Seq(Chars)
      /\ p \o b = Outside(t) /\ c \in Chars /\ t \in Seq(Chars) /\ u \in Seq(Chars)
  BY DEF Reads, OpenIn, Longer
<1>t. p \in Seq(Chars) /\ b \in Seq(Chars) /\ c \in Chars
  BY DEF Reads, Longer
<1>2. n \in Nat /\ Len(u) = n + 1 /\ MaxTagBuffer \in Nat /\ MaxTagBuffer >= 2
  BY ParserAssumption DEF Longer
<1>3. PICK k \in Nat : LastOpen(t, k) /\ b = SubSeq(t, k, n)
  <2>1. \A k \in Unended(t) : k \in Nat
    BY EndsTyped DEF Unended
  <2>2. QED
    BY <2>1 DEF Reads, OpenIn
<1>4. /\ k \in Unended(t) /\ k \in Openings(t) /\ EndOf(t, k) > n
      /\ k >= 1 /\ k <= n /\ EndOf(t, k) \in Nat /\ EndOf(t, k) <= k + MaxTagBuffer
  <2>1. k \in Unended(t) /\ k \in Openings(t) /\ EndOf(t, k) > n
    BY <1>3 DEF LastOpen, Unended
  <2>2. QED
    BY <2>1, EndsTyped
<1>5. Len(b) = n - k + 1
  BY <1>1, <1>2, <1>3, <1>4
<1>6. Len(b) <= MaxTagBuffer
  BY <1>2, <1>4, <1>5
<1>7. Meaning(u) = v /\ Outside(u) = Append(p \o b, c)
  BY <1>1, PlainLonger
<1>8. CASE Len(b) < MaxTagBuffer
  <2>1. k + MaxTagBuffer > n + 1
    BY <1>2, <1>4, <1>5, <1>8
  <2>2. LastOpen(u, k)
    BY <1>3, <2>1, LastOpenLonger
  <2>3. Append(b, c) = SubSeq(u, k, Len(u))
    <3>1. SubSeq(u, k, n + 1) = Append(SubSeq(u, k, n), u[n + 1])
      BY <1>1, <1>2, <1>4
    <3>2. SubSeq(u, k, n) = SubSeq(t, k, n) /\ u[n + 1] = c
      <4>1. Len(u) = Len(t) + 1 /\ u[n + 1] = c /\ \A j \in 1..Len(t) : u[j] = t[j]
        BY DEF Longer
      <4>2. n \in Nat /\ n <= Len(t)
        BY <1>2
      <4> HIDE DEF n
      <4>3. QED
        BY <1>1, <1>4, <4>1, <4>2, PieceSame
    <3>3. QED
      BY <1>2, <1>3, <3>1, <3>2
  <2>4. Append(b, c) \in Seq(Chars) /\ Len(Append(b, c)) = Len(b) + 1 /\ Append(b, c) # <<>>
        /\ Len(b) \in Nat
    BY <1>t
  <2>5. p \o Append(b, c) = Append(p \o b, c)
    BY <1>t, AppendRight
  <2> DEFINE d == Append(b, c)
  <2> HIDE DEF d
  <2>6. OpenIn(u, d)
    <3>1. d # <<>> /\ Len(d) # 1 /\ d = SubSeq(u, k, Len(u))
      BY <2>3, <2>4 DEF d
    <3>2. QED
      BY <2>2, <3>1 DEF OpenIn, LastOpen
  <2>7. Reads(u, d, v, p)
    BY <1>1, <1>7, <2>4, <2>5, <2>6 DEF Reads, d
  <2>8. QED
    BY <1>6, <1>8, <2>7 DEF d
<1>9. CASE ~(Len(b) < MaxTagBuffer)
  <2>1. k + MaxTagBuffer = n + 1
    BY <1>2, <1>4, <1>5, <1>6, <1>9
  <2>2. \A i \in Unended(t) : i = k
    <3>1. ASSUME NEW i \in Unended(t), i # k PROVE FALSE
      <4>1. i \in Openings(t) /\ EndOf(t, i) > n
        BY DEF Unended
      <4>2. EndOf(t, i) < k /\ EndOf(t, i) \in Nat
        BY <1>3, <3>1, <4>1, EndsTyped DEF LastOpen
      <4>3. QED
        BY <1>2, <1>4, <4>1, <4>2
    <3>2. QED
      BY <3>1
  <2>3. ~Fresh(t)
    BY <1>4, FreshFacts
  <2>4. Unended(u) = {}
    <3>1. ~(k + MaxTagBuffer > n + 1)
      BY <1>2, <2>1
    <3>2. QED
      BY <2>2, <2>3, <3>1, UnendedLonger
  <2>5. ~Fresh(u)
    BY <1>4, FreshFacts
  <2>6. Append(p \o b, c) \in Seq(Chars) /\ <<>> \in Seq(Chars) /\ Len(<<>>) = 0
        /\ Append(p \o b, c) \o <<>> = Append(p \o b, c)
    <3>1. p \o b \in Seq(Chars)
      BY <1>t
    <3>2. Append(p \o b, c) \in Seq(Chars)
      BY <1>1, <3>1
    <3>3. QED
      BY <3>2
  <2> DEFINE q == Append(p \o b, c)
  <2> HIDE DEF q
  <2>7. Reads(u, <<>>, v, q)
    BY <1>7, <2>4, <2>5, <2>6 DEF Reads, OpenIn, q
  <2>8. QED
    BY <1>6, <1>9, <2>7 DEF q
<1>10. QED
  BY <1>8, <1>9

\* The end of a tag.
LEMMA ReadsClose ==
  ASSUME NEW t, NEW u, Longer(t, u, ">"), NEW v, NEW p, NEW b, Reads(t, b, v, p),
         Len(b) > 1
  PROVE  /\ b[1] = "<" /\ b[2] \in Letters \cup {"/"}
         /\ Reads(u, <<>>, Declaration(Tail(b), v), p)
<1> DEFINE n == Len(t)
<1>1. p \in Seq(Chars) /\ v = Meaning(t) /\ b \in Seq(Chars)
      /\ p \o b = Outside(t) /\ t \in Seq(Chars) /\ u \in Seq(Chars)
  BY DEF Reads, OpenIn, Longer
<1>2. n \in Nat /\ Len(u) = n + 1 /\ MaxTagBuffer \in Nat /\ MaxTagBuffer >= 2
  BY ParserAssumption DEF Longer
<1>3. PICK k \in Nat : LastOpen(t, k) /\ b = SubSeq(t, k, n)
  <2>1. \A k \in Unended(t) : k \in Nat
    BY EndsTyped DEF Unended
  <2>2. QED
    BY <2>1 DEF Reads, OpenIn
<1>4. /\ k \in Unended(t) /\ k \in Openings(t)
      /\ k >= 1 /\ k < n
      /\ t[k] = "<" /\ t[k + 1] \in Letters \cup {"/"}
  <2>1. k \in Unended(t) /\ k \in Openings(t)
    BY <1>3 DEF LastOpen, Unended
  <2>2. QED
    BY <1>2, <2>1, OpeningIs
<1>5. b[1] = t[k] /\ b[2] = t[k + 1]
  BY <1>1, <1>2, <1>3, <1>4
<1>6. Tail(b) = SubSeq(t, k + 1, n)
  <2>a. Len(b) = (n - k) + 1 /\ \A i \in 1..((n - k) + 1) : b[i] = t[k + i - 1]
    BY <1>1, <1>2, <1>3, <1>4
  <2>b. b \in Seq(Chars) /\ b # <<>> /\ n - k \in Nat /\ k \in Nat
    BY <1>1, <1>2, <1>4, <2>a
  <2>c. Tail(b) \in Seq(Chars) /\ Len(Tail(b)) = n - k
        /\ \A i \in 1..(n - k) : Tail(b)[i] = b[i + 1]
    BY <2>a, <2>b
  <2>1. Tail(b) \in Seq(Chars) /\ Len(Tail(b)) = n - k
        /\ \A i \in 1..(n - k) : Tail(b)[i] = t[k + i]
    <3>1. ASSUME NEW i \in 1..(n - k) PROVE Tail(b)[i] = t[k + i]
      <4>1. i + 1 \in 1..((n - k) + 1) /\ k + (i + 1) - 1 = k + i
        BY <2>b
      <4>2. b[i + 1] = t[k + (i + 1) - 1]
        BY <2>a, <4>1
      <4>3. QED
        BY <2>c, <4>1, <4>2
    <3>2. QED
      BY <2>c, <3>1
  <2>2. SubSeq(t, k + 1, n) \in Seq(Chars) /\ Len(SubSeq(t, k + 1, n)) = n - k
        /\ \A i \in 1..(n - k) : SubSeq(t, k + 1, n)[i] = t[k + i]
    BY <1>1, <1>2, <1>4
  <2>3. QED
    BY <2>1, <2>2, SeqEqual
<1>7. Meaning(u) = Declaration(Tail(b), v) /\ Outside(t) = Outside(u) \o b
  BY <1>1, <1>3, <1>6, ClosingLonger
<1>8. Outside(u) \in Seq(Chars)
  BY <1>1, KeptTyped DEF Outside
<1>9. Outside(u) = p
  BY <1>1, <1>7, <1>8, SameFront
<1>10. ~Fresh(u) /\ Unended(u) = {}
  BY <1>4, FreshFacts, UnendedLonger
<1>11. <<>> \in Seq(Chars) /\ Len(<<>>) = 0 /\ p \o <<>> = p
  BY <1>1
<1>12. Reads(u, <<>>, Declaration(Tail(b), v), p)
  BY <1>1, <1>7, <1>9, <1>10, <1>11 DEF Reads, OpenIn
<1>13. QED
  BY <1>4, <1>5, <1>12

\* What is in a tag besides blanks.
Words(inner) == Kept(inner, {i \in DOMAIN inner : inner[i] # "blank"})

\* All of s from the position a on is blank, the position j aside.
BlankFrom(s, a, j) == \A i \in a..Len(s) : i # j => s[i] = "blank"

\* A sequence of one element, ...
LEMMA SingleIs ==
  ASSUME NEW V, NEW w \in Seq(V), NEW a
  PROVE  w = <<a>> <=> Len(w) = 1 /\ w[1] = a
<1>1. ASSUME Len(w) = 1, w[1] = a PROVE w = <<a>>
  <2>1. a \in V
    BY <1>1
  <2>2. <<a>> \in Seq(V) /\ Len(<<a>>) = 1 /\ <<a>>[1] = a
    BY <2>1
  <2>3. \A i \in 1..1 : i = 1
    OBVIOUS
  <2>4. QED
    BY <1>1, <2>2, <2>3, SeqEqual
<1>2. Len(<<a>>) = 1 /\ <<a>>[1] = a
  OBVIOUS
<1>3. QED
  BY <1>1, <1>2

\* ... and one of two, by their elements.
LEMMA PairIs ==
  ASSUME NEW V, NEW w \in Seq(V), NEW a, NEW b
  PROVE  w = <<a, b>> <=> Len(w) = 2 /\ w[1] = a /\ w[2] = b
<1>1. ASSUME Len(w) = 2, w[1] = a, w[2] = b PROVE w = <<a, b>>
  <2>1. a \in V /\ b \in V
    BY <1>1
  <2>2. <<a, b>> \in Seq(V) /\ Len(<<a, b>>) = 2 /\ <<a, b>>[1] = a /\ <<a, b>>[2] = b
    BY <2>1
  <2>3. \A i \in 1..2 : i = 1 \/ i = 2
    OBVIOUS
  <2>4. QED
    BY <1>1, <2>2, <2>3, SeqEqual
<1>2. Len(<<a, b>>) = 2 /\ <<a, b>>[1] = a /\ <<a, b>>[2] = b
  OBVIOUS
<1>3. QED
  BY <1>1, <1>2

\* The words of a tag whose first lexeme is not a blank.
LEMMA WordsFacts ==
  ASSUME NEW s \in Seq(Chars), Len(s) >= 1, s[1] # "blank"
  PROVE  /\ Words(s) \in Seq(Chars)
         /\ Len(Words(s)) >= 1 /\ Words(s)[1] = s[1]
         /\ Len(Words(s)) = 1 <=> BlankFrom(s, 2, 0)
         /\ \A j \in 2..Len(s) : s[j] # "blank" /\ BlankFrom(s, 2, j)
                                   => Len(Words(s)) = 2 /\ Words(s)[2] = s[j]
         /\ Len(Words(s)) = 2 => \E j \in 2..Len(s) : /\ s[j] = Words(s)[2] /\ s[j] # "blank"
                                                      /\ BlankFrom(s, 2, j)
<1> DEFINE n == Len(s)
           K == {i \in DOMAIN s : s[i] # "blank"}
           w == Words(s)
           m == Len(w)
<1>1. n \in Nat /\ n >= 1 /\ \A j \in 1..n : j \in K <=> s[j] # "blank"
  OBVIOUS
<1>2. w = Kept(s, K)
  BY DEF Words
<1>3. w \in Seq(Chars)
  BY <1>2, KeptTyped
<1>4. m \in Nat
  BY <1>3
<1>5. PICK o : Places(o, w, s, K, n)
  BY <1>2, KeptPlaces
<1> HIDE DEF K, w, n
<1>6. /\ \A i \in 1..m : o[i] \in 1..n /\ s[o[i]] # "blank" /\ w[i] = s[o[i]]
      /\ \A i, j \in 1..m : i < j => o[i] < o[j]
      /\ \A j \in 1..n : s[j] # "blank" => \E i \in 1..m : o[i] = j
  BY <1>1, <1>5 DEF Places
<1>7. m >= 1 /\ o[1] = 1 /\ w[1] = s[1]
  <2>1. PICK i \in 1..m : o[i] = 1
    BY <1>1, <1>6
  <2>2. 1 \in 1..m
    BY <1>4, <2>1
  <2>3. ~(1 < i)
    <3>1. SUFFICES ASSUME 1 < i PROVE FALSE
      OBVIOUS
    <3>2. o[1] < o[i] /\ o[1] \in 1..n
      BY <1>6, <2>2, <3>1
    <3>3. QED
      BY <1>1, <2>1, <3>2
  <2>4. i = 1
    BY <1>4, <2>3
  <2>5. QED
    BY <1>4, <1>6, <2>1, <2>2, <2>4
<1>8. m >= 2 => 2 \in 1..m /\ 1 \in 1..m /\ o[2] \in 2..n /\ s[o[2]] # "blank"
  <2>1. SUFFICES ASSUME m >= 2 PROVE 2 \in 1..m /\ 1 \in 1..m /\ o[2] \in 2..n /\ s[o[2]] # "blank"
    OBVIOUS
  <2>2. 2 \in 1..m /\ 1 \in 1..m
    BY <1>4, <2>1
  <2>3. o[1] < o[2] /\ o[2] \in 1..n /\ s[o[2]] # "blank"
    BY <1>6, <2>2
  <2>4. QED
    BY <1>1, <1>7, <2>2, <2>3
<1>9. m = 1 <=> BlankFrom(s, 2, 0)
  <2>1. ASSUME m = 1 PROVE BlankFrom(s, 2, 0)
    <3>1. ASSUME NEW j \in 2..n, s[j] # "blank" PROVE FALSE
      <4>1. j \in 1..n
        BY <1>1
      <4>2. PICK i \in 1..m : o[i] = j
        BY <1>6, <3>1, <4>1
      <4>3. QED
        BY <1>1, <1>7, <2>1, <4>2
    <3>2. QED
      BY <3>1 DEF BlankFrom, n
  <2>2. ASSUME BlankFrom(s, 2, 0) PROVE m = 1
    <3>1. ~(m >= 2)
      <4>1. SUFFICES ASSUME m >= 2 PROVE FALSE
        OBVIOUS
      <4>2. o[2] \in 2..n /\ s[o[2]] # "blank" /\ o[2] # 0
        BY <1>1, <1>8, <4>1
      <4>3. QED
        BY <2>2, <4>2 DEF BlankFrom, n
    <3>2. m \in Nat /\ m >= 1
      BY <1>4, <1>7
    <3> HIDE DEF m
    <3>3. QED
      BY <3>1, <3>2
  <2>3. QED
    BY <2>1, <2>2
<1>10. ASSUME NEW j \in 2..n, s[j] # "blank", BlankFrom(s, 2, j)
       PROVE  m = 2 /\ w[2] = s[j]
  <2>1. m >= 2
    <3>1. j \in 1..n
      BY <1>1
    <3>2. PICK i \in 1..m : o[i] = j
      BY <1>6, <1>10, <3>1
    <3>3. i # 1
      BY <1>1, <1>7, <3>2
    <3>4. QED
      BY <1>4, <3>2, <3>3
  <2>2. \A i \in 2..n : s[i] # "blank" => i = j
    BY <1>10 DEF BlankFrom, n
  <2>3. o[2] = j
    BY <1>8, <2>1, <2>2
  <2>4. ~(m >= 3)
    <3>1. SUFFICES ASSUME m >= 3 PROVE FALSE
      OBVIOUS
    <3>2. 3 \in 1..m /\ 2 \in 1..m
      BY <1>4, <3>1
    <3>3. o[2] < o[3] /\ o[3] \in 1..n /\ s[o[3]] # "blank"
      BY <1>6, <3>2
    <3>4. o[3] \in 2..n
      BY <1>1, <2>3, <3>3
    <3>5. o[3] = j
      BY <2>2, <3>3, <3>4
    <3>6. QED
      BY <1>1, <2>3, <3>3, <3>5
  <2>5. m = 2
    <3> HIDE DEF m
    <3>1. QED
      BY <1>4, <2>1, <2>4
  <2>6. QED
    BY <1>6, <1>8, <2>3, <2>5
<1>11. ASSUME m = 2
       PROVE  \E j \in 2..n : s[j] = w[2] /\ s[j] # "blank" /\ BlankFrom(s, 2, j)
  <2>1. o[2] \in 2..n /\ s[o[2]] # "blank" /\ w[2] = s[o[2]]
    BY <1>6, <1>8, <1>11
  <2>2. ASSUME NEW i \in 2..n, i # o[2], s[i] # "blank" PROVE FALSE
    <3>1. i \in 1..n /\ i # 1
      BY <1>1
    <3>2. PICK h \in 1..m : o[h] = i
      BY <1>6, <2>2, <3>1
    <3>3. h = 1 \/ h = 2
      BY <1>11, <3>2
    <3>4. QED
      BY <1>7, <2>2, <3>1, <3>2, <3>3
  <2>3. BlankFrom(s, 2, o[2])
    BY <2>2 DEF BlankFrom, n
  <2>4. QED
    BY <2>1, <2>3
<1>12. QED
  BY <1>3, <1>7, <1>9, <1>10, <1>11 DEF w, n

-----------------------------------------------------------------------------
(* The name of a tag. *)

\* The name is the longest run of letters at the beginning.
LEMMA NameLenFacts ==
  ASSUME NEW body \in Seq(Chars)
  PROVE  /\ NameLen(body) \in 0..Len(body)
         /\ \A i \in 1..NameLen(body) : body[i] \in Letters
         /\ NameLen(body) < Len(body) => body[NameLen(body) + 1] \notin Letters
<1> DEFINE ends == {i \in DOMAIN body : body[i] \notin Letters}
<1>1. Len(body) \in Nat /\ DOMAIN body = 1..Len(body)
  OBVIOUS
<1>2. CASE ends = {}
  <2>1. NameLen(body) = Len(body)
    BY <1>2 DEF NameLen
  <2>2. QED
    BY <1>1, <1>2, <2>1
<1>3. CASE ends # {}
  <2>1. NameLen(body) = Min(ends) - 1
    BY <1>3 DEF NameLen
  <2>2. ends \subseteq Nat
    BY <1>1
  <2>3. PICK e \in ends : e = Min(ends) /\ \A x \in ends : e <= x
    <3> HIDE DEF ends
    <3>1. \E e \in ends : \A x \in ends : e <= x
      BY <1>3, <2>2, LeastNumber
    <3>2. QED
      BY <3>1 DEF Min
  <2>4. e \in 1..Len(body) /\ body[e] \notin Letters
    BY <1>1
  <2>5. NameLen(body) = e - 1 /\ e - 1 \in 0..Len(body) /\ (e - 1) + 1 = e
    BY <1>1, <2>1, <2>3, <2>4
  <2>6. ASSUME NEW i \in 1..(e - 1) PROVE body[i] \in Letters
    <3>1. i \in 1..Len(body) /\ ~(e <= i)
      BY <1>1, <2>4
    <3>2. i \notin ends
      BY <2>3, <3>1
    <3>3. QED
      BY <1>1, <3>1, <3>2
  <2>7. QED
    BY <2>4, <2>5, <2>6
<1>4. QED
  BY <1>2, <1>3

\* A body whose name is one lexeme.
Named(body) == Len(body) >= 1 /\ body[1] \in Letters
               /\ (Len(body) >= 2 => body[2] \notin Letters)

\* The name of a tag and what follows it.
LEMMA NameIs ==
  ASSUME NEW inner \in Seq(Chars), NEW body, body = Body(inner)
  PROVE  /\ body \in Seq(Chars)
         /\ Named(body) => /\ NameOf(inner) = body[1]
                           /\ AfterName(inner) = SubSeq(body, 2, Len(body))
         /\ ~Named(body) => NameOf(inner) \in {"", "word"}
<1>1. body \in Seq(Chars)
  BY DEF Body, Closing
<1>2. /\ NameLen(body) \in 0..Len(body)
      /\ \A i \in 1..NameLen(body) : body[i] \in Letters
      /\ NameLen(body) < Len(body) => body[NameLen(body) + 1] \notin Letters
  BY <1>1, NameLenFacts
<1>3. Len(body) \in Nat
  BY <1>1
<1>4. Named(body) <=> NameLen(body) = 1
  <2>1. ASSUME Named(body) PROVE NameLen(body) = 1
    <3>1. NameLen(body) # 0
      BY <1>2, <1>3, <2>1 DEF Named
    <3>2. ~(NameLen(body) >= 2)
      <4>1. SUFFICES ASSUME NameLen(body) >= 2 PROVE FALSE
        OBVIOUS
      <4>2. 2 \in 1..NameLen(body) /\ Len(body) >= 2
        BY <1>2, <1>3, <4>1
      <4>3. QED
        BY <1>2, <2>1, <4>2 DEF Named
    <3>3. QED
      BY <1>2, <1>3, <3>1, <3>2
  <2>2. ASSUME NameLen(body) = 1 PROVE Named(body)
    <3>1. 1 \in 1..NameLen(body) /\ Len(body) >= 1
      BY <1>2, <1>3, <2>2
    <3>2. Len(body) >= 2 => body[1 + 1] \notin Letters
      BY <1>2, <1>3, <2>2
    <3>3. QED
      BY <1>2, <3>1, <3>2 DEF Named
  <2>3. QED
    BY <2>1, <2>2
<1>5. NameLen(body) = 1 => NameOf(inner) = body[1]
  BY DEF NameOf
<1>6. NameLen(body) # 1 => NameOf(inner) \in {"", "word"}
  BY DEF NameOf
<1>7. AfterName(inner) = SubSeq(body, NameLen(body) + 1, Len(body))
  BY DEF AfterName
<1>8. NameLen(body) = 1 => AfterName(inner) = SubSeq(body, 2, Len(body))
  <2>1. 1 + 1 = 2
    OBVIOUS
  <2>2. QED
    BY <1>7, <2>1
<1>9. QED
  BY <1>1, <1>4, <1>5, <1>6, <1>8

\* The length of a piece.
LEMMA PieceLen ==
  ASSUME NEW V, NEW s \in Seq(V), NEW a \in Nat, NEW d \in Nat, a <= d
  PROVE  Len(SubSeq(s, a, d)) = d - a + 1
  OBVIOUS

\* What follows the name of a tag, lexeme by lexeme.
LEMMA AttrFacts ==
  ASSUME NEW inner \in Seq(Chars), NEW body, body = Body(inner), Named(body)
  PROVE  /\ Regular(AfterName(inner)) => Loose(AfterName(inner))
         /\ Loose(AfterName(inner)) <=> (Len(body) >= 2 => body[2] \in Blanks)
         /\ Regular(AfterName(inner)) /\ Pairs(inner) = {} <=> BlankFrom(body, 2, 0)
         /\ \A j \in 2..Len(body) :
              body[j] \in Lists /\ BlankFrom(body, 2, j) =>
                /\ Regular(AfterName(inner)) /\ Cardinality(Pairs(inner)) = 1
                /\ Given(inner) = {body[j]} /\ Refs(inner) = RefsOf[body[j]]
         /\ Regular(AfterName(inner)) /\ Cardinality(Pairs(inner)) = 1 /\ Given(inner) \subseteq Lists
              => \E j \in 2..Len(body) : /\ body[j] \in Lists /\ BlankFrom(body, 2, j)
                                         /\ Refs(inner) = RefsOf[body[j]]
<1> DEFINE n == Len(body)
           after == AfterName(inner)
<1>1. body \in Seq(Chars) /\ after = SubSeq(body, 2, n)
  BY NameIs
<1>2. n \in Nat /\ n >= 1
  BY <1>1 DEF Named
<1>3. /\ after \in Seq(Chars) /\ Len(after) = n - 1 /\ n - 1 \in Nat
      /\ DOMAIN after = 1..(n - 1)
      /\ \A i \in 1..(n - 1) : after[i] = body[i + 1]
  <2> HIDE DEF after
  <2>1. SubSeq(body, 2, n) \in Seq(Chars) /\ Len(SubSeq(body, 2, n)) = n - 1
        /\ \A i \in 1..(n - 1) : SubSeq(body, 2, n)[i] = body[i + 1]
    <3>1. body \in Seq(Chars)
      BY <1>1
    <3>2. SubSeq(body, 2, n) \in Seq(Chars) /\ Len(SubSeq(body, 2, n)) = n - 1
      <4>1. SubSeq(body, 2, n) \in Seq(Chars)
        BY <1>2, <3>1
      <4>2. CASE n = 1
        <5>1. Len(SubSeq(body, 2, 1)) = 0
          BY <3>1
        <5>2. QED
          BY <4>1, <4>2, <5>1
      <4>3. CASE n # 1
        <5> HIDE DEF n
        <5>0. 2 \in Nat /\ n \in Nat /\ 2 <= n
          BY <1>2, <4>3
        <5>1. Len(SubSeq(body, 2, n)) = n - 2 + 1
          BY <3>1, <5>0, PieceLen
        <5>2. n - 2 + 1 = n - 1
          BY <1>2
        <5>3. QED
          BY <4>1, <5>1, <5>2
      <4>4. QED
        BY <4>2, <4>3
    <3>3. ASSUME NEW i \in 1..(n - 1) PROVE SubSeq(body, 2, n)[i] = body[i + 1]
      <4>1. SubSeq(body, 2, n)[i] = body[2 + i - 1]
        BY <1>2, <3>1
      <4>2. 2 + i - 1 = i + 1
        BY <1>2
      <4>3. QED
        BY <4>1, <4>2
    <3>4. QED
      BY <3>2, <3>3
  <2>2. QED
    BY <1>1, <1>2, <2>1
<1>4. "blank" \notin Attrs /\ Blanks = {"blank"} \cup Attrs /\ Lists \subseteq Attrs
  BY ParserAssumption DEF Attrs, Blanks
<1> HIDE DEF after, n
<1>5. Regular(after) <=> \A i \in 2..n : body[i] \in Blanks
  <2>1. Regular(after) <=> \A i \in 1..(n - 1) : after[i] \in Blanks
    BY <1>3 DEF Regular, ToSet
  <2>2. ASSUME \A i \in 1..(n - 1) : after[i] \in Blanks, NEW i \in 2..n
        PROVE  body[i] \in Blanks
    <3>1. i - 1 \in 1..(n - 1) /\ (i - 1) + 1 = i
      BY <1>2
    <3>2. after[i - 1] = body[(i - 1) + 1]
      BY <1>3, <3>1
    <3>3. QED
      BY <2>2, <3>1, <3>2
  <2>3. ASSUME \A i \in 2..n : body[i] \in Blanks, NEW i \in 1..(n - 1)
        PROVE  after[i] \in Blanks
    <3>1. i + 1 \in 2..n
      BY <1>2
    <3>2. QED
      BY <1>3, <2>3, <3>1
  <2>4. QED
    BY <2>1, <2>2, <2>3
<1>6. Loose(after) <=> (n >= 2 => body[2] \in Blanks)
  <2>1. after = <<>> <=> n = 1
    BY <1>2, <1>3
  <2>2. n >= 2 => after[1] = body[2]
    <3>1. n >= 2 => 1 \in 1..(n - 1) /\ 1 + 1 = 2
      BY <1>2
    <3>2. QED
      BY <1>3, <3>1
  <2>3. QED
    BY <1>2, <2>1, <2>2 DEF Loose
<1>7. Regular(after) => Loose(after)
  BY <1>2, <1>5, <1>6
<1>8. Pairs(inner) = {i \in 1..(n - 1) : body[i + 1] \in Attrs}
  BY <1>3 DEF Pairs, after
<1>9. Regular(after) /\ Pairs(inner) = {} <=> BlankFrom(body, 2, 0)
  <2>1. ASSUME Regular(after), Pairs(inner) = {}, NEW i \in 2..n PROVE body[i] = "blank"
    <3>1. i - 1 \in 1..(n - 1) /\ (i - 1) + 1 = i
      BY <1>2
    <3>2. body[i] \notin Attrs
      BY <1>8, <2>1, <3>1
    <3>3. body[i] \in Blanks
      BY <1>5, <2>1
    <3>4. QED
      BY <1>4, <3>2, <3>3
  <2>2. ASSUME BlankFrom(body, 2, 0) PROVE Regular(after) /\ Pairs(inner) = {}
    <3>1. \A i \in 2..n : body[i] = "blank"
      BY <1>2, <2>2 DEF BlankFrom, n
    <3>2. \A i \in 1..(n - 1) : i + 1 \in 2..n
      BY <1>2
    <3>3. QED
      BY <1>4, <1>5, <1>8, <3>1, <3>2
  <2>3. QED
    BY <2>1, <2>2 DEF BlankFrom, n
<1>10. Given(inner) = {after[i] : i \in Pairs(inner)}
  BY DEF Given, after
<1>11. ASSUME NEW j \in 2..n, body[j] \in Lists, BlankFrom(body, 2, j)
       PROVE  /\ Regular(after) /\ Cardinality(Pairs(inner)) = 1
              /\ Given(inner) = {body[j]} /\ Refs(inner) = RefsOf[body[j]]
  <2>1. \A i \in 2..n : i # j => body[i] = "blank"
    BY <1>11 DEF BlankFrom, n
  <2>2. Regular(after)
    BY <1>4, <1>5, <1>11, <2>1
  <2>3. j - 1 \in 1..(n - 1) /\ (j - 1) + 1 = j
    BY <1>2
  <2>4. \A i \in 1..(n - 1) : i + 1 \in 2..n /\ (i + 1 = j <=> i = j - 1)
    BY <1>2
  <2>5. Pairs(inner) = {j - 1}
    BY <1>4, <1>8, <1>11, <2>1, <2>3, <2>4
  <2>6. Cardinality(Pairs(inner)) = 1
    BY <2>5, FS_Singleton
  <2>7. after[j - 1] = body[j]
    BY <1>3, <2>3
  <2>8. Given(inner) = {body[j]}
    BY <1>10, <2>5, <2>7
  <2>9. Refs(inner) = RefsOf[body[j]]
    BY <2>8 DEF Refs
  <2>10. QED
    BY <2>2, <2>6, <2>8, <2>9
<1>12. ASSUME Regular(after), Cardinality(Pairs(inner)) = 1, Given(inner) \subseteq Lists
       PROVE  \E j \in 2..n : /\ body[j] \in Lists /\ BlankFrom(body, 2, j)
                              /\ Refs(inner) = RefsOf[body[j]]
  <2>1. PICK i : Pairs(inner) = {i}
    <3>1. IsFiniteSet(1..(n - 1))
      BY <1>2, FS_Interval
    <3>2. IsFiniteSet(Pairs(inner))
      BY <1>8, <3>1, FS_Subset
    <3>3. QED
      BY <1>12, <3>2, FS_Singleton
  <2>2. i \in 1..(n - 1) /\ i + 1 \in 2..n
    <3>1. i \in 1..(n - 1)
      BY <1>8, <2>1
    <3>2. QED
      BY <1>2, <3>1
  <2>3. Given(inner) = {body[i + 1]}
    BY <1>3, <1>10, <2>1, <2>2
  <2>4. body[i + 1] \in Lists /\ Refs(inner) = RefsOf[body[i + 1]]
    BY <1>12, <2>3 DEF Refs
  <2>5. ASSUME NEW h \in 2..n, h # i + 1 PROVE body[h] = "blank"
    <3>1. h - 1 \in 1..(n - 1) /\ (h - 1) + 1 = h /\ h - 1 # i
      BY <1>2, <2>2, <2>5
    <3>2. h - 1 \notin Pairs(inner)
      BY <2>1, <3>1
    <3>3. body[h] \notin Attrs
      BY <1>8, <3>1, <3>2
    <3>4. QED
      BY <1>4, <1>5, <1>12, <3>3
  <2>6. BlankFrom(body, 2, i + 1)
    BY <2>5 DEF BlankFrom, n
  <2>7. QED
    BY <2>2, <2>4, <2>6
<1>13. QED
  BY <1>6, <1>7, <1>9, <1>11, <1>12 DEF after, n

-----------------------------------------------------------------------------
(* The two definitions of what a closed tag does agree. *)

\* The modes of a view.
LEMMA ViewCases ==
  ASSUME NEW v \in View, WellFormed(v)
  PROVE  /\ v.mode \in {"global", "local", "focus"}
         /\ v.mode = "global" => v = GlobalView
  BY DEF View, WellFormed, GlobalView

\* A closing tag does what the protocol declares, ...
LEMMA ClosingTag ==
  ASSUME NEW inner \in Seq(Chars), Len(inner) >= 1, inner[1] = "/",
         NEW v \in View, WellFormed(v)
  PROVE  AfterTag(inner, v) = Declaration(inner, v)
<1> DEFINE body == Tail(inner)
           n == Len(inner)
           w == Words(inner)
<1>1. inner # <<>> /\ Closing(inner) /\ Body(inner) = body /\ n \in Nat /\ n >= 1
  BY DEF Closing, Body
<1>2. body \in Seq(Chars) /\ Len(body) = n - 1 /\ \A i \in 1..(n - 1) : body[i] = inner[i + 1]
  BY <1>1
<1>3. ~IsFocusCall(inner)
  BY <1>1 DEF IsFocusCall
<1>4. v.mode \in {"global", "local", "focus"} /\ (v.mode = "global" => v = GlobalView)
  BY ViewCases
<1>5. v.mode \in Names /\ v.mode \in Letters /\ "answer" \in Letters
      /\ v.mode # "blank" /\ v.mode # "answer"
  BY <1>4 DEF Names, Letters
<1> HIDE DEF body, w, n
\* the tag declares something exactly if it is "/", the mode and blanks
<1> DEFINE Declares(m) == n >= 2 /\ inner[2] = m /\ BlankFrom(inner, 2, 2)
<1>6. /\ w \in Seq(Chars) /\ Len(w) >= 1 /\ w[1] = "/"
      /\ \A j \in 2..n : inner[j] # "blank" /\ BlankFrom(inner, 2, j) => Len(w) = 2 /\ w[2] = inner[j]
      /\ Len(w) = 2 => \E j \in 2..n : inner[j] = w[2] /\ inner[j] # "blank" /\ BlankFrom(inner, 2, j)
  BY WordsFacts DEF w, n
<1>7. w = <<"/", v.mode>> /\ inner[2] = v.mode <=> Declares(v.mode)
  <2>1. ASSUME w = <<"/", v.mode>>, inner[2] = v.mode PROVE Declares(v.mode)
    <3>1. Len(w) = 2
      BY <2>1
    <3>2. PICK j \in 2..n : inner[j] = w[2] /\ inner[j] # "blank" /\ BlankFrom(inner, 2, j)
      BY <1>6, <3>1
    <3>3. n >= 2 /\ 2 \in 2..n
      BY <1>1, <3>2
    <3>4. j = 2
      BY <1>5, <2>1, <3>2, <3>3 DEF BlankFrom, n
    <3>5. QED
      BY <2>1, <3>2, <3>3, <3>4
  <2>2. ASSUME Declares(v.mode) PROVE w = <<"/", v.mode>> /\ inner[2] = v.mode
    <3>1. 2 \in 2..n /\ inner[2] # "blank"
      BY <1>1, <1>5, <2>2
    <3>2. Len(w) = 2 /\ w[2] = v.mode
      BY <1>6, <2>2, <3>1
    <3>3. QED
      BY <1>6, <2>2, <3>2, PairIs
  <2>3. QED
    BY <2>1, <2>2
<1>8. Declaration(inner, v) = IF Declares(v.mode) THEN GlobalView ELSE v
  <2>1. w # <<"local">> /\ \A l : w # <<"focus", l>>
    BY <1>6
  <2> HIDE DEF Declares
  <2>2. Declaration(inner, v) =
          CASE w = <<"local">> -> LocalView
            [] w = <<"/", v.mode>> /\ inner[2] = v.mode -> GlobalView
            [] \E l \in Lists : w = <<"focus", l>> /\ RefsOf[l] \subseteq 1..NumSegments
                 -> FocusView(RefsOf[w[2]])
            [] OTHER -> v
    BY DEF Declaration, w, Words
  <2>3. QED
    BY <1>7, <2>1, <2>2
\* and so it does for the parser
<1>9. Named(body) => NameOf(inner) = inner[2] /\ NameOf(inner) \in Letters
                      /\ (BlankFrom(body, 2, 0) <=> BlankFrom(inner, 2, 2)) /\ n >= 2
  <2>1. SUFFICES ASSUME Named(body)
                 PROVE  /\ NameOf(inner) = inner[2] /\ NameOf(inner) \in Letters
                        /\ (BlankFrom(body, 2, 0) <=> BlankFrom(inner, 2, 2)) /\ n >= 2
    OBVIOUS
  <2>2. NameOf(inner) = body[1] /\ body[1] \in Letters /\ Len(body) >= 1
    BY <1>1, <2>1, NameIs DEF Named
  <2>3. n >= 2 /\ body[1] = inner[2]
    <3>1. n >= 2 /\ 1 \in 1..(n - 1) /\ 1 + 1 = 2
      BY <1>1, <1>2, <2>2
    <3>2. QED
      BY <1>2, <3>1
  <2>4. ASSUME BlankFrom(body, 2, 0) PROVE BlankFrom(inner, 2, 2)
    <3>1. ASSUME NEW i \in 2..n, i # 2 PROVE inner[i] = "blank"
      <4>1. i - 1 \in 2..(n - 1) /\ i - 1 \in 1..(n - 1) /\ (i - 1) + 1 = i /\ i - 1 # 0
        BY <1>1, <3>1
      <4>2. body[i - 1] = "blank"
        BY <1>2, <2>4, <4>1 DEF BlankFrom
      <4>3. QED
        BY <1>2, <4>1, <4>2
    <3>2. QED
      BY <3>1 DEF BlankFrom, n
  <2>5. ASSUME BlankFrom(inner, 2, 2) PROVE BlankFrom(body, 2, 0)
    <3>1. ASSUME NEW i \in 2..(n - 1) PROVE body[i] = "blank"
      <4>1. i + 1 \in 2..n /\ i + 1 # 2 /\ i \in 1..(n - 1)
        BY <1>1
      <4>2. inner[i + 1] = "blank"
        BY <2>5, <4>1 DEF BlankFrom, n
      <4>3. QED
        BY <1>2, <4>1, <4>2
    <3>2. QED
      BY <1>2, <3>1 DEF BlankFrom
  <2>6. QED
    BY <2>2, <2>3, <2>4, <2>5
<1>10. Named(body) =>
         /\ Regular(AfterName(inner)) => Loose(AfterName(inner))
         /\ Regular(AfterName(inner)) /\ Pairs(inner) = {} <=> BlankFrom(body, 2, 0)
  BY <1>1, AttrFacts
<1>11. ~Named(body) => Unknown(inner)
  <2>1. ~Named(body) => NameOf(inner) \in {"", "word"}
    BY <1>1, NameIs
  <2>2. QED
    BY <2>1 DEF Unknown, Names
<1>12. ~Void(inner, v) => (Declares(v.mode) \/ Declares("answer"))
  <2>1. SUFFICES ASSUME ~Void(inner, v) PROVE Declares(v.mode) \/ Declares("answer")
    OBVIOUS
  <2>2. /\ ~Unknown(inner) /\ Regular(AfterName(inner)) /\ Pairs(inner) = {}
        /\ ~Mismatched(inner, v)
    BY <1>3, <2>1 DEF Void
  <2>3. Named(body)
    BY <1>11, <2>2
  <2>4. NameOf(inner) \in {"answer", v.mode}
    BY <1>1, <2>2 DEF Mismatched
  <2>5. BlankFrom(inner, 2, 2) /\ n >= 2 /\ inner[2] = NameOf(inner)
    BY <1>9, <1>10, <2>2, <2>3
  <2>6. QED
    BY <2>4, <2>5
<1>13. ASSUME Declares(v.mode) PROVE ~Void(inner, v) /\ NameOf(inner) = v.mode
  <2>1. Named(body)
    <3>1. 1 \in 1..(n - 1) /\ 1 + 1 = 2 /\ Len(body) >= 1
      BY <1>1, <1>2, <1>13
    <3>2. body[1] \in Letters
      BY <1>2, <1>5, <1>13, <3>1
    <3>3. Len(body) >= 2 => body[2] \notin Letters
      <4>1. SUFFICES ASSUME Len(body) >= 2 PROVE body[2] \notin Letters
        OBVIOUS
      <4>2. 2 \in 1..(n - 1) /\ 2 + 1 = 3 /\ 3 \in 2..n
        BY <1>1, <1>2, <4>1
      <4>3. inner[3] = "blank"
        BY <1>13, <4>2 DEF BlankFrom, n
      <4>4. body[2] = "blank"
        BY <1>2, <4>2, <4>3
      <4>5. QED
        BY <4>4 DEF Letters, Names
    <3>4. QED
      BY <3>1, <3>2, <3>3 DEF Named
  <2>2. NameOf(inner) = v.mode
    BY <1>9, <1>13, <2>1
  <2>3. Regular(AfterName(inner)) /\ Loose(AfterName(inner)) /\ Pairs(inner) = {}
    BY <1>9, <1>10, <1>13, <2>1
  <2>4. ~Unknown(inner) /\ ~Mismatched(inner, v)
    BY <1>5, <2>2, <2>3 DEF Unknown, Mismatched
  <2>5. QED
    BY <1>3, <2>2, <2>3, <2>4 DEF Void
<1>14. CASE Declares(v.mode)
  <2>1. AfterTag(inner, v) = Declared(inner, v) /\ NameOf(inner) = v.mode
    BY <1>13, <1>14 DEF AfterTag
  <2>2. Declared(inner, v) = GlobalView
    BY <1>1, <1>4, <2>1 DEF Declared
  <2>3. QED
    BY <1>8, <1>14, <2>1, <2>2
<1>15. CASE ~Declares(v.mode)
  <2>1. AfterTag(inner, v) = v
    <3>1. CASE Void(inner, v)
      BY <3>1 DEF AfterTag
    <3>2. CASE ~Void(inner, v)
      <4>1. Declares("answer")
        BY <1>12, <1>15, <3>2
      <4>2. Named(body)
        BY <1>11, <3>2 DEF Void
      <4>3. NameOf(inner) = "answer"
        BY <1>9, <4>1, <4>2
      <4>4. QED
        BY <3>2, <4>3 DEF AfterTag, Declared
    <3>3. QED
      BY <3>1, <3>2
  <2> HIDE DEF Declares
  <2>2. QED
    BY <1>8, <1>15, <2>1
<1>16. QED
  BY <1>14, <1>15

\* ... an opening tag does, ...
LEMMA OpeningTag ==
  ASSUME NEW inner \in Seq(Chars), Len(inner) >= 1, inner[1] \in Letters,
         NEW v \in View, WellFormed(v)
  PROVE  AfterTag(inner, v) = Declaration(inner, v)
<1> DEFINE n == Len(inner)
           w == Words(inner)
<1>1. inner # <<>> /\ ~Closing(inner) /\ Body(inner) = inner /\ n \in Nat /\ n >= 1
  BY DEF Closing, Body, Letters, Names
<1>2. inner[1] # "blank"
  BY DEF Letters, Names
<1> HIDE DEF w, n
<1>3. /\ w \in Seq(Chars) /\ Len(w) >= 1 /\ w[1] = inner[1]
      /\ Len(w) = 1 <=> BlankFrom(inner, 2, 0)
      /\ \A j \in 2..n : inner[j] # "blank" /\ BlankFrom(inner, 2, j) => Len(w) = 2 /\ w[2] = inner[j]
      /\ Len(w) = 2 => \E j \in 2..n : inner[j] = w[2] /\ inner[j] # "blank" /\ BlankFrom(inner, 2, j)
  BY <1>2, WordsFacts DEF w, n
<1> DEFINE IsLocal == inner[1] = "local" /\ BlankFrom(inner, 2, 0)
           Lists1(j) == inner[1] = "focus" /\ inner[j] \in Lists /\ BlankFrom(inner, 2, j)
           IsFocus(j) == Lists1(j) /\ RefsOf[inner[j]] \subseteq 1..NumSegments
<1>4. w = <<"local">> <=> IsLocal
  BY <1>3, SingleIs
<1>5. "blank" \notin Lists
  BY ParserAssumption
<1>6. ASSUME NEW j \in 2..n, Lists1(j)
      PROVE  \A l : w = <<"focus", l>> <=> l = inner[j]
  <2>1. Len(w) = 2 /\ w[2] = inner[j] /\ w[1] = "focus"
    BY <1>3, <1>5, <1>6
  <2>2. QED
    BY <1>3, <2>1, PairIs
<1>7. ASSUME NEW l \in Lists, w = <<"focus", l>>
      PROVE  \E j \in 2..n : Lists1(j) /\ inner[j] = l
  <2>1. Len(w) = 2 /\ w[1] = "focus" /\ w[2] = l
    BY <1>7
  <2>2. QED
    BY <1>3, <2>1
<1>8. Declaration(inner, v) =
        CASE w = <<"local">> -> LocalView
          [] \E l \in Lists : w = <<"focus", l>> /\ RefsOf[l] \subseteq 1..NumSegments
               -> FocusView(RefsOf[w[2]])
          [] OTHER -> v
  <2>1. Declaration(inner, v) =
          CASE w = <<"local">> -> LocalView
            [] w = <<"/", v.mode>> /\ inner[2] = v.mode -> GlobalView
            [] \E l \in Lists : w = <<"focus", l>> /\ RefsOf[l] \subseteq 1..NumSegments
                 -> FocusView(RefsOf[w[2]])
            [] OTHER -> v
    BY DEF Declaration, w, Words
  <2>2. w # <<"/", v.mode>>
    <3>1. w[1] # "/"
      BY <1>3 DEF Letters, Names
    <3>2. QED
      BY <3>1
  <2>3. QED
    BY <2>1, <2>2
<1>9. w = <<"local">> => \A l : w # <<"focus", l>>
  OBVIOUS
<1>10. Named(inner) =>
         /\ NameOf(inner) = inner[1]
         /\ Regular(AfterName(inner)) => Loose(AfterName(inner))
         /\ Regular(AfterName(inner)) /\ Pairs(inner) = {} <=> BlankFrom(inner, 2, 0)
         /\ \A j \in 2..n : inner[j] \in Lists /\ BlankFrom(inner, 2, j) =>
              /\ Regular(AfterName(inner)) /\ Cardinality(Pairs(inner)) = 1
              /\ Given(inner) = {inner[j]} /\ Refs(inner) = RefsOf[inner[j]]
         /\ Regular(AfterName(inner)) /\ Cardinality(Pairs(inner)) = 1 /\ Given(inner) \subseteq Lists
              => \E j \in 2..n : /\ inner[j] \in Lists /\ BlankFrom(inner, 2, j)
                                 /\ Refs(inner) = RefsOf[inner[j]]
  <2>1. SUFFICES ASSUME Named(inner) PROVE
           /\ NameOf(inner) = inner[1]
           /\ Regular(AfterName(inner)) => Loose(AfterName(inner))
           /\ Regular(AfterName(inner)) /\ Pairs(inner) = {} <=> BlankFrom(inner, 2, 0)
           /\ \A j \in 2..n : inner[j] \in Lists /\ BlankFrom(inner, 2, j) =>
                /\ Regular(AfterName(inner)) /\ Cardinality(Pairs(inner)) = 1
                /\ Given(inner) = {inner[j]} /\ Refs(inner) = RefsOf[inner[j]]
           /\ Regular(AfterName(inner)) /\ Cardinality(Pairs(inner)) = 1 /\ Given(inner) \subseteq Lists
              => \E j \in 2..n : /\ inner[j] \in Lists /\ BlankFrom(inner, 2, j)
                                   /\ Refs(inner) = RefsOf[inner[j]]
    OBVIOUS
  <2>2. inner = Body(inner)
    BY <1>1
  <2>3. NameOf(inner) = inner[1]
    BY <2>1, <2>2, NameIs
  <2>4. QED
    BY <2>1, <2>2, <2>3, AttrFacts DEF n
<1>11. ~Named(inner) => NameOf(inner) \notin Names
  <2>1. ~Named(inner) => NameOf(inner) \in {"", "word"}
    BY <1>1, NameIs
  <2>2. QED
    BY <2>1 DEF Names
<1>12. ASSUME IsLocal \/ \E j \in 2..n : Lists1(j) PROVE Named(inner)
  <2>1. n >= 2 => inner[2] \in {"blank"} \cup Lists
    BY <1>1, <1>12 DEF BlankFrom, n
  <2>2. n >= 2 => inner[2] \notin Letters
    BY <2>1, ParserAssumption DEF Letters, Names
  <2>3. QED
    BY <1>1, <2>2 DEF Named, n
<1> HIDE DEF Lists1
<1>13. CASE IsLocal
  <2>1. Named(inner) /\ NameOf(inner) = "local"
    BY <1>10, <1>12, <1>13
  <2>2. ~IsFocusCall(inner)
    BY <2>1 DEF IsFocusCall
  <2>3. Regular(AfterName(inner)) /\ Loose(AfterName(inner)) /\ Pairs(inner) = {}
    BY <1>10, <1>13, <2>1
  <2>4. ~Void(inner, v)
    BY <1>1, <2>1, <2>2, <2>3 DEF Void, Unknown, Mismatched, Names
  <2>5. AfterTag(inner, v) = LocalView
    BY <1>1, <2>1, <2>4 DEF AfterTag, Declared
  <2>6. QED
    BY <1>4, <1>8, <1>9, <1>13, <2>5
<1>14. ASSUME NEW j \in 2..n, IsFocus(j)
       PROVE  AfterTag(inner, v) = Declaration(inner, v)
  <2>1. Named(inner) /\ NameOf(inner) = "focus"
    BY <1>10, <1>12, <1>14 DEF Lists1
  <2>2. IsFocusCall(inner)
    BY <1>1, <2>1 DEF IsFocusCall
  <2>3. /\ Regular(AfterName(inner)) /\ Loose(AfterName(inner)) /\ Cardinality(Pairs(inner)) = 1
        /\ Given(inner) = {inner[j]} /\ Refs(inner) = RefsOf[inner[j]]
    BY <1>10, <1>14, <2>1 DEF Lists1
  <2>4. GoodFocus(inner)
    BY <1>14, <2>3 DEF GoodFocus, ValidRefs, Lists1
  <2>5. ~Void(inner, v)
    BY <2>1, <2>2, <2>3, <2>4 DEF Void, Unknown, Names
  <2>6. AfterTag(inner, v) = FocusView(RefsOf[inner[j]])
    BY <2>1, <2>2, <2>3, <2>5 DEF AfterTag, Declared, IsFocusCall
  <2>7. w = <<"focus", inner[j]>> /\ inner[j] \in Lists
    BY <1>6, <1>14 DEF Lists1
  <2>8. w[2] = inner[j]
    BY <2>7
  <2>9. w # <<"local">>
    BY <1>9, <2>7
  <2>10. Declaration(inner, v) = FocusView(RefsOf[w[2]])
    BY <1>8, <1>14, <2>7, <2>9
  <2>11. QED
    BY <2>6, <2>8, <2>10
<1>15. ASSUME ~IsLocal, ~\E j \in 2..n : IsFocus(j)
       PROVE  AfterTag(inner, v) = Declaration(inner, v)
  <2>1. Declaration(inner, v) = v
    <3>1. ~\E l \in Lists : w = <<"focus", l>> /\ RefsOf[l] \subseteq 1..NumSegments
      BY <1>7, <1>15
    <3>2. QED
      BY <1>4, <1>8, <1>15, <3>1
  <2>2. CASE Void(inner, v)
    BY <2>1, <2>2 DEF AfterTag
  <2>3. CASE ~Void(inner, v)
    <3>1. /\ NameOf(inner) \in Names /\ Regular(AfterName(inner))
          /\ IsFocusCall(inner) => GoodFocus(inner)
          /\ ~IsFocusCall(inner) => Pairs(inner) = {}
      BY <2>3 DEF Void, Unknown
    <3>2. Named(inner) /\ NameOf(inner) = inner[1]
      BY <1>10, <1>11, <3>1
    <3>3. ~IsFocusCall(inner)
      <4>1. SUFFICES ASSUME IsFocusCall(inner) PROVE FALSE
        OBVIOUS
      <4>2. GoodFocus(inner) /\ inner[1] = "focus"
        BY <3>1, <3>2, <4>1 DEF IsFocusCall
      <4>3. PICK j \in 2..n : /\ inner[j] \in Lists /\ BlankFrom(inner, 2, j)
                              /\ Refs(inner) = RefsOf[inner[j]]
        BY <1>10, <3>1, <3>2, <4>2 DEF GoodFocus
      <4>4. IsFocus(j)
        BY <4>2, <4>3 DEF Lists1, GoodFocus, ValidRefs
      <4>5. QED
        BY <1>15, <4>4
    <3>4. NameOf(inner) # "focus" /\ NameOf(inner) # "local"
      BY <1>1, <1>10, <1>15, <3>1, <3>2, <3>3 DEF IsFocusCall
    <3>5. NameOf(inner) \in {"answer", "global"}
      BY <3>1, <3>4 DEF Names
    <3>6. QED
      BY <2>1, <2>3, <3>5 DEF AfterTag, Declared
  <2>4. QED
    BY <2>2, <2>3
<1>16. QED
  BY <1>13, <1>14, <1>15

\* ... so every closed tag does: _close agrees with the definition of the whole text.
LEMMA DeclarationIs ==
  ASSUME NEW inner \in Seq(Chars), Len(inner) >= 1, inner[1] \in Letters \cup {"/"},
         NEW v \in View, WellFormed(v)
  PROVE  AfterTag(inner, v) = Declaration(inner, v)
  BY ClosingTag, OpeningTag

-----------------------------------------------------------------------------
(* The decoder, one byte more. *)

\* What a byte gives.
CharOf(b) == IF b \in {"lead", "cont"} THEN "text" ELSE b

\* The character of a byte is one.
LEMMA CharOfTyped == \A b \in Bytes : CharOf(b) \in Chars
  BY DEF CharOf, Bytes, Chars

\* What the bytes give, one by one.
CharsOf(bytes) == [i \in DOMAIN bytes |-> CharOf(bytes[i])]

\* The positions where a character comes out.
Shown(bytes) == {i \in DOMAIN bytes : ~Held(bytes, i)}

\* The decoded text is what is shown of the characters of the bytes.
LEMMA DecodeIs ==
  ASSUME NEW s \in Seq(Bytes)
  PROVE  /\ Decode(s) = Kept(CharsOf(s), Shown(s))
         /\ CharsOf(s) \in Seq(Chars) /\ Len(CharsOf(s)) = Len(s)
         /\ Decode(s) \in Seq(Chars)
<1>1. Decode(s) = Kept(CharsOf(s), Shown(s))
  BY DEF Decode, CharsOf, CharOf, Shown
<1>2. \A i \in 1..Len(s) : CharOf(s[i]) \in Chars
  BY CharOfTyped
<1>3. CharsOf(s) \in Seq(Chars) /\ Len(CharsOf(s)) = Len(s)
  BY <1>2 DEF CharsOf
<1>4. QED
  BY <1>1, <1>3, KeptTyped

\* One byte more is one character more.
LEMMA CharsOfAppend ==
  ASSUME NEW s \in Seq(Bytes), NEW b \in Bytes
  PROVE  CharsOf(Append(s, b)) = Append(CharsOf(s), CharOf(b))
<1> DEFINE n == Len(s)
           u == CharsOf(Append(s, b))
           w == Append(CharsOf(s), CharOf(b))
<1>1. /\ Append(s, b) \in Seq(Bytes) /\ Len(Append(s, b)) = n + 1 /\ n \in Nat
      /\ Append(s, b)[n + 1] = b /\ \A i \in 1..n : Append(s, b)[i] = s[i]
  OBVIOUS
<1>2. CharsOf(s) \in Seq(Chars) /\ Len(CharsOf(s)) = n /\ CharOf(b) \in Chars
  BY DecodeIs, CharOfTyped
<1>3. u \in Seq(Chars) /\ Len(u) = n + 1
  BY <1>1, DecodeIs
<1>4. /\ w \in Seq(Chars) /\ Len(w) = n + 1 /\ w[n + 1] = CharOf(b)
      /\ \A i \in 1..n : w[i] = CharsOf(s)[i]
  BY <1>2
<1>5. /\ u[n + 1] = CharOf(b)
      /\ \A i \in 1..n : u[i] = CharOf(s[i]) /\ CharsOf(s)[i] = CharOf(s[i])
  BY <1>1 DEF CharsOf
<1> HIDE DEF u, w
<1>6. \A i \in 1..(n + 1) : u[i] = w[i]
  BY <1>1, <1>4, <1>5
<1>7. u = w
  BY <1>3, <1>4, <1>6, SeqEqual
<1>8. QED
  BY <1>7 DEF u, w

\* What a byte gives depends on whether a lead byte is held before it.
DecodedNext(s, b) ==
    LET before == IF EndsInLead(s) /\ b # "cont" THEN Append(Decode(s), "text") ELSE Decode(s)
    IN  IF b = "lead" THEN before ELSE Append(before, CharOf(b))

\* Decoding is incremental: only a lead byte before the byte matters.
LEMMA DecodeAppend ==
  ASSUME NEW s \in Seq(Bytes), NEW b \in Bytes
  PROVE  Decode(Append(s, b)) = DecodedNext(s, b)
<1> DEFINE n == Len(s)
           u == Append(s, b)
           before == IF EndsInLead(s) /\ b # "cont" THEN Append(Decode(s), "text") ELSE Decode(s)
<1>1. /\ u \in Seq(Bytes) /\ Len(u) = n + 1 /\ n \in Nat
      /\ u[n + 1] = b /\ \A i \in 1..n : u[i] = s[i]
      /\ DOMAIN u = 1..(n + 1) /\ DOMAIN s = 1..n /\ Len(s) = n
  OBVIOUS
<1>2. CharsOf(s) \in Seq(Chars) /\ Len(CharsOf(s)) = n /\ CharOf(b) \in Chars
  BY DecodeIs, CharOfTyped
<1> HIDE DEF u, n
<1>3. n + 1 \in Shown(u) <=> b # "lead"
  BY <1>1 DEF Shown, Held
<1>4. ASSUME NEW i \in 1..n, i # n PROVE i \in Shown(u) <=> i \in Shown(s)
  <2>1. i \in 1..(n + 1) /\ i # n + 1 /\ i + 1 \in 1..n
    BY <1>1, <1>4
  <2>2. u[i] = s[i] /\ u[i + 1] = s[i + 1]
    BY <1>1, <2>1
  <2>3. QED
    BY <1>1, <1>4, <2>1, <2>2 DEF Shown, Held
<1>5. n >= 1 => (n \in Shown(s) <=> s[n] # "lead")
                /\ (n \in Shown(u) <=> ~(s[n] = "lead" /\ b = "cont"))
  <2>1. SUFFICES ASSUME n >= 1
                 PROVE  /\ n \in Shown(s) <=> s[n] # "lead"
                        /\ n \in Shown(u) <=> ~(s[n] = "lead" /\ b = "cont")
    OBVIOUS
  <2>2. n \in 1..n /\ n \in 1..(n + 1) /\ n # n + 1
    BY <1>1, <2>1
  <2>3. u[n] = s[n]
    BY <1>1, <2>2
  <2>4. QED
    BY <1>1, <2>2, <2>3 DEF Shown, Held
<1>6. Kept(CharsOf(s), Shown(u)) = before
  <2>1. CASE EndsInLead(s) /\ b # "cont"
    <3> DEFINE r == SubSeq(s, 1, n - 1)
    <3>1. n >= 1 /\ s[n] = "lead"
      <4>1. s # <<>> /\ s[n] = "lead"
        BY <2>1 DEF EndsInLead, n
      <4>2. n # 0
        BY <4>1 DEF n
      <4>3. QED
        BY <1>1, <4>1, <4>2
    <3>2. r \in Seq(Bytes) /\ s = Append(r, "lead") /\ Len(r) + 1 = n /\ Len(r) \in Nat
      <4>1. r \in Seq(Bytes) /\ Len(r) = n - 1
        BY <1>1, <3>1 DEF n
      <4>2. s = Append(r, s[n])
        BY <1>1, <3>1 DEF n
      <4>3. QED
        BY <1>1, <3>1, <4>1, <4>2
    <3> HIDE DEF r
    <3>3. "lead" \in Bytes /\ CharOf("lead") = "text"
      BY DEF Bytes, CharOf
    <3>4. CharsOf(s) = Append(CharsOf(r), "text") /\ CharsOf(r) \in Seq(Chars)
          /\ Len(CharsOf(r)) = Len(r) /\ "text" \in Chars
      BY <3>2, <3>3, CharsOfAppend, DecodeIs, CharOfTyped
    <3>5. \A i \in 1..Len(r) : i \in Shown(u) <=> i \in Shown(s)
      BY <1>1, <1>4, <3>2
    <3>6. n \in Shown(u) /\ n \notin Shown(s)
      BY <1>5, <2>1, <3>1
    <3> DEFINE q == CharsOf(r)
    <3>7. /\ q \in Seq(Chars) /\ Len(q) = Len(q) /\ Len(q) + 1 = n
          /\ \A j \in 1..Len(q) : (j \in Shown(s) <=> j \in Shown(s)) /\ (j \in Shown(s) => q[j] = q[j])
          /\ \A j \in 1..Len(q) : (j \in Shown(s) <=> j \in Shown(u)) /\ (j \in Shown(s) => q[j] = q[j])
      BY <3>2, <3>4, <3>5
    <3> HIDE DEF q
    <3>8. Kept(Append(q, "text"), Shown(s)) = Kept(q, Shown(s))
      <4>1. Kept(Append(q, "text"), Shown(s))
              = IF Len(q) + 1 \in Shown(s) THEN Append(Kept(q, Shown(s)), "text") ELSE Kept(q, Shown(s))
        BY <3>4, <3>7, KeptAppend
      <4>2. QED
        BY <3>6, <3>7, <4>1
    <3>9. Kept(Append(q, "text"), Shown(u)) = Append(Kept(q, Shown(s)), "text")
      <4>1. Kept(Append(q, "text"), Shown(u))
              = IF Len(q) + 1 \in Shown(u) THEN Append(Kept(q, Shown(s)), "text") ELSE Kept(q, Shown(s))
        <5>1. /\ q \in Seq(Chars) /\ Len(q) = Len(q) /\ "text" \in Chars
              /\ \A j \in 1..Len(q) : (j \in Shown(s) <=> j \in Shown(u))
                                      /\ (j \in Shown(s) => q[j] = q[j])
          BY <3>4, <3>7
        <5>2. QED
          BY <5>1, KeptAppend
      <4>2. QED
        BY <3>6, <3>7, <4>1
    <3>10. Decode(s) = Kept(CharsOf(s), Shown(s))
      BY DecodeIs
    <3>11. QED
      BY <2>1, <3>4, <3>8, <3>9, <3>10 DEF q
  <2>2. CASE ~(EndsInLead(s) /\ b # "cont")
    <3>1. n >= 1 => (n \in Shown(u) <=> n \in Shown(s))
      <4>1. n >= 1 => s # <<>>
        BY DEF n
      <4>2. QED
        BY <1>5, <2>2, <4>1 DEF EndsInLead, n
    <3>2. \A i \in 1..n : i \in Shown(u) <=> i \in Shown(s)
      BY <1>1, <1>4, <3>1
    <3> DEFINE q == CharsOf(s)
    <3>3. \A j \in 1..Len(q) : (j \in Shown(u) <=> j \in Shown(s)) /\ (j \in Shown(u) => q[j] = q[j])
      BY <1>2, <3>2
    <3>4. q \in Seq(Chars) /\ Len(q) = Len(q)
      BY <1>2
    <3> HIDE DEF q
    <3>5. Kept(q, Shown(u)) = Kept(q, Shown(s))
      BY <3>3, <3>4, KeptSame
    <3>6. QED
      BY <2>2, <3>5, DecodeIs DEF q
  <2>3. QED
    BY <2>1, <2>2
<1>7. Decode(u) = IF b = "lead" THEN before ELSE Append(before, CharOf(b))
  <2> DEFINE q == CharsOf(s)
             c == CharOf(b)
  <2>1. CharsOf(u) = Append(q, c)
    BY CharsOfAppend DEF u
  <2>2. Decode(u) = Kept(Append(q, c), Shown(u))
    BY <1>1, <2>1, DecodeIs
  <2>3. q \in Seq(Chars) /\ Len(q) = n /\ c \in Chars /\ Len(q) = Len(q)
        /\ \A j \in 1..Len(q) : (j \in Shown(u) <=> j \in Shown(u)) /\ (j \in Shown(u) => q[j] = q[j])
    BY <1>2
  <2>4. Kept(q, Shown(u)) = before
    BY <1>6
  <2> HIDE DEF q, c, before
  <2>5. Kept(Append(q, c), Shown(u))
          = IF Len(q) + 1 \in Shown(u) THEN Append(Kept(q, Shown(u)), c) ELSE Kept(q, Shown(u))
    BY <2>3, KeptAppend
  <2>6. QED
    BY <1>3, <2>2, <2>3, <2>4, <2>5 DEF c
<1>8. QED
  BY <1>7 DEF u, DecodedNext

-----------------------------------------------------------------------------
(* The calls of focus, one character more. *)

\* The tag that opens at k is a call of focus.
CallAt(text, k) ==
    /\ text[k + 1] = "focus"
    /\ k + 2 <= Len(text) =>
          /\ text[k + 2] \notin Letters
          /\ k \in Tags(text) => text[k + 2] \in Blanks \cup {">"}

\* The calls are the openings that call.
LEMMA CallsAre ==
  ASSUME NEW t
  PROVE  \A k : k \in FocusCalls(t) <=> k \in Openings(t) /\ CallAt(t, k)
  BY DEF FocusCalls, CallAt

\* There are finitely many.
LEMMA CallsFinite ==
  ASSUME NEW t, Len(t) \in Nat
  PROVE  /\ IsFiniteSet(FocusCalls(t)) /\ IsFiniteSet(EndedCalls(t))
         /\ \A S : S \subseteq FocusCalls(t) => IsFiniteSet(S)
<1>1. Openings(t) \subseteq 1..Len(t)
  BY OpeningsFacts DEF IsOpenings
<1>2. IsFiniteSet(1..Len(t))
  BY FS_Interval
<1>3. FocusCalls(t) \subseteq 1..Len(t)
  BY <1>1 DEF FocusCalls
<1>4. \A S : S \subseteq FocusCalls(t) => IsFiniteSet(S)
  BY <1>2, <1>3, FS_Subset
<1>5. EndedCalls(t) \subseteq FocusCalls(t)
  BY DEF EndedCalls
<1>6. QED
  BY <1>4, <1>5

\* A tag is longer than "<" and one lexeme when it ends.
LEMMA EndAfterTwo ==
  ASSUME NEW t, Len(t) \in Nat, NEW k \in Openings(t)
  PROVE  /\ k \in Nat /\ k >= 1 /\ k < Len(t)
         /\ EndOf(t, k) \in Nat /\ EndOf(t, k) >= k + 2
<1>1. k \in Nat /\ k >= 1 /\ k < Len(t) /\ t[k + 1] \in Letters \cup {"/"}
  BY OpeningIs
<1>2. IsEnd(t, k, EndOf(t, k))
  BY <1>1, EndOfFacts
<1>3. t[k + 1] # ">"
  BY <1>1 DEF Letters, Names
<1>4. MaxTagBuffer \in Nat /\ MaxTagBuffer >= 2
  BY ParserAssumption
<1>5. EndOf(t, k) # k + 1
  BY <1>1, <1>2, <1>3, <1>4 DEF IsEnd
<1>6. QED
  BY <1>1, <1>2, <1>4, <1>5 DEF IsEnd

\* The calls that end with the new character.
LEMMA EndedCallsLonger ==
  ASSUME NEW t, NEW u, NEW c, Longer(t, u, c)
  PROVE  EndedCalls(u) = EndedCalls(t)
           \cup {k \in Unended(t) : EndOf(u, k) = Len(u) /\ CallAt(u, k)}
<1> DEFINE n == Len(t)
<1>1. n \in Nat /\ Len(u) = n + 1 /\ u[n + 1] = c /\ (\A j \in 1..n : u[j] = t[j])
      /\ Len(u) \in Nat
  BY DEF Longer
<1>2. Openings(u) = Openings(t) \cup {k \in {n} : Fresh(t) /\ c \in Letters \cup {"/"}}
  BY OpeningsLonger
<1>3. Tags(u) = Tags(t) \cup {k \in Unended(t) : c = ">"}
  BY TagsLonger
<1>4. MaxTagBuffer \in Nat /\ MaxTagBuffer >= 2
  BY ParserAssumption
<1>5. ASSUME NEW k \in Openings(t)
      PROVE  /\ EndOf(t, k) \in Nat /\ k \in Nat /\ k >= 1 /\ k < n
             /\ EndOf(t, k) >= k + 2 /\ EndOf(t, k) <= k + MaxTagBuffer
             /\ EndOf(u, k) = IF EndOf(t, k) <= n THEN EndOf(t, k)
                              ELSE IF c = ">" THEN n + 1 ELSE k + MaxTagBuffer
  BY <1>1, EndAfterTwo, EndsTyped
<1>6. ASSUME NEW k \in Openings(t), EndOf(t, k) <= n
      PROVE  CallAt(u, k) <=> CallAt(t, k)
  <2>1. k + 1 \in 1..n /\ k + 2 \in 1..n /\ k + 2 <= Len(t) /\ k + 2 <= Len(u)
    BY <1>1, <1>5, <1>6
  <2>2. u[k + 1] = t[k + 1] /\ u[k + 2] = t[k + 2]
    BY <1>1, <2>1
  <2>3. k \in Tags(u) <=> k \in Tags(t)
    BY <1>1, <1>3, <1>5, <1>6 DEF Unended
  <2>4. QED
    BY <2>1, <2>2, <2>3 DEF CallAt
<1>7. ASSUME NEW k \in Openings(u), EndOf(u, k) <= Len(u) PROVE k \in Openings(t)
  <2>1. SUFFICES ASSUME k \notin Openings(t) PROVE FALSE
    OBVIOUS
  <2>2. k = n /\ Fresh(t) /\ c \in Letters \cup {"/"}
    BY <1>2, <2>1
  <2>3. k \in Unended(u)
    BY <2>2, UnendedLonger
  <2>4. EndOf(u, k) \in Nat /\ EndOf(u, k) > Len(u)
    BY <1>1, <2>3, EndAfterTwo DEF Unended
  <2>5. QED
    BY <1>1, <1>7, <2>4
<1>8. ASSUME NEW k
      PROVE  k \in EndedCalls(u) <=> k \in EndedCalls(t)
               \/ (k \in Unended(t) /\ EndOf(u, k) = Len(u) /\ CallAt(u, k))
  <2>1. k \in EndedCalls(u) <=> k \in Openings(u) /\ CallAt(u, k) /\ EndOf(u, k) <= n + 1
    BY <1>1, CallsAre DEF EndedCalls
  <2>2. k \in EndedCalls(t) <=> k \in Openings(t) /\ CallAt(t, k) /\ EndOf(t, k) <= n
    BY CallsAre DEF EndedCalls
  <2>3. k \in EndedCalls(u) <=> k \in Openings(t) /\ CallAt(u, k) /\ EndOf(u, k) <= n + 1
    BY <1>1, <1>2, <1>7, <2>1
  <2>4. CASE k \notin Openings(t)
    BY <2>2, <2>3, <2>4 DEF Unended
  <2>5. CASE k \in Openings(t) /\ EndOf(t, k) <= n
    <3>1. EndOf(u, k) = EndOf(t, k) /\ k \notin Unended(t) /\ EndOf(u, k) <= n + 1
      BY <1>1, <1>5, <2>5 DEF Unended
    <3>2. QED
      BY <1>6, <2>2, <2>3, <2>5, <3>1
  <2>6. CASE k \in Openings(t) /\ EndOf(t, k) > n
    <3>1. ~(EndOf(t, k) <= n) /\ k \in Unended(t)
      BY <1>1, <1>5, <2>6 DEF Unended
    <3>2. EndOf(u, k) <= n + 1 <=> EndOf(u, k) = n + 1
      BY <1>1, <1>4, <1>5, <2>6
    <3>3. QED
      BY <1>1, <2>2, <2>3, <2>6, <3>1, <3>2
  <2>7. QED
    BY <1>1, <1>5, <2>4, <2>5, <2>6
<1>9. QED
  BY <1>8

\* Of the open tag, the parser holds what the text says.
LEMMA OpenPiece ==
  ASSUME NEW t \in Seq(Chars), NEW b \in Seq(Chars), OpenIn(t, b), Len(b) > 1
  PROVE  \E k \in Unended(t) :
           /\ Unended(t) = {k}
           /\ k \in Nat /\ k >= 1 /\ k < Len(t) /\ k \in Openings(t)
           /\ Len(b) = Len(t) - k + 1
           /\ Tail(b) \in Seq(Chars) /\ Len(Tail(b)) = Len(t) - k
           /\ \A i \in 1..(Len(t) - k) : Tail(b)[i] = t[k + i]
           /\ Tail(b)[1] \in Letters \cup {"/"}
           /\ \A i \in 1..(Len(t) - k) : Tail(b)[i] # ">"
<1> DEFINE n == Len(t)
<1>1. PICK k \in Unended(t) : LastOpen(t, k) /\ b = SubSeq(t, k, n)
  BY DEF OpenIn
<1>2. n \in Nat /\ k \in Openings(t) /\ EndOf(t, k) > n
  BY DEF Unended
<1>3. k \in Nat /\ k >= 1 /\ k < n /\ t[k + 1] \in Letters \cup {"/"}
  BY <1>2, OpeningIs
<1>4. Len(b) = (n - k) + 1 /\ \A i \in 1..((n - k) + 1) : b[i] = t[k + i - 1]
  BY <1>1, <1>2, <1>3
<1>5. b # <<>> /\ n - k \in Nat /\ n - k >= 1
  BY <1>2, <1>3, <1>4
<1>6. Tail(b) \in Seq(Chars) /\ Len(Tail(b)) = n - k
      /\ \A i \in 1..(n - k) : Tail(b)[i] = b[i + 1]
  BY <1>4, <1>5
<1>7. ASSUME NEW i \in 1..(n - k) PROVE Tail(b)[i] = t[k + i] /\ t[k + i] # ">"
  <2>1. i + 1 \in 1..((n - k) + 1) /\ k + (i + 1) - 1 = k + i /\ k + i \in (k + 1)..n
    BY <1>2, <1>3
  <2>2. b[i + 1] = t[k + (i + 1) - 1]
    BY <1>4, <2>1
  <2>3. IsEnd(t, k, EndOf(t, k))
    BY <1>2, <1>3, EndOfFacts
  <2>4. t[k + i] # ">"
    BY <1>2, <1>3, <2>1, <2>3 DEF IsEnd
  <2>5. QED
    BY <1>6, <2>1, <2>2, <2>4
<1>8. Unended(t) = {k}
  <2>1. ASSUME NEW i \in Unended(t), i # k PROVE FALSE
    <3>1. i \in Openings(t) /\ EndOf(t, i) > n
      BY DEF Unended
    <3>2. EndOf(t, i) < k /\ EndOf(t, i) \in Nat
      BY <1>1, <1>2, <2>1, <3>1, EndAfterTwo DEF LastOpen
    <3>3. QED
      BY <1>2, <1>3, <3>1, <3>2
  <2>2. QED
    BY <2>1
<1>9. Tail(b)[1] \in Letters \cup {"/"}
  <2>1. 1 \in 1..(n - k)
    BY <1>2, <1>3
  <2>2. QED
    BY <1>3, <1>7, <2>1
<1>10. n - k + 1 = (n - k) + 1
  OBVIOUS
<1>11. QED
  BY <1>2, <1>3, <1>4, <1>6, <1>7, <1>8, <1>9, <1>10

\* What the parser takes for a call of focus.
LEMMA CallName ==
  ASSUME NEW inner \in Seq(Chars), Len(inner) >= 1
  PROVE  /\ IsFocusCall(inner) <=> /\ inner[1] = "focus"
                                   /\ Len(inner) >= 2 => inner[2] \notin Letters
         /\ IsFocusCall(inner) =>
              (~Unknown(inner) <=> (Len(inner) >= 2 => inner[2] \in Blanks))
<1>1. inner # <<>> /\ (Closing(inner) <=> inner[1] = "/")
  BY DEF Closing
<1>2. ~Closing(inner) => inner = Body(inner)
  BY DEF Body
<1>3. "focus" \in Letters /\ "focus" \in Names
  BY DEF Letters, Names
<1>4. ASSUME IsFocusCall(inner)
      PROVE  /\ inner[1] = "focus"
             /\ Len(inner) >= 2 => inner[2] \notin Letters
             /\ (~Unknown(inner) <=> (Len(inner) >= 2 => inner[2] \in Blanks))
  <2>1. inner = Body(inner) /\ NameOf(inner) = "focus"
    BY <1>2, <1>4 DEF IsFocusCall
  <2>2. Named(inner) /\ NameOf(inner) = inner[1]
    BY <2>1, NameIs
  <2>3. Loose(AfterName(inner)) <=> (Len(inner) >= 2 => inner[2] \in Blanks)
    BY <2>1, <2>2, AttrFacts
  <2>4. QED
    BY <1>3, <2>1, <2>2, <2>3 DEF Named, Unknown
<1>5. ASSUME inner[1] = "focus", Len(inner) >= 2 => inner[2] \notin Letters
      PROVE  IsFocusCall(inner)
  <2>1. ~Closing(inner) /\ inner = Body(inner)
    BY <1>1, <1>2, <1>5
  <2>2. Named(inner)
    BY <1>3, <1>5 DEF Named
  <2>3. NameOf(inner) = "focus"
    BY <1>5, <2>1, <2>2, NameIs
  <2>4. QED
    BY <2>1, <2>3 DEF IsFocusCall
<1>6. QED
  BY <1>4, <1>5

\* Attempts of a trace, one event more.
LEMMA AttemptsAppend ==
  ASSUME NEW s \in Seq(Event), NEW e \in Event
  PROVE  /\ IsFiniteSet(Attempts(s))
         /\ Cardinality(Attempts(Append(s, e)))
              = Cardinality(Attempts(s)) + (IF e.attempt THEN 1 ELSE 0)
         /\ Cardinality(Attempts(s)) \in Nat
<1>1. /\ DOMAIN s = 1..Len(s) /\ Len(s) \in Nat
      /\ DOMAIN Append(s, e) = 1..(Len(s) + 1)
      /\ \A i \in 1..Len(s) : Append(s, e)[i] = s[i]
      /\ Append(s, e)[Len(s) + 1] = e
  OBVIOUS
<1>2. IsFiniteSet(Attempts(s))
  <2>1. Attempts(s) \subseteq 1..Len(s)
    BY <1>1 DEF Attempts
  <2>2. IsFiniteSet(1..Len(s))
    BY <1>1, FS_Interval
  <2>3. QED
    BY <2>1, <2>2, FS_Subset
<1>3. Attempts(Append(s, e)) = IF e.attempt THEN Attempts(s) \cup {Len(s) + 1} ELSE Attempts(s)
  BY <1>1 DEF Attempts
<1>4. Len(s) + 1 \notin Attempts(s)
  BY <1>1 DEF Attempts
<1>5. Cardinality(Attempts(s) \cup {Len(s) + 1}) = Cardinality(Attempts(s)) + 1
  BY <1>2, <1>4, FS_AddElement
<1>6. Cardinality(Attempts(s)) \in Nat
  BY <1>2, FS_CardinalityType
<1>7. QED
  BY <1>2, <1>3, <1>5, <1>6

\* No tag ends with the new character.
LEMMA CallsSame ==
  ASSUME NEW t, NEW u, NEW c, Longer(t, u, c), \A k \in Unended(t) : EndOf(u, k) # Len(u)
  PROVE  EndedCalls(u) = EndedCalls(t)
  BY EndedCallsLonger

\* The one open tag ends with it.
LEMMA CallsEnded ==
  ASSUME NEW t, NEW u, NEW c, Longer(t, u, c), NEW k, Unended(t) = {k}, EndOf(u, k) = Len(u)
  PROVE  Cardinality(EndedCalls(u))
           = Cardinality(EndedCalls(t)) + (IF CallAt(u, k) THEN 1 ELSE 0)
<1>1. Len(t) \in Nat
  BY DEF Longer
<1>2. EndedCalls(u) = EndedCalls(t) \cup {i \in {k} : CallAt(u, k)}
  BY EndedCallsLonger
<1>3. IsFiniteSet(EndedCalls(t))
  BY <1>1, CallsFinite
<1>4. k \notin EndedCalls(t)
  <2>1. k \in Openings(t) /\ EndOf(t, k) > Len(t)
    BY DEF Unended
  <2>2. EndOf(t, k) \in Nat
    BY <1>1, <2>1, EndAfterTwo
  <2>3. QED
    BY <1>1, <2>1, <2>2 DEF EndedCalls
<1>5. Cardinality(EndedCalls(t) \cup {k}) = Cardinality(EndedCalls(t)) + 1
      /\ Cardinality(EndedCalls(t)) \in Nat
  BY <1>3, <1>4, FS_AddElement, FS_CardinalityType
<1>6. CASE CallAt(u, k)
  <2>1. EndedCalls(u) = EndedCalls(t) \cup {k}
    BY <1>2, <1>6
  <2>2. QED
    BY <1>5, <1>6, <2>1
<1>7. CASE ~CallAt(u, k)
  <2>1. EndedCalls(u) = EndedCalls(t)
    BY <1>2, <1>7
  <2>2. QED
    BY <1>5, <1>7, <2>1
<1>8. QED
  BY <1>6, <1>7

\* A ">" ends a call exactly if the event of the closed tag is an attempt.
LEMMA CallsClosed ==
  ASSUME NEW t, NEW u, Longer(t, u, ">"), NEW b \in Seq(Chars), OpenIn(t, b), Len(b) > 1, NEW v
  PROVE  Cardinality(EndedCalls(u))
           = Cardinality(EndedCalls(t)) + (IF TagEvent(Tail(b), v).attempt THEN 1 ELSE 0)
<1> DEFINE n == Len(t)
           inner == Tail(b)
<1>1. /\ n \in Nat /\ Len(u) = n + 1 /\ u[n + 1] = ">" /\ (\A j \in 1..n : u[j] = t[j])
      /\ t \in Seq(Chars) /\ Len(u) \in Nat
  BY DEF Longer
<1>2. PICK k \in Unended(t) :
           /\ Unended(t) = {k}
           /\ k \in Nat /\ k >= 1 /\ k < n /\ k \in Openings(t)
           /\ inner \in Seq(Chars) /\ Len(inner) = n - k
           /\ \A i \in 1..(n - k) : inner[i] = t[k + i]
           /\ \A i \in 1..(n - k) : inner[i] # ">"
  BY <1>1, OpenPiece
<1> HIDE DEF inner
<1>3. EndOf(u, k) = Len(u)
  <2>1. EndOf(t, k) > n /\ EndOf(t, k) \in Nat
    BY <1>1, <1>2, EndAfterTwo DEF Unended
  <2>2. ~(EndOf(t, k) <= n)
    BY <1>1, <2>1
  <2>3. QED
    BY <1>1, <1>2, <2>2, EndsTyped
<1>4. k \in Tags(u)
  BY <1>2, TagsLonger
<1>5. CallAt(u, k) <=> /\ inner[1] = "focus"
                       /\ Len(inner) >= 2 => inner[2] \notin Letters /\ inner[2] \in Blanks
  <2>1. u[k + 1] = inner[1]
    <3>1. 1 \in 1..(n - k) /\ k + 1 \in 1..n
      BY <1>1, <1>2
    <3>2. QED
      BY <1>1, <1>2, <3>1
  <2>2. k + 2 <= Len(u)
    BY <1>1, <1>2
  <2>3. CASE Len(inner) >= 2
    <3>1. 2 \in 1..(n - k) /\ k + 2 \in 1..n
      BY <1>1, <1>2, <2>3
    <3>2. u[k + 2] = inner[2] /\ inner[2] # ">"
      BY <1>1, <1>2, <3>1
    <3>3. QED
      BY <1>4, <2>1, <2>2, <2>3, <3>2 DEF CallAt
  <2>4. CASE ~(Len(inner) >= 2)
    <3>1. k + 2 = n + 1
      BY <1>1, <1>2, <2>4
    <3>2. u[k + 2] = ">" /\ ">" \notin Letters
      BY <1>1, <3>1 DEF Letters, Names
    <3>3. QED
      BY <1>4, <2>1, <2>2, <2>4, <3>2 DEF CallAt
  <2>5. QED
    BY <2>3, <2>4
<1>6. CallAt(u, k) <=> IsFocusCall(inner) /\ ~Unknown(inner)
  <2>1. Len(inner) >= 1
    BY <1>1, <1>2
  <2>2. QED
    BY <1>2, <1>5, <2>1, CallName
<1>7. TagEvent(inner, v).attempt <=> IsFocusCall(inner) /\ ~Unknown(inner)
  BY DEF TagEvent
<1>8. Cardinality(EndedCalls(u)) = Cardinality(EndedCalls(t)) + (IF CallAt(u, k) THEN 1 ELSE 0)
  BY <1>2, <1>3, CallsEnded
<1>9. QED
  BY <1>6, <1>7, <1>8 DEF inner

\* A tag given up at the limit ends a call exactly if its event is an attempt.
LEMMA CallsGivenUp ==
  ASSUME NEW t, NEW u, NEW c, Longer(t, u, c), c # ">", NEW b \in Seq(Chars), OpenIn(t, b),
         Len(b) > 1, Len(b) = MaxTagBuffer, NEW v
  PROVE  Cardinality(EndedCalls(u))
           = Cardinality(EndedCalls(t))
               + (IF UnclosedEvent(Append(Tail(b), c), v).attempt THEN 1 ELSE 0)
<1> DEFINE n == Len(t)
           tail == Tail(b)
           inner == Append(tail, c)
<1>1. /\ n \in Nat /\ Len(u) = n + 1 /\ u[n + 1] = c /\ (\A j \in 1..n : u[j] = t[j])
      /\ t \in Seq(Chars) /\ Len(u) \in Nat /\ c \in Chars
      /\ MaxTagBuffer \in Nat /\ MaxTagBuffer >= 2
  BY ParserAssumption DEF Longer
<1>2. PICK k \in Unended(t) :
           /\ Unended(t) = {k}
           /\ k \in Nat /\ k >= 1 /\ k < n /\ k \in Openings(t)
           /\ Len(b) = n - k + 1
           /\ tail \in Seq(Chars) /\ Len(tail) = n - k
           /\ \A i \in 1..(n - k) : tail[i] = t[k + i]
  BY <1>1, OpenPiece
<1>3. k + MaxTagBuffer = n + 1
  BY <1>1, <1>2
<1>4. EndOf(u, k) = Len(u) /\ k \notin Tags(u)
  <2>1. EndOf(t, k) > n /\ EndOf(t, k) \in Nat
    BY <1>1, <1>2, EndAfterTwo DEF Unended
  <2>2. ~(EndOf(t, k) <= n)
    BY <1>1, <2>1
  <2>3. EndOf(u, k) = Len(u)
    BY <1>1, <1>2, <1>3, <2>2, EndsTyped
  <2>4. QED
    BY <1>1, <2>3 DEF Tags
<1> HIDE DEF tail
<1>5. /\ inner \in Seq(Chars) /\ Len(inner) = n - k + 1 /\ inner[n - k + 1] = c
      /\ \A i \in 1..(n - k) : inner[i] = tail[i]
  <2>1. tail \in Seq(Chars) /\ c \in Chars /\ Len(tail) = n - k
    BY <1>1, <1>2
  <2>2. /\ inner \in Seq(Chars) /\ Len(inner) = Len(tail) + 1 /\ inner[Len(tail) + 1] = c
        /\ \A i \in 1..Len(tail) : inner[i] = tail[i]
    BY <2>1
  <2> HIDE DEF inner
  <2>3. QED
    BY <2>1, <2>2
<1> HIDE DEF inner
<1>6. Len(inner) >= 2 /\ u[k + 1] = inner[1] /\ u[k + 2] = inner[2] /\ k + 2 <= Len(u)
  <2>1. Len(inner) >= 2 /\ k + 2 <= Len(u)
    BY <1>1, <1>2, <1>5
  <2>2. 1 \in 1..(n - k) /\ k + 1 \in 1..n
    BY <1>1, <1>2
  <2>3. u[k + 1] = inner[1]
    BY <1>1, <1>2, <1>5, <2>2
  <2>4. CASE n - k >= 2
    <3>1. 2 \in 1..(n - k) /\ k + 2 \in 1..n
      BY <1>1, <1>2, <2>4
    <3>2. QED
      BY <1>1, <1>2, <1>5, <2>1, <2>3, <3>1
  <2>5. CASE ~(n - k >= 2)
    <3>1. n - k + 1 = 2 /\ k + 2 = n + 1
      BY <1>1, <1>2, <2>5
    <3>2. QED
      BY <1>1, <1>5, <2>1, <2>3, <3>1
  <2>6. QED
    BY <2>4, <2>5
<1>7. CallAt(u, k) <=> IsFocusCall(inner)
  <2>1. CallAt(u, k) <=> inner[1] = "focus" /\ inner[2] \notin Letters
    BY <1>4, <1>6 DEF CallAt
  <2>2. IsFocusCall(inner) <=> inner[1] = "focus" /\ inner[2] \notin Letters
    <3>1. Len(inner) >= 1
      BY <1>1, <1>2, <1>5
    <3>2. QED
      BY <1>5, <1>6, <3>1, CallName
  <2>3. QED
    BY <2>1, <2>2
<1>8. UnclosedEvent(inner, v).attempt <=> IsFocusCall(inner)
  BY DEF UnclosedEvent
<1>9. Cardinality(EndedCalls(u)) = Cardinality(EndedCalls(t)) + (IF CallAt(u, k) THEN 1 ELSE 0)
  BY <1>2, <1>4, CallsEnded
<1>10. QED
  BY <1>7, <1>8, <1>9 DEF inner, tail

\* At the end of the text, the open tag is a call exactly if the event of flush is an attempt.
LEMMA CallsCut ==
  ASSUME NEW t \in Seq(Chars), NEW b \in Seq(Chars), OpenIn(t, b), NEW v
  PROVE  Cardinality(FocusCalls(t))
           = Cardinality(EndedCalls(t))
               + (IF b # <<>> /\ UnclosedEvent(Tail(b), v).attempt THEN 1 ELSE 0)
<1> DEFINE n == Len(t)
           inner == Tail(b)
<1>1. n \in Nat
  OBVIOUS
<1>2. IsFiniteSet(EndedCalls(t)) /\ Cardinality(EndedCalls(t)) \in Nat
  BY <1>1, CallsFinite, FS_CardinalityType
<1>3. \A k \in FocusCalls(t) : k \in EndedCalls(t) \/ k \in Unended(t)
  <2>1. ASSUME NEW k \in FocusCalls(t) PROVE k \in EndedCalls(t) \/ k \in Unended(t)
    <3>1. k \in Openings(t)
      BY DEF FocusCalls
    <3>2. EndOf(t, k) \in Nat
      BY <1>1, <3>1, EndAfterTwo
    <3>3. QED
      BY <1>1, <3>1, <3>2 DEF EndedCalls, Unended
  <2>2. QED
    BY <2>1
<1>4. \A k \in EndedCalls(t) : k \in FocusCalls(t) /\ k \notin Unended(t)
  <2>1. ASSUME NEW k \in EndedCalls(t) PROVE k \in FocusCalls(t) /\ k \notin Unended(t)
    <3>1. k \in FocusCalls(t) /\ k \in Openings(t) /\ EndOf(t, k) <= n
      BY DEF EndedCalls, FocusCalls
    <3>2. EndOf(t, k) \in Nat
      BY <1>1, <3>1, EndAfterTwo
    <3>3. QED
      BY <1>1, <3>1, <3>2 DEF Unended
  <2>2. QED
    BY <2>1
<1>5. UnclosedEvent(inner, v).attempt <=> IsFocusCall(inner)
  BY DEF UnclosedEvent
<1>6. Len(b) \in Nat /\ (b = <<>> <=> Len(b) = 0)
  OBVIOUS
<1>7. CASE Unended(t) = {}
  <2>1. FocusCalls(t) = EndedCalls(t)
    BY <1>3, <1>4, <1>7
  <2>2. b # <<>> => ~IsFocusCall(inner)
    <3>1. SUFFICES ASSUME b # <<>> PROVE ~IsFocusCall(inner)
      OBVIOUS
    <3>2. Len(b) = 1
      <4>1. ~(Len(b) > 1)
        BY <1>7 DEF OpenIn
      <4>2. Len(b) # 0
        BY <1>6, <3>1
      <4>3. PICK m \in Nat : m = Len(b)
        BY <1>6
      <4>4. m = 1
        BY <4>1, <4>2, <4>3
      <4>5. QED
        BY <4>3, <4>4
    <3>3. inner \in Seq(Chars) /\ Len(inner) = 0
      BY <3>1, <3>2
    <3> HIDE DEF inner
    <3>4. inner = Body(inner) /\ ~Named(inner)
      BY <3>3 DEF Body, Closing, Named
    <3>5. NameOf(inner) \in {"", "word"}
      BY <3>3, <3>4, NameIs
    <3>6. QED
      BY <3>5 DEF IsFocusCall
  <2>3. QED
    BY <1>2, <1>5, <2>1, <2>2
<1>8. CASE Unended(t) # {}
  <2>1. Len(b) > 1
    <3>1. Fresh(t) => Unended(t) = {}
      <4>1. \A k \in Openings(t) : EndOf(t, k) \in Nat
        BY <1>1, EndAfterTwo
      <4>2. QED
        BY <1>1, <4>1 DEF Fresh, Unended
    <3>2. Len(b) # 0 /\ Len(b) # 1
      BY <1>6, <1>8, <3>1 DEF OpenIn
    <3>3. QED
      BY <1>6, <3>2
  <2>2. PICK k \in Unended(t) :
           /\ Unended(t) = {k}
           /\ k \in Nat /\ k >= 1 /\ k < n /\ k \in Openings(t)
           /\ inner \in Seq(Chars) /\ Len(inner) = n - k
           /\ \A i \in 1..(n - k) : inner[i] = t[k + i]
    BY <2>1, OpenPiece
  <2> HIDE DEF inner
  <2>3. k \notin Tags(t)
    <3>1. EndOf(t, k) > n /\ EndOf(t, k) \in Nat
      BY <1>1, <2>2, EndAfterTwo DEF Unended
    <3>2. QED
      BY <1>1, <3>1 DEF Tags
  <2>4. CallAt(t, k) <=> inner[1] = "focus" /\ (Len(inner) >= 2 => inner[2] \notin Letters)
    <3>1. t[k + 1] = inner[1]
      <4>1. 1 \in 1..(n - k)
        BY <1>1, <2>2
      <4>2. QED
        BY <2>2, <4>1
    <3>2. k + 2 <= n <=> Len(inner) >= 2
      BY <1>1, <2>2
    <3>3. Len(inner) >= 2 => t[k + 2] = inner[2]
      <4>1. Len(inner) >= 2 => 2 \in 1..(n - k)
        BY <1>1, <2>2
      <4>2. QED
        BY <2>2, <4>1
    <3>4. QED
      BY <2>3, <3>1, <3>2, <3>3 DEF CallAt
  <2>5. CallAt(t, k) <=> IsFocusCall(inner)
    <3>1. Len(inner) >= 1
      BY <1>1, <2>2
    <3>2. QED
      BY <2>2, <2>4, <3>1, CallName
  <2>6. k \in FocusCalls(t) <=> IsFocusCall(inner)
    BY <2>2, <2>5, CallsAre
  <2>7. k \notin EndedCalls(t)
    BY <1>4
  <2>8. Cardinality(EndedCalls(t) \cup {k}) = Cardinality(EndedCalls(t)) + 1
    BY <1>2, <2>7, FS_AddElement
  <2>9. FocusCalls(t) = IF IsFocusCall(inner) THEN EndedCalls(t) \cup {k} ELSE EndedCalls(t)
    <3>1. ASSUME NEW i
          PROVE  i \in FocusCalls(t) <=> i \in EndedCalls(t) \/ (i = k /\ IsFocusCall(inner))
      BY <1>3, <1>4, <2>2, <2>6, Zenon
    <3>2. QED
      BY <3>1, Zenon
  <2>10. b # <<>>
    BY <1>6, <2>1
  <2>11. CASE IsFocusCall(inner)
    <3>1. FocusCalls(t) = EndedCalls(t) \cup {k}
      BY <2>9, <2>11
    <3>2. QED
      BY <1>5, <2>8, <2>10, <2>11, <3>1 DEF inner
  <2>12. CASE ~IsFocusCall(inner)
    <3>1. FocusCalls(t) = EndedCalls(t)
      BY <2>9, <2>12
    <3>2. QED
      BY <1>2, <1>5, <2>12, <3>1 DEF inner
  <2>13. QED
    BY <2>11, <2>12
<1>9. QED
  BY <1>7, <1>8

-----------------------------------------------------------------------------
(* Parser and trace agree with each other. *)

\* A closed tag turns a good view into a good one, and an anomaly keeps it.
LEMMA AfterTagFacts ==
  ASSUME NEW inner, NEW v \in View, WellFormed(v)
  PROVE  /\ AfterTag(inner, v) \in View
         /\ WellFormed(AfterTag(inner, v))
         /\ Void(inner, v) => AfterTag(inner, v) = v
<1>1. CASE Void(inner, v)
  BY <1>1 DEF AfterTag
<1>2. CASE ~Void(inner, v)
  <2>1. AfterTag(inner, v) = Declared(inner, v)
    BY <1>2 DEF AfterTag
  <2>2. GlobalView \in View /\ WellFormed(GlobalView)
    BY DEF GlobalView, View, WellFormed
  <2>3. LocalView \in View /\ WellFormed(LocalView)
    BY DEF LocalView, View, WellFormed
  <2>4. NameOf(inner) \in Names
    BY <1>2 DEF Void, Unknown
  <2>5. CASE IsFocusCall(inner)
    <3>1. GoodFocus(inner)
      BY <1>2, <2>5 DEF Void
    <3>2. Pairs(inner) # {}
      BY <3>1, FS_EmptySet DEF GoodFocus
    <3>3. PICK a \in Given(inner) : TRUE
      BY <3>2 DEF Given
    <3>4. Refs(inner) # {}
      <4>1. a \in Lists /\ RefsOf[a] # {}
        BY <3>1, <3>3, ParserAssumption DEF GoodFocus
      <4>2. QED
        BY <3>3, <4>1 DEF Refs
    <3>5. FocusView(Refs(inner)) \in View
      BY <3>1 DEF GoodFocus, ValidRefs, FocusView, View
    <3>6. WellFormed(FocusView(Refs(inner)))
      BY <3>4 DEF FocusView, WellFormed
    <3>7. Declared(inner, v) = FocusView(Refs(inner))
      BY <2>5 DEF IsFocusCall, Declared
    <3>8. QED
      BY <1>2, <2>1, <3>5, <3>6, <3>7
  <2>6. CASE ~IsFocusCall(inner)
    <3>1. Declared(inner, v) \in {v, GlobalView, LocalView}
      BY <2>4, <2>6 DEF IsFocusCall, Declared, Names
    <3>2. QED
      BY <1>2, <2>1, <2>2, <2>3, <3>1
  <2>7. QED
    BY <2>5, <2>6
<1>3. QED
  BY <1>1, <1>2

\* The event of a closed tag and that of an unclosed one.
LEMMA EventFacts ==
  ASSUME NEW inner, NEW v \in View, WellFormed(v)
  PROVE  /\ \A e \in {TagEvent(inner, v), UnclosedEvent(inner, v)} :
              /\ e \in Event
              /\ WellFormed(e.after)
              /\ e.anomaly => e.before = e.after
         /\ UnclosedEvent(inner, v).anomaly /\ UnclosedEvent(inner, v).after = v
<1>1. Void(inner, v) \in BOOLEAN /\ IsFocusCall(inner) \in BOOLEAN
      /\ (IsFocusCall(inner) /\ ~Unknown(inner)) \in BOOLEAN
  BY Zenon DEF Void, IsFocusCall
<1>2. TagEvent(inner, v) \in Event
  BY <1>1, AfterTagFacts DEF TagEvent, Event
<1>3. UnclosedEvent(inner, v) \in Event
  BY <1>1 DEF UnclosedEvent, Event
<1>4. WellFormed(TagEvent(inner, v).after)
      /\ (TagEvent(inner, v).anomaly => TagEvent(inner, v).before = TagEvent(inner, v).after)
  BY AfterTagFacts DEF TagEvent
<1>5. UnclosedEvent(inner, v).anomaly /\ UnclosedEvent(inner, v).after = v
      /\ UnclosedEvent(inner, v).before = v
  BY DEF UnclosedEvent
<1>6. QED
  BY <1>2, <1>3, <1>4, <1>5

\* The decoder gives characters.
LEMMA CharTyped ==
  ASSUME TypeOK, Consume
  PROVE  /\ Char \in Chars
         /\ rest' \in Seq(Bytes) /\ pending' \in BOOLEAN
<1>1. Head(rest) \in Bytes /\ Tail(rest) \in Seq(Bytes)
  BY DEF TypeOK, Consume
<1>2. Char \in Chars
  BY <1>1 DEF Char, Multibyte, Bytes, Chars
<1>3. QED
  BY <1>1, <1>2 DEF TypeOK, Consume

\* One element more in a sequence is one element more in its set.
LEMMA AppendToSet ==
  ASSUME NEW S, NEW s \in Seq(S), NEW e \in S
  PROVE  /\ Append(s, e) \in Seq(S)
         /\ ToSet(Append(s, e)) = ToSet(s) \cup {e}
<1>1. /\ Append(s, e) \in Seq(S)
      /\ DOMAIN Append(s, e) = DOMAIN s \cup {Len(s) + 1}
      /\ \A i \in DOMAIN s : Append(s, e)[i] = s[i]
      /\ Append(s, e)[Len(s) + 1] = e
  OBVIOUS
<1>2. QED
  BY <1>1 DEF ToSet

\* The first element stays when one is appended.
LEMMA AppendLonger ==
  ASSUME NEW S, NEW s \in Seq(S), NEW e \in S, s # <<>>
  PROVE  /\ Len(Append(s, e)) = Len(s) + 1
         /\ Append(s, e)[1] = s[1]
  OBVIOUS

\* The empty sequence has no elements.
LEMMA EmptyToSet == ToSet(<<>>) = {}
  BY DEF ToSet

\* A new request.
LEMMA InitTrace == Init => TraceInv
<1> SUFFICES ASSUME Init PROVE TraceInv
  OBVIOUS
<1> USE DEF Init
<1>1. TypeOK
  <2>1. view \in View
    BY DEF GlobalView, View
  <2>2. \A S : <<>> \in Seq(S)
    OBVIOUS
  <2>3. QED
    BY <2>1, <2>2 DEF TypeOK
<1>2. TracedEvents = {} /\ ToSet(anomalies) = {}
  BY EmptyToSet DEF TracedEvents
<1>3. AnomalyKeepsView /\ AnomaliesTraced
  BY <1>2 DEF AnomalyKeepsView, AnomaliesTraced
<1>4. InvBetween /\ BufferIsOpenTag /\ FocusIsValid
  BY EmptyToSet, ParserAssumption
     DEF InvBetween, BufferIsOpenTag, FocusIsValid, WellFormed, GlobalView
<1>5. QED
  BY <1>1, <1>3, <1>4 DEF TraceInv

\* A character that raises no event.
LEMMA SilentTrace ==
  ASSUME TraceInv, Consume, Silent,
         plain' \in Seq(Chars), buf' \in Seq(Chars), BufferIsOpenTag'
  PROVE  TraceInv'
<1> USE DEF TraceInv
<1>1. TypeOK'
  BY CharTyped DEF TypeOK, Consume, Silent
<1>2. InvBetween'
  BY DEF InvBetween, Consume, Silent
<1>3. TracedEvents' = TracedEvents /\ anomalies' = anomalies
  BY DEF TracedEvents, Consume, Silent
<1>4. FocusIsValid' /\ AnomalyKeepsView' /\ AnomaliesTraced'
  BY <1>3 DEF FocusIsValid, WellFormed, AnomalyKeepsView, AnomaliesTraced, Consume, Silent
<1>5. QED
  BY <1>1, <1>2, <1>4

\* A character that raises one.
LEMMA RaiseTrace ==
  ASSUME TraceInv, Consume, NEW e \in Event, Raise(e),
         WellFormed(e.after), e.anomaly => e.before = e.after,
         plain' \in Seq(Chars), buf' = <<>>
  PROVE  TraceInv'
<1> USE DEF TraceInv
<1>1. e.after \in View /\ e.anomaly \in BOOLEAN
  BY DEF Event
<1>2. TypeOK'
  <2>1. anomalies' \in Seq(Event) /\ events' \in Seq(Event)
    BY AppendToSet DEF TypeOK, Raise
  <2>2. QED
    BY <1>1, <2>1, CharTyped DEF TypeOK, Consume, Raise
<1>3. InvBetween'
  BY DEF InvBetween, Consume
<1>4. BufferIsOpenTag'
  BY EmptyToSet, ParserAssumption DEF BufferIsOpenTag
<1>5. FocusIsValid'
  BY DEF FocusIsValid, WellFormed, Consume, Raise
<1>6. TracedEvents' = TracedEvents \cup {e}
  <2>1. ToSet(events') = ToSet(events) \cup {e}
    BY AppendToSet DEF TypeOK, Raise
  <2>2. QED
    BY <2>1 DEF TracedEvents, Consume
<1>7. AnomalyKeepsView'
  BY <1>6 DEF AnomalyKeepsView
<1>8. AnomaliesTraced'
  <2>1. ToSet(anomalies') = IF e.anomaly THEN ToSet(anomalies) \cup {e} ELSE ToSet(anomalies)
    <3>1. anomalies \in Seq(Event)
      BY DEF TypeOK
    <3>2. ToSet(Append(anomalies, e)) = ToSet(anomalies) \cup {e}
      BY <3>1, AppendToSet
    <3>3. anomalies' = IF e.anomaly THEN Append(anomalies, e) ELSE anomalies
      BY DEF Raise
    <3>4. QED
      BY <3>2, <3>3, <1>1
  <2>2. {x \in TracedEvents' : x.anomaly}
          = IF e.anomaly THEN {x \in TracedEvents : x.anomaly} \cup {e}
                         ELSE {x \in TracedEvents : x.anomaly}
    BY <1>6
  <2>3. QED
    BY <2>1, <2>2 DEF AnomaliesTraced
<1>9. QED
  BY <1>2, <1>3, <1>4, <1>5, <1>7, <1>8

\* One branch of _feed_char after the other.
LEMMA FeedTrace == TraceInv /\ FeedChar => TraceInv'
<1> SUFFICES ASSUME TraceInv, FeedChar PROVE TraceInv'
  OBVIOUS
<1>a. TypeOK /\ BufferIsOpenTag /\ view \in View /\ WellFormed(view)
      /\ buf \in Seq(Chars) /\ plain \in Seq(Chars)
  BY DEF TraceInv, TypeOK, FocusIsValid
<1>b. Consume
  BY DEF FeedChar, PlainChar, OpenBuffer, StartTag, NotATag, Extend, CloseTag, Overflow
<1>c. Char \in Chars /\ "<" \in Chars /\ closed' = closed /\ closed = FALSE
  BY <1>a, <1>b, CharTyped DEF Chars, Consume, TraceInv, InvBetween, TypeOK
<1>1. CASE PlainChar
  BY <1>1, <1>a, <1>b, <1>c, SilentTrace DEF PlainChar, BufferIsOpenTag, ToSet
<1>2. CASE OpenBuffer
  BY <1>2, <1>a, <1>b, <1>c, SilentTrace, ParserAssumption
     DEF OpenBuffer, BufferIsOpenTag, ToSet
<1>3. CASE StartTag
  <2>1. buf' \in Seq(Chars) /\ ToSet(buf') = ToSet(buf) \cup {Char}
    BY <1>3, <1>a, <1>c, AppendToSet DEF StartTag
  <2>2. Char # ">"
    BY <1>3 DEF StartTag, Letters, Names
  <2>3. BufferIsOpenTag'
    <3>1. Len(buf) = 1 /\ buf' = Append(buf, Char)
      BY <1>3 DEF StartTag
    <3>2. Len(buf') = 2 /\ buf'[1] = buf[1] /\ buf # <<>>
      <4>1. buf \in Seq(Chars) /\ Char \in Chars
        BY <1>a, <1>c
      <4>2. buf # <<>>
        BY <3>1
      <4>3. Len(buf') = Len(buf) + 1 /\ buf'[1] = buf[1]
        BY <3>1, <4>1, <4>2, AppendLonger
      <4>4. QED
        BY <3>1, <4>2, <4>3
    <3>3. QED
      BY <3>2, <1>a, <1>c, <2>1, <2>2, ParserAssumption DEF BufferIsOpenTag
  <2>4. QED
    BY <1>3, <1>a, <1>b, <2>1, <2>3, SilentTrace DEF StartTag
<1>4. CASE NotATag
  <2>1. buf' \in {<<>>, <<"<">>} /\ plain' \in Seq(Chars)
    <3>1. plain \o <<"<", Char>> \in Seq(Chars) /\ Append(plain, "<") \in Seq(Chars)
      BY <1>a, <1>c
    <3>2. QED
      BY <1>4, <3>1 DEF NotATag, Restart
  <2>2. BufferIsOpenTag' /\ buf' \in Seq(Chars)
    <3>1. CASE buf' = <<>>
      BY <3>1, EmptyToSet, ParserAssumption DEF BufferIsOpenTag
    <3>2. CASE buf' = <<"<">>
      <4>1. Len(buf') = 1 /\ buf'[1] = "<" /\ ToSet(buf') = {"<"}
        BY <3>2 DEF ToSet
      <4>2. QED
        BY <3>2, <4>1, <1>c, ParserAssumption DEF BufferIsOpenTag
    <3>3. QED
      BY <2>1, <3>1, <3>2
  <2>3. QED
    BY <1>4, <1>b, <2>1, <2>2, SilentTrace DEF NotATag
<1>5. CASE Extend
  <2>1. buf' \in Seq(Chars) /\ ToSet(buf') = ToSet(buf) \cup {Char}
    BY <1>5, <1>a, <1>c, AppendToSet DEF Extend
  <2>2. BufferIsOpenTag'
    BY <1>5, <1>a, <1>c, <2>1, ParserAssumption DEF Extend, Overflows, BufferIsOpenTag
  <2>3. QED
    BY <1>5, <1>a, <1>b, <2>1, <2>2, SilentTrace DEF Extend
<1>6. CASE CloseTag
  <2>. DEFINE e == TagEvent(Tail(buf), view)
  <2>1. e \in Event /\ WellFormed(e.after) /\ (e.anomaly => e.before = e.after)
    BY <1>a, EventFacts
  <2>2. Raise(e) /\ plain' \in Seq(Chars) /\ buf' = <<>>
    BY <1>6, <1>a DEF CloseTag
  <2>3. QED
    BY <1>b, <2>1, <2>2, RaiseTrace
<1>7. CASE Overflow
  <2>. DEFINE e == UnclosedEvent(Append(Tail(buf), Char), view)
  <2>1. e \in Event /\ WellFormed(e.after) /\ (e.anomaly => e.before = e.after)
    BY <1>a, EventFacts
  <2>2. Raise(e) /\ plain' \in Seq(Chars) /\ buf' = <<>>
    BY <1>7, <1>a, <1>c DEF Overflow, GivenUp
  <2>3. QED
    BY <1>b, <2>1, <2>2, RaiseTrace
<1>8. QED
  BY <1>1, <1>2, <1>3, <1>4, <1>5, <1>6, <1>7 DEF FeedChar

\* A token begins, or its lead byte is held back.
LEMMA SampleTrace ==
  TraceInv /\ (HoldLead \/ \E tok \in Tokens : Sample(tok)) => TraceInv'
<1> SUFFICES ASSUME TraceInv, HoldLead \/ \E tok \in Tokens : Sample(tok)
             PROVE  TraceInv'
  OBVIOUS
<1>1. UNCHANGED <<view, buf, plain, anomalies, events, steps, flushEvents, closed>>
  BY DEF HoldLead, Sample, parserVars
<1>2. TypeOK'
  <2>1. CASE HoldLead
    BY <2>1 DEF TraceInv, TypeOK, HoldLead, parserVars
  <2>2. CASE \E tok \in Tokens : Sample(tok)
    BY <2>2, VocabularyAssumption DEF TraceInv, TypeOK, Sample, parserVars
  <2>3. QED
    BY <2>1, <2>2
<1>3. InvBetween'
  BY DEF TraceInv, InvBetween, TypeOK, HoldLead, Sample, parserVars
<1>4. TracedEvents' = TracedEvents
  BY <1>1 DEF TracedEvents
<1>5. BufferIsOpenTag' /\ FocusIsValid' /\ AnomalyKeepsView' /\ AnomaliesTraced'
  BY <1>1, <1>4 DEF TraceInv, BufferIsOpenTag, FocusIsValid, WellFormed,
                    AnomalyKeepsView, AnomaliesTraced
<1>6. QED
  BY <1>2, <1>3, <1>5 DEF TraceInv

\* The events of the token move into its record.
LEMMA EndTokenTrace == TraceInv /\ EndToken => TraceInv'
<1> SUFFICES ASSUME TraceInv, EndToken PROVE TraceInv'
  OBVIOUS
<1> DEFINE r == [view |-> view, events |-> events]
<1>1. r \in StepRecord /\ steps \in Seq(StepRecord) /\ steps' = Append(steps, r)
  BY DEF TraceInv, TypeOK, StepRecord, EndToken, Recorded
<1>2. TypeOK'
  <2>1. steps' \in Seq(StepRecord) /\ events' \in Seq(Event) /\ feeding' \in BOOLEAN
    <3>1. Append(steps, r) \in Seq(StepRecord)
      BY <1>1
    <3>2. events' = <<>> /\ feeding' = FALSE
      BY DEF EndToken
    <3>3. steps' \in Seq(StepRecord)
      BY <1>1, <3>1
    <3>4. <<>> \in Seq(Event)
      OBVIOUS
    <3>5. QED
      BY <3>2, <3>3, <3>4
  <2>2. QED
    BY <2>1 DEF TraceInv, TypeOK, EndToken, parserVars
<1>3. InvBetween'
  BY DEF TraceInv, InvBetween, EndToken, TypeOK
<1>4. /\ DOMAIN steps' = DOMAIN steps \cup {Len(steps) + 1}
      /\ \A t \in DOMAIN steps : steps'[t] = steps[t]
      /\ steps'[Len(steps) + 1] = r
  BY <1>1
<1>5. TracedEvents' = TracedEvents
  <2>1. UNION {ToSet(steps'[t].events) : t \in DOMAIN steps'}
          = (UNION {ToSet(steps[t].events) : t \in DOMAIN steps}) \cup ToSet(events)
    BY <1>4
  <2>2. ToSet(events') = {} /\ flushEvents' = flushEvents
    BY EmptyToSet DEF EndToken
  <2>3. QED
    BY <2>1, <2>2 DEF TracedEvents
<1>6. BufferIsOpenTag' /\ AnomalyKeepsView' /\ AnomaliesTraced'
  BY <1>5 DEF TraceInv, BufferIsOpenTag, AnomalyKeepsView, AnomaliesTraced,
              EndToken, parserVars
<1>7. FocusIsValid'
  BY <1>4 DEF TraceInv, FocusIsValid, WellFormed, EndToken, parserVars
<1>8. QED
  BY <1>2, <1>3, <1>6, <1>7 DEF TraceInv

\* The open tag at the end becomes an event of the trace.
LEMMA FinishTrace == TraceInv /\ Finish => TraceInv'
<1> SUFFICES ASSUME TraceInv, Finish PROVE TraceInv'
  OBVIOUS
<1> DEFINE e == UnclosedEvent(Tail(buf), view)
<1>1. e \in Event /\ e.anomaly /\ e.before = e.after
  BY EventFacts DEF TraceInv, TypeOK, FocusIsValid
<1>2. TypeOK'
  <2>1. anomalies' \in Seq(Event) /\ flushEvents' \in Seq(Event)
    BY <1>1, AppendToSet DEF TraceInv, TypeOK, Finish, Flushed
  <2>2. QED
    <3>1. plain' \in Seq(Chars) /\ buf' \in Seq(Chars)
      BY DEF TraceInv, TypeOK, Finish
    <3>2. leftover' \in {<<>>, <<"text">>} /\ pending' \in BOOLEAN /\ closed' \in BOOLEAN
      BY DEF Finish
    <3>3. UNCHANGED <<view, feeding, rest, events, steps, stream>>
      BY DEF Finish
    <3>4. QED
      BY <2>1, <3>1, <3>2, <3>3 DEF TraceInv, TypeOK
<1>3. InvBetween'
  BY DEF TraceInv, InvBetween, Finish
<1>4. BufferIsOpenTag' /\ FocusIsValid'
  BY EmptyToSet, ParserAssumption
     DEF TraceInv, BufferIsOpenTag, FocusIsValid, WellFormed, Finish
<1>5. flushEvents = <<>>
  BY DEF TraceInv, InvBetween, Finish
<1>6. TracedEvents' = IF buf = <<>> THEN TracedEvents ELSE TracedEvents \cup {e}
  <2>1. ToSet(flushEvents') = IF buf = <<>> THEN {} ELSE {e}
    BY DEF Finish, Flushed, ToSet
  <2>2. ToSet(flushEvents) = {}
    BY <1>5, EmptyToSet
  <2>3. QED
    BY <2>1, <2>2 DEF TracedEvents, Finish
<1>7. ToSet(anomalies') = IF buf = <<>> THEN ToSet(anomalies) ELSE ToSet(anomalies) \cup {e}
  <2>1. anomalies \in Seq(Event)
    BY DEF TraceInv, TypeOK
  <2>2. ToSet(Append(anomalies, e)) = ToSet(anomalies) \cup {e}
    BY <1>1, <2>1, AppendToSet
  <2>3. anomalies' = IF buf = <<>> THEN anomalies ELSE Append(anomalies, e)
    BY DEF Finish
  <2>4. QED
    BY <2>2, <2>3
<1>8. AnomalyKeepsView' /\ AnomaliesTraced'
  <2>1. {x \in TracedEvents' : x.anomaly}
          = IF buf = <<>> THEN {x \in TracedEvents : x.anomaly}
                          ELSE {x \in TracedEvents : x.anomaly} \cup {e}
    BY <1>1, <1>6
  <2>2. AnomaliesTraced'
    BY <1>7, <2>1 DEF TraceInv, AnomaliesTraced
  <2>3. AnomalyKeepsView'
    BY <1>1, <1>6 DEF TraceInv, AnomalyKeepsView
  <2>4. QED
    BY <2>2, <2>3
<1>9. QED
  BY <1>2, <1>3, <1>4, <1>8 DEF TraceInv

-----------------------------------------------------------------------------
(* What the decoder has taken and given. *)

\* f is everything before the end r.
LEMMA FrontIs ==
  ASSUME NEW V, NEW f \in Seq(V), NEW r \in Seq(V), NEW a, a = f \o r
  PROVE  SubSeq(a, 1, Len(a) - Len(r)) = f
<1>1. a \in Seq(V) /\ Len(a) = Len(f) + Len(r) /\ Len(f) \in Nat /\ Len(r) \in Nat
      /\ \A i \in 1..Len(f) : a[i] = f[i]
  OBVIOUS
<1>2. Len(a) - Len(r) = Len(f) /\ Len(f) \in 0..Len(a)
  BY <1>1
<1>3. PICK m \in 0..Len(a) : m = Len(f) /\ m = Len(a) - Len(r)
  BY <1>2
<1>4. /\ SubSeq(a, 1, m) \in Seq(V) /\ Len(SubSeq(a, 1, m)) = m
      /\ \A j \in 1..m : SubSeq(a, 1, m)[j] = a[j]
  BY <1>1, PrefixFacts
<1>5. SubSeq(a, 1, m) = f
  BY <1>1, <1>3, <1>4, SeqEqual
<1>6. QED
  BY <1>3, <1>5

\* The bytes and characters of the decoder.
LEMMA DecoderTypes ==
  ASSUME TypeOK, Sampled = Fed \o rest
  PROVE  /\ stream \in Seq(Seq(Bytes)) /\ Sampled \in Seq(Bytes) /\ Fed \in Seq(Bytes)
         /\ rest \in Seq(Bytes)
         /\ Decode(Fed) \in Seq(Chars) /\ Heard \in Seq(Chars)
<1>1. stream \in Seq(Seq(Bytes)) /\ rest \in Seq(Bytes)
  <2>1. \A i \in 1..Len(stream) : stream[i] \in Seq(Bytes)
    BY VocabularyAssumption DEF TypeOK
  <2>2. QED
    BY <2>1 DEF TypeOK
<1>2. Sampled \in Seq(Bytes)
  BY <1>1, FlattenTyped DEF Sampled
<1>3. Fed \in Seq(Bytes)
  <2>1. Len(Sampled) \in Nat /\ Len(rest) \in Nat
    BY <1>1, <1>2
  <2>2. PICK m \in Int : m = Len(Sampled) - Len(rest) /\ m <= Len(Sampled)
    BY <2>1
  <2>3. \A i \in 1..m : i \in 1..Len(Sampled)
    BY <2>1, <2>2
  <2>4. \A i \in 1..m : Sampled[i] \in Bytes
    BY <1>2, <2>3
  <2>5. SubSeq(Sampled, 1, m) \in Seq(Bytes)
    BY <1>2, <2>1, <2>2, <2>4
  <2>6. QED
    BY <2>2, <2>5 DEF Fed
<1>4. Decode(Fed) \in Seq(Chars)
  BY <1>3, DecodeIs
<1>5. "text" \in Chars
  BY DEF Chars
<1>6. QED
  BY <1>1, <1>2, <1>3, <1>4, <1>5 DEF Heard

\* What is appended is the last element.
LEMMA EndsWith ==
  ASSUME NEW V, NEW s \in Seq(V), NEW e \in V
  PROVE  /\ Append(s, e) \in Seq(V) /\ Len(Append(s, e)) = Len(s) + 1
         /\ Append(s, e)[Len(Append(s, e))] = e /\ Append(s, e) # <<>>
<1>1. /\ Append(s, e) \in Seq(V) /\ Len(Append(s, e)) = Len(s) + 1
      /\ Append(s, e)[Len(s) + 1] = e /\ Len(s) \in Nat
  OBVIOUS
<1>2. Append(s, e) # <<>>
  BY <1>1
<1>3. QED
  BY <1>1, <1>2

\* Taking one byte more.
LEMMA TakeByte ==
  ASSUME TypeOK, Sampled = Fed \o rest, rest # <<>>, stream' = stream, rest' = Tail(rest)
  PROVE  /\ Fed' = Append(Fed, Head(rest)) /\ Sampled' = Fed' \o rest'
         /\ Head(rest) \in Bytes
         /\ EndsInLead(Fed') <=> Head(rest) = "lead"
<1>1. Fed \in Seq(Bytes) /\ rest \in Seq(Bytes) /\ Sampled' = Sampled
  BY DecoderTypes DEF Sampled
<1>2. Head(rest) \in Bytes /\ Tail(rest) \in Seq(Bytes)
  BY <1>1
<1> DEFINE f == Append(Fed, Head(rest))
<1>3. f \in Seq(Bytes) /\ Len(f) = Len(Fed) + 1 /\ f[Len(f)] = Head(rest) /\ f # <<>>
  BY <1>1, <1>2, EndsWith
<1>4. f \o Tail(rest) = Fed \o rest
  <2>1. f \o Tail(rest) \in Seq(Bytes) /\ Fed \o rest \in Seq(Bytes)
        /\ Len(f \o Tail(rest)) = Len(Fed \o rest)
    BY <1>1, <1>2
  <2>2. ASSUME NEW i \in 1..Len(Fed \o rest) PROVE (f \o Tail(rest))[i] = (Fed \o rest)[i]
    <3>1. Len(Fed) \in Nat /\ Len(rest) \in Nat /\ Len(rest) >= 1
          /\ Len(Fed \o rest) = Len(Fed) + Len(rest) /\ Len(Tail(rest)) = Len(rest) - 1
      BY <1>1
    <3>2. CASE i <= Len(Fed)
      BY <1>1, <1>2, <3>1, <3>2
    <3>3. CASE i = Len(Fed) + 1
      BY <1>1, <1>2, <3>1, <3>3
    <3>4. CASE i > Len(Fed) + 1
      <4>1. i - Len(Fed) - 1 \in 1..Len(Tail(rest)) /\ (i - Len(Fed) - 1) + 1 = i - Len(Fed)
        BY <3>1, <3>4
      <4>2. (f \o Tail(rest))[i] = Tail(rest)[i - Len(Fed) - 1]
        <5>1. Len(f) = Len(Fed) + 1 /\ f \in Seq(Bytes)
          BY <1>3
        <5>2. i > Len(f) /\ i <= Len(f) + Len(Tail(rest)) /\ i - Len(f) = i - Len(Fed) - 1
          BY <3>1, <3>4, <5>1
        <5> HIDE DEF f
        <5>3. (f \o Tail(rest))[i] = Tail(rest)[i - Len(f)]
          BY <1>2, <5>1, <5>2
        <5>4. QED
          BY <5>2, <5>3
      <4>3. Tail(rest)[i - Len(Fed) - 1] = rest[(i - Len(Fed) - 1) + 1]
        BY <1>1, <4>1
      <4>4. (Fed \o rest)[i] = rest[i - Len(Fed)]
        BY <1>1, <3>1, <3>4
      <4>5. QED
        BY <4>1, <4>2, <4>3, <4>4
    <3>5. QED
      BY <3>1, <3>2, <3>3, <3>4
  <2> HIDE DEF f
  <2>3. QED
    BY <2>1, <2>2, SeqEqual
<1> HIDE DEF f
<1>5. Fed' = f
  <2>1. Fed' = SubSeq(Sampled, 1, Len(Sampled) - Len(Tail(rest)))
    BY <1>1 DEF Fed
  <2>2. Sampled = f \o Tail(rest)
    BY <1>4
  <2>3. QED
    BY <1>2, <1>3, <2>1, <2>2, FrontIs
<1>6. Sampled' = Fed' \o rest'
  BY <1>1, <1>4, <1>5
<1>7. EndsInLead(Fed') <=> Head(rest) = "lead"
  BY <1>3, <1>5 DEF EndsInLead
<1>8. QED
  BY <1>2, <1>5, <1>6, <1>7 DEF f

\* The character that Consume feeds is the next one of the decoded text.
LEMMA ConsumeHeard ==
  ASSUME TraceInv, DecoderInv, Consume, steps' = steps
  PROVE  DecoderInv' /\ Heard' = Append(Heard, Char) /\ Longer(Heard, Heard', Char)
<1>1. /\ TypeOK /\ Sampled = Fed \o rest /\ rest # <<>> /\ stream' = stream
      /\ feeding /\ feeding' = feeding /\ closed' = closed /\ closed = FALSE
      /\ pending \in BOOLEAN
      /\ pending' = (Head(rest) = "lead") /\ (Head(rest) = "lead" => pending)
  BY DEF TraceInv, TypeOK, InvBetween, DecoderInv, Consume
<1>2. Fed \in Seq(Bytes) /\ rest \in Seq(Bytes) /\ Heard \in Seq(Chars) /\ Head(rest) \in Bytes
      /\ Decode(Fed) \in Seq(Chars)
  BY <1>1, DecoderTypes
<1>3. /\ pending => EndsInLead(Fed)
      /\ ~pending /\ EndsInLead(Fed) => ~Multibyte(Head(rest))
      /\ Len(stream) = Len(steps) + (IF feeding THEN 1 ELSE 0)
  BY <1>1 DEF DecoderInv
<1>4. Heard = IF ~pending /\ EndsInLead(Fed) THEN Append(Decode(Fed), "text") ELSE Decode(Fed)
  BY <1>1 DEF Heard
<1>5. Char \in Chars
  BY <1>1, CharTyped
<1>6. CASE pending /\ ~Multibyte(Head(rest))
  <2>1. rest' = rest /\ Head(rest) # "lead"
    BY <1>6 DEF Consume, Multibyte
  <2>2. Fed' = Fed /\ Sampled' = Sampled
    BY <1>1, <2>1 DEF Fed, Sampled
  <2>3. ~pending' /\ EndsInLead(Fed)
    BY <1>1, <1>3, <1>6, <2>1
  <2>4. Char = "text" /\ Heard = Decode(Fed)
    BY <1>4, <1>6 DEF Char
  <2>5. Heard' = Append(Heard, Char)
    BY <1>1, <2>1, <2>2, <2>3, <2>4 DEF Heard
  <2>6. DecoderInv'
    BY <1>1, <1>3, <1>6, <2>1, <2>2, <2>3 DEF DecoderInv, Multibyte
  <2>7. QED
    BY <1>2, <1>5, <2>5, <2>6, LongerAppend
<1>7. CASE ~(pending /\ ~Multibyte(Head(rest)))
  <2> DEFINE b == Head(rest)
  <2>1. rest' = Tail(rest)
    BY <1>7 DEF Consume
  <2>2. /\ Fed' = Append(Fed, b) /\ Sampled' = Fed' \o rest'
        /\ EndsInLead(Fed') <=> b = "lead"
    BY <1>1, <2>1, TakeByte
  <2>3. pending' <=> EndsInLead(Fed')
    BY <1>1, <2>2
  <2>4. Heard' = DecodedNext(Fed, b)
    <3>1. Heard' = Decode(Fed')
      BY <2>3 DEF Heard
    <3>2. QED
      BY <1>2, <2>2, <3>1, DecodeAppend
  <2>5. ASSUME b = "lead" PROVE Heard' = Append(Heard, Char)
    <3>1. Char = "text" /\ EndsInLead(Fed) /\ Heard = Decode(Fed)
      BY <1>1, <1>3, <1>4, <2>5 DEF Char
    <3>2. QED
      BY <2>4, <2>5, <3>1 DEF DecodedNext
  <2>6. ASSUME b = "cont" PROVE Heard' = Append(Heard, Char)
    <3>1. Char = "text" /\ CharOf(b) = "text"
      BY <2>6 DEF Char, Multibyte, CharOf
    <3>2. Heard = Decode(Fed)
      BY <1>3, <1>4, <2>6 DEF Multibyte
    <3>3. QED
      BY <2>4, <2>6, <3>1, <3>2 DEF DecodedNext
  <2>7. ASSUME b \notin {"lead", "cont"} PROVE Heard' = Append(Heard, Char)
    <3>1. ~pending /\ Char = b /\ CharOf(b) = b
      BY <1>1, <1>7, <2>7 DEF Char, Multibyte, CharOf
    <3>2. Heard = IF EndsInLead(Fed) THEN Append(Decode(Fed), "text") ELSE Decode(Fed)
      BY <1>4, <3>1
    <3>3. QED
      BY <2>4, <2>7, <3>1, <3>2 DEF DecodedNext
  <2>8. Heard' = Append(Heard, Char)
    BY <2>5, <2>6, <2>7
  <2>9. DecoderInv'
    BY <1>1, <1>3, <2>2, <2>3 DEF DecoderInv
  <2>10. QED
    BY <1>2, <1>5, <2>8, <2>9, LongerAppend
<1>8. QED
  BY <1>6, <1>7

-----------------------------------------------------------------------------
(* The steps that feed no character. *)

\* A lead byte that is held back is not heard.
LEMMA HoldLeadHeard ==
  ASSUME TraceInv, DecoderInv, HoldLead
  PROVE  DecoderInv' /\ Heard' = Heard
<1>1. /\ TypeOK /\ Sampled = Fed \o rest /\ rest # <<>> /\ stream' = stream /\ steps' = steps
      /\ feeding' = feeding /\ closed' = closed /\ rest' = Tail(rest)
      /\ ~pending /\ pending' /\ Head(rest) = "lead" /\ ~closed
  BY DEF TraceInv, InvBetween, DecoderInv, HoldLead
<1>2. ~EndsInLead(Fed)
  BY <1>1 DEF DecoderInv, Multibyte
<1>3. /\ Fed' = Append(Fed, "lead") /\ Sampled' = Fed' \o rest'
      /\ EndsInLead(Fed') /\ "lead" \in Bytes
  BY <1>1, TakeByte
<1>4. Fed \in Seq(Bytes)
  BY <1>1, DecoderTypes
<1>5. Heard' = Decode(Fed') /\ Heard = Decode(Fed)
  BY <1>1, <1>2 DEF Heard
<1>6. Decode(Fed') = Decode(Fed)
  BY <1>2, <1>3, <1>4, DecodeAppend DEF DecodedNext
<1>7. DecoderInv'
  BY <1>1, <1>3 DEF DecoderInv
<1>8. QED
  BY <1>5, <1>6, <1>7

\* A new token is not heard yet.
LEMMA SampleHeard ==
  ASSUME TraceInv, DecoderInv, NEW tok \in Tokens, Sample(tok)
  PROVE  /\ DecoderInv' /\ Heard' = Heard
         /\ stream' = Append(stream, tok) /\ stream \in Seq(Tokens) /\ Len(stream) = Len(steps)
<1>1. /\ TypeOK /\ Sampled = Fed \o rest /\ stream' = Append(stream, tok) /\ steps' = steps
      /\ ~feeding /\ feeding' /\ ~closed /\ ~closed' /\ rest = <<>> /\ rest' = tok
      /\ pending' = pending /\ stream \in Seq(Tokens)
  BY DEF TraceInv, TypeOK, InvBetween, DecoderInv, Sample
<1>2. Len(stream) = Len(steps)
  <2>1. Len(stream) = Len(steps) + 0 /\ Len(steps) \in Nat
    BY <1>1 DEF DecoderInv, TypeOK
  <2>2. QED
    BY <2>1
<1>3. /\ stream \in Seq(Seq(Bytes)) /\ Sampled \in Seq(Bytes) /\ Fed \in Seq(Bytes)
  BY <1>1, DecoderTypes
<1>4. tok \in Seq(Bytes)
  BY VocabularyAssumption
<1>5. Sampled' = Sampled \o tok
  BY <1>1, <1>3, <1>4, FlattenAppend DEF Sampled
<1>6. Sampled = Fed
  BY <1>1, <1>3
<1>7. Fed' = Fed
  <2>1. Fed' = SubSeq(Sampled', 1, Len(Sampled') - Len(tok))
    BY <1>1 DEF Fed
  <2>2. Sampled' = Fed \o tok
    BY <1>5, <1>6
  <2>3. QED
    BY <1>3, <1>4, <2>1, <2>2, FrontIs
<1>8. pending \/ ~EndsInLead(Fed)
  BY <1>1 DEF DecoderInv
<1>9. Heard' = Heard
  BY <1>1, <1>7, <1>8 DEF Heard
<1>10. DecoderInv'
  <2>1. Len(stream') = Len(steps') + 1
    BY <1>1, <1>2
  <2>2. Sampled' = Fed' \o rest'
    BY <1>1, <1>5, <1>6, <1>7
  <2>3. QED
    BY <1>1, <1>7, <1>8, <2>1, <2>2 DEF DecoderInv
<1>11. QED
  BY <1>1, <1>2, <1>9, <1>10

\* Between two tokens everything is heard.
LEMMA AllHeard ==
  ASSUME TraceInv, DecoderInv, rest = <<>>
  PROVE  Heard = TextOf(Len(stream))
<1>1. TypeOK /\ Sampled = Fed \o rest
  BY DEF TraceInv, DecoderInv
<1>2. Fed \in Seq(Bytes) /\ stream \in Seq(Seq(Bytes))
  BY <1>1, DecoderTypes
<1>3. Sampled = Fed
  BY <1>1, <1>2
<1>4. SubSeq(stream, 1, Len(stream)) = stream
  BY <1>2
<1>5. Heard = Decode(Fed)
  BY DEF Heard
<1>6. QED
  BY <1>3, <1>4, <1>5 DEF TextOf, Sampled

\* At its end, the whole text up to it is.
LEMMA EndTokenHeard ==
  ASSUME TraceInv, DecoderInv, EndToken
  PROVE  /\ DecoderInv' /\ Heard' = Heard
         /\ Len(stream) = Len(steps) + 1 /\ Heard = TextOf(Len(steps) + 1)
<1>1. /\ TypeOK /\ Sampled = Fed \o rest /\ stream' = stream
      /\ feeding /\ feeding' = FALSE /\ closed' = closed /\ rest = <<>> /\ rest' = rest
      /\ pending' = pending
      /\ steps' = Append(steps, [view |-> view, events |-> events])
      /\ Len(stream) = Len(steps) + 1
  BY DEF TraceInv, TypeOK, DecoderInv, EndToken, Recorded
<1>2. Heard' = Heard /\ Fed' = Fed /\ Sampled' = Sampled
  BY <1>1 DEF Heard, Fed, Sampled
<1>3. Heard = TextOf(Len(steps) + 1)
  BY <1>1, AllHeard
<1>4. Len(steps') = Len(steps) + 1 /\ Len(steps') \in Nat
  <2>1. steps \in Seq(StepRecord) /\ steps' \in Seq(StepRecord)
    <3>1. view \in View /\ events \in Seq(Event) /\ steps \in Seq(StepRecord)
      BY <1>1 DEF TypeOK
    <3>2. [view |-> view, events |-> events] \in StepRecord
      BY <3>1 DEF StepRecord
    <3>3. QED
      BY <1>1, <3>1, <3>2
  <2>2. QED
    BY <1>1, <2>1
<1>5. DecoderInv'
  <2>1. Len(stream') = Len(steps') + (IF feeding' THEN 1 ELSE 0)
    BY <1>1, <1>4
  <2>2. QED
    BY <1>1, <1>2, <2>1 DEF DecoderInv
<1>6. QED
  BY <1>1, <1>2, <1>3, <1>5

\* The end of the generation is not heard.
LEMMA FinishHeard ==
  ASSUME TraceInv, DecoderInv, Finish
  PROVE  DecoderInv' /\ Heard' = Heard
<1>1. /\ Sampled = Fed \o rest /\ stream' = stream /\ steps' = steps
      /\ feeding' = feeding /\ closed' /\ rest = <<>> /\ rest' = rest /\ ~pending'
  BY DEF TraceInv, InvBetween, DecoderInv, Finish
<1>2. Heard' = Heard /\ Fed' = Fed /\ Sampled' = Sampled
  BY <1>1 DEF Heard, Fed, Sampled
<1>3. QED
  BY <1>1, <1>2 DEF DecoderInv

-----------------------------------------------------------------------------
(* The events of a trace. *)

\* The events of the step records, token by token.
StepEvents == [t \in DOMAIN steps |-> steps[t].events]

\* The events of the trace, in one sequence.
LEMMA EventTypes ==
  ASSUME TypeOK
  PROVE  /\ StepEvents \in Seq(Seq(Event)) /\ FlattenSeq(StepEvents) \in Seq(Event)
         /\ AllEvents = FlattenSeq(StepEvents) \o events \o flushEvents
         /\ AllEvents \in Seq(Event)
<1>1. steps \in Seq(StepRecord) /\ events \in Seq(Event) /\ flushEvents \in Seq(Event)
  BY DEF TypeOK
<1>2. \A t \in DOMAIN steps : steps[t].events \in Seq(Event)
  <2>1. \A t \in DOMAIN steps : steps[t] \in StepRecord
    BY <1>1
  <2>2. QED
    BY <2>1 DEF StepRecord
<1>3. StepEvents \in Seq(Seq(Event))
  <2>1. DOMAIN steps = 1..Len(steps) /\ Len(steps) \in Nat
    BY <1>1
  <2>2. QED
    BY <1>2, <2>1 DEF StepEvents
<1>4. FlattenSeq(StepEvents) \in Seq(Event)
  BY <1>3, FlattenTyped
<1>5. AllEvents = FlattenSeq(StepEvents) \o events \o flushEvents
  BY DEF AllEvents, StepEvents
<1>6. FlattenSeq(StepEvents) \o events \o flushEvents \in Seq(Event)
  BY <1>1, <1>4
<1>7. QED
  BY <1>3, <1>4, <1>5, <1>6

\* A character without event leaves it as it is, ...
LEMMA SilentEvents ==
  ASSUME Consume, Silent
  PROVE  AllEvents' = AllEvents
  BY DEF AllEvents, Consume, Silent

\* ... one with an event appends it.
LEMMA RaisedEvents ==
  ASSUME TypeOK, flushEvents = <<>>, Consume, NEW e \in Event, Raise(e)
  PROVE  AllEvents' = Append(AllEvents, e) /\ AllEvents \in Seq(Event)
<1> DEFINE f == FlattenSeq(StepEvents)
<1>1. f \in Seq(Event) /\ AllEvents = f \o events \o flushEvents /\ AllEvents \in Seq(Event)
  BY EventTypes
<1>2. AllEvents' = f \o events' \o flushEvents'
  BY DEF AllEvents, StepEvents, Consume
<1>3. events' = Append(events, e) /\ flushEvents' = <<>> /\ events \in Seq(Event)
  BY DEF Raise, Consume, TypeOK
<1> HIDE DEF f
<1>4. f \o events \in Seq(Event) /\ f \o events \o <<>> = f \o events
  BY <1>1, <1>3
<1>5. Append(events, e) \in Seq(Event)
  BY <1>3
<1>6. f \o Append(events, e) \o <<>> = f \o Append(events, e)
  BY <1>1, <1>5
<1>7. Append(f \o events, e) = f \o Append(events, e)
  <2>1. f \in Seq(Event) /\ events \in Seq(Event)
    BY <1>1, <1>3
  <2>2. Glued(f, events, e, Append(events, e))
    BY <2>1, GluedFacts
  <2>3. QED
    BY <2>2 DEF Glued
<1>8. QED
  BY <1>1, <1>2, <1>3, <1>4, <1>6, <1>7

-----------------------------------------------------------------------------
(* A character. *)

\* The records say the same as long as neither they nor the tokens change.
LEMMA RecordsKept ==
  ASSUME StepViewsFollowText, stream' = stream, steps' = steps
  PROVE  StepViewsFollowText'
  BY DEF StepViewsFollowText, TextOf

\* A character without event.
LEMMA SilentText ==
  ASSUME TraceInv, TextInv, Consume, Silent, Reads(Heard', buf', view, plain'),
         EndedCalls(Heard') = EndedCalls(Heard)
  PROVE  TextInv'
<1>1. steps' = steps /\ stream' = stream /\ closed' = closed /\ closed = FALSE /\ view' = view
  BY DEF TraceInv, TypeOK, InvBetween, Consume, Silent
<1>2. DecoderInv'
  BY <1>1, ConsumeHeard DEF TextInv
<1>3. ParserInv'
  BY <1>1 DEF ParserInv
<1>4. AttemptsInv'
  <2>1. AllEvents' = AllEvents
    BY SilentEvents
  <2>2. Cardinality(Attempts(AllEvents)) = Cardinality(EndedCalls(Heard))
    BY <1>1 DEF TextInv, AttemptsInv
  <2>3. QED
    BY <1>1, <2>1, <2>2 DEF AttemptsInv
<1>5. StepViewsFollowText'
  BY <1>1, RecordsKept DEF TextInv
<1>6. QED
  BY <1>2, <1>3, <1>4, <1>5 DEF TextInv

\* A character with one.
LEMMA RaiseText ==
  ASSUME TraceInv, TextInv, Consume, NEW e \in Event, Raise(e),
         Reads(Heard', buf', e.after, plain'),
         Cardinality(EndedCalls(Heard'))
           = Cardinality(EndedCalls(Heard)) + (IF e.attempt THEN 1 ELSE 0)
  PROVE  TextInv'
<1>1. steps' = steps /\ stream' = stream /\ closed' = closed /\ closed = FALSE /\ view' = e.after
      /\ TypeOK /\ flushEvents = <<>>
  BY DEF TraceInv, TypeOK, InvBetween, Consume, Raise
<1>2. DecoderInv'
  BY <1>1, ConsumeHeard DEF TextInv
<1>3. ParserInv'
  BY <1>1 DEF ParserInv
<1>4. AttemptsInv'
  <2>1. AllEvents' = Append(AllEvents, e) /\ AllEvents \in Seq(Event)
    BY <1>1, RaisedEvents
  <2>2. Cardinality(Attempts(AllEvents)) = Cardinality(EndedCalls(Heard))
    BY <1>1 DEF TextInv, AttemptsInv
  <2>3. Cardinality(Attempts(AllEvents'))
          = Cardinality(Attempts(AllEvents)) + (IF e.attempt THEN 1 ELSE 0)
    BY <2>1, AttemptsAppend
  <2>4. QED
    BY <1>1, <2>2, <2>3 DEF AttemptsInv
<1>5. StepViewsFollowText'
  BY <1>1, RecordsKept DEF TextInv
<1>6. QED
  BY <1>2, <1>3, <1>4, <1>5 DEF TextInv

\* One branch of _feed_char after the other.
LEMMA FeedText ==
  ASSUME TraceInv, TextInv, FeedChar
  PROVE  TextInv'
<1> DEFINE t == Heard
           u == Heard'
           c == Char
<1>a. Consume
  BY DEF FeedChar, PlainChar, OpenBuffer, StartTag, NotATag, Extend, CloseTag, Overflow
<1>b. Longer(t, u, c)
  BY <1>a, ConsumeHeard DEF TextInv, Consume
<1>c. /\ Reads(t, buf, view, plain) /\ OpenIn(t, buf)
      /\ buf \in Seq(Chars) /\ plain \in Seq(Chars)
      /\ t \in Seq(Chars) /\ c \in Chars /\ Len(t) \in Nat /\ Len(u) = Len(t) + 1
  BY <1>a, <1>b DEF TextInv, TraceInv, TypeOK, InvBetween, Consume, ParserInv, Reads, Longer
<1>d. view \in View /\ WellFormed(view) /\ BufferIsOpenTag /\ Len(buf) <= MaxTagBuffer
      /\ Len(buf) \in Nat /\ MaxTagBuffer \in Nat
  BY <1>c, ParserAssumption DEF TraceInv, TypeOK, FocusIsValid, BufferIsOpenTag
<1>e. buf = <<>> => Len(buf) = 0
  OBVIOUS
<1>f. ASSUME Unended(t) = {} PROVE EndedCalls(u) = EndedCalls(t)
  BY <1>b, <1>f, CallsSame
<1>g. ASSUME Len(buf) = 1 PROVE Unended(t) = {}
  BY <1>b, <1>c, <1>g, FreshFacts DEF OpenIn
<1> HIDE DEF t, u, c
<1>1. CASE PlainChar
  <2>1. buf = <<>> /\ c # "<" /\ plain' = Append(plain, c) /\ buf' = <<>> /\ Silent
    BY <1>1 DEF PlainChar, c
  <2>2. Reads(t, <<>>, view, plain)
    BY <1>c, <2>1
  <2>3. Reads(u, <<>>, view, Append(plain, c))
    BY <1>b, <2>1, <2>2, ReadsPlain
  <2>4. EndedCalls(u) = EndedCalls(t)
    BY <1>c, <1>f, <2>1 DEF OpenIn
  <2>5. QED
    BY <1>a, <2>1, <2>3, <2>4, SilentText DEF t, u
<1>2. CASE OpenBuffer
  <2>1. buf = <<>> /\ c = "<" /\ plain' = plain /\ buf' = <<"<">> /\ Silent
    BY <1>2 DEF OpenBuffer, c
  <2>2. Reads(t, <<>>, view, plain)
    BY <1>c, <2>1
  <2>3. Reads(u, <<"<">>, view, plain)
    BY <1>b, <2>1, <2>2, ReadsPlain
  <2>4. EndedCalls(u) = EndedCalls(t)
    BY <1>c, <1>f, <2>1 DEF OpenIn
  <2>5. QED
    BY <1>a, <2>1, <2>3, <2>4, SilentText DEF t, u
<1>3. CASE StartTag
  <2>1. /\ Len(buf) = 1 /\ c \in Letters \cup {"/"} /\ buf' = Append(buf, c)
        /\ plain' = plain /\ Silent
    BY <1>3 DEF StartTag, c
  <2>2. Reads(u, Append(buf, c), view, plain)
    BY <1>b, <1>c, <2>1, ReadsSecond
  <2>3. EndedCalls(u) = EndedCalls(t)
    BY <1>f, <1>g, <2>1
  <2>4. QED
    BY <1>a, <2>1, <2>2, <2>3, SilentText DEF t, u
<1>4. CASE NotATag
  <2>1. /\ Len(buf) = 1 /\ c \notin Letters \cup {"/"} /\ Silent
        /\ IF c = "<" THEN plain' = Append(plain, "<") /\ buf' = <<"<">>
           ELSE plain' = plain \o <<"<", c>> /\ buf' = <<>>
    BY <1>4 DEF NotATag, Restart, c
  <2>2. Reads(u, buf', view, plain')
    <3>1. IF c = "<" THEN Reads(u, <<"<">>, view, Append(plain, "<"))
          ELSE Reads(u, <<>>, view, plain \o <<"<", c>>)
      BY <1>b, <1>c, <2>1, ReadsSecond
    <3>2. QED
      BY <2>1, <3>1
  <2>3. EndedCalls(u) = EndedCalls(t)
    BY <1>f, <1>g, <2>1
  <2>4. QED
    BY <1>a, <2>1, <2>2, <2>3, SilentText DEF t, u
<1>5. CASE Extend
  <2>1. /\ Len(buf) > 1 /\ c # ">" /\ ~(Len(buf) >= MaxTagBuffer)
        /\ buf' = Append(buf, c) /\ plain' = plain /\ Silent
    BY <1>5 DEF Extend, Overflows, c
  <2>2. Len(buf) < MaxTagBuffer
    BY <1>d, <2>1
  <2>3. Reads(u, Append(buf, c), view, plain)
    BY <1>b, <1>c, <2>1, <2>2, ReadsInside
  <2>4. PICK k \in Unended(t) :
           /\ Unended(t) = {k} /\ k \in Nat /\ k \in Openings(t)
           /\ Len(buf) = Len(t) - k + 1
    BY <1>c, <2>1, OpenPiece
  <2>5. EndOf(u, k) # Len(u)
    <3>1. EndOf(t, k) > Len(t)
      BY <2>4 DEF Unended
    <3>2. EndOf(t, k) \in Nat /\ (EndOf(u, k) = IF EndOf(t, k) <= Len(t) THEN EndOf(t, k)
                          ELSE IF c = ">" THEN Len(t) + 1
                          ELSE k + MaxTagBuffer)
      BY <1>b, <2>4, EndsTyped
    <3>3. ~(EndOf(t, k) <= Len(t))
      BY <1>c, <3>1, <3>2
    <3>4. EndOf(u, k) = k + MaxTagBuffer
      BY <2>1, <3>2, <3>3
    <3>5. k + MaxTagBuffer > Len(t) + 1
      BY <1>c, <1>d, <2>2, <2>4
    <3>6. QED
      BY <1>c, <1>d, <2>4, <3>4, <3>5
  <2>6. EndedCalls(u) = EndedCalls(t)
    BY <1>b, <2>4, <2>5, CallsSame
  <2>7. QED
    BY <1>a, <2>1, <2>3, <2>6, SilentText DEF t, u
<1>6. CASE CloseTag
  <2> DEFINE inner == Tail(buf)
             e == TagEvent(inner, view)
  <2>1. Len(buf) > 1 /\ c = ">" /\ Raise(e) /\ buf' = <<>> /\ plain' = plain
    BY <1>6 DEF CloseTag, c
  <2>2. e \in Event
    BY <1>d, EventFacts
  <2>3. /\ buf[2] \in Letters \cup {"/"}
        /\ Reads(u, <<>>, Declaration(inner, view), plain)
    BY <1>b, <1>c, <2>1, ReadsClose
  <2>4. e.after = Declaration(inner, view)
    <3>1. inner \in Seq(Chars) /\ Len(inner) >= 1 /\ inner[1] = buf[2]
      BY <1>c, <2>1
    <3>2. AfterTag(inner, view) = Declaration(inner, view)
      BY <1>d, <2>3, <3>1, DeclarationIs
    <3>3. QED
      BY <3>2 DEF TagEvent
  <2>5. Cardinality(EndedCalls(u)) = Cardinality(EndedCalls(t)) + (IF e.attempt THEN 1 ELSE 0)
    BY <1>b, <1>c, <2>1, CallsClosed
  <2> HIDE DEF e
  <2>6. Reads(u, buf', e.after, plain')
    BY <2>1, <2>3, <2>4
  <2>7. QED
    BY <1>a, <2>1, <2>2, <2>5, <2>6, RaiseText DEF t, u
<1>7. CASE Overflow
  <2> DEFINE e == UnclosedEvent(Append(Tail(buf), c), view)
  <2>1. /\ Len(buf) > 1 /\ c # ">" /\ Len(buf) >= MaxTagBuffer /\ Raise(e)
        /\ buf' = <<>> /\ plain' = Append(plain \o buf, c)
    BY <1>7 DEF Overflow, Overflows, GivenUp, c
  <2>2. e \in Event /\ e.after = view
    BY <1>d, EventFacts
  <2>3. Len(buf) = MaxTagBuffer
    BY <1>d, <2>1
  <2>4. Reads(u, <<>>, view, Append(plain \o buf, c))
    <3>1. ~(Len(buf) < MaxTagBuffer)
      BY <1>d, <2>3
    <3>2. QED
      BY <1>b, <1>c, <2>1, <3>1, ReadsInside
  <2>5. Cardinality(EndedCalls(u)) = Cardinality(EndedCalls(t)) + (IF e.attempt THEN 1 ELSE 0)
    BY <1>b, <1>c, <2>1, <2>3, CallsGivenUp
  <2> HIDE DEF e
  <2>6. Reads(u, buf', e.after, plain')
    BY <2>1, <2>2, <2>4
  <2>7. QED
    BY <1>a, <2>1, <2>2, <2>5, <2>6, RaiseText DEF t, u
<1>8. QED
  BY <1>1, <1>2, <1>3, <1>4, <1>5, <1>6, <1>7 DEF FeedChar

-----------------------------------------------------------------------------
(* The first state, and the steps without a character. *)

\* What the empty text says.
LEMMA EmptyText ==
  /\ Meaning(<<>>) = GlobalView /\ Outside(<<>>) = <<>> /\ Decode(<<>>) = <<>>
  /\ Openings(<<>>) = {} /\ FlattenSeq(<<>>) = <<>>
<1>1. Len(<<>>) = 0 /\ 0 \in Nat /\ <<>> \in Seq({}) /\ <<>> \in Seq(Seq({})) /\ <<>> \in Seq(Bytes)
  OBVIOUS
<1>2. PICK f : Says(f, <<>>, Tags(<<>>), 0)
  BY <1>1, SaysExists
<1>3. f[0] = GlobalView
  BY <1>2 DEF Says
<1>4. Meaning(<<>>) = GlobalView
  BY <1>1, <1>2, <1>3, MeaningSays
<1>5. \A s : s \in Seq({}) => s = <<>>
  <2>1. SUFFICES ASSUME NEW s \in Seq({}) PROVE s = <<>>
    OBVIOUS
  <2>2. Len(s) \in Nat /\ \A i \in 1..Len(s) : s[i] \in {}
    OBVIOUS
  <2>3. Len(s) = 0
    BY <2>2
  <2>4. QED
    BY <2>3
<1>6. \A K : Kept(<<>>, K) = <<>>
  BY <1>1, <1>5, KeptTyped
<1>7. Outside(<<>>) = <<>>
  BY <1>6 DEF Outside
<1>8. Decode(<<>>) = <<>>
  <2>1. CharsOf(<<>>) = <<>>
    <3>1. CharsOf(<<>>) \in Seq(Chars) /\ Len(CharsOf(<<>>)) = 0
      BY <1>1, DecodeIs
    <3>2. QED
      BY <3>1
  <2>2. QED
    BY <1>1, <1>6, <2>1, DecodeIs
<1>9. Openings(<<>>) = {}
  <2>1. Len(<<>>) \in Nat
    BY <1>1
  <2>2. ASSUME NEW k \in Openings(<<>>) PROVE FALSE
    <3>1. k \in Nat /\ k >= 1 /\ k < Len(<<>>)
      BY <2>1, OpeningIs
    <3>2. QED
      BY <1>1, <3>1
  <2>3. QED
    BY <2>2
<1>10. FlattenSeq(<<>>) = <<>>
  BY <1>1, <1>5, FlattenTyped
<1>11. QED
  BY <1>4, <1>7, <1>8, <1>9, <1>10

\* A new request.
LEMMA InitText == Init => TextInv
<1> SUFFICES ASSUME Init PROVE TextInv
  OBVIOUS
<1>1. /\ stream = <<>> /\ rest = <<>> /\ steps = <<>> /\ events = <<>> /\ flushEvents = <<>>
      /\ pending = FALSE /\ feeding = FALSE /\ closed = FALSE /\ buf = <<>> /\ plain = <<>>
      /\ view = GlobalView
  BY DEF Init
<1>2. Sampled = <<>>
  BY <1>1, EmptyText DEF Sampled
<1>3. Fed = <<>>
  <2>1. Fed = SubSeq(<<>>, 1, Len(<<>>) - Len(<<>>))
    BY <1>1, <1>2 DEF Fed
  <2>2. QED
    BY <2>1
<1>4. Heard = <<>>
  BY <1>1, <1>3, EmptyText DEF Heard, EndsInLead
<1>5. DecoderInv
  <2>1. Len(stream) = Len(steps) + (IF feeding THEN 1 ELSE 0)
    BY <1>1
  <2>2. Sampled = Fed \o rest
    BY <1>1, <1>2, <1>3
  <2>3. QED
    BY <1>1, <1>3, <2>1, <2>2 DEF DecoderInv, EndsInLead
<1>6. ParserInv
  <2>1. OpenIn(<<>>, <<>>)
    <3>1. Len(<<>>) = 0
      OBVIOUS
    <3>2. Unended(<<>>) = {} /\ ~Fresh(<<>>)
      BY <3>1, EmptyText DEF Unended, Fresh
    <3>3. QED
      BY <3>1, <3>2 DEF OpenIn
  <2>2. <<>> \in Seq(Chars) /\ <<>> \o <<>> = <<>>
    OBVIOUS
  <2>3. Reads(<<>>, <<>>, GlobalView, <<>>)
    BY <2>1, <2>2, EmptyText DEF Reads
  <2>4. QED
    BY <1>1, <1>4, <2>3 DEF ParserInv
<1>7. AttemptsInv
  <2>1. AllEvents = <<>>
    <3>1. [t \in DOMAIN <<>> |-> <<>>[t].events] = <<>>
      OBVIOUS
    <3>2. <<>> \o <<>> \o <<>> = <<>>
      OBVIOUS
    <3>3. QED
      BY <1>1, <3>1, <3>2, EmptyText DEF AllEvents
  <2>2. Attempts(<<>>) = {}
    BY DEF Attempts
  <2>3. EndedCalls(<<>>) = {}
    BY EmptyText DEF EndedCalls, FocusCalls
  <2>4. QED
    BY <1>1, <1>4, <2>1, <2>2, <2>3 DEF AttemptsInv
<1>8. StepViewsFollowText
  BY <1>1 DEF StepViewsFollowText
<1>9. QED
  BY <1>5, <1>6, <1>7, <1>8 DEF TextInv

\* Steps that leave parser and trace alone.
LEMMA IdleText ==
  ASSUME TextInv, DecoderInv', Heard' = Heard, StepViewsFollowText',
         UNCHANGED <<view, buf, plain, events, steps, flushEvents, closed>>
  PROVE  TextInv'
<1>1. AllEvents' = AllEvents
  BY DEF AllEvents
<1>2. ParserInv' /\ AttemptsInv'
  BY <1>1 DEF TextInv, ParserInv, AttemptsInv
<1>3. QED
  BY <1>2 DEF TextInv

\* A lead byte is held back.
LEMMA HoldLeadText ==
  ASSUME TraceInv, TextInv, HoldLead
  PROVE  TextInv'
<1>1. DecoderInv' /\ Heard' = Heard
  BY HoldLeadHeard DEF TextInv
<1>2. stream' = stream
      /\ UNCHANGED <<view, buf, plain, events, steps, flushEvents, closed>>
  BY DEF HoldLead, parserVars
<1>3. StepViewsFollowText'
  BY <1>2, RecordsKept DEF TextInv
<1>4. QED
  BY <1>1, <1>2, <1>3, IdleText

\* The beginning of a sequence stays when something is appended.
LEMMA FrontSame ==
  ASSUME NEW V, NEW s \in Seq(V), NEW e \in V, NEW m \in 0..Len(s)
  PROVE  SubSeq(Append(s, e), 1, m) = SubSeq(s, 1, m)
<1> DEFINE a == Append(s, e)
<1>1. a \in Seq(V) /\ m \in 0..Len(a) /\ \A j \in 1..Len(s) : a[j] = s[j]
  OBVIOUS
<1> HIDE DEF a
<1>2. /\ SubSeq(a, 1, m) \in Seq(V) /\ Len(SubSeq(a, 1, m)) = m
      /\ \A j \in 1..m : SubSeq(a, 1, m)[j] = a[j]
  BY <1>1, PrefixFacts
<1>3. /\ SubSeq(s, 1, m) \in Seq(V) /\ Len(SubSeq(s, 1, m)) = m
      /\ \A j \in 1..m : SubSeq(s, 1, m)[j] = s[j]
  BY PrefixFacts
<1>4. \A j \in 1..m : SubSeq(a, 1, m)[j] = SubSeq(s, 1, m)[j]
  BY <1>1, <1>2, <1>3
<1>5. QED
  BY <1>2, <1>3, <1>4, SeqEqual DEF a

\* A token is sampled: the records speak of the tokens before it.
LEMMA SampleText ==
  ASSUME TraceInv, TextInv, NEW tok \in Tokens, Sample(tok)
  PROVE  TextInv'
<1>1. /\ DecoderInv' /\ Heard' = Heard
      /\ stream' = Append(stream, tok) /\ stream \in Seq(Tokens) /\ Len(stream) = Len(steps)
  BY SampleHeard DEF TextInv
<1>2. UNCHANGED <<view, buf, plain, events, steps, flushEvents, closed>>
  BY DEF Sample, parserVars
<1>3. StepViewsFollowText'
  <2>1. ASSUME NEW t \in DOMAIN steps PROVE TextOf(t)' = TextOf(t)
    <3>1. t \in 0..Len(stream)
      BY <1>1 DEF TraceInv, TypeOK
    <3>2. SubSeq(stream', 1, t) = SubSeq(stream, 1, t)
      BY <1>1, <3>1, FrontSame
    <3>3. QED
      BY <3>2 DEF TextOf
  <2>2. QED
    BY <1>2, <2>1 DEF TextInv, StepViewsFollowText
<1>4. QED
  BY <1>1, <1>2, <1>3, IdleText

\* A sequence with one element more, as a function.
LEMMA AppendIs ==
  ASSUME NEW V, NEW s \in Seq(V), NEW e \in V
  PROVE  Append(s, e) = [i \in 1..(Len(s) + 1) |-> IF i = Len(s) + 1 THEN e ELSE s[i]]
<1> DEFINE g == [i \in 1..(Len(s) + 1) |-> IF i = Len(s) + 1 THEN e ELSE s[i]]
           a == Append(s, e)
<1>1. /\ a \in Seq(V) /\ Len(a) = Len(s) + 1 /\ a[Len(s) + 1] = e /\ Len(s) \in Nat
      /\ \A i \in 1..Len(s) : a[i] = s[i] /\ s[i] \in V
  OBVIOUS
<1>2. g \in Seq(V) /\ Len(g) = Len(s) + 1
  BY <1>1
<1>3. \A i \in 1..(Len(s) + 1) : a[i] = g[i]
  BY <1>1
<1> HIDE DEF a, g
<1>4. a = g
  BY <1>1, <1>2, <1>3, SeqEqual
<1>5. QED
  BY <1>4 DEF a, g

\* The record of a token: the view of the whole text so far.
LEMMA EndTokenText ==
  ASSUME TraceInv, TextInv, EndToken
  PROVE  TextInv'
<1>1. /\ DecoderInv' /\ Heard' = Heard
      /\ Len(stream) = Len(steps) + 1 /\ Heard = TextOf(Len(steps) + 1)
  BY EndTokenHeard DEF TextInv
<1> DEFINE r == [view |-> view, events |-> events]
<1>2. /\ steps' = Append(steps, r) /\ events' = <<>> /\ flushEvents' = flushEvents
      /\ stream' = stream /\ closed' = closed /\ closed = FALSE
      /\ view' = view /\ buf' = buf /\ plain' = plain
      /\ TypeOK /\ flushEvents = <<>> /\ events \in Seq(Event) /\ steps \in Seq(StepRecord)
  BY DEF TraceInv, TypeOK, InvBetween, EndToken, Recorded, parserVars
<1>3. r \in StepRecord
  BY DEF TraceInv, TypeOK, StepRecord
<1>4. /\ DOMAIN steps' = DOMAIN steps \cup {Len(steps) + 1}
      /\ \A t \in DOMAIN steps : steps'[t] = steps[t]
      /\ steps'[Len(steps) + 1] = r
  BY <1>2, <1>3
<1>5. ParserInv'
  BY <1>1, <1>2 DEF TextInv, ParserInv
<1>6. AllEvents' = AllEvents
  <2> DEFINE f == FlattenSeq(StepEvents)
  <2>1. /\ StepEvents \in Seq(Seq(Event)) /\ f \in Seq(Event)
        /\ AllEvents = f \o events \o flushEvents
    BY <1>2, EventTypes
  <2>2. StepEvents' = Append(StepEvents, events)
    <3>1. DOMAIN steps = 1..Len(steps) /\ Len(steps) \in Nat
      BY <1>2
    <3>2. StepEvents' = [t \in 1..(Len(steps) + 1) |-> steps'[t].events]
      BY <1>4, <3>1 DEF StepEvents
    <3>3. \A t \in 1..(Len(steps) + 1) :
            steps'[t].events = IF t = Len(steps) + 1 THEN events ELSE StepEvents[t]
      BY <1>4, <3>1 DEF StepEvents
    <3>4. Len(StepEvents) = Len(steps)
      BY <2>1, <3>1 DEF StepEvents
    <3>5. Append(StepEvents, events)
            = [t \in 1..(Len(steps) + 1) |->
                 IF t = Len(steps) + 1 THEN events ELSE StepEvents[t]]
      BY <1>2, <2>1, <3>4, AppendIs
    <3>6. QED
      BY <3>2, <3>3, <3>5
  <2>3. FlattenSeq(StepEvents') = f \o events
    BY <1>2, <2>1, <2>2, FlattenAppend
  <2>4. AllEvents' = FlattenSeq(StepEvents') \o events' \o flushEvents'
    BY DEF AllEvents, StepEvents
  <2>5. AllEvents' = (f \o events) \o <<>> \o <<>>
    BY <1>2, <2>3, <2>4
  <2>6. AllEvents = f \o events \o <<>>
    BY <1>2, <2>1
  <2> HIDE DEF f
  <2>7. f \o events \in Seq(Event)
    BY <1>2, <2>1
  <2>8. (f \o events) \o <<>> = f \o events
    BY <2>7
  <2>9. QED
    BY <2>5, <2>6, <2>8
<1>7. AttemptsInv'
  BY <1>1, <1>2, <1>6 DEF TextInv, AttemptsInv
<1>8. StepViewsFollowText'
  <2>1. \A n : TextOf(n)' = TextOf(n)
    BY <1>2 DEF TextOf
  <2>2. view = Meaning(Heard)
    BY <1>2 DEF TextInv, ParserInv, Reads
  <2>3. steps'[Len(steps) + 1].view = Meaning(TextOf(Len(steps) + 1))
    BY <1>1, <1>4, <2>2
  <2>4. ASSUME NEW t \in DOMAIN steps' PROVE steps'[t].view = Meaning(TextOf(t))
    BY <1>4, <2>3 DEF TextInv, StepViewsFollowText
  <2>5. QED
    BY <2>1, <2>4 DEF StepViewsFollowText
<1>9. QED
  BY <1>1, <1>5, <1>7, <1>8 DEF TextInv

\* What is still open at the end is text, and its call counts.
LEMMA FinishText ==
  ASSUME TraceInv, TextInv, Finish
  PROVE  TextInv'
<1>1. DecoderInv' /\ Heard' = Heard
  BY FinishHeard DEF TextInv
<1>2. /\ closed = FALSE /\ closed' = TRUE /\ flushEvents' = Flushed /\ flushEvents = <<>>
      /\ plain' = plain \o buf /\ steps' = steps /\ stream' = stream /\ events' = events
      /\ TypeOK /\ buf \in Seq(Chars)
      /\ view \in View /\ WellFormed(view)
  BY DEF TraceInv, TypeOK, InvBetween, FocusIsValid, Finish
<1>3. /\ Reads(Heard, buf, view, plain) /\ Heard \in Seq(Chars)
      /\ Cardinality(Attempts(AllEvents)) = Cardinality(EndedCalls(Heard))
  BY <1>2, DecoderTypes DEF TextInv, DecoderInv, ParserInv, AttemptsInv
<1>4. ParserInv'
  BY <1>1, <1>2, <1>3 DEF ParserInv, Reads
<1> DEFINE e == UnclosedEvent(Tail(buf), view)
<1>5. e \in Event
  BY <1>2, EventFacts
<1>6. Cardinality(FocusCalls(Heard))
        = Cardinality(EndedCalls(Heard)) + (IF buf # <<>> /\ e.attempt THEN 1 ELSE 0)
  BY <1>2, <1>3, CallsCut DEF Reads
<1>7. AllEvents' = IF buf = <<>> THEN AllEvents ELSE Append(AllEvents, e)
  <2> DEFINE f == FlattenSeq(StepEvents)
             a == f \o events
  <2>1. f \in Seq(Event) /\ AllEvents = f \o events \o flushEvents /\ AllEvents \in Seq(Event)
    BY <1>2, EventTypes
  <2>2. AllEvents' = f \o events \o Flushed
    BY <1>2 DEF AllEvents, StepEvents
  <2> HIDE DEF f
  <2>3. a \in Seq(Event) /\ a \o <<>> = a
    BY <1>2, <2>1 DEF TypeOK
  <2> HIDE DEF e
  <2>4. a \o <<e>> = Append(a, e)
    BY <1>5, <2>3
  <2>5. Flushed = IF buf = <<>> THEN <<>> ELSE <<e>>
    BY DEF Flushed, e
  <2>6. AllEvents = a /\ AllEvents' = a \o Flushed
    BY <1>2, <2>1, <2>2, <2>3
  <2>7. QED
    BY <2>3, <2>4, <2>5, <2>6
<1>8. AttemptsInv'
  <2>1. AllEvents \in Seq(Event)
    BY <1>2, EventTypes
  <2>2. Cardinality(Attempts(Append(AllEvents, e)))
          = Cardinality(Attempts(AllEvents)) + (IF e.attempt THEN 1 ELSE 0)
        /\ Cardinality(Attempts(AllEvents)) \in Nat
    BY <1>5, <2>1, AttemptsAppend
  <2> HIDE DEF e
  <2>3. Cardinality(Attempts(AllEvents')) = Cardinality(FocusCalls(Heard))
    <3>1. CASE buf = <<>>
      BY <1>3, <1>6, <1>7, <2>2, <3>1
    <3>2. CASE buf # <<>>
      BY <1>3, <1>6, <1>7, <2>2, <3>2
    <3>3. QED
      BY <3>1, <3>2
  <2>4. QED
    BY <1>1, <1>2, <2>3 DEF AttemptsInv
<1>9. StepViewsFollowText'
  BY <1>2, RecordsKept DEF TextInv
<1>10. QED
  BY <1>1, <1>4, <1>8, <1>9 DEF TextInv

-----------------------------------------------------------------------------
(* The theorems. *)

\* A step that changes nothing.
LEMMA IdleInv == ProtocolInv /\ UNCHANGED vars => ProtocolInv'
<1> SUFFICES ASSUME ProtocolInv, UNCHANGED vars PROVE ProtocolInv'
  OBVIOUS
<1>1. /\ view' = view /\ buf' = buf /\ plain' = plain /\ anomalies' = anomalies
      /\ pending' = pending /\ feeding' = feeding /\ rest' = rest /\ events' = events
      /\ steps' = steps /\ flushEvents' = flushEvents /\ closed' = closed
      /\ leftover' = leftover /\ stream' = stream
  BY DEF vars, parserVars
<1>2. TraceInv'
  BY <1>1 DEF ProtocolInv, TraceInv, TypeOK, InvBetween, BufferIsOpenTag, FocusIsValid,
              WellFormed, AnomalyKeepsView, AnomaliesTraced, TracedEvents
<1>3. Heard' = Heard /\ Fed' = Fed /\ Sampled' = Sampled
  BY <1>1 DEF Heard, Fed, Sampled
<1>4. DecoderInv'
  BY <1>1, <1>3 DEF ProtocolInv, TextInv, DecoderInv
<1>5. StepViewsFollowText'
  BY <1>1, RecordsKept DEF ProtocolInv, TextInv
<1>6. QED
  BY <1>1, <1>2, <1>3, <1>4, <1>5, IdleText DEF ProtocolInv

\* Parser and trace stay consistent with each other and with the text, for every
\* stream of tokens (feed_generated_token, finish).
THEOREM ProtocolInductive == Spec => []ProtocolInv
<1>1. Init => ProtocolInv
  BY InitTrace, InitText DEF ProtocolInv
<1>2. ProtocolInv /\ [Next]_vars => ProtocolInv'
  <2> SUFFICES ASSUME ProtocolInv, [Next]_vars PROVE ProtocolInv'
    OBVIOUS
  <2>1. TraceInv /\ TextInv
    BY DEF ProtocolInv
  <2>2. CASE \E tok \in Tokens : Sample(tok)
    <3>1. TraceInv'
      BY <2>1, <2>2, SampleTrace
    <3>2. TextInv'
      BY <2>1, <2>2, SampleText
    <3>3. QED
      BY <3>1, <3>2 DEF ProtocolInv
  <2>3. CASE HoldLead
    BY <2>1, <2>3, SampleTrace, HoldLeadText DEF ProtocolInv
  <2>4. CASE FeedChar
    BY <2>1, <2>4, FeedTrace, FeedText DEF ProtocolInv
  <2>5. CASE EndToken
    BY <2>1, <2>5, EndTokenTrace, EndTokenText DEF ProtocolInv
  <2>6. CASE Finish
    BY <2>1, <2>6, FinishTrace, FinishText DEF ProtocolInv
  <2>7. CASE UNCHANGED vars
    BY <2>7, IdleInv
  <2>8. QED
    BY <2>2, <2>3, <2>4, <2>5, <2>6, <2>7 DEF Next
<1>3. QED
  BY <1>1, <1>2, PTL DEF Spec

\* Parse at t, effect at t+1, however the tokens cut the text: each step record
\* holds the view that the text up to its token declares (feed_generated_token,
\* _feed_char, _close).
THEOREM ViewsFollowText == Spec => []StepViewsFollowText
<1>1. ProtocolInv => StepViewsFollowText
  BY DEF ProtocolInv, TextInv
<1>2. QED
  BY <1>1, ProtocolInductive, PTL

\* Between two tokens and at the end, plain text and open tag are the decoded text
\* without its closed tags (_feed_char, flush).
THEOREM NoCharacterLost == Spec => []TextConserved
<1>1. ProtocolInv => TextConserved
  <2> SUFFICES ASSUME ProtocolInv, ~feeding
               PROVE  plain \o buf = Outside(TextOf(Len(stream)))
    BY DEF TextConserved
  <2>1. /\ TraceInv /\ DecoderInv /\ ParserInv /\ rest = <<>> /\ closed \in BOOLEAN
        /\ plain \in Seq(Chars)
        /\ closed => buf = <<>>
    BY DEF ProtocolInv, TextInv, TraceInv, TypeOK, InvBetween, BufferIsOpenTag
  <2>2. Heard = TextOf(Len(stream))
    BY <2>1, AllHeard
  <2>3. CASE closed
    <3>1. plain \o buf = plain
      BY <2>1, <2>3
    <3>2. plain = Outside(Heard)
      BY <2>1, <2>3 DEF ParserInv
    <3>3. QED
      BY <2>2, <3>1, <3>2
  <2>4. CASE ~closed
    BY <2>1, <2>2, <2>4 DEF ParserInv, Reads
  <2>5. QED
    BY <2>3, <2>4
<1>2. QED
  BY <1>1, ProtocolInductive, PTL

\* At the end, the trace counts every call of focus in the text and nothing else
\* (focus_stats, _name_of_incomplete).
THEOREM EveryCallCounted == Spec => []AttemptsCounted
<1>1. ProtocolInv => AttemptsCounted
  <2> SUFFICES ASSUME ProtocolInv, closed
               PROVE  Cardinality(Attempts(AllEvents))
                        = Cardinality(FocusCalls(TextOf(Len(stream))))
    BY DEF AttemptsCounted
  <2>1. TraceInv /\ DecoderInv /\ AttemptsInv /\ rest = <<>>
    BY DEF ProtocolInv, TextInv, TraceInv, InvBetween
  <2>2. Heard = TextOf(Len(stream))
    BY <2>1, AllHeard
  <2>3. QED
    BY <2>1, <2>2 DEF AttemptsInv
<1>2. QED
  BY <1>1, ProtocolInductive, PTL

\* No step record ever holds a focus view without references, references in
\* another mode, or one to a segment that does not exist (_close, _transition).
THEOREM RecordedViewsAreValid ==
  Spec => [](FocusIsValid /\ \A t \in DOMAIN steps : steps[t].view \in View)
<1>1. ASSUME ProtocolInv
      PROVE  FocusIsValid /\ \A t \in DOMAIN steps : steps[t].view \in View
  <2>1. FocusIsValid /\ steps \in Seq(StepRecord)
    BY <1>1 DEF ProtocolInv, TraceInv, TypeOK
  <2>2. \A t \in DOMAIN steps : steps[t] \in StepRecord
    BY <2>1
  <2>3. QED
    BY <2>1, <2>2 DEF StepRecord
<1>2. QED
  BY <1>1, ProtocolInductive, PTL

\* An anomaly never changes the view (_anomaly).
THEOREM AnomaliesKeepView == Spec => []AnomalyKeepsView
<1>1. ProtocolInv => AnomalyKeepsView
  BY DEF ProtocolInv, TraceInv
<1>2. QED
  BY <1>1, ProtocolInductive, PTL

\* Trace and parser agree on the anomalies of a request at every moment, and with
\* them the one found by finish (_all_events, anomalies).
THEOREM NoAnomalyUntraced == Spec => []AnomaliesTraced
<1>1. ProtocolInv => AnomaliesTraced
  BY DEF ProtocolInv, TraceInv
<1>2. QED
  BY <1>1, ProtocolInductive, PTL

\* The tag buffer is bounded by its limit (_feed_char).
THEOREM BufferBounded == Spec => []BufferIsOpenTag
<1>1. ProtocolInv => BufferIsOpenTag
  BY DEF ProtocolInv, TraceInv
<1>2. QED
  BY <1>1, ProtocolInductive, PTL
=============================================================================
