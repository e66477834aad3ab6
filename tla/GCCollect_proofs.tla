-------------------------- MODULE GCCollect_proofs --------------------------
(***************************************************************************)
(* What the collections of GCHeap do to a heap that is in order: every     *)
(* object that is reached is kept once, with its size and with references  *)
(* to where the objects are now, and the heap is in order again.           *)
(*                                                                         *)
(* A minor collection copies: each call of YGCollect leaves the copies and *)
(* the forwarding addresses of the objects it has entered, and the fields  *)
(* of those it has left refer to copies only.  A full collection marks,    *)
(* moves and fixes: MGCollect marks the smallest set that is closed under  *)
(* references, the moves keep the order of the objects and never write     *)
(* over one that is still to be read, and FixObject clears every mark,     *)
(* since it reaches what MGCollect has reached.  The recursions are over   *)
(* the number of objects or pages that are left, which the depth bounds.   *)
(***************************************************************************)
EXTENDS GCHeapInvariant, FiniteSetTheorems, SequenceTheorems, TLAPS

-----------------------------------------------------------------------------
(* Induction.                                                              *)

\* A set of numbers with zero and with the successors of its members is Nat.
LEMMA NatSetInduction ==
  ASSUME NEW T \in SUBSET Nat, 0 \in T, \A n \in T : n + 1 \in T
  PROVE  T = Nat
<1> DEFINE U == Nat \ T
           I == {0 .. n : n \in U}
           R == StrictSubsetOrdering(Nat)
           F == FiniteSubsetsOf(Nat)
<1>1. IsWellFoundedOn(R, F)
  BY FS_StrictSubsetOrderingWellFounded
<1>2. I \subseteq F
  <2> SUFFICES ASSUME NEW n \in U PROVE 0 .. n \in F
    OBVIOUS
  <2>1. IsFiniteSet(0 .. n)
    BY FS_Interval
  <2> QED BY <2>1 DEF FiniteSubsetsOf
<1>3. ASSUME U # {} PROVE FALSE
  <2>0. I # {}
    BY <1>3
  <2>1. PICK i \in I : \A j \in I : ~ (<<j, i>> \in R)
    <3> HIDE DEF U, I, R, F
    <3> QED BY WFMin, <1>1, <1>2, <2>0
  <2>2. PICK x \in U : i = 0 .. x
    OBVIOUS
  <2>3. x \in Nat /\ x # 0
    OBVIOUS
  <2>4. x - 1 \in U
    BY <2>3
  <2>5. (0 .. x - 1) \subseteq 0 .. x /\ x \in 0 .. x /\ x \notin 0 .. x - 1 /\ 0 .. x \subseteq Nat
    BY <2>3
  <2>6. <<0 .. x - 1, i>> \in R
    BY <2>5, <2>2 DEF StrictSubsetOrdering
  <2> QED BY <2>1, <2>4, <2>6
<1> QED BY <1>3

\* Induction up to a bound.
LEMMA UpTo ==
  ASSUME NEW m \in Nat, NEW T, 0 \in T, \A n \in 0 .. m - 1 : n \in T => n + 1 \in T
  PROVE  \A n \in 0 .. m : n \in T
<1> DEFINE U == {n \in Nat : n <= m => n \in T}
<1>1. U \in SUBSET Nat /\ 0 \in U
  OBVIOUS
<1>2. \A n \in U : n + 1 \in U
  OBVIOUS
<1>3. U = Nat
  <2> HIDE DEF U
  <2> QED BY <1>1, <1>2, NatSetInduction
<1> QED BY <1>3

-----------------------------------------------------------------------------
(* The areas of the heap.                                                  *)

\* Where the areas are.
LEMMA Areas ==
  /\ YGSize \in Nat /\ YGSize >= 1 /\ Limit \in Nat /\ 2 * YGSize <= Limit /\ Limit < WordSize
  /\ MGSize \in Nat /\ 2 * YGSize <= MGSize /\ MGSize <= Limit
  /\ HeapInc \in Nat /\ HeapInc >= 1 /\ PermSize \in Nat /\ WordSize \in Nat
  /\ PermStart \in Nat /\ PermStart = Limit + 2 * YGSize
  /\ PermStart + PermSize \in Nat
  /\ \A p \in Pages : p \in Nat /\ p # Nil
  /\ \A p \in 0 .. Limit : p \in Pages
  /\ \A p \in Int : p \in Pages <=> 0 <= p /\ p < PermStart + PermSize
BY SizeAssumption DEF WordSize, PermStart, Pages, Nil

\* The steps of a walk.
Steps(m, from, to) ==
  LET at[n \in 0 .. to - from] ==
        IF n = 0 THEN from
        ELSE LET p == at[n - 1] IN IF p < to THEN p + m[p].pages ELSE p
  IN at

\* The steps of a walk.
Walks(loop, m, from, to) ==
  /\ loop[0] = from
  /\ \A n \in 1 .. to - from : loop[n] = IF loop[n - 1] < to THEN loop[n - 1] + m[loop[n - 1]].pages ELSE loop[n - 1]

\* Steps is the walk it is written as.
LEMMA StepsDef ==
  ASSUME NEW m, NEW from \in Nat, NEW to \in Nat, from <= to
  PROVE  Walks(Steps(m, from, to), m, from, to)
<1> DEFINE Nxt(p, n) == IF p < to THEN p + m[p].pages ELSE p
           Rec(f, k) == f = [n \in 0 .. k |-> IF n = 0 THEN from ELSE Nxt(f[n - 1], n)]
           T == {k \in Nat : \E f : Rec(f, k)}
<1>0. to - from \in Nat
  OBVIOUS
<1>1. 0 \in T
  <2>1. Rec([n \in 0 .. 0 |-> from], 0)
    BY <1>0
  <2> QED BY <2>1
<1>2. ASSUME NEW k \in T PROVE k + 1 \in T
  <2>1. PICK f : Rec(f, k)
    OBVIOUS
  <2> DEFINE g == [n \in 0 .. (k + 1) |-> IF n <= k THEN f[n] ELSE Nxt(f[k], n)]
  <2> HIDE DEF Nxt
  <2>2. ASSUME NEW n \in 0 .. (k + 1)
        PROVE  g[n] = IF n = 0 THEN from ELSE Nxt(g[n - 1], n)
    <3>1. CASE n = 0
      BY <2>1, <3>1, <1>0
    <3>2. CASE n \in 1 .. k
      <4>1. n \in 0 .. k /\ n - 1 \in 0 .. k /\ n # 0 /\ n - 1 \in 0 .. (k + 1)
        BY <3>2, <1>0
      <4>2. g[n] = f[n] /\ g[n - 1] = f[n - 1]
        BY <4>1, <1>0
      <4>3. f[n] = Nxt(f[n - 1], n)
        BY <2>1, <4>1
      <4> QED BY <4>1, <4>2, <4>3
    <3>3. CASE n = k + 1
      BY <3>3, <1>0
    <3> QED BY <3>1, <3>2, <3>3, <1>0
  <2>3. Rec(g, k + 1)
    BY <2>2
  <2> HIDE DEF g, Rec
  <2> QED BY <2>3
<1>3. T = Nat
  <2> HIDE DEF T
  <2>1. T \in SUBSET Nat
    BY DEF T
  <2> QED BY <1>1, <1>2, <2>1, NatSetInduction
<1>4. \E f : Rec(f, to - from)
  <2>1. \A k \in T : \E f : Rec(f, k)
    OBVIOUS
  <2> HIDE DEF T
  <2> QED BY <1>3, <1>0, <2>1
<1>5. Steps(m, from, to) = [n \in 0 .. to - from |-> IF n = 0 THEN from ELSE Nxt(Steps(m, from, to)[n - 1], n)]
  BY <1>4, <1>0 DEF Steps
<1> DEFINE loop == Steps(m, from, to)
<1>6. loop[0] = from /\ \A n \in 1 .. to - from : loop[n] = Nxt(loop[n - 1], n)
  <2>1. loop = [n \in 0 .. to - from |-> IF n = 0 THEN from ELSE Nxt(loop[n - 1], n)]
    BY <1>5
  <2> HIDE DEF Nxt, loop
  <2> QED BY <2>1, <1>0
<1>7. loop[0] = from /\ \A n \in 1 .. to - from : loop[n] = IF loop[n - 1] < to THEN loop[n - 1] + m[loop[n - 1]].pages ELSE loop[n - 1]
  <2> HIDE DEF loop
  <2> QED BY <1>6
<1> HIDE DEF loop
<1>8. Walks(loop, m, from, to)
  BY <1>7 DEF Walks
<1> QED BY <1>8 DEF loop

\* Walk is what its steps find.
LEMMA WalkSteps ==
  ASSUME NEW m, NEW from, NEW to
  PROVE  Walk(m, from, to) = {Steps(m, from, to)[n] : n \in 0 .. to - from} \cap from .. to - 1
BY DEF Walk, Steps

\* A walk over headers that tile its area finds these headers.
LEMMA WalkTiled ==
  ASSUME NEW m, NEW S, NEW from \in Nat, NEW to \in Nat, Tiled(m, S, from, to),
         \A p \in S : m[p].pages \in Nat \ {0}
  PROVE  Walk(m, from, to) = S
<1> DEFINE at == Steps(m, from, to)
           T == {n \in Nat : /\ at[n] \in S \cup {to}
                             /\ at[n] = to \/ at[n] >= from + n
                             /\ \A p \in S : p < at[n] => \E k \in 0 .. n : at[k] = p}
<1>0. from <= to /\ to - from \in Nat /\ S \subseteq Nat
  BY DEF Tiled
<1>1. /\ at[0] = from
      /\ \A n \in 1 .. to - from : at[n] = IF at[n - 1] < to THEN at[n - 1] + m[at[n - 1]].pages ELSE at[n - 1]
  <2> HIDE DEF T
  <2>1. from <= to
    BY <1>0
  <2>2. Walks(at, m, from, to)
    BY <2>1, StepsDef
  <2> HIDE DEF at
  <2> QED BY <2>2 DEF Walks
<1> HIDE DEF at
<1>2. 0 \in T
  <2>1. from \in S \cup {to}
    BY <1>0 DEF Tiled
  <2>2. \A p \in S : ~(p < from)
    BY DEF Tiled
  <2> QED BY <1>1, <2>1, <2>2
<1>3. \A n \in 0 .. to - from - 1 : n \in T => n + 1 \in T
  <2> SUFFICES ASSUME NEW n \in 0 .. to - from - 1, n \in T PROVE n + 1 \in T
    OBVIOUS
  <2>0. n \in Nat /\ n + 1 \in 1 .. to - from /\ (n + 1) - 1 = n
    BY <1>0
  <2>1. at[n] \in S \cup {to} /\ (at[n] = to \/ at[n] >= from + n) /\ \A p \in S : p < at[n] => \E k \in 0 .. n : at[k] = p
    OBVIOUS
  <2>2. CASE at[n] = to
    <3>1. at[n + 1] = to
      BY <2>0, <2>2, <1>1
    <3>2. \A p \in S : p < to => \E k \in 0 .. n + 1 : at[k] = p
      BY <2>0, <2>1, <2>2
    <3> QED BY <2>0, <3>1, <3>2
  <2>3. CASE at[n] # to
    <3>1. at[n] \in S /\ at[n] \in from .. to - 1 /\ m[at[n]].pages \in Nat \ {0}
      BY <2>1, <2>3 DEF Tiled
    <3>2. at[n + 1] = at[n] + m[at[n]].pages
      BY <2>0, <3>1, <1>1
    <3>3. at[n + 1] \in S \cup {to}
      BY <3>1, <3>2 DEF Tiled
    <3>4. at[n + 1] >= from + (n + 1)
      BY <2>0, <2>1, <2>3, <3>1, <3>2
    <3>5. ASSUME NEW p \in S, p < at[n + 1] PROVE \E k \in 0 .. n + 1 : at[k] = p
      <4>1. p <= at[n]
        BY <3>1, <3>2, <3>5, <1>0 DEF Tiled
      <4>2. CASE p = at[n]
        BY <4>2, <2>0
      <4>3. CASE p < at[n]
        BY <4>3, <2>0, <2>1
      <4> QED BY <4>1, <4>2, <4>3, <3>1, <1>0
    <3> QED BY <2>0, <3>3, <3>4, <3>5
  <2> QED BY <2>2, <2>3
<1>4. \A n \in 0 .. to - from : n \in T
  <2> HIDE DEF T
  <2> QED BY <1>0, <1>2, <1>3, UpTo
<1>5. Walk(m, from, to) \subseteq S
  BY <1>4, WalkSteps DEF at
<1>6. at[to - from] = to
  <2>1. at[to - from] \in S \cup {to} /\ (at[to - from] = to \/ at[to - from] >= from + (to - from))
    <3>1. to - from \in 0 .. to - from
      BY <1>0
    <3>2. to - from \in T
      BY <3>1, <1>4
    <3> QED BY <3>2
  <2>2. from + (to - from) = to
    OBVIOUS
  <2>3. \A p \in S : p \in Nat /\ p < to
    BY DEF Tiled
  <2> QED BY <2>1, <2>2, <2>3
<1>7. ASSUME NEW p \in S PROVE p \in Walk(m, from, to)
  <2>1. p \in from .. to - 1
    BY DEF Tiled
  <2>2. \E k \in 0 .. to - from : at[k] = p
    BY <1>0, <1>4, <1>6, <2>1
  <2> QED BY <2>1, <2>2, WalkSteps DEF at
<1> QED BY <1>5, <1>7

\* Headers that tile an area still do when another one is added behind it.
LEMMA TiledAppend ==
  ASSUME NEW m, NEW n, NEW S, NEW from \in Nat, NEW to \in Nat, Tiled(m, S, from, to),
         \A p \in S : n[p].pages = m[p].pages,
         n[to].pages \in Nat \ {0}
  PROVE  Tiled(n, S \cup {to}, from, to + n[to].pages)
<1>1. \A p \in S : p \in Nat /\ from <= p /\ p < to
  BY DEF Tiled
<1> DEFINE R == S \cup {to}
           end == to + n[to].pages
<1>2. end \in Nat /\ to < end /\ from <= to
  BY DEF Tiled
<1>3. R \subseteq from .. end - 1 /\ from <= end
  BY <1>1, <1>2
<1>4. from \in R
  BY <1>2 DEF Tiled
<1>5. \A p \in R : p + n[p].pages \in R \cup {end}
  BY DEF Tiled
<1>6. \A p \in S : p + n[p].pages <= to
  BY <1>1 DEF Tiled
<1>7. \A p, q \in R : p < q => p + n[p].pages <= q
  BY <1>1, <1>6 DEF Tiled
<1> QED BY <1>3, <1>4, <1>5, <1>7 DEF Tiled

\* The sizes of the headers decide.
LEMMA TiledAgree ==
  ASSUME NEW m, NEW n, NEW S, NEW from, NEW to, Tiled(m, S, from, to),
         \A p \in S : n[p].pages = m[p].pages
  PROVE  Tiled(n, S, from, to)
BY DEF Tiled

\* No object tiles an empty area.
LEMMA TiledNothing ==
  ASSUME NEW m, NEW from \in Nat
  PROVE  Tiled(m, {}, from, from)
BY DEF Tiled

-----------------------------------------------------------------------------
(* How many pages a set of headers takes.                                  *)

Weights(m, S) ==
  LET sum[n \in 0 .. Limit] ==
        IF n = 0 THEN 0 ELSE sum[n - 1] + IF n - 1 \in S THEN m[n - 1].pages ELSE 0
  IN sum

Weight(m, S) == Weights(m, S)[Limit]

\* The pages of the headers below a page.
Sums(loop, m, S) ==
  /\ loop[0] = 0
  /\ \A n \in 1 .. Limit : loop[n] = loop[n - 1] + IF n - 1 \in S THEN m[n - 1].pages ELSE 0

\* Weights is the sum it is written as.
LEMMA WeightsDef ==
  ASSUME NEW m, NEW S, Limit \in Nat
  PROVE  Sums(Weights(m, S), m, S)
<1> DEFINE Nxt(p, n) == p + IF n - 1 \in S THEN m[n - 1].pages ELSE 0
           Rec(f, k) == f = [n \in 0 .. k |-> IF n = 0 THEN 0 ELSE Nxt(f[n - 1], n)]
           T == {k \in Nat : \E f : Rec(f, k)}
<1>0. Limit \in Nat
  OBVIOUS
<1>1. 0 \in T
  <2>1. Rec([n \in 0 .. 0 |-> 0], 0)
    BY <1>0
  <2> QED BY <2>1
<1>2. ASSUME NEW k \in T PROVE k + 1 \in T
  <2>1. PICK f : Rec(f, k)
    OBVIOUS
  <2> DEFINE g == [n \in 0 .. (k + 1) |-> IF n <= k THEN f[n] ELSE Nxt(f[k], n)]
  <2> HIDE DEF Nxt
  <2>2. ASSUME NEW n \in 0 .. (k + 1)
        PROVE  g[n] = IF n = 0 THEN 0 ELSE Nxt(g[n - 1], n)
    <3>1. CASE n = 0
      BY <2>1, <3>1, <1>0
    <3>2. CASE n \in 1 .. k
      <4>1. n \in 0 .. k /\ n - 1 \in 0 .. k /\ n # 0 /\ n - 1 \in 0 .. (k + 1)
        BY <3>2, <1>0
      <4>2. g[n] = f[n] /\ g[n - 1] = f[n - 1]
        BY <4>1, <1>0
      <4>3. f[n] = Nxt(f[n - 1], n)
        BY <2>1, <4>1
      <4> QED BY <4>1, <4>2, <4>3
    <3>3. CASE n = k + 1
      BY <3>3, <1>0
    <3> QED BY <3>1, <3>2, <3>3, <1>0
  <2>3. Rec(g, k + 1)
    BY <2>2
  <2> HIDE DEF g, Rec
  <2> QED BY <2>3
<1>3. T = Nat
  <2> HIDE DEF T
  <2>1. T \in SUBSET Nat
    BY DEF T
  <2> QED BY <1>1, <1>2, <2>1, NatSetInduction
<1>4. \E f : Rec(f, Limit)
  <2>1. \A k \in T : \E f : Rec(f, k)
    OBVIOUS
  <2> HIDE DEF T
  <2> QED BY <1>3, <1>0, <2>1
<1>5. Weights(m, S) = [n \in 0 .. Limit |-> IF n = 0 THEN 0 ELSE Nxt(Weights(m, S)[n - 1], n)]
  BY <1>4, <1>0 DEF Weights
<1> DEFINE loop == Weights(m, S)
<1>6. loop[0] = 0 /\ \A n \in 1 .. Limit : loop[n] = Nxt(loop[n - 1], n)
  <2>1. loop = [n \in 0 .. Limit |-> IF n = 0 THEN 0 ELSE Nxt(loop[n - 1], n)]
    BY <1>5
  <2> HIDE DEF Nxt, loop
  <2> QED BY <2>1, <1>0
<1>7. loop[0] = 0 /\ \A n \in 1 .. Limit : loop[n] = loop[n - 1] + IF n - 1 \in S THEN m[n - 1].pages ELSE 0
  <2> HIDE DEF loop
  <2> QED BY <1>6
<1> HIDE DEF loop
<1>8. Sums(loop, m, S)
  BY <1>7 DEF Sums
<1> QED BY <1>8 DEF loop

\* Without one of the headers its pages are missing.
LEMMA WeightRemove ==
  ASSUME NEW m, NEW S, NEW q \in S, q \in 0 .. Limit - 1, \A p \in S : m[p].pages \in Nat
  PROVE  Weight(m, S \ {q}) = Weight(m, S) - m[q].pages /\ Weight(m, S \ {q}) \in Nat /\ Weight(m, S) \in Nat
<1> DEFINE w == Weights(m, S)
           v == Weights(m, S \ {q})
           T == {n \in Nat : /\ w[n] \in Nat /\ v[n] \in Nat
                             /\ n <= q => v[n] = w[n]
                             /\ n > q => v[n] = w[n] - m[q].pages}
<1>0. Limit \in Nat
  BY Areas
<1>1. w[0] = 0 /\ \A n \in 1 .. Limit : w[n] = w[n - 1] + IF n - 1 \in S THEN m[n - 1].pages ELSE 0
  <2>1. Sums(w, m, S)
    BY <1>0, WeightsDef
  <2> HIDE DEF w
  <2> QED BY <2>1 DEF Sums
<1>2. v[0] = 0 /\ \A n \in 1 .. Limit : v[n] = v[n - 1] + IF n - 1 \in S \ {q} THEN m[n - 1].pages ELSE 0
  <2>1. Sums(v, m, S \ {q})
    BY <1>0, WeightsDef
  <2> HIDE DEF v
  <2> QED BY <2>1 DEF Sums
<1> HIDE DEF w, v
<1>3. 0 \in T
  BY <1>1, <1>2
<1>4. \A n \in 0 .. Limit - 1 : n \in T => n + 1 \in T
  <2> SUFFICES ASSUME NEW n \in 0 .. Limit - 1, n \in T PROVE n + 1 \in T
    OBVIOUS
  <2>0. n + 1 \in 1 .. Limit /\ (n + 1) - 1 = n /\ n \in Nat
    BY <1>0
  <2>1. w[n + 1] = w[n] + (IF n \in S THEN m[n].pages ELSE 0)
    BY <2>0, <1>1
  <2>2. v[n + 1] = v[n] + (IF n \in S \ {q} THEN m[n].pages ELSE 0)
    BY <2>0, <1>2
  <2>3. CASE n = q
    <3>1. w[n] \in Nat /\ v[n] = w[n] /\ m[q].pages \in Nat
      BY <2>3
    <3>2. w[n + 1] = w[n] + m[q].pages /\ v[n + 1] = v[n]
      BY <2>1, <2>2, <2>3, <3>1
    <3> QED BY <2>0, <2>3, <3>1, <3>2
  <2>4. CASE n # q
    <3>1. w[n] \in Nat /\ v[n] \in Nat
      OBVIOUS
    <3>2. PICK d \in Nat : w[n + 1] = w[n] + d /\ v[n + 1] = v[n] + d
      BY <2>1, <2>2, <2>4
    <3> QED BY <2>0, <2>4, <3>1, <3>2
  <2> QED BY <2>3, <2>4
<1>5. \A n \in 0 .. Limit : n \in T
  <2> HIDE DEF T
  <2> QED BY <1>0, <1>3, <1>4, UpTo
<1>6. Limit \in T /\ Limit > q
  <2> HIDE DEF T
  <2> QED BY <1>0, <1>5
<1> QED BY <1>6 DEF Weight, w, v

\* The pages of some objects are a number.
LEMMA WeightNat ==
  ASSUME NEW m, NEW S, \A p \in S : m[p].pages \in Nat
  PROVE  Weight(m, S) \in Nat
<1> DEFINE w == Weights(m, S)
           T == {n \in Nat : w[n] \in Nat}
<1>0. Limit \in Nat
  BY Areas
<1>1. w[0] = 0 /\ \A n \in 1 .. Limit : w[n] = w[n - 1] + IF n - 1 \in S THEN m[n - 1].pages ELSE 0
  <2>1. Sums(w, m, S)
    BY <1>0, WeightsDef
  <2> HIDE DEF w
  <2> QED BY <2>1 DEF Sums
<1> HIDE DEF w
<1>2. \A n \in 0 .. Limit - 1 : n \in T => n + 1 \in T
  <2> SUFFICES ASSUME NEW n \in 0 .. Limit - 1, n \in T PROVE n + 1 \in T
    OBVIOUS
  <2>0. n + 1 \in 1 .. Limit /\ (n + 1) - 1 = n /\ n \in Nat
    BY <1>0
  <2> QED BY <2>0, <1>1
<1>3. \A n \in 0 .. Limit : n \in T
  <2>1. 0 \in T
    BY <1>1
  <2> HIDE DEF T
  <2> QED BY <1>0, <2>1, <1>2, UpTo
<1> QED BY <1>0, <1>3 DEF Weight, w

\* Fewer headers take no more pages.
LEMMA WeightSubset ==
  ASSUME NEW m, NEW S, NEW R \in SUBSET S, \A p \in S : m[p].pages \in Nat
  PROVE  Weight(m, R) <= Weight(m, S)
<1> DEFINE w == Weights(m, S)
           v == Weights(m, R)
           T == {n \in Nat : w[n] \in Nat /\ v[n] \in Nat /\ v[n] <= w[n]}
<1>0. Limit \in Nat
  BY Areas
<1>1. w[0] = 0 /\ \A n \in 1 .. Limit : w[n] = w[n - 1] + IF n - 1 \in S THEN m[n - 1].pages ELSE 0
  <2>1. Sums(w, m, S)
    BY <1>0, WeightsDef
  <2> HIDE DEF w
  <2> QED BY <2>1 DEF Sums
<1>2. v[0] = 0 /\ \A n \in 1 .. Limit : v[n] = v[n - 1] + IF n - 1 \in R THEN m[n - 1].pages ELSE 0
  <2>1. Sums(v, m, R)
    BY <1>0, WeightsDef
  <2> HIDE DEF v
  <2> QED BY <2>1 DEF Sums
<1> HIDE DEF w, v
<1>3. \A n \in 0 .. Limit - 1 : n \in T => n + 1 \in T
  <2> SUFFICES ASSUME NEW n \in 0 .. Limit - 1, n \in T PROVE n + 1 \in T
    OBVIOUS
  <2>0. n + 1 \in 1 .. Limit /\ (n + 1) - 1 = n /\ n \in Nat
    BY <1>0
  <2>1. w[n + 1] = w[n] + IF n \in S THEN m[n].pages ELSE 0
    BY <2>0, <1>1
  <2>2. v[n + 1] = v[n] + IF n \in R THEN m[n].pages ELSE 0
    BY <2>0, <1>2
  <2> QED BY <2>0, <2>1, <2>2
<1>4. \A n \in 0 .. Limit : n \in T
  <2>1. 0 \in T
    BY <1>1, <1>2
  <2> HIDE DEF T
  <2> QED BY <1>0, <2>1, <1>3, UpTo
<1> QED BY <1>0, <1>4 DEF Weight, w, v

\* Headers that tile an area take no more than its pages.
LEMMA WeightTiled ==
  ASSUME NEW m, NEW S, NEW from \in Nat, NEW to \in 0 .. Limit, Tiled(m, S, from, to),
         \A p \in S : m[p].pages \in Nat
  PROVE  Weight(m, S) <= to - from
<1> DEFINE w == Weights(m, S)
           T == {n \in Nat : /\ w[n] \in Nat /\ from + w[n] <= to
                             /\ \A p \in S : p >= n => from + w[n] <= p}
<1>0. Limit \in Nat /\ to \in Nat
  BY Areas
<1>1. w[0] = 0 /\ \A n \in 1 .. Limit : w[n] = w[n - 1] + IF n - 1 \in S THEN m[n - 1].pages ELSE 0
  <2>1. Sums(w, m, S)
    BY <1>0, WeightsDef
  <2> HIDE DEF w
  <2> QED BY <2>1 DEF Sums
<1> HIDE DEF w
<1>2. \A n \in 0 .. Limit - 1 : n \in T => n + 1 \in T
  <2> SUFFICES ASSUME NEW n \in 0 .. Limit - 1, n \in T PROVE n + 1 \in T
    OBVIOUS
  <2>0. n + 1 \in 1 .. Limit /\ (n + 1) - 1 = n /\ n \in Nat
    BY <1>0
  <2>1. w[n + 1] = w[n] + (IF n \in S THEN m[n].pages ELSE 0) /\ w[n] \in Nat
    BY <2>0, <1>1
  <2>2. CASE n \in S
    <3>1. m[n].pages \in Nat /\ w[n + 1] = w[n] + m[n].pages /\ from + w[n] <= n
      BY <2>1, <2>2, <2>0
    <3>2. n + m[n].pages <= to
      BY <2>2, <3>1, <2>0, <1>0 DEF Tiled
    <3>3. \A p \in S : p >= n + 1 => n + m[n].pages <= p
      <4>1. \A p \in S : p \in Nat
        BY DEF Tiled
      <4>2. \A p \in S : n < p => n + m[n].pages <= p
        BY <2>2 DEF Tiled
      <4> QED BY <4>1, <4>2, <2>0
    <3> QED BY <2>0, <2>1, <3>1, <3>2, <3>3 DEF Tiled
  <2>3. CASE n \notin S
    BY <2>0, <2>1, <2>3 DEF Tiled
  <2> QED BY <2>2, <2>3
<1>3. \A n \in 0 .. Limit : n \in T
  <2>1. 0 \in T
    BY <1>1, <1>0 DEF Tiled
  <2> HIDE DEF T
  <2> QED BY <1>0, <2>1, <1>2, UpTo
<1>4. Limit \in T
  <2> HIDE DEF T
  <2> QED BY <1>0, <1>3
<1>5. w[Limit] \in Nat /\ from + w[Limit] <= to
  BY <1>4
<1> QED BY <1>5, <1>0 DEF Weight, w

-----------------------------------------------------------------------------
(* Copying the objects of the young generation: YGCollect.                 *)

\* The words are collected one after the other.
Visiting(loop, collect, start, end, h, words) ==
  /\ loop[0] = [h |-> h, words |-> <<>>]
  /\ \A n \in 1 .. Len(words) : loop[n] = YGVisit(collect, start, end, loop[n - 1], words[n])

\* YGVisits is the loop over words it is written as.
LEMMA YGVisitsDef ==
  ASSUME NEW collect, NEW start, NEW end, NEW h, NEW words, Len(words) \in Nat
  PROVE  Visiting(YGVisits(collect, start, end, h, words), collect, start, end, h, words)
<1> DEFINE Nxt(p, n) == YGVisit(collect, start, end, p, words[n])
           Rec(f, k) == f = [n \in 0 .. k |-> IF n = 0 THEN [h |-> h, words |-> <<>>] ELSE Nxt(f[n - 1], n)]
           T == {k \in Nat : \E f : Rec(f, k)}
<1>0. Len(words) \in Nat
  OBVIOUS
<1>1. 0 \in T
  <2>1. Rec([n \in 0 .. 0 |-> [h |-> h, words |-> <<>>]], 0)
    BY <1>0
  <2> QED BY <2>1
<1>2. ASSUME NEW k \in T PROVE k + 1 \in T
  <2>1. PICK f : Rec(f, k)
    OBVIOUS
  <2> DEFINE g == [n \in 0 .. (k + 1) |-> IF n <= k THEN f[n] ELSE Nxt(f[k], n)]
  <2> HIDE DEF Nxt
  <2>2. ASSUME NEW n \in 0 .. (k + 1)
        PROVE  g[n] = IF n = 0 THEN [h |-> h, words |-> <<>>] ELSE Nxt(g[n - 1], n)
    <3>1. CASE n = 0
      BY <2>1, <3>1, <1>0
    <3>2. CASE n \in 1 .. k
      <4>1. n \in 0 .. k /\ n - 1 \in 0 .. k /\ n # 0 /\ n - 1 \in 0 .. (k + 1)
        BY <3>2, <1>0
      <4>2. g[n] = f[n] /\ g[n - 1] = f[n - 1]
        BY <4>1, <1>0
      <4>3. f[n] = Nxt(f[n - 1], n)
        BY <2>1, <4>1
      <4> QED BY <4>1, <4>2, <4>3
    <3>3. CASE n = k + 1
      BY <3>3, <1>0
    <3> QED BY <3>1, <3>2, <3>3, <1>0
  <2>3. Rec(g, k + 1)
    BY <2>2
  <2> HIDE DEF g, Rec
  <2> QED BY <2>3
<1>3. T = Nat
  <2> HIDE DEF T
  <2>1. T \in SUBSET Nat
    BY DEF T
  <2> QED BY <1>1, <1>2, <2>1, NatSetInduction
<1>4. \E f : Rec(f, Len(words))
  <2>1. \A k \in T : \E f : Rec(f, k)
    OBVIOUS
  <2> HIDE DEF T
  <2> QED BY <1>3, <1>0, <2>1
<1>4a. \E f : f = [n \in 0 .. Len(words) |-> IF n = 0 THEN [h |-> h, words |-> <<>>] ELSE Nxt(f[n - 1], n)]
  <2>1. (Len(words)) = Len(words)
    BY <1>0
  <2>2. PICK f : Rec(f, Len(words))
    BY <1>4
  <2> HIDE DEF Nxt
  <2>3. f = [n \in 0 .. Len(words) |-> IF n = 0 THEN [h |-> h, words |-> <<>>] ELSE Nxt(f[n - 1], n)]
    BY <2>1, <2>2
  <2> QED BY <2>3
<1>5. YGVisits(collect, start, end, h, words) = [n \in 0 .. Len(words) |-> IF n = 0 THEN [h |-> h, words |-> <<>>] ELSE Nxt(YGVisits(collect, start, end, h, words)[n - 1], n)]
  BY <1>4a DEF YGVisits
<1> DEFINE loop == YGVisits(collect, start, end, h, words)
<1>6. loop[0] = [h |-> h, words |-> <<>>] /\ \A n \in 1 .. Len(words) : loop[n] = Nxt(loop[n - 1], n)
  <2>1. loop = [n \in 0 .. Len(words) |-> IF n = 0 THEN [h |-> h, words |-> <<>>] ELSE Nxt(loop[n - 1], n)]
    BY <1>5
  <2> HIDE DEF Nxt, loop
  <2> QED BY <2>1, <1>0
<1>7. loop[0] = [h |-> h, words |-> <<>>] /\ \A n \in 1 .. Len(words) : loop[n] = YGVisit(collect, start, end, loop[n - 1], words[n])
  <2> HIDE DEF loop
  <2> QED BY <1>6
<1> HIDE DEF loop
<1>8. Visiting(loop, collect, start, end, h, words)
  BY <1>7 DEF Visiting
<1> QED BY <1>8 DEF loop
\* The recursion.
Collecting(loop, start, end) ==
  \A n \in 0 .. MaxDepth : loop[n] = [h \in Heaps |-> [words \in Words |-> IF n = 0 THEN [h |-> h, words |-> words] ELSE YGVisits(loop[n - 1], start, end, h, words)[Len(words)]]]

\* YGCollects is the recursion it is written as.
LEMMA YGCollectsDef ==
  ASSUME NEW start, NEW end
  PROVE  Collecting(YGCollects(start, end), start, end)
<1> DEFINE Nxt(p, n) == [h \in Heaps |-> [words \in Words |-> IF n = 0 THEN [h |-> h, words |-> words] ELSE YGVisits(p, start, end, h, words)[Len(words)]]]
           Rec(f, k) == f = [n \in 0 .. k |-> Nxt(f[n - 1], n)]
           T == {k \in Nat : \E f : Rec(f, k)}
<1>0. MaxDepth \in Nat
  BY Areas DEF MaxDepth
<1>a. \A p, q : Nxt(p, 0) = Nxt(q, 0)
  OBVIOUS
<1>1. 0 \in T
  <2> DEFINE g == [n \in 0 .. 0 |-> Nxt(0, 0)]
  <2> HIDE DEF Nxt
  <2>1. \A n \in 0 .. 0 : g[n] = Nxt(g[n - 1], n)
    BY <1>a
  <2>2. Rec(g, 0)
    BY <2>1
  <2> HIDE DEF g, Rec
  <2> QED BY <2>2
<1>2. ASSUME NEW k \in T PROVE k + 1 \in T
  <2>1. PICK f : Rec(f, k)
    OBVIOUS
  <2> DEFINE g == [n \in 0 .. k + 1 |-> IF n <= k THEN f[n] ELSE Nxt(f[k], n)]
  <2> HIDE DEF Nxt
  <2>2. ASSUME NEW n \in 0 .. k + 1
        PROVE  g[n] = Nxt(g[n - 1], n)
    <3>1. CASE n = 0
      <4>1. g[n] = f[n] /\ f[n] = Nxt(f[n - 1], n)
        BY <3>1, <2>1
      <4> QED BY <4>1, <3>1, <1>a
    <3>2. CASE n \in 1 .. k
      <4>1. n \in 0 .. k /\ n - 1 \in 0 .. k /\ n # 0 /\ n - 1 \in 0 .. k + 1
        BY <3>2
      <4>2. g[n] = f[n] /\ g[n - 1] = f[n - 1]
        BY <4>1
      <4>3. f[n] = Nxt(f[n - 1], n)
        BY <2>1, <4>1
      <4> QED BY <4>1, <4>2, <4>3
    <3>3. CASE n = k + 1
      BY <3>3
    <3> QED BY <3>1, <3>2, <3>3
  <2>3. Rec(g, k + 1)
    BY <2>2
  <2> HIDE DEF g, Rec
  <2> QED BY <2>3
<1>3. T = Nat
  <2> HIDE DEF T
  <2>1. T \in SUBSET Nat
    BY DEF T
  <2> QED BY <1>1, <1>2, <2>1, NatSetInduction
<1>4. \E f : Rec(f, MaxDepth)
  <2>1. \A k \in T : \E f : Rec(f, k)
    OBVIOUS
  <2> HIDE DEF T
  <2> QED BY <1>3, <1>0, <2>1
<1>5. YGCollects(start, end) = [n \in 0 .. MaxDepth |-> Nxt(YGCollects(start, end)[n - 1], n)]
  BY <1>4, <1>0 DEF YGCollects
<1> DEFINE loop == YGCollects(start, end)
<1>6. \A n \in 0 .. MaxDepth : loop[n] = Nxt(loop[n - 1], n)
  <2>1. loop = [n \in 0 .. MaxDepth |-> Nxt(loop[n - 1], n)]
    BY <1>5
  <2> HIDE DEF Nxt, loop
  <2> QED BY <2>1, <1>0
<1>7. \A n \in 0 .. MaxDepth : loop[n] = [h \in Heaps |-> [words \in Words |-> IF n = 0 THEN [h |-> h, words |-> words] ELSE YGVisits(loop[n - 1], start, end, h, words)[Len(words)]]]
  <2> HIDE DEF loop
  <2> QED BY <1>6
<1> HIDE DEF loop
<1>8. Collecting(loop, start, end)
  BY <1>7 DEF Collecting
<1> QED BY <1>8 DEF loop

-----------------------------------------------------------------------------
(* A young generation in [x.start, x.end) with the headers x.heads in the  *)
(* memory x.mem is copied to [x.low, x.top).                               *)

Proper(x, words) ==
  \A i \in 1 .. Len(words) : Within(words[i], x.start, x.end) => words[i] \in x.heads

YGContext(x) ==
  /\ x.mem \in Memories
  /\ x.start \in Nat /\ x.end \in 0 .. Limit /\ x.low \in Nat /\ x.top \in 0 .. Limit
  /\ x.end <= x.low \/ x.top <= x.start
  /\ x.heads \subseteq x.start .. x.end - 1
  /\ \A p \in x.heads : Proper(x, x.mem[p].fields)

\* The objects that have been copied, and where to.
Copied(x, h) == {p \in x.heads : h.mem[p].marked}
Copies(x, h) == {h.mem[p].vmt : p \in Copied(x, h)}

\* What is left to be copied takes so many pages.
Left(x, h) == Weight(x.mem, x.heads \ Copied(x, h))

CopyOf(x, h, p, q) ==
  /\ q \in x.low .. h.shadow - 1
  /\ h.mem[q].pages = x.mem[p].pages
  /\ ~h.mem[q].marked
  /\ h.mem[q].vmt = x.mem[p].vmt

YGHeap(x, h) ==
  /\ h \in Heaps
  /\ x.low <= h.shadow /\ h.shadow + Left(x, h) <= x.top
  /\ \A p \in x.heads : /\ h.mem[p].pages = x.mem[p].pages
                        /\ h.mem[p].fields = x.mem[p].fields
                        /\ p \notin Copied(x, h) => h.mem[p] = x.mem[p]
  /\ \A p \in Copied(x, h) : CopyOf(x, h, p, h.mem[p].vmt)
  /\ \A p, q \in Copied(x, h) : h.mem[p].vmt = h.mem[q].vmt => p = q
  /\ Tiled(h.mem, Copies(x, h), x.low, h.shadow)
  /\ \A q \in x.low .. x.top - 1 : q \notin Copies(x, h) => h.mem[q] = x.mem[q]

\* new is what becomes of words: a reference into the young generation is one
\* to the copy.
Forwarded(x, h, words, new) ==
  \A i \in 1 .. Len(new) :
    IF Within(words[i], x.start, x.end)
    THEN words[i] \in Copied(x, h) /\ new[i] = h.mem[words[i]].vmt
    ELSE new[i] = words[i]

\* From g to h more is copied, with all that it refers to, and nothing else changes.
YGStep(x, g, h) ==
  /\ Copied(x, g) \subseteq Copied(x, h)
  /\ \A p \in Copied(x, g) : h.mem[p] = g.mem[p] /\ h.mem[g.mem[p].vmt] = g.mem[g.mem[p].vmt]
  /\ \A p \in Copied(x, h) \ Copied(x, g) :
       /\ Len(h.mem[h.mem[p].vmt].fields) = Len(x.mem[p].fields)
       /\ Forwarded(x, h, x.mem[p].fields, h.mem[h.mem[p].vmt].fields)
  /\ \A q \in Pages : q \notin x.heads /\ q \notin x.low .. x.top - 1 => h.mem[q] = g.mem[q]

\* What a collection from words makes of the heap h and of the words.
YGResult(x, h, words, r) ==
  /\ YGHeap(x, r.h) /\ YGStep(x, h, r.h)
  /\ r.words \in Words /\ Len(r.words) = Len(words)
  /\ Forwarded(x, r.h, words, r.words)

\* A function collects as it should while no more than depth pages are left.
YGWorks(x, collect, depth) ==
  \A h \in Heaps, words \in Words :
    YGHeap(x, h) /\ Proper(x, words) /\ Left(x, h) < depth
      => YGResult(x, h, words, collect[h][words])

\* What the types say of a header.
LEMMA HeaderType ==
  ASSUME NEW m \in Memories, NEW p \in Pages
  PROVE  /\ m[p] \in Headers /\ m[p].pages \in Nat \ {0} /\ m[p].marked \in BOOLEAN
         /\ m[p].fields \in Words
         /\ \A i \in 1 .. Len(m[p].fields) : m[p].fields[i] \in Pages \cup {Nil}
         /\ Len(m[p].fields) \in Nat
<1>1. m[p] \in Headers
  BY DEF Memories
<1>2. m[p].fields \in Words /\ m[p].pages \in Nat \ {0} /\ m[p].marked \in BOOLEAN
  BY <1>1 DEF Headers
<1> QED BY <1>1, <1>2, ElementOfSeq, LenProperties DEF Words

\* What the context says of a heap that is being collected: the copies have
\* addresses of their own.
LEMMA HeapFacts ==
  ASSUME NEW x, NEW h, YGContext(x), YGHeap(x, h)
  PROVE  /\ h.mem \in Memories /\ h.shadow \in Pages /\ h.shadow \in Nat
         /\ x.heads \subseteq Pages
         /\ Left(x, h) \in Nat
         /\ h.shadow <= x.top
         /\ \A p \in x.heads : p \in Nat /\ x.start <= p /\ p < x.end /\ p \in 0 .. Limit - 1
         /\ \A p \in x.heads : x.mem[p].pages \in Nat \ {0}
         /\ \A q \in x.low .. x.top - 1 : q \in Pages /\ q \notin x.heads
         /\ Copied(x, h) \subseteq x.heads
         /\ \A p \in Copied(x, h) : h.mem[p].vmt \in x.low .. h.shadow - 1
<1>1. h.mem \in Memories /\ h.shadow \in Pages
  BY DEF YGHeap, Heaps
<1>2. \A p \in x.heads : p \in Nat /\ x.start <= p /\ p < x.end /\ p \in 0 .. Limit - 1 /\ p \in Pages
  BY Areas DEF YGContext
<1>3. \A p \in x.heads : x.mem[p].pages \in Nat \ {0}
  BY <1>2, HeaderType DEF YGContext
<1>4. Left(x, h) \in Nat
  <2>1. \A p \in x.heads \ Copied(x, h) : x.mem[p].pages \in Nat
    BY <1>3
  <2> QED BY <2>1, WeightNat DEF Left
<1>5. \A q \in x.low .. x.top - 1 : q \in Pages /\ q \notin x.heads
  BY <1>2, Areas DEF YGContext
<1>6. h.shadow \in Nat
  BY <1>1, Areas
<1>7. h.shadow <= x.top
  BY <1>4, <1>6 DEF YGHeap, YGContext
<1>8. \A p \in Copied(x, h) : h.mem[p].vmt \in x.low .. h.shadow - 1
  BY DEF YGHeap, CopyOf
<1> QED BY <1>1, <1>2, <1>3, <1>4, <1>5, <1>6, <1>7, <1>8 DEF Copied

\* The heap after an object has been claimed.
Claimed(h, word) ==
  [mem |-> [h.mem EXCEPT ![h.shadow] = h.mem[word], ![word].marked = TRUE, ![word].vmt = h.shadow],
   shadow |-> h.shadow + h.mem[word].pages]

\* The memory after an object was claimed.
LEMMA ClaimedMemory ==
  ASSUME NEW h, NEW w \in Pages, h.mem \in Memories, h.shadow \in Pages, h.shadow # w
  PROVE  LET m == Claimed(h, w).mem
         IN  /\ m \in Memories
             /\ m[h.shadow] = h.mem[w]
             /\ m[w] = [h.mem[w] EXCEPT !.marked = TRUE, !.vmt = h.shadow]
             /\ m[w].marked = TRUE /\ m[w].vmt = h.shadow
             /\ m[w].pages = h.mem[w].pages /\ m[w].fields = h.mem[w].fields
             /\ \A p \in Pages : p # w /\ p # h.shadow => m[p] = h.mem[p]
<1> DEFINE m == Claimed(h, w).mem
           a == [h.mem[w] EXCEPT !.marked = TRUE]
           b == [h.mem[w] EXCEPT !.marked = TRUE, !.vmt = h.shadow]
<1>1. h.mem[w] \in Headers
  BY DEF Memories
<1>2. b \in Headers /\ b.marked = TRUE /\ b.vmt = h.shadow /\ b.pages = h.mem[w].pages /\ b.fields = h.mem[w].fields
  BY <1>1 DEF Headers
<1>3. m = [p \in Pages |-> IF p = w THEN b ELSE IF p = h.shadow THEN h.mem[w] ELSE h.mem[p]]
  BY <1>1 DEF Memories, Claimed
<1> HIDE DEF m, b
<1>4. m \in Memories
  BY <1>1, <1>2, <1>3 DEF Memories
<1> QED BY <1>2, <1>3, <1>4 DEF m, b

\* Claiming an object copies its header to the end of the copies.
LEMMA Claims ==
  ASSUME NEW x, NEW h, NEW w, YGContext(x), YGHeap(x, h), w \in x.heads, w \notin Copied(x, h)
  PROVE  LET c == Claimed(h, w)
         IN  /\ YGHeap(x, c)
             /\ Copied(x, c) = Copied(x, h) \cup {w}
             /\ c.mem[w].vmt = h.shadow
             /\ Left(x, c) < Left(x, h)
             /\ \A p \in Copied(x, h) : c.mem[p] = h.mem[p] /\ c.mem[h.mem[p].vmt] = h.mem[h.mem[p].vmt]
             /\ \A q \in Pages : q \notin x.heads /\ q \notin x.low .. x.top - 1 => c.mem[q] = h.mem[q]
<1> DEFINE c == Claimed(h, w)
           size == x.mem[w].pages
<1>1. /\ h.mem \in Memories /\ h.shadow \in Pages /\ h.shadow \in Nat /\ w \in Pages
      /\ x.heads \subseteq Pages /\ Left(x, h) \in Nat /\ size \in Nat /\ size >= 1
      /\ \A q \in x.low .. x.top - 1 : q \in Pages /\ q \notin x.heads
      /\ x.low \in Nat /\ x.top \in Nat /\ x.top <= Limit /\ Limit \in Nat
      /\ Copied(x, h) \subseteq x.heads
      /\ \A p \in Copied(x, h) : h.mem[p].vmt \in x.low .. h.shadow - 1
  BY HeapFacts, Areas DEF YGContext
<1>2. /\ h.mem[w] = x.mem[w] /\ ~h.mem[w].marked
      /\ x.low <= h.shadow /\ h.shadow + Left(x, h) <= x.top
  BY DEF YGHeap, Copied
<1>3. Weight(x.mem, (x.heads \ Copied(x, h)) \ {w}) = Left(x, h) - size
      /\ Weight(x.mem, (x.heads \ Copied(x, h)) \ {w}) \in Nat
  <2> DEFINE S == x.heads \ Copied(x, h)
  <2>1. w \in S /\ w \in 0 .. Limit - 1 /\ \A p \in S : x.mem[p].pages \in Nat
    BY HeapFacts
  <2> HIDE DEF S
  <2>2. Weight(x.mem, S \ {w}) = Weight(x.mem, S) - x.mem[w].pages /\ Weight(x.mem, S \ {w}) \in Nat
    BY <2>1, WeightRemove
  <2> QED BY <2>2 DEF Left, S
<1>4. h.shadow \in x.low .. x.top - 1 /\ h.shadow \notin x.heads /\ h.shadow # w
      /\ h.shadow + size <= x.top
  BY <1>1, <1>2, <1>3
<1>5. /\ c.mem \in Memories
      /\ c.mem[h.shadow] = h.mem[w]
      /\ c.mem[w].marked = TRUE /\ c.mem[w].vmt = h.shadow
      /\ c.mem[w].pages = h.mem[w].pages /\ c.mem[w].fields = h.mem[w].fields
      /\ \A p \in Pages : p # w /\ p # h.shadow => c.mem[p] = h.mem[p]
  BY <1>1, <1>4, ClaimedMemory
<1>6. c.shadow = h.shadow + size
  BY <1>2 DEF Claimed
<1> HIDE DEF c
<1>7. Copied(x, c) = Copied(x, h) \cup {w}
  BY <1>1, <1>4, <1>5 DEF Copied
<1>8. Left(x, c) = Left(x, h) - size
  <2>1. x.heads \ Copied(x, c) = (x.heads \ Copied(x, h)) \ {w}
    BY <1>7
  <2> QED BY <2>1, <1>3 DEF Left
<1>9. \A p \in Copied(x, h) : c.mem[p] = h.mem[p] /\ c.mem[h.mem[p].vmt] = h.mem[h.mem[p].vmt]
  <2> SUFFICES ASSUME NEW p \in Copied(x, h)
               PROVE  c.mem[p] = h.mem[p] /\ c.mem[h.mem[p].vmt] = h.mem[h.mem[p].vmt]
    OBVIOUS
  <2>1. p \in Pages /\ p # w /\ p # h.shadow
    BY <1>1, <1>4
  <2>2. h.mem[p].vmt \in x.low .. h.shadow - 1
    BY <1>1
  <2>3. h.mem[p].vmt \in Pages /\ h.mem[p].vmt # w /\ h.mem[p].vmt # h.shadow
    BY <2>2, <1>1, <1>2, <1>4
  <2> QED BY <2>1, <2>3, <1>5
<1>10. \A q \in Pages : q \notin x.heads /\ q \notin x.low .. x.top - 1 => c.mem[q] = h.mem[q]
  BY <1>4, <1>5
<1>11. Copies(x, c) = Copies(x, h) \cup {h.shadow}
  BY <1>5, <1>7, <1>9 DEF Copies
<1>12. YGHeap(x, c)
  <2>1. c \in Heaps /\ x.low <= c.shadow /\ c.shadow + Left(x, c) <= x.top
    <3>1. c.shadow \in Pages
      BY <1>1, <1>4, <1>6, Areas
    <3>2. c = [mem |-> c.mem, shadow |-> c.shadow]
      BY DEF c, Claimed
    <3>3. c \in Heaps
      BY <3>1, <3>2, <1>5 DEF Heaps
    <3> QED BY <3>3, <1>1, <1>2, <1>6, <1>8
  <2>2. ASSUME NEW p \in x.heads
        PROVE  /\ c.mem[p].pages = x.mem[p].pages
               /\ c.mem[p].fields = x.mem[p].fields
               /\ p \notin Copied(x, c) => c.mem[p] = x.mem[p]
    <3>1. CASE p = w
      BY <3>1, <1>2, <1>5, <1>7
    <3>2. CASE p # w
      <4>1. p \in Pages /\ p # h.shadow
        BY <1>1, <1>4
      <4>2. c.mem[p] = h.mem[p]
        BY <4>1, <3>2, <1>5
      <4> QED BY <4>2, <3>2, <1>7 DEF YGHeap
    <3> QED BY <3>1, <3>2
  <2>3. ASSUME NEW p \in Copied(x, c) PROVE CopyOf(x, c, p, c.mem[p].vmt)
    <3>1. CASE p = w
      BY <3>1, <1>1, <1>2, <1>4, <1>5, <1>6 DEF CopyOf
    <3>2. CASE p # w
      <4>1. p \in Copied(x, h)
        BY <3>2, <1>7
      <4>2. CopyOf(x, h, p, h.mem[p].vmt)
        BY <4>1 DEF YGHeap
      <4>3. c.mem[p].vmt = h.mem[p].vmt /\ c.mem[c.mem[p].vmt] = h.mem[h.mem[p].vmt]
        BY <4>1, <1>9
      <4>4. h.mem[p].vmt \in x.low .. c.shadow - 1
        BY <4>1, <1>1, <1>6
      <4> QED BY <4>2, <4>3, <4>4 DEF CopyOf
    <3> QED BY <3>1, <3>2
  <2>4. ASSUME NEW p \in Copied(x, c), NEW q \in Copied(x, c), c.mem[p].vmt = c.mem[q].vmt
        PROVE  p = q
    <3>1. \A r \in Copied(x, h) : c.mem[r].vmt = h.mem[r].vmt /\ h.mem[r].vmt # h.shadow
      BY <1>1, <1>9
    <3>2. \A r \in Copied(x, c) : r = w \/ r \in Copied(x, h)
      BY <1>7
    <3> QED BY <2>4, <3>1, <3>2, <1>5 DEF YGHeap
  <2>5. Tiled(c.mem, Copies(x, c), x.low, c.shadow)
    <3>1. Tiled(h.mem, Copies(x, h), x.low, h.shadow)
      BY DEF YGHeap
    <3>2. \A q \in Copies(x, h) : c.mem[q].pages = h.mem[q].pages
      BY <1>9 DEF Copies
    <3>3. c.mem[h.shadow].pages = size /\ c.mem[h.shadow].pages \in Nat \ {0}
      BY <1>1, <1>2, <1>5
    <3>4. Tiled(c.mem, Copies(x, h) \cup {h.shadow}, x.low, h.shadow + c.mem[h.shadow].pages)
      BY <3>1, <3>2, <3>3, <1>1, TiledAppend
    <3> QED BY <3>3, <3>4, <1>6, <1>11
  <2>6. ASSUME NEW q \in x.low .. x.top - 1, q \notin Copies(x, c) PROVE c.mem[q] = x.mem[q]
    <3>1. q \in Pages /\ q # h.shadow /\ q # w
      BY <2>6, <1>1, <1>11
    <3>2. c.mem[q] = h.mem[q]
      BY <3>1, <1>5
    <3> QED BY <3>2, <2>6, <1>11 DEF YGHeap
  <2> QED BY <2>1, <2>2, <2>3, <2>4, <2>5, <2>6 DEF YGHeap
<1> QED BY <1>1, <1>5, <1>7, <1>8, <1>9, <1>10, <1>12 DEF c

\* The memory after the fields of an object have been written.
Written(m, q, new) == [m EXCEPT ![q].fields = new]

\* The memory after the fields of one object were written.
LEMMA FieldsMemory ==
  ASSUME NEW m \in Memories, NEW q \in Pages, NEW new \in Words
  PROVE  LET n == Written(m, q, new)
         IN  /\ n \in Memories
             /\ n[q].pages = m[q].pages /\ n[q].marked = m[q].marked /\ n[q].vmt = m[q].vmt
             /\ n[q].fields = new
             /\ \A p \in Pages : p # q => n[p] = m[p]
<1> DEFINE n == Written(m, q, new)
           b == [m[q] EXCEPT !.fields = new]
<1>1. m[q] \in Headers
  BY DEF Memories
<1>2. b \in Headers /\ b.pages = m[q].pages /\ b.marked = m[q].marked /\ b.vmt = m[q].vmt /\ b.fields = new
  BY <1>1 DEF Headers
<1>3. n = [p \in Pages |-> IF p = q THEN b ELSE m[p]]
  BY DEF Memories, Written
<1> HIDE DEF n, b
<1>4. n \in Memories
  BY <1>2, <1>3 DEF Memories
<1>5. n[q] = b /\ \A p \in Pages : p # q => n[p] = m[p]
  BY <1>3
<1> QED BY <1>2, <1>4, <1>5 DEF n, b

Filled(g, q, new) == [g EXCEPT !.mem[q].fields = new]

\* The heap after the fields of one object were written.
LEMMA FilledHeap ==
  ASSUME NEW g \in Heaps, NEW q \in Pages, NEW new \in Words
  PROVE  LET k == Filled(g, q, new)
         IN  /\ k \in Heaps /\ k.shadow = g.shadow /\ k.mem \in Memories
             /\ k.mem[q].pages = g.mem[q].pages /\ k.mem[q].marked = g.mem[q].marked
             /\ k.mem[q].vmt = g.mem[q].vmt
             /\ k.mem[q].fields = new
             /\ \A p \in Pages : p # q => k.mem[p] = g.mem[p]
<1> DEFINE n == Written(g.mem, q, new)
           k == Filled(g, q, new)
<1>1. g.mem \in Memories /\ g.shadow \in Pages
  BY DEF Heaps
<1>2. k = [mem |-> n, shadow |-> g.shadow]
  BY DEF Filled, Heaps, Written
<1>3. /\ n \in Memories
      /\ n[q].pages = g.mem[q].pages /\ n[q].marked = g.mem[q].marked /\ n[q].vmt = g.mem[q].vmt
      /\ n[q].fields = new
      /\ \A p \in Pages : p # q => n[p] = g.mem[p]
  BY <1>1, FieldsMemory
<1> HIDE DEF n, k
<1>4. k \in Heaps /\ k.mem = n /\ k.shadow = g.shadow
  BY <1>1, <1>2, <1>3 DEF Heaps
<1> QED BY <1>3, <1>4 DEF k

\* k is g but for the fields of the copy of w.
Refilled(x, g, w, new, k) ==
  /\ YGHeap(x, k)
  /\ Copied(x, k) = Copied(x, g)
  /\ \A p \in Copied(x, g) : k.mem[p] = g.mem[p]
  /\ \A p \in Copied(x, g) : p # w => k.mem[g.mem[p].vmt] = g.mem[g.mem[p].vmt]
  /\ k.mem[g.mem[w].vmt].fields = new
  /\ \A q \in Pages : q \notin x.heads /\ q \notin x.low .. x.top - 1 => k.mem[q] = g.mem[q]

\* Writing the fields of a copy disturbs nothing else.
LEMMA Fills ==
  ASSUME NEW x, NEW g, NEW w, NEW new \in Words, YGContext(x), YGHeap(x, g), w \in Copied(x, g)
  PROVE  Refilled(x, g, w, new, Filled(g, g.mem[w].vmt, new))
<1> DEFINE v == g.mem[w].vmt
           k == Filled(g, v, new)
<1>1. /\ g.mem \in Memories /\ g.shadow \in Nat
      /\ x.heads \subseteq Pages
      /\ \A q \in x.low .. x.top - 1 : q \in Pages /\ q \notin x.heads
      /\ x.low \in Nat /\ x.top \in Nat /\ g.shadow <= x.top
      /\ Copied(x, g) \subseteq x.heads
      /\ \A p \in Copied(x, g) : g.mem[p].vmt \in x.low .. g.shadow - 1
      /\ g \in Heaps
  BY HeapFacts, Areas DEF YGContext, YGHeap
<1>2. v \in x.low .. x.top - 1 /\ v \in Pages /\ v \notin x.heads /\ v \in Copies(x, g)
  BY <1>1 DEF Copies
<1> HIDE DEF v
<1>3. /\ k \in Heaps /\ k.shadow = g.shadow
      /\ k.mem[v].pages = g.mem[v].pages /\ k.mem[v].marked = g.mem[v].marked
      /\ k.mem[v].vmt = g.mem[v].vmt
      /\ k.mem[v].fields = new
      /\ \A p \in Pages : p # v => k.mem[p] = g.mem[p]
  <2>1. g \in Heaps
    BY DEF YGHeap
  <2>2. v \in Pages
    BY <1>2
  <2> QED BY <2>1, <2>2, FilledHeap
<1> HIDE DEF k
<1>4. \A p \in x.heads : k.mem[p] = g.mem[p]
  BY <1>1, <1>2, <1>3
<1>5. Copied(x, k) = Copied(x, g)
  BY <1>4 DEF Copied
<1>6. Copies(x, k) = Copies(x, g)
  BY <1>1, <1>4, <1>5 DEF Copies
<1>7. \A p \in Copied(x, g) : p # w => k.mem[g.mem[p].vmt] = g.mem[g.mem[p].vmt]
  <2> SUFFICES ASSUME NEW p \in Copied(x, g), p # w PROVE k.mem[g.mem[p].vmt] = g.mem[g.mem[p].vmt]
    OBVIOUS
  <2>1. g.mem[p].vmt # v
    BY DEF YGHeap, v
  <2>2. g.mem[p].vmt \in x.low .. x.top - 1
    BY <1>1
  <2> QED BY <2>1, <2>2, <1>1, <1>3
<1>8. YGHeap(x, k)
  <2>1. Left(x, k) = Left(x, g)
    BY <1>5 DEF Left
  <2>2. k \in Heaps /\ x.low <= k.shadow /\ k.shadow + Left(x, k) <= x.top
    BY <2>1, <1>3 DEF YGHeap
  <2>3. \A p \in x.heads : /\ k.mem[p].pages = x.mem[p].pages
                           /\ k.mem[p].fields = x.mem[p].fields
                           /\ p \notin Copied(x, k) => k.mem[p] = x.mem[p]
    BY <1>4, <1>5 DEF YGHeap
  <2>4. ASSUME NEW p \in Copied(x, k) PROVE CopyOf(x, k, p, k.mem[p].vmt)
    <3>1. p \in Copied(x, g) /\ k.mem[p] = g.mem[p] /\ CopyOf(x, g, p, g.mem[p].vmt)
      BY <1>1, <1>4, <1>5 DEF YGHeap
    <3>2. CASE p = w
      BY <3>1, <3>2, <1>3 DEF CopyOf, v
    <3>3. CASE p # w
      BY <3>1, <3>3, <1>3, <1>7 DEF CopyOf
    <3> QED BY <3>2, <3>3
  <2>5. \A p, q \in Copied(x, k) : k.mem[p].vmt = k.mem[q].vmt => p = q
    BY <1>1, <1>4, <1>5 DEF YGHeap
  <2>6. Tiled(k.mem, Copies(x, k), x.low, k.shadow)
    <3>1. \A q \in Copies(x, g) : k.mem[q].pages = g.mem[q].pages
      <4> SUFFICES ASSUME NEW q \in Copies(x, g) PROVE k.mem[q].pages = g.mem[q].pages
        OBVIOUS
      <4>1. q \in Pages
        BY <1>1 DEF Copies
      <4> QED BY <4>1, <1>3
    <3> QED BY <3>1, <1>3, <1>6, TiledAgree DEF YGHeap
  <2>7. ASSUME NEW q \in x.low .. x.top - 1, q \notin Copies(x, k) PROVE k.mem[q] = x.mem[q]
    <3>1. q # v /\ q \in Pages
      BY <2>7, <1>1, <1>2, <1>6
    <3> QED BY <3>1, <2>7, <1>3, <1>6 DEF YGHeap
  <2> QED BY <2>2, <2>3, <2>4, <2>5, <2>6, <2>7 DEF YGHeap
<1>9. \A q \in Pages : q \notin x.heads /\ q \notin x.low .. x.top - 1 => k.mem[q] = g.mem[q]
  BY <1>2, <1>3
<1>10. Refilled(x, g, w, new, k)
  BY <1>1, <1>3, <1>4, <1>5, <1>7, <1>8, <1>9 DEF Refilled, v
<1> QED BY <1>10 DEF k, v

-----------------------------------------------------------------------------
(* One word, a list of words, and all depths.                              *)

\* What was forwarded stays forwarded.
LEMMA ForwardedLater ==
  ASSUME NEW x, NEW g, NEW h, YGStep(x, g, h), NEW words, NEW new, Forwarded(x, g, words, new)
  PROVE  Forwarded(x, h, words, new)
<1>1. \A p \in Copied(x, g) : p \in Copied(x, h) /\ h.mem[p] = g.mem[p]
  BY DEF YGStep
<1> QED BY <1>1 DEF Forwarded

\* Nothing is a step.
LEMMA StepReflexive ==
  ASSUME NEW x, NEW h
  PROVE  YGStep(x, h, h)
BY DEF YGStep

\* Two steps are a step.
LEMMA StepTransitive ==
  ASSUME NEW x, NEW f, NEW g, NEW h, YGStep(x, f, g), YGStep(x, g, h)
  PROVE  YGStep(x, f, h)
<1>1. Copied(x, f) \subseteq Copied(x, h)
  BY DEF YGStep
<1>2. ASSUME NEW p \in Copied(x, f)
      PROVE  h.mem[p] = f.mem[p] /\ h.mem[f.mem[p].vmt] = f.mem[f.mem[p].vmt]
  <2>1. p \in Copied(x, g) /\ g.mem[p] = f.mem[p] /\ g.mem[f.mem[p].vmt] = f.mem[f.mem[p].vmt]
    BY DEF YGStep
  <2>2. h.mem[p] = g.mem[p] /\ h.mem[g.mem[p].vmt] = g.mem[g.mem[p].vmt]
    BY <2>1 DEF YGStep
  <2> QED BY <2>1, <2>2
<1>3. ASSUME NEW p \in Copied(x, h) \ Copied(x, f)
      PROVE  /\ Len(h.mem[h.mem[p].vmt].fields) = Len(x.mem[p].fields)
             /\ Forwarded(x, h, x.mem[p].fields, h.mem[h.mem[p].vmt].fields)
  <2>1. CASE p \in Copied(x, g)
    <3>1. /\ Len(g.mem[g.mem[p].vmt].fields) = Len(x.mem[p].fields)
          /\ Forwarded(x, g, x.mem[p].fields, g.mem[g.mem[p].vmt].fields)
      BY <2>1 DEF YGStep
    <3>2. h.mem[p] = g.mem[p] /\ h.mem[g.mem[p].vmt] = g.mem[g.mem[p].vmt]
      BY <2>1 DEF YGStep
    <3>3. Forwarded(x, h, x.mem[p].fields, g.mem[g.mem[p].vmt].fields)
      BY <3>1, ForwardedLater
    <3> QED BY <3>1, <3>2, <3>3
  <2>2. CASE p \notin Copied(x, g)
    BY <2>2 DEF YGStep
  <2> QED BY <2>1, <2>2
<1>4. \A q \in Pages : q \notin x.heads /\ q \notin x.low .. x.top - 1 => h.mem[q] = f.mem[q]
  BY DEF YGStep
<1> QED BY <1>1, <1>2, <1>3, <1>4 DEF YGStep

\* A step leaves no more pages to copy.
LEMMA LeftShrinks ==
  ASSUME NEW x, NEW g, NEW h, YGContext(x), YGHeap(x, g), YGHeap(x, h), YGStep(x, g, h)
  PROVE  Left(x, h) <= Left(x, g)
<1> DEFINE S == x.heads \ Copied(x, g)
           R == x.heads \ Copied(x, h)
<1>1. R \subseteq S
  BY DEF YGStep
<1>2. \A p \in S : x.mem[p].pages \in Nat
  BY HeapFacts
<1> HIDE DEF R, S
<1>3. Weight(x.mem, R) <= Weight(x.mem, S)
  BY <1>1, <1>2, WeightSubset
<1> QED BY <1>3 DEF Left, R, S

\* What n of the words have become.
Passed(x, h, words, n, acc) ==
  /\ YGHeap(x, acc.h) /\ YGStep(x, h, acc.h)
  /\ acc.words \in Words /\ Len(acc.words) = n
  /\ Forwarded(x, acc.h, words, acc.words)

\* After all words the collection of the words is done.
LEMMA PassedAll ==
  ASSUME NEW x, NEW h, NEW words, NEW acc, Passed(x, h, words, Len(words), acc)
  PROVE  YGResult(x, h, words, acc)
BY DEF Passed, YGResult

\* The loop starts with no word passed.
LEMMA PassedNone ==
  ASSUME NEW x, NEW h, NEW words, YGHeap(x, h)
  PROVE  Passed(x, h, words, 0, [h |-> h, words |-> <<>>])
<1>1. <<>> \in Words /\ Len(<<>>) = 0
  BY DEF Words
<1>2. Forwarded(x, h, words, <<>>)
  BY DEF Forwarded
<1> QED BY <1>1, <1>2, StepReflexive DEF Passed

\* A word is appended.
LEMMA WordAppended ==
  ASSUME NEW x, NEW g, NEW words, NEW old \in Words, NEW n \in Nat, Len(old) = n, Forwarded(x, g, words, old),
         NEW word \in Pages \cup {Nil},
         IF Within(words[n + 1], x.start, x.end)
         THEN words[n + 1] \in Copied(x, g) /\ word = g.mem[words[n + 1]].vmt
         ELSE word = words[n + 1]
  PROVE  LET new == Append(old, word)
         IN  new \in Words /\ Len(new) = n + 1 /\ Forwarded(x, g, words, new)
<1> DEFINE new == Append(old, word)
<1>1. new \in Words /\ Len(new) = n + 1
  BY DEF Words
<1>2. \A i \in 1 .. n : new[i] = old[i]
  BY DEF Words
<1>3. new[n + 1] = word
  BY DEF Words
<1> HIDE DEF new
<1>4. ASSUME NEW i \in 1 .. Len(new)
      PROVE  IF Within(words[i], x.start, x.end)
             THEN words[i] \in Copied(x, g) /\ new[i] = g.mem[words[i]].vmt
             ELSE new[i] = words[i]
  <2>1. i \in 1 .. n \/ i = n + 1
    BY <1>1
  <2>2. CASE i \in 1 .. n
    BY <2>2, <1>2 DEF Forwarded
  <2>3. CASE i = n + 1
    BY <2>3, <1>3
  <2> QED BY <2>1, <2>2, <2>3
<1>5. Forwarded(x, g, words, new)
  BY <1>4 DEF Forwarded
<1> QED BY <1>1, <1>5 DEF new

\* An object is claimed, its fields are collected, and then copied.
Entered(collect, h, w) == Filled(collect[Claimed(h, w)][h.mem[w].fields].h, h.shadow,
                                 collect[Claimed(h, w)][h.mem[w].fields].words)

\* An object that is entered is copied, with what it refers to.
LEMMA Enters ==
  ASSUME NEW x, NEW collect, NEW depth \in Nat, NEW h, NEW w,
         YGContext(x), YGWorks(x, collect, depth), YGHeap(x, h), Left(x, h) < depth + 1,
         w \in x.heads, w \notin Copied(x, h)
  PROVE  LET k == Entered(collect, h, w)
         IN  /\ YGHeap(x, k) /\ YGStep(x, h, k)
             /\ w \in Copied(x, k) /\ k.mem[w].vmt = h.shadow
<1> DEFINE c == Claimed(h, w)
           f == x.mem[w].fields
           r == collect[c][f]
           g == r.h
           k == Filled(g, h.shadow, r.words)
<1>1. /\ YGHeap(x, c)
      /\ Copied(x, c) = Copied(x, h) \cup {w}
      /\ c.mem[w].vmt = h.shadow
      /\ Left(x, c) < Left(x, h)
      /\ \A p \in Copied(x, h) : c.mem[p] = h.mem[p] /\ c.mem[h.mem[p].vmt] = h.mem[h.mem[p].vmt]
      /\ \A q \in Pages : q \notin x.heads /\ q \notin x.low .. x.top - 1 => c.mem[q] = h.mem[q]
  BY Claims
<1> HIDE DEF c
<1>2. f \in Words /\ Proper(x, f) /\ h.mem[w].fields = f
  <2>1. w \in Pages /\ x.mem \in Memories
    BY HeapFacts DEF YGContext
  <2> QED BY <2>1, HeaderType DEF YGContext, YGHeap
<1> HIDE DEF f
<1>3. c \in Heaps /\ Left(x, c) < depth
  <2>1. Left(x, h) \in Nat /\ Left(x, c) \in Nat
    BY <1>1, HeapFacts
  <2> QED BY <2>1, <1>1 DEF YGHeap
<1>4. YGResult(x, c, f, r)
  BY <1>1, <1>2, <1>3 DEF YGWorks
<1> HIDE DEF r
<1>5. YGHeap(x, g) /\ YGStep(x, c, g) /\ r.words \in Words /\ Len(r.words) = Len(f)
      /\ Forwarded(x, g, f, r.words)
  BY <1>4 DEF YGResult
<1> HIDE DEF g
<1>6. w \in Copied(x, g) /\ g.mem[w].vmt = h.shadow
  BY <1>1, <1>5 DEF YGStep
<1>7. k = Filled(g, g.mem[w].vmt, r.words)
  BY <1>6
<1> HIDE DEF k
<1>8. /\ YGHeap(x, k)
      /\ Copied(x, k) = Copied(x, g)
      /\ \A p \in Copied(x, g) : k.mem[p] = g.mem[p]
      /\ \A p \in Copied(x, g) : p # w => k.mem[g.mem[p].vmt] = g.mem[g.mem[p].vmt]
      /\ k.mem[g.mem[w].vmt].fields = r.words
      /\ \A q \in Pages : q \notin x.heads /\ q \notin x.low .. x.top - 1 => k.mem[q] = g.mem[q]
  <2> DEFINE new == r.words
  <2>1. new \in Words
    BY <1>5
  <2> HIDE DEF new
  <2>2. k = Filled(g, g.mem[w].vmt, new)
    BY <1>7 DEF new
  <2>3. Refilled(x, g, w, new, Filled(g, g.mem[w].vmt, new))
    BY <1>5, <1>6, <2>1, Fills
  <2>4. Refilled(x, g, w, new, k)
    BY <2>2, <2>3
  <2> QED BY <2>4 DEF new, Refilled
<1>9. \A words, new : Forwarded(x, g, words, new) => Forwarded(x, k, words, new)
  BY <1>8 DEF Forwarded
<1>10. YGStep(x, h, k)
  <2>1. Copied(x, h) \subseteq Copied(x, k)
    BY <1>1, <1>5, <1>8 DEF YGStep
  <2>2. ASSUME NEW p \in Copied(x, h)
        PROVE  k.mem[p] = h.mem[p] /\ k.mem[h.mem[p].vmt] = h.mem[h.mem[p].vmt]
    <3>1. p # w /\ p \in Copied(x, c) /\ c.mem[p] = h.mem[p] /\ c.mem[h.mem[p].vmt] = h.mem[h.mem[p].vmt]
      BY <1>1
    <3>2. p \in Copied(x, g) /\ g.mem[p] = c.mem[p] /\ g.mem[c.mem[p].vmt] = c.mem[c.mem[p].vmt]
      BY <3>1, <1>5 DEF YGStep
    <3>3. k.mem[p] = g.mem[p] /\ k.mem[g.mem[p].vmt] = g.mem[g.mem[p].vmt]
      BY <3>1, <3>2, <1>8
    <3> QED BY <3>1, <3>2, <3>3
  <2>3. ASSUME NEW p \in Copied(x, k) \ Copied(x, h)
        PROVE  /\ Len(k.mem[k.mem[p].vmt].fields) = Len(x.mem[p].fields)
               /\ Forwarded(x, k, x.mem[p].fields, k.mem[k.mem[p].vmt].fields)
    <3>1. CASE p = w
      <4>1. k.mem[k.mem[w].vmt].fields = r.words
        BY <1>6, <1>8
      <4> QED BY <4>1, <3>1, <1>5, <1>9 DEF f
    <3>2. CASE p # w
      <4>1. p \in Copied(x, g) \ Copied(x, c)
        BY <3>2, <1>1, <1>8
      <4>2. /\ Len(g.mem[g.mem[p].vmt].fields) = Len(x.mem[p].fields)
            /\ Forwarded(x, g, x.mem[p].fields, g.mem[g.mem[p].vmt].fields)
        BY <4>1, <1>5 DEF YGStep
      <4>3. k.mem[k.mem[p].vmt] = g.mem[g.mem[p].vmt]
        BY <4>1, <3>2, <1>8
      <4> QED BY <4>2, <4>3, <1>9
    <3> QED BY <3>1, <3>2
  <2>4. \A q \in Pages : q \notin x.heads /\ q \notin x.low .. x.top - 1 => k.mem[q] = h.mem[q]
    BY <1>1, <1>5, <1>8 DEF YGStep
  <2> QED BY <2>1, <2>2, <2>3, <2>4 DEF YGStep
<1>11. w \in Copied(x, k) /\ k.mem[w].vmt = h.shadow
  BY <1>6, <1>8
<1>12. k = Entered(collect, h, w)
  BY <1>2 DEF Entered, k, g, r, c
<1> QED BY <1>8, <1>10, <1>11, <1>12

\* Visiting one more word passes it.
LEMMA Visits ==
  ASSUME NEW x, NEW collect, NEW depth \in Nat, NEW f, NEW words \in Words, NEW n \in Nat, NEW acc,
         n < Len(words), YGContext(x), YGWorks(x, collect, depth), YGHeap(x, f), Left(x, f) < depth + 1,
         Proper(x, words), Passed(x, f, words, n, acc)
  PROVE  Passed(x, f, words, n + 1, YGVisit(collect, x.start, x.end, acc, words[n + 1]))
<1> DEFINE h == acc.h
           w == words[n + 1]
           new == YGVisit(collect, x.start, x.end, acc, w)
<1>1. /\ YGHeap(x, h) /\ YGStep(x, f, h) /\ acc.words \in Words /\ Len(acc.words) = n
      /\ Forwarded(x, h, words, acc.words)
  BY DEF Passed
<1>2. Left(x, h) < depth + 1
  <2>1. Left(x, h) <= Left(x, f) /\ Left(x, h) \in Nat /\ Left(x, f) \in Nat
    BY <1>1, LeftShrinks, HeapFacts
  <2> QED BY <2>1
<1>3. w \in Pages \cup {Nil} /\ n + 1 \in 1 .. Len(words)
  BY ElementOfSeq, LenProperties DEF Words
<1>4. Within(w, x.start, x.end) => w \in x.heads
  BY <1>3 DEF Proper
<1>5. CASE ~Within(w, x.start, x.end)
  <2>1. new = [h |-> h, words |-> Append(acc.words, w)]
    BY <1>5 DEF YGVisit
  <2>2. LET m == Append(acc.words, w) IN m \in Words /\ Len(m) = n + 1 /\ Forwarded(x, h, words, m)
    BY <1>1, <1>3, <1>5, WordAppended
  <2> QED BY <2>1, <2>2, <1>1 DEF Passed
<1>6. CASE Within(w, x.start, x.end) /\ h.mem[w].marked
  <2>1. new = [h |-> h, words |-> Append(acc.words, h.mem[w].vmt)]
    BY <1>6 DEF YGVisit
  <2>2. w \in Copied(x, h)
    BY <1>4, <1>6 DEF Copied
  <2>3. h.mem[w].vmt \in Pages \cup {Nil}
    <3>1. h.mem[w].vmt \in x.low .. h.shadow - 1 /\ h.shadow <= x.top /\ h.shadow \in Nat
      BY <2>2, <1>1, HeapFacts
    <3>2. x.low \in Nat /\ x.top \in Nat /\ x.top <= Limit
      <4>1. x.low \in Nat /\ x.top \in 0 .. Limit
        BY DEF YGContext
      <4>2. Limit \in Nat
        BY Areas
      <4> QED BY <4>1, <4>2
    <3>3. h.mem[w].vmt \in 0 .. Limit
      <4> DEFINE v == h.mem[w].vmt  top == h.shadow  low == x.low
      <4>1. v \in low .. top - 1 /\ top \in Nat /\ low \in Nat /\ top <= Limit /\ Limit \in Nat
        <5>1. v \in low .. top - 1 /\ top \in Nat /\ top <= x.top
          BY <3>1
        <5>2. Limit \in Nat
          BY Areas
        <5> QED BY <5>1, <5>2, <3>2
      <4> HIDE DEF v, top, low
      <4>2. v \in 0 .. Limit
        BY <4>1
      <4> QED BY <4>2 DEF v
    <3> QED BY <3>3, Areas
  <2>4. LET m == Append(acc.words, h.mem[w].vmt) IN m \in Words /\ Len(m) = n + 1 /\ Forwarded(x, h, words, m)
    <3> DEFINE v == h.mem[w].vmt
    <3>1. v \in Pages \cup {Nil} /\ v = h.mem[w].vmt
      BY <2>3
    <3> HIDE DEF v
    <3>2. LET m == Append(acc.words, v) IN m \in Words /\ Len(m) = n + 1 /\ Forwarded(x, h, words, m)
      BY <1>1, <1>6, <2>2, <3>1, WordAppended
    <3> QED BY <3>1, <3>2
  <2> QED BY <2>1, <2>4, <1>1 DEF Passed
<1>7. CASE Within(w, x.start, x.end) /\ ~h.mem[w].marked
  <2> DEFINE k == Entered(collect, h, w)
  <2>1. new = [h |-> k, words |-> Append(acc.words, h.shadow)]
    BY <1>7 DEF YGVisit, Entered, Filled, Claimed
  <2>2. w \in x.heads /\ w \notin Copied(x, h)
    BY <1>4, <1>7 DEF Copied
  <2>3. YGHeap(x, k) /\ YGStep(x, h, k) /\ w \in Copied(x, k) /\ k.mem[w].vmt = h.shadow
    BY <2>2, <1>1, <1>2, Enters
  <2> HIDE DEF k
  <2>4. h.shadow \in Pages \cup {Nil}
    BY <1>1, HeapFacts
  <2>5. YGStep(x, f, k)
    BY <2>3, <1>1, StepTransitive
  <2>6. Forwarded(x, k, words, acc.words)
    BY <2>3, <1>1, ForwardedLater
  <2>7. LET m == Append(acc.words, h.shadow) IN m \in Words /\ Len(m) = n + 1 /\ Forwarded(x, k, words, m)
    <3> DEFINE v == h.shadow
    <3>1. v \in Pages \cup {Nil} /\ v = k.mem[w].vmt
      BY <2>3, <2>4
    <3> HIDE DEF v
    <3>2. LET m == Append(acc.words, v) IN m \in Words /\ Len(m) = n + 1 /\ Forwarded(x, k, words, m)
      BY <1>1, <1>7, <2>3, <2>6, <3>1, WordAppended
    <3> QED BY <3>2 DEF v
  <2> QED BY <2>1, <2>3, <2>5, <2>7 DEF Passed
<1> QED BY <1>5, <1>6, <1>7

\* Visiting all the words collects them.
LEMMA VisitsAll ==
  ASSUME NEW x, NEW collect, NEW depth \in Nat, NEW h, NEW words \in Words,
         YGContext(x), YGWorks(x, collect, depth), YGHeap(x, h), Left(x, h) < depth + 1,
         Proper(x, words)
  PROVE  YGResult(x, h, words, YGVisits(collect, x.start, x.end, h, words)[Len(words)])
<1> DEFINE visit == YGVisits(collect, x.start, x.end, h, words)
           T == {n \in Nat : Passed(x, h, words, n, visit[n])}
<1>1. Len(words) \in Nat
  BY LenProperties DEF Words
<1>2. Visiting(visit, collect, x.start, x.end, h, words)
  BY <1>1, YGVisitsDef
<1> HIDE DEF visit
<1>3. visit[0] = [h |-> h, words |-> <<>>]
      /\ \A n \in 1 .. Len(words) : visit[n] = YGVisit(collect, x.start, x.end, visit[n - 1], words[n])
  BY <1>2 DEF Visiting
<1>4. 0 \in T
  BY <1>3, PassedNone
<1>5. ASSUME NEW n \in 0 .. Len(words) - 1, n \in T PROVE n + 1 \in T
  <2>1. n \in Nat /\ n < Len(words) /\ Passed(x, h, words, n, visit[n])
    BY <1>1, <1>5
  <2>2. Passed(x, h, words, n + 1, YGVisit(collect, x.start, x.end, visit[n], words[n + 1]))
    BY <2>1, Visits
  <2>3. n + 1 \in 1 .. Len(words) /\ (n + 1) - 1 = n
    BY <2>1, <1>1
  <2>4. visit[n + 1] = YGVisit(collect, x.start, x.end, visit[n], words[n + 1])
    BY <2>3, <1>3
  <2> QED BY <2>1, <2>2, <2>4
<1>6. Len(words) \in T
  <2> HIDE DEF T
  <2>1. \A n \in 0 .. Len(words) : n \in T
    BY <1>1, <1>4, <1>5, UpTo
  <2> QED BY <2>1, <1>1
<1> QED BY <1>6, PassedAll DEF visit

\* YGCollect works at every depth that the pages left to copy allow.
LEMMA YGDepths ==
  ASSUME NEW x, YGContext(x)
  PROVE  \A depth \in 0 .. MaxDepth : YGWorks(x, YGCollects(x.start, x.end)[depth], depth)
<1> DEFINE collect == YGCollects(x.start, x.end)
           T == {n \in Nat : YGWorks(x, collect[n], n)}
<1>0. MaxDepth \in Nat
  BY Areas DEF MaxDepth
<1>1. Collecting(collect, x.start, x.end)
  BY YGCollectsDef
<1> HIDE DEF collect
<1>2. \A n \in 0 .. MaxDepth : collect[n] =
        [h \in Heaps |-> [words \in Words |-> IF n = 0 THEN [h |-> h, words |-> words]
                                              ELSE YGVisits(collect[n - 1], x.start, x.end, h, words)[Len(words)]]]
  BY <1>1 DEF Collecting
<1>2a. ASSUME NEW n \in 0 .. MaxDepth, n # 0, NEW h \in Heaps, NEW words \in Words
       PROVE  collect[n][h][words] = YGVisits(collect[n - 1], x.start, x.end, h, words)[Len(words)]
  <2> DEFINE R(g, w) == YGVisits(collect[n - 1], x.start, x.end, g, w)[Len(w)]
  <2>1. collect[n] = [g \in Heaps |-> [w \in Words |-> IF n = 0 THEN [h |-> g, words |-> w] ELSE R(g, w)]]
    BY <1>2, <1>2a
  <2> HIDE DEF R
  <2>2. collect[n] = [g \in Heaps |-> [w \in Words |-> R(g, w)]]
    BY <1>2a, <2>1
  <2>3. collect[n][h][words] = R(h, words)
    BY <2>2, <1>2a
  <2> QED BY <2>3 DEF R
<1>3. 0 \in T
  <2>1. \A h : YGHeap(x, h) => Left(x, h) \in Nat
    BY HeapFacts
  <2> QED BY <2>1 DEF YGWorks
<1>4. ASSUME NEW n \in 0 .. MaxDepth - 1, n \in T PROVE n + 1 \in T
  <2>1. n \in Nat /\ n + 1 \in 0 .. MaxDepth /\ (n + 1) - 1 = n /\ n + 1 # 0 /\ YGWorks(x, collect[n], n)
    BY <1>0, <1>4
  <2>2. ASSUME NEW h \in Heaps, NEW words \in Words, YGHeap(x, h), Proper(x, words), Left(x, h) < n + 1
        PROVE  YGResult(x, h, words, collect[n + 1][h][words])
    <3>1. YGResult(x, h, words, YGVisits(collect[n], x.start, x.end, h, words)[Len(words)])
      BY <2>1, <2>2, VisitsAll
    <3>2. collect[n + 1][h][words] = YGVisits(collect[n], x.start, x.end, h, words)[Len(words)]
      <4> DEFINE k == n + 1
      <4>1. k \in 0 .. MaxDepth /\ k # 0 /\ k - 1 = n
        BY <2>1
      <4> HIDE DEF k
      <4>2. collect[k][h][words] = YGVisits(collect[k - 1], x.start, x.end, h, words)[Len(words)]
        BY <4>1, <2>2, <1>2a
      <4> QED BY <4>1, <4>2 DEF k
    <3> QED BY <3>1, <3>2
  <2>3. YGWorks(x, collect[n + 1], n + 1)
    BY <2>2 DEF YGWorks
  <2> QED BY <2>1, <2>3
<1>5. \A n \in 0 .. MaxDepth : n \in T
  <2> HIDE DEF T
  <2> QED BY <1>0, <1>3, <1>4, UpTo
<1> QED BY <1>5 DEF collect

-----------------------------------------------------------------------------
(* Where the objects of a state are.                                       *)

\* What TableOK says of the table, area by area.
LEMMA TableFacts ==
  ASSUME NEW t, TableOK(t)
  PROVE  /\ t \in Tables
         /\ t.gc_yg_start \in Nat /\ t.gc_yg_current \in Nat /\ t.gc_yg_end \in Nat
         /\ t.gc_shadow \in Nat /\ t.gc_shadow_end \in Nat
         /\ t.gc_yg_start <= t.gc_yg_current /\ t.gc_yg_current <= t.gc_yg_end
         /\ t.gc_yg_end = t.gc_yg_start + YGSize /\ t.gc_shadow_end = t.gc_shadow + YGSize
         /\ t.gc_yg_end <= 2 * YGSize /\ t.gc_shadow_end <= 2 * YGSize
         /\ t.gc_yg_end <= t.gc_shadow \/ t.gc_shadow_end <= t.gc_yg_start
         /\ t.gc_mg_start = 2 * YGSize /\ t.gc_mg_current \in Nat
         /\ 2 * YGSize <= t.gc_mg_current /\ t.gc_mg_current <= Limit
         /\ t.gc_end \in Nat /\ 2 * YGSize <= t.gc_end /\ t.gc_end <= Limit
         /\ t.gc_perm_start = PermStart /\ t.gc_perm_current \in Nat
         /\ PermStart <= t.gc_perm_current /\ t.gc_perm_current <= PermStart + PermSize
<1>1. t \in Tables
  BY DEF TableOK
<1>2. /\ t.gc_yg_start \in Nat /\ t.gc_yg_current \in Nat /\ t.gc_yg_end \in Nat
      /\ t.gc_shadow \in Nat /\ t.gc_shadow_end \in Nat /\ t.gc_mg_current \in Nat
      /\ t.gc_end \in Nat /\ t.gc_perm_current \in Nat
  BY <1>1 DEF Tables
<1>3. /\ t.gc_yg_end = t.gc_yg_start + YGSize /\ t.gc_shadow_end = t.gc_shadow + YGSize
      /\ t.gc_yg_end <= 2 * YGSize /\ t.gc_shadow_end <= 2 * YGSize
      /\ t.gc_yg_end <= t.gc_shadow \/ t.gc_shadow_end <= t.gc_yg_start
  BY Areas DEF TableOK
<1>4. /\ t.gc_yg_start <= t.gc_yg_current /\ t.gc_yg_current <= t.gc_yg_end
  BY <1>2 DEF TableOK
<1>5. /\ t.gc_mg_start = 2 * YGSize /\ 2 * YGSize <= t.gc_mg_current /\ t.gc_mg_current <= Limit
      /\ 2 * YGSize <= t.gc_end /\ t.gc_end <= Limit
  BY <1>2, Areas DEF TableOK
<1>6. /\ t.gc_perm_start = PermStart
      /\ PermStart <= t.gc_perm_current /\ t.gc_perm_current <= PermStart + PermSize
  BY <1>2, Areas DEF TableOK
<1> QED BY <1>1, <1>2, <1>3, <1>4, <1>5, <1>6

\* The objects of each generation are where it is.
Placed(s) ==
  /\ \A p \in YoungHeads(s) : /\ p \in Nat /\ s.table.gc_yg_start <= p /\ p < s.table.gc_yg_current
                              /\ p \in Pages /\ p \in Cells(s) /\ ~s.mem[p].marked
  /\ \A p \in MatureHeads(s) : p \in Nat /\ 2 * YGSize <= p /\ p < s.table.gc_mg_current /\ p \in Pages
  /\ \A p \in PermHeads(s) : /\ p \in Nat /\ PermStart <= p /\ p < s.table.gc_perm_current
                             /\ p \in Pages /\ p \in Cells(s) /\ ~s.mem[p].marked
  /\ \A p \in Cells(s) : /\ p \in Pages /\ p # Nil /\ ~s.mem[p].marked
                         /\ p \in YoungHeads(s) \/ p \in MatureHeads(s) \/ p \in PermHeads(s)

\* Every object lies in the area of its walk, and the areas are disjoint.
LEMMA CellsPlaced ==
  ASSUME NEW s, TableOK(s.table), Covered(s), Rest(s)
  PROVE  Placed(s)
<1> DEFINE t == s.table
<1>1. TableOK(t)
  OBVIOUS
<1> HIDE DEF t
<1>2. /\ t.gc_yg_start \in Nat /\ t.gc_yg_current \in Nat /\ t.gc_yg_end \in Nat
      /\ t.gc_yg_start <= t.gc_yg_current /\ t.gc_yg_current <= t.gc_yg_end
      /\ t.gc_yg_end <= 2 * YGSize
      /\ t.gc_mg_start = 2 * YGSize /\ t.gc_mg_current \in Nat
      /\ 2 * YGSize <= t.gc_mg_current /\ t.gc_mg_current <= Limit
      /\ t.gc_perm_start = PermStart /\ t.gc_perm_current \in Nat
      /\ PermStart <= t.gc_perm_current /\ t.gc_perm_current <= PermStart + PermSize
  BY <1>1, TableFacts
<1>3. /\ \A p \in YoungHeads(s) : p \in Nat /\ t.gc_yg_start <= p /\ p < t.gc_yg_current /\ p \in 0 .. 2 * YGSize - 1
      /\ \A p \in MatureHeads(s) : p \in Nat /\ 2 * YGSize <= p /\ p < t.gc_mg_current /\ p \in 0 .. Limit
      /\ \A p \in PermHeads(s) : p \in Nat /\ PermStart <= p /\ p < t.gc_perm_current
  <2>1. /\ YoungHeads(s) \subseteq t.gc_yg_start .. t.gc_yg_current - 1
        /\ MatureHeads(s) \subseteq t.gc_mg_start .. t.gc_mg_current - 1
        /\ PermHeads(s) \subseteq t.gc_perm_start .. t.gc_perm_current - 1
    BY DEF Covered, Tiled, t
  <2> QED BY <2>1, <1>2, Areas
<1>4. \A p \in YoungHeads(s) \cup MatureHeads(s) \cup PermHeads(s) : p \in Pages /\ p # Nil
  BY <1>2, <1>3, Areas
<1>5. \A p \in YoungHeads(s) \cup PermHeads(s) : ~s.mem[p].marked
  <2>1. \A p \in YoungHeads(s) \cup PermHeads(s) : p \in Nat /\ (p < 2 * YGSize \/ Limit <= p)
    BY <1>2, <1>3, Areas
  <2>2. \A p \in Pages : s.mem[p].marked => p \in 2 * YGSize .. Limit - 1
    BY DEF Rest
  <2>3. ASSUME NEW p \in YoungHeads(s) \cup PermHeads(s) PROVE p \in Pages /\ p \notin 2 * YGSize .. Limit - 1
    BY <1>4, <2>1, Areas
  <2> QED BY <2>2, <2>3
<1> QED BY <1>3, <1>4, <1>5 DEF Placed, Cells, t

\* An object in the young generation is one its walk finds, and none lies in
\* the shadow.
LEMMA Generations ==
  ASSUME NEW s, TableOK(s.table), Placed(s), NEW p \in Cells(s)
  PROVE  /\ Within(p, s.table.gc_yg_start, s.table.gc_yg_end) => p \in YoungHeads(s)
         /\ p \notin s.table.gc_shadow .. s.table.gc_shadow_end - 1
<1> DEFINE t == s.table
<1>1. TableOK(t)
  OBVIOUS
<1>2. Placed(s)
  OBVIOUS
<1>3. CASE p \in YoungHeads(s)
  <2>1. p \in Nat /\ t.gc_yg_start <= p /\ p < t.gc_yg_current
    BY <1>2, <1>3 DEF Placed
  <2> HIDE DEF t
  <2>2. p \notin t.gc_shadow .. t.gc_shadow_end - 1
    BY <2>1, <1>1, TableFacts, Areas
  <2> QED BY <2>2, <1>3 DEF t
<1>4. CASE p \in MatureHeads(s) \/ p \in PermHeads(s)
  <2>1. p \in Nat /\ 2 * YGSize <= p
    BY <1>2, <1>4, Areas DEF Placed
  <2> HIDE DEF t
  <2>2. p \notin t.gc_shadow .. t.gc_shadow_end - 1 /\ ~Within(p, t.gc_yg_start, t.gc_yg_end)
    BY <2>1, <1>1, TableFacts, Areas DEF Within
  <2> QED BY <2>2 DEF t
<1> QED BY <1>2, <1>3, <1>4 DEF Placed

-----------------------------------------------------------------------------
(* The context of a minor collection.                                      *)

MinorContext(s) ==
  [mem |-> s.mem, start |-> s.table.gc_yg_start, end |-> s.table.gc_yg_end, heads |-> YoungHeads(s),
   low |-> s.table.gc_shadow, top |-> s.table.gc_shadow_end]

\* The context of a minor collection.
LEMMA ContextFields ==
  ASSUME NEW s, NEW x, x = MinorContext(s)
  PROVE  /\ x.mem = s.mem /\ x.start = s.table.gc_yg_start /\ x.end = s.table.gc_yg_end
         /\ x.heads = YoungHeads(s) /\ x.low = s.table.gc_shadow /\ x.top = s.table.gc_shadow_end
BY DEF MinorContext

\* The fields and the roots are words that a minor collection may visit.
LEMMA MinorProper ==
  ASSUME NEW s, HeapOK(s), NEW x, x = MinorContext(s)
  PROVE  /\ \A p \in Pages : Proper(x, s.mem[p].fields)
         /\ s.root \in Words /\ Len(s.root) = RootCount
         /\ Proper(x, s.root)
<1>1. /\ x.mem = s.mem /\ x.start = s.table.gc_yg_start /\ x.end = s.table.gc_yg_end
      /\ x.heads = YoungHeads(s)
  BY ContextFields
<1>2. TableOK(s.table) /\ Typed(s) /\ Covered(s) /\ Closed(s) /\ Rest(s)
  BY DEF HeapOK
<1>3. Placed(s)
  BY <1>2, CellsPlaced
<1>4. \A w \in Cells(s) \cup {Nil} : Within(w, x.start, x.end) => w \in x.heads
  <2>1. ~Within(Nil, x.start, x.end)
    BY <1>1, <1>2, TableFacts DEF Within, Nil
  <2> QED BY <2>1, <1>1, <1>2, <1>3, Generations
<1>5. ASSUME NEW p \in Pages PROVE Proper(x, s.mem[p].fields)
  <2>1. s.mem[p].fields \in Words
    BY <1>2, HeaderType DEF Typed
  <2>2. CASE p \in Cells(s)
    <3>1. ToSet(s.mem[p].fields) \subseteq Cells(s) \cup {Nil}
      BY <1>2, <2>2 DEF Closed
    <3>2. \A i \in 1 .. Len(s.mem[p].fields) : s.mem[p].fields[i] \in Cells(s) \cup {Nil}
      BY <3>1, <2>1 DEF ToSet, Words
    <3> QED BY <3>2, <1>4 DEF Proper
  <2>3. CASE p \notin Cells(s)
    <3>1. s.mem[p].fields = <<>>
      BY <1>2, <2>3 DEF Rest
    <3> QED BY <3>1 DEF Proper
  <2> QED BY <2>2, <2>3
<1>6. s.root \in Words /\ Len(s.root) = RootCount
  BY <1>2, ProgramAssumption DEF Typed, Words, Roots
<1>7. Proper(x, s.root)
  BY <1>2, <1>4, <1>6 DEF Proper, Closed, Roots
<1> QED BY <1>5, <1>6, <1>7

\* A heap that is in order has the context a minor collection needs.
LEMMA MinorContextOK ==
  ASSUME NEW s, HeapOK(s), NEW x, x = MinorContext(s)
  PROVE  YGContext(x)
<1>1. /\ x.mem = s.mem /\ x.start = s.table.gc_yg_start /\ x.end = s.table.gc_yg_end
      /\ x.heads = YoungHeads(s) /\ x.low = s.table.gc_shadow /\ x.top = s.table.gc_shadow_end
  BY ContextFields
<1>2. TableOK(s.table) /\ Typed(s) /\ Covered(s) /\ Rest(s) /\ s.mem \in Memories
  BY DEF HeapOK, Typed
<1>3. Placed(s)
  BY <1>2, CellsPlaced
<1> DEFINE t == s.table
<1>4. TableOK(t)
  BY <1>2
<1>5. x.start = t.gc_yg_start /\ x.end = t.gc_yg_end /\ x.low = t.gc_shadow /\ x.top = t.gc_shadow_end
  BY <1>1
<1> HIDE DEF t
<1>6. /\ x.start \in Nat /\ x.end \in 0 .. Limit /\ x.low \in Nat /\ x.top \in 0 .. Limit
      /\ x.end <= x.low \/ x.top <= x.start
  BY <1>4, <1>5, TableFacts, Areas
<1>7. x.heads \subseteq x.start .. x.end - 1
  <2>1. \A p \in x.heads : p \in Nat /\ x.start <= p /\ p < t.gc_yg_current
    BY <1>1, <1>3 DEF Placed, t
  <2>2. t.gc_yg_current \in Nat /\ t.gc_yg_current <= x.end
    BY <1>4, <1>5, TableFacts
  <2> QED BY <2>1, <2>2, <1>6
<1>8. \A p \in x.heads : Proper(x, x.mem[p].fields)
  BY <1>1, <1>3, MinorProper DEF Placed
<1> QED BY <1>1, <1>2, <1>6, <1>7, <1>8 DEF YGContext

\* The copies refer to copies.
Complete(x, h) ==
  \A p \in Copied(x, h) :
    /\ Len(h.mem[h.mem[p].vmt].fields) = Len(x.mem[p].fields)
    /\ Forwarded(x, h, x.mem[p].fields, h.mem[h.mem[p].vmt].fields)

\* The pages of the other areas, and what they may have become.
Elsewhere(x) == {q \in Pages : q \notin x.heads /\ q \notin x.low .. x.top - 1}

Redirected(x, h, q) ==
  /\ h.mem[q].pages = x.mem[q].pages /\ h.mem[q].marked = x.mem[q].marked /\ h.mem[q].vmt = x.mem[q].vmt
  /\ Len(h.mem[q].fields) = Len(x.mem[q].fields)
  /\ Forwarded(x, h, x.mem[q].fields, h.mem[q].fields)

Outside(x, h) == \A q \in Elsewhere(x) : h.mem[q] = x.mem[q] \/ Redirected(x, h, q)

Sound(x, h) == YGHeap(x, h) /\ Complete(x, h) /\ Outside(x, h)

\* What has been copied and redirected stays so.
Kept(x, g, h) ==
  /\ \A words, new : Forwarded(x, g, words, new) => Forwarded(x, h, words, new)
  /\ \A q \in Elsewhere(x) : Redirected(x, g, q) => Redirected(x, h, q)

\* What is kept twice is kept.
LEMMA KeptTransitive ==
  ASSUME NEW x, NEW f, NEW g, NEW h, Kept(x, f, g), Kept(x, g, h)
  PROVE  Kept(x, f, h)
BY DEF Kept

\* A minor collection begins with a sound heap.
LEMMA MinorStart ==
  ASSUME NEW s, HeapOK(s), NEW x, x = MinorContext(s)
  PROVE  Sound(x, [mem |-> s.mem, shadow |-> s.table.gc_shadow])
<1> DEFINE h == [mem |-> s.mem, shadow |-> s.table.gc_shadow]
           t == s.table
<1>1. /\ x.mem = s.mem /\ x.start = t.gc_yg_start /\ x.end = t.gc_yg_end
      /\ x.heads = YoungHeads(s) /\ x.low = t.gc_shadow /\ x.top = t.gc_shadow_end
  BY ContextFields
<1>2. TableOK(t) /\ Typed(s) /\ Covered(s) /\ Rest(s) /\ s.mem \in Memories
  BY DEF HeapOK, Typed
<1>3. Placed(s)
  BY <1>2, CellsPlaced
<1>4. /\ h.mem = x.mem /\ h.shadow = x.low
  BY <1>1
<1>5. Tiled(x.mem, x.heads, x.start, t.gc_yg_current)
  BY <1>1, <1>2 DEF Covered
<1>6. \A p \in x.heads : p \in Pages /\ ~x.mem[p].marked
  BY <1>1, <1>3 DEF Placed
<1> HIDE DEF t
<1>7. /\ x.start \in Nat /\ t.gc_yg_current \in 0 .. Limit /\ t.gc_yg_current <= x.end
      /\ x.end = x.start + YGSize /\ x.top = x.low + YGSize /\ x.low \in 0 .. Limit /\ YGSize \in Nat
  BY <1>1, <1>2, TableFacts, Areas
<1>8. h \in Heaps
  <2>1. s.table.gc_shadow \in Pages
    BY <1>1, <1>7, Areas DEF t
  <2> QED BY <2>1, <1>2 DEF Heaps
<1> HIDE DEF h
<1>9. Copied(x, h) = {}
  BY <1>4, <1>6 DEF Copied
<1>10. Copies(x, h) = {}
  BY <1>9 DEF Copies
<1>11. h.shadow + Left(x, h) <= x.top
  <2>1. \A p \in x.heads : x.mem[p].pages \in Nat
    BY <1>1, <1>2, <1>6, HeaderType
  <2>2. Weight(x.mem, x.heads) <= t.gc_yg_current - x.start
    BY <1>5, <1>7, <2>1, WeightTiled
  <2>3. Weight(x.mem, x.heads) \in Nat
    BY <2>1, WeightNat
  <2>4. x.heads \ Copied(x, h) = x.heads
    BY <1>9
  <2>5. Left(x, h) = Weight(x.mem, x.heads)
    BY <2>4 DEF Left
  <2> QED BY <2>2, <2>3, <2>5, <1>4, <1>7
<1>12. YGHeap(x, h)
  <2>1. Tiled(h.mem, Copies(x, h), x.low, h.shadow)
    BY <1>4, <1>7, <1>10, TiledNothing
  <2>2. x.low <= h.shadow
    BY <1>4, <1>7
  <2> QED BY <1>4, <1>8, <1>9, <1>10, <1>11, <2>1, <2>2 DEF YGHeap
<1>13. Complete(x, h) /\ Outside(x, h)
  BY <1>4, <1>9 DEF Complete, Outside
<1> QED BY <1>12, <1>13 DEF Sound, h, t

\* The collection from a list of words.
LEMMA YGCollectWorks ==
  ASSUME NEW x, NEW t, NEW h, NEW words \in Words, YGContext(x), YGHeap(x, h), Proper(x, words),
         x.start = t.gc_yg_start, x.end = t.gc_yg_end
  PROVE  YGResult(x, h, words, YGCollect(t, h, words))
<1>1. MaxDepth \in 0 .. MaxDepth /\ MaxDepth = Limit + 1
  BY Areas DEF MaxDepth
<1>2. YGWorks(x, YGCollects(x.start, x.end)[MaxDepth], MaxDepth)
  BY <1>1, YGDepths
<1>3. Left(x, h) < MaxDepth
  <2>1. Left(x, h) \in Nat /\ h.shadow \in Nat /\ h.shadow + Left(x, h) <= x.top /\ x.top <= Limit /\ x.top \in Nat
    BY HeapFacts, Areas DEF YGHeap, YGContext
  <2> QED BY <2>1, <1>1, Areas
<1>4. h \in Heaps
  BY DEF YGHeap
<1>5. YGResult(x, h, words, YGCollects(x.start, x.end)[MaxDepth][h][words])
  BY <1>2, <1>3, <1>4 DEF YGWorks
<1> QED BY <1>5 DEF YGCollect

\* A step of YGCollect keeps the heap sound and the objects outside it as they
\* are.
LEMMA StepSound ==
  ASSUME NEW x, NEW g, NEW h, Sound(x, g), YGHeap(x, h), YGStep(x, g, h)
  PROVE  Sound(x, h) /\ Kept(x, g, h)
<1>1. \A words, new : Forwarded(x, g, words, new) => Forwarded(x, h, words, new)
  BY ForwardedLater
<1>2. \A q \in Elsewhere(x) : h.mem[q] = g.mem[q]
  BY DEF YGStep, Elsewhere
<1>3. \A q \in Elsewhere(x) : Redirected(x, g, q) => Redirected(x, h, q)
  BY <1>1, <1>2 DEF Redirected
<1>4. Outside(x, h)
  BY <1>2, <1>3 DEF Outside, Sound
<1>5. ASSUME NEW p \in Copied(x, h)
      PROVE  /\ Len(h.mem[h.mem[p].vmt].fields) = Len(x.mem[p].fields)
             /\ Forwarded(x, h, x.mem[p].fields, h.mem[h.mem[p].vmt].fields)
  <2>1. CASE p \in Copied(x, g)
    <3>1. h.mem[p] = g.mem[p] /\ h.mem[g.mem[p].vmt] = g.mem[g.mem[p].vmt]
      BY <2>1 DEF YGStep
    <3>2. /\ Len(g.mem[g.mem[p].vmt].fields) = Len(x.mem[p].fields)
          /\ Forwarded(x, g, x.mem[p].fields, g.mem[g.mem[p].vmt].fields)
      BY <2>1 DEF Sound, Complete
    <3>3. h.mem[h.mem[p].vmt].fields = g.mem[g.mem[p].vmt].fields
      BY <3>1
    <3> QED BY <3>2, <3>3, <1>1
  <2>2. CASE p \notin Copied(x, g)
    BY <2>2 DEF YGStep
  <2> QED BY <2>1, <2>2
<1>6. Complete(x, h)
  BY <1>5 DEF Complete
<1> QED BY <1>1, <1>3, <1>4, <1>6 DEF Sound, Kept

-----------------------------------------------------------------------------
(* Objects outside the young generation.                                   *)

\* Writing the forwarded fields of an object outside the young generation
\* redirects it.
LEMMA WriteSound ==
  ASSUME NEW x, NEW h, NEW q, NEW new \in Words, YGContext(x), Sound(x, h), q \in Elsewhere(x),
         Len(new) = Len(x.mem[q].fields), Forwarded(x, h, x.mem[q].fields, new)
  PROVE  /\ Sound(x, Filled(h, q, new)) /\ Kept(x, h, Filled(h, q, new))
         /\ Redirected(x, Filled(h, q, new), q)
<1> DEFINE k == Filled(h, q, new)
<1>1. YGHeap(x, h) /\ Complete(x, h) /\ Outside(x, h)
  BY DEF Sound
<1>2. h \in Heaps
  BY <1>1 DEF YGHeap
<1>3. q \in Pages /\ q \notin x.heads /\ q \notin x.low .. x.top - 1
  BY DEF Elsewhere
<1>4. /\ k \in Heaps /\ k.shadow = h.shadow
      /\ k.mem[q].pages = h.mem[q].pages /\ k.mem[q].marked = h.mem[q].marked
      /\ k.mem[q].vmt = h.mem[q].vmt
      /\ k.mem[q].fields = new
      /\ \A p \in Pages : p # q => k.mem[p] = h.mem[p]
  BY <1>2, <1>3, FilledHeap
<1> HIDE DEF k
<1>5. /\ x.heads \subseteq Pages /\ Copied(x, h) \subseteq x.heads
      /\ \A p \in x.low .. x.top - 1 : p \in Pages
      /\ \A p \in Copied(x, h) : h.mem[p].vmt \in x.low .. h.shadow - 1
      /\ h.shadow <= x.top /\ h.shadow \in Nat /\ x.low \in Nat /\ x.top \in Nat
  BY <1>1, HeapFacts DEF YGContext
<1>6. \A p \in x.heads : k.mem[p] = h.mem[p]
  BY <1>3, <1>4, <1>5
<1>7. \A p \in x.low .. x.top - 1 : k.mem[p] = h.mem[p]
  BY <1>3, <1>4, <1>5
<1>8. Copied(x, k) = Copied(x, h)
  BY <1>6 DEF Copied
<1>9. \A p \in Copied(x, h) : k.mem[p] = h.mem[p] /\ h.mem[p].vmt \in x.low .. x.top - 1
  BY <1>5, <1>6
<1>9a. \A p \in Copied(x, h) : k.mem[h.mem[p].vmt] = h.mem[h.mem[p].vmt]
  BY <1>7, <1>9
<1>10. Copies(x, k) = Copies(x, h)
  BY <1>8, <1>9 DEF Copies
<1>11. \A words, ws : Forwarded(x, h, words, ws) => Forwarded(x, k, words, ws)
  BY <1>8, <1>9 DEF Forwarded
<1>12. YGHeap(x, k)
  <2>1. Left(x, k) = Left(x, h)
    BY <1>8 DEF Left
  <2>2. k \in Heaps /\ x.low <= k.shadow /\ k.shadow + Left(x, k) <= x.top
    BY <2>1, <1>1, <1>4 DEF YGHeap
  <2>3. \A p \in x.heads : /\ k.mem[p].pages = x.mem[p].pages
                           /\ k.mem[p].fields = x.mem[p].fields
                           /\ p \notin Copied(x, k) => k.mem[p] = x.mem[p]
    BY <1>1, <1>6, <1>8 DEF YGHeap
  <2>4. ASSUME NEW p \in Copied(x, k) PROVE CopyOf(x, k, p, k.mem[p].vmt)
    <3>1. p \in Copied(x, h) /\ CopyOf(x, h, p, h.mem[p].vmt)
      BY <1>1, <1>8 DEF YGHeap
    <3>2. k.mem[p].vmt = h.mem[p].vmt /\ k.mem[h.mem[p].vmt] = h.mem[h.mem[p].vmt]
      BY <3>1, <1>9, <1>9a
    <3> QED BY <3>1, <3>2, <1>4 DEF CopyOf
  <2>5. \A p, r \in Copied(x, k) : k.mem[p].vmt = k.mem[r].vmt => p = r
    BY <1>1, <1>8, <1>9 DEF YGHeap
  <2>6. Tiled(k.mem, Copies(x, k), x.low, k.shadow)
    <3>1. \A r \in Copies(x, h) : k.mem[r].pages = h.mem[r].pages
      BY <1>9, <1>9a DEF Copies
    <3> QED BY <3>1, <1>1, <1>4, <1>10, TiledAgree DEF YGHeap
  <2>7. \A r \in x.low .. x.top - 1 : r \notin Copies(x, k) => k.mem[r] = x.mem[r]
    BY <1>1, <1>7, <1>10 DEF YGHeap
  <2> QED BY <2>2, <2>3, <2>4, <2>5, <2>6, <2>7 DEF YGHeap
<1>13. ASSUME NEW p \in Copied(x, k)
       PROVE  /\ Len(k.mem[k.mem[p].vmt].fields) = Len(x.mem[p].fields)
              /\ Forwarded(x, k, x.mem[p].fields, k.mem[k.mem[p].vmt].fields)
  <2>1. p \in Copied(x, h) /\ k.mem[k.mem[p].vmt] = h.mem[h.mem[p].vmt]
    BY <1>8, <1>9, <1>9a
  <2>2. /\ Len(h.mem[h.mem[p].vmt].fields) = Len(x.mem[p].fields)
        /\ Forwarded(x, h, x.mem[p].fields, h.mem[h.mem[p].vmt].fields)
    BY <2>1, <1>1 DEF Complete
  <2> QED BY <2>1, <2>2, <1>11
<1>14. Redirected(x, k, q)
  <2>1. h.mem[q].pages = x.mem[q].pages /\ h.mem[q].marked = x.mem[q].marked /\ h.mem[q].vmt = x.mem[q].vmt
    BY <1>1 DEF Outside, Redirected
  <2> QED BY <2>1, <1>4, <1>11 DEF Redirected
<1>15. ASSUME NEW p \in Elsewhere(x), Redirected(x, h, p) PROVE Redirected(x, k, p)
  <2>1. CASE p = q
    BY <2>1, <1>14
  <2>2. CASE p # q
    <3>1. k.mem[p] = h.mem[p]
      BY <2>2, <1>4 DEF Elsewhere
    <3> QED BY <3>1, <1>11, <1>15 DEF Redirected
  <2> QED BY <2>1, <2>2
<1>16. Outside(x, k)
  <2> SUFFICES ASSUME NEW p \in Elsewhere(x) PROVE k.mem[p] = x.mem[p] \/ Redirected(x, k, p)
    BY DEF Outside
  <2>1. h.mem[p] = x.mem[p] \/ Redirected(x, h, p)
    BY <1>1 DEF Outside
  <2>2. p # q => k.mem[p] = h.mem[p]
    BY <1>4 DEF Elsewhere
  <2> QED BY <2>1, <2>2, <1>14, <1>15
<1>17. Sound(x, k) /\ Kept(x, h, k) /\ Redirected(x, k, q)
  BY <1>11, <1>12, <1>13, <1>14, <1>15, <1>16 DEF Sound, Complete, Kept
<1> QED BY <1>17 DEF k

\* CollectObject redirects an object.
LEMMA CollectObjectSound ==
  ASSUME NEW x, NEW t, NEW h, NEW q, YGContext(x), Sound(x, h), q \in Elsewhere(x),
         x.start = t.gc_yg_start, x.end = t.gc_yg_end, Proper(x, x.mem[q].fields)
  PROVE  /\ Sound(x, CollectObject(t, h, q)) /\ Kept(x, h, CollectObject(t, h, q))
         /\ Redirected(x, CollectObject(t, h, q), q)
<1> DEFINE words == h.mem[q].fields
           f == x.mem[q].fields
           r == YGCollect(t, h, words)
           k == CollectObject(t, h, q)
<1>1. YGHeap(x, h) /\ Complete(x, h) /\ Outside(x, h) /\ q \in Pages
  BY DEF Sound, Elsewhere
<1>2. words \in Words
  <2>1. h.mem \in Memories
    BY <1>1, HeapFacts
  <2> QED BY <2>1, <1>1, HeaderType
<1>3. h.mem[q] = x.mem[q] \/ Redirected(x, h, q)
  BY <1>1 DEF Outside
<1>4. ASSUME Redirected(x, h, q) PROVE \A i \in 1 .. Len(words) : ~Within(words[i], x.start, x.end)
  <2> SUFFICES ASSUME NEW i \in 1 .. Len(words) PROVE ~Within(words[i], x.start, x.end)
    OBVIOUS
  <2>1. IF Within(f[i], x.start, x.end)
        THEN f[i] \in Copied(x, h) /\ words[i] = h.mem[f[i]].vmt
        ELSE words[i] = f[i]
    BY <1>4 DEF Redirected, Forwarded
  <2>2. CASE Within(f[i], x.start, x.end)
    <3> DEFINE v == words[i]
    <3>1. f[i] \in Copied(x, h) /\ words[i] = h.mem[f[i]].vmt
      BY <2>1, <2>2
    <3>2. v \in x.low .. h.shadow - 1
      BY <3>1, <1>1, HeapFacts
    <3> HIDE DEF v
    <3>3. h.shadow <= x.top /\ h.shadow \in Nat /\ x.low \in Nat /\ x.top \in Nat /\ x.start \in Nat /\ x.end \in Nat
      BY <1>1, HeapFacts, Areas DEF YGContext
    <3>4. x.end <= x.low \/ x.top <= x.start
      BY DEF YGContext
    <3>5. ~Within(v, x.start, x.end)
      BY <3>2, <3>3, <3>4 DEF Within
    <3> QED BY <3>5 DEF v
  <2>3. CASE ~Within(f[i], x.start, x.end)
    BY <2>1, <2>3
  <2> QED BY <2>2, <2>3
<1>5. Proper(x, words)
  <2>1. CASE h.mem[q] = x.mem[q]
    BY <2>1
  <2>2. CASE Redirected(x, h, q)
    BY <2>2, <1>4 DEF Proper
  <2> QED BY <2>1, <2>2, <1>3
<1>6. Len(words) = Len(f)
  BY <1>3 DEF Redirected
<1>7. k = Filled(r.h, q, r.words)
  BY DEF CollectObject, Filled
<1>8. YGResult(x, h, words, r)
  <2> HIDE DEF words
  <2> QED BY <1>1, <1>2, <1>5, YGCollectWorks
<1> DEFINE g == r.h
           new == r.words
<1> HIDE DEF r
<1>9. YGHeap(x, g) /\ YGStep(x, h, g) /\ new \in Words /\ Len(new) = Len(words) /\ Forwarded(x, g, words, new)
  BY <1>8 DEF YGResult
<1> HIDE DEF g, new
<1>10. Sound(x, g) /\ Kept(x, h, g)
  BY <1>9, StepSound
<1>11. Forwarded(x, g, f, new)
  <2>1. CASE h.mem[q] = x.mem[q]
    BY <2>1, <1>9
  <2>2. CASE Redirected(x, h, q)
    <3>1. Forwarded(x, h, f, words)
      BY <2>2 DEF Redirected
    <3>2. Forwarded(x, g, f, words)
      <4> HIDE DEF f, words
      <4> QED BY <3>1, <1>10 DEF Kept
    <3>3. \A i \in 1 .. Len(new) : new[i] = words[i]
      <4>1. \A i \in 1 .. Len(words) : ~Within(words[i], x.start, x.end)
        BY <2>2, <1>4
      <4> HIDE DEF words
      <4> QED BY <4>1, <1>9 DEF Forwarded
    <3> HIDE DEF words, f
    <3> QED BY <3>2, <3>3, <1>9 DEF Forwarded
  <2> QED BY <2>1, <2>2, <1>3
<1>12. Len(new) = Len(x.mem[q].fields) /\ Forwarded(x, g, x.mem[q].fields, new)
  BY <1>6, <1>9, <1>11
<1>13. /\ Sound(x, Filled(g, q, new)) /\ Kept(x, g, Filled(g, q, new))
       /\ Redirected(x, Filled(g, q, new), q)
  BY <1>9, <1>10, <1>12, WriteSound
<1>14. k = Filled(g, q, new)
  BY <1>7 DEF g, new
<1> HIDE DEF k
<1>15. Sound(x, k) /\ Kept(x, h, k) /\ Redirected(x, k, q)
  BY <1>10, <1>13, <1>14, KeptTransitive
<1> QED BY <1>15 DEF k

Collections(t, h, from, to, objects) ==
  LET collect[p \in from .. to] ==
        IF p = from THEN h
        ELSE IF p - 1 \in objects THEN CollectObject(t, collect[p - 1], p - 1)
        ELSE collect[p - 1]
  IN collect

\* CollectObjects is the last state of its loop.
LEMMA CollectObjectsLoop ==
  ASSUME NEW t, NEW h, NEW from, NEW to, NEW objects
  PROVE  CollectObjects(t, h, from, to, objects) = Collections(t, h, from, to, objects)[to]
BY DEF CollectObjects, Collections

\* The loop over the objects.
Collected(loop, t, h, from, to, objects) ==
  /\ loop[from] = h
  /\ \A n \in from + 1 .. to : loop[n] = IF n - 1 \in objects THEN CollectObject(t, loop[n - 1], n - 1) ELSE loop[n - 1]

\* Collections is the loop it is written as.
LEMMA CollectionsDef ==
  ASSUME NEW t, NEW h, NEW from \in Nat, NEW to \in Nat, NEW objects, from <= to
  PROVE  Collected(Collections(t, h, from, to, objects), t, h, from, to, objects)
<1> DEFINE Nxt(p, n) == IF n - 1 \in objects THEN CollectObject(t, p, n - 1) ELSE p
           Rec(f, k) == f = [n \in from .. from + k |-> IF n = from THEN h ELSE Nxt(f[n - 1], n)]
           T == {k \in Nat : \E f : Rec(f, k)}
<1>0. to - from \in Nat /\ from \in Nat
  OBVIOUS
<1>1. 0 \in T
  <2>1. Rec([n \in from .. from + 0 |-> h], 0)
    BY <1>0
  <2> QED BY <2>1
<1>2. ASSUME NEW k \in T PROVE k + 1 \in T
  <2>1. PICK f : Rec(f, k)
    OBVIOUS
  <2> DEFINE g == [n \in from .. from + (k + 1) |-> IF n <= from + k THEN f[n] ELSE Nxt(f[from + k], n)]
  <2> HIDE DEF Nxt
  <2>2. ASSUME NEW n \in from .. from + (k + 1)
        PROVE  g[n] = IF n = from THEN h ELSE Nxt(g[n - 1], n)
    <3>1. CASE n = from
      BY <2>1, <3>1, <1>0
    <3>2. CASE n \in from + 1 .. from + k
      <4>1. n \in from .. from + k /\ n - 1 \in from .. from + k /\ n # from /\ n - 1 \in from .. from + (k + 1)
        BY <3>2, <1>0
      <4>2. g[n] = f[n] /\ g[n - 1] = f[n - 1]
        BY <4>1, <1>0
      <4>3. f[n] = Nxt(f[n - 1], n)
        BY <2>1, <4>1
      <4> QED BY <4>1, <4>2, <4>3
    <3>3. CASE n = from + k + 1
      BY <3>3, <1>0
    <3> QED BY <3>1, <3>2, <3>3, <1>0
  <2>3. Rec(g, k + 1)
    BY <2>2
  <2> HIDE DEF g, Rec
  <2> QED BY <2>3
<1>3. T = Nat
  <2> HIDE DEF T
  <2>1. T \in SUBSET Nat
    BY DEF T
  <2> QED BY <1>1, <1>2, <2>1, NatSetInduction
<1>4. \E f : Rec(f, to - from)
  <2>1. \A k \in T : \E f : Rec(f, k)
    OBVIOUS
  <2> HIDE DEF T
  <2> QED BY <1>3, <1>0, <2>1
<1>4a. \E f : f = [n \in from .. to |-> IF n = from THEN h ELSE Nxt(f[n - 1], n)]
  <2>1. from + (to - from) = to
    BY <1>0
  <2>2. PICK f : Rec(f, to - from)
    BY <1>4
  <2> HIDE DEF Nxt
  <2>3. f = [n \in from .. to |-> IF n = from THEN h ELSE Nxt(f[n - 1], n)]
    BY <2>1, <2>2
  <2> QED BY <2>3
<1>5. Collections(t, h, from, to, objects) = [n \in from .. to |-> IF n = from THEN h ELSE Nxt(Collections(t, h, from, to, objects)[n - 1], n)]
  BY <1>4a DEF Collections
<1> DEFINE loop == Collections(t, h, from, to, objects)
<1>6. loop[from] = h /\ \A n \in from + 1 .. to : loop[n] = Nxt(loop[n - 1], n)
  <2>1. loop = [n \in from .. to |-> IF n = from THEN h ELSE Nxt(loop[n - 1], n)]
    BY <1>5
  <2> HIDE DEF Nxt, loop
  <2> QED BY <2>1, <1>0
<1>7. loop[from] = h /\ \A n \in from + 1 .. to : loop[n] = IF n - 1 \in objects THEN CollectObject(t, loop[n - 1], n - 1) ELSE loop[n - 1]
  <2> HIDE DEF loop
  <2> QED BY <1>6
<1> HIDE DEF loop
<1>8. Collected(loop, t, h, from, to, objects)
  BY <1>7 DEF Collected
<1> QED BY <1>8 DEF loop

\* What a loop over objects does.
AllRedirected(x, h, k, from, to, objects) ==
  /\ Sound(x, k) /\ Kept(x, h, k)
  /\ \A q \in objects : from <= q /\ q < to => Redirected(x, k, q)

\* CollectObjects redirects every object it is given.
LEMMA CollectObjectsSound ==
  ASSUME NEW x, NEW t, NEW h, NEW from \in Nat, NEW to \in Nat, NEW objects, from <= to,
         YGContext(x), Sound(x, h), x.start = t.gc_yg_start, x.end = t.gc_yg_end,
         \A q \in objects : q \in Elsewhere(x) /\ q \in Nat /\ Proper(x, x.mem[q].fields)
  PROVE  AllRedirected(x, h, CollectObjects(t, h, from, to, objects), from, to, objects)
<1> DEFINE c == Collections(t, h, from, to, objects)
           T == {n \in Nat : AllRedirected(x, h, c[from + n], from, from + n, objects)}
<1>1. /\ c[from] = h
      /\ \A n \in from + 1 .. to : c[n] = IF n - 1 \in objects THEN CollectObject(t, c[n - 1], n - 1) ELSE c[n - 1]
  <2>1. Collected(c, t, h, from, to, objects)
    BY CollectionsDef
  <2> HIDE DEF c
  <2> QED BY <2>1 DEF Collected
<1> HIDE DEF c
<1>2. 0 \in T
  <2>1. Kept(x, h, h)
    BY DEF Kept
  <2>2. AllRedirected(x, h, c[from + 0], from, from + 0, objects)
    BY <1>1, <2>1 DEF AllRedirected
  <2> QED BY <2>2
<1>3. ASSUME NEW n \in 0 .. (to - from) - 1, n \in T PROVE n + 1 \in T
  <2> DEFINE p == from + n
             g == c[p]
             k == c[p + 1]
  <2>0. p \in Nat /\ p + 1 \in from + 1 .. to /\ (p + 1) - 1 = p /\ from <= p /\ from + (n + 1) = p + 1
    OBVIOUS
  <2>1. AllRedirected(x, h, g, from, p, objects)
    BY <1>3
  <2>2. k = IF p \in objects THEN CollectObject(t, g, p) ELSE g
    <3> HIDE DEF p
    <3> QED BY <2>0, <1>1
  <2> HIDE DEF g, k, p
  <2>3. Sound(x, g) /\ Kept(x, h, g) /\ \A q \in objects : from <= q /\ q < p => Redirected(x, g, q)
    BY <2>1 DEF AllRedirected
  <2>4. Sound(x, k) /\ Kept(x, g, k) /\ (p \in objects => Redirected(x, k, p))
    <3>1. CASE p \in objects
      <4>1. p \in Elsewhere(x) /\ Proper(x, x.mem[p].fields)
        BY <3>1
      <4>2. /\ Sound(x, CollectObject(t, g, p)) /\ Kept(x, g, CollectObject(t, g, p))
            /\ Redirected(x, CollectObject(t, g, p), p)
        BY <2>3, <4>1, CollectObjectSound
      <4> QED BY <4>2, <3>1, <2>2
    <3>2. CASE p \notin objects
      BY <2>2, <2>3, <3>2 DEF Kept
    <3> QED BY <3>1, <3>2
  <2>5. Kept(x, h, k)
    BY <2>3, <2>4, KeptTransitive
  <2>6. ASSUME NEW q \in objects, from <= q, q < p + 1 PROVE Redirected(x, k, q)
    <3>1. q \in Nat /\ q \in Elsewhere(x)
      OBVIOUS
    <3>2. q < p \/ q = p
      BY <2>0, <2>6, <3>1
    <3> QED BY <3>1, <3>2, <2>3, <2>4, <2>6 DEF Kept
  <2>7. AllRedirected(x, h, k, from, p + 1, objects)
    BY <2>4, <2>5, <2>6 DEF AllRedirected
  <2>8. c[from + (n + 1)] = k /\ from + (n + 1) = p + 1
    BY <2>0 DEF k
  <2> QED BY <2>7, <2>8
<1>4. to - from \in Nat /\ from + (to - from) = to
  OBVIOUS
<1>5. to - from \in T
  <2>1. \A n \in 0 .. to - from : n \in T
    <3> HIDE DEF T
    <3> QED BY <1>2, <1>3, <1>4, UpTo
  <2> HIDE DEF T
  <2> QED BY <2>1, <1>4
<1>6. AllRedirected(x, h, c[to], from, to, objects)
  BY <1>4, <1>5
<1> QED BY <1>6, CollectObjectsLoop DEF c

-----------------------------------------------------------------------------
(* What a collection does to a state s: of its objects those of K are kept, *)
(* and f says where they are in the state t.                                *)

Renamed(K, f, word, new) == IF word = Nil THEN new = Nil ELSE word \in K /\ new = f[word]

Relocated(s, t, K, f) ==
  /\ K \subseteq Cells(s)
  /\ f \in [K -> Pages]
  /\ \A p, q \in K : f[p] = f[q] => p = q
  /\ Cells(t) = {f[p] : p \in K}
  /\ PermHeads(t) = PermHeads(s)
  /\ \A p \in PermHeads(s) : p \in K /\ f[p] = p
  /\ \A r \in Roots : Renamed(K, f, s.root[r], t.root[r])
  /\ \A p \in K : /\ t.mem[f[p]].pages = s.mem[p].pages /\ t.mem[f[p]].vmt = s.mem[p].vmt
                  /\ Len(t.mem[f[p]].fields) = Len(s.mem[p].fields)
                  /\ \A i \in 1 .. Len(s.mem[p].fields) :
                       Renamed(K, f, s.mem[p].fields[i], t.mem[f[p]].fields[i])

\* Where the objects of a heap have only moved, references stay closed and
\* shapes stay the same.
LEMMA RelocatedOK ==
  ASSUME NEW s, NEW t, NEW K, NEW f, Relocated(s, t, K, f), t.mem \in Memories, Shaped(s)
  PROVE  Closed(t) /\ Shaped(t)
<1>1. \A word, new : Renamed(K, f, word, new) => new \in Cells(t) \cup {Nil}
  BY DEF Renamed, Relocated
<1>2. \A r \in Roots : t.root[r] \in Cells(t) \cup {Nil}
  BY <1>1 DEF Relocated
<1>3. ASSUME NEW q \in Cells(t)
      PROVE  /\ ToSet(t.mem[q].fields) \subseteq Cells(t) \cup {Nil}
             /\ t.mem[q].vmt \in Objects
             /\ \E sh \in Shapes : t.mem[q].pages = sh.pages /\ Len(t.mem[q].fields) = sh.fields
  <2>1. PICK p \in K : q = f[p]
    BY DEF Relocated
  <2>2. /\ t.mem[q].pages = s.mem[p].pages /\ t.mem[q].vmt = s.mem[p].vmt
        /\ Len(t.mem[q].fields) = Len(s.mem[p].fields)
        /\ \A i \in 1 .. Len(s.mem[p].fields) : Renamed(K, f, s.mem[p].fields[i], t.mem[q].fields[i])
    BY <2>1 DEF Relocated
  <2>3. p \in Cells(s)
    BY DEF Relocated
  <2>4. q \in Pages
    BY <2>1 DEF Relocated
  <2>5. t.mem[q].fields \in Words
    BY <2>4, HeaderType
  <2>6. \A i \in 1 .. Len(t.mem[q].fields) : t.mem[q].fields[i] \in Cells(t) \cup {Nil}
    BY <2>2, <1>1
  <2>7. ToSet(t.mem[q].fields) \subseteq Cells(t) \cup {Nil}
    BY <2>5, <2>6 DEF ToSet, Words
  <2> QED BY <2>2, <2>3, <2>7 DEF Shaped
<1> QED BY <1>2, <1>3 DEF Closed, Shaped

-----------------------------------------------------------------------------
(* A minor collection.                                                     *)

\* A minor collection does not change what the walk over the permanent objects
\* finds.
LEMMA PermWalk ==
  ASSUME NEW s, HeapOK(s), NEW x, x = MinorContext(s), NEW h, Sound(x, h)
  PROVE  Walk(h.mem, s.table.gc_perm_start, s.table.gc_perm_current) = PermHeads(s)
<1> DEFINE from == s.table.gc_perm_start
           to == s.table.gc_perm_current
           S == PermHeads(s)
<1>1. TableOK(s.table) /\ Typed(s) /\ Covered(s) /\ Rest(s)
  BY DEF HeapOK
<1>2. Placed(s)
  BY <1>1, CellsPlaced
<1>3. from \in Nat /\ to \in Nat
  BY <1>1, TableFacts, Areas
<1>4. Tiled(s.mem, S, from, to)
  BY <1>1 DEF Covered
<1>5. x.mem = s.mem /\ x.heads = YoungHeads(s) /\ x.low = s.table.gc_shadow /\ x.top = s.table.gc_shadow_end
  BY ContextFields
<1>6. \A p \in S : p \in Elsewhere(x)
  <2> SUFFICES ASSUME NEW p \in S PROVE p \in Elsewhere(x)
    OBVIOUS
  <2>1. p \in Pages /\ p \in Cells(s) /\ p \in Nat /\ PermStart <= p
    BY <1>2 DEF Placed
  <2>2. p \notin x.low .. x.top - 1
    BY <2>1, <1>1, <1>2, <1>5, Generations
  <2>3. p \notin x.heads
    <3>1. \A q \in x.heads : q \in Nat /\ q < s.table.gc_yg_current
      BY <1>2, <1>5 DEF Placed
    <3>2. s.table.gc_yg_current \in Nat /\ s.table.gc_yg_current <= PermStart
      BY <1>1, TableFacts, Areas
    <3> QED BY <2>1, <3>1, <3>2, Areas
  <2> QED BY <2>1, <2>2, <2>3 DEF Elsewhere
<1>7. \A p \in S : h.mem[p].pages = s.mem[p].pages /\ h.mem[p].pages \in Nat \ {0}
  <2> SUFFICES ASSUME NEW p \in S PROVE h.mem[p].pages = s.mem[p].pages /\ h.mem[p].pages \in Nat \ {0}
    OBVIOUS
  <2>1. h.mem[p] = x.mem[p] \/ Redirected(x, h, p)
    BY <1>6 DEF Sound, Outside
  <2>2. s.mem[p].pages \in Nat \ {0}
    BY <1>1, <1>2, HeaderType DEF Typed, Placed
  <2> QED BY <2>1, <2>2, <1>5 DEF Redirected
<1> HIDE DEF from, to, S
<1>8. Tiled(h.mem, S, from, to)
  BY <1>4, <1>7, TiledAgree
<1>9. Walk(h.mem, from, to) = S
  BY <1>3, <1>7, <1>8, WalkTiled
<1> QED BY <1>9 DEF from, to, S

\* The heap before the halves change places, and the roots.
MinorHeap(s) ==
  CollectPermYGRoots(s.table, CollectMG2YGRoots(s.table, CollectPermYGRoots(s.table,
    YGCollect(s.table, [mem |-> s.mem, shadow |-> s.table.gc_shadow], s.root).h)))
MinorRoots(s) == YGCollect(s.table, [mem |-> s.mem, shadow |-> s.table.gc_shadow], s.root).words

\* Every object of the other generations has been redirected.
Gathered(s, x, h, words) ==
  /\ Sound(x, h)
  /\ words \in Words /\ Len(words) = RootCount /\ Forwarded(x, h, s.root, words)
  /\ \A p \in Cells(s) : p \notin YoungHeads(s) => p \in Elsewhere(x) /\ Redirected(x, h, p)

\* The cards of all pages in use are read.
LEMMA CardsReadAll ==
  ASSUME NEW n \in Nat
  PROVE  CardsRead(n) \in Nat /\ CardsRead(n) >= n
BY DEF CardsRead, EntrySize

\* CollectPermYGRoots redirects every permanent object.
LEMMA PermCollected ==
  ASSUME NEW s, HeapOK(s), NEW x, x = MinorContext(s), NEW h, Sound(x, h)
  PROVE  LET k == CollectPermYGRoots(s.table, h)
         IN  Sound(x, k) /\ Kept(x, h, k) /\ \A p \in PermHeads(s) : Redirected(x, k, p)
<1> DEFINE from == s.table.gc_perm_start
           to == s.table.gc_perm_current
           S == PermHeads(s)
           k == CollectPermYGRoots(s.table, h)
<1>1. TableOK(s.table) /\ Covered(s) /\ Rest(s)
  BY DEF HeapOK
<1>2. Placed(s)
  BY <1>1, CellsPlaced
<1>3. from \in Nat /\ to \in Nat /\ from = PermStart /\ from <= to
  BY <1>1, TableFacts, Areas
<1>4. k = CollectObjects(s.table, h, from, to, S)
  <2>1. Walk(h.mem, from, to) = S
    BY PermWalk
  <2> QED BY <2>1 DEF CollectPermYGRoots
<1>5. x.mem = s.mem /\ x.heads = YoungHeads(s) /\ x.low = s.table.gc_shadow /\ x.top = s.table.gc_shadow_end
      /\ x.start = s.table.gc_yg_start /\ x.end = s.table.gc_yg_end
  BY ContextFields
<1>6. \A p \in S : p \in Elsewhere(x) /\ p \in Nat /\ Proper(x, x.mem[p].fields) /\ from <= p /\ p < to
  <2> SUFFICES ASSUME NEW p \in S PROVE p \in Elsewhere(x) /\ p \in Nat /\ Proper(x, x.mem[p].fields) /\ from <= p /\ p < to
    OBVIOUS
  <2>1. p \in Pages /\ p \in Cells(s) /\ p \in Nat /\ PermStart <= p /\ p < to
    BY <1>2 DEF Placed
  <2>2. p \notin x.low .. x.top - 1
    BY <2>1, <1>1, <1>2, <1>5, Generations
  <2>3. p \notin x.heads
    <3>1. \A q \in x.heads : q \in Nat /\ q < s.table.gc_yg_current
      BY <1>2, <1>5 DEF Placed
    <3>2. s.table.gc_yg_current \in Nat /\ s.table.gc_yg_current <= PermStart
      BY <1>1, TableFacts, Areas
    <3> QED BY <2>1, <3>1, <3>2, Areas
  <2>4. Proper(x, x.mem[p].fields)
    BY <2>1, <1>5, MinorProper
  <2> QED BY <2>1, <2>2, <2>3, <2>4, <1>3 DEF Elsewhere
<1>7. YGContext(x)
  BY MinorContextOK
<1> DEFINE t == s.table
<1>8. x.start = t.gc_yg_start /\ x.end = t.gc_yg_end /\ k = CollectObjects(t, h, from, to, S)
  BY <1>4, <1>5
<1> HIDE DEF from, to, S, t, k
<1>9. AllRedirected(x, h, k, from, to, S)
  BY <1>3, <1>6, <1>7, <1>8, CollectObjectsSound
<1>10. Sound(x, k) /\ Kept(x, h, k) /\ \A p \in S : Redirected(x, k, p)
  BY <1>6, <1>9 DEF AllRedirected
<1> QED BY <1>10 DEF k, S

\* CollectMG2YGRoots redirects every mature object whose card is set.
LEMMA MatureCollected ==
  ASSUME NEW h, HeapOK(Now), NEW x, x = MinorContext(Now), Sound(x, h)
  PROVE  LET k == CollectMG2YGRoots(table, h)
         IN  /\ Sound(x, k) /\ Kept(x, h, k)
             /\ \A p \in MatureHeads(Now) : p \in Elsewhere(x) /\ (p \in cards => Redirected(x, k, p))
<1> DEFINE s == Now
           t == table
           from == t.gc_mg_start
           count == t.gc_mg_current - t.gc_mg_start
           to == from + CardsRead(count)
           k == CollectMG2YGRoots(table, h)
<1>0. s.table = t /\ s.cards = cards /\ s.mem = mem
  BY DEF Now
<1>1. TableOK(t) /\ Covered(s) /\ Rest(s) /\ cards \subseteq 2 * YGSize .. Limit - 1
  BY <1>0 DEF HeapOK, Typed
<1>2. Placed(s)
  BY <1>0, <1>1, CellsPlaced
<1> HIDE DEF s, t
<1>3. from \in Nat /\ count \in Nat /\ from = 2 * YGSize /\ t.gc_mg_current = from + count
  BY <1>1, TableFacts, Areas
<1>4. CardsRead(count) \in Nat /\ CardsRead(count) >= count
  <2> HIDE DEF count
  <2> QED BY <1>3, CardsReadAll
<1>5. to \in Nat /\ from <= to /\ t.gc_mg_current <= to
  <2> HIDE DEF count
  <2> QED BY <1>3, <1>4
<1>6. k = CollectObjects(t, h, from, to, cards)
  BY DEF CollectMG2YGRoots, t
<1>7. x.mem = s.mem /\ x.heads = YoungHeads(s) /\ x.low = t.gc_shadow /\ x.top = t.gc_shadow_end
      /\ x.start = t.gc_yg_start /\ x.end = t.gc_yg_end
  BY <1>0, ContextFields DEF s
<1>8. \A q \in x.heads : q \in Nat /\ q < 2 * YGSize
  <2>1. \A q \in x.heads : q \in Nat /\ q < s.table.gc_yg_current
    BY <1>2, <1>7 DEF Placed
  <2>2. t.gc_yg_current \in Nat /\ t.gc_yg_current <= 2 * YGSize
    BY <1>1, TableFacts, Areas
  <2> QED BY <2>1, <2>2, <1>0, Areas
<1>9. ASSUME NEW p \in 2 * YGSize .. Limit - 1
      PROVE  p \in Elsewhere(x) /\ p \in Nat /\ Proper(x, x.mem[p].fields)
  <2>1. p \in Pages /\ p \in Nat /\ 2 * YGSize <= p
    BY Areas
  <2>2. p \notin x.low .. x.top - 1
    BY <2>1, <1>1, <1>7, TableFacts, Areas
  <2>3. p \notin x.heads
    BY <2>1, <1>8, Areas
  <2>4. Proper(x, x.mem[p].fields)
    BY <2>1, <1>7, MinorProper DEF s
  <2> QED BY <2>1, <2>2, <2>3, <2>4 DEF Elsewhere
<1>10. \A p \in cards : p \in Elsewhere(x) /\ p \in Nat /\ Proper(x, x.mem[p].fields)
  BY <1>1, <1>9
<1>11. YGContext(x)
  BY MinorContextOK
<1> HIDE DEF from, to, k, count
<1>12. AllRedirected(x, h, k, from, to, cards)
  BY <1>3, <1>5, <1>6, <1>7, <1>10, <1>11, CollectObjectsSound
<1>13. ASSUME NEW p \in MatureHeads(s) PROVE p \in Elsewhere(x) /\ (p \in cards => Redirected(x, k, p))
  <2>1. p \in Nat /\ 2 * YGSize <= p /\ p < t.gc_mg_current
    BY <1>0, <1>2 DEF Placed
  <2>2. t.gc_mg_current \in Nat /\ t.gc_mg_current <= Limit
    BY <1>1, TableFacts
  <2>3. p \in 2 * YGSize .. Limit - 1 /\ from <= p /\ p < to
    BY <2>1, <2>2, <1>3, <1>5, Areas
  <2>4. p \in Elsewhere(x)
    BY <2>3, <1>9
  <2> QED BY <2>3, <2>4, <1>12 DEF AllRedirected
<1>14. Sound(x, k) /\ Kept(x, h, k)
  BY <1>12 DEF AllRedirected
<1> QED BY <1>13, <1>14 DEF k, s

\* A minor collection copies what the roots, the permanent and the carded
\* mature objects refer to.
LEMMA MinorGathers ==
  ASSUME HeapOK(Now), NEW x, x = MinorContext(Now)
  PROVE  Gathered(Now, x, MinorHeap(Now), MinorRoots(Now))
<1> DEFINE s == Now
           h0 == [mem |-> s.mem, shadow |-> s.table.gc_shadow]
           r == YGCollect(s.table, h0, s.root)
           h1 == r.h
           h2 == CollectPermYGRoots(s.table, h1)
           h3 == CollectMG2YGRoots(s.table, h2)
           h4 == CollectPermYGRoots(s.table, h3)
<1>0. HeapOK(s) /\ x = MinorContext(s) /\ s.table = table /\ s.cards = cards
  BY DEF Now
<1>1. Sound(x, h0)
  BY <1>0, MinorStart
<1>2. YGContext(x)
  BY <1>0, MinorContextOK
<1>3. x.mem = s.mem /\ x.heads = YoungHeads(s) /\ x.low = s.table.gc_shadow /\ x.top = s.table.gc_shadow_end
      /\ x.start = s.table.gc_yg_start /\ x.end = s.table.gc_yg_end
  BY <1>0, ContextFields
<1>4. s.root \in Words /\ Len(s.root) = RootCount /\ Proper(x, s.root)
  BY <1>0, MinorProper
<1>5. YGResult(x, h0, s.root, r)
  <2> DEFINE t == s.table  words == s.root
  <2>1. words \in Words /\ Proper(x, words) /\ YGHeap(x, h0) /\ x.start = t.gc_yg_start /\ x.end = t.gc_yg_end
    BY <1>1, <1>3, <1>4 DEF Sound
  <2>2. r = YGCollect(t, h0, words)
    OBVIOUS
  <2> HIDE DEF t, words, r, h0, s
  <2>3. YGResult(x, h0, words, YGCollect(t, h0, words))
    BY <2>1, <1>2, YGCollectWorks
  <2> QED BY <2>2, <2>3 DEF words
<1> HIDE DEF r, h0
<1>6. /\ Sound(x, h1) /\ r.words \in Words /\ Len(r.words) = RootCount /\ Forwarded(x, h1, s.root, r.words)
  BY <1>1, <1>4, <1>5, StepSound DEF YGResult
<1> HIDE DEF h1
<1>7. Sound(x, h2) /\ Kept(x, h1, h2)
  BY <1>0, <1>6, PermCollected
<1> HIDE DEF h2
<1>8. /\ Sound(x, h3) /\ Kept(x, h2, h3)
      /\ \A p \in MatureHeads(s) : p \in Elsewhere(x) /\ (p \in s.cards => Redirected(x, h3, p))
  BY <1>0, <1>7, MatureCollected
<1> HIDE DEF h3
<1>9. /\ Sound(x, h4) /\ Kept(x, h3, h4)
      /\ \A p \in PermHeads(s) : Redirected(x, h4, p)
  BY <1>0, <1>8, PermCollected
<1> HIDE DEF h4
<1>10. Forwarded(x, h4, s.root, r.words)
  BY <1>6, <1>7, <1>8, <1>9 DEF Kept
<1>11. Placed(s)
  BY <1>0, CellsPlaced DEF HeapOK
<1>12. \A w \in Cells(s) : Within(w, x.start, x.end) => w \in YoungHeads(s)
  BY <1>0, <1>3, <1>11, Generations DEF HeapOK
<1>13. ASSUME NEW p \in Cells(s), p \notin YoungHeads(s) PROVE p \in Elsewhere(x) /\ Redirected(x, h4, p)
  <2>1. p \in Pages /\ (p \in MatureHeads(s) \/ p \in PermHeads(s))
    BY <1>11, <1>13 DEF Placed
  <2>2. p \in Elsewhere(x)
    <3>1. p \notin x.low .. x.top - 1
      BY <1>0, <1>3, <1>11, Generations DEF HeapOK
    <3> QED BY <3>1, <2>1, <1>3, <1>13 DEF Elsewhere
  <2>3. CASE p \in PermHeads(s)
    BY <2>2, <2>3, <1>9
  <2>4. CASE p \in MatureHeads(s) /\ p \in s.cards
    BY <2>2, <2>4, <1>8, <1>9 DEF Kept
  <2>5. CASE p \in MatureHeads(s) /\ p \notin s.cards
    <3>1. ToSet(s.mem[p].fields) \cap YoungHeads(s) = {} /\ ToSet(s.mem[p].fields) \subseteq Cells(s) \cup {Nil}
      BY <1>0, <2>5 DEF HeapOK, Carded, Closed
    <3>2. s.mem[p].fields \in Words
      BY <1>0, <2>1, HeaderType DEF HeapOK, Typed
    <3>3. \A i \in 1 .. Len(s.mem[p].fields) : s.mem[p].fields[i] \in ToSet(s.mem[p].fields)
      BY <3>2 DEF ToSet, Words
    <3>3a. ~Within(Nil, x.start, x.end)
      BY <1>2 DEF YGContext, Within, Nil
    <3>4. \A i \in 1 .. Len(s.mem[p].fields) : ~Within(s.mem[p].fields[i], x.start, x.end)
      BY <3>1, <3>3, <3>3a, <1>12
    <3>5. Forwarded(x, h4, x.mem[p].fields, x.mem[p].fields)
      BY <3>4, <1>3 DEF Forwarded
    <3>6. h4.mem[p] = x.mem[p] \/ Redirected(x, h4, p)
      BY <2>2, <1>9 DEF Sound, Outside
    <3> QED BY <2>2, <3>5, <3>6 DEF Redirected
  <2> QED BY <2>1, <2>3, <2>4, <2>5
<1>14. Gathered(s, x, h4, r.words)
  BY <1>6, <1>9, <1>10, <1>13 DEF Gathered
<1>15. h4 = MinorHeap(s) /\ r.words = MinorRoots(s)
  BY DEF MinorHeap, MinorRoots, h4, h3, h2, h1, h0, r
<1> QED BY <1>14, <1>15

-----------------------------------------------------------------------------
(* The state after the halves have changed places.                         *)

\* MinorCollect in its parts.
LEMMA MinorCollectDef ==
  MinorCollect = SwitchHalves(table, MinorHeap(Now), MinorRoots(Now))
<1>1. Now.mem = mem /\ Now.table = table /\ Now.root = root
  BY DEF Now
<1> QED BY <1>1 DEF MinorCollect, MinorHeap, MinorRoots

\* What the table becomes.
Switched(t, u, current) ==
  /\ u \in Tables
  /\ u.gc_yg_current = current
  /\ u.gc_yg_start = t.gc_shadow /\ u.gc_shadow = t.gc_yg_start
  /\ u.gc_yg_end = t.gc_shadow_end /\ u.gc_shadow_end = t.gc_yg_end
  /\ u.gc_mg_start = t.gc_mg_start /\ u.gc_mg_current = t.gc_mg_current /\ u.gc_end = t.gc_end
  /\ u.gc_perm_start = t.gc_perm_start /\ u.gc_perm_current = t.gc_perm_current

\* The table after the halves have changed places.
LEMMA SwitchedTable ==
  ASSUME NEW t, TableOK(t), NEW h, NEW words, h.shadow \in t.gc_shadow .. t.gc_shadow_end
  PROVE  Switched(t, SwitchHalves(t, h, words).table, h.shadow) /\ TableOK(SwitchHalves(t, h, words).table)
<1> DEFINE u == [t EXCEPT !.gc_yg_current = h.shadow,
                          !.gc_yg_start = t.gc_shadow, !.gc_shadow = t.gc_yg_start,
                          !.gc_yg_end = t.gc_shadow_end, !.gc_shadow_end = t.gc_yg_end]
<1>1. t \in Tables /\ t.gc_shadow \in Nat /\ t.gc_shadow_end \in Nat /\ t.gc_yg_start \in Nat /\ t.gc_yg_end \in Nat
  BY TableFacts
<1>2. h.shadow \in Nat
  BY <1>1
<1>3. Switched(t, u, h.shadow)
  BY <1>1, <1>2 DEF Switched, Tables
<1>4. SwitchHalves(t, h, words).table = u
  BY DEF SwitchHalves
<1> HIDE DEF u
<1>5. TableOK(u)
  BY <1>3 DEF TableOK, Switched
<1> QED BY <1>3, <1>4, <1>5

MinorKept(s, x, h) == Copied(x, h) \cup {p \in Cells(s) : p \notin YoungHeads(s)}
MinorMap(s, x, h) == [p \in MinorKept(s, x, h) |-> IF p \in YoungHeads(s) THEN h.mem[p].vmt ELSE p]

\* The pages of the new state.
LEMMA SwitchedPages ==
  ASSUME NEW t, NEW h, NEW words
  PROVE  /\ SwitchHalves(t, h, words).root = words /\ SwitchHalves(t, h, words).cards = cards
         /\ \A p \in Pages : SwitchHalves(t, h, words).mem[p] =
                               IF t.gc_yg_start <= p /\ p < t.gc_yg_end THEN Zero ELSE h.mem[p]
         /\ h.mem \in Memories => SwitchHalves(t, h, words).mem \in Memories
<1> DEFINE m == [p \in Pages |-> IF t.gc_yg_start <= p /\ p < t.gc_yg_end THEN Zero ELSE h.mem[p]]
<1>1. Zero \in Headers
  BY DEF Zero, Headers, Words
<1>2. h.mem \in Memories => m \in Memories
  BY <1>1 DEF Memories
<1>3. SwitchHalves(t, h, words).mem = m /\ SwitchHalves(t, h, words).root = words /\ SwitchHalves(t, h, words).cards = cards
  BY DEF SwitchHalves
<1>4. \A p \in Pages : m[p] = IF t.gc_yg_start <= p /\ p < t.gc_yg_end THEN Zero ELSE h.mem[p]
  OBVIOUS
<1> HIDE DEF m
<1> QED BY <1>2, <1>3, <1>4

\* Where a minor collection has put what, and what it has left.
Halved(s, x, h, u) ==
  /\ u.table.gc_yg_start = x.low /\ u.table.gc_yg_end = x.top /\ u.table.gc_yg_current = h.shadow
  /\ Switched(s.table, u.table, h.shadow) /\ TableOK(u.table)
  /\ u.cards = s.cards
  /\ u.mem \in Memories
  /\ \A p \in Pages : x.start <= p /\ p < x.end => u.mem[p] = Zero
  /\ \A p \in x.low .. x.top - 1 : p \in Pages /\ u.mem[p] = h.mem[p]
  /\ \A p \in Elsewhere(x) : p < x.start \/ x.end <= p => u.mem[p] = h.mem[p]

\* The state after the halves have changed places.
LEMMA HalvesSwitched ==
  ASSUME HeapOK(Now), NEW x, x = MinorContext(Now), NEW h, YGHeap(x, h), NEW words
  PROVE  Halved(Now, x, h, SwitchHalves(table, h, words)) /\ SwitchHalves(table, h, words).root = words
<1> DEFINE u == SwitchHalves(table, h, words)
           s == Now
<1>0. HeapOK(s) /\ x = MinorContext(s) /\ s.table = table /\ s.cards = cards /\ TableOK(table)
  BY DEF Now, HeapOK
<1>1. x.mem = s.mem /\ x.heads = YoungHeads(s) /\ x.low = table.gc_shadow /\ x.top = table.gc_shadow_end
      /\ x.start = table.gc_yg_start /\ x.end = table.gc_yg_end
  BY <1>0, ContextFields
<1> HIDE DEF s
<1>2. YGContext(x)
  BY <1>0, MinorContextOK
<1>3. h.mem \in Memories /\ h.shadow \in Nat /\ h.shadow <= x.top /\ x.low <= h.shadow
      /\ \A q \in x.low .. x.top - 1 : q \in Pages
  BY <1>2, HeapFacts DEF YGHeap
<1>4. h.shadow \in table.gc_shadow .. table.gc_shadow_end
  BY <1>0, <1>1, <1>3, TableFacts
<1>5. Switched(table, u.table, h.shadow) /\ TableOK(u.table)
  BY <1>0, <1>4, SwitchedTable
<1>6. /\ u.root = words /\ u.cards = cards /\ u.mem \in Memories
      /\ \A p \in Pages : u.mem[p] = IF x.start <= p /\ p < x.end THEN Zero ELSE h.mem[p]
  BY <1>1, <1>3, SwitchedPages
<1> HIDE DEF u
<1>7. ASSUME NEW p \in x.low .. x.top - 1 PROVE p \in Pages /\ u.mem[p] = h.mem[p]
  <2>1. p \in Pages /\ p \in Nat /\ x.low <= p /\ p < x.top
    BY <1>2, <1>3 DEF YGContext
  <2>2. ~(x.start <= p /\ p < x.end)
    BY <2>1, <1>2 DEF YGContext
  <2> QED BY <2>1, <2>2, <1>6
<1>8. ASSUME NEW p \in Elsewhere(x), p < x.start \/ x.end <= p PROVE u.mem[p] = h.mem[p]
  <2>1. p \in Pages /\ p \in Nat
    BY Areas DEF Elsewhere
  <2>2. ~(x.start <= p /\ p < x.end)
    BY <2>1, <1>2, <1>8 DEF YGContext
  <2> QED BY <2>1, <2>2, <1>6
<1>9. u.table.gc_yg_start = x.low /\ u.table.gc_yg_end = x.top /\ u.table.gc_yg_current = h.shadow
  BY <1>1, <1>5 DEF Switched
<1>10. Halved(s, x, h, u)
  BY <1>0, <1>5, <1>6, <1>7, <1>8, <1>9 DEF Halved
<1> QED BY <1>6, <1>10 DEF u, s

\* The headers of the generations after a minor collection.
LEMMA HalvedHeads ==
  ASSUME NEW s, HeapOK(s), NEW x, x = MinorContext(s), YGContext(x), NEW h, Sound(x, h), NEW u, Halved(s, x, h, u)
  PROVE  /\ YoungHeads(u) = Copies(x, h) /\ MatureHeads(u) = MatureHeads(s) /\ PermHeads(u) = PermHeads(s)
         /\ Covered(u)
<1>0. TableOK(s.table) /\ Typed(s) /\ Covered(s) /\ Rest(s) /\ TableOK(u.table) /\ u.mem \in Memories
  BY DEF HeapOK, Halved
<1>1. x.mem = s.mem /\ x.heads = YoungHeads(s) /\ x.low = s.table.gc_shadow /\ x.top = s.table.gc_shadow_end
      /\ x.start = s.table.gc_yg_start /\ x.end = s.table.gc_yg_end
  BY ContextFields
<1>2. Placed(s)
  BY <1>0, CellsPlaced
<1>3. YGHeap(x, h) /\ Outside(x, h)
  BY DEF Sound
<1>4. ASSUME NEW p \in Nat, NEW pages \in Nat, p \in Pages, 2 * YGSize <= p
      PROVE  p \in Elsewhere(x) /\ u.mem[p].pages = s.mem[p].pages /\ u.mem[p].pages \in Nat \ {0}
  <2>1. p \notin x.low .. x.top - 1 /\ p >= x.end
    BY <1>0, <1>1, <1>4, TableFacts, Areas
  <2>2. p \notin x.heads
    <3>1. \A q \in x.heads : q \in Nat /\ q < s.table.gc_yg_current
      BY <1>1, <1>2 DEF Placed
    <3>2. s.table.gc_yg_current \in Nat /\ s.table.gc_yg_current <= 2 * YGSize
      BY <1>0, TableFacts, Areas
    <3> QED BY <3>1, <3>2, <1>4, Areas
  <2>3. p \in Elsewhere(x)
    BY <2>1, <2>2, <1>4 DEF Elsewhere
  <2>4. u.mem[p] = h.mem[p]
    BY <2>1, <2>3 DEF Halved
  <2>5. h.mem[p].pages = s.mem[p].pages
    BY <2>3, <1>1, <1>3 DEF Outside, Redirected
  <2>6. u.mem[p].pages \in Nat \ {0}
    BY <1>0, <1>4, HeaderType
  <2> QED BY <2>3, <2>4, <2>5, <2>6
<1>5. MatureHeads(u) = MatureHeads(s) /\ Tiled(u.mem, MatureHeads(u), u.table.gc_mg_start, u.table.gc_mg_current)
  <2> DEFINE S == MatureHeads(s)
             from == s.table.gc_mg_start
             to == s.table.gc_mg_current
  <2>1. from \in Nat /\ to \in Nat /\ u.table.gc_mg_start = from /\ u.table.gc_mg_current = to
    BY <1>0, TableFacts, Areas DEF Halved, Switched
  <2>2. \A p \in S : u.mem[p].pages = s.mem[p].pages /\ u.mem[p].pages \in Nat \ {0}
    BY <1>2, <1>4 DEF Placed
  <2>3. Tiled(s.mem, S, from, to)
    BY <1>0 DEF Covered
  <2>4. MatureHeads(u) = Walk(u.mem, from, to)
    BY <2>1 DEF MatureHeads
  <2> HIDE DEF S, from, to
  <2>5. Tiled(u.mem, S, from, to)
    BY <2>2, <2>3, TiledAgree
  <2>6. Walk(u.mem, from, to) = S
    BY <2>1, <2>2, <2>5, WalkTiled
  <2> QED BY <2>1, <2>4, <2>5, <2>6 DEF S
<1>6. PermHeads(u) = PermHeads(s) /\ Tiled(u.mem, PermHeads(u), u.table.gc_perm_start, u.table.gc_perm_current)
  <2> DEFINE S == PermHeads(s)
             from == s.table.gc_perm_start
             to == s.table.gc_perm_current
  <2>1. from \in Nat /\ to \in Nat /\ u.table.gc_perm_start = from /\ u.table.gc_perm_current = to
    BY <1>0, TableFacts, Areas DEF Halved, Switched
  <2>2. \A p \in S : u.mem[p].pages = s.mem[p].pages /\ u.mem[p].pages \in Nat \ {0}
    <3>1. \A p \in S : p \in Pages /\ p \in Nat /\ 2 * YGSize <= p
      BY <1>2, Areas DEF Placed
    <3> QED BY <3>1, <1>4
  <2>3. Tiled(s.mem, S, from, to)
    BY <1>0 DEF Covered
  <2>4. PermHeads(u) = Walk(u.mem, from, to)
    BY <2>1 DEF PermHeads
  <2> HIDE DEF S, from, to
  <2>5. Tiled(u.mem, S, from, to)
    BY <2>2, <2>3, TiledAgree
  <2>6. Walk(u.mem, from, to) = S
    BY <2>1, <2>2, <2>5, WalkTiled
  <2> QED BY <2>1, <2>4, <2>5, <2>6 DEF S
<1>7. YoungHeads(u) = Copies(x, h) /\ Tiled(u.mem, YoungHeads(u), u.table.gc_yg_start, u.table.gc_yg_current)
  <2> DEFINE S == Copies(x, h)
             from == x.low
             to == h.shadow
  <2>1. from \in Nat /\ to \in Nat /\ u.table.gc_yg_start = from /\ u.table.gc_yg_current = to /\ to <= x.top
    BY <1>3, HeapFacts DEF Halved, YGContext
  <2>3. Tiled(h.mem, S, from, to)
    BY <1>3 DEF YGHeap
  <2>2. \A p \in S : u.mem[p].pages = h.mem[p].pages /\ u.mem[p].pages \in Nat \ {0}
    <3> SUFFICES ASSUME NEW p \in S PROVE u.mem[p].pages = h.mem[p].pages /\ u.mem[p].pages \in Nat \ {0}
      OBVIOUS
    <3>1. p \in from .. to - 1
      BY <2>3 DEF Tiled
    <3>2. p \in x.low .. x.top - 1
      BY <3>1, <2>1 DEF YGContext
    <3>3. p \in Pages /\ u.mem[p] = h.mem[p]
      BY <3>2 DEF Halved
    <3> QED BY <3>3, <1>0, HeaderType
  <2>4. YoungHeads(u) = Walk(u.mem, from, to)
    BY <2>1 DEF YoungHeads
  <2> HIDE DEF S, from, to
  <2>5. Tiled(u.mem, S, from, to)
    BY <2>2, <2>3, TiledAgree
  <2>6. Walk(u.mem, from, to) = S
    BY <2>1, <2>2, <2>5, WalkTiled
  <2> QED BY <2>1, <2>4, <2>5, <2>6 DEF S
<1> QED BY <1>5, <1>6, <1>7 DEF Covered

\* All that is known of a minor collection from s to u.
Minor(s, x, h, words, u) ==
  /\ HeapOK(s) /\ x = MinorContext(s) /\ YGContext(x) /\ Placed(s)
  /\ Gathered(s, x, h, words) /\ Halved(s, x, h, u) /\ u.root = words
  /\ YoungHeads(u) = Copies(x, h) /\ MatureHeads(u) = MatureHeads(s) /\ PermHeads(u) = PermHeads(s)

\* Which page is where.
LEMMA MinorAreas ==
  ASSUME NEW s, NEW x, NEW h, NEW words, NEW u, Minor(s, x, h, words, u)
  PROVE  /\ x.mem = s.mem /\ x.heads = YoungHeads(s)
         /\ x.start \in Nat /\ x.end \in Nat /\ x.low \in Nat /\ x.top \in Nat
         /\ \A p \in Copies(x, h) : p \in x.low .. x.top - 1
         /\ \A p \in Pages : \/ x.start <= p /\ p < x.end /\ p < 2 * YGSize
                             \/ p \in x.low .. x.top - 1 /\ p < 2 * YGSize
                             \/ 2 * YGSize <= p
         /\ \A p \in Pages : 2 * YGSize <= p =>
              p \in Elsewhere(x) /\ u.mem[p] = h.mem[p] /\ p \notin YoungHeads(s) /\ p \notin x.low .. x.top - 1
         /\ \A p \in Pages : x.start <= p /\ p < x.end => u.mem[p] = Zero
         /\ \A p \in x.low .. x.top - 1 : /\ p \in Pages /\ u.mem[p] = h.mem[p] /\ p \notin Cells(s)
                                          /\ p \notin Copies(x, h) => u.mem[p] = s.mem[p]
<1>0. /\ HeapOK(s) /\ x = MinorContext(s) /\ YGContext(x) /\ Placed(s) /\ Halved(s, x, h, u)
      /\ YGHeap(x, h) /\ TableOK(s.table)
  BY DEF Minor, Gathered, Sound, HeapOK
<1>1. x.mem = s.mem /\ x.heads = YoungHeads(s) /\ x.low = s.table.gc_shadow /\ x.top = s.table.gc_shadow_end
      /\ x.start = s.table.gc_yg_start /\ x.end = s.table.gc_yg_end
  BY <1>0, ContextFields
<1>2. x.start \in Nat /\ x.end \in Nat /\ x.low \in Nat /\ x.top \in Nat
  BY <1>0, Areas DEF YGContext
<1>3. \A p \in Copies(x, h) : p \in x.low .. x.top - 1
  <2> SUFFICES ASSUME NEW p \in Copies(x, h) PROVE p \in x.low .. x.top - 1
    OBVIOUS
  <2>1. p \in x.low .. h.shadow - 1
    BY <1>0, HeapFacts DEF Copies
  <2>2. h.shadow \in Nat /\ h.shadow <= x.top
    BY <1>0, HeapFacts
  <2> QED BY <2>1, <2>2, <1>2
<1>4. \A p \in Pages : \/ x.start <= p /\ p < x.end /\ p < 2 * YGSize
                       \/ p \in x.low .. x.top - 1 /\ p < 2 * YGSize
                       \/ 2 * YGSize <= p
  <2> SUFFICES ASSUME NEW p \in Pages
               PROVE  \/ x.start <= p /\ p < x.end /\ p < 2 * YGSize
                      \/ p \in x.low .. x.top - 1 /\ p < 2 * YGSize
                      \/ 2 * YGSize <= p
    OBVIOUS
  <2>1. p \in Nat
    BY Areas
  <2>2. \/ x.start = 0 /\ x.end = YGSize /\ x.low = YGSize /\ x.top = 2 * YGSize
        \/ x.low = 0 /\ x.top = YGSize /\ x.start = YGSize /\ x.end = 2 * YGSize
    BY <1>0, <1>1 DEF TableOK
  <2> QED BY <2>1, <2>2, Areas
<1>5. ASSUME NEW p \in Pages, 2 * YGSize <= p
      PROVE  p \in Elsewhere(x) /\ u.mem[p] = h.mem[p] /\ p \notin YoungHeads(s) /\ p \notin x.low .. x.top - 1
  <2>1. p \in Nat
    BY Areas
  <2>2. p \notin x.low .. x.top - 1 /\ p >= x.end
    BY <2>1, <1>0, <1>1, <1>5, TableFacts, Areas
  <2>3. p \notin x.heads
    <3>1. \A q \in x.heads : q \in Nat /\ q < s.table.gc_yg_current
      BY <1>0, <1>1 DEF Placed
    <3>2. s.table.gc_yg_current \in Nat /\ s.table.gc_yg_current <= 2 * YGSize
      BY <1>0, TableFacts, Areas
    <3> QED BY <3>1, <3>2, <2>1, <1>5, Areas
  <2>4. p \in Elsewhere(x)
    BY <2>2, <2>3 DEF Elsewhere
  <2>5. u.mem[p] = h.mem[p]
    BY <2>2, <2>4, <1>0 DEF Halved
  <2> QED BY <2>2, <2>3, <2>4, <2>5, <1>1
<1>6. \A p \in x.low .. x.top - 1 : /\ p \in Pages /\ u.mem[p] = h.mem[p] /\ p \notin Cells(s)
                                    /\ p \notin Copies(x, h) => u.mem[p] = s.mem[p]
  BY <1>0, <1>1, Generations DEF Halved, YGHeap
<1>7. \A p \in Pages : x.start <= p /\ p < x.end => u.mem[p] = Zero
  BY <1>0 DEF Halved
<1> QED BY <1>1, <1>2, <1>3, <1>4, <1>5, <1>6, <1>7

\* The objects that are not young.
LEMMA MinorOld ==
  ASSUME NEW s, NEW x, NEW h, NEW words, NEW u, Minor(s, x, h, words, u),
         NEW p \in MatureHeads(s) \cup PermHeads(s)
  PROVE  /\ p \in Pages /\ p \in Nat /\ 2 * YGSize <= p /\ p \notin YoungHeads(s) /\ u.mem[p] = h.mem[p]
         /\ u.mem[p].marked = s.mem[p].marked /\ u.mem[p].pages = s.mem[p].pages /\ u.mem[p].vmt = s.mem[p].vmt
         /\ p \notin x.low .. x.top - 1
         /\ p \in Cells(s) => Redirected(x, h, p)
<1>1. p \in Pages /\ p \in Nat /\ 2 * YGSize <= p
  BY Areas DEF Minor, Placed
<1>2. p \in Elsewhere(x) /\ u.mem[p] = h.mem[p] /\ p \notin YoungHeads(s) /\ x.mem = s.mem
      /\ p \notin x.low .. x.top - 1
  BY <1>1, MinorAreas
<1>3. h.mem[p] = x.mem[p] \/ Redirected(x, h, p)
  BY <1>2 DEF Minor, Gathered, Sound, Outside
<1>4. p \in Cells(s) => Redirected(x, h, p)
  BY <1>2 DEF Minor, Gathered
<1> QED BY <1>1, <1>2, <1>3, <1>4 DEF Redirected

\* After a minor collection the objects are the copies, the mature and the
\* permanent ones.
LEMMA MinorCells ==
  ASSUME NEW s, NEW x, NEW h, NEW words, NEW u, Minor(s, x, h, words, u)
  PROVE  Cells(u) = Copies(x, h) \cup {p \in Cells(s) : p \notin YoungHeads(s)}
<1>1. YoungHeads(u) = Copies(x, h) /\ MatureHeads(u) = MatureHeads(s) /\ PermHeads(u) = PermHeads(s)
  BY DEF Minor
<1>2. ASSUME NEW p \in Copies(x, h) PROVE ~u.mem[p].marked
  <2>1. PICK q \in Copied(x, h) : p = h.mem[q].vmt
    BY DEF Copies
  <2>2. ~h.mem[p].marked
    BY <2>1 DEF Minor, Gathered, Sound, YGHeap, CopyOf
  <2>3. u.mem[p] = h.mem[p]
    BY MinorAreas
  <2> QED BY <2>2, <2>3
<1>3. \A p \in MatureHeads(s) \cup PermHeads(s) : p \notin YoungHeads(s) /\ u.mem[p].marked = s.mem[p].marked
  BY MinorOld
<1> QED BY <1>1, <1>2, <1>3 DEF Cells

\* A word that was forwarded refers to where its object is now.
LEMMA MinorRenamed ==
  ASSUME NEW s, NEW x, NEW h, NEW words, NEW u, Minor(s, x, h, words, u),
         NEW w \in Cells(s) \cup {Nil}, NEW new,
         IF Within(w, x.start, x.end) THEN w \in Copied(x, h) /\ new = h.mem[w].vmt ELSE new = w
  PROVE  Renamed(MinorKept(s, x, h), MinorMap(s, x, h), w, new)
<1>1. Placed(s) /\ x.start = s.table.gc_yg_start /\ x.heads = YoungHeads(s) /\ x.start \in Nat
  BY MinorAreas, ContextFields DEF Minor
<1>2. CASE Within(w, x.start, x.end)
  <2>1. w \in Copied(x, h) /\ w \in YoungHeads(s) /\ new = h.mem[w].vmt
    BY <1>1, <1>2 DEF Copied
  <2>2. w # Nil
    BY <1>1, <2>1 DEF Placed
  <2> QED BY <2>1, <2>2 DEF Renamed, MinorKept, MinorMap
<1>3. CASE ~Within(w, x.start, x.end)
  <2>1. CASE w = Nil
    BY <1>3, <2>1 DEF Renamed
  <2>2. CASE w # Nil
    <3>1. w \in Cells(s)
      BY <2>2
    <3>2. w \notin YoungHeads(s)
      <4>1. \A q \in YoungHeads(s) : Within(q, x.start, x.end)
        <5>1. \A q \in x.heads : q \in x.start .. x.end - 1
          BY DEF Minor, YGContext
        <5> QED BY <5>1, <1>1, MinorAreas DEF Within
      <4> QED BY <4>1, <1>3
    <3> QED BY <3>1, <3>2, <2>2, <1>3 DEF Renamed, MinorKept, MinorMap
  <2> QED BY <2>1, <2>2
<1> QED BY <1>2, <1>3

\* A minor collection only moves objects.
LEMMA MinorRelocated ==
  ASSUME NEW s, NEW x, NEW h, NEW words, NEW u, Minor(s, x, h, words, u)
  PROVE  Relocated(s, u, MinorKept(s, x, h), MinorMap(s, x, h))
<1> DEFINE K == MinorKept(s, x, h)
           f == MinorMap(s, x, h)
           old == {p \in Cells(s) : p \notin YoungHeads(s)}
<1>0. /\ HeapOK(s) /\ x = MinorContext(s) /\ YGContext(x) /\ Placed(s)
      /\ Gathered(s, x, h, words) /\ Sound(x, h) /\ YGHeap(x, h) /\ Complete(x, h) /\ u.root = words
      /\ Closed(s) /\ Typed(s)
  BY DEF Minor, Gathered, Sound, HeapOK
<1>1. x.heads = YoungHeads(s) /\ x.mem = s.mem /\ Copied(x, h) \subseteq YoungHeads(s)
  BY MinorAreas DEF Copied
<1>2. \A p \in Copied(x, h) : p \in K /\ p \in Cells(s) /\ f[p] = h.mem[p].vmt /\ f[p] \in Copies(x, h)
  BY <1>0, <1>1 DEF MinorKept, MinorMap, Copies, Placed
<1>3. \A p \in old : p \in K /\ p \in Cells(s) /\ f[p] = p /\ p \in MatureHeads(s) \cup PermHeads(s)
  BY <1>0 DEF MinorKept, MinorMap, Placed
<1>4. K = Copied(x, h) \cup old
  BY DEF MinorKept
<1>5. f \in [K -> Pages]
  <2>1. \A p \in K : f[p] \in Pages
    <3>1. \A p \in Copied(x, h) : f[p] \in Pages
      BY <1>2, MinorAreas
    <3>2. \A p \in old : f[p] \in Pages
      BY <1>3, <1>0 DEF Placed
    <3> QED BY <3>1, <3>2, <1>4
  <2>2. f = [p \in K |-> f[p]]
    BY DEF MinorMap
  <2> HIDE DEF f, K
  <2> QED BY <2>1, <2>2
<1> HIDE DEF K, f
<1>6. ASSUME NEW p \in K, NEW q \in K, f[p] = f[q] PROVE p = q
  <2>1. CASE p \in Copied(x, h) /\ q \in Copied(x, h)
    BY <2>1, <1>0, <1>2, <1>6 DEF YGHeap
  <2>2. \A r \in Copied(x, h) : f[r] \in x.low .. x.top - 1
    BY <1>2, MinorAreas
  <2>3. \A r \in old : f[r] \notin x.low .. x.top - 1
    BY <1>3, MinorOld
  <2> QED BY <2>1, <2>2, <2>3, <1>3, <1>4, <1>6
<1>7. Cells(u) = {f[p] : p \in K}
  <2>1. Cells(u) = Copies(x, h) \cup old
    BY MinorCells
  <2>2. Copies(x, h) = {f[p] : p \in Copied(x, h)}
    BY <1>2 DEF Copies
  <2>3. old = {f[p] : p \in old}
    BY <1>3
  <2> QED BY <2>1, <2>2, <2>3, <1>4
<1>8. \A p \in PermHeads(s) : p \in K /\ f[p] = p
  <2>1. \A p \in PermHeads(s) : p \in old
    BY <1>0, MinorOld DEF Placed
  <2> QED BY <2>1, <1>3
<1>9. ASSUME NEW w \in Cells(s) \cup {Nil}, NEW new,
             IF Within(w, x.start, x.end) THEN w \in Copied(x, h) /\ new = h.mem[w].vmt ELSE new = w
      PROVE  Renamed(K, f, w, new)
  BY <1>9, MinorRenamed DEF K, f
<1>10. ASSUME NEW r \in Roots PROVE Renamed(K, f, s.root[r], u.root[r])
  <2>1. r \in 1 .. Len(words) /\ Forwarded(x, h, s.root, words)
    BY <1>0 DEF Gathered, Roots
  <2>2. IF Within(s.root[r], x.start, x.end)
        THEN s.root[r] \in Copied(x, h) /\ words[r] = h.mem[s.root[r]].vmt ELSE words[r] = s.root[r]
    BY <2>1 DEF Forwarded
  <2>3. s.root[r] \in Cells(s) \cup {Nil}
    BY <1>0 DEF Closed
  <2> QED BY <2>2, <2>3, <1>0, <1>9
<1>11. ASSUME NEW p \in K
       PROVE  /\ u.mem[f[p]].pages = s.mem[p].pages /\ u.mem[f[p]].vmt = s.mem[p].vmt
              /\ Len(u.mem[f[p]].fields) = Len(s.mem[p].fields)
              /\ \A i \in 1 .. Len(s.mem[p].fields) : Renamed(K, f, s.mem[p].fields[i], u.mem[f[p]].fields[i])
  <2> DEFINE q == f[p]
             old_f == s.mem[p].fields
             new_f == u.mem[q].fields
  <2>1. /\ u.mem[q].pages = s.mem[p].pages /\ u.mem[q].vmt = s.mem[p].vmt
        /\ Len(new_f) = Len(old_f) /\ Forwarded(x, h, old_f, new_f)
    <3>1. CASE p \in Copied(x, h)
      <4>1. u.mem[q] = h.mem[q] /\ q = h.mem[p].vmt
        BY <3>1, <1>2, MinorAreas
      <4>2. CopyOf(x, h, p, q)
        BY <3>1, <4>1, <1>0 DEF YGHeap
      <4>3. Len(h.mem[q].fields) = Len(x.mem[p].fields) /\ Forwarded(x, h, x.mem[p].fields, h.mem[q].fields)
        BY <3>1, <4>1, <1>0 DEF Complete
      <4> QED BY <4>1, <4>2, <4>3, <1>1 DEF CopyOf
    <3>2. CASE p \in old
      <4>1. q = p /\ u.mem[p] = h.mem[p] /\ Redirected(x, h, p)
        BY <3>2, <1>3, MinorOld
      <4> QED BY <4>1, <1>1 DEF Redirected
    <3> QED BY <3>1, <3>2, <1>4
  <2>2. p \in Cells(s) /\ p \in Pages
    BY <1>0, <1>2, <1>3, <1>4 DEF Placed
  <2>3. s.mem[p].fields \in Words /\ ToSet(s.mem[p].fields) \subseteq Cells(s) \cup {Nil}
    BY <2>2, <1>0, HeaderType DEF Closed, Typed
  <2>4. \A i \in 1 .. Len(old_f) : old_f[i] \in Cells(s) \cup {Nil}
    BY <2>3 DEF ToSet, Words
  <2> HIDE DEF old_f, new_f, q
  <2>5. ASSUME NEW i \in 1 .. Len(old_f) PROVE Renamed(K, f, old_f[i], new_f[i])
    <3>1. IF Within(old_f[i], x.start, x.end)
          THEN old_f[i] \in Copied(x, h) /\ new_f[i] = h.mem[old_f[i]].vmt ELSE new_f[i] = old_f[i]
      BY <2>1 DEF Forwarded
    <3> QED BY <3>1, <2>4, <1>9
  <2> QED BY <2>1, <2>5 DEF q, old_f, new_f
<1>12. K \subseteq Cells(s)
  BY <1>2, <1>3, <1>4
<1>13. PermHeads(u) = PermHeads(s)
  BY DEF Minor
<1>14. Relocated(s, u, K, f)
  BY <1>5, <1>6, <1>7, <1>8, <1>10, <1>11, <1>12, <1>13 DEF Relocated
<1> QED BY <1>14 DEF K, f

\* After a minor collection there are no fields but those of objects.
LEMMA MinorRest ==
  ASSUME NEW s, NEW x, NEW h, NEW words, NEW u, Minor(s, x, h, words, u)
  PROVE  Rest(u) /\ Typed(u)
<1>0. /\ HeapOK(s) /\ Placed(s) /\ Sound(x, h) /\ YGHeap(x, h) /\ Rest(s) /\ Typed(s) /\ u.mem \in Memories
      /\ x.mem = s.mem
  BY MinorAreas DEF Minor, Gathered, Sound, HeapOK, Halved
<1>1. \A p \in Cells(s) : p \in YoungHeads(s) \/ p \in Cells(u)
  BY MinorCells
<1>2. Copies(x, h) \subseteq Cells(u)
  BY MinorCells
<1>3. ASSUME NEW p \in Pages
      PROVE  /\ p \notin Cells(u) => u.mem[p].fields = <<>>
             /\ u.mem[p].marked => p \in 2 * YGSize .. Limit - 1 /\ p + u.mem[p].pages <= Limit
             /\ u.mem[p].vmt \in Objects \cup {NoObject}
  <2>1. CASE x.start <= p /\ p < x.end
    <3>1. u.mem[p] = Zero
      BY <2>1, MinorAreas
    <3> QED BY <3>1 DEF Zero
  <2>2. CASE p \in x.low .. x.top - 1 /\ p < 2 * YGSize /\ p \notin Copies(x, h)
    <3>1. u.mem[p] = s.mem[p] /\ p \notin Cells(s)
      BY <2>2, MinorAreas
    <3>2. p \notin 2 * YGSize .. Limit - 1
      BY <2>2, Areas
    <3> QED BY <3>1, <3>2, <1>0 DEF Rest, Typed
  <2>3. CASE p \in Copies(x, h)
    <3>1. PICK q \in Copied(x, h) : p = h.mem[q].vmt
      BY <2>3 DEF Copies
    <3>2. u.mem[p] = h.mem[p] /\ ~h.mem[p].marked /\ h.mem[p].vmt = x.mem[q].vmt
      BY <3>1, <2>3, <1>0, MinorAreas DEF YGHeap, CopyOf
    <3>3. q \in Pages
      BY <1>0, MinorAreas DEF Copied, Placed
    <3> QED BY <3>2, <3>3, <2>3, <1>0, <1>2 DEF Typed
  <2>4. CASE 2 * YGSize <= p
    <3>1. p \in Elsewhere(x) /\ u.mem[p] = h.mem[p] /\ p \notin YoungHeads(s)
      BY <2>4, MinorAreas
    <3>2. h.mem[p] = x.mem[p] \/ Redirected(x, h, p)
      BY <3>1, <1>0 DEF Sound, Outside
    <3>3. u.mem[p].marked = s.mem[p].marked /\ u.mem[p].pages = s.mem[p].pages /\ u.mem[p].vmt = s.mem[p].vmt
          /\ Len(u.mem[p].fields) = Len(s.mem[p].fields)
      BY <3>1, <3>2, <1>0 DEF Redirected
    <3>4. ASSUME p \notin Cells(u) PROVE u.mem[p].fields = <<>>
      <4>1. p \notin Cells(s)
        BY <3>1, <3>4, <1>1
      <4>2. s.mem[p].fields = <<>>
        BY <4>1, <1>0 DEF Rest
      <4>3. u.mem[p].fields \in Words /\ Len(u.mem[p].fields) = 0
        BY <4>2, <3>3, <1>0, HeaderType
      <4> QED BY <4>3 DEF Words
    <3> QED BY <3>3, <3>4, <1>0 DEF Rest, Typed
  <2> QED BY <2>1, <2>2, <2>3, <2>4, MinorAreas
<1>4. u.cards = s.cards /\ u.root = words /\ words \in Words /\ Len(words) = RootCount
  BY DEF Minor, Halved, Gathered
<1>5. u.root \in [Roots -> Pages \cup {Nil}]
  BY <1>4 DEF Words, Roots
<1> QED BY <1>0, <1>3, <1>4, <1>5 DEF Rest, Typed

\* After a minor collection every mature object that refers to a young one has
\* its card.
LEMMA MinorCarded ==
  ASSUME NEW s, NEW x, NEW h, NEW words, NEW u, Minor(s, x, h, words, u)
  PROVE  Carded(u)
<1>0. /\ HeapOK(s) /\ Placed(s) /\ Closed(s) /\ Carded(s) /\ Typed(s) /\ x.mem = s.mem /\ u.cards = s.cards
      /\ MatureHeads(u) = MatureHeads(s) /\ YoungHeads(u) = Copies(x, h) /\ TableOK(s.table)
      /\ x = MinorContext(s) /\ u.mem \in Memories
  BY MinorAreas DEF Minor, HeapOK, Halved
<1>1. x.start = s.table.gc_yg_start /\ x.end = s.table.gc_yg_end /\ x.start \in Nat
  BY <1>0, ContextFields, MinorAreas
<1> SUFFICES ASSUME NEW p \in Cells(u) \cap MatureHeads(u), p \notin u.cards
             PROVE  ToSet(u.mem[p].fields) \cap YoungHeads(u) = {}
  BY DEF Carded
<1>2. p \in MatureHeads(s) /\ p \in Pages /\ u.mem[p] = h.mem[p] /\ p \notin x.low .. x.top - 1
  BY <1>0, MinorOld
<1>3. p \in Cells(s)
  BY <1>2, MinorAreas, MinorCells
<1>4. Redirected(x, h, p)
  BY <1>0, <1>3, MinorOld
<1>5. /\ ToSet(s.mem[p].fields) \cap YoungHeads(s) = {} /\ ToSet(s.mem[p].fields) \subseteq Cells(s) \cup {Nil}
  BY <1>0, <1>3 DEF Carded, Closed
<1>6. s.mem[p].fields \in Words /\ u.mem[p].fields \in Words
  BY <1>0, <1>2, HeaderType DEF Typed
<1>7. \A i \in 1 .. Len(s.mem[p].fields) : s.mem[p].fields[i] \in ToSet(s.mem[p].fields)
  BY <1>6 DEF ToSet, Words
<1>8. ASSUME NEW i \in 1 .. Len(u.mem[p].fields) PROVE u.mem[p].fields[i] \notin Copies(x, h)
  <2> DEFINE w == s.mem[p].fields[i]
  <2>1. i \in 1 .. Len(s.mem[p].fields)
    BY <1>0, <1>2, <1>4, <1>8 DEF Redirected
  <2>2. w \in Cells(s) \cup {Nil} /\ w \notin YoungHeads(s)
    BY <2>1, <1>5, <1>7
  <2>3. ~Within(Nil, x.start, x.end)
    BY <1>1 DEF Within, Nil
  <2>4. ~Within(w, x.start, x.end)
    BY <2>2, <2>3, <1>0, <1>1, Generations
  <2>5. u.mem[p].fields[i] = w
    BY <2>1, <2>4, <1>0, <1>2, <1>4 DEF Redirected, Forwarded
  <2>6. \A q \in Copies(x, h) : q \notin Cells(s) /\ q # Nil
    BY MinorAreas, Areas
  <2> QED BY <2>2, <2>5, <2>6
<1> QED BY <1>0, <1>6, <1>8 DEF ToSet, Words

\* A minor collection keeps the heap in order, and every object that can be
\* reached, wherever it moves them.
MinorResult(s, u) ==
  /\ HeapOK(u)
  /\ \E K, f : Relocated(s, u, K, f)
  /\ Switched(s.table, u.table, u.table.gc_yg_current)

\* A minor collection leaves a heap in order with the same graph.
LEMMA MinorCollectWorks ==
  ASSUME HeapOK(Now)
  PROVE  MinorResult(Now, MinorCollect)
<1> DEFINE s == Now
           x == MinorContext(Now)
           h == MinorHeap(Now)
           words == MinorRoots(Now)
           u == MinorCollect
<1>1. Gathered(s, x, h, words)
  BY MinorGathers
<1>2. YGContext(x)
  BY MinorContextOK
<1>3. u = SwitchHalves(table, h, words)
  BY MinorCollectDef
<1>4. x = MinorContext(s) /\ HeapOK(s)
  OBVIOUS
<1> HIDE DEF x, h, words
<1>5. Halved(s, x, h, u) /\ u.root = words
  <2>1. YGHeap(x, h) /\ x = MinorContext(Now)
    BY <1>1, <1>4 DEF Gathered, Sound
  <2>2. Halved(Now, x, h, SwitchHalves(table, h, words)) /\ SwitchHalves(table, h, words).root = words
    BY <2>1, HalvesSwitched
  <2> QED BY <2>2, <1>3
<1> HIDE DEF u, s
<1>6. Placed(s)
  BY <1>4, CellsPlaced DEF HeapOK
<1>7. /\ YoungHeads(u) = Copies(x, h) /\ MatureHeads(u) = MatureHeads(s) /\ PermHeads(u) = PermHeads(s)
      /\ Covered(u)
  <2>1. Sound(x, h)
    BY <1>1 DEF Gathered
  <2> QED BY <2>1, <1>2, <1>4, <1>5, HalvedHeads
<1>8. Minor(s, x, h, words, u)
  BY <1>1, <1>2, <1>4, <1>5, <1>6, <1>7 DEF Minor
<1>9. Rest(u) /\ Typed(u) /\ Carded(u)
  BY <1>8, MinorRest, MinorCarded
<1>10. Relocated(s, u, MinorKept(s, x, h), MinorMap(s, x, h))
  BY <1>8, MinorRelocated
<1>11. Closed(u) /\ Shaped(u)
  BY <1>4, <1>9, <1>10, RelocatedOK DEF HeapOK, Typed
<1>12. TableOK(u.table) /\ Switched(s.table, u.table, u.table.gc_yg_current)
  BY <1>5 DEF Halved
<1>13. MinorResult(s, u)
  BY <1>7, <1>9, <1>10, <1>11, <1>12 DEF MinorResult, HeapOK
<1> QED BY <1>13 DEF s, u

-----------------------------------------------------------------------------
(* How many pages of a set there are below Limit.                          *)

Unit == [p \in Pages |-> Zero]
Count(S) == Weight(Unit, S)

\* Sets of pages below Limit can be counted.
LEMMA CountFacts ==
  ASSUME NEW S, S \subseteq 0 .. Limit - 1
  PROVE  /\ Count(S) \in Nat /\ Count(S) <= Limit
         /\ \A q \in S : Count(S \ {q}) < Count(S)
         /\ \A R \in SUBSET S : Count(R) <= Count(S) /\ Count(R) \in Nat
<1>1. \A p \in S : Unit[p].pages = 1 /\ p \in Pages
  BY Areas DEF Unit, Zero
<1>2. \A p \in S : Unit[p].pages \in Nat
  BY <1>1
<1>3. ASSUME NEW q \in S PROVE Count(S \ {q}) < Count(S)
  <2>1. /\ Weight(Unit, S \ {q}) = Weight(Unit, S) - Unit[q].pages
        /\ Weight(Unit, S \ {q}) \in Nat /\ Weight(Unit, S) \in Nat
    BY <1>2, WeightRemove
  <2> QED BY <2>1, <1>1 DEF Count
<1>4. ASSUME NEW R \in SUBSET S PROVE Count(R) <= Count(S) /\ Count(R) \in Nat
  BY <1>2, WeightSubset, WeightNat DEF Count
<1>5. Count(S) \in Nat /\ Count(S) <= Limit
  <2> DEFINE A == 0 .. Limit - 1
  <2>1. \A p \in A : Unit[p].pages = 1 /\ p \in Pages
    BY Areas DEF Unit, Zero
  <2>2. Tiled(Unit, A, 0, Limit)
    BY <2>1, Areas DEF Tiled
  <2>3. \A p \in A : Unit[p].pages \in Nat \ {0}
    BY <2>1
  <2>4. Weight(Unit, A) <= Limit - 0
    <3> HIDE DEF A
    <3> QED BY <2>2, <2>3, Areas, WeightTiled
  <2>5. Weight(Unit, S) <= Weight(Unit, A)
    <3>1. S \in SUBSET A
      OBVIOUS
    <3> HIDE DEF A
    <3> QED BY <2>3, <3>1, WeightSubset
  <2>6. Weight(Unit, A) \in Nat /\ Weight(Unit, S) \in Nat
    <3> HIDE DEF A
    <3> QED BY <1>2, <2>3, WeightNat
  <2> QED BY <2>4, <2>5, <2>6, Areas DEF Count
<1> QED BY <1>3, <1>4, <1>5

-----------------------------------------------------------------------------
(* Marking the objects x.heads of a memory x.mem, which are not marked and  *)
(* to which all references into [x.start, x.end) refer.                    *)

\* The words are visited one after the other.
MGVisiting(loop, collect, start, end, m, words) ==
  /\ loop[0] = m
  /\ \A n \in 1 .. Len(words) : loop[n] = MGVisit(collect, start, end, loop[n - 1], words[n])

\* MGVisits is the loop over words it is written as.
LEMMA MGVisitsDef ==
  ASSUME NEW collect, NEW start, NEW end, NEW m, NEW words, Len(words) \in Nat
  PROVE  MGVisiting(MGVisits(collect, start, end, m, words), collect, start, end, m, words)
<1> DEFINE Nxt(p, n) == MGVisit(collect, start, end, p, words[n])
           Rec(f, k) == f = [n \in 0 .. k |-> IF n = 0 THEN m ELSE Nxt(f[n - 1], n)]
           T == {k \in Nat : \E f : Rec(f, k)}
<1>0. Len(words) \in Nat
  OBVIOUS
<1>1. 0 \in T
  <2>1. Rec([n \in 0 .. 0 |-> m], 0)
    BY <1>0
  <2> QED BY <2>1
<1>2. ASSUME NEW k \in T PROVE k + 1 \in T
  <2>1. PICK f : Rec(f, k)
    OBVIOUS
  <2> DEFINE g == [n \in 0 .. (k + 1) |-> IF n <= k THEN f[n] ELSE Nxt(f[k], n)]
  <2> HIDE DEF Nxt
  <2>2. ASSUME NEW n \in 0 .. (k + 1)
        PROVE  g[n] = IF n = 0 THEN m ELSE Nxt(g[n - 1], n)
    <3>1. CASE n = 0
      BY <2>1, <3>1, <1>0
    <3>2. CASE n \in 1 .. k
      <4>1. n \in 0 .. k /\ n - 1 \in 0 .. k /\ n # 0 /\ n - 1 \in 0 .. (k + 1)
        BY <3>2, <1>0
      <4>2. g[n] = f[n] /\ g[n - 1] = f[n - 1]
        BY <4>1, <1>0
      <4>3. f[n] = Nxt(f[n - 1], n)
        BY <2>1, <4>1
      <4> QED BY <4>1, <4>2, <4>3
    <3>3. CASE n = k + 1
      BY <3>3, <1>0
    <3> QED BY <3>1, <3>2, <3>3, <1>0
  <2>3. Rec(g, k + 1)
    BY <2>2
  <2> HIDE DEF g, Rec
  <2> QED BY <2>3
<1>3. T = Nat
  <2> HIDE DEF T
  <2>1. T \in SUBSET Nat
    BY DEF T
  <2> QED BY <1>1, <1>2, <2>1, NatSetInduction
<1>4. \E f : Rec(f, Len(words))
  <2>1. \A k \in T : \E f : Rec(f, k)
    OBVIOUS
  <2> HIDE DEF T
  <2> QED BY <1>3, <1>0, <2>1
<1>4a. \E f : f = [n \in 0 .. Len(words) |-> IF n = 0 THEN m ELSE Nxt(f[n - 1], n)]
  <2>1. (Len(words)) = Len(words)
    BY <1>0
  <2>2. PICK f : Rec(f, Len(words))
    BY <1>4
  <2> HIDE DEF Nxt
  <2>3. f = [n \in 0 .. Len(words) |-> IF n = 0 THEN m ELSE Nxt(f[n - 1], n)]
    BY <2>1, <2>2
  <2> QED BY <2>3
<1>5. MGVisits(collect, start, end, m, words) = [n \in 0 .. Len(words) |-> IF n = 0 THEN m ELSE Nxt(MGVisits(collect, start, end, m, words)[n - 1], n)]
  BY <1>4a DEF MGVisits
<1> DEFINE loop == MGVisits(collect, start, end, m, words)
<1>6. loop[0] = m /\ \A n \in 1 .. Len(words) : loop[n] = Nxt(loop[n - 1], n)
  <2>1. loop = [n \in 0 .. Len(words) |-> IF n = 0 THEN m ELSE Nxt(loop[n - 1], n)]
    BY <1>5
  <2> HIDE DEF Nxt, loop
  <2> QED BY <2>1, <1>0
<1>7. loop[0] = m /\ \A n \in 1 .. Len(words) : loop[n] = MGVisit(collect, start, end, loop[n - 1], words[n])
  <2> HIDE DEF loop
  <2> QED BY <1>6
<1> HIDE DEF loop
<1>8. MGVisiting(loop, collect, start, end, m, words)
  BY <1>7 DEF MGVisiting
<1> QED BY <1>8 DEF loop

\* The recursion.
MGCollecting(loop, start, end) ==
  \A n \in 0 .. MaxDepth : loop[n] = [m \in Memories |-> [words \in Words |-> IF n = 0 THEN m ELSE MGVisits(loop[n - 1], start, end, m, words)[Len(words)]]]

\* MGCollects is the recursion it is written as.
LEMMA MGCollectsDef ==
  ASSUME NEW start, NEW end
  PROVE  MGCollecting(MGCollects(start, end), start, end)
<1> DEFINE Nxt(p, n) == [m \in Memories |-> [words \in Words |-> IF n = 0 THEN m ELSE MGVisits(p, start, end, m, words)[Len(words)]]]
           Rec(f, k) == f = [n \in 0 .. k |-> Nxt(f[n - 1], n)]
           T == {k \in Nat : \E f : Rec(f, k)}
<1>0. MaxDepth \in Nat
  BY Areas DEF MaxDepth
<1>a. \A p, q : Nxt(p, 0) = Nxt(q, 0)
  OBVIOUS
<1>1. 0 \in T
  <2> DEFINE g == [n \in 0 .. 0 |-> Nxt(0, 0)]
  <2> HIDE DEF Nxt
  <2>1. \A n \in 0 .. 0 : g[n] = Nxt(g[n - 1], n)
    BY <1>a
  <2>2. Rec(g, 0)
    BY <2>1
  <2> HIDE DEF g, Rec
  <2> QED BY <2>2
<1>2. ASSUME NEW k \in T PROVE k + 1 \in T
  <2>1. PICK f : Rec(f, k)
    OBVIOUS
  <2> DEFINE g == [n \in 0 .. k + 1 |-> IF n <= k THEN f[n] ELSE Nxt(f[k], n)]
  <2> HIDE DEF Nxt
  <2>2. ASSUME NEW n \in 0 .. k + 1
        PROVE  g[n] = Nxt(g[n - 1], n)
    <3>1. CASE n = 0
      <4>1. g[n] = f[n] /\ f[n] = Nxt(f[n - 1], n)
        BY <3>1, <2>1
      <4> QED BY <4>1, <3>1, <1>a
    <3>2. CASE n \in 1 .. k
      <4>1. n \in 0 .. k /\ n - 1 \in 0 .. k /\ n # 0 /\ n - 1 \in 0 .. k + 1
        BY <3>2
      <4>2. g[n] = f[n] /\ g[n - 1] = f[n - 1]
        BY <4>1
      <4>3. f[n] = Nxt(f[n - 1], n)
        BY <2>1, <4>1
      <4> QED BY <4>1, <4>2, <4>3
    <3>3. CASE n = k + 1
      BY <3>3
    <3> QED BY <3>1, <3>2, <3>3
  <2>3. Rec(g, k + 1)
    BY <2>2
  <2> HIDE DEF g, Rec
  <2> QED BY <2>3
<1>3. T = Nat
  <2> HIDE DEF T
  <2>1. T \in SUBSET Nat
    BY DEF T
  <2> QED BY <1>1, <1>2, <2>1, NatSetInduction
<1>4. \E f : Rec(f, MaxDepth)
  <2>1. \A k \in T : \E f : Rec(f, k)
    OBVIOUS
  <2> HIDE DEF T
  <2> QED BY <1>3, <1>0, <2>1
<1>5. MGCollects(start, end) = [n \in 0 .. MaxDepth |-> Nxt(MGCollects(start, end)[n - 1], n)]
  BY <1>4, <1>0 DEF MGCollects
<1> DEFINE loop == MGCollects(start, end)
<1>6. \A n \in 0 .. MaxDepth : loop[n] = Nxt(loop[n - 1], n)
  <2>1. loop = [n \in 0 .. MaxDepth |-> Nxt(loop[n - 1], n)]
    BY <1>5
  <2> HIDE DEF Nxt, loop
  <2> QED BY <2>1, <1>0
<1>7. \A n \in 0 .. MaxDepth : loop[n] = [m \in Memories |-> [words \in Words |-> IF n = 0 THEN m ELSE MGVisits(loop[n - 1], start, end, m, words)[Len(words)]]]
  <2> HIDE DEF loop
  <2> QED BY <1>6
<1> HIDE DEF loop
<1>8. MGCollecting(loop, start, end)
  BY <1>7 DEF MGCollecting
<1> QED BY <1>8 DEF loop

MGContext(x) ==
  /\ x.mem \in Memories
  /\ x.start \in Nat /\ x.end \in 0 .. Limit
  /\ x.heads \subseteq x.start .. x.end - 1
  /\ \A p \in x.heads : Proper(x, x.mem[p].fields) /\ ~x.mem[p].marked

Marked(x, m) == {p \in x.heads : m[p].marked}

MGHeap(x, m) ==
  /\ m \in Memories
  /\ \A p \in Pages : /\ m[p].pages = x.mem[p].pages /\ m[p].vmt = x.mem[p].vmt /\ m[p].fields = x.mem[p].fields
                      /\ p \notin Marked(x, m) => m[p] = x.mem[p]

\* The references among words are to objects of Z.
InTo(x, words, Z) == \A i \in 1 .. Len(words) : Within(words[i], x.start, x.end) => words[i] \in Z

\* Z has all that its objects refer to.
Complying(x, Z) == Z \subseteq x.heads /\ \A p \in Z : InTo(x, x.mem[p].fields, Z)

\* From l to m more is marked, with all that it refers to.
MGStep(x, l, m) ==
  /\ Marked(x, l) \subseteq Marked(x, m)
  /\ \A p \in Marked(x, m) \ Marked(x, l) : InTo(x, x.mem[p].fields, Marked(x, m))

\* No more is marked than can be reached from the words.
MGLeast(x, l, words, m) ==
  \A Z : Complying(x, Z) /\ InTo(x, words, Z) => Marked(x, m) \subseteq Marked(x, l) \cup Z

MGResult(x, l, words, m) ==
  MGHeap(x, m) /\ MGStep(x, l, m) /\ InTo(x, words, Marked(x, m)) /\ MGLeast(x, l, words, m)

MGWorks(x, collect, depth) ==
  \A m \in Memories, words \in Words :
    MGHeap(x, m) /\ Proper(x, words) /\ Count(x.heads \ Marked(x, m)) < depth
      => MGResult(x, m, words, collect[m][words])

\* What the context says of the objects to mark.
LEMMA MGHeadsFacts ==
  ASSUME NEW x, MGContext(x)
  PROVE  /\ \A p \in x.heads : p \in Pages /\ p \in Nat /\ x.mem[p].fields \in Words /\ Proper(x, x.mem[p].fields)
         /\ x.heads \subseteq 0 .. Limit - 1
<1>1. x.heads \subseteq 0 .. Limit - 1
  BY Areas DEF MGContext
<1>2. \A p \in x.heads : p \in Pages /\ p \in Nat
  BY <1>1, Areas
<1>3. \A p \in x.heads : x.mem[p].fields \in Words /\ Proper(x, x.mem[p].fields)
  BY <1>2, HeaderType DEF MGContext
<1> QED BY <1>1, <1>2, <1>3

\* What refers into a set refers into a larger one.
LEMMA InToMore ==
  ASSUME NEW x, NEW words, NEW Y, NEW Z, Y \subseteq Z, InTo(x, words, Y)
  PROVE  InTo(x, words, Z)
BY DEF InTo

\* Nothing is a step.
LEMMA MGStepReflexive ==
  ASSUME NEW x, NEW m
  PROVE  MGStep(x, m, m)
BY DEF MGStep

\* Two steps are a step.
LEMMA MGStepTransitive ==
  ASSUME NEW x, NEW k, NEW l, NEW m, MGStep(x, k, l), MGStep(x, l, m)
  PROVE  MGStep(x, k, m)
<1>1. Marked(x, k) \subseteq Marked(x, l) /\ Marked(x, l) \subseteq Marked(x, m)
  BY DEF MGStep
<1>2. ASSUME NEW p \in Marked(x, m) \ Marked(x, k) PROVE InTo(x, x.mem[p].fields, Marked(x, m))
  <2>1. CASE p \in Marked(x, l)
    <3>1. InTo(x, x.mem[p].fields, Marked(x, l))
      BY <2>1 DEF MGStep
    <3> QED BY <3>1, <1>1, InToMore
  <2>2. CASE p \notin Marked(x, l)
    BY <2>2 DEF MGStep
  <2> QED BY <2>1, <2>2
<1> QED BY <1>1, <1>2 DEF MGStep

\* A mark is set.
Mark(m, p) == [m EXCEPT ![p].marked = TRUE]

\* The memory after an object was marked.
LEMMA MarkMemory ==
  ASSUME NEW m \in Memories, NEW q \in Pages
  PROVE  /\ Mark(m, q) \in Memories
         /\ Mark(m, q)[q].pages = m[q].pages /\ Mark(m, q)[q].vmt = m[q].vmt
         /\ Mark(m, q)[q].fields = m[q].fields /\ Mark(m, q)[q].marked = TRUE
         /\ \A p \in Pages : p # q => Mark(m, q)[p] = m[p]
<1> DEFINE b == [m[q] EXCEPT !.marked = TRUE]
           n == Mark(m, q)
<1>1. m[q] \in Headers
  BY DEF Memories
<1>2. b \in Headers /\ b.pages = m[q].pages /\ b.marked = TRUE /\ b.vmt = m[q].vmt /\ b.fields = m[q].fields
  BY <1>1 DEF Headers
<1>3. n = [p \in Pages |-> IF p = q THEN b ELSE m[p]]
  BY DEF Memories, Mark
<1> HIDE DEF n, b
<1>4. n \in Memories
  BY <1>2, <1>3 DEF Memories
<1>5. n[q] = b /\ \A p \in Pages : p # q => n[p] = m[p]
  BY <1>3
<1> QED BY <1>2, <1>4, <1>5 DEF n

\* Marking an object leaves fewer to mark.
LEMMA Marking ==
  ASSUME NEW x, NEW m, NEW w, MGContext(x), MGHeap(x, m), w \in x.heads, w \notin Marked(x, m)
  PROVE  /\ MGHeap(x, Mark(m, w)) /\ Marked(x, Mark(m, w)) = Marked(x, m) \cup {w}
         /\ Count(x.heads \ Marked(x, Mark(m, w))) < Count(x.heads \ Marked(x, m))
<1> DEFINE n == Mark(m, w)
<1>1. w \in Pages /\ m \in Memories /\ x.heads \subseteq Pages
  BY MGHeadsFacts DEF MGHeap
<1>2. /\ n \in Memories
      /\ n[w].pages = m[w].pages /\ n[w].vmt = m[w].vmt
      /\ n[w].fields = m[w].fields /\ n[w].marked = TRUE
      /\ \A p \in Pages : p # w => n[p] = m[p]
  BY <1>1, MarkMemory
<1> HIDE DEF n
<1>3. Marked(x, n) = Marked(x, m) \cup {w}
  BY <1>1, <1>2 DEF Marked
<1>4. MGHeap(x, n)
  <2>1. ASSUME NEW p \in Pages
        PROVE  /\ n[p].pages = x.mem[p].pages /\ n[p].vmt = x.mem[p].vmt /\ n[p].fields = x.mem[p].fields
               /\ p \notin Marked(x, n) => n[p] = x.mem[p]
    BY <1>2, <1>3 DEF MGHeap
  <2> QED BY <2>1, <1>2 DEF MGHeap
<1>5. Count(x.heads \ Marked(x, n)) < Count(x.heads \ Marked(x, m))
  <2> DEFINE S == x.heads \ Marked(x, m)
  <2>1. S \subseteq 0 .. Limit - 1 /\ w \in S
    BY MGHeadsFacts
  <2>2. x.heads \ Marked(x, n) = S \ {w}
    BY <1>3
  <2> HIDE DEF S
  <2>3. Count(S \ {w}) < Count(S)
    BY <2>1, CountFacts
  <2> QED BY <2>2, <2>3 DEF S
<1> QED BY <1>3, <1>4, <1>5 DEF n

\* A step leaves no more objects to mark.
LEMMA CountShrinks ==
  ASSUME NEW x, NEW l, NEW m, MGContext(x), MGStep(x, l, m)
  PROVE  /\ Count(x.heads \ Marked(x, m)) <= Count(x.heads \ Marked(x, l))
         /\ Count(x.heads \ Marked(x, m)) \in Nat /\ Count(x.heads \ Marked(x, l)) \in Nat
<1> DEFINE S == x.heads \ Marked(x, l)
           R == x.heads \ Marked(x, m)
<1>1. S \subseteq 0 .. Limit - 1 /\ R \in SUBSET S
  BY MGHeadsFacts DEF MGStep
<1> HIDE DEF S, R
<1>2. Count(R) <= Count(S) /\ Count(R) \in Nat /\ Count(S) \in Nat
  BY <1>1, CountFacts
<1> QED BY <1>2 DEF S, R

\* What n of the words have been visited.
MGPassed(x, l, words, n, m) ==
  /\ MGHeap(x, m) /\ MGStep(x, l, m)
  /\ \A i \in 1 .. n : Within(words[i], x.start, x.end) => words[i] \in Marked(x, m)
  /\ MGLeast(x, l, words, m)

\* An object that is entered is marked, with what it refers to and no other.
LEMMA MGEnters ==
  ASSUME NEW x, NEW collect, NEW depth \in Nat, NEW m, NEW w,
         MGContext(x), MGWorks(x, collect, depth), MGHeap(x, m), Count(x.heads \ Marked(x, m)) < depth + 1,
         w \in x.heads, w \notin Marked(x, m)
  PROVE  LET k == collect[Mark(m, w)][m[w].fields]
         IN  /\ MGHeap(x, k) /\ MGStep(x, m, k) /\ w \in Marked(x, k)
             /\ \A Z : Complying(x, Z) /\ w \in Z => Marked(x, k) \subseteq Marked(x, m) \cup Z
<1> DEFINE n == Mark(m, w)
           f == x.mem[w].fields
           k == collect[n][f]
<1>1. /\ MGHeap(x, n) /\ Marked(x, n) = Marked(x, m) \cup {w}
      /\ Count(x.heads \ Marked(x, n)) < Count(x.heads \ Marked(x, m))
  BY Marking
<1>2. f \in Words /\ Proper(x, f) /\ m[w].fields = f
  BY MGHeadsFacts DEF MGHeap
<1> HIDE DEF n, f
<1>3. Count(x.heads \ Marked(x, n)) < depth
  <2>1. Count(x.heads \ Marked(x, n)) \in Nat /\ Count(x.heads \ Marked(x, m)) \in Nat
    BY MGStepReflexive, CountShrinks
  <2> QED BY <2>1, <1>1
<1>4. MGResult(x, n, f, k)
  BY <1>1, <1>2, <1>3 DEF MGWorks, MGHeap
<1> HIDE DEF k
<1>5. /\ MGHeap(x, k) /\ MGStep(x, n, k) /\ InTo(x, f, Marked(x, k)) /\ MGLeast(x, n, f, k)
  BY <1>4 DEF MGResult
<1>6. w \in Marked(x, k) /\ Marked(x, m) \subseteq Marked(x, k)
  BY <1>1, <1>5 DEF MGStep
<1>7. MGStep(x, m, k)
  <2>1. ASSUME NEW p \in Marked(x, k) \ Marked(x, m) PROVE InTo(x, x.mem[p].fields, Marked(x, k))
    <3>1. CASE p = w
      BY <3>1, <1>5 DEF f
    <3>2. CASE p # w
      BY <3>2, <1>1, <1>5 DEF MGStep
    <3> QED BY <3>1, <3>2
  <2> QED BY <2>1, <1>6 DEF MGStep
<1>8. ASSUME NEW Z, Complying(x, Z), w \in Z PROVE Marked(x, k) \subseteq Marked(x, m) \cup Z
  <2>1. InTo(x, f, Z)
    BY <1>8 DEF Complying, f
  <2>2. Marked(x, k) \subseteq Marked(x, n) \cup Z
    BY <2>1, <1>5, <1>8 DEF MGLeast
  <2> QED BY <2>2, <1>1, <1>8
<1> QED BY <1>2, <1>5, <1>6, <1>7, <1>8 DEF k, n

\* Visiting one more word passes it.
LEMMA MGVisitsOne ==
  ASSUME NEW x, NEW collect, NEW depth \in Nat, NEW l, NEW words \in Words, NEW n \in Nat, NEW m,
         n < Len(words), MGContext(x), MGWorks(x, collect, depth), Count(x.heads \ Marked(x, l)) < depth + 1,
         Proper(x, words), MGPassed(x, l, words, n, m)
  PROVE  MGPassed(x, l, words, n + 1, MGVisit(collect, x.start, x.end, m, words[n + 1]))
<1> DEFINE w == words[n + 1]
           k == MGVisit(collect, x.start, x.end, m, w)
<1>1. /\ MGHeap(x, m) /\ MGStep(x, l, m) /\ MGLeast(x, l, words, m)
      /\ \A i \in 1 .. n : Within(words[i], x.start, x.end) => words[i] \in Marked(x, m)
  BY DEF MGPassed
<1>2. Count(x.heads \ Marked(x, m)) < depth + 1
  <2>1. Count(x.heads \ Marked(x, m)) <= Count(x.heads \ Marked(x, l))
        /\ Count(x.heads \ Marked(x, m)) \in Nat /\ Count(x.heads \ Marked(x, l)) \in Nat
    BY <1>1, CountShrinks
  <2> QED BY <2>1
<1>3. n + 1 \in 1 .. Len(words)
  BY LenProperties DEF Words
<1>4. Within(w, x.start, x.end) => w \in x.heads
  BY <1>3 DEF Proper
<1>5. \A i \in 1 .. n + 1 : i \in 1 .. n \/ i = n + 1
  OBVIOUS
<1>6. CASE ~Within(w, x.start, x.end) \/ m[w].marked
  <2>1. k = m
    BY <1>6 DEF MGVisit
  <2>2. Within(w, x.start, x.end) => w \in Marked(x, m)
    BY <1>4, <1>6 DEF Marked
  <2>3. \A i \in 1 .. n + 1 : Within(words[i], x.start, x.end) => words[i] \in Marked(x, m)
    BY <1>1, <1>5, <2>2
  <2> QED BY <1>1, <2>1, <2>3 DEF MGPassed
<1>7. CASE Within(w, x.start, x.end) /\ ~m[w].marked
  <2>1. k = collect[Mark(m, w)][m[w].fields]
    BY <1>7 DEF MGVisit, Mark
  <2>2. w \in x.heads /\ w \notin Marked(x, m)
    BY <1>4, <1>7 DEF Marked
  <2> DEFINE j == collect[Mark(m, w)][m[w].fields]
  <2>3. /\ MGHeap(x, j) /\ MGStep(x, m, j) /\ w \in Marked(x, j)
        /\ \A Z : Complying(x, Z) /\ w \in Z => Marked(x, j) \subseteq Marked(x, m) \cup Z
    <3> HIDE DEF w
    <3> QED BY <1>1, <1>2, <2>2, MGEnters
  <2>4. k = j
    BY <2>1
  <2> HIDE DEF j, k, w
  <2>5. MGStep(x, l, j)
    BY <1>1, <2>3, MGStepTransitive
  <2>6. \A i \in 1 .. n + 1 : Within(words[i], x.start, x.end) => words[i] \in Marked(x, j)
    <3>1. Marked(x, m) \subseteq Marked(x, j)
      BY <2>3 DEF MGStep
    <3> QED BY <3>1, <1>1, <1>5, <2>3 DEF w
  <2>7. MGLeast(x, l, words, j)
    <3> SUFFICES ASSUME NEW Z, Complying(x, Z), InTo(x, words, Z) PROVE Marked(x, j) \subseteq Marked(x, l) \cup Z
      BY DEF MGLeast
    <3>1. w \in Z
      BY <1>3, <1>7 DEF InTo, w
    <3>2. Marked(x, m) \subseteq Marked(x, l) \cup Z
      BY <1>1 DEF MGLeast
    <3> QED BY <3>1, <3>2, <2>3
  <2>8. MGPassed(x, l, words, n + 1, j)
    BY <2>3, <2>5, <2>6, <2>7 DEF MGPassed
  <2> QED BY <2>4, <2>8 DEF k, w
<1> QED BY <1>6, <1>7

\* Visiting all the words marks from them.
LEMMA MGVisitsAll ==
  ASSUME NEW x, NEW collect, NEW depth \in Nat, NEW l, NEW words \in Words,
         MGContext(x), MGWorks(x, collect, depth), MGHeap(x, l), Count(x.heads \ Marked(x, l)) < depth + 1,
         Proper(x, words)
  PROVE  MGResult(x, l, words, MGVisits(collect, x.start, x.end, l, words)[Len(words)])
<1> DEFINE visit == MGVisits(collect, x.start, x.end, l, words)
           T == {n \in Nat : MGPassed(x, l, words, n, visit[n])}
<1>1. Len(words) \in Nat
  BY LenProperties DEF Words
<1>2. MGVisiting(visit, collect, x.start, x.end, l, words)
  BY <1>1, MGVisitsDef
<1> HIDE DEF visit
<1>3. visit[0] = l /\ \A n \in 1 .. Len(words) : visit[n] = MGVisit(collect, x.start, x.end, visit[n - 1], words[n])
  BY <1>2 DEF MGVisiting
<1>4. 0 \in T
  <2>1. MGLeast(x, l, words, l) /\ MGStep(x, l, l)
    BY MGStepReflexive DEF MGLeast
  <2> QED BY <1>3, <2>1 DEF MGPassed
<1>5. ASSUME NEW n \in 0 .. Len(words) - 1, n \in T PROVE n + 1 \in T
  <2>1. n \in Nat /\ n < Len(words) /\ MGPassed(x, l, words, n, visit[n])
    BY <1>1, <1>5
  <2>2. MGPassed(x, l, words, n + 1, MGVisit(collect, x.start, x.end, visit[n], words[n + 1]))
    BY <2>1, MGVisitsOne
  <2>3. n + 1 \in 1 .. Len(words) /\ (n + 1) - 1 = n
    BY <2>1, <1>1
  <2>4. visit[n + 1] = MGVisit(collect, x.start, x.end, visit[n], words[n + 1])
    BY <2>3, <1>3
  <2> QED BY <2>1, <2>2, <2>4
<1>6. Len(words) \in T
  <2> HIDE DEF T
  <2>1. \A n \in 0 .. Len(words) : n \in T
    BY <1>1, <1>4, <1>5, UpTo
  <2> QED BY <2>1, <1>1
<1>7. MGPassed(x, l, words, Len(words), visit[Len(words)])
  BY <1>6
<1>8. MGResult(x, l, words, visit[Len(words)])
  BY <1>7 DEF MGPassed, MGResult, InTo
<1> QED BY <1>8 DEF visit

\* MGCollect works at every depth that the objects left to mark allow.
LEMMA MGDepths ==
  ASSUME NEW x, MGContext(x)
  PROVE  \A depth \in 0 .. MaxDepth : MGWorks(x, MGCollects(x.start, x.end)[depth], depth)
<1> DEFINE collect == MGCollects(x.start, x.end)
           T == {n \in Nat : MGWorks(x, collect[n], n)}
<1>0. MaxDepth \in Nat
  BY Areas DEF MaxDepth
<1>1. MGCollecting(collect, x.start, x.end)
  BY MGCollectsDef
<1> HIDE DEF collect
<1>2. \A n \in 0 .. MaxDepth : collect[n] =
        [m \in Memories |-> [words \in Words |-> IF n = 0 THEN m
                                                 ELSE MGVisits(collect[n - 1], x.start, x.end, m, words)[Len(words)]]]
  BY <1>1 DEF MGCollecting
<1>2a. ASSUME NEW n \in 0 .. MaxDepth, n # 0, NEW m \in Memories, NEW words \in Words
       PROVE  collect[n][m][words] = MGVisits(collect[n - 1], x.start, x.end, m, words)[Len(words)]
  <2> DEFINE R(g, w) == MGVisits(collect[n - 1], x.start, x.end, g, w)[Len(w)]
  <2>1. collect[n] = [g \in Memories |-> [w \in Words |-> IF n = 0 THEN g ELSE R(g, w)]]
    BY <1>2, <1>2a
  <2> HIDE DEF R
  <2>2. collect[n] = [g \in Memories |-> [w \in Words |-> R(g, w)]]
    BY <1>2a, <2>1
  <2>3. collect[n][m][words] = R(m, words)
    BY <2>2, <1>2a
  <2> QED BY <2>3 DEF R
<1>3. 0 \in T
  <2>1. \A m : Count(x.heads \ Marked(x, m)) \in Nat
    BY MGStepReflexive, CountShrinks
  <2> QED BY <2>1 DEF MGWorks
<1>4. ASSUME NEW n \in 0 .. MaxDepth - 1, n \in T PROVE n + 1 \in T
  <2>1. n \in Nat /\ n + 1 \in 0 .. MaxDepth /\ (n + 1) - 1 = n /\ n + 1 # 0 /\ MGWorks(x, collect[n], n)
    BY <1>0, <1>4
  <2>2. ASSUME NEW m \in Memories, NEW words \in Words, MGHeap(x, m), Proper(x, words),
               Count(x.heads \ Marked(x, m)) < n + 1
        PROVE  MGResult(x, m, words, collect[n + 1][m][words])
    <3>1. MGResult(x, m, words, MGVisits(collect[n], x.start, x.end, m, words)[Len(words)])
      BY <2>1, <2>2, MGVisitsAll
    <3>2. collect[n + 1][m][words] = MGVisits(collect[n], x.start, x.end, m, words)[Len(words)]
      <4> DEFINE k == n + 1
      <4>1. k \in 0 .. MaxDepth /\ k # 0 /\ k - 1 = n
        BY <2>1
      <4> HIDE DEF k
      <4>2. collect[k][m][words] = MGVisits(collect[k - 1], x.start, x.end, m, words)[Len(words)]
        BY <4>1, <2>2, <1>2a
      <4> QED BY <4>1, <4>2 DEF k
    <3> QED BY <3>1, <3>2
  <2>3. MGWorks(x, collect[n + 1], n + 1)
    BY <2>2 DEF MGWorks
  <2> QED BY <2>1, <2>3
<1>5. \A n \in 0 .. MaxDepth : n \in T
  <2> HIDE DEF T
  <2> QED BY <1>0, <1>3, <1>4, UpTo
<1> QED BY <1>5 DEF collect

\* MGCollect marks what the words reach and nothing else.
LEMMA MGCollectWorks ==
  ASSUME NEW x, NEW t, NEW m, NEW words \in Words, MGContext(x), MGHeap(x, m), Proper(x, words),
         x.start = t.gc_yg_start, x.end = t.gc_mg_current
  PROVE  MGResult(x, m, words, MGCollect(t, m, words))
<1>1. MaxDepth \in 0 .. MaxDepth /\ MaxDepth = Limit + 1 /\ Limit \in Nat
  BY Areas DEF MaxDepth
<1>2. MGWorks(x, MGCollects(x.start, x.end)[MaxDepth], MaxDepth)
  BY <1>1, MGDepths
<1>3. Count(x.heads \ Marked(x, m)) < MaxDepth
  <2>1. x.heads \ Marked(x, m) \subseteq 0 .. Limit - 1
    BY MGHeadsFacts
  <2>2. Count(x.heads \ Marked(x, m)) \in Nat /\ Count(x.heads \ Marked(x, m)) <= Limit
    BY <2>1, CountFacts
  <2> QED BY <2>2, <1>1
<1>4. m \in Memories
  BY DEF MGHeap
<1>5. MGResult(x, m, words, MGCollects(x.start, x.end)[MaxDepth][m][words])
  BY <1>2, <1>3, <1>4 DEF MGWorks
<1> QED BY <1>5 DEF MGCollect

-----------------------------------------------------------------------------
(* Marking from the roots of a state.                                      *)

MarkContext(s) ==
  [mem |-> s.mem, start |-> s.table.gc_yg_start, end |-> s.table.gc_mg_current,
   heads |-> Cells(s) \ PermHeads(s)]

\* The context of marking.
LEMMA MarkContextFields ==
  ASSUME NEW s, NEW x, x = MarkContext(s)
  PROVE  /\ x.mem = s.mem /\ x.start = s.table.gc_yg_start /\ x.end = s.table.gc_mg_current
         /\ x.heads = Cells(s) \ PermHeads(s)
BY DEF MarkContext

\* The references of the roots and of the objects are into the heap.
LEMMA MarkProper ==
  ASSUME NEW s, HeapOK(s), NEW x, x = MarkContext(s)
  PROVE  /\ MGContext(x)
         /\ \A p \in Pages : Proper(x, s.mem[p].fields)
         /\ s.root \in Words /\ Len(s.root) = RootCount /\ Proper(x, s.root)
         /\ \A w \in Cells(s) : Within(w, x.start, x.end) <=> w \in x.heads
         /\ ~Within(Nil, x.start, x.end)
<1>1. /\ x.mem = s.mem /\ x.start = s.table.gc_yg_start /\ x.end = s.table.gc_mg_current
      /\ x.heads = Cells(s) \ PermHeads(s)
  BY MarkContextFields
<1>2. TableOK(s.table) /\ Typed(s) /\ Covered(s) /\ Closed(s) /\ Rest(s)
  BY DEF HeapOK
<1>3. Placed(s)
  BY <1>2, CellsPlaced
<1>4. /\ x.start \in Nat /\ x.end \in Nat /\ x.end <= Limit /\ x.start <= 2 * YGSize /\ 2 * YGSize <= x.end
      /\ s.table.gc_yg_current \in Nat /\ s.table.gc_yg_current <= 2 * YGSize
  BY <1>1, <1>2, TableFacts, Areas
<1>5. \A p \in YoungHeads(s) \cup MatureHeads(s) : p \in Nat /\ x.start <= p /\ p < x.end
  <2>1. \A p \in YoungHeads(s) : p \in Nat /\ x.start <= p /\ p < s.table.gc_yg_current
    BY <1>1, <1>3 DEF Placed
  <2>2. \A p \in MatureHeads(s) : p \in Nat /\ 2 * YGSize <= p /\ p < x.end
    BY <1>1, <1>3 DEF Placed
  <2>3. \A p \in YoungHeads(s) : p < x.end
    BY <2>1, <1>4, Areas
  <2>4. \A p \in MatureHeads(s) : x.start <= p
    BY <2>2, <1>4, Areas
  <2> QED BY <2>1, <2>2, <2>3, <2>4
<1>6. \A p \in PermHeads(s) : p \in Nat /\ x.end <= p
  <2>1. \A p \in PermHeads(s) : p \in Nat /\ PermStart <= p
    BY <1>3 DEF Placed
  <2> QED BY <2>1, <1>4, Areas
<1>7. \A w \in Cells(s) : Within(w, x.start, x.end) <=> w \in x.heads
  <2> SUFFICES ASSUME NEW w \in Cells(s) PROVE Within(w, x.start, x.end) <=> w \in x.heads
    OBVIOUS
  <2>1. CASE w \in PermHeads(s)
    BY <2>1, <1>1, <1>4, <1>6 DEF Within
  <2>2. CASE w \notin PermHeads(s)
    BY <2>2, <1>1, <1>3, <1>5 DEF Within, Placed
  <2> QED BY <2>1, <2>2
<1>8. ~Within(Nil, x.start, x.end)
  BY <1>4 DEF Within, Nil
<1>9. \A w \in Cells(s) \cup {Nil} : Within(w, x.start, x.end) => w \in x.heads
  BY <1>7, <1>8
<1>10. ASSUME NEW p \in Pages PROVE Proper(x, s.mem[p].fields)
  <2>1. s.mem[p].fields \in Words
    BY <1>2, HeaderType DEF Typed
  <2>2. CASE p \in Cells(s)
    <3>1. ToSet(s.mem[p].fields) \subseteq Cells(s) \cup {Nil}
      BY <1>2, <2>2 DEF Closed
    <3>2. \A i \in 1 .. Len(s.mem[p].fields) : s.mem[p].fields[i] \in Cells(s) \cup {Nil}
      BY <3>1, <2>1 DEF ToSet, Words
    <3> QED BY <3>2, <1>9 DEF Proper
  <2>3. CASE p \notin Cells(s)
    <3>1. s.mem[p].fields = <<>>
      BY <1>2, <2>3 DEF Rest
    <3> QED BY <3>1 DEF Proper
  <2> QED BY <2>2, <2>3
<1>11. s.root \in Words /\ Len(s.root) = RootCount
  BY <1>2, ProgramAssumption DEF Typed, Words, Roots
<1>12. Proper(x, s.root)
  BY <1>2, <1>9, <1>11 DEF Proper, Closed, Roots
<1>13. MGContext(x)
  <2>1. x.heads \subseteq x.start .. x.end - 1
    BY <1>1, <1>3, <1>4, <1>5 DEF Placed
  <2>2. \A p \in x.heads : Proper(x, x.mem[p].fields) /\ ~x.mem[p].marked
    BY <1>1, <1>3, <1>10 DEF Placed
  <2>3. x.mem \in Memories /\ x.start \in Nat /\ x.end \in 0 .. Limit
    BY <1>1, <1>2, <1>4, Areas DEF Typed
  <2> QED BY <2>1, <2>2, <2>3 DEF MGContext
<1> QED BY <1>7, <1>8, <1>10, <1>11, <1>12, <1>13

MarksPermanent(t, m, objects) ==
  LET mark[p \in t.gc_perm_start .. t.gc_perm_current] ==
        IF p = t.gc_perm_start THEN m
        ELSE IF p - 1 \in objects THEN MGCollect(t, mark[p - 1], mark[p - 1][p - 1].fields)
        ELSE mark[p - 1]
  IN mark

\* MarkPermanent is the last state of its loop.
LEMMA MarkPermanentLoop ==
  ASSUME NEW t, NEW m
  PROVE  MarkPermanent(t, m) = MarksPermanent(t, m, Walk(m, t.gc_perm_start, t.gc_perm_current))[t.gc_perm_current]
BY DEF MarkPermanent, MarksPermanent

\* The loop over the permanent objects.
MarkingPermanent(loop, t, m, objects) ==
  /\ loop[t.gc_perm_start] = m
  /\ \A n \in t.gc_perm_start + 1 .. t.gc_perm_current : loop[n] = IF n - 1 \in objects THEN MGCollect(t, loop[n - 1], loop[n - 1][n - 1].fields) ELSE loop[n - 1]

\* MarksPermanent is the loop it is written as.
LEMMA MarksPermanentDef ==
  ASSUME NEW t, NEW m, NEW objects, t.gc_perm_start \in Nat, t.gc_perm_current \in Nat, t.gc_perm_start <= t.gc_perm_current
  PROVE  MarkingPermanent(MarksPermanent(t, m, objects), t, m, objects)
<1> DEFINE Nxt(p, n) == IF n - 1 \in objects THEN MGCollect(t, p, p[n - 1].fields) ELSE p
           Rec(f, k) == f = [n \in t.gc_perm_start .. t.gc_perm_start + k |-> IF n = t.gc_perm_start THEN m ELSE Nxt(f[n - 1], n)]
           T == {k \in Nat : \E f : Rec(f, k)}
<1>0. t.gc_perm_current - t.gc_perm_start \in Nat /\ t.gc_perm_start \in Nat
  OBVIOUS
<1>1. 0 \in T
  <2>1. Rec([n \in t.gc_perm_start .. t.gc_perm_start + 0 |-> m], 0)
    BY <1>0
  <2> QED BY <2>1
<1>2. ASSUME NEW k \in T PROVE k + 1 \in T
  <2>1. PICK f : Rec(f, k)
    OBVIOUS
  <2> DEFINE g == [n \in t.gc_perm_start .. t.gc_perm_start + (k + 1) |-> IF n <= t.gc_perm_start + k THEN f[n] ELSE Nxt(f[t.gc_perm_start + k], n)]
  <2> HIDE DEF Nxt
  <2>2. ASSUME NEW n \in t.gc_perm_start .. t.gc_perm_start + (k + 1)
        PROVE  g[n] = IF n = t.gc_perm_start THEN m ELSE Nxt(g[n - 1], n)
    <3>1. CASE n = t.gc_perm_start
      BY <2>1, <3>1, <1>0
    <3>2. CASE n \in t.gc_perm_start + 1 .. t.gc_perm_start + k
      <4>1. n \in t.gc_perm_start .. t.gc_perm_start + k /\ n - 1 \in t.gc_perm_start .. t.gc_perm_start + k /\ n # t.gc_perm_start /\ n - 1 \in t.gc_perm_start .. t.gc_perm_start + (k + 1)
        BY <3>2, <1>0
      <4>2. g[n] = f[n] /\ g[n - 1] = f[n - 1]
        BY <4>1, <1>0
      <4>3. f[n] = Nxt(f[n - 1], n)
        BY <2>1, <4>1
      <4> QED BY <4>1, <4>2, <4>3
    <3>3. CASE n = t.gc_perm_start + k + 1
      BY <3>3, <1>0
    <3> QED BY <3>1, <3>2, <3>3, <1>0
  <2>3. Rec(g, k + 1)
    BY <2>2
  <2> HIDE DEF g, Rec
  <2> QED BY <2>3
<1>3. T = Nat
  <2> HIDE DEF T
  <2>1. T \in SUBSET Nat
    BY DEF T
  <2> QED BY <1>1, <1>2, <2>1, NatSetInduction
<1>4. \E f : Rec(f, t.gc_perm_current - t.gc_perm_start)
  <2>1. \A k \in T : \E f : Rec(f, k)
    OBVIOUS
  <2> HIDE DEF T
  <2> QED BY <1>3, <1>0, <2>1
<1>4a. \E f : f = [n \in t.gc_perm_start .. t.gc_perm_current |-> IF n = t.gc_perm_start THEN m ELSE Nxt(f[n - 1], n)]
  <2>1. t.gc_perm_start + (t.gc_perm_current - t.gc_perm_start) = t.gc_perm_current
    BY <1>0
  <2>2. PICK f : Rec(f, t.gc_perm_current - t.gc_perm_start)
    BY <1>4
  <2> HIDE DEF Nxt
  <2>3. f = [n \in t.gc_perm_start .. t.gc_perm_current |-> IF n = t.gc_perm_start THEN m ELSE Nxt(f[n - 1], n)]
    BY <2>1, <2>2
  <2> QED BY <2>3
<1>5. MarksPermanent(t, m, objects) = [n \in t.gc_perm_start .. t.gc_perm_current |-> IF n = t.gc_perm_start THEN m ELSE Nxt(MarksPermanent(t, m, objects)[n - 1], n)]
  BY <1>4a DEF MarksPermanent
<1> DEFINE loop == MarksPermanent(t, m, objects)
<1>6. loop[t.gc_perm_start] = m /\ \A n \in t.gc_perm_start + 1 .. t.gc_perm_current : loop[n] = Nxt(loop[n - 1], n)
  <2>1. loop = [n \in t.gc_perm_start .. t.gc_perm_current |-> IF n = t.gc_perm_start THEN m ELSE Nxt(loop[n - 1], n)]
    BY <1>5
  <2> HIDE DEF Nxt, loop
  <2> QED BY <2>1, <1>0
<1>7. loop[t.gc_perm_start] = m /\ \A n \in t.gc_perm_start + 1 .. t.gc_perm_current : loop[n] = IF n - 1 \in objects THEN MGCollect(t, loop[n - 1], loop[n - 1][n - 1].fields) ELSE loop[n - 1]
  <2> HIDE DEF loop
  <2> QED BY <1>6
<1> HIDE DEF loop
<1>8. MarkingPermanent(loop, t, m, objects)
  BY <1>7 DEF MarkingPermanent
<1> QED BY <1>8 DEF loop

\* Everything that can be reached from the roots is marked, and nothing else.
RootsIn(s, x, Z) == InTo(x, s.root, Z) /\ \A p \in PermHeads(s) : InTo(x, s.mem[p].fields, Z)

AllMarked(s, x, m) ==
  /\ MGHeap(x, m) /\ Complying(x, Marked(x, m)) /\ RootsIn(s, x, Marked(x, m))
  /\ \A Z : Complying(x, Z) /\ RootsIn(s, x, Z) => Marked(x, m) \subseteq Z

\* The same before the permanent objects from page p on.
MarkedBefore(s, x, m, p) ==
  /\ MGHeap(x, m) /\ Complying(x, Marked(x, m)) /\ InTo(x, s.root, Marked(x, m))
  /\ \A q \in PermHeads(s) : q < p => InTo(x, s.mem[q].fields, Marked(x, m))
  /\ \A Z : Complying(x, Z) /\ RootsIn(s, x, Z) => Marked(x, m) \subseteq Z

\* A step marks what the marked objects refer to.
LEMMA MGStepComplies ==
  ASSUME NEW x, NEW l, NEW m, MGStep(x, l, m), Complying(x, Marked(x, l))
  PROVE  Complying(x, Marked(x, m))
<1>1. Marked(x, m) \subseteq x.heads /\ Marked(x, l) \subseteq Marked(x, m)
  BY DEF Marked, MGStep
<1>2. ASSUME NEW p \in Marked(x, m) PROVE InTo(x, x.mem[p].fields, Marked(x, m))
  <2>1. CASE p \in Marked(x, l)
    BY <2>1, <1>1, InToMore DEF Complying
  <2>2. CASE p \notin Marked(x, l)
    BY <2>2 DEF MGStep
  <2> QED BY <2>1, <2>2
<1> QED BY <1>1, <1>2 DEF Complying

\* The loop over the permanent objects marks from one more of them.
LEMMA PermanentMarked ==
  ASSUME NEW s, NEW x, NEW t, NEW m, NEW p \in PermHeads(s), HeapOK(s), x = MarkContext(s), t = s.table,
         MarkedBefore(s, x, m, p)
  PROVE  MarkedBefore(s, x, MGCollect(t, m, m[p].fields), p + 1)
<1> DEFINE words == s.mem[p].fields
           k == MGCollect(t, m, words)
<1>1. Placed(s)
  BY CellsPlaced DEF HeapOK
<1>2. p \in Pages /\ p \in Nat /\ \A q \in PermHeads(s) : q \in Nat
  BY <1>1 DEF Placed
<1>3. MGContext(x) /\ Proper(x, words)
  BY <1>2, MarkProper
<1>4. words \in Words
  BY <1>2, HeaderType DEF HeapOK, Typed
<1>5. /\ MGHeap(x, m) /\ Complying(x, Marked(x, m)) /\ InTo(x, s.root, Marked(x, m))
      /\ \A q \in PermHeads(s) : q < p => InTo(x, s.mem[q].fields, Marked(x, m))
  BY DEF MarkedBefore
<1>6. x.start = t.gc_yg_start /\ x.end = t.gc_mg_current /\ x.mem = s.mem
  BY MarkContextFields
<1>7. m[p].fields = words
  BY <1>2, <1>5, <1>6 DEF MGHeap
<1>8. MGResult(x, m, words, k)
  <2> HIDE DEF words
  <2> QED BY <1>3, <1>4, <1>5, <1>6, MGCollectWorks
<1>9. InTo(x, words, Marked(x, k))
  BY <1>8 DEF MGResult
<1> DEFINE W == words
<1> HIDE DEF k
<1>10. /\ MGHeap(x, k) /\ MGStep(x, m, k) /\ MGLeast(x, m, words, k)
  BY <1>8 DEF MGResult
<1>11. Complying(x, Marked(x, k)) /\ Marked(x, m) \subseteq Marked(x, k)
  BY <1>5, <1>10, MGStepComplies DEF MGStep
<1>12. InTo(x, s.root, Marked(x, k))
  BY <1>5, <1>11, InToMore
<1>13. ASSUME NEW q \in PermHeads(s), q < p + 1 PROVE InTo(x, s.mem[q].fields, Marked(x, k))
  <2>1. q < p \/ q = p
    BY <1>2, <1>13
  <2>2. CASE q < p
    BY <2>2, <1>5, <1>11, InToMore
  <2>3. CASE q = p
    BY <2>3, <1>9
  <2> QED BY <2>1, <2>2, <2>3
<1>14. ASSUME NEW Z, Complying(x, Z), RootsIn(s, x, Z) PROVE Marked(x, k) \subseteq Z
  <2>1. Marked(x, m) \subseteq Z
    BY <1>14 DEF MarkedBefore
  <2>2. InTo(x, words, Z)
    BY <1>14 DEF RootsIn
  <2>3. Marked(x, k) \subseteq Marked(x, m) \cup Z
    <3> HIDE DEF words
    <3> QED BY <1>10, <1>14, <2>2 DEF MGLeast
  <2> QED BY <2>1, <2>3
<1>15. MarkedBefore(s, x, k, p + 1)
  BY <1>10, <1>11, <1>12, <1>13, <1>14 DEF MarkedBefore
<1> QED BY <1>7, <1>15 DEF k

\* MarkRoots marks what the roots and the permanent objects reach.
LEMMA MarkRootsWorks ==
  ASSUME NEW s, HeapOK(s), NEW x, x = MarkContext(s)
  PROVE  AllMarked(s, x, MarkRoots(s))
<1> DEFINE t == s.table
           words == s.root
           m == MGCollect(t, s.mem, words)
           from == t.gc_perm_start
           to == t.gc_perm_current
<1>1. x.mem = s.mem /\ x.start = t.gc_yg_start /\ x.end = t.gc_mg_current
      /\ x.heads = Cells(s) \ PermHeads(s)
  BY MarkContextFields
<1>2. MGContext(x) /\ words \in Words /\ Proper(x, words)
  BY MarkProper
<1>3. TableOK(t) /\ Covered(s) /\ Rest(s) /\ Typed(s)
  BY DEF HeapOK
<1>4. Placed(s)
  BY <1>3, CellsPlaced
<1>5. Marked(x, s.mem) = {} /\ MGHeap(x, s.mem)
  <2>1. Marked(x, s.mem) = {}
    BY <1>1, <1>4 DEF Marked, Placed
  <2> QED BY <2>1, <1>1, <1>3 DEF MGHeap, Typed
<1>6. MGResult(x, s.mem, words, m)
  <2> HIDE DEF words, t
  <2>1. x.start = t.gc_yg_start /\ x.end = t.gc_mg_current
    BY <1>1
  <2> DEFINE l == s.mem
  <2>2. MGHeap(x, l)
    BY <1>5
  <2> HIDE DEF l
  <2>3. MGResult(x, l, words, MGCollect(t, l, words))
    BY <1>2, <2>1, <2>2, MGCollectWorks
  <2> QED BY <2>3 DEF l
<1> HIDE DEF m
<1>7. MarkedBefore(s, x, m, from)
  <2>1. /\ MGHeap(x, m) /\ MGStep(x, s.mem, m) /\ InTo(x, words, Marked(x, m)) /\ MGLeast(x, s.mem, words, m)
    BY <1>6 DEF MGResult
  <2>2. Complying(x, Marked(x, m))
    BY <2>1, <1>5, MGStepComplies DEF Complying
  <2>3. \A q \in PermHeads(s) : ~(q < from)
    BY <1>3, <1>4, TableFacts, Areas DEF Placed
  <2>4. ASSUME NEW Z, Complying(x, Z), RootsIn(s, x, Z) PROVE Marked(x, m) \subseteq Z
    BY <2>1, <2>4, <1>5 DEF MGLeast, RootsIn
  <2> QED BY <2>1, <2>2, <2>3, <2>4 DEF MarkedBefore
<1>8. from \in Nat /\ to \in Nat /\ from <= to /\ from = PermStart
  BY <1>3, TableFacts, Areas
<1>9. \A p \in PermHeads(s) : p \in Pages /\ p \in Nat /\ from <= p /\ p < to
  BY <1>4, <1>8 DEF Placed
<1>10. Walk(m, from, to) = PermHeads(s)
  <2> DEFINE S == PermHeads(s)
  <2>1. Tiled(s.mem, S, from, to)
    BY <1>3 DEF Covered
  <2>2. MGHeap(x, m)
    BY <1>7 DEF MarkedBefore
  <2>3. \A p \in S : m[p].pages = s.mem[p].pages /\ m[p].pages \in Nat \ {0}
    BY <2>2, <1>1, <1>9, HeaderType DEF MGHeap
  <2> HIDE DEF S, from, to
  <2>4. Tiled(m, S, from, to)
    BY <2>1, <2>3, TiledAgree
  <2>5. Walk(m, from, to) = S
    BY <2>3, <2>4, <1>8, WalkTiled
  <2> QED BY <2>5 DEF S
<1> DEFINE c == MarksPermanent(t, m, PermHeads(s))
           T == {n \in Nat : MarkedBefore(s, x, c[from + n], from + n)}
<1>11. MarkRoots(s) = c[to]
  BY <1>10, MarkPermanentLoop DEF MarkRoots, m
<1>12. /\ c[from] = m
       /\ \A n \in from + 1 .. to : c[n] = IF n - 1 \in PermHeads(s) THEN MGCollect(t, c[n - 1], c[n - 1][n - 1].fields) ELSE c[n - 1]
  <2>1. MarkingPermanent(c, t, m, PermHeads(s))
    <3> HIDE DEF t
    <3> QED BY <1>8, MarksPermanentDef
  <2> HIDE DEF c
  <2> QED BY <2>1 DEF MarkingPermanent
<1> HIDE DEF c
<1>13. 0 \in T
  BY <1>7, <1>8, <1>12
<1>14. ASSUME NEW n \in 0 .. (to - from) - 1, n \in T PROVE n + 1 \in T
  <2> DEFINE p == from + n
             g == c[p]
             k == c[p + 1]
  <2>0. p \in Nat /\ p + 1 \in from + 1 .. to /\ (p + 1) - 1 = p /\ from <= p /\ from + (n + 1) = p + 1
    <3> HIDE DEF from, to
    <3> QED BY <1>8
  <2>1. MarkedBefore(s, x, g, p)
    BY <1>14
  <2>2. k = IF p \in PermHeads(s) THEN MGCollect(t, g, g[p].fields) ELSE g
    <3> HIDE DEF p, from, to, t
    <3> QED BY <2>0, <1>12
  <2> HIDE DEF g, k, p
  <2>3. MarkedBefore(s, x, k, p + 1)
    <3>1. CASE p \in PermHeads(s)
      <4>1. MarkedBefore(s, x, MGCollect(t, g, g[p].fields), p + 1)
        <5> t = s.table
          OBVIOUS
        <5> HIDE DEF t
        <5> QED BY <3>1, <2>1, PermanentMarked
      <4> QED BY <4>1, <3>1, <2>2
    <3>2. CASE p \notin PermHeads(s)
      <4>1. \A q \in PermHeads(s) : q < p + 1 => q < p
        BY <2>0, <1>9, <3>2
      <4> QED BY <4>1, <3>2, <2>1, <2>2 DEF MarkedBefore
    <3> QED BY <3>1, <3>2
  <2>4. c[from + (n + 1)] = k /\ from + (n + 1) = p + 1
    BY <2>0 DEF k
  <2> QED BY <2>3, <2>4
<1>15. to - from \in Nat /\ from + (to - from) = to
  <2> HIDE DEF from, to
  <2> QED BY <1>8
<1>16. to - from \in T
  <2>1. \A n \in 0 .. to - from : n \in T
    <3> HIDE DEF T, from, to
    <3> QED BY <1>13, <1>14, <1>15, UpTo
  <2> HIDE DEF T, from, to
  <2> QED BY <2>1, <1>15
<1>17. MarkedBefore(s, x, c[to], to)
  BY <1>15, <1>16
<1>18. AllMarked(s, x, c[to])
  BY <1>9, <1>17 DEF MarkedBefore, AllMarked, RootsIn
<1> QED BY <1>11, <1>18

-----------------------------------------------------------------------------
(* Moving marked objects of a memory m down to where 2 * YGSize, the start  *)
(* of the mature generation, is.                                           *)

Compactions == [mem : Memories, ptr : Nat, new : Nat, map : [Pages -> Pages \cup {Nil}]]

\* The objects that have been moved, and where they are now.
Mapped(d) == {p \in Pages : d.map[p] # Nil}
Targets(d) == {d.map[p] : p \in Mapped(d)}

Compacted(m, d) ==
  /\ d \in Compactions
  /\ 2 * YGSize <= d.new
  /\ \A p, q \in Mapped(d) : d.map[p] = d.map[q] => p = q
  /\ \A p \in Mapped(d) : m[p].marked /\ (2 * YGSize <= p => d.map[p] <= p)
  /\ Tiled(d.mem, Targets(d), 2 * YGSize, d.new)
  /\ \A p \in Mapped(d) : \A k \in 0 .. m[p].pages - 1 : p + k \in Pages /\ d.mem[d.map[p] + k] = m[p + k]
  /\ \A q \in Pages : q \notin 2 * YGSize .. d.new - 1 => d.mem[q] = m[q]

MoveTo(d) ==
  LET pages == d.mem[d.ptr].pages
  IN [ptr |-> d.ptr + pages, new |-> d.new + pages, map |-> [d.map EXCEPT ![d.ptr] = d.new],
      mem |-> MoveObject(d.mem, d.new, d.ptr, pages)]

\* What moving count pages of m makes n.
MovedPages(m, new, old, count, n) ==
  /\ n \in Memories
  /\ \A p \in Pages : p \notin new .. new + count - 1 => n[p] = m[p]
  /\ \A k \in 0 .. count - 1 : n[new + k] = m[old + k]

\* MoveObject copies the pages, also where the two places overlap.
LEMMA MoveObjectMemory ==
  ASSUME NEW m \in Memories, NEW new \in Nat, NEW old \in Nat, NEW count \in Nat,
         new + count <= PermStart, old + count <= PermStart
  PROVE  MovedPages(m, new, old, count, MoveObject(m, new, old, count))
<1> DEFINE n == MoveObject(m, new, old, count)
<1>1. n = [p \in Pages |-> IF p \in new .. new + count - 1 THEN m[old + p - new] ELSE m[p]]
  BY DEF MoveObject
<1>2. \A p \in new .. new + count - 1 : old + p - new \in Pages
  BY Areas
<1>3. \A p \in Pages : (IF p \in new .. new + count - 1 THEN m[old + p - new] ELSE m[p]) \in Headers
  BY <1>2 DEF Memories
<1> HIDE DEF n
<1>4. n \in Memories
  BY <1>1, <1>3 DEF Memories
<1>5. \A p \in Pages : p \notin new .. new + count - 1 => n[p] = m[p]
  BY <1>1
<1>6. ASSUME NEW k \in 0 .. count - 1 PROVE n[new + k] = m[old + k]
  <2>1. new + k \in Pages /\ new + k \in new .. new + count - 1 /\ old + (new + k) - new = old + k
    BY Areas
  <2>2. n[new + k] = m[old + (new + k) - new]
    <3> DEFINE p == new + k
    <3>1. p \in Pages /\ p \in new .. new + count - 1
      BY <2>1
    <3> HIDE DEF p
    <3>2. n[p] = m[old + p - new]
      BY <3>1, <1>1
    <3> QED BY <3>2 DEF p
  <2> QED BY <2>1, <2>2
<1>7. MovedPages(m, new, old, count, n)
  BY <1>4, <1>5, <1>6 DEF MovedPages
<1> QED BY <1>7 DEF n

\* An object can be moved.
Movable(m, d) ==
  /\ d.ptr \in Pages /\ m[d.ptr].marked /\ d.ptr \notin Mapped(d)
  /\ d.ptr + m[d.ptr].pages <= PermStart /\ d.new + m[d.ptr].pages <= PermStart
  /\ d.new <= d.ptr \/ d.ptr + m[d.ptr].pages <= 2 * YGSize

\* What moving it does.
OneMoved(m, d, e) ==
  /\ Compacted(m, e) /\ Mapped(e) = Mapped(d) \cup {d.ptr}
  /\ e.ptr = d.ptr + m[d.ptr].pages /\ e.new = d.new + m[d.ptr].pages

\* Moving one marked object keeps the compaction going.
LEMMA Moves ==
  ASSUME NEW m \in Memories, NEW d, Compacted(m, d), Movable(m, d)
  PROVE  OneMoved(m, d, MoveTo(d))
<1> DEFINE e == MoveTo(d)
           p == d.ptr
           size == m[p].pages
           n == d.new
           base == 2 * YGSize
<1>1. /\ d.mem \in Memories /\ d.ptr \in Nat /\ d.new \in Nat /\ d.map \in [Pages -> Pages \cup {Nil}]
      /\ base <= n /\ base \in Nat
  BY Areas DEF Compacted, Compactions
<1>2. /\ p \in Pages /\ m[p].marked /\ p \notin Mapped(d) /\ size \in Nat /\ size >= 1
      /\ p + size <= PermStart /\ n + size <= PermStart /\ (n <= p \/ p + size <= base)
  BY HeaderType DEF Movable
<1>3. \A k \in 0 .. size - 1 : p + k \in Pages /\ p + k \notin base .. n - 1 /\ n + k \in Pages
  <2> HIDE DEF size, p, n, base
  <2> QED BY <1>1, <1>2, Areas DEF p, n
<1>4. p \notin base .. n - 1 /\ d.mem[p] = m[p]
  <2>1. p \notin base .. n - 1
    <3> HIDE DEF size, p, n, base
    <3> QED BY <1>1, <1>2, Areas DEF p, n
  <2> QED BY <2>1, <1>2 DEF Compacted
<1>5. \A k \in 0 .. size - 1 : d.mem[p + k] = m[p + k]
  BY <1>3 DEF Compacted
<1>6. e = [ptr |-> p + size, new |-> n + size, map |-> [d.map EXCEPT ![p] = n], mem |-> MoveObject(d.mem, n, p, size)]
  BY <1>4 DEF MoveTo
<1> HIDE DEF size
<1>7. /\ e.mem \in Memories
      /\ \A q \in Pages : q \notin n .. n + size - 1 => e.mem[q] = d.mem[q]
      /\ \A k \in 0 .. size - 1 : e.mem[n + k] = d.mem[p + k]
  <2> HIDE DEF e
  <2>1. e.mem = MoveObject(d.mem, n, p, size)
    BY <1>6
  <2> DEFINE l == d.mem
  <2>2. l \in Memories /\ n \in Nat /\ p \in Nat /\ size \in Nat /\ e.mem = MoveObject(l, n, p, size)
    BY <1>1, <1>2, <2>1
  <2>3. n + size <= PermStart /\ p + size <= PermStart
    BY <1>2
  <2> HIDE DEF l, n, p
  <2>4. MovedPages(l, n, p, size, MoveObject(l, n, p, size))
    BY <2>2, <2>3, MoveObjectMemory
  <2>5. MovedPages(l, n, p, size, e.mem)
    BY <2>2, <2>4
  <2> QED BY <2>5 DEF l, MovedPages
<1>8. e.ptr = p + size /\ e.new = n + size /\ e.map = [d.map EXCEPT ![p] = n]
  BY <1>6
<1>9. n \in Pages /\ n # Nil
  BY <1>1, <1>2, Areas
<1>10. e \in Compactions
  <2>1. [d.map EXCEPT ![p] = n] \in [Pages -> Pages \cup {Nil}]
    BY <1>1, <1>9
  <2>2. e = [ptr |-> e.ptr, new |-> e.new, map |-> e.map, mem |-> e.mem]
    BY <1>6
  <2> HIDE DEF e
  <2> QED BY <2>1, <2>2, <1>1, <1>2, <1>7, <1>8 DEF Compactions
<1> HIDE DEF e
<1>11. \A q \in Pages : e.map[q] = IF q = p THEN n ELSE d.map[q]
  BY <1>1, <1>8
<1>12. Mapped(e) = Mapped(d) \cup {p}
  BY <1>2, <1>9, <1>11 DEF Mapped
<1>13. \A q \in Mapped(d) : q \in Pages /\ q # p /\ e.map[q] = d.map[q] /\ d.map[q] \in Targets(d)
  BY <1>2, <1>11 DEF Mapped, Targets
<1>14. e.map[p] = n
  BY <1>2, <1>11
<1>15. \A q \in Targets(d) : q \in base .. n - 1
  BY DEF Compacted, Tiled
<1>16. Targets(e) = Targets(d) \cup {n}
  BY <1>12, <1>13, <1>14 DEF Targets
<1>17. ASSUME NEW q \in Mapped(e), NEW r \in Mapped(e), e.map[q] = e.map[r] PROVE q = r
  <2>1. n \notin Targets(d)
    BY <1>1, <1>15
  <2> QED BY <2>1, <1>12, <1>13, <1>14, <1>17 DEF Compacted
<1>18. ASSUME NEW q \in Mapped(e) PROVE m[q].marked /\ (2 * YGSize <= q => e.map[q] <= q)
  <2>1. CASE q = p
    BY <2>1, <1>1, <1>2, <1>14
  <2>2. CASE q # p
    BY <2>2, <1>12, <1>13 DEF Compacted
  <2> QED BY <2>1, <2>2
<1>19. Tiled(e.mem, Targets(e), 2 * YGSize, e.new)
  <2> DEFINE S == Targets(d)  l == d.mem  k == e.mem
  <2>1. Tiled(l, S, base, n)
    BY DEF Compacted
  <2>2. \A q \in S : k[q].pages = l[q].pages
    <3> SUFFICES ASSUME NEW q \in Targets(d) PROVE k[q] = l[q]
      OBVIOUS
    <3>1. q \in base .. n - 1
      BY <1>15
    <3>2. q \in Pages /\ q \notin n .. n + size - 1
      BY <3>1, <1>1, <1>2, Areas
    <3> QED BY <3>2, <1>7
  <2>3. k[n].pages = size
    <3>1. 0 \in 0 .. size - 1 /\ n + 0 = n /\ p + 0 = p
      BY <1>1, <1>2
    <3>2. k[n + 0] = d.mem[p + 0]
      BY <3>1, <1>7
    <3> QED BY <3>1, <3>2, <1>4 DEF size
  <2> HIDE DEF S, l, k
  <2>4. n \in Nat /\ base \in Nat /\ k[n].pages \in Nat \ {0}
    BY <1>1, <1>2, <2>3
  <2> HIDE DEF n, base
  <2>5. Tiled(k, S \cup {n}, base, n + k[n].pages)
    BY <2>1, <2>2, <2>4, TiledAppend
  <2> QED BY <2>3, <2>5, <1>8, <1>16 DEF S, k, base
<1>20. ASSUME NEW q \in Mapped(e), NEW k \in 0 .. m[q].pages - 1
       PROVE  q + k \in Pages /\ e.mem[e.map[q] + k] = m[q + k]
  <2>1. CASE q = p
    BY <2>1, <1>3, <1>5, <1>7, <1>14, <1>20 DEF size
  <2>2. CASE q # p
    <3>1. q \in Mapped(d) /\ e.map[q] = d.map[q] /\ d.map[q] \in Targets(d)
      BY <2>2, <1>12, <1>13
    <3>2. q + k \in Pages /\ d.mem[d.map[q] + k] = m[q + k]
      BY <3>1, <1>20 DEF Compacted
    <3>3. d.map[q] + k \in base .. n - 1
      <4> DEFINE v == d.map[q]
      <4>1. d.mem[v].pages = m[q].pages /\ m[q].pages \in Nat
        <5>1. m[q].pages \in Nat \ {0}
          BY <1>13, <3>1, HeaderType
        <5>2. 0 \in 0 .. m[q].pages - 1 /\ q + 0 = q /\ v + 0 = v
          BY <5>1, <3>1, <1>13, <1>15, Areas
        <5>3. d.mem[v + 0] = m[q + 0]
          BY <5>2, <3>1 DEF Compacted
        <5> QED BY <5>1, <5>2, <5>3
      <4>2. v + d.mem[v].pages \in Targets(d) \cup {n} /\ v \in base .. n - 1
        BY <3>1, <1>15 DEF Compacted, Tiled
      <4>3. v + d.mem[v].pages <= n
        BY <4>2, <1>1, <1>15
      <4> HIDE DEF v
      <4>4. v + k \in base .. n - 1
        BY <4>1, <4>2, <4>3, <1>1, <1>20
      <4> QED BY <4>4 DEF v
    <3>4. d.map[q] + k \in Pages /\ d.map[q] + k \notin n .. n + size - 1
      BY <3>3, <1>1, <1>2, Areas
    <3>5. e.mem[d.map[q] + k] = d.mem[d.map[q] + k]
      BY <3>4, <1>7
    <3> QED BY <3>1, <3>2, <3>5
  <2> QED BY <2>1, <2>2
<1>21. ASSUME NEW q \in Pages, q \notin 2 * YGSize .. e.new - 1 PROVE e.mem[q] = m[q]
  <2>1. q \notin base .. n - 1 /\ q \notin n .. n + size - 1
    BY <1>1, <1>2, <1>8, <1>21, Areas
  <2> QED BY <2>1, <1>7 DEF Compacted
<1>22. 2 * YGSize <= e.new
  BY <1>1, <1>2, <1>8
<1>23. Compacted(m, e)
  BY <1>10, <1>17, <1>18, <1>19, <1>20, <1>21, <1>22 DEF Compacted
<1>24. OneMoved(m, d, e)
  BY <1>8, <1>12, <1>23 DEF OneMoved, size
<1> QED BY <1>24 DEF e

-----------------------------------------------------------------------------
(* The loops of the compaction.                                            *)

\* The objects of the two generations of a memory m that has been marked.
CompactContext(t, m, mature, young) ==
  /\ TableOK(t) /\ m \in Memories
  /\ Tiled(m, mature, t.gc_mg_start, t.gc_mg_current)
  /\ Tiled(m, young, t.gc_yg_start, t.gc_yg_current)
  /\ \A p \in Pages : m[p].marked /\ 2 * YGSize <= p => p < Limit /\ p + m[p].pages <= Limit

Skipped(d) == [d EXCEPT !.map[d.ptr] = d.ptr, !.ptr = @ + d.mem[d.ptr].pages,
                        !.new = d.ptr + d.mem[d.ptr].pages]
Skips(c) ==
  LET skip[n \in 0 .. Limit] ==
        IF n = 0 THEN c
        ELSE LET d == skip[n - 1] IN IF d.mem[d.ptr].marked THEN Skipped(d) ELSE d
  IN skip

\* SkipPermanent is the last state of its loop.
LEMMA SkipPermanentLoop ==
  ASSUME NEW c
  PROVE  SkipPermanent(c) = Skips(c)[Limit]
BY DEF SkipPermanent, Skips, Skipped

\* The loop over what stays in place.
Skipping(loop, c) ==
  /\ loop[0] = c
  /\ \A n \in 1 .. Limit : loop[n] = IF loop[n - 1].mem[loop[n - 1].ptr].marked THEN Skipped(loop[n - 1]) ELSE loop[n - 1]

\* Skips is the loop it is written as.
LEMMA SkipsDef ==
  ASSUME NEW c, Limit \in Nat
  PROVE  Skipping(Skips(c), c)
<1> DEFINE Nxt(p, n) == IF p.mem[p.ptr].marked THEN Skipped(p) ELSE p
           Rec(f, k) == f = [n \in 0 .. k |-> IF n = 0 THEN c ELSE Nxt(f[n - 1], n)]
           T == {k \in Nat : \E f : Rec(f, k)}
<1>0. Limit \in Nat
  OBVIOUS
<1>1. 0 \in T
  <2>1. Rec([n \in 0 .. 0 |-> c], 0)
    BY <1>0
  <2> QED BY <2>1
<1>2. ASSUME NEW k \in T PROVE k + 1 \in T
  <2>1. PICK f : Rec(f, k)
    OBVIOUS
  <2> DEFINE g == [n \in 0 .. (k + 1) |-> IF n <= k THEN f[n] ELSE Nxt(f[k], n)]
  <2> HIDE DEF Nxt
  <2>2. ASSUME NEW n \in 0 .. (k + 1)
        PROVE  g[n] = IF n = 0 THEN c ELSE Nxt(g[n - 1], n)
    <3>1. CASE n = 0
      BY <2>1, <3>1, <1>0
    <3>2. CASE n \in 1 .. k
      <4>1. n \in 0 .. k /\ n - 1 \in 0 .. k /\ n # 0 /\ n - 1 \in 0 .. (k + 1)
        BY <3>2, <1>0
      <4>2. g[n] = f[n] /\ g[n - 1] = f[n - 1]
        BY <4>1, <1>0
      <4>3. f[n] = Nxt(f[n - 1], n)
        BY <2>1, <4>1
      <4> QED BY <4>1, <4>2, <4>3
    <3>3. CASE n = k + 1
      BY <3>3, <1>0
    <3> QED BY <3>1, <3>2, <3>3, <1>0
  <2>3. Rec(g, k + 1)
    BY <2>2
  <2> HIDE DEF g, Rec
  <2> QED BY <2>3
<1>3. T = Nat
  <2> HIDE DEF T
  <2>1. T \in SUBSET Nat
    BY DEF T
  <2> QED BY <1>1, <1>2, <2>1, NatSetInduction
<1>4. \E f : Rec(f, Limit)
  <2>1. \A k \in T : \E f : Rec(f, k)
    OBVIOUS
  <2> HIDE DEF T
  <2> QED BY <1>3, <1>0, <2>1
<1>4a. \E f : f = [n \in 0 .. Limit |-> IF n = 0 THEN c ELSE Nxt(f[n - 1], n)]
  <2>1. (Limit) = Limit
    BY <1>0
  <2>2. PICK f : Rec(f, Limit)
    BY <1>4
  <2> HIDE DEF Nxt
  <2>3. f = [n \in 0 .. Limit |-> IF n = 0 THEN c ELSE Nxt(f[n - 1], n)]
    BY <2>1, <2>2
  <2> QED BY <2>3
<1>5. Skips(c) = [n \in 0 .. Limit |-> IF n = 0 THEN c ELSE Nxt(Skips(c)[n - 1], n)]
  BY <1>4a DEF Skips
<1> DEFINE loop == Skips(c)
<1>6. loop[0] = c /\ \A n \in 1 .. Limit : loop[n] = Nxt(loop[n - 1], n)
  <2>1. loop = [n \in 0 .. Limit |-> IF n = 0 THEN c ELSE Nxt(loop[n - 1], n)]
    BY <1>5
  <2> HIDE DEF Nxt, loop
  <2> QED BY <2>1, <1>0
<1>7. loop[0] = c /\ \A n \in 1 .. Limit : loop[n] = IF loop[n - 1].mem[loop[n - 1].ptr].marked THEN Skipped(loop[n - 1]) ELSE loop[n - 1]
  <2> HIDE DEF loop
  <2> QED BY <1>6
<1> HIDE DEF loop
<1>8. Skipping(loop, c)
  BY <1>7 DEF Skipping
<1> QED BY <1>8 DEF loop

\* To skip an object is to move it to where it is.
LEMMA SkippedMoves ==
  ASSUME NEW m, NEW d, Compacted(m, d), d.new = d.ptr, d.ptr \in Pages
  PROVE  Skipped(d) = MoveTo(d) /\ Skipped(d).mem = d.mem
<1> DEFINE p == d.ptr
           size == d.mem[p].pages
           l == d.mem
<1>1. d = [mem |-> d.mem, ptr |-> d.ptr, new |-> d.new, map |-> d.map] /\ l \in Memories /\ p \in Nat
      /\ size \in Nat
  BY HeaderType DEF Compacted, Compactions
<1>2. MoveObject(l, p, p, size) = l
  <2> HIDE DEF l, p, size
  <2>1. \A q \in Pages : q \in p .. p + size - 1 => p + q - p = q
    BY <1>1, Areas
  <2>2. \A q \in Pages : (IF q \in p .. p + size - 1 THEN l[p + q - p] ELSE l[q]) = l[q]
    BY <2>1
  <2>3. l = [q \in Pages |-> l[q]]
    BY <1>1 DEF Memories
  <2> QED BY <2>2, <2>3 DEF MoveObject
<1>3. Skipped(d) = [mem |-> d.mem, ptr |-> d.ptr + size, new |-> d.ptr + size, map |-> [d.map EXCEPT ![d.ptr] = d.ptr]]
  <2> DEFINE k == d.mem
             f == d.map
             n == d.new
  <2>1. d = [mem |-> k, ptr |-> p, new |-> n, map |-> f]
    BY <1>1
  <2>2. Skipped(d) = [d EXCEPT !.map[p] = p, !.ptr = @ + size, !.new = p + size]
    BY DEF Skipped
  <2> HIDE DEF k, f, n, p, size
  <2> DEFINE a == [d EXCEPT !.map[p] = p]
             b == [a EXCEPT !.ptr = @ + size]
  <2>3. a = [mem |-> k, ptr |-> p, new |-> n, map |-> [f EXCEPT ![p] = p]]
    BY <2>1
  <2>4. Skipped(d) = [b EXCEPT !.new = p + size]
    BY <2>2
  <2> HIDE DEF a
  <2>5. b = [mem |-> k, ptr |-> p + size, new |-> n, map |-> [f EXCEPT ![p] = p]]
    BY <2>3
  <2> HIDE DEF b
  <2>6. [b EXCEPT !.new = p + size] = [mem |-> k, ptr |-> p + size, new |-> p + size, map |-> [f EXCEPT ![p] = p]]
    BY <2>5
  <2> QED BY <2>4, <2>6 DEF k, f, p, size
<1>4. MoveTo(d) = [ptr |-> d.ptr + size, new |-> d.new + size, map |-> [d.map EXCEPT ![d.ptr] = d.new],
                   mem |-> MoveObject(d.mem, d.new, d.ptr, size)]
  BY DEF MoveTo
<1>5. MoveTo(d) = [ptr |-> d.ptr + size, new |-> d.ptr + size, map |-> [d.map EXCEPT ![d.ptr] = d.ptr], mem |-> d.mem]
  BY <1>2, <1>4
<1> QED BY <1>3, <1>5

\* What has been skipped.
InPlace(t, m, mature, d) ==
  /\ Compacted(m, d) /\ d.mem = m /\ d.new = d.ptr /\ d.ptr <= Limit
  /\ \A p \in Mapped(d) : 2 * YGSize <= p /\ p < d.ptr /\ (p \in mature \/ t.gc_mg_current <= p)
  /\ \A p \in mature : p < d.ptr => p \in Mapped(d)
  /\ d.ptr < t.gc_mg_current => d.ptr \in mature

\* A marked object at the pointer stays in place.
LEMMA SkipsOne ==
  ASSUME NEW t, NEW m, NEW mature, NEW young, NEW d, CompactContext(t, m, mature, young),
         InPlace(t, m, mature, d), d.mem[d.ptr].marked
  PROVE  InPlace(t, m, mature, Skipped(d))
<1> DEFINE p == d.ptr
           size == m[p].pages
           e == Skipped(d)
           current == t.gc_mg_current
<1>1. /\ Compacted(m, d) /\ d.mem = m /\ d.new = p /\ p \in Nat /\ p <= Limit /\ 2 * YGSize <= p
      /\ \A q \in Mapped(d) : 2 * YGSize <= q /\ q < p /\ (q \in mature \/ current <= q)
      /\ \A q \in mature : q < p => q \in Mapped(d)
      /\ p < current => p \in mature
  BY DEF InPlace, Compacted, Compactions
<1>2. p \in Pages /\ m[p].marked /\ m \in Memories
  BY <1>1, Areas DEF CompactContext
<1>3. p < Limit /\ p + size <= Limit /\ size \in Nat /\ size >= 1
  BY <1>1, <1>2, HeaderType DEF CompactContext
<1>4. /\ mature \subseteq 2 * YGSize .. current - 1 /\ current \in Nat
      /\ \A q \in mature : q + m[q].pages \in mature \cup {current}
      /\ \A q, r \in mature : q < r => q + m[q].pages <= r
  BY TableFacts DEF CompactContext, Tiled
<1>5. p \notin Mapped(d)
  BY <1>1
<1>6. Movable(m, d)
  <2>1. p + size <= PermStart
    <3> HIDE DEF p, size
    <3> QED BY <1>1, <1>3, Areas
  <2> QED BY <1>1, <1>2, <1>5, <2>1 DEF Movable
<1>7. e = MoveTo(d) /\ e.mem = m
  BY <1>1, <1>2, SkippedMoves
<1>8. OneMoved(m, d, MoveTo(d))
  BY <1>1, <1>2, <1>6, Moves
<1> HIDE DEF e
<1>9. Compacted(m, e) /\ Mapped(e) = Mapped(d) \cup {p} /\ e.ptr = p + size /\ e.new = p + size
  BY <1>1, <1>7, <1>8 DEF OneMoved
<1> HIDE DEF p, size, current
<1>10. \A q \in Mapped(e) : 2 * YGSize <= q /\ q < p + size /\ (q \in mature \/ current <= q)
  <2> SUFFICES ASSUME NEW q \in Mapped(e) PROVE 2 * YGSize <= q /\ q < p + size /\ (q \in mature \/ current <= q)
    OBVIOUS
  <2>1. CASE q = p
    BY <2>1, <1>1, <1>3, <1>4
  <2>2. CASE q # p
    <3>1. q \in Mapped(d) /\ q \in Pages
      BY <2>2, <1>9 DEF Mapped
    <3>2. q \in Nat
      BY <3>1, Areas
    <3> QED BY <3>1, <3>2, <1>1, <1>3
  <2> QED BY <2>1, <2>2
<1>11. ASSUME NEW q \in mature, q < p + size PROVE q \in Mapped(e)
  <2>1. q \in Nat /\ q < current
    BY <1>4, Areas
  <2>2. CASE q <= p
    BY <2>1, <2>2, <1>1, <1>9
  <2>3. CASE p < q
    <3>1. p \in mature
      BY <2>1, <2>3, <1>1, <1>4
    <3>2. p + size <= q
      BY <2>3, <3>1, <1>4 DEF size
    <3> QED BY <3>2, <2>1, <1>11, <1>1, <1>3
  <2> QED BY <2>1, <2>2, <2>3, <1>1
<1>12. ASSUME p + size < current PROVE p + size \in mature
  <2>1. p \in mature
    BY <1>1, <1>3, <1>4, <1>12
  <2>2. p + size \in mature \cup {current}
    BY <2>1, <1>4 DEF size
  <2> QED BY <2>2, <1>12, <1>4
<1>13. InPlace(t, m, mature, e)
  BY <1>3, <1>7, <1>9, <1>10, <1>11, <1>12 DEF InPlace, current
<1> QED BY <1>13 DEF e

\* Where the compaction begins.
Uncompacted(t, m) ==
  [mem |-> m, ptr |-> t.gc_mg_start, new |-> t.gc_mg_start, map |-> [p \in Pages |-> Nil]]

\* The compaction starts with everything in place.
LEMMA CompactStart ==
  ASSUME NEW t, NEW m, NEW mature, NEW young, CompactContext(t, m, mature, young)
  PROVE  InPlace(t, m, mature, Uncompacted(t, m))
<1> DEFINE c == Uncompacted(t, m)
<1>1. c.mem = m /\ c.ptr = 2 * YGSize /\ c.new = 2 * YGSize /\ c.map = [p \in Pages |-> Nil]
      /\ c = [mem |-> c.mem, ptr |-> c.ptr, new |-> c.new, map |-> c.map]
  BY TableFacts DEF Uncompacted, CompactContext
<1>2. m \in Memories /\ 2 * YGSize \in Nat /\ 2 * YGSize <= Limit
  BY Areas DEF CompactContext
<1> HIDE DEF c
<1>3. Mapped(c) = {} /\ Targets(c) = {}
  BY <1>1 DEF Mapped, Targets
<1>4. c \in Compactions
  BY <1>1, <1>2 DEF Compactions
<1>5. Tiled(c.mem, {}, 2 * YGSize, c.new)
  BY <1>1, <1>2, TiledNothing
<1>6. Compacted(m, c)
  BY <1>1, <1>2, <1>3, <1>4, <1>5 DEF Compacted
<1>7. mature \subseteq 2 * YGSize .. t.gc_mg_current - 1 /\ t.gc_mg_current \in Nat
      /\ (2 * YGSize < t.gc_mg_current => 2 * YGSize \in mature)
  BY TableFacts DEF CompactContext, Tiled
<1>8. \A p \in mature : ~(p < 2 * YGSize)
  BY <1>2, <1>7
<1>9. InPlace(t, m, mature, c)
  BY <1>1, <1>2, <1>3, <1>6, <1>7, <1>8 DEF InPlace
<1> QED BY <1>9 DEF c

\* SkipPermanent leaves marked objects in place; it may go on over old headers
\* behind the mature generation.
LEMMA SkipPermanentWorks ==
  ASSUME NEW t, NEW m, NEW mature, NEW young, NEW c, CompactContext(t, m, mature, young), InPlace(t, m, mature, c)
  PROVE  InPlace(t, m, mature, SkipPermanent(c))
<1> DEFINE skip == Skips(c)
           T == {n \in Nat : InPlace(t, m, mature, skip[n])}
<1>1. Limit \in Nat
  BY Areas
<1>2. Skipping(skip, c)
  BY <1>1, SkipsDef
<1>3. SkipPermanent(c) = skip[Limit]
  BY SkipPermanentLoop
<1> HIDE DEF skip
<1>4. skip[0] = c
      /\ \A n \in 1 .. Limit : skip[n] = IF skip[n - 1].mem[skip[n - 1].ptr].marked THEN Skipped(skip[n - 1]) ELSE skip[n - 1]
  BY <1>2 DEF Skipping
<1>5. 0 \in T
  BY <1>4
<1>6. ASSUME NEW n \in 0 .. Limit - 1, n \in T PROVE n + 1 \in T
  <2> DEFINE d == skip[n]
  <2>1. n + 1 \in 1 .. Limit /\ (n + 1) - 1 = n /\ InPlace(t, m, mature, d)
    BY <1>1, <1>6
  <2>2. skip[n + 1] = IF d.mem[d.ptr].marked THEN Skipped(d) ELSE d
    BY <2>1, <1>4
  <2> HIDE DEF d
  <2>3. InPlace(t, m, mature, skip[n + 1])
    <3>1. CASE d.mem[d.ptr].marked
      BY <2>1, <2>2, <3>1, SkipsOne
    <3>2. CASE ~d.mem[d.ptr].marked
      BY <2>1, <2>2, <3>2
    <3> QED BY <3>1, <3>2
  <2> QED BY <2>1, <2>3
<1>7. Limit \in T
  <2> HIDE DEF T
  <2>1. \A n \in 0 .. Limit : n \in T
    BY <1>1, <1>5, <1>6, UpTo
  <2> QED BY <2>1, <1>1
<1> QED BY <1>3, <1>7

-----------------------------------------------------------------------------
CompactOne(d, end) ==
  IF d.ptr < end
  THEN IF d.mem[d.ptr].marked THEN MoveTo(d) ELSE [d EXCEPT !.ptr = @ + d.mem[d.ptr].pages]
  ELSE d
Compactings(c, end) ==
  LET compact[n \in 0 .. Limit] == IF n = 0 THEN c ELSE CompactOne(compact[n - 1], end)
  IN compact

\* Compact is the last state of its loop.
LEMMA CompactLoop ==
  ASSUME NEW c, NEW end
  PROVE  Compact(c, end) = Compactings(c, end)[Limit]
BY DEF Compact, Compactings, CompactOne, MoveTo

\* The loop of the compaction.
Compacting(loop, c, end) ==
  /\ loop[0] = c
  /\ \A n \in 1 .. Limit : loop[n] = CompactOne(loop[n - 1], end)

\* Compactings is the loop it is written as.
LEMMA CompactingsDef ==
  ASSUME NEW c, NEW end, Limit \in Nat
  PROVE  Compacting(Compactings(c, end), c, end)
<1> DEFINE Nxt(p, n) == CompactOne(p, end)
           Rec(f, k) == f = [n \in 0 .. k |-> IF n = 0 THEN c ELSE Nxt(f[n - 1], n)]
           T == {k \in Nat : \E f : Rec(f, k)}
<1>0. Limit \in Nat
  OBVIOUS
<1>1. 0 \in T
  <2>1. Rec([n \in 0 .. 0 |-> c], 0)
    BY <1>0
  <2> QED BY <2>1
<1>2. ASSUME NEW k \in T PROVE k + 1 \in T
  <2>1. PICK f : Rec(f, k)
    OBVIOUS
  <2> DEFINE g == [n \in 0 .. (k + 1) |-> IF n <= k THEN f[n] ELSE Nxt(f[k], n)]
  <2> HIDE DEF Nxt
  <2>2. ASSUME NEW n \in 0 .. (k + 1)
        PROVE  g[n] = IF n = 0 THEN c ELSE Nxt(g[n - 1], n)
    <3>1. CASE n = 0
      BY <2>1, <3>1, <1>0
    <3>2. CASE n \in 1 .. k
      <4>1. n \in 0 .. k /\ n - 1 \in 0 .. k /\ n # 0 /\ n - 1 \in 0 .. (k + 1)
        BY <3>2, <1>0
      <4>2. g[n] = f[n] /\ g[n - 1] = f[n - 1]
        BY <4>1, <1>0
      <4>3. f[n] = Nxt(f[n - 1], n)
        BY <2>1, <4>1
      <4> QED BY <4>1, <4>2, <4>3
    <3>3. CASE n = k + 1
      BY <3>3, <1>0
    <3> QED BY <3>1, <3>2, <3>3, <1>0
  <2>3. Rec(g, k + 1)
    BY <2>2
  <2> HIDE DEF g, Rec
  <2> QED BY <2>3
<1>3. T = Nat
  <2> HIDE DEF T
  <2>1. T \in SUBSET Nat
    BY DEF T
  <2> QED BY <1>1, <1>2, <2>1, NatSetInduction
<1>4. \E f : Rec(f, Limit)
  <2>1. \A k \in T : \E f : Rec(f, k)
    OBVIOUS
  <2> HIDE DEF T
  <2> QED BY <1>3, <1>0, <2>1
<1>4a. \E f : f = [n \in 0 .. Limit |-> IF n = 0 THEN c ELSE Nxt(f[n - 1], n)]
  <2>1. (Limit) = Limit
    BY <1>0
  <2>2. PICK f : Rec(f, Limit)
    BY <1>4
  <2> HIDE DEF Nxt
  <2>3. f = [n \in 0 .. Limit |-> IF n = 0 THEN c ELSE Nxt(f[n - 1], n)]
    BY <2>1, <2>2
  <2> QED BY <2>3
<1>5. Compactings(c, end) = [n \in 0 .. Limit |-> IF n = 0 THEN c ELSE Nxt(Compactings(c, end)[n - 1], n)]
  BY <1>4a DEF Compactings
<1> DEFINE loop == Compactings(c, end)
<1>6. loop[0] = c /\ \A n \in 1 .. Limit : loop[n] = Nxt(loop[n - 1], n)
  <2>1. loop = [n \in 0 .. Limit |-> IF n = 0 THEN c ELSE Nxt(loop[n - 1], n)]
    BY <1>5
  <2> HIDE DEF Nxt, loop
  <2> QED BY <2>1, <1>0
<1>7. loop[0] = c /\ \A n \in 1 .. Limit : loop[n] = CompactOne(loop[n - 1], end)
  <2> HIDE DEF loop
  <2> QED BY <1>6
<1> HIDE DEF loop
<1>8. Compacting(loop, c, end)
  BY <1>7 DEF Compacting
<1> QED BY <1>8 DEF loop

\* A region R of objects up to a page end, of which c has moved none behind c.ptr.
Region(m, R, end, c) ==
  /\ m \in Memories /\ end \in 0 .. Limit
  /\ R \subseteq 0 .. end - 1
  /\ \A p \in R : p + m[p].pages \in R \cup {end}
  /\ \A p, q \in R : p < q => p + m[p].pages <= q
  /\ Compacted(m, c)
  /\ c.ptr < end => c.ptr \in R
  /\ \A p \in R : c.ptr <= p => p \notin Mapped(c)
  /\ c.new <= c.ptr \/ (end <= 2 * YGSize /\ c.ptr <= end /\ c.new + (end - c.ptr) <= PermStart)

\* From c to d the objects in between have been moved.
Advanced(m, R, end, c, d) ==
  /\ Compacted(m, d) /\ c.ptr <= d.ptr
  /\ Mapped(d) = Mapped(c) \cup {p \in R : c.ptr <= p /\ p < d.ptr /\ m[p].marked}
  /\ d.ptr < end => d.ptr \in R
  /\ d.ptr <= end \/ d.ptr = c.ptr
  /\ d.new - c.new <= d.ptr - c.ptr

\* Passing an object that is not marked changes nothing else.
LEMMA PassBy ==
  ASSUME NEW m, NEW d, Compacted(m, d), NEW n \in Nat
  PROVE  LET e == [d EXCEPT !.ptr = n]
         IN  Compacted(m, e) /\ Mapped(e) = Mapped(d) /\ e.ptr = n /\ e.new = d.new
<1> DEFINE e == [d EXCEPT !.ptr = n]
<1>1. e.mem = d.mem /\ e.new = d.new /\ e.map = d.map /\ e.ptr = n /\ e \in Compactions
  BY DEF Compacted, Compactions
<1> HIDE DEF e
<1>2. Mapped(e) = Mapped(d)
  BY <1>1 DEF Mapped
<1>3. Targets(e) = Targets(d)
  BY <1>1, <1>2 DEF Targets
<1>4. Compacted(m, e)
  BY <1>1, <1>2, <1>3 DEF Compacted
<1> QED BY <1>1, <1>2, <1>4 DEF e

\* A turn of the loop goes on to the next object.
LEMMA CompactsOne ==
  ASSUME NEW m, NEW R, NEW end, NEW c, NEW d, Region(m, R, end, c), Advanced(m, R, end, c, d)
  PROVE  /\ Advanced(m, R, end, c, CompactOne(d, end))
         /\ CompactOne(d, end).ptr > d.ptr \/ d.ptr >= end
<1> DEFINE p == d.ptr
           size == m[p].pages
           e == CompactOne(d, end)
<1>1. /\ m \in Memories /\ end \in Nat /\ end <= Limit /\ R \subseteq 0 .. end - 1
      /\ \A q \in R : q + m[q].pages \in R \cup {end}
      /\ \A q, r \in R : q < r => q + m[q].pages <= r
      /\ Compacted(m, c) /\ Compacted(m, d)
      /\ c.ptr \in Nat /\ c.new \in Nat /\ p \in Nat /\ d.new \in Nat /\ 2 * YGSize <= d.new /\ 2 * YGSize \in Nat
      /\ c.ptr <= p /\ (p < end => p \in R)
      /\ d.new - c.new <= p - c.ptr
  BY Areas DEF Region, Advanced, Compacted, Compactions
<1>2. CASE ~(p < end)
  <2>1. e = d
    BY <1>2 DEF CompactOne
  <2>2. p >= end
    BY <1>1, <1>2
  <2> QED BY <2>1, <2>2
<1>3. CASE p < end
  <2>1. p \in R /\ p \in Pages /\ size \in Nat /\ size >= 1 /\ p + size <= end /\ p + size \in R \cup {end}
    <3>1. p \in R /\ p \in Pages
      BY <1>1, <1>3, Areas
    <3>2. size \in Nat \ {0} /\ p + size \in R \cup {end}
      BY <3>1, <1>1, HeaderType
    <3>3. \A q \in R : q <= end /\ q \in Nat
      BY <1>1
    <3> QED BY <3>1, <3>2, <3>3, <1>1
  <2>2. d.new <= p \/ (end <= 2 * YGSize /\ c.new + (end - c.ptr) <= PermStart)
    <3>1. CASE c.new <= c.ptr
      BY <3>1, <1>1
    <3>2. CASE end <= 2 * YGSize /\ c.new + (end - c.ptr) <= PermStart
      BY <3>2
    <3> QED BY <3>1, <3>2 DEF Region
  <2>3. d.mem[p] = m[p]
    <3>1. p \notin 2 * YGSize .. d.new - 1
      BY <2>2, <1>1, <1>3
    <3> QED BY <3>1, <2>1 DEF Advanced, Compacted
  <2>4. p \notin Mapped(d)
    <3>1. p \notin Mapped(c)
      BY <2>1, <1>1 DEF Region
    <3> QED BY <3>1, <1>1 DEF Advanced
  <2>5. \A q \in R : q \in Nat /\ (q < p + size <=> q <= p)
    <3> SUFFICES ASSUME NEW q \in R PROVE q \in Nat /\ (q < p + size <=> q <= p)
      OBVIOUS
    <3>1. q \in Nat
      BY <1>1
    <3>2. p < q => p + size <= q
      BY <2>1, <1>1
    <3> HIDE DEF p, size
    <3> QED BY <3>1, <3>2, <2>1, <1>1
  <2>6. CASE m[p].marked
    <3>1. e = MoveTo(d)
      BY <1>3, <2>3, <2>6 DEF CompactOne
    <3>2. p + size <= PermStart /\ d.new + size <= PermStart
      <4> HIDE DEF p, size
      <4>1. p + size <= PermStart
        BY <2>1, <1>1, Areas
      <4>2. CASE d.new <= p
        BY <4>1, <4>2, <2>1, <1>1, Areas
      <4>3. CASE c.new + (end - c.ptr) <= PermStart
        BY <4>3, <2>1, <1>1, Areas
      <4> QED BY <4>1, <4>2, <4>3, <2>2
    <3>3. d.new <= p \/ p + size <= 2 * YGSize
      <4> HIDE DEF p, size
      <4> QED BY <2>1, <2>2, <1>1
    <3>4. Movable(m, d)
      BY <2>1, <2>4, <2>6, <3>2, <3>3 DEF Movable
    <3>5. OneMoved(m, d, e)
      BY <3>1, <3>4, <1>1, Moves
    <3> HIDE DEF e
    <3>6. Compacted(m, e) /\ Mapped(e) = Mapped(d) \cup {p} /\ e.ptr = p + size /\ e.new = d.new + size
      BY <3>5 DEF OneMoved
    <3>7. Mapped(e) = Mapped(c) \cup {q \in R : c.ptr <= q /\ q < e.ptr /\ m[q].marked}
      <4>1. Mapped(d) = Mapped(c) \cup {q \in R : c.ptr <= q /\ q < p /\ m[q].marked}
        BY DEF Advanced
      <4>2. \A q \in R : q < e.ptr <=> q < p \/ q = p
        <5> HIDE DEF p, size
        <5> QED BY <2>5, <3>6, <1>1
      <4>3. p \in R /\ c.ptr <= p /\ m[p].marked
        BY <2>1, <2>6, <1>1
      <4> HIDE DEF p
      <4> QED BY <3>6, <4>1, <4>2, <4>3
    <3> HIDE DEF size
    <3>8. c.ptr <= e.ptr /\ (e.ptr < end => e.ptr \in R) /\ e.ptr <= end /\ e.ptr > p
          /\ e.new - c.new <= e.ptr - c.ptr
      <4> HIDE DEF p
      <4> QED BY <2>1, <3>6, <1>1
    <3>9. Advanced(m, R, end, c, e)
      BY <3>6, <3>7, <3>8 DEF Advanced
    <3> QED BY <3>8, <3>9 DEF e
  <2>7. CASE ~m[p].marked
    <3> DEFINE k == p + size
    <3>1. e = [d EXCEPT !.ptr = k]
      BY <1>3, <2>3, <2>7 DEF CompactOne
    <3>2. k \in Nat /\ c.ptr <= k /\ (k < end => k \in R) /\ k <= end /\ k > p
          /\ d.new - c.new <= k - c.ptr
      <4> HIDE DEF p, size
      <4> QED BY <2>1, <1>1
    <3>2a. \A q \in R : q < k <=> q < p \/ q = p
      <4> HIDE DEF p, size
      <4> QED BY <2>5, <1>1
    <3> HIDE DEF k, e
    <3>3. Compacted(m, e) /\ Mapped(e) = Mapped(d) /\ e.ptr = k /\ e.new = d.new
      BY <3>1, <3>2, <1>1, PassBy
    <3>4. Mapped(e) = Mapped(c) \cup {q \in R : c.ptr <= q /\ q < e.ptr /\ m[q].marked}
      <4>1. Mapped(d) = Mapped(c) \cup {q \in R : c.ptr <= q /\ q < p /\ m[q].marked}
        BY DEF Advanced
      <4>2. ~m[p].marked
        BY <2>7
      <4> HIDE DEF p
      <4> QED BY <3>2a, <3>3, <4>1, <4>2
    <3>5. Advanced(m, R, end, c, e)
      BY <3>2, <3>3, <3>4 DEF Advanced
    <3> QED BY <3>2, <3>3, <3>5 DEF e
  <2> QED BY <2>6, <2>7
<1> QED BY <1>2, <1>3

\* What a compaction does.
RegionMoved(m, R, end, c, d) ==
  /\ Compacted(m, d)
  /\ Mapped(d) = Mapped(c) \cup {p \in R : c.ptr <= p /\ m[p].marked}
  /\ d.ptr <= end \/ d.ptr = c.ptr
  /\ d.new - c.new <= d.ptr - c.ptr

\* Compact moves the marked objects of an area in their order.
LEMMA CompactWorks ==
  ASSUME NEW m, NEW R, NEW end, NEW c, Region(m, R, end, c)
  PROVE  RegionMoved(m, R, end, c, Compact(c, end))
<1> DEFINE compact == Compactings(c, end)
           T == {n \in Nat : Advanced(m, R, end, c, compact[n]) /\ (compact[n].ptr >= n \/ compact[n].ptr >= end)}
<1>1. Limit \in Nat /\ end \in Nat /\ end <= Limit /\ c.ptr \in Nat /\ c.new \in Nat /\ Compacted(m, c)
      /\ (c.ptr < end => c.ptr \in R) /\ \A p \in R : p \in Nat
  BY Areas DEF Region, Compacted, Compactions
<1>2. Compacting(compact, c, end)
  BY <1>1, CompactingsDef
<1>3. Compact(c, end) = compact[Limit]
  BY CompactLoop
<1> HIDE DEF compact
<1>4. compact[0] = c /\ \A n \in 1 .. Limit : compact[n] = CompactOne(compact[n - 1], end)
  BY <1>2 DEF Compacting
<1>5. 0 \in T
  <2>1. \A p \in R : ~(c.ptr <= p /\ p < c.ptr)
    BY <1>1
  <2>2. Advanced(m, R, end, c, c)
    BY <1>1, <2>1 DEF Advanced
  <2> QED BY <1>1, <1>4, <2>2
<1>6. ASSUME NEW n \in 0 .. Limit - 1, n \in T PROVE n + 1 \in T
  <2> DEFINE d == compact[n]
             e == CompactOne(d, end)
  <2>1. n + 1 \in 1 .. Limit /\ (n + 1) - 1 = n /\ n \in Nat /\ n + 1 \in Nat
    BY <1>1, <1>6
  <2>2. Advanced(m, R, end, c, d) /\ (d.ptr >= n \/ d.ptr >= end)
    BY <1>6
  <2>3. compact[n + 1] = e
    BY <2>1, <1>4
  <2> HIDE DEF d
  <2>4. Advanced(m, R, end, c, e) /\ (e.ptr > d.ptr \/ d.ptr >= end)
    BY <2>2, CompactsOne
  <2>4a. d.ptr < end \/ e = d
    <3>1. d.ptr \in Nat
      BY <2>2 DEF Advanced, Compacted, Compactions
    <3> QED BY <3>1, <1>1 DEF CompactOne
  <2> HIDE DEF e
  <2>5. d.ptr \in Nat /\ e.ptr \in Nat
    BY <2>2, <2>4 DEF Advanced, Compacted, Compactions
  <2>6. e.ptr >= n + 1 \/ e.ptr >= end
    BY <2>1, <2>2, <2>4, <2>4a, <2>5, <1>1
  <2> QED BY <2>1, <2>3, <2>4, <2>6
<1>7. Limit \in T
  <2> HIDE DEF T
  <2>1. \A n \in 0 .. Limit : n \in T
    BY <1>1, <1>5, <1>6, UpTo
  <2> QED BY <2>1, <1>1
<1> DEFINE d == compact[Limit]
<1>8. Advanced(m, R, end, c, d) /\ (d.ptr >= Limit \/ d.ptr >= end)
  BY <1>7
<1> HIDE DEF d
<1>9. d.ptr \in Nat
  BY <1>8 DEF Advanced, Compacted, Compactions
<1>10. \A p \in R : p < d.ptr
  <2>1. \A p \in R : p < end /\ p \in Nat
    BY <1>1 DEF Region
  <2> QED BY <2>1, <1>1, <1>8, <1>9
<1>11. RegionMoved(m, R, end, c, d)
  BY <1>8, <1>10 DEF Advanced, RegionMoved
<1> QED BY <1>3, <1>11 DEF d

-----------------------------------------------------------------------------
\* What the compaction and the promotion do.
Packed(t, m, mature, young, c) ==
  /\ Compacted(m, c)
  /\ \A p \in mature \cup young : m[p].marked => p \in Mapped(c)
  /\ \A p \in Mapped(c) : p \in mature \/ p \in young \/ t.gc_mg_current <= p

\* Every marked object of both generations has been moved, and with them
\* nothing but old headers behind the mature generation.
LEMMA CompactAndPromoteWorks ==
  ASSUME NEW t, NEW m, NEW mature, NEW young, CompactContext(t, m, mature, young)
  PROVE  Packed(t, m, mature, young, CompactAndPromote(t, m))
<1> DEFINE current == t.gc_mg_current
           a == SkipPermanent(Uncompacted(t, m))
           b == Compact(a, current)
           k == [b EXCEPT !.ptr = t.gc_yg_start]
           c == Compact(k, t.gc_yg_current)
<1>1. CompactAndPromote(t, m) = c
  BY DEF CompactAndPromote, Uncompacted
<1>2. InPlace(t, m, mature, a)
  BY CompactStart, SkipPermanentWorks
<1> HIDE DEF a
<1>3. /\ Compacted(m, a) /\ a.new = a.ptr /\ a.ptr <= Limit /\ a.ptr \in Nat
      /\ \A p \in Mapped(a) : 2 * YGSize <= p /\ p < a.ptr /\ (p \in mature \/ current <= p)
      /\ \A p \in mature : p < a.ptr => p \in Mapped(a)
      /\ a.ptr < current => a.ptr \in mature
  BY <1>2 DEF InPlace, Compacted, Compactions
<1>4. /\ TableOK(t) /\ m \in Memories /\ current \in Nat /\ current <= Limit /\ Limit \in Nat /\ 2 * YGSize \in Nat
      /\ t.gc_yg_start \in Nat /\ t.gc_yg_current \in Nat /\ t.gc_yg_start <= t.gc_yg_current
      /\ t.gc_yg_current <= t.gc_yg_start + YGSize /\ t.gc_yg_current <= 2 * YGSize /\ 2 * YGSize <= Limit
      /\ YGSize \in Nat /\ PermStart = Limit + 2 * YGSize
  BY TableFacts, Areas DEF CompactContext
<1>5. /\ mature \subseteq 2 * YGSize .. current - 1
      /\ \A p \in mature : p + m[p].pages \in mature \cup {current}
      /\ \A p, q \in mature : p < q => p + m[p].pages <= q
  BY <1>4, TableFacts DEF CompactContext, Tiled
<1>6. /\ young \subseteq t.gc_yg_start .. t.gc_yg_current - 1
      /\ t.gc_yg_start < t.gc_yg_current => t.gc_yg_start \in young
      /\ \A p \in young : p + m[p].pages \in young \cup {t.gc_yg_current}
      /\ \A p, q \in young : p < q => p + m[p].pages <= q
  BY DEF CompactContext, Tiled
<1>7. Region(m, mature, current, a)
  <2>1. \A p \in mature : a.ptr <= p => p \notin Mapped(a)
    <3>1. \A p \in mature : p \in Nat
      BY <1>5, Areas
    <3> QED BY <3>1, <1>3
  <2>2. mature \subseteq 0 .. current - 1 /\ current \in 0 .. Limit
    BY <1>4, <1>5
  <2>3. a.new <= a.ptr
    BY <1>3
  <2> HIDE DEF current
  <2> QED BY <1>3, <1>4, <1>5, <2>1, <2>2, <2>3 DEF Region
<1>8. RegionMoved(m, mature, current, a, b)
  BY <1>7, CompactWorks
<1> HIDE DEF b
<1>9. /\ Compacted(m, b) /\ b.ptr \in Nat /\ b.new \in Nat
      /\ Mapped(b) = Mapped(a) \cup {p \in mature : a.ptr <= p /\ m[p].marked}
      /\ b.ptr <= current \/ b.ptr = a.ptr
      /\ b.new - a.new <= b.ptr - a.ptr
  BY <1>8 DEF RegionMoved, Compacted, Compactions
<1>10. b.new <= Limit
  <2> HIDE DEF current
  <2> QED BY <1>3, <1>4, <1>9
<1>11. Compacted(m, k) /\ Mapped(k) = Mapped(b) /\ k.ptr = t.gc_yg_start /\ k.new = b.new
  <2>1. t.gc_yg_start \in Nat
    BY <1>4
  <2> QED BY <2>1, <1>9, PassBy
<1>12. \A p \in Mapped(b) : p \in Nat /\ 2 * YGSize <= p /\ (p \in mature \/ current <= p)
  <2>1. \A p \in mature : p \in Nat /\ 2 * YGSize <= p
    BY <1>4, <1>5
  <2>2. \A p \in Mapped(b) : p \in Nat
    BY Areas DEF Mapped
  <2> QED BY <2>1, <2>2, <1>3, <1>9
<1> HIDE DEF k
<1>13. Region(m, young, t.gc_yg_current, k)
  <2>1. \A p \in young : k.ptr <= p => p \notin Mapped(k)
    <3>1. \A p \in young : p \in Nat /\ p < 2 * YGSize
      BY <1>4, <1>6
    <3> QED BY <3>1, <1>4, <1>11, <1>12
  <2>2. young \subseteq 0 .. t.gc_yg_current - 1 /\ t.gc_yg_current \in 0 .. Limit
    BY <1>4, <1>6
  <2>3. t.gc_yg_current <= 2 * YGSize /\ k.ptr <= t.gc_yg_current
        /\ k.new + (t.gc_yg_current - k.ptr) <= PermStart
    BY <1>4, <1>9, <1>10, <1>11
  <2> QED BY <1>4, <1>6, <1>11, <2>1, <2>2, <2>3 DEF Region
<1>14. RegionMoved(m, young, t.gc_yg_current, k, c)
  BY <1>13, CompactWorks
<1> HIDE DEF c
<1>15. Compacted(m, c) /\ Mapped(c) = Mapped(k) \cup {p \in young : k.ptr <= p /\ m[p].marked}
  BY <1>14 DEF RegionMoved
<1>16. ASSUME NEW p \in mature \cup young, m[p].marked PROVE p \in Mapped(c)
  <2>1. CASE p \in mature
    <3>1. p \in Nat
      BY <2>1, <1>4, <1>5
    <3>2. p < a.ptr \/ a.ptr <= p
      BY <3>1, <1>3
    <3> QED BY <3>2, <2>1, <1>3, <1>9, <1>11, <1>15, <1>16
  <2>2. CASE p \in young
    <3>1. k.ptr <= p
      BY <2>2, <1>4, <1>6, <1>11
    <3> QED BY <3>1, <2>2, <1>15, <1>16
  <2> QED BY <2>1, <2>2
<1>17. \A p \in Mapped(c) : p \in mature \/ p \in young \/ current <= p
  BY <1>11, <1>12, <1>15
<1>18. Packed(t, m, mature, young, c)
  BY <1>15, <1>16, <1>17 DEF Packed
<1> QED BY <1>1, <1>18

-----------------------------------------------------------------------------
(* Replacing the references among the objects y.heads, which y.map moved, and *)
(* clearing their marks.  y.mem is the memory after the move.                 *)

\* The words are visited one after the other.
FixVisiting(loop, fix, map, start, end, m, words) ==
  /\ loop[0] = [mem |-> m, words |-> <<>>]
  /\ \A n \in 1 .. Len(words) : loop[n] = FixVisit(fix, map, start, end, loop[n - 1], words[n])

\* FixVisits is the loop over words it is written as.
LEMMA FixVisitsDef ==
  ASSUME NEW fix, NEW map, NEW start, NEW end, NEW m, NEW words, Len(words) \in Nat
  PROVE  FixVisiting(FixVisits(fix, map, start, end, m, words), fix, map, start, end, m, words)
<1> DEFINE Nxt(p, n) == FixVisit(fix, map, start, end, p, words[n])
           Rec(f, k) == f = [n \in 0 .. k |-> IF n = 0 THEN [mem |-> m, words |-> <<>>] ELSE Nxt(f[n - 1], n)]
           T == {k \in Nat : \E f : Rec(f, k)}
<1>0. Len(words) \in Nat
  OBVIOUS
<1>1. 0 \in T
  <2>1. Rec([n \in 0 .. 0 |-> [mem |-> m, words |-> <<>>]], 0)
    BY <1>0
  <2> QED BY <2>1
<1>2. ASSUME NEW k \in T PROVE k + 1 \in T
  <2>1. PICK f : Rec(f, k)
    OBVIOUS
  <2> DEFINE g == [n \in 0 .. (k + 1) |-> IF n <= k THEN f[n] ELSE Nxt(f[k], n)]
  <2> HIDE DEF Nxt
  <2>2. ASSUME NEW n \in 0 .. (k + 1)
        PROVE  g[n] = IF n = 0 THEN [mem |-> m, words |-> <<>>] ELSE Nxt(g[n - 1], n)
    <3>1. CASE n = 0
      BY <2>1, <3>1, <1>0
    <3>2. CASE n \in 1 .. k
      <4>1. n \in 0 .. k /\ n - 1 \in 0 .. k /\ n # 0 /\ n - 1 \in 0 .. (k + 1)
        BY <3>2, <1>0
      <4>2. g[n] = f[n] /\ g[n - 1] = f[n - 1]
        BY <4>1, <1>0
      <4>3. f[n] = Nxt(f[n - 1], n)
        BY <2>1, <4>1
      <4> QED BY <4>1, <4>2, <4>3
    <3>3. CASE n = k + 1
      BY <3>3, <1>0
    <3> QED BY <3>1, <3>2, <3>3, <1>0
  <2>3. Rec(g, k + 1)
    BY <2>2
  <2> HIDE DEF g, Rec
  <2> QED BY <2>3
<1>3. T = Nat
  <2> HIDE DEF T
  <2>1. T \in SUBSET Nat
    BY DEF T
  <2> QED BY <1>1, <1>2, <2>1, NatSetInduction
<1>4. \E f : Rec(f, Len(words))
  <2>1. \A k \in T : \E f : Rec(f, k)
    OBVIOUS
  <2> HIDE DEF T
  <2> QED BY <1>3, <1>0, <2>1
<1>4a. \E f : f = [n \in 0 .. Len(words) |-> IF n = 0 THEN [mem |-> m, words |-> <<>>] ELSE Nxt(f[n - 1], n)]
  <2>1. (Len(words)) = Len(words)
    BY <1>0
  <2>2. PICK f : Rec(f, Len(words))
    BY <1>4
  <2> HIDE DEF Nxt
  <2>3. f = [n \in 0 .. Len(words) |-> IF n = 0 THEN [mem |-> m, words |-> <<>>] ELSE Nxt(f[n - 1], n)]
    BY <2>1, <2>2
  <2> QED BY <2>3
<1>5. FixVisits(fix, map, start, end, m, words) = [n \in 0 .. Len(words) |-> IF n = 0 THEN [mem |-> m, words |-> <<>>] ELSE Nxt(FixVisits(fix, map, start, end, m, words)[n - 1], n)]
  BY <1>4a DEF FixVisits
<1> DEFINE loop == FixVisits(fix, map, start, end, m, words)
<1>6. loop[0] = [mem |-> m, words |-> <<>>] /\ \A n \in 1 .. Len(words) : loop[n] = Nxt(loop[n - 1], n)
  <2>1. loop = [n \in 0 .. Len(words) |-> IF n = 0 THEN [mem |-> m, words |-> <<>>] ELSE Nxt(loop[n - 1], n)]
    BY <1>5
  <2> HIDE DEF Nxt, loop
  <2> QED BY <2>1, <1>0
<1>7. loop[0] = [mem |-> m, words |-> <<>>] /\ \A n \in 1 .. Len(words) : loop[n] = FixVisit(fix, map, start, end, loop[n - 1], words[n])
  <2> HIDE DEF loop
  <2> QED BY <1>6
<1> HIDE DEF loop
<1>8. FixVisiting(loop, fix, map, start, end, m, words)
  BY <1>7 DEF FixVisiting
<1> QED BY <1>8 DEF loop

\* The recursion.
FixingObjects(loop, map, start, end) ==
  \A n \in 0 .. MaxDepth : loop[n] = [m \in Memories |-> [words \in Words |-> IF n = 0 THEN [mem |-> m, words |-> words] ELSE FixVisits(loop[n - 1], map, start, end, m, words)[Len(words)]]]

\* FixObjects is the recursion it is written as.
LEMMA FixObjectsDef ==
  ASSUME NEW map, NEW start, NEW end
  PROVE  FixingObjects(FixObjects(map, start, end), map, start, end)
<1> DEFINE Nxt(p, n) == [m \in Memories |-> [words \in Words |-> IF n = 0 THEN [mem |-> m, words |-> words] ELSE FixVisits(p, map, start, end, m, words)[Len(words)]]]
           Rec(f, k) == f = [n \in 0 .. k |-> Nxt(f[n - 1], n)]
           T == {k \in Nat : \E f : Rec(f, k)}
<1>0. MaxDepth \in Nat
  BY Areas DEF MaxDepth
<1>a. \A p, q : Nxt(p, 0) = Nxt(q, 0)
  OBVIOUS
<1>1. 0 \in T
  <2> DEFINE g == [n \in 0 .. 0 |-> Nxt(0, 0)]
  <2> HIDE DEF Nxt
  <2>1. \A n \in 0 .. 0 : g[n] = Nxt(g[n - 1], n)
    BY <1>a
  <2>2. Rec(g, 0)
    BY <2>1
  <2> HIDE DEF g, Rec
  <2> QED BY <2>2
<1>2. ASSUME NEW k \in T PROVE k + 1 \in T
  <2>1. PICK f : Rec(f, k)
    OBVIOUS
  <2> DEFINE g == [n \in 0 .. k + 1 |-> IF n <= k THEN f[n] ELSE Nxt(f[k], n)]
  <2> HIDE DEF Nxt
  <2>2. ASSUME NEW n \in 0 .. k + 1
        PROVE  g[n] = Nxt(g[n - 1], n)
    <3>1. CASE n = 0
      <4>1. g[n] = f[n] /\ f[n] = Nxt(f[n - 1], n)
        BY <3>1, <2>1
      <4> QED BY <4>1, <3>1, <1>a
    <3>2. CASE n \in 1 .. k
      <4>1. n \in 0 .. k /\ n - 1 \in 0 .. k /\ n # 0 /\ n - 1 \in 0 .. k + 1
        BY <3>2
      <4>2. g[n] = f[n] /\ g[n - 1] = f[n - 1]
        BY <4>1
      <4>3. f[n] = Nxt(f[n - 1], n)
        BY <2>1, <4>1
      <4> QED BY <4>1, <4>2, <4>3
    <3>3. CASE n = k + 1
      BY <3>3
    <3> QED BY <3>1, <3>2, <3>3
  <2>3. Rec(g, k + 1)
    BY <2>2
  <2> HIDE DEF g, Rec
  <2> QED BY <2>3
<1>3. T = Nat
  <2> HIDE DEF T
  <2>1. T \in SUBSET Nat
    BY DEF T
  <2> QED BY <1>1, <1>2, <2>1, NatSetInduction
<1>4. \E f : Rec(f, MaxDepth)
  <2>1. \A k \in T : \E f : Rec(f, k)
    OBVIOUS
  <2> HIDE DEF T
  <2> QED BY <1>3, <1>0, <2>1
<1>5. FixObjects(map, start, end) = [n \in 0 .. MaxDepth |-> Nxt(FixObjects(map, start, end)[n - 1], n)]
  BY <1>4, <1>0 DEF FixObjects
<1> DEFINE loop == FixObjects(map, start, end)
<1>6. \A n \in 0 .. MaxDepth : loop[n] = Nxt(loop[n - 1], n)
  <2>1. loop = [n \in 0 .. MaxDepth |-> Nxt(loop[n - 1], n)]
    BY <1>5
  <2> HIDE DEF Nxt, loop
  <2> QED BY <2>1, <1>0
<1>7. \A n \in 0 .. MaxDepth : loop[n] = [m \in Memories |-> [words \in Words |-> IF n = 0 THEN [mem |-> m, words |-> words] ELSE FixVisits(loop[n - 1], map, start, end, m, words)[Len(words)]]]
  <2> HIDE DEF loop
  <2> QED BY <1>6
<1> HIDE DEF loop
<1>8. FixingObjects(loop, map, start, end)
  BY <1>7 DEF FixingObjects
<1> QED BY <1>8 DEF loop

FXContext(y) ==
  /\ y.mem \in Memories
  /\ y.start \in Nat /\ y.end \in 0 .. Limit
  /\ y.heads \subseteq y.start .. y.end - 1
  /\ \A p \in y.heads : y.map[p] \in Pages /\ y.mem[y.map[p]].marked /\ Proper(y, y.mem[y.map[p]].fields)
  /\ \A p, q \in y.heads : y.map[p] = y.map[q] => p = q

Images(y) == {y.map[p] : p \in y.heads}
Fixed(y, m) == {p \in y.heads : ~m[y.map[p]].marked}

FXHeap(y, m) ==
  /\ m \in Memories
  /\ \A q \in Pages : /\ m[q].pages = y.mem[q].pages /\ m[q].vmt = y.mem[q].vmt
                      /\ q \notin Images(y) => m[q].marked = y.mem[q].marked
  /\ \A p \in y.heads : p \notin Fixed(y, m) => m[y.map[p]] = y.mem[y.map[p]]

\* new is what becomes of words.
Mapping(y, m, words, new) ==
  \A i \in 1 .. Len(new) :
    IF Within(words[i], y.start, y.end)
    THEN words[i] \in Fixed(y, m) /\ new[i] = y.map[words[i]]
    ELSE new[i] = words[i]

ObjectFixed(y, m, q) ==
  /\ Len(m[q].fields) = Len(y.mem[q].fields)
  /\ Mapping(y, m, y.mem[q].fields, m[q].fields)

\* From l to m more is fixed, with all that it refers to, and nothing else changes.
FXStep(y, l, m) ==
  /\ Fixed(y, l) \subseteq Fixed(y, m)
  /\ \A p \in Fixed(y, l) : m[y.map[p]] = l[y.map[p]]
  /\ \A p \in Fixed(y, m) \ Fixed(y, l) : ObjectFixed(y, m, y.map[p])
  /\ \A q \in Pages : q \notin Images(y) => m[q] = l[q]

FXResult(y, l, words, r) ==
  /\ FXHeap(y, r.mem) /\ FXStep(y, l, r.mem)
  /\ r.words \in Words /\ Len(r.words) = Len(words)
  /\ Mapping(y, r.mem, words, r.words)

FXWorks(y, fix, depth) ==
  \A m \in Memories, words \in Words :
    FXHeap(y, m) /\ Proper(y, words) /\ Count(y.heads \ Fixed(y, m)) < depth
      => FXResult(y, m, words, fix[m][words])

\* What the context says of the objects that were moved.
LEMMA FXFacts ==
  ASSUME NEW y, FXContext(y)
  PROVE  /\ y.heads \subseteq 0 .. Limit - 1
         /\ \A p \in y.heads : p \in Pages /\ y.map[p] \in Pages /\ y.map[p] \in Images(y)
         /\ \A p \in y.heads : y.mem[y.map[p]].fields \in Words /\ Proper(y, y.mem[y.map[p]].fields)
         /\ \A m : Fixed(y, m) \subseteq y.heads
<1>1. y.heads \subseteq 0 .. Limit - 1
  BY Areas DEF FXContext
<1>2. \A p \in y.heads : p \in Pages
  BY <1>1, Areas
<1>3. \A p \in y.heads : y.mem[y.map[p]].fields \in Words
  BY HeaderType DEF FXContext
<1> QED BY <1>1, <1>2, <1>3 DEF FXContext, Images, Fixed

\* Words whose objects are fixed stay so.
LEMMA MappingLater ==
  ASSUME NEW y, NEW l, NEW m, Fixed(y, l) \subseteq Fixed(y, m), NEW words, NEW new, Mapping(y, l, words, new)
  PROVE  Mapping(y, m, words, new)
BY DEF Mapping

\* Nothing is a step.
LEMMA FXStepReflexive ==
  ASSUME NEW y, NEW m
  PROVE  FXStep(y, m, m)
BY DEF FXStep

\* Two steps are a step.
LEMMA FXStepTransitive ==
  ASSUME NEW y, NEW k, NEW l, NEW m, FXStep(y, k, l), FXStep(y, l, m)
  PROVE  FXStep(y, k, m)
<1>1. Fixed(y, k) \subseteq Fixed(y, l) /\ Fixed(y, l) \subseteq Fixed(y, m)
  BY DEF FXStep
<1>2. \A p \in Fixed(y, k) : m[y.map[p]] = k[y.map[p]]
  BY DEF FXStep
<1>3. ASSUME NEW p \in Fixed(y, m) \ Fixed(y, k) PROVE ObjectFixed(y, m, y.map[p])
  <2>1. CASE p \in Fixed(y, l)
    <3>1. ObjectFixed(y, l, y.map[p]) /\ m[y.map[p]] = l[y.map[p]]
      BY <2>1 DEF FXStep
    <3>2. Mapping(y, m, y.mem[y.map[p]].fields, l[y.map[p]].fields)
      BY <3>1, <1>1, MappingLater DEF ObjectFixed
    <3> QED BY <3>1, <3>2 DEF ObjectFixed
  <2>2. CASE p \notin Fixed(y, l)
    BY <2>2 DEF FXStep
  <2> QED BY <2>1, <2>2
<1>4. \A q \in Pages : q \notin Images(y) => m[q] = k[q]
  BY DEF FXStep
<1> QED BY <1>1, <1>2, <1>3, <1>4 DEF FXStep

\* A step leaves no more objects to fix.
LEMMA FXCountShrinks ==
  ASSUME NEW y, NEW l, NEW m, FXContext(y), Fixed(y, l) \subseteq Fixed(y, m)
  PROVE  /\ Count(y.heads \ Fixed(y, m)) <= Count(y.heads \ Fixed(y, l))
         /\ Count(y.heads \ Fixed(y, m)) \in Nat /\ Count(y.heads \ Fixed(y, l)) \in Nat
<1> DEFINE S == y.heads \ Fixed(y, l)
           R == y.heads \ Fixed(y, m)
<1>1. S \subseteq 0 .. Limit - 1 /\ R \in SUBSET S
  BY FXFacts
<1> HIDE DEF S, R
<1>2. Count(R) <= Count(S) /\ Count(R) \in Nat /\ Count(S) \in Nat
  BY <1>1, CountFacts
<1> QED BY <1>2 DEF S, R

\* A mark is cleared.
Unmark(m, q) == [m EXCEPT ![q].marked = FALSE]

\* The memory after a mark was cleared.
LEMMA UnmarkMemory ==
  ASSUME NEW m \in Memories, NEW q \in Pages
  PROVE  /\ Unmark(m, q) \in Memories
         /\ Unmark(m, q)[q].pages = m[q].pages /\ Unmark(m, q)[q].vmt = m[q].vmt
         /\ Unmark(m, q)[q].fields = m[q].fields /\ Unmark(m, q)[q].marked = FALSE
         /\ \A p \in Pages : p # q => Unmark(m, q)[p] = m[p]
<1> DEFINE b == [m[q] EXCEPT !.marked = FALSE]
           n == Unmark(m, q)
<1>1. m[q] \in Headers
  BY DEF Memories
<1>2. b \in Headers /\ b.pages = m[q].pages /\ b.marked = FALSE /\ b.vmt = m[q].vmt /\ b.fields = m[q].fields
  BY <1>1 DEF Headers
<1>3. n = [p \in Pages |-> IF p = q THEN b ELSE m[p]]
  BY DEF Memories, Unmark
<1> HIDE DEF n, b
<1>4. n \in Memories
  BY <1>2, <1>3 DEF Memories
<1>5. n[q] = b /\ \A p \in Pages : p # q => n[p] = m[p]
  BY <1>3
<1> QED BY <1>2, <1>4, <1>5 DEF n

\* The mark of the object w is cleared.
Unmarked(y, m, w, n) ==
  /\ FXHeap(y, n) /\ Fixed(y, n) = Fixed(y, m) \cup {w}
  /\ Count(y.heads \ Fixed(y, n)) < Count(y.heads \ Fixed(y, m))
  /\ \A q \in Pages : q # y.map[w] => n[q] = m[q]

\* Clearing the mark of an object leaves fewer to fix.
LEMMA Unmarks ==
  ASSUME NEW y, NEW m, NEW w, FXContext(y), FXHeap(y, m), w \in y.heads, w \notin Fixed(y, m)
  PROVE  Unmarked(y, m, w, Unmark(m, y.map[w]))
<1> DEFINE v == y.map[w]
           n == Unmark(m, v)
<1>1. v \in Pages /\ m \in Memories /\ v \in Images(y)
  BY FXFacts DEF FXHeap
<1>2. \A p \in y.heads : p # w => y.map[p] # v
  BY DEF FXContext
<1> HIDE DEF v
<1>3. /\ n \in Memories
      /\ n[v].pages = m[v].pages /\ n[v].vmt = m[v].vmt
      /\ n[v].fields = m[v].fields /\ n[v].marked = FALSE
      /\ \A p \in Pages : p # v => n[p] = m[p]
  BY <1>1, UnmarkMemory
<1> HIDE DEF n
<1>4. \A p \in y.heads : p # w => n[y.map[p]] = m[y.map[p]]
  BY <1>2, <1>3, FXFacts
<1>5. Fixed(y, n) = Fixed(y, m) \cup {w}
  BY <1>3, <1>4 DEF Fixed, v
<1>6. FXHeap(y, n)
  <2>1. ASSUME NEW q \in Pages
        PROVE  /\ n[q].pages = y.mem[q].pages /\ n[q].vmt = y.mem[q].vmt
               /\ q \notin Images(y) => n[q].marked = y.mem[q].marked
    BY <1>1, <1>3 DEF FXHeap
  <2>2. ASSUME NEW p \in y.heads, p \notin Fixed(y, n) PROVE n[y.map[p]] = y.mem[y.map[p]]
    BY <2>2, <1>4, <1>5 DEF FXHeap
  <2> QED BY <2>1, <2>2, <1>3 DEF FXHeap
<1>7. Count(y.heads \ Fixed(y, n)) < Count(y.heads \ Fixed(y, m))
  <2> DEFINE S == y.heads \ Fixed(y, m)
  <2>1. S \subseteq 0 .. Limit - 1 /\ w \in S
    BY FXFacts
  <2>2. y.heads \ Fixed(y, n) = S \ {w}
    BY <1>5
  <2> HIDE DEF S
  <2>3. Count(S \ {w}) < Count(S)
    BY <2>1, CountFacts
  <2> QED BY <2>2, <2>3 DEF S
<1>8. Unmarked(y, m, w, n)
  BY <1>3, <1>5, <1>6, <1>7 DEF Unmarked, v
<1> QED BY <1>8 DEF n, v

\* n is m but for the fields at q.
Refielded(m, q, new, n) ==
  /\ n \in Memories
  /\ n[q].pages = m[q].pages /\ n[q].marked = m[q].marked /\ n[q].vmt = m[q].vmt
  /\ n[q].fields = new
  /\ \A p \in Pages : p # q => n[p] = m[p]

\* The memory after the fields of an object were replaced.
LEMMA Refields ==
  ASSUME NEW m \in Memories, NEW q \in Pages, NEW new \in Words
  PROVE  Refielded(m, q, new, Written(m, q, new))
<1> DEFINE n == Written(m, q, new)
<1>1. /\ n \in Memories
      /\ n[q].pages = m[q].pages /\ n[q].marked = m[q].marked /\ n[q].vmt = m[q].vmt
      /\ n[q].fields = new
      /\ \A p \in Pages : p # q => n[p] = m[p]
  BY FieldsMemory
<1> HIDE DEF n
<1>2. Refielded(m, q, new, n)
  BY <1>1 DEF Refielded
<1> QED BY <1>2 DEF n

\* Writing the fields of a fixed object, or of none, disturbs nothing else.
LEMMA FixedWritten ==
  ASSUME NEW y, NEW m, NEW q \in Pages, NEW new, NEW n, FXContext(y), FXHeap(y, m), Refielded(m, q, new, n),
         \A p \in y.heads : y.map[p] = q => p \in Fixed(y, m)
  PROVE  FXHeap(y, n) /\ Fixed(y, n) = Fixed(y, m)
<1>1. /\ n \in Memories
      /\ n[q].pages = m[q].pages /\ n[q].marked = m[q].marked /\ n[q].vmt = m[q].vmt
      /\ \A p \in Pages : p # q => n[p] = m[p]
  BY DEF Refielded
<1>2. \A p \in Pages : n[p].pages = m[p].pages /\ n[p].marked = m[p].marked /\ n[p].vmt = m[p].vmt
  BY <1>1
<1>3. \A p \in y.heads : y.map[p] \in Pages
  BY FXFacts
<1>4. Fixed(y, n) = Fixed(y, m)
  BY <1>2, <1>3 DEF Fixed
<1>5. \A p \in y.heads : p \notin Fixed(y, n) => n[y.map[p]] = y.mem[y.map[p]]
  <2> SUFFICES ASSUME NEW p \in y.heads, p \notin Fixed(y, n) PROVE n[y.map[p]] = y.mem[y.map[p]]
    OBVIOUS
  <2>1. y.map[p] # q /\ y.map[p] \in Pages
    BY <1>3, <1>4
  <2> QED BY <2>1, <1>1, <1>4 DEF FXHeap
<1>6. FXHeap(y, n)
  BY <1>1, <1>2, <1>5 DEF FXHeap
<1> QED BY <1>4, <1>6

-----------------------------------------------------------------------------
(* One word, a list of words, and all depths.                              *)

\* The object w is entered, and its fields are written.
FXEntered(y, fix, m, w) ==
  Written(fix[Unmark(m, y.map[w])][m[y.map[w]].fields].mem, y.map[w],
          fix[Unmark(m, y.map[w])][m[y.map[w]].fields].words)

EnteredFixed(y, m, w, k) == FXHeap(y, k) /\ FXStep(y, m, k) /\ w \in Fixed(y, k)

\* An object that is entered is fixed, with what it refers to.
LEMMA FXEnters ==
  ASSUME NEW y, NEW fix, NEW depth \in Nat, NEW m, NEW w,
         FXContext(y), FXWorks(y, fix, depth), FXHeap(y, m), Count(y.heads \ Fixed(y, m)) < depth + 1,
         w \in y.heads, w \notin Fixed(y, m)
  PROVE  EnteredFixed(y, m, w, FXEntered(y, fix, m, w))
<1> DEFINE v == y.map[w]
           n == Unmark(m, v)
           f == y.mem[v].fields
           r == fix[n][f]
           g == r.mem
           k == Written(g, v, r.words)
<1>1. Unmarked(y, m, w, n)
  BY Unmarks
<1> HIDE DEF n
<1>2. /\ FXHeap(y, n) /\ Fixed(y, n) = Fixed(y, m) \cup {w}
      /\ Count(y.heads \ Fixed(y, n)) < Count(y.heads \ Fixed(y, m))
      /\ \A q \in Pages : q # v => n[q] = m[q]
  BY <1>1 DEF Unmarked
<1>3. f \in Words /\ Proper(y, f) /\ m[v].fields = f /\ v \in Pages /\ v \in Images(y)
      /\ \A p \in y.heads : p # w => y.map[p] # v
  BY FXFacts DEF FXHeap, FXContext
<1> HIDE DEF f
<1>4. n \in Memories /\ Count(y.heads \ Fixed(y, n)) < depth
  <2>1. Count(y.heads \ Fixed(y, n)) \in Nat /\ Count(y.heads \ Fixed(y, m)) \in Nat
    BY <1>2, FXCountShrinks
  <2> QED BY <2>1, <1>2 DEF FXHeap
<1>5. FXResult(y, n, f, r)
  BY <1>2, <1>3, <1>4 DEF FXWorks
<1> HIDE DEF r
<1>6. FXHeap(y, g) /\ FXStep(y, n, g) /\ r.words \in Words /\ Len(r.words) = Len(f) /\ Mapping(y, g, f, r.words)
  BY <1>5 DEF FXResult
<1>7. Refielded(g, v, r.words, k)
  <2> DEFINE new == r.words
  <2>1. g \in Memories /\ new \in Words /\ v \in Pages
    BY <1>3, <1>6 DEF FXHeap
  <2> HIDE DEF new, g, v
  <2>2. Refielded(g, v, new, Written(g, v, new))
    BY <2>1, Refields
  <2> QED BY <2>2 DEF new
<1> HIDE DEF g, k
<1>8. w \in Fixed(y, g) /\ Fixed(y, m) \subseteq Fixed(y, g) /\ Fixed(y, n) \subseteq Fixed(y, g)
  BY <1>2, <1>6 DEF FXStep
<1>9. FXHeap(y, k) /\ Fixed(y, k) = Fixed(y, g)
  <2>1. \A p \in y.heads : y.map[p] = v => p \in Fixed(y, g)
    BY <1>3, <1>8
  <2> HIDE DEF v
  <2> QED BY <2>1, <1>3, <1>6, <1>7, FixedWritten
<1>10. k[v].fields = r.words /\ \A p \in Pages : p # v => k[p] = g[p]
  BY <1>7 DEF Refielded
<1>11. FXStep(y, m, k)
  <2>1. Fixed(y, m) \subseteq Fixed(y, k)
    BY <1>8, <1>9
  <2>2. ASSUME NEW p \in Fixed(y, m) PROVE k[y.map[p]] = m[y.map[p]]
    <3>1. p # w /\ p \in y.heads /\ y.map[p] \in Pages /\ y.map[p] # v
      BY <1>3, FXFacts
    <3>2. g[y.map[p]] = n[y.map[p]]
      BY <1>2, <1>6 DEF FXStep
    <3> QED BY <3>1, <3>2, <1>2, <1>10
  <2>3. ASSUME NEW p \in Fixed(y, k) \ Fixed(y, m) PROVE ObjectFixed(y, k, y.map[p])
    <3>1. CASE p = w
      <4>1. Mapping(y, k, f, r.words)
        BY <1>6, <1>9, MappingLater
      <4> QED BY <4>1, <3>1, <1>6, <1>10 DEF ObjectFixed, f
    <3>2. CASE p # w
      <4>1. p \in Fixed(y, g) \ Fixed(y, n)
        BY <3>2, <2>3, <1>2, <1>9
      <4>2. ObjectFixed(y, g, y.map[p])
        BY <4>1, <1>6 DEF FXStep
      <4>3. y.map[p] # v /\ y.map[p] \in Pages
        BY <3>2, <4>1, <1>3, FXFacts
      <4>4. k[y.map[p]] = g[y.map[p]]
        BY <4>3, <1>10
      <4>5. Mapping(y, k, y.mem[y.map[p]].fields, g[y.map[p]].fields)
        BY <4>2, <1>9, MappingLater DEF ObjectFixed
      <4> QED BY <4>2, <4>4, <4>5 DEF ObjectFixed
    <3> QED BY <3>1, <3>2
  <2>4. ASSUME NEW q \in Pages, q \notin Images(y) PROVE k[q] = m[q]
    <3>1. q # v
      BY <2>4, <1>3
    <3>2. g[q] = n[q]
      BY <2>4, <1>6 DEF FXStep
    <3> QED BY <3>1, <3>2, <1>2, <1>10
  <2> QED BY <2>1, <2>2, <2>3, <2>4 DEF FXStep
<1>12. EnteredFixed(y, m, w, k)
  BY <1>8, <1>9, <1>11 DEF EnteredFixed
<1>13. k = FXEntered(y, fix, m, w)
  BY <1>3 DEF FXEntered, k, g, r, n
<1> QED BY <1>12, <1>13

\* What n of the words have become.
FXPassed(y, l, words, n, acc) ==
  /\ FXHeap(y, acc.mem) /\ FXStep(y, l, acc.mem)
  /\ acc.words \in Words /\ Len(acc.words) = n
  /\ Mapping(y, acc.mem, words, acc.words)

\* One more word that is replaced by the new address.
LEMMA FXAppended ==
  ASSUME NEW y, NEW l, NEW words, NEW n \in Nat, NEW m, NEW old \in Words, NEW word \in Pages \cup {Nil},
         FXHeap(y, m), FXStep(y, l, m), Len(old) = n, Mapping(y, m, words, old),
         IF Within(words[n + 1], y.start, y.end)
         THEN words[n + 1] \in Fixed(y, m) /\ word = y.map[words[n + 1]]
         ELSE word = words[n + 1]
  PROVE  FXPassed(y, l, words, n + 1, [mem |-> m, words |-> Append(old, word)])
<1> DEFINE new == Append(old, word)
           acc == [mem |-> m, words |-> new]
<1>1. new \in Words /\ Len(new) = n + 1
  BY DEF Words
<1>2. \A i \in 1 .. n : new[i] = old[i]
  BY DEF Words
<1>3. new[n + 1] = word
  BY DEF Words
<1>4. acc.mem = m /\ acc.words = new
  OBVIOUS
<1> HIDE DEF new, acc
<1>5. ASSUME NEW i \in 1 .. Len(new)
      PROVE  IF Within(words[i], y.start, y.end)
             THEN words[i] \in Fixed(y, m) /\ new[i] = y.map[words[i]]
             ELSE new[i] = words[i]
  <2>1. i \in 1 .. n \/ i = n + 1
    BY <1>1
  <2>2. CASE i \in 1 .. n
    BY <2>2, <1>2 DEF Mapping
  <2>3. CASE i = n + 1
    BY <2>3, <1>3
  <2> QED BY <2>1, <2>2, <2>3
<1>6. Mapping(y, m, words, new)
  BY <1>5 DEF Mapping
<1>7. FXPassed(y, l, words, n + 1, acc)
  BY <1>1, <1>4, <1>6 DEF FXPassed
<1> QED BY <1>7 DEF acc, new

\* Visiting one more word passes it.
LEMMA FXVisits ==
  ASSUME NEW y, NEW fix, NEW depth \in Nat, NEW l, NEW words \in Words, NEW n \in Nat, NEW acc,
         n < Len(words), FXContext(y), FXWorks(y, fix, depth), Count(y.heads \ Fixed(y, l)) < depth + 1,
         Proper(y, words), FXPassed(y, l, words, n, acc)
  PROVE  FXPassed(y, l, words, n + 1, FixVisit(fix, y.map, y.start, y.end, acc, words[n + 1]))
<1> DEFINE m == acc.mem
           old == acc.words
           w == words[n + 1]
           new == FixVisit(fix, y.map, y.start, y.end, acc, w)
<1>1. /\ FXHeap(y, m) /\ FXStep(y, l, m) /\ old \in Words /\ Len(old) = n /\ Mapping(y, m, words, old)
  BY DEF FXPassed
<1>2. Count(y.heads \ Fixed(y, m)) < depth + 1
  <2>1. Count(y.heads \ Fixed(y, m)) <= Count(y.heads \ Fixed(y, l))
        /\ Count(y.heads \ Fixed(y, m)) \in Nat /\ Count(y.heads \ Fixed(y, l)) \in Nat
    BY <1>1, FXCountShrinks DEF FXStep
  <2> QED BY <2>1
<1>3. w \in Pages \cup {Nil} /\ n + 1 \in 1 .. Len(words)
  BY ElementOfSeq, LenProperties DEF Words
<1>4. Within(w, y.start, y.end) => w \in y.heads
  BY <1>3 DEF Proper
<1>5. CASE ~Within(w, y.start, y.end)
  <2>1. new = [mem |-> m, words |-> Append(old, w)]
    BY <1>5 DEF FixVisit
  <2> HIDE DEF m, old, new
  <2>2. FXPassed(y, l, words, n + 1, [mem |-> m, words |-> Append(old, w)])
    BY <1>1, <1>3, <1>5, FXAppended
  <2> QED BY <2>1, <2>2 DEF new
<1> DEFINE v == y.map[w]
<1>6. CASE Within(w, y.start, y.end) /\ ~m[v].marked
  <2>1. new = [mem |-> m, words |-> Append(old, v)]
    BY <1>6 DEF FixVisit
  <2>2. w \in Fixed(y, m) /\ v \in Pages \cup {Nil}
    BY <1>4, <1>6, FXFacts DEF Fixed
  <2>3. v = y.map[words[n + 1]]
    OBVIOUS
  <2> HIDE DEF m, old, new, v
  <2>4. FXPassed(y, l, words, n + 1, [mem |-> m, words |-> Append(old, v)])
    BY <1>1, <1>6, <2>2, <2>3, FXAppended
  <2> QED BY <2>1, <2>4 DEF new
<1>7. CASE Within(w, y.start, y.end) /\ m[v].marked
  <2> DEFINE k == FXEntered(y, fix, m, w)
  <2>1. new = [mem |-> k, words |-> Append(old, v)]
    BY <1>7 DEF FixVisit, FXEntered, Unmark, Written
  <2>2. w \in y.heads /\ w \notin Fixed(y, m) /\ v \in Pages \cup {Nil}
    BY <1>4, <1>7, FXFacts DEF Fixed
  <2>3. v = y.map[words[n + 1]]
    OBVIOUS
  <2>4. EnteredFixed(y, m, w, k)
    <3> HIDE DEF m, w
    <3> QED BY <1>1, <1>2, <2>2, FXEnters
  <2> HIDE DEF k
  <2>5. FXHeap(y, k) /\ FXStep(y, m, k) /\ w \in Fixed(y, k)
    BY <2>4 DEF EnteredFixed
  <2>6. FXStep(y, l, k)
    BY <2>5, <1>1, FXStepTransitive
  <2>7. Mapping(y, k, words, old)
    BY <2>5, <1>1, MappingLater DEF FXStep
  <2> HIDE DEF m, old, new, v
  <2>8. FXPassed(y, l, words, n + 1, [mem |-> k, words |-> Append(old, v)])
    BY <1>1, <1>7, <2>2, <2>3, <2>5, <2>6, <2>7, FXAppended
  <2> QED BY <2>1, <2>8 DEF new
<1> QED BY <1>5, <1>6, <1>7

\* Visiting all the words fixes them.
LEMMA FXVisitsAll ==
  ASSUME NEW y, NEW fix, NEW depth \in Nat, NEW l, NEW words \in Words,
         FXContext(y), FXWorks(y, fix, depth), FXHeap(y, l), Count(y.heads \ Fixed(y, l)) < depth + 1,
         Proper(y, words)
  PROVE  FXResult(y, l, words, FixVisits(fix, y.map, y.start, y.end, l, words)[Len(words)])
<1> DEFINE visit == FixVisits(fix, y.map, y.start, y.end, l, words)
           T == {n \in Nat : FXPassed(y, l, words, n, visit[n])}
<1>1. Len(words) \in Nat
  BY LenProperties DEF Words
<1>2. FixVisiting(visit, fix, y.map, y.start, y.end, l, words)
  BY <1>1, FixVisitsDef
<1> HIDE DEF visit
<1>3. visit[0] = [mem |-> l, words |-> <<>>]
      /\ \A n \in 1 .. Len(words) : visit[n] = FixVisit(fix, y.map, y.start, y.end, visit[n - 1], words[n])
  BY <1>2 DEF FixVisiting
<1>4. 0 \in T
  <2>1. <<>> \in Words /\ Len(<<>>) = 0 /\ Mapping(y, l, words, <<>>) /\ FXStep(y, l, l)
    BY FXStepReflexive DEF Words, Mapping
  <2> QED BY <1>3, <2>1 DEF FXPassed
<1>5. ASSUME NEW n \in 0 .. Len(words) - 1, n \in T PROVE n + 1 \in T
  <2>1. n \in Nat /\ n < Len(words) /\ FXPassed(y, l, words, n, visit[n])
    BY <1>1, <1>5
  <2>2. FXPassed(y, l, words, n + 1, FixVisit(fix, y.map, y.start, y.end, visit[n], words[n + 1]))
    BY <2>1, FXVisits
  <2>3. n + 1 \in 1 .. Len(words) /\ (n + 1) - 1 = n
    BY <2>1, <1>1
  <2>4. visit[n + 1] = FixVisit(fix, y.map, y.start, y.end, visit[n], words[n + 1])
    BY <2>3, <1>3
  <2> QED BY <2>1, <2>2, <2>4
<1>6. Len(words) \in T
  <2> HIDE DEF T
  <2>1. \A n \in 0 .. Len(words) : n \in T
    BY <1>1, <1>4, <1>5, UpTo
  <2> QED BY <2>1, <1>1
<1>7. FXPassed(y, l, words, Len(words), visit[Len(words)])
  BY <1>6
<1>8. FXResult(y, l, words, visit[Len(words)])
  BY <1>7 DEF FXPassed, FXResult
<1> QED BY <1>8 DEF visit

\* FixObject works at every depth that the objects left to fix allow.
LEMMA FXDepths ==
  ASSUME NEW y, FXContext(y)
  PROVE  \A depth \in 0 .. MaxDepth : FXWorks(y, FixObjects(y.map, y.start, y.end)[depth], depth)
<1> DEFINE fix == FixObjects(y.map, y.start, y.end)
           T == {n \in Nat : FXWorks(y, fix[n], n)}
<1>0. MaxDepth \in Nat
  BY Areas DEF MaxDepth
<1>1. FixingObjects(fix, y.map, y.start, y.end)
  BY FixObjectsDef
<1> HIDE DEF fix
<1>2. \A n \in 0 .. MaxDepth : fix[n] =
        [m \in Memories |-> [words \in Words |->
           IF n = 0 THEN [mem |-> m, words |-> words]
           ELSE FixVisits(fix[n - 1], y.map, y.start, y.end, m, words)[Len(words)]]]
  BY <1>1 DEF FixingObjects
<1>2a. ASSUME NEW n \in 0 .. MaxDepth, n # 0, NEW m \in Memories, NEW words \in Words
       PROVE  fix[n][m][words] = FixVisits(fix[n - 1], y.map, y.start, y.end, m, words)[Len(words)]
  <2> DEFINE R(g, w) == FixVisits(fix[n - 1], y.map, y.start, y.end, g, w)[Len(w)]
  <2>1. fix[n] = [g \in Memories |-> [w \in Words |-> IF n = 0 THEN [mem |-> g, words |-> w] ELSE R(g, w)]]
    BY <1>2, <1>2a
  <2> HIDE DEF R
  <2>2. fix[n] = [g \in Memories |-> [w \in Words |-> R(g, w)]]
    BY <1>2a, <2>1
  <2>3. fix[n][m][words] = R(m, words)
    BY <2>2, <1>2a
  <2> QED BY <2>3 DEF R
<1>3. 0 \in T
  <2>1. \A m : Count(y.heads \ Fixed(y, m)) \in Nat
    BY FXCountShrinks
  <2> QED BY <2>1 DEF FXWorks
<1>4. ASSUME NEW n \in 0 .. MaxDepth - 1, n \in T PROVE n + 1 \in T
  <2>1. n \in Nat /\ n + 1 \in 0 .. MaxDepth /\ (n + 1) - 1 = n /\ n + 1 # 0 /\ FXWorks(y, fix[n], n)
    BY <1>0, <1>4
  <2>2. ASSUME NEW m \in Memories, NEW words \in Words, FXHeap(y, m), Proper(y, words),
               Count(y.heads \ Fixed(y, m)) < n + 1
        PROVE  FXResult(y, m, words, fix[n + 1][m][words])
    <3>1. FXResult(y, m, words, FixVisits(fix[n], y.map, y.start, y.end, m, words)[Len(words)])
      BY <2>1, <2>2, FXVisitsAll
    <3>2. fix[n + 1][m][words] = FixVisits(fix[n], y.map, y.start, y.end, m, words)[Len(words)]
      <4> DEFINE k == n + 1
      <4>1. k \in 0 .. MaxDepth /\ k # 0 /\ k - 1 = n
        BY <2>1
      <4> HIDE DEF k
      <4>2. fix[k][m][words] = FixVisits(fix[k - 1], y.map, y.start, y.end, m, words)[Len(words)]
        BY <4>1, <2>2, <1>2a
      <4> QED BY <4>1, <4>2 DEF k
    <3> QED BY <3>1, <3>2
  <2>3. FXWorks(y, fix[n + 1], n + 1)
    BY <2>2 DEF FXWorks
  <2> QED BY <2>1, <2>3
<1>5. \A n \in 0 .. MaxDepth : n \in T
  <2> HIDE DEF T
  <2> QED BY <1>0, <1>3, <1>4, UpTo
<1> QED BY <1>5 DEF fix

\* FixObject replaces the words by the new addresses and fixes what they reach.
LEMMA FixObjectWorks ==
  ASSUME NEW y, NEW t, NEW m, NEW words \in Words, FXContext(y), FXHeap(y, m), Proper(y, words),
         y.start = t.gc_yg_start, y.end = t.gc_mg_current
  PROVE  FXResult(y, m, words, FixObject(t, y.map, m, words))
<1>1. MaxDepth \in 0 .. MaxDepth /\ MaxDepth = Limit + 1 /\ Limit \in Nat
  BY Areas DEF MaxDepth
<1>2. FXWorks(y, FixObjects(y.map, y.start, y.end)[MaxDepth], MaxDepth)
  BY <1>1, FXDepths
<1>3. Count(y.heads \ Fixed(y, m)) < MaxDepth
  <2>1. y.heads \ Fixed(y, m) \subseteq 0 .. Limit - 1
    BY FXFacts
  <2>2. Count(y.heads \ Fixed(y, m)) \in Nat /\ Count(y.heads \ Fixed(y, m)) <= Limit
    BY <2>1, CountFacts
  <2> QED BY <2>2, <1>1
<1>4. m \in Memories
  BY DEF FXHeap
<1>5. FXResult(y, m, words, FixObjects(y.map, y.start, y.end)[MaxDepth][m][words])
  BY <1>2, <1>3, <1>4 DEF FXWorks
<1> QED BY <1>5 DEF FixObject

-----------------------------------------------------------------------------
(* Fixing what the compaction of a state s has moved.                      *)

\* K are the objects that have been marked.
FixContext(s, K, c) ==
  [mem |-> c.mem, start |-> s.table.gc_yg_start, end |-> s.table.gc_mg_current, heads |-> K, map |-> c.map]

\* The context of fixing.
LEMMA FixContextFields ==
  ASSUME NEW s, NEW K, NEW c, NEW y, y = FixContext(s, K, c)
  PROVE  /\ y.mem = c.mem /\ y.start = s.table.gc_yg_start /\ y.end = s.table.gc_mg_current
         /\ y.heads = K /\ y.map = c.map
BY DEF FixContext

\* The state s has been marked, giving m, and compacted, giving c.
Promoted(s, x, m, c) ==
  /\ HeapOK(s) /\ Placed(s)
  /\ x = MarkContext(s) /\ MGContext(x) /\ AllMarked(s, x, m)
  /\ Packed(s.table, m, MatureHeads(s), YoungHeads(s), c)
  /\ c.new <= Limit

\* A heap that has been marked has the context the compaction needs.
LEMMA MarkedContext ==
  ASSUME NEW s, HeapOK(s), NEW x, x = MarkContext(s), NEW m, AllMarked(s, x, m)
  PROVE  CompactContext(s.table, m, MatureHeads(s), YoungHeads(s))
<1> DEFINE t == s.table
<1>1. /\ x.mem = s.mem /\ x.heads = Cells(s) \ PermHeads(s)
  BY MarkContextFields
<1>2. MGHeap(x, m)
  BY DEF AllMarked
<1>3. TableOK(t) /\ Covered(s) /\ Rest(s) /\ Typed(s)
  BY DEF HeapOK
<1>4. Placed(s)
  BY <1>3, CellsPlaced
<1>5. m \in Memories /\ \A p \in Pages : m[p].pages = s.mem[p].pages
  BY <1>1, <1>2 DEF MGHeap
<1>6. Tiled(m, MatureHeads(s), t.gc_mg_start, t.gc_mg_current)
  <2>1. \A p \in MatureHeads(s) : m[p].pages = s.mem[p].pages
    BY <1>4, <1>5 DEF Placed
  <2> QED BY <2>1, <1>3, TiledAgree DEF Covered
<1>7. Tiled(m, YoungHeads(s), t.gc_yg_start, t.gc_yg_current)
  <2>1. \A p \in YoungHeads(s) : m[p].pages = s.mem[p].pages
    BY <1>4, <1>5 DEF Placed
  <2> QED BY <2>1, <1>3, TiledAgree DEF Covered
<1>8. ASSUME NEW p \in Pages, m[p].marked, 2 * YGSize <= p PROVE p < Limit /\ p + m[p].pages <= Limit
  <2>1. CASE p \in Marked(x, m)
    <3>1. p \in Cells(s) /\ p \notin PermHeads(s)
      BY <2>1, <1>1 DEF Marked
    <3>2. p \notin YoungHeads(s)
      <4>1. \A q \in YoungHeads(s) : q \in Nat /\ q < t.gc_yg_current
        BY <1>4 DEF Placed
      <4>2. t.gc_yg_current \in Nat /\ t.gc_yg_current <= 2 * YGSize
        BY <1>3, TableFacts, Areas
      <4> QED BY <4>1, <4>2, <1>8, Areas
    <3>3. p \in MatureHeads(s)
      BY <3>1, <3>2, <1>4 DEF Placed
    <3>4. p < t.gc_mg_current /\ p + m[p].pages \in MatureHeads(s) \cup {t.gc_mg_current} /\ p \in Nat
          /\ \A q \in MatureHeads(s) : q \in Nat /\ q < t.gc_mg_current
      BY <3>3, <1>4, <1>6 DEF Placed, Tiled
    <3>5. t.gc_mg_current \in Nat /\ t.gc_mg_current <= Limit /\ Limit \in Nat
      BY <1>3, TableFacts, Areas
    <3> QED BY <3>4, <3>5
  <2>2. CASE p \notin Marked(x, m)
    <3>1. m[p] = s.mem[p]
      BY <2>2, <1>1, <1>2 DEF MGHeap
    <3>2. p \in 2 * YGSize .. Limit - 1 /\ p + s.mem[p].pages <= Limit
      BY <3>1, <1>3, <1>8 DEF Rest
    <3> QED BY <3>1, <3>2, Areas
  <2> QED BY <2>1, <2>2
<1> QED BY <1>3, <1>5, <1>6, <1>7, <1>8 DEF CompactContext

\* What has been marked has been moved as it was.
LEMMA PromotedObjects ==
  ASSUME NEW s, NEW x, NEW m, NEW c, Promoted(s, x, m, c), NEW p \in Marked(x, m)
  PROVE  /\ p \in Pages /\ p \in Cells(s) /\ p \notin PermHeads(s) /\ p \in Mapped(c)
         /\ c.map[p] \in 2 * YGSize .. c.new - 1 /\ c.map[p] \in Pages /\ c.map[p] \in Targets(c)
         /\ c.mem[c.map[p]].pages = s.mem[p].pages /\ c.mem[c.map[p]].vmt = s.mem[p].vmt
         /\ c.mem[c.map[p]].fields = s.mem[p].fields /\ c.mem[c.map[p]].marked
         /\ InTo(x, s.mem[p].fields, Marked(x, m))
<1>1. x.mem = s.mem /\ x.heads = Cells(s) \ PermHeads(s)
  BY MarkContextFields DEF Promoted
<1>2. p \in Cells(s) /\ p \notin PermHeads(s) /\ m[p].marked
  BY <1>1 DEF Marked
<1>3. p \in Pages /\ p \in Nat /\ (p \in MatureHeads(s) \/ p \in YoungHeads(s))
  BY <1>2, Areas DEF Promoted, Placed
<1>4. Compacted(m, c) /\ p \in Mapped(c)
  BY <1>2, <1>3 DEF Promoted, Packed
<1>5. m[p].pages = s.mem[p].pages /\ m[p].vmt = s.mem[p].vmt /\ m[p].fields = s.mem[p].fields /\ m \in Memories
  BY <1>1, <1>3 DEF Promoted, AllMarked, MGHeap
<1>6. c.map[p] \in 2 * YGSize .. c.new - 1 /\ c.map[p] \in Targets(c)
  BY <1>4 DEF Compacted, Tiled, Targets
<1>7. c.map[p] \in Pages
  BY <1>4 DEF Mapped, Compacted, Compactions
<1>8. c.mem[c.map[p]] = m[p]
  <2> DEFINE v == c.map[p]
  <2>1. 0 \in 0 .. m[p].pages - 1
    BY <1>3, <1>5, HeaderType
  <2>2. v + 0 = v /\ p + 0 = p
    <3>1. v \in Nat
      BY <1>7, Areas
    <3> HIDE DEF v
    <3> QED BY <3>1, <1>3
  <2>3. c.mem[v + 0] = m[p + 0]
    BY <2>1, <1>4 DEF Compacted
  <2> QED BY <2>2, <2>3
<1>9. InTo(x, s.mem[p].fields, Marked(x, m))
  BY <1>1 DEF Promoted, AllMarked, Complying
<1> QED BY <1>2, <1>3, <1>4, <1>5, <1>6, <1>7, <1>8, <1>9

\* What has not been moved over is as it was.
LEMMA PromotedRest ==
  ASSUME NEW s, NEW x, NEW m, NEW c, Promoted(s, x, m, c)
  PROVE  /\ \A p \in PermHeads(s) : /\ p \in Pages /\ p \in Nat /\ p \notin Images(FixContext(s, Marked(x, m), c))
                                    /\ c.mem[p] = s.mem[p]
         /\ \A p \in Pages : Limit <= p => c.mem[p] = s.mem[p]
         /\ c.mem \in Memories
<1>1. x.mem = s.mem /\ x.heads = Cells(s) \ PermHeads(s)
  BY MarkContextFields DEF Promoted
<1>2. Compacted(m, c) /\ MGHeap(x, m) /\ TableOK(s.table)
  BY DEF Promoted, Packed, AllMarked, HeapOK
<1>3. \A p \in PermHeads(s) : p \in Pages /\ p \in Nat /\ PermStart <= p
  BY DEF Promoted, Placed
<1>4. ASSUME NEW p \in Pages, Limit <= p PROVE c.mem[p] = s.mem[p]
  <2>1. p \notin 2 * YGSize .. c.new - 1
    BY <1>4, Areas DEF Promoted, Packed, Compacted, Compactions
  <2>2. c.mem[p] = m[p]
    BY <2>1, <1>2 DEF Compacted
  <2>3. \A q \in x.heads : q < Limit
    BY Areas DEF Promoted, MGContext
  <2>4. p \notin Marked(x, m)
    BY <2>3, <1>4, Areas DEF Marked
  <2> QED BY <2>2, <2>4, <1>1, <1>2 DEF MGHeap
<1>5. ASSUME NEW p \in PermHeads(s) PROVE Limit <= p /\ p \notin Images(FixContext(s, Marked(x, m), c))
  <2>1. Limit <= p
    BY <1>3, Areas
  <2> DEFINE y == FixContext(s, Marked(x, m), c)
  <2>2. y.heads = Marked(x, m) /\ y.map = c.map
    BY FixContextFields
  <2> HIDE DEF y
  <2>3. \A q \in Marked(x, m) : c.map[q] # p
    <3> SUFFICES ASSUME NEW q \in Marked(x, m) PROVE c.map[q] # p
      OBVIOUS
    <3>1. c.map[q] \in 2 * YGSize .. c.new - 1 /\ c.new <= Limit /\ c.new \in Nat
      BY PromotedObjects DEF Promoted, Packed, Compacted, Compactions
    <3> QED BY <3>1, <2>1, <1>3, Areas
  <2>4. p \notin Images(y)
    BY <2>2, <2>3 DEF Images
  <2> QED BY <2>1, <2>4 DEF y
<1>6. c.mem \in Memories
  BY <1>2 DEF Compacted, Compactions
<1> QED BY <1>3, <1>4, <1>5, <1>6

\* After the promotion the roots and the permanent objects have words that may
\* be fixed.
LEMMA FixProper ==
  ASSUME NEW s, NEW x, NEW m, NEW c, Promoted(s, x, m, c), NEW y, y = FixContext(s, Marked(x, m), c)
  PROVE  /\ FXContext(y)
         /\ s.root \in Words /\ Len(s.root) = RootCount /\ Proper(y, s.root)
         /\ \A p \in PermHeads(s) : s.mem[p].fields \in Words /\ Proper(y, s.mem[p].fields)
<1>1. y.mem = c.mem /\ y.start = x.start /\ y.end = x.end /\ y.heads = Marked(x, m) /\ y.map = c.map
      /\ x.mem = s.mem
  BY FixContextFields, MarkContextFields DEF Promoted
<1>2. \A words : InTo(x, words, Marked(x, m)) => Proper(y, words)
  BY <1>1 DEF InTo, Proper
<1>3. s.root \in Words /\ Len(s.root) = RootCount
  BY MarkProper DEF Promoted
<1>4. Proper(y, s.root) /\ \A p \in PermHeads(s) : Proper(y, s.mem[p].fields)
  BY <1>2 DEF Promoted, AllMarked, RootsIn
<1>5. \A p \in PermHeads(s) : s.mem[p].fields \in Words
  <2>1. \A p \in PermHeads(s) : p \in Pages
    BY PromotedRest
  <2> QED BY <2>1, HeaderType DEF Promoted, HeapOK, Typed
<1>6. ASSUME NEW p \in y.heads
      PROVE  y.map[p] \in Pages /\ y.mem[y.map[p]].marked /\ Proper(y, y.mem[y.map[p]].fields)
  <2>1. /\ c.map[p] \in Pages /\ c.mem[c.map[p]].marked /\ c.mem[c.map[p]].fields = s.mem[p].fields
        /\ InTo(x, s.mem[p].fields, Marked(x, m))
    BY <1>1, PromotedObjects
  <2> QED BY <2>1, <1>1, <1>2
<1>7. ASSUME NEW p \in y.heads, NEW q \in y.heads, y.map[p] = y.map[q] PROVE p = q
  <2>1. p \in Mapped(c) /\ q \in Mapped(c)
    BY <1>1, PromotedObjects
  <2> QED BY <2>1, <1>1, <1>7 DEF Promoted, Packed, Compacted
<1>8. y.mem \in Memories
  BY <1>1, PromotedRest
<1>9. y.start \in Nat /\ y.end \in 0 .. Limit /\ y.heads \subseteq y.start .. y.end - 1
  BY <1>1 DEF Promoted, MGContext, Marked
<1>10. FXContext(y)
  BY <1>6, <1>7, <1>8, <1>9 DEF FXContext
<1> QED BY <1>3, <1>4, <1>5, <1>10

-----------------------------------------------------------------------------
FixOne(t, map, at, page) ==
  Written(FixObject(t, map, at, at[page].fields).mem, page, FixObject(t, map, at, at[page].fields).words)

FixesPermanent(t, map, m, objects) ==
  LET fix[p \in t.gc_perm_start .. t.gc_perm_current] ==
        IF p = t.gc_perm_start THEN m
        ELSE IF p - 1 \in objects THEN FixOne(t, map, fix[p - 1], p - 1)
        ELSE fix[p - 1]
  IN fix

\* FixPermanent is the last state of its loop.
LEMMA FixPermanentLoop ==
  ASSUME NEW t, NEW map, NEW m
  PROVE  FixPermanent(t, map, m)
           = FixesPermanent(t, map, m, Walk(m, t.gc_perm_start, t.gc_perm_current))[t.gc_perm_current]
BY DEF FixPermanent, FixesPermanent, FixOne, Written

\* The loop over the permanent objects.
FixingPermanent(loop, t, map, m, objects) ==
  /\ loop[t.gc_perm_start] = m
  /\ \A n \in t.gc_perm_start + 1 .. t.gc_perm_current : loop[n] = IF n - 1 \in objects THEN FixOne(t, map, loop[n - 1], n - 1) ELSE loop[n - 1]

\* FixesPermanent is the loop it is written as.
LEMMA FixesPermanentDef ==
  ASSUME NEW t, NEW map, NEW m, NEW objects, t.gc_perm_start \in Nat, t.gc_perm_current \in Nat, t.gc_perm_start <= t.gc_perm_current
  PROVE  FixingPermanent(FixesPermanent(t, map, m, objects), t, map, m, objects)
<1> DEFINE Nxt(p, n) == IF n - 1 \in objects THEN FixOne(t, map, p, n - 1) ELSE p
           Rec(f, k) == f = [n \in t.gc_perm_start .. t.gc_perm_start + k |-> IF n = t.gc_perm_start THEN m ELSE Nxt(f[n - 1], n)]
           T == {k \in Nat : \E f : Rec(f, k)}
<1>0. t.gc_perm_current - t.gc_perm_start \in Nat /\ t.gc_perm_start \in Nat
  OBVIOUS
<1>1. 0 \in T
  <2>1. Rec([n \in t.gc_perm_start .. t.gc_perm_start + 0 |-> m], 0)
    BY <1>0
  <2> QED BY <2>1
<1>2. ASSUME NEW k \in T PROVE k + 1 \in T
  <2>1. PICK f : Rec(f, k)
    OBVIOUS
  <2> DEFINE g == [n \in t.gc_perm_start .. t.gc_perm_start + (k + 1) |-> IF n <= t.gc_perm_start + k THEN f[n] ELSE Nxt(f[t.gc_perm_start + k], n)]
  <2> HIDE DEF Nxt
  <2>2. ASSUME NEW n \in t.gc_perm_start .. t.gc_perm_start + (k + 1)
        PROVE  g[n] = IF n = t.gc_perm_start THEN m ELSE Nxt(g[n - 1], n)
    <3>1. CASE n = t.gc_perm_start
      BY <2>1, <3>1, <1>0
    <3>2. CASE n \in t.gc_perm_start + 1 .. t.gc_perm_start + k
      <4>1. n \in t.gc_perm_start .. t.gc_perm_start + k /\ n - 1 \in t.gc_perm_start .. t.gc_perm_start + k /\ n # t.gc_perm_start /\ n - 1 \in t.gc_perm_start .. t.gc_perm_start + (k + 1)
        BY <3>2, <1>0
      <4>2. g[n] = f[n] /\ g[n - 1] = f[n - 1]
        BY <4>1, <1>0
      <4>3. f[n] = Nxt(f[n - 1], n)
        BY <2>1, <4>1
      <4> QED BY <4>1, <4>2, <4>3
    <3>3. CASE n = t.gc_perm_start + k + 1
      BY <3>3, <1>0
    <3> QED BY <3>1, <3>2, <3>3, <1>0
  <2>3. Rec(g, k + 1)
    BY <2>2
  <2> HIDE DEF g, Rec
  <2> QED BY <2>3
<1>3. T = Nat
  <2> HIDE DEF T
  <2>1. T \in SUBSET Nat
    BY DEF T
  <2> QED BY <1>1, <1>2, <2>1, NatSetInduction
<1>4. \E f : Rec(f, t.gc_perm_current - t.gc_perm_start)
  <2>1. \A k \in T : \E f : Rec(f, k)
    OBVIOUS
  <2> HIDE DEF T
  <2> QED BY <1>3, <1>0, <2>1
<1>4a. \E f : f = [n \in t.gc_perm_start .. t.gc_perm_current |-> IF n = t.gc_perm_start THEN m ELSE Nxt(f[n - 1], n)]
  <2>1. t.gc_perm_start + (t.gc_perm_current - t.gc_perm_start) = t.gc_perm_current
    BY <1>0
  <2>2. PICK f : Rec(f, t.gc_perm_current - t.gc_perm_start)
    BY <1>4
  <2> HIDE DEF Nxt
  <2>3. f = [n \in t.gc_perm_start .. t.gc_perm_current |-> IF n = t.gc_perm_start THEN m ELSE Nxt(f[n - 1], n)]
    BY <2>1, <2>2
  <2> QED BY <2>3
<1>5. FixesPermanent(t, map, m, objects) = [n \in t.gc_perm_start .. t.gc_perm_current |-> IF n = t.gc_perm_start THEN m ELSE Nxt(FixesPermanent(t, map, m, objects)[n - 1], n)]
  BY <1>4a DEF FixesPermanent
<1> DEFINE loop == FixesPermanent(t, map, m, objects)
<1>6. loop[t.gc_perm_start] = m /\ \A n \in t.gc_perm_start + 1 .. t.gc_perm_current : loop[n] = Nxt(loop[n - 1], n)
  <2>1. loop = [n \in t.gc_perm_start .. t.gc_perm_current |-> IF n = t.gc_perm_start THEN m ELSE Nxt(loop[n - 1], n)]
    BY <1>5
  <2> HIDE DEF Nxt, loop
  <2> QED BY <2>1, <1>0
<1>7. loop[t.gc_perm_start] = m /\ \A n \in t.gc_perm_start + 1 .. t.gc_perm_current : loop[n] = IF n - 1 \in objects THEN FixOne(t, map, loop[n - 1], n - 1) ELSE loop[n - 1]
  <2> HIDE DEF loop
  <2> QED BY <1>6
<1> HIDE DEF loop
<1>8. FixingPermanent(loop, t, map, m, objects)
  BY <1>7 DEF FixingPermanent
<1> QED BY <1>8 DEF loop

\* All that has been fixed refers to what has been fixed.
Consistent(y, m) == FXHeap(y, m) /\ \A p \in Fixed(y, m) : ObjectFixed(y, m, y.map[p])

\* The roots and the permanent objects before page p have been fixed.
FixedBefore(s, y, words, m, p) ==
  /\ Consistent(y, m) /\ Mapping(y, m, s.root, words)
  /\ \A q \in PermHeads(s) : IF q < p THEN ObjectFixed(y, m, q) ELSE m[q] = y.mem[q]
  /\ \A q \in Pages : q \notin Images(y) /\ q \notin PermHeads(s) => m[q] = y.mem[q]

\* A step keeps every object either as it was moved or fixed with what it
\* refers to.
LEMMA FXStepConsistent ==
  ASSUME NEW y, NEW l, NEW m, Consistent(y, l), FXHeap(y, m), FXStep(y, l, m)
  PROVE  Consistent(y, m)
<1>1. ASSUME NEW p \in Fixed(y, m) PROVE ObjectFixed(y, m, y.map[p])
  <2>1. CASE p \in Fixed(y, l)
    <3>1. ObjectFixed(y, l, y.map[p]) /\ m[y.map[p]] = l[y.map[p]] /\ Fixed(y, l) \subseteq Fixed(y, m)
      BY <2>1 DEF Consistent, FXStep
    <3>2. Mapping(y, m, y.mem[y.map[p]].fields, l[y.map[p]].fields)
      BY <3>1, MappingLater DEF ObjectFixed
    <3> QED BY <3>1, <3>2 DEF ObjectFixed
  <2>2. CASE p \notin Fixed(y, l)
    BY <2>2 DEF FXStep
  <2> QED BY <2>1, <2>2
<1> QED BY <1>1 DEF Consistent

\* The loop over the permanent objects fixes one more of them.
LEMMA PermanentFixed ==
  ASSUME NEW s, NEW x, NEW m, NEW c, Promoted(s, x, m, c), NEW y, y = FixContext(s, Marked(x, m), c),
         NEW t, t = s.table, NEW words, NEW l, NEW p \in PermHeads(s), FixedBefore(s, y, words, l, p)
  PROVE  FixedBefore(s, y, words, FixOne(t, y.map, l, p), p + 1)
<1> DEFINE f == s.mem[p].fields
           r == FixObject(t, y.map, l, f)
           g == r.mem
           k == Written(g, p, r.words)
<1>1. y.mem = c.mem /\ y.start = t.gc_yg_start /\ y.end = t.gc_mg_current
  BY FixContextFields
<1>2. FXContext(y) /\ f \in Words /\ Proper(y, f)
  BY FixProper
<1>3. p \in Pages /\ p \in Nat /\ p \notin Images(y) /\ y.mem[p] = s.mem[p]
      /\ \A q \in PermHeads(s) : q \in Pages /\ q \in Nat /\ q \notin Images(y)
  BY <1>1, PromotedRest
<1>4. /\ Consistent(y, l) /\ FXHeap(y, l) /\ Mapping(y, l, s.root, words)
      /\ \A q \in PermHeads(s) : IF q < p THEN ObjectFixed(y, l, q) ELSE l[q] = y.mem[q]
      /\ \A q \in Pages : q \notin Images(y) /\ q \notin PermHeads(s) => l[q] = y.mem[q]
  BY DEF FixedBefore, Consistent
<1>5. l[p].fields = f
  <2>1. ~(p < p)
    BY <1>3
  <2> QED BY <2>1, <1>3, <1>4
<1>6. FixOne(t, y.map, l, p) = k
  BY <1>5 DEF FixOne
<1> HIDE DEF f
<1>7. FXResult(y, l, f, r)
  BY <1>1, <1>2, <1>4, FixObjectWorks
<1> HIDE DEF r
<1>8. FXHeap(y, g) /\ FXStep(y, l, g) /\ r.words \in Words /\ Len(r.words) = Len(f) /\ Mapping(y, g, f, r.words)
  BY <1>7 DEF FXResult
<1>9. Consistent(y, g)
  BY <1>4, <1>8, FXStepConsistent
<1>10. Refielded(g, p, r.words, k)
  <2> DEFINE new == r.words
  <2>1. g \in Memories /\ new \in Words
    BY <1>8 DEF FXHeap
  <2> HIDE DEF new, g
  <2>2. Refielded(g, p, new, Written(g, p, new))
    BY <2>1, <1>3, Refields
  <2> QED BY <2>2 DEF new
<1> HIDE DEF g, k
<1>11. \A q \in y.heads : y.map[q] \in Images(y) /\ y.map[q] # p /\ y.map[q] \in Pages
  BY <1>2, <1>3, FXFacts
<1>12. FXHeap(y, k) /\ Fixed(y, k) = Fixed(y, g)
  BY <1>2, <1>3, <1>8, <1>10, <1>11, FixedWritten
<1>13. k[p].fields = r.words /\ \A q \in Pages : q # p => k[q] = g[q]
  BY <1>10 DEF Refielded
<1>14. \A q \in Pages : q \notin Images(y) => g[q] = l[q]
  BY <1>8 DEF FXStep
<1>15. Fixed(y, l) \subseteq Fixed(y, k) /\ Fixed(y, g) \subseteq Fixed(y, k)
  BY <1>8, <1>12 DEF FXStep
<1>16. Consistent(y, k)
  <2>1. ASSUME NEW q \in Fixed(y, k) PROVE ObjectFixed(y, k, y.map[q])
    <3>1. q \in Fixed(y, g) /\ q \in y.heads
      BY <1>12 DEF Fixed
    <3>2. ObjectFixed(y, g, y.map[q]) /\ k[y.map[q]] = g[y.map[q]]
      BY <3>1, <1>9, <1>11, <1>13 DEF Consistent
    <3>3. Mapping(y, k, y.mem[y.map[q]].fields, g[y.map[q]].fields)
      BY <3>2, <1>15, MappingLater DEF ObjectFixed
    <3> QED BY <3>2, <3>3 DEF ObjectFixed
  <2> QED BY <2>1, <1>12 DEF Consistent
<1>17. Mapping(y, k, s.root, words)
  BY <1>4, <1>15, MappingLater
<1>18. ASSUME NEW q \in PermHeads(s) PROVE IF q < p + 1 THEN ObjectFixed(y, k, q) ELSE k[q] = y.mem[q]
  <2>1. CASE q = p
    <3>1. Mapping(y, k, f, r.words)
      BY <1>8, <1>15, MappingLater
    <3>2. ObjectFixed(y, k, p)
      BY <3>1, <1>3, <1>8, <1>13 DEF ObjectFixed, f
    <3> QED BY <3>2, <2>1, <1>3
  <2>2. CASE q # p
    <3>1. k[q] = l[q]
      BY <2>2, <1>3, <1>13, <1>14
    <3>2. CASE q < p
      <4>1. ObjectFixed(y, l, q)
        BY <3>2, <1>4
      <4>2. Mapping(y, k, y.mem[q].fields, l[q].fields)
        BY <4>1, <1>15, MappingLater DEF ObjectFixed
      <4>3. ObjectFixed(y, k, q) /\ q < p + 1
        BY <3>1, <3>2, <4>1, <4>2, <1>3 DEF ObjectFixed
      <4> QED BY <4>3
    <3>3. CASE ~(q < p)
      <4>1. ~(q < p + 1) /\ l[q] = y.mem[q]
        BY <3>3, <2>2, <1>3, <1>4
      <4> QED BY <4>1, <3>1
    <3> QED BY <3>2, <3>3
  <2> QED BY <2>1, <2>2
<1>19. ASSUME NEW q \in Pages, q \notin Images(y), q \notin PermHeads(s) PROVE k[q] = y.mem[q]
  BY <1>19, <1>4, <1>13, <1>14
<1>20. FixedBefore(s, y, words, k, p + 1)
  BY <1>16, <1>17, <1>18, <1>19 DEF FixedBefore
<1> QED BY <1>6, <1>20

\* Everything has been fixed.
AllFixed(s, y, words, m) ==
  /\ FXHeap(y, m) /\ Fixed(y, m) = y.heads
  /\ \A p \in y.heads : ObjectFixed(y, m, y.map[p])
  /\ \A p \in PermHeads(s) : ObjectFixed(y, m, p)
  /\ words \in Words /\ Len(words) = Len(s.root) /\ Mapping(y, m, s.root, words)
  /\ \A q \in Pages : q \notin Images(y) /\ q \notin PermHeads(s) => m[q] = y.mem[q]

\* What was marked was reached, and what is reached is fixed: no mark is left.
LEMMA FixedAll ==
  ASSUME NEW s, NEW x, NEW m, NEW c, Promoted(s, x, m, c), NEW y, y = FixContext(s, Marked(x, m), c),
         NEW words \in Words, Len(words) = Len(s.root), NEW l, Consistent(y, l), Mapping(y, l, s.root, words),
         \A q \in PermHeads(s) : ObjectFixed(y, l, q)
  PROVE  Fixed(y, l) = y.heads
<1> DEFINE Z == Fixed(y, l)
<1>1. y.mem = c.mem /\ y.start = x.start /\ y.end = x.end /\ y.heads = Marked(x, m) /\ y.map = c.map
      /\ x.mem = s.mem
  BY FixContextFields, MarkContextFields DEF Promoted
<1>2. ASSUME NEW old, NEW new, Len(old) = Len(new), Mapping(y, l, old, new) PROVE InTo(x, old, Z)
  BY <1>1, <1>2 DEF Mapping, InTo
<1>3. Z \subseteq Marked(x, m) /\ Marked(x, m) \subseteq x.heads
  BY <1>1 DEF Fixed, Marked
<1>4. ASSUME NEW p \in Z PROVE InTo(x, x.mem[p].fields, Z)
  <2>1. ObjectFixed(y, l, y.map[p]) /\ p \in Marked(x, m)
    BY <1>3 DEF Consistent
  <2>2. y.mem[y.map[p]].fields = x.mem[p].fields
    BY <2>1, <1>1, PromotedObjects
  <2> QED BY <2>1, <2>2, <1>2 DEF ObjectFixed
<1>5. Complying(x, Z)
  BY <1>3, <1>4 DEF Complying
<1>6. InTo(x, s.root, Z)
  BY <1>2
<1>7. ASSUME NEW p \in PermHeads(s) PROVE InTo(x, s.mem[p].fields, Z)
  <2>1. y.mem[p].fields = s.mem[p].fields
    BY <1>1, PromotedRest
  <2> QED BY <2>1, <1>2 DEF ObjectFixed
<1>8. RootsIn(s, x, Z)
  BY <1>6, <1>7 DEF RootsIn
<1>9. Marked(x, m) \subseteq Z
  BY <1>5, <1>8 DEF Promoted, AllMarked
<1> QED BY <1>1, <1>3, <1>9

\* After the roots and the permanent objects every reference is to the new
\* address.
LEMMA FixWorks ==
  ASSUME NEW s, NEW x, NEW m, NEW c, Promoted(s, x, m, c), NEW y, y = FixContext(s, Marked(x, m), c),
         NEW r, r = FixObject(s.table, c.map, c.mem, s.root)
  PROVE  AllFixed(s, y, r.words, FixPermanent(s.table, c.map, r.mem))
<1> DEFINE t == s.table
           l == r.mem
           words == r.words
           from == t.gc_perm_start
           to == t.gc_perm_current
<1>1. y.mem = c.mem /\ y.start = t.gc_yg_start /\ y.end = t.gc_mg_current /\ y.map = c.map /\ y.heads = Marked(x, m)
  BY FixContextFields
<1>2. FXContext(y) /\ s.root \in Words /\ Proper(y, s.root)
  BY FixProper
<1>3. TableOK(t) /\ Covered(s) /\ Typed(s) /\ Placed(s)
  BY DEF Promoted, HeapOK
<1>4. \A p \in PermHeads(s) : p \in Pages /\ p \in Nat /\ p \notin Images(y) /\ y.mem[p] = s.mem[p]
  BY <1>1, PromotedRest
<1>5. Fixed(y, c.mem) = {} /\ FXHeap(y, c.mem)
  <2>1. Fixed(y, c.mem) = {}
    BY <1>1, <1>2 DEF Fixed, FXContext
  <2> QED BY <2>1, <1>1, <1>2 DEF FXHeap, FXContext
<1>6. FXResult(y, c.mem, s.root, r)
  <2> DEFINE n == c.mem
             w == s.root
  <2>1. FXHeap(y, n) /\ w \in Words /\ Proper(y, w) /\ r = FixObject(t, y.map, n, w)
    BY <1>1, <1>2, <1>5
  <2> HIDE DEF n, w, t
  <2>2. FXResult(y, n, w, FixObject(t, y.map, n, w))
    BY <2>1, <1>1, <1>2, FixObjectWorks
  <2> QED BY <2>1, <2>2 DEF n, w
<1>7. FXHeap(y, l) /\ FXStep(y, c.mem, l) /\ words \in Words /\ Len(words) = Len(s.root) /\ Mapping(y, l, s.root, words)
  BY <1>6 DEF FXResult
<1>8. from \in Nat /\ to \in Nat /\ from <= to /\ from = PermStart
  BY <1>3, TableFacts, Areas
<1>9. \A p \in PermHeads(s) : from <= p /\ p < to
  BY <1>3, <1>8 DEF Placed
<1>10. FixedBefore(s, y, words, l, from)
  <2>1. Consistent(y, c.mem)
    BY <1>5 DEF Consistent
  <2>2. Consistent(y, l)
    BY <2>1, <1>7, FXStepConsistent
  <2>3. \A q \in Pages : q \notin Images(y) => l[q] = y.mem[q]
    BY <1>1, <1>7 DEF FXStep
  <2>4. \A q \in PermHeads(s) : ~(q < from) /\ l[q] = y.mem[q]
    BY <2>3, <1>4, <1>8, <1>9
  <2> QED BY <2>2, <2>3, <2>4, <1>7 DEF FixedBefore
<1>11. Walk(l, from, to) = PermHeads(s)
  <2> DEFINE S == PermHeads(s)
  <2>1. Tiled(s.mem, S, from, to)
    BY <1>3 DEF Covered
  <2>2. \A p \in S : l[p].pages = s.mem[p].pages /\ l[p].pages \in Nat \ {0}
    BY <1>3, <1>4, <1>7, HeaderType DEF FXHeap, Typed
  <2> HIDE DEF S, from, to, l
  <2>3. Tiled(l, S, from, to)
    BY <2>1, <2>2, TiledAgree
  <2>4. Walk(l, from, to) = S
    BY <2>2, <2>3, <1>8, WalkTiled
  <2> QED BY <2>4 DEF S
<1> DEFINE fix == FixesPermanent(t, c.map, l, PermHeads(s))
           T == {n \in Nat : FixedBefore(s, y, words, fix[from + n], from + n)}
<1>12. FixPermanent(t, c.map, l) = fix[to]
  BY <1>11, FixPermanentLoop
<1>13. /\ fix[from] = l
       /\ \A n \in from + 1 .. to : fix[n] = IF n - 1 \in PermHeads(s) THEN FixOne(t, y.map, fix[n - 1], n - 1) ELSE fix[n - 1]
  <2>1. FixingPermanent(fix, t, c.map, l, PermHeads(s))
    <3> HIDE DEF t, l
    <3> QED BY <1>8, FixesPermanentDef
  <2> HIDE DEF fix
  <2> QED BY <2>1, <1>1 DEF FixingPermanent
<1> HIDE DEF fix, words, l
<1>14. 0 \in T
  BY <1>8, <1>10, <1>13
<1>15. ASSUME NEW n \in 0 .. (to - from) - 1, n \in T PROVE n + 1 \in T
  <2> DEFINE p == from + n
             g == fix[p]
             k == fix[p + 1]
  <2>0. p \in Nat /\ p + 1 \in from + 1 .. to /\ (p + 1) - 1 = p /\ from <= p /\ from + (n + 1) = p + 1
    <3> HIDE DEF from, to
    <3> QED BY <1>8
  <2>1. FixedBefore(s, y, words, g, p)
    BY <1>15
  <2>2. k = IF p \in PermHeads(s) THEN FixOne(t, y.map, g, p) ELSE g
    <3> HIDE DEF p, from, to, t
    <3> QED BY <2>0, <1>13
  <2> HIDE DEF g, k, p
  <2>3. FixedBefore(s, y, words, k, p + 1)
    <3>1. CASE p \in PermHeads(s)
      <4>1. FixedBefore(s, y, words, FixOne(t, y.map, g, p), p + 1)
        <5>1. t = s.table
          OBVIOUS
        <5> HIDE DEF t
        <5> QED BY <3>1, <5>1, <2>1, PermanentFixed
      <4> QED BY <4>1, <3>1, <2>2
    <3>2. CASE p \notin PermHeads(s)
      <4>1. \A q \in PermHeads(s) : q < p + 1 <=> q < p
        BY <2>0, <1>4, <3>2
      <4> QED BY <4>1, <3>2, <2>1, <2>2 DEF FixedBefore
    <3> QED BY <3>1, <3>2
  <2>4. fix[from + (n + 1)] = k /\ from + (n + 1) = p + 1
    BY <2>0 DEF k
  <2> QED BY <2>3, <2>4
<1>16. to - from \in Nat /\ from + (to - from) = to
  <2> HIDE DEF from, to
  <2> QED BY <1>8
<1>17. to - from \in T
  <2>1. \A n \in 0 .. to - from : n \in T
    <3> HIDE DEF T, from, to
    <3> QED BY <1>14, <1>15, <1>16, UpTo
  <2> HIDE DEF T, from, to
  <2> QED BY <2>1, <1>16
<1> DEFINE k == fix[to]
<1>18. FixedBefore(s, y, words, k, to)
  BY <1>16, <1>17
<1> HIDE DEF k
<1>19. Consistent(y, k) /\ FXHeap(y, k) /\ Mapping(y, k, s.root, words) /\ (\A q \in PermHeads(s) : ObjectFixed(y, k, q))
       /\ \A q \in Pages : q \notin Images(y) /\ q \notin PermHeads(s) => k[q] = y.mem[q]
  BY <1>9, <1>18 DEF FixedBefore, Consistent
<1>20. Fixed(y, k) = y.heads
  BY <1>7, <1>19, FixedAll DEF words
<1>21. AllFixed(s, y, words, k)
  BY <1>7, <1>19, <1>20 DEF AllFixed, Consistent, words
<1> QED BY <1>12, <1>21 DEF k, words, l

-----------------------------------------------------------------------------
(* What a full collection makes of a state s.                              *)

\* The table afterwards.
Settled(t, u, new) ==
  /\ u \in Tables
  /\ u.gc_yg_current = t.gc_yg_start /\ u.gc_mg_current = new
  /\ u.gc_yg_start = t.gc_yg_start /\ u.gc_yg_end = t.gc_yg_end
  /\ u.gc_shadow = t.gc_shadow /\ u.gc_shadow_end = t.gc_shadow_end
  /\ u.gc_mg_start = t.gc_mg_start /\ u.gc_end = t.gc_end
  /\ u.gc_perm_start = t.gc_perm_start /\ u.gc_perm_current = t.gc_perm_current

Settling(t, new) == [t EXCEPT !.gc_mg_current = new, !.gc_yg_current = t.gc_yg_start]

\* The table after a full collection.
LEMMA SettledTable ==
  ASSUME NEW t, TableOK(t), NEW new \in 2 * YGSize .. Limit
  PROVE  Settled(t, Settling(t, new), new) /\ TableOK(Settling(t, new))
<1> DEFINE v == [t EXCEPT !.gc_mg_current = new]
           u == [v EXCEPT !.gc_yg_current = t.gc_yg_start]
<1>1. t \in Tables /\ t.gc_yg_start \in Nat /\ new \in Nat /\ Limit \in Nat
      /\ t.gc_yg_start <= t.gc_yg_current /\ t.gc_yg_current <= t.gc_yg_end
      /\ t.gc_yg_current \in Nat /\ t.gc_yg_end \in Nat
  BY TableFacts, Areas
<1>2. u = Settling(t, new)
  BY DEF Settling
<1>3. v \in Tables /\ v.gc_mg_current = new /\ v.gc_yg_start = t.gc_yg_start /\ v.gc_yg_end = t.gc_yg_end
      /\ v.gc_shadow = t.gc_shadow /\ v.gc_shadow_end = t.gc_shadow_end
      /\ v.gc_mg_start = t.gc_mg_start /\ v.gc_end = t.gc_end
      /\ v.gc_perm_start = t.gc_perm_start /\ v.gc_perm_current = t.gc_perm_current
  BY <1>1 DEF Tables
<1> HIDE DEF v
<1>4. u \in Tables /\ u.gc_mg_current = v.gc_mg_current /\ u.gc_yg_start = v.gc_yg_start
      /\ u.gc_yg_end = v.gc_yg_end /\ u.gc_shadow = v.gc_shadow /\ u.gc_shadow_end = v.gc_shadow_end
      /\ u.gc_mg_start = v.gc_mg_start /\ u.gc_end = v.gc_end
      /\ u.gc_perm_start = v.gc_perm_start /\ u.gc_perm_current = v.gc_perm_current
      /\ u.gc_yg_current = t.gc_yg_start
  BY <1>1, <1>3 DEF Tables
<1> HIDE DEF u
<1>5. Settled(t, u, new)
  BY <1>3, <1>4 DEF Settled
<1>6. TableOK(u)
  BY <1>1, <1>5 DEF Settled, TableOK
<1> QED BY <1>2, <1>5, <1>6

\* The pages afterwards: k is the memory after the references have been fixed.
Finished(s, c, k, words, u) ==
  /\ u.root = words
  /\ u.cards \subseteq 2 * YGSize .. Limit - 1
  /\ u.mem \in Memories
  /\ Settled(s.table, u.table, c.new) /\ TableOK(u.table)
  /\ \A p \in Pages :
       /\ p < 2 * YGSize => u.mem[p] = Zero
       /\ 2 * YGSize <= p /\ (p < c.new \/ Limit <= p) => u.mem[p] = k[p]
       /\ c.new <= p /\ p < Limit =>
            /\ u.mem[p].fields = <<>> /\ u.mem[p].vmt = NoObject /\ u.mem[p].marked = k[p].marked
            /\ k[p].marked => u.mem[p].pages = k[p].pages

StaleOf(page) == IF page.marked THEN [Zero EXCEPT !.pages = page.pages, !.marked = TRUE] ELSE Zero

\* What remains of a header outside the objects.
LEMMA StaleHeader ==
  ASSUME NEW page \in Headers
  PROVE  /\ StaleOf(page) \in Headers /\ StaleOf(page).fields = <<>> /\ StaleOf(page).vmt = NoObject
         /\ StaleOf(page).marked = page.marked
         /\ page.marked => StaleOf(page).pages = page.pages
<1>1. Zero \in Headers /\ Zero.fields = <<>> /\ Zero.vmt = NoObject /\ Zero.marked = FALSE
  BY DEF Zero, Headers, Words
<1>2. page.pages \in Nat \ {0} /\ page.marked \in BOOLEAN
  BY DEF Headers
<1> DEFINE a == [Zero EXCEPT !.pages = page.pages]
           b == [a EXCEPT !.marked = TRUE]
<1>3. a \in Headers /\ a.fields = Zero.fields /\ a.vmt = Zero.vmt /\ a.pages = page.pages
  BY <1>1, <1>2 DEF Headers
<1> HIDE DEF a
<1>4. b \in Headers /\ b.fields = a.fields /\ b.vmt = a.vmt /\ b.pages = a.pages /\ b.marked = TRUE
  BY <1>3 DEF Headers
<1>5. StaleOf(page) = IF page.marked THEN b ELSE Zero
  BY DEF StaleOf, a
<1> HIDE DEF b
<1> QED BY <1>1, <1>2, <1>3, <1>4, <1>5

\* The state after a full collection, in its parts.
LEMMA FinishWorks ==
  ASSUME NEW s, TableOK(s.table), NEW c, c.new \in 2 * YGSize .. Limit, NEW roots,
         NEW k \in Memories, k = FixPermanent(s.table, c.map, roots.mem)
  PROVE  Finished(s, c, k, roots.words, Finish(s, c, roots))
<1> DEFINE u == Finish(s, c, roots)
           t == s.table
           n == Remains(t, k, c.new)
<1>1. u.mem = n /\ u.cards = CardsLeft(s, c.map) /\ u.root = roots.words
      /\ u.table = [t EXCEPT !.gc_mg_current = c.new, !.gc_yg_current = t.gc_yg_start]
  BY DEF Finish
<1>2. u.table = Settling(t, c.new)
  BY <1>1 DEF Settling
<1>3. Settled(t, u.table, c.new) /\ TableOK(u.table)
  <2> DEFINE new == c.new
  <2>1. new \in 2 * YGSize .. Limit /\ u.table = Settling(t, new)
    BY <1>2
  <2> HIDE DEF new, t, u
  <2>2. TableOK(t)
    BY DEF t
  <2>3. Settled(t, Settling(t, new), new) /\ TableOK(Settling(t, new))
    BY <2>1, <2>2, SettledTable
  <2> QED BY <2>1, <2>3 DEF new
<1>4. t.gc_mg_start = 2 * YGSize /\ t.gc_end \in Nat /\ 2 * YGSize <= t.gc_end /\ YGSize \in Nat /\ Limit \in Nat
  BY TableFacts, Areas
<1>5. n = [p \in Pages |-> IF p < t.gc_mg_start THEN Zero
                           ELSE IF c.new <= p /\ p < Limit THEN StaleOf(k[p]) ELSE k[p]]
  BY DEF Remains, StaleOf
<1>6. \A p \in Pages : k[p] \in Headers
  BY HeaderType
<1>7. Zero \in Headers
  BY DEF Zero, Headers, Words
<1> HIDE DEF n
<1>8. n \in Memories
  <2>1. \A p \in Pages : n[p] \in Headers
    BY <1>5, <1>6, <1>7, StaleHeader
  <2> QED BY <2>1, <1>5 DEF Memories
<1>9. ASSUME NEW p \in Pages
      PROVE  /\ p < 2 * YGSize => n[p] = Zero
             /\ 2 * YGSize <= p /\ (p < c.new \/ Limit <= p) => n[p] = k[p]
             /\ c.new <= p /\ p < Limit => n[p] = StaleOf(k[p])
  <2>1. p \in Nat /\ c.new \in Nat /\ 2 * YGSize <= c.new
    BY <1>4, Areas
  <2>2. n[p] = IF p < 2 * YGSize THEN Zero ELSE IF c.new <= p /\ p < Limit THEN StaleOf(k[p]) ELSE k[p]
    BY <1>4, <1>5
  <2> QED BY <2>1, <2>2, <1>4
<1>10. u.cards \subseteq 2 * YGSize .. Limit - 1
  BY <1>1, <1>4 DEF CardsLeft
<1> HIDE DEF u
<1> SUFFICES Finished(s, c, k, roots.words, u)
  BY DEF u
<1> QED BY <1>1, <1>3, <1>6, <1>8, <1>9, <1>10, StaleHeader DEF Finished

\* The whole collection.
Full(s, x, m, c, y, k, words, u) ==
  /\ Promoted(s, x, m, c)
  /\ y = FixContext(s, Marked(x, m), c)
  /\ AllFixed(s, y, words, k)
  /\ Finished(s, c, k, words, u)

\* What is known in the middle of a full collection.
LEMMA FullFacts ==
  ASSUME NEW s, NEW x, NEW m, NEW c, NEW y, NEW k, NEW words, NEW u, Full(s, x, m, c, y, k, words, u)
  PROVE  /\ y.mem = c.mem /\ y.start = s.table.gc_yg_start /\ y.end = s.table.gc_mg_current
         /\ y.heads = Marked(x, m) /\ y.map = c.map /\ x.mem = s.mem
         /\ x.heads = Cells(s) \ PermHeads(s) /\ x.start = y.start /\ x.end = y.end
         /\ HeapOK(s) /\ Placed(s) /\ TableOK(s.table) /\ Rest(s) /\ Typed(s) /\ Covered(s)
         /\ Compacted(m, c) /\ c.new \in Nat /\ 2 * YGSize <= c.new /\ c.new <= Limit
         /\ c.mem \in Memories /\ k \in Memories /\ m \in Memories
         /\ FXContext(y)
<1>1. Promoted(s, x, m, c) /\ y = FixContext(s, Marked(x, m), c) /\ x = MarkContext(s) /\ HeapOK(s) /\ Placed(s)
      /\ Packed(s.table, m, MatureHeads(s), YoungHeads(s), c) /\ c.new <= Limit /\ FXHeap(y, k)
      /\ AllMarked(s, x, m)
  BY DEF Full, Promoted, AllFixed
<1>2. Compacted(m, c) /\ k \in Memories /\ m \in Memories
  BY <1>1 DEF Packed, FXHeap, AllMarked, MGHeap
<1>3. c.new \in Nat /\ 2 * YGSize <= c.new /\ c.mem \in Memories
  BY <1>2 DEF Compacted, Compactions
<1>4. FXContext(y)
  BY <1>1, FixProper
<1> QED BY <1>1, <1>2, <1>3, <1>4, FixContextFields, MarkContextFields DEF HeapOK

\* The objects that have been moved, by where they are now.
LEMMA FullImages ==
  ASSUME NEW s, NEW x, NEW m, NEW c, NEW y, NEW k, NEW words, NEW u, Full(s, x, m, c, y, k, words, u),
         NEW p \in Marked(x, m)
  PROVE  /\ c.map[p] \in Pages /\ c.map[p] \in Nat /\ 2 * YGSize <= c.map[p] /\ c.map[p] < c.new
         /\ c.map[p] \in Targets(c) /\ c.map[p] \in Images(y)
         /\ u.mem[c.map[p]] = k[c.map[p]] /\ ~k[c.map[p]].marked
         /\ k[c.map[p]].pages = s.mem[p].pages /\ k[c.map[p]].vmt = s.mem[p].vmt
         /\ Len(k[c.map[p]].fields) = Len(s.mem[p].fields)
         /\ Mapping(y, k, s.mem[p].fields, k[c.map[p]].fields)
<1> DEFINE q == c.map[p]
<1>1. y.mem = c.mem /\ y.heads = Marked(x, m) /\ y.map = c.map /\ c.new \in Nat /\ c.new <= Limit
  BY FullFacts
<1>2. q \in Pages /\ q \in 2 * YGSize .. c.new - 1 /\ q \in Targets(c)
      /\ c.mem[q].pages = s.mem[p].pages /\ c.mem[q].vmt = s.mem[p].vmt /\ c.mem[q].fields = s.mem[p].fields
  BY PromotedObjects DEF Full
<1>3. q \in Nat /\ 2 * YGSize <= q /\ q < c.new
  BY <1>1, <1>2, Areas
<1>4. q \in Images(y)
  BY <1>1 DEF Images
<1>5. FXHeap(y, k) /\ p \in Fixed(y, k) /\ ObjectFixed(y, k, q)
  BY <1>1 DEF Full, AllFixed
<1>6. ~k[q].marked /\ k[q].pages = c.mem[q].pages /\ k[q].vmt = c.mem[q].vmt
  BY <1>1, <1>2, <1>5 DEF FXHeap, Fixed
<1>7. u.mem[q] = k[q]
  BY <1>2, <1>3 DEF Full, Finished
<1>8. Len(k[q].fields) = Len(c.mem[q].fields) /\ Mapping(y, k, c.mem[q].fields, k[q].fields)
  BY <1>1, <1>5 DEF ObjectFixed
<1> HIDE DEF q
<1>9. Len(k[q].fields) = Len(s.mem[p].fields) /\ Mapping(y, k, s.mem[p].fields, k[q].fields)
  BY <1>2, <1>8
<1> QED BY <1>2, <1>3, <1>4, <1>6, <1>7, <1>9 DEF q

\* The other pages.
LEMMA FullOthers ==
  ASSUME NEW s, NEW x, NEW m, NEW c, NEW y, NEW k, NEW words, NEW u, Full(s, x, m, c, y, k, words, u)
  PROVE  /\ \A p \in Images(y) : p \in Nat /\ 2 * YGSize <= p /\ p < c.new
         /\ \A p \in PermHeads(s) : /\ p \in Pages /\ p \in Nat /\ Limit <= p /\ PermStart <= p
                                    /\ u.mem[p] = k[p] /\ ~k[p].marked
                                    /\ k[p].pages = s.mem[p].pages /\ k[p].vmt = s.mem[p].vmt
                                    /\ Len(k[p].fields) = Len(s.mem[p].fields)
                                    /\ Mapping(y, k, s.mem[p].fields, k[p].fields)
         /\ \A p \in Pages : p \notin Images(y) /\ p < Limit => k[p] = c.mem[p]
         /\ \A p \in Pages : p \notin PermHeads(s) /\ Limit <= p => u.mem[p] = s.mem[p]
<1>1. y.mem = c.mem /\ y.heads = Marked(x, m) /\ y.map = c.map /\ c.new \in Nat /\ 2 * YGSize <= c.new
      /\ c.new <= Limit /\ Placed(s) /\ Limit \in Nat /\ YGSize \in Nat
  BY FullFacts, Areas
<1>2. \A p \in Images(y) : p \in Nat /\ 2 * YGSize <= p /\ p < c.new
  BY <1>1, FullImages DEF Images
<1>3. ASSUME NEW p \in PermHeads(s)
      PROVE  /\ p \in Pages /\ p \in Nat /\ Limit <= p /\ PermStart <= p
             /\ u.mem[p] = k[p] /\ ~k[p].marked
             /\ k[p].pages = s.mem[p].pages /\ k[p].vmt = s.mem[p].vmt
             /\ Len(k[p].fields) = Len(s.mem[p].fields)
             /\ Mapping(y, k, s.mem[p].fields, k[p].fields)
  <2>1. p \in Pages /\ p \in Nat /\ PermStart <= p /\ ~s.mem[p].marked /\ Limit <= p
    BY <1>1, Areas DEF Placed
  <2>2. p \notin Images(y)
    BY <1>1, <1>2, <2>1
  <2>3. c.mem[p] = s.mem[p]
    BY PromotedRest DEF Full
  <2>4. k[p].pages = s.mem[p].pages /\ k[p].vmt = s.mem[p].vmt /\ k[p].marked = s.mem[p].marked
    BY <1>1, <2>1, <2>2, <2>3 DEF Full, AllFixed, FXHeap
  <2>5. Len(k[p].fields) = Len(s.mem[p].fields) /\ Mapping(y, k, s.mem[p].fields, k[p].fields)
    BY <1>1, <2>3 DEF Full, AllFixed, ObjectFixed
  <2>6. u.mem[p] = k[p]
    BY <1>1, <2>1 DEF Full, Finished
  <2> QED BY <2>1, <2>4, <2>5, <2>6
<1>4. ASSUME NEW p \in Pages, p \notin Images(y), p < Limit PROVE k[p] = c.mem[p]
  <2>1. p \notin PermHeads(s)
    BY <1>1, <1>3, <1>4
  <2> QED BY <2>1, <1>1, <1>4 DEF Full, AllFixed
<1>5. ASSUME NEW p \in Pages, p \notin PermHeads(s), Limit <= p PROVE u.mem[p] = s.mem[p]
  <2>1. p \in Nat
    BY Areas
  <2>2. p \notin Images(y)
    BY <1>1, <1>2, <1>5, <2>1
  <2>3. k[p] = c.mem[p]
    BY <1>1, <1>5, <2>2 DEF Full, AllFixed
  <2>4. c.mem[p] = s.mem[p]
    BY <1>5, PromotedRest DEF Full
  <2>5. u.mem[p] = k[p]
    BY <1>1, <1>5, <2>1 DEF Full, Finished
  <2> QED BY <2>3, <2>4, <2>5
<1> QED BY <1>2, <1>3, <1>4, <1>5

\* What the walks find, and what of it is not marked.
LEMMA FullHeads ==
  ASSUME NEW s, NEW x, NEW m, NEW c, NEW y, NEW k, NEW words, NEW u, Full(s, x, m, c, y, k, words, u)
  PROVE  /\ YoungHeads(u) = {} /\ MatureHeads(u) = Targets(c) /\ PermHeads(u) = PermHeads(s)
         /\ Covered(u)
<1> DEFINE t == s.table
           v == u.table
           old == PermHeads(s)
           moved == Targets(c)
           n == u.mem
<1>1. Settled(t, v, c.new) /\ TableOK(v) /\ n \in Memories
  BY DEF Full, Finished
<1>2. /\ v.gc_yg_current = v.gc_yg_start /\ v.gc_mg_start = 2 * YGSize /\ v.gc_mg_current = c.new
      /\ v.gc_perm_start = t.gc_perm_start /\ v.gc_perm_current = t.gc_perm_current
      /\ v.gc_yg_start \in Nat /\ v.gc_mg_start \in Nat /\ v.gc_mg_current \in Nat
      /\ v.gc_perm_start \in Nat /\ v.gc_perm_current \in Nat /\ c.new \in Nat
  BY <1>1, TableFacts, Areas DEF Settled
<1>3. Tiled(n, {}, v.gc_yg_start, v.gc_yg_current)
  BY <1>2, TiledNothing
<1>4. Tiled(n, old, v.gc_perm_start, v.gc_perm_current) /\ \A p \in old : n[p].pages \in Nat \ {0}
  <2>1. Tiled(s.mem, old, t.gc_perm_start, t.gc_perm_current)
    BY FullFacts DEF Covered
  <2>2. \A p \in old : n[p].pages = s.mem[p].pages /\ p \in Pages
    BY FullOthers
  <2>3. \A p \in old : n[p].pages \in Nat \ {0}
    BY <2>2, <1>1, HeaderType
  <2> HIDE DEF n, old, t
  <2>4. Tiled(n, old, t.gc_perm_start, t.gc_perm_current)
    BY <2>1, <2>2, TiledAgree
  <2> QED BY <2>3, <2>4, <1>2
<1>5. Tiled(n, moved, v.gc_mg_start, v.gc_mg_current) /\ \A p \in moved : n[p].pages \in Nat \ {0}
  <2>1. Tiled(c.mem, moved, 2 * YGSize, c.new)
    BY FullFacts DEF Compacted
  <2>2. ASSUME NEW p \in moved PROVE p \in Pages /\ n[p].pages = c.mem[p].pages
    <3>1. p \in 2 * YGSize .. c.new - 1
      BY <2>1 DEF Tiled
    <3>2. p \in Nat /\ 2 * YGSize <= p /\ p < c.new /\ p < Limit /\ p \in Pages
      BY <3>1, <1>2, FullFacts, Areas
    <3>3. n[p] = k[p]
      BY <3>2 DEF Full, Finished
    <3>4. k[p].pages = y.mem[p].pages /\ y.mem = c.mem
      BY <3>2, FullFacts DEF Full, AllFixed, FXHeap
    <3> QED BY <3>2, <3>3, <3>4
  <2>3. \A p \in moved : n[p].pages \in Nat \ {0}
    BY <2>2, <1>1, HeaderType
  <2> DEFINE a == c.mem
             start == 2 * YGSize
             end == c.new
  <2>4. Tiled(a, moved, start, end) /\ \A p \in moved : n[p].pages = a[p].pages
    BY <2>1, <2>2
  <2> HIDE DEF n, moved, a, start, end
  <2>5. Tiled(n, moved, start, end)
    BY <2>4, TiledAgree
  <2> QED BY <2>3, <2>5, <1>2 DEF start, end
<1> HIDE DEF n, moved, old
<1>6. Walk(n, v.gc_yg_start, v.gc_yg_current) = {}
  <2>1. \A p \in {} : n[p].pages \in Nat \ {0}
    OBVIOUS
  <2> HIDE DEF v
  <2> QED BY <1>2, <1>3, <2>1, WalkTiled
<1>7. Walk(n, v.gc_mg_start, v.gc_mg_current) = moved
  <2> HIDE DEF v
  <2> QED BY <1>2, <1>5, WalkTiled
<1>8. Walk(n, v.gc_perm_start, v.gc_perm_current) = old
  <2> HIDE DEF v
  <2> QED BY <1>2, <1>4, WalkTiled
<1>9. YoungHeads(u) = {} /\ MatureHeads(u) = moved /\ PermHeads(u) = old
  BY <1>6, <1>7, <1>8 DEF YoungHeads, MatureHeads, PermHeads, n
<1>10. Covered(u)
  BY <1>3, <1>4, <1>5, <1>9 DEF Covered, n
<1> QED BY <1>9, <1>10 DEF moved, old

\* What has been moved without having been marked is still marked.
LEMMA FullStale ==
  ASSUME NEW s, NEW x, NEW m, NEW c, NEW y, NEW k, NEW words, NEW u, Full(s, x, m, c, y, k, words, u),
         NEW p \in Targets(c), p \notin Images(y)
  PROVE  /\ p \in Pages /\ p \in Nat /\ 2 * YGSize <= p /\ p < c.new
         /\ p + u.mem[p].pages <= c.new
         /\ u.mem[p].marked /\ \E q \in Pages : q \notin Cells(s) /\ u.mem[p] = s.mem[q]
<1>1. y.mem = c.mem /\ y.heads = Marked(x, m) /\ y.map = c.map /\ c.new \in Nat /\ c.new <= Limit /\ Compacted(m, c)
      /\ x.mem = s.mem /\ x.heads = Cells(s) \ PermHeads(s) /\ Placed(s) /\ Rest(s) /\ c.mem \in Memories
      /\ m \in Memories
  BY FullFacts
<1>2. p \in 2 * YGSize .. c.new - 1 /\ p + c.mem[p].pages \in Targets(c) \cup {c.new}
      /\ Targets(c) \subseteq 2 * YGSize .. c.new - 1
  BY <1>1 DEF Compacted, Tiled
<1>3. p \in Nat /\ 2 * YGSize <= p /\ p < c.new /\ p < Limit /\ p \in Pages
  BY <1>1, <1>2, Areas
<1>4. u.mem[p] = c.mem[p]
  <2>1. u.mem[p] = k[p]
    BY <1>3 DEF Full, Finished
  <2>2. k[p] = c.mem[p]
    BY <1>3, FullOthers
  <2> QED BY <2>1, <2>2
<1>5. p + c.mem[p].pages <= c.new
  BY <1>1, <1>2
<1>6. PICK q \in Mapped(c) : p = c.map[q]
  BY DEF Targets
<1>7. q \in Pages /\ q \in Nat /\ m[q].marked
  BY <1>1, Areas DEF Mapped, Compacted
<1>8. c.mem[p] = m[q]
  <2>1. 0 \in 0 .. m[q].pages - 1
    BY <1>1, <1>7, HeaderType
  <2>2. c.mem[c.map[q] + 0] = m[q + 0]
    BY <2>1, <1>1 DEF Compacted
  <2>3. p + 0 = p /\ q + 0 = q
    BY <1>3, <1>7
  <2> QED BY <2>2, <2>3, <1>6
<1>9. q \notin Marked(x, m)
  BY <1>1, <1>6 DEF Images
<1>10. m[q] = s.mem[q]
  BY <1>1, <1>7, <1>9 DEF Full, Promoted, AllMarked, MGHeap
<1>11. q \notin Cells(s)
  BY <1>1, <1>7, <1>10 DEF Placed
<1> QED BY <1>3, <1>4, <1>5, <1>7, <1>8, <1>10, <1>11

\* After a full collection the objects are the moved and the permanent ones.
LEMMA FullCells ==
  ASSUME NEW s, NEW x, NEW m, NEW c, NEW y, NEW k, NEW words, NEW u, Full(s, x, m, c, y, k, words, u)
  PROVE  Cells(u) = Images(y) \cup PermHeads(s)
<1>1. Cells(u) = {p \in Targets(c) \cup PermHeads(s) : ~u.mem[p].marked}
  BY FullHeads DEF Cells
<1>2. \A p \in PermHeads(s) : ~u.mem[p].marked
  BY FullOthers
<1>3. \A p \in Targets(c) : p \notin Images(y) => u.mem[p].marked
  BY FullStale
<1>4. ASSUME NEW p \in Images(y) PROVE p \in Targets(c) /\ ~u.mem[p].marked
  <2>1. PICK q \in Marked(x, m) : p = c.map[q]
    BY FullFacts DEF Images
  <2> QED BY <2>1, FullImages
<1> QED BY <1>1, <1>2, <1>3, <1>4

\* What is kept, and where to.
FullKept(s, x, m) == Marked(x, m) \cup PermHeads(s)
FullMap(s, x, m, c) == [p \in FullKept(s, x, m) |-> IF p \in PermHeads(s) THEN p ELSE c.map[p]]

\* A full collection only moves objects.
LEMMA FullRelocated ==
  ASSUME NEW s, NEW x, NEW m, NEW c, NEW y, NEW k, NEW words, NEW u, Full(s, x, m, c, y, k, words, u)
  PROVE  Relocated(s, u, FullKept(s, x, m), FullMap(s, x, m, c))
<1> DEFINE K == FullKept(s, x, m)
           f == FullMap(s, x, m, c)
           moved == Marked(x, m)
           old == PermHeads(s)
<1>0. /\ y.mem = c.mem /\ y.heads = moved /\ y.map = c.map /\ x.mem = s.mem /\ x.heads = Cells(s) \ old
      /\ x.start = y.start /\ x.end = y.end /\ HeapOK(s) /\ Placed(s) /\ Typed(s) /\ c.new <= Limit
      /\ c.new \in Nat /\ Closed(s) /\ FXContext(y) /\ u.root = words /\ x = MarkContext(s)
      /\ Fixed(y, k) = moved
  <2>1. HeapOK(s) /\ x = MarkContext(s) /\ u.root = words /\ Fixed(y, k) = y.heads
    BY DEF Full, Promoted, Finished, AllFixed
  <2> QED BY <2>1, FullFacts DEF HeapOK
<1>1. ASSUME NEW p \in moved
      PROVE  p \in K /\ p \in Cells(s) /\ p \notin old /\ f[p] = c.map[p] /\ f[p] \in Pages /\ f[p] < Limit
             /\ f[p] \in Images(y) /\ p \in Pages
  <2>1. p \in Cells(s) /\ p \notin old /\ p \in Pages
    BY <1>0 DEF Marked, Placed
  <2>2. p \in K /\ f[p] = c.map[p]
    BY <2>1 DEF FullKept, FullMap
  <2>3. c.map[p] \in Pages /\ c.map[p] \in Nat /\ c.map[p] < c.new /\ c.map[p] \in Images(y)
    BY FullImages
  <2>4. c.map[p] < Limit
    BY <2>3, <1>0, Areas
  <2> QED BY <2>1, <2>2, <2>3, <2>4
<1>2. ASSUME NEW p \in old
      PROVE  p \in K /\ p \in Cells(s) /\ f[p] = p /\ p \in Pages /\ p \in Nat /\ Limit <= p
  <2>1. p \in K /\ f[p] = p
    BY DEF FullKept, FullMap
  <2>2. p \in Cells(s)
    BY <1>0 DEF Placed
  <2> QED BY <2>1, <2>2, FullOthers
<1>3. K = moved \cup old
  BY DEF FullKept
<1>4. f \in [K -> Pages]
  <2>1. \A p \in K : f[p] \in Pages
    BY <1>1, <1>2, <1>3
  <2>2. f = [p \in K |-> f[p]]
    BY DEF FullMap
  <2> HIDE DEF f, K
  <2> QED BY <2>1, <2>2
<1> HIDE DEF K, f, moved, old
<1>5. ASSUME NEW p \in K, NEW q \in K, f[p] = f[q] PROVE p = q
  <2>1. CASE p \in moved /\ q \in moved
    <3>1. c.map[p] = c.map[q]
      BY <2>1, <1>1, <1>5
    <3> QED BY <2>1, <3>1, <1>0 DEF FXContext
  <2>2. CASE p \in old /\ q \in old
    BY <2>2, <1>2, <1>5
  <2>3. ASSUME NEW a \in moved, NEW b \in old PROVE f[a] # f[b]
    <3>1. f[a] \in Nat /\ f[a] < Limit
      BY <1>1, Areas
    <3>2. f[b] \in Nat /\ Limit <= f[b]
      BY <1>2
    <3> QED BY <3>1, <3>2, Areas
  <2> QED BY <2>1, <2>2, <2>3, <1>3, <1>5
<1>6. Cells(u) = {f[p] : p \in K}
  <2>1. Cells(u) = Images(y) \cup old
    BY FullCells DEF old
  <2>2. Images(y) = {f[p] : p \in moved}
    BY <1>0, <1>1 DEF Images
  <2>3. old = {f[p] : p \in old}
    BY <1>2
  <2> QED BY <2>1, <2>2, <2>3, <1>3
<1>7. ASSUME NEW w \in Cells(s) \cup {Nil}, NEW new,
             IF Within(w, y.start, y.end) THEN w \in Fixed(y, k) /\ new = y.map[w] ELSE new = w
      PROVE  Renamed(K, f, w, new)
  <2>1. \A v \in Cells(s) : Within(v, y.start, y.end) <=> v \in x.heads
    BY <1>0, MarkProper
  <2>2. ~Within(Nil, y.start, y.end)
    BY <1>0, MarkProper
  <2>3. CASE w = Nil
    BY <2>2, <2>3, <1>7 DEF Renamed
  <2>4. CASE w # Nil /\ w \in x.heads
    <3>1. w \in moved /\ new = c.map[w]
      BY <2>1, <2>4, <1>0, <1>7
    <3> QED BY <3>1, <2>4, <1>1 DEF Renamed
  <2>5. CASE w # Nil /\ w \notin x.heads
    <3>1. w \in old /\ new = w
      BY <2>1, <2>5, <1>0, <1>7
    <3> QED BY <3>1, <2>5, <1>2 DEF Renamed
  <2> QED BY <2>3, <2>4, <2>5
<1>8. ASSUME NEW r \in Roots PROVE Renamed(K, f, s.root[r], u.root[r])
  <2>1. words \in Words /\ Len(words) = Len(s.root) /\ Mapping(y, k, s.root, words) /\ Len(s.root) = RootCount
    BY <1>0, MarkProper DEF Full, AllFixed
  <2>2. r \in 1 .. Len(words)
    BY <2>1 DEF Roots
  <2>3. IF Within(s.root[r], y.start, y.end)
        THEN s.root[r] \in Fixed(y, k) /\ words[r] = y.map[s.root[r]] ELSE words[r] = s.root[r]
    BY <2>1, <2>2 DEF Mapping
  <2>4. s.root[r] \in Cells(s) \cup {Nil}
    BY <1>0 DEF Closed
  <2> QED BY <2>3, <2>4, <1>0, <1>7
<1>9. ASSUME NEW p \in K
       PROVE  /\ u.mem[f[p]].pages = s.mem[p].pages /\ u.mem[f[p]].vmt = s.mem[p].vmt
              /\ Len(u.mem[f[p]].fields) = Len(s.mem[p].fields)
              /\ \A i \in 1 .. Len(s.mem[p].fields) : Renamed(K, f, s.mem[p].fields[i], u.mem[f[p]].fields[i])
  <2> DEFINE q == f[p]
             old_f == s.mem[p].fields
             new_f == u.mem[q].fields
  <2>1. /\ u.mem[q].pages = s.mem[p].pages /\ u.mem[q].vmt = s.mem[p].vmt
        /\ Len(new_f) = Len(old_f) /\ Mapping(y, k, old_f, new_f)
    <3>1. CASE p \in moved
      <4>1. q = c.map[p]
        BY <3>1, <1>1
      <4>2. u.mem[c.map[p]] = k[c.map[p]] /\ k[c.map[p]].pages = s.mem[p].pages /\ k[c.map[p]].vmt = s.mem[p].vmt
            /\ Len(k[c.map[p]].fields) = Len(s.mem[p].fields)
            /\ Mapping(y, k, s.mem[p].fields, k[c.map[p]].fields)
        BY <3>1, FullImages DEF moved
      <4> QED BY <4>1, <4>2
    <3>2. CASE p \in old
      <4>1. q = p
        BY <3>2, <1>2
      <4>2. u.mem[p] = k[p] /\ k[p].pages = s.mem[p].pages /\ k[p].vmt = s.mem[p].vmt
            /\ Len(k[p].fields) = Len(s.mem[p].fields) /\ Mapping(y, k, s.mem[p].fields, k[p].fields)
        BY <3>2, FullOthers DEF old
      <4> QED BY <4>1, <4>2
    <3> QED BY <3>1, <3>2, <1>3
  <2>2. p \in Cells(s) /\ p \in Pages
    BY <1>1, <1>2, <1>3
  <2>3. s.mem[p].fields \in Words /\ ToSet(s.mem[p].fields) \subseteq Cells(s) \cup {Nil}
    BY <2>2, <1>0, HeaderType DEF Closed, Typed
  <2>4. \A i \in 1 .. Len(old_f) : old_f[i] \in Cells(s) \cup {Nil}
    BY <2>3 DEF ToSet, Words
  <2> HIDE DEF old_f, new_f, q
  <2>5. ASSUME NEW i \in 1 .. Len(old_f) PROVE Renamed(K, f, old_f[i], new_f[i])
    <3>1. IF Within(old_f[i], y.start, y.end)
          THEN old_f[i] \in Fixed(y, k) /\ new_f[i] = y.map[old_f[i]] ELSE new_f[i] = old_f[i]
      BY <2>1 DEF Mapping
    <3> QED BY <3>1, <2>4, <1>7
  <2> QED BY <2>1, <2>5 DEF q, old_f, new_f
<1>10. K \subseteq Cells(s)
  BY <1>1, <1>2, <1>3
<1>11. PermHeads(u) = PermHeads(s)
  BY FullHeads
<1>12. \A p \in PermHeads(s) : p \in K /\ f[p] = p
  BY <1>2 DEF old
<1>13. Relocated(s, u, K, f)
  BY <1>4, <1>5, <1>6, <1>8, <1>9, <1>10, <1>11, <1>12 DEF Relocated
<1> QED BY <1>13 DEF K, f

-----------------------------------------------------------------------------
\* Every page of a tiled area is in a tile.
LEMMA TiledCovers ==
  ASSUME NEW m, NEW S, NEW from \in Nat, NEW to \in Nat, Tiled(m, S, from, to),
         \A p \in S : m[p].pages \in Nat \ {0}, NEW p \in from .. to - 1
  PROVE  \E q \in S : q <= p /\ p < q + m[q].pages
<1> DEFINE T == {n \in Nat : \E q \in S : q <= from + n /\ from + n < q + m[q].pages}
           size == p - from
<1>0. S \subseteq from .. to - 1 /\ from \in S /\ (\A q \in S : q + m[q].pages \in S \cup {to}) /\ size \in Nat
      /\ from + size = p /\ (\A q \in S : q \in Nat) /\ p < to
  <2>1. S \subseteq from .. to - 1 /\ from < to /\ \A q \in S : q + m[q].pages \in S \cup {to}
    BY DEF Tiled
  <2>2. from \in S
    BY <2>1 DEF Tiled
  <2>3. p \in Nat /\ size \in Nat /\ from + size = p /\ p < to
    OBVIOUS
  <2> HIDE DEF size
  <2> QED BY <2>1, <2>2, <2>3
<1>1. 0 \in T
  BY <1>0
<1>2. ASSUME NEW n \in 0 .. size - 1, n \in T PROVE n + 1 \in T
  <2> DEFINE a == from + n
  <2>1. PICK q \in S : q <= a /\ a < q + m[q].pages
    BY <1>2
  <2>2. a \in Nat /\ from + (n + 1) = a + 1 /\ a + 1 < to /\ n + 1 \in Nat
    BY <1>0
  <2> HIDE DEF a
  <2>3. \E v \in S : v <= a + 1 /\ a + 1 < v + m[v].pages
    <3>1. CASE a + 1 < q + m[q].pages
      BY <3>1, <2>1, <2>2, <1>0
    <3>2. CASE ~(a + 1 < q + m[q].pages)
      <4> DEFINE v == q + m[q].pages
      <4>1. m[q].pages \in Nat \ {0} /\ q \in Nat
        BY <1>0
      <4>2. v = a + 1
        BY <4>1, <3>2, <2>1, <2>2
      <4>3. v \in S
        BY <4>2, <2>2, <1>0
      <4>4. m[v].pages \in Nat \ {0}
        BY <4>3
      <4> HIDE DEF v
      <4> QED BY <4>2, <4>3, <4>4, <2>2
    <3> QED BY <3>1, <3>2
  <2> QED BY <2>2, <2>3
<1>3. \A n \in 0 .. size : n \in T
  <2> HIDE DEF T, size
  <2> QED BY <1>0, <1>1, <1>2, UpTo
<1>4. size \in T
  <2> HIDE DEF T, size
  <2> QED BY <1>0, <1>3
<1> QED BY <1>0, <1>4

\* Between the headers of a tile there is none.
LEMMA TiledBetween ==
  ASSUME NEW m, NEW S, NEW from \in Nat, NEW to \in Nat, Tiled(m, S, from, to), NEW p \in S, NEW q,
         m[p].pages \in Nat, q \in p + 1 .. p + m[p].pages - 1
  PROVE  q \notin S /\ q < to /\ from <= q
<1>1. p \in from .. to - 1 /\ p + m[p].pages \in S \cup {to} /\ \A r \in S : p < r => p + m[p].pages <= r
  BY DEF Tiled
<1>2. S \subseteq from .. to - 1
  BY DEF Tiled
<1> QED BY <1>1, <1>2

\* A page inside an object that has been moved was inside it before.
LEMMA FullInside ==
  ASSUME NEW s, NEW x, NEW m, NEW c, NEW y, NEW k, NEW words, NEW u, Full(s, x, m, c, y, k, words, u),
         NEW p \in 2 * YGSize .. c.new - 1, p \notin Targets(c)
  PROVE  \E r \in Pages : r \notin Cells(s) /\ u.mem[p] = s.mem[r] /\ (s.mem[r].marked => p <= r)
<1>1. Compacted(m, c) /\ c.new \in Nat /\ c.new <= Limit /\ c.mem \in Memories /\ m \in Memories /\ Placed(s)
      /\ x.mem = s.mem /\ x.heads = Cells(s) \ PermHeads(s) /\ y.heads = Marked(x, m) /\ y.map = c.map
      /\ Rest(s) /\ Typed(s) /\ Covered(s) /\ TableOK(s.table)
  BY FullFacts
<1>2. p \in Nat /\ 2 * YGSize <= p /\ p < c.new /\ p < Limit /\ p \in Pages /\ Limit \in Nat /\ YGSize \in Nat
  BY <1>1, Areas
<1>3. u.mem[p] = c.mem[p]
  <2>1. \A q \in Marked(x, m) : c.map[q] \in Targets(c)
    BY FullImages
  <2>2. p \notin Images(y)
    BY <1>1, <2>1 DEF Images
  <2>3. k[p] = c.mem[p]
    BY <1>2, <2>2, FullOthers
  <2>4. u.mem[p] = k[p]
    BY <1>2 DEF Full, Finished
  <2> QED BY <2>3, <2>4
<1>4. Tiled(c.mem, Targets(c), 2 * YGSize, c.new) /\ Targets(c) \subseteq 2 * YGSize .. c.new - 1
  BY <1>1 DEF Compacted, Tiled
<1>5. \A q \in Targets(c) : q \in Pages
  BY <1>1, <1>4, Areas
<1>6. PICK v \in Targets(c) : v <= p /\ p < v + c.mem[v].pages
  <2> DEFINE S == Targets(c)
             a == c.mem
             from == 2 * YGSize
             to == c.new
  <2>1. Tiled(a, S, from, to) /\ from \in Nat /\ to \in Nat /\ p \in from .. to - 1
    BY <1>1, <1>2, <1>4
  <2>2. \A q \in S : a[q].pages \in Nat \ {0}
    BY <1>1, <1>5, HeaderType
  <2> HIDE DEF S, a, from, to
  <2>3. \E q \in S : q <= p /\ p < q + a[q].pages
    BY <2>1, <2>2, TiledCovers
  <2> QED BY <2>3 DEF S, a
<1>7. PICK q \in Mapped(c) : v = c.map[q]
  BY DEF Targets
<1>8. q \in Pages /\ q \in Nat /\ m[q].marked /\ (2 * YGSize <= q => v <= q) /\ v \in Nat /\ v \in Pages
  BY <1>1, <1>5, <1>7, Areas DEF Mapped, Compacted
<1>9. \A j \in 0 .. m[q].pages - 1 : q + j \in Pages /\ c.mem[v + j] = m[q + j]
  BY <1>1, <1>7 DEF Compacted
<1>10. m[q].pages \in Nat \ {0} /\ m[q].pages = s.mem[q].pages
  BY <1>1, <1>8, HeaderType DEF Full, Promoted, AllMarked, MGHeap
<1>11. c.mem[v].pages = m[q].pages
  <2>1. 0 \in 0 .. m[q].pages - 1
    BY <1>10
  <2>2. c.mem[v + 0] = m[q + 0]
    BY <2>1, <1>9
  <2> QED BY <2>2, <1>8
<1> DEFINE j == p - v
           r == q + j
<1>12. j \in 1 .. m[q].pages - 1 /\ j \in 0 .. m[q].pages - 1 /\ v + j = p
  <2>1. v # p
    OBVIOUS
  <2> QED BY <2>1, <1>2, <1>6, <1>8, <1>10, <1>11
<1>13. r \in Pages /\ c.mem[p] = m[r]
  BY <1>9, <1>12
<1>14. r \in q + 1 .. q + s.mem[q].pages - 1 /\ r \in Nat /\ q < r
  BY <1>8, <1>10, <1>12
<1>15. /\ s.table.gc_mg_current \in Nat /\ s.table.gc_mg_current <= Limit /\ 2 * YGSize <= s.table.gc_mg_current
       /\ s.table.gc_yg_current \in Nat /\ s.table.gc_yg_current <= 2 * YGSize
       /\ s.table.gc_yg_start \in Nat /\ s.table.gc_mg_start = 2 * YGSize /\ s.table.gc_mg_start \in Nat
  BY <1>1, TableFacts, Areas
<1>16. \A w \in Cells(s) : \/ w \in YoungHeads(s) /\ w < 2 * YGSize
                           \/ w \in MatureHeads(s) /\ 2 * YGSize <= w /\ w < s.table.gc_mg_current
                           \/ Limit <= w
  <2>1. \A w \in YoungHeads(s) : w \in Nat /\ w < 2 * YGSize
    BY <1>1, <1>15, <1>2 DEF Placed
  <2>2. \A w \in PermHeads(s) : Limit <= w
    BY FullOthers
  <2> QED BY <2>1, <2>2, <1>1 DEF Placed
<1>17. (q \in MatureHeads(s) \/ q \in YoungHeads(s) \/ s.table.gc_mg_current <= q)
  BY <1>7 DEF Full, Promoted, Packed
<1> HIDE DEF r, j
<1>18. r \notin Cells(s) /\ (2 * YGSize <= r => v <= q)
  <2>1. CASE q \in MatureHeads(s)
    <3>1. Tiled(s.mem, MatureHeads(s), s.table.gc_mg_start, s.table.gc_mg_current)
      BY <1>1 DEF Covered
    <3>2. r \notin MatureHeads(s) /\ r < s.table.gc_mg_current /\ s.table.gc_mg_start <= r
      <4> DEFINE S == MatureHeads(s)
                 from == s.table.gc_mg_start
                 to == s.table.gc_mg_current
                 a == s.mem
      <4>1. Tiled(a, S, from, to) /\ from \in Nat /\ to \in Nat /\ q \in S /\ a[q].pages \in Nat
            /\ r \in q + 1 .. q + a[q].pages - 1
        BY <2>1, <3>1, <1>10, <1>14, <1>15
      <4> HIDE DEF S, from, to, a
      <4>2. r \notin S /\ r < to
        BY <4>1, TiledBetween
      <4>3. from <= r
        BY <4>1, TiledBetween
      <4> QED BY <4>2, <4>3 DEF S, from, to
    <3>3. 2 * YGSize <= q
      BY <2>1, <1>1 DEF Placed
    <3> QED BY <3>2, <3>3, <1>2, <1>8, <1>14, <1>15, <1>16
  <2>2. CASE q \in YoungHeads(s)
    <3>1. Tiled(s.mem, YoungHeads(s), s.table.gc_yg_start, s.table.gc_yg_current)
      BY <1>1 DEF Covered
    <3>2. r \notin YoungHeads(s) /\ r < s.table.gc_yg_current
      <4> DEFINE S == YoungHeads(s)
                 from == s.table.gc_yg_start
                 to == s.table.gc_yg_current
                 a == s.mem
      <4>1. Tiled(a, S, from, to) /\ from \in Nat /\ to \in Nat /\ q \in S /\ a[q].pages \in Nat
            /\ r \in q + 1 .. q + a[q].pages - 1
        BY <2>2, <3>1, <1>10, <1>14, <1>15
      <4> HIDE DEF S, from, to, a
      <4>2. r \notin S /\ r < to
        BY <4>1, TiledBetween
      <4> QED BY <4>2 DEF S, to
    <3> QED BY <3>2, <1>2, <1>14, <1>15, <1>16
  <2>3. CASE s.table.gc_mg_current <= q
    <3>1. 2 * YGSize <= q
      BY <2>3, <1>2, <1>8, <1>15
    <3>2. q + m[q].pages <= Limit
      <4>1. CompactContext(s.table, m, MatureHeads(s), YoungHeads(s))
        BY MarkedContext DEF Full, Promoted
      <4> QED BY <4>1, <3>1, <1>8 DEF CompactContext
    <3>3. r < Limit /\ s.table.gc_mg_current < r
      BY <3>2, <2>3, <1>2, <1>8, <1>10, <1>14, <1>15
    <3> QED BY <3>1, <3>3, <1>2, <1>8, <1>14, <1>15, <1>16
  <2> QED BY <2>1, <2>2, <2>3, <1>17
<1>19. m[r] = s.mem[r]
  <2>1. r \notin Marked(x, m)
    BY <1>1, <1>18 DEF Marked
  <2> QED BY <2>1, <1>1, <1>13 DEF Full, Promoted, AllMarked, MGHeap
<1>20. ASSUME s.mem[r].marked PROVE p <= r
  <2>1. r \in 2 * YGSize .. Limit - 1
    BY <1>13, <1>20, <1>1 DEF Rest
  <2>2. v <= q
    BY <2>1, <1>2, <1>18
  <2> QED BY <2>2, <1>2, <1>8, <1>12, <1>14 DEF r, j
<1> QED BY <1>3, <1>13, <1>18, <1>19, <1>20

\* After a full collection there are no fields but those of objects.
LEMMA FullRest ==
  ASSUME NEW s, NEW x, NEW m, NEW c, NEW y, NEW k, NEW words, NEW u, Full(s, x, m, c, y, k, words, u)
  PROVE  Rest(u) /\ Typed(u)
<1>0. /\ Compacted(m, c) /\ c.new \in Nat /\ c.new <= Limit /\ 2 * YGSize <= c.new
      /\ c.mem \in Memories /\ m \in Memories /\ k \in Memories
      /\ Placed(s) /\ Rest(s) /\ Typed(s) /\ y.mem = c.mem /\ y.heads = Marked(x, m) /\ y.map = c.map
      /\ u.mem \in Memories /\ u.root = words /\ u.cards \subseteq 2 * YGSize .. Limit - 1
      /\ Limit \in Nat /\ YGSize \in Nat
  <2>1. Finished(s, c, k, words, u)
    BY DEF Full
  <2>2. u.mem \in Memories /\ u.root = words /\ u.cards \subseteq 2 * YGSize .. Limit - 1
    BY <2>1 DEF Finished
  <2> QED BY <2>2, FullFacts, Areas
<1>1. Cells(u) = Images(y) \cup PermHeads(s)
  BY FullCells
<1>2. ASSUME NEW p \in Pages
      PROVE  /\ p \notin Cells(u) => u.mem[p].fields = <<>>
             /\ u.mem[p].marked => p \in 2 * YGSize .. Limit - 1 /\ p + u.mem[p].pages <= Limit
             /\ u.mem[p].vmt \in Objects \cup {NoObject}
  <2>0. p \in Nat /\ u.mem[p].pages \in Nat
    BY <1>0, HeaderType, Areas
  <2>1. CASE p < 2 * YGSize
    <3>1. u.mem[p] = Zero
      BY <2>1 DEF Full, Finished
    <3> QED BY <3>1 DEF Zero
  <2>2. CASE c.new <= p /\ p < Limit
    <3>1. /\ u.mem[p].fields = <<>> /\ u.mem[p].vmt = NoObject /\ u.mem[p].marked = k[p].marked
          /\ k[p].marked => u.mem[p].pages = k[p].pages
      BY <2>2 DEF Full, Finished
    <3>2. ASSUME k[p].marked PROVE p + k[p].pages <= Limit
      <4>1. p \notin Images(y)
        <5>1. \A q \in Images(y) : q \in Nat /\ q < c.new
          BY FullOthers
        <5> QED BY <5>1, <2>0, <2>2, <1>0
      <4>2. k[p] = c.mem[p]
        BY <4>1, <2>2, FullOthers
      <4>3. c.mem[p] = m[p]
        <5>1. p \notin 2 * YGSize .. c.new - 1
          BY <2>2, <2>0, <1>0
        <5> QED BY <5>1, <1>0 DEF Compacted
      <4>4. CompactContext(s.table, m, MatureHeads(s), YoungHeads(s))
        BY MarkedContext DEF Full, Promoted
      <4>5. 2 * YGSize <= p
        BY <2>0, <2>2, <1>0
      <4> QED BY <4>2, <4>3, <4>4, <4>5, <3>2 DEF CompactContext
    <3>3. p \in 2 * YGSize .. Limit - 1
      BY <2>0, <2>2, <1>0
    <3> QED BY <3>1, <3>2, <3>3
  <2>3. CASE Limit <= p
    <3>1. CASE p \in PermHeads(s)
      <4>1. p \in Cells(u) /\ ~u.mem[p].marked /\ u.mem[p].vmt = s.mem[p].vmt
        BY <3>1, <1>1, FullOthers
      <4> QED BY <4>1, <1>0 DEF Typed
    <3>2. CASE p \notin PermHeads(s)
      <4>1. u.mem[p] = s.mem[p]
        BY <2>3, <3>2, FullOthers
      <4>2. p \notin Cells(s)
        <5>1. TableOK(s.table)
          BY FullFacts
        <5>2. s.table.gc_yg_current <= Limit /\ s.table.gc_mg_current <= Limit
              /\ s.table.gc_yg_current \in Nat /\ s.table.gc_mg_current \in Nat
          BY <5>1, TableFacts, Areas
        <5>3. (\A q \in YoungHeads(s) : q \in Nat /\ q < s.table.gc_yg_current)
              /\ \A q \in MatureHeads(s) : q \in Nat /\ q < s.table.gc_mg_current
          BY <1>0 DEF Placed
        <5>4. p \notin YoungHeads(s) /\ p \notin MatureHeads(s)
          BY <5>2, <5>3, <2>0, <2>3, <1>0
        <5> QED BY <5>4, <3>2, <1>0 DEF Placed
      <4>3. s.mem[p].fields = <<>> /\ ~s.mem[p].marked
        <5>1. p \notin 2 * YGSize .. Limit - 1
          BY <2>0, <2>3, <1>0
        <5> QED BY <4>2, <5>1, <1>0 DEF Rest
      <4> QED BY <4>1, <4>3, <1>0 DEF Typed
    <3> QED BY <3>1, <3>2
  <2>4. CASE 2 * YGSize <= p /\ p < c.new
    <3>0. p \in 2 * YGSize .. c.new - 1 /\ p \in 2 * YGSize .. Limit - 1
      BY <2>0, <2>4, <1>0
    <3>1. CASE p \in Images(y)
      <4>1. PICK q \in Marked(x, m) : p = c.map[q]
        BY <3>1, <1>0 DEF Images
      <4>2. u.mem[p] = k[p] /\ ~k[p].marked /\ k[p].vmt = s.mem[q].vmt
        BY <4>1, FullImages
      <4>3. q \in Pages
        BY PromotedObjects DEF Full
      <4> QED BY <3>1, <4>2, <4>3, <1>0, <1>1 DEF Typed
    <3>2. CASE p \in Targets(c) /\ p \notin Images(y)
      <4>1. PICK q \in Pages : q \notin Cells(s) /\ u.mem[p] = s.mem[q]
        BY <3>2, FullStale
      <4>2. p + u.mem[p].pages <= c.new
        BY <3>2, FullStale
      <4>3. p + u.mem[p].pages <= Limit
        BY <4>2, <2>0, <1>0
      <4> QED BY <3>0, <4>1, <4>3, <1>0 DEF Rest, Typed
    <3>3. CASE p \notin Targets(c)
      <4>1. PICK r \in Pages : r \notin Cells(s) /\ u.mem[p] = s.mem[r] /\ (s.mem[r].marked => p <= r)
        BY <3>0, <3>3, FullInside
      <4>2. ASSUME s.mem[r].marked PROVE p + s.mem[r].pages <= Limit
        <5>1. r + s.mem[r].pages <= Limit
          BY <4>2, <1>0 DEF Rest
        <5>2. r \in Nat /\ s.mem[r].pages \in Nat
          BY <4>1, <2>0, Areas
        <5> QED BY <5>1, <5>2, <4>1, <4>2, <2>0, <1>0
      <4> QED BY <3>0, <4>1, <4>2, <1>0 DEF Rest, Typed
    <3> QED BY <3>1, <3>2, <3>3
  <2> QED BY <2>0, <2>1, <2>2, <2>3, <2>4, <1>0
<1>3. words \in Words /\ Len(words) = RootCount
  BY FixProper DEF Full, AllFixed
<1>4. u.root \in [Roots -> Pages \cup {Nil}]
  BY <1>0, <1>3 DEF Words, Roots
<1> QED BY <1>0, <1>2, <1>4 DEF Rest, Typed

\* A full collection keeps the heap in order, and every object that can be
\* reached, and leaves the young generation empty.
FullResult(s, u) ==
  /\ HeapOK(u)
  /\ \E K, f : Relocated(s, u, K, f)
  /\ Settled(s.table, u.table, u.table.gc_mg_current)

\* A full collection that stays below Limit leaves a heap in order with the
\* same graph.
LEMMA FullCollectWorks ==
  ASSUME NEW s, HeapOK(s), FullCollect(s).table.gc_mg_current <= Limit
  PROVE  FullResult(s, FullCollect(s))
<1> DEFINE t == s.table
           x == MarkContext(s)
           m == MarkRoots(s)
           c == CompactAndPromote(t, m)
           y == FixContext(s, Marked(x, m), c)
           r == FixObject(t, c.map, c.mem, s.root)
           k == FixPermanent(t, c.map, r.mem)
           u == Finish(s, c, r)
<1>1. u = FullCollect(s) /\ t = s.table
  BY DEF FullCollect
<1>2. x = MarkContext(s) /\ m = MarkRoots(s) /\ c = CompactAndPromote(t, m)
      /\ y = FixContext(s, Marked(x, m), c) /\ r = FixObject(t, c.map, c.mem, s.root)
      /\ k = FixPermanent(t, c.map, r.mem) /\ u = Finish(s, c, r)
  OBVIOUS
<1> HIDE DEF x, m, c, y, r, k, u, t
<1>3. AllMarked(s, x, m) /\ MGContext(x)
  BY <1>2, MarkRootsWorks, MarkProper
<1>4. CompactContext(t, m, MatureHeads(s), YoungHeads(s))
  BY <1>1, <1>2, <1>3, MarkedContext
<1>5. Packed(t, m, MatureHeads(s), YoungHeads(s), c)
  BY <1>2, <1>4, CompactAndPromoteWorks
<1>6. u.table.gc_mg_current = c.new
  <2>1. u.table = Settling(t, c.new)
    BY <1>1, <1>2 DEF Finish, Settling
  <2>2. t \in Tables
    BY <1>1 DEF HeapOK, TableOK
  <2>3. [t EXCEPT !.gc_mg_current = c.new].gc_mg_current = c.new
    BY <2>2 DEF Tables
  <2> QED BY <2>1, <2>2 DEF Settling, Tables
<1>7. c.new <= Limit
  BY <1>1, <1>6
<1>8. Promoted(s, x, m, c)
  BY <1>1, <1>2, <1>3, <1>5, <1>7, CellsPlaced DEF Promoted, HeapOK
<1>9. AllFixed(s, y, r.words, k)
  <2>1. AllFixed(s, y, r.words, FixPermanent(s.table, c.map, r.mem))
    BY <1>1, <1>2, <1>8, FixWorks
  <2> QED BY <2>1, <1>1, <1>2
<1>10. Finished(s, c, k, r.words, u)
  <2>1. c.new \in 2 * YGSize .. Limit
    BY <1>5, <1>7, Areas DEF Packed, Compacted, Compactions
  <2>2. k \in Memories
    BY <1>9 DEF AllFixed, FXHeap
  <2>3. TableOK(s.table)
    BY DEF HeapOK
  <2>4. Finished(s, c, k, r.words, Finish(s, c, r))
    BY <2>1, <2>2, <2>3, <1>1, <1>2, FinishWorks
  <2> QED BY <2>4, <1>2
<1>11. Full(s, x, m, c, y, k, r.words, u)
  BY <1>2, <1>8, <1>9, <1>10 DEF Full
<1>12. Rest(u) /\ Typed(u)
  BY <1>11, FullRest
<1>13. YoungHeads(u) = {} /\ Covered(u)
  BY <1>11, FullHeads
<1>14. Relocated(s, u, FullKept(s, x, m), FullMap(s, x, m, c))
  BY <1>11, FullRelocated
<1>15. Closed(u) /\ Shaped(u)
  BY <1>12, <1>14, RelocatedOK DEF HeapOK, Typed
<1>16. Carded(u)
  BY <1>13 DEF Carded
<1>17. TableOK(u.table) /\ Settled(s.table, u.table, u.table.gc_mg_current)
  BY <1>6, <1>10 DEF Finished
<1>18. HeapOK(u)
  BY <1>12, <1>13, <1>15, <1>16, <1>17 DEF HeapOK
<1>19. FullResult(s, u)
  BY <1>14, <1>17, <1>18 DEF FullResult
<1> QED BY <1>1, <1>19

-----------------------------------------------------------------------------
(* What can be reached is the smallest set that is closed.                 *)

\* The step after which no more is found.
Settlement(loop) == CHOOSE n \in 0 .. PermStart + PermSize - 1 : loop[n + 1] = loop[n]

\* The step that is chosen is one after which no more is found.
LEMMA SettlementWorks ==
  ASSUME NEW loop, \E n \in 0 .. PermStart + PermSize - 1 : loop[n + 1] = loop[n]
  PROVE  Settlement(loop) \in 0 .. PermStart + PermSize - 1 /\ loop[Settlement(loop) + 1] = loop[Settlement(loop)]
BY DEF Settlement

\* Reach is the state of its loop that no step extends.
LEMMA ReachLoop ==
  ASSUME NEW m, NEW found
  PROVE  Reach(m, found) = Reaches(m, found)[Settlement(Reaches(m, found))]
BY DEF Reach, Settlement

\* What has been found after n steps.
Reaching(loop, m, found) ==
  /\ loop[0] = found
  /\ \A n \in 1 .. PermStart + PermSize : loop[n] = loop[n - 1] \cup UNION {ToSet(m[p].fields) \cap Pages : p \in loop[n - 1]}

\* Reaches is the loop it is written as.
LEMMA ReachesDef ==
  ASSUME NEW m, NEW found, PermStart + PermSize \in Nat
  PROVE  Reaching(Reaches(m, found), m, found)
<1> DEFINE Nxt(R, n) == R \cup UNION {ToSet(m[p].fields) \cap Pages : p \in R}
           Rec(f, k) == f = [n \in 0 .. k |-> IF n = 0 THEN found ELSE Nxt(f[n - 1], n)]
           T == {k \in Nat : \E f : Rec(f, k)}
<1>0. PermStart + PermSize \in Nat
  OBVIOUS
<1>1. 0 \in T
  <2>1. Rec([n \in 0 .. 0 |-> found], 0)
    BY <1>0
  <2> QED BY <2>1
<1>2. ASSUME NEW k \in T PROVE k + 1 \in T
  <2>1. PICK f : Rec(f, k)
    OBVIOUS
  <2> DEFINE g == [n \in 0 .. (k + 1) |-> IF n <= k THEN f[n] ELSE Nxt(f[k], n)]
  <2> HIDE DEF Nxt
  <2>2. ASSUME NEW n \in 0 .. (k + 1)
        PROVE  g[n] = IF n = 0 THEN found ELSE Nxt(g[n - 1], n)
    <3>1. CASE n = 0
      BY <2>1, <3>1, <1>0
    <3>2. CASE n \in 1 .. k
      <4>1. n \in 0 .. k /\ n - 1 \in 0 .. k /\ n # 0 /\ n - 1 \in 0 .. (k + 1)
        BY <3>2, <1>0
      <4>2. g[n] = f[n] /\ g[n - 1] = f[n - 1]
        BY <4>1, <1>0
      <4>3. f[n] = Nxt(f[n - 1], n)
        BY <2>1, <4>1
      <4> QED BY <4>1, <4>2, <4>3
    <3>3. CASE n = k + 1
      BY <3>3, <1>0
    <3> QED BY <3>1, <3>2, <3>3, <1>0
  <2>3. Rec(g, k + 1)
    BY <2>2
  <2> HIDE DEF g, Rec
  <2> QED BY <2>3
<1>3. T = Nat
  <2> HIDE DEF T
  <2>1. T \in SUBSET Nat
    BY DEF T
  <2> QED BY <1>1, <1>2, <2>1, NatSetInduction
<1>4. \E f : Rec(f, PermStart + PermSize)
  <2>1. \A k \in T : \E f : Rec(f, k)
    OBVIOUS
  <2> HIDE DEF T
  <2> QED BY <1>3, <1>0, <2>1
<1>4a. \E f : f = [n \in 0 .. PermStart + PermSize |-> IF n = 0 THEN found ELSE Nxt(f[n - 1], n)]
  <2>1. (PermStart + PermSize) = PermStart + PermSize
    BY <1>0
  <2>2. PICK f : Rec(f, PermStart + PermSize)
    BY <1>4
  <2> HIDE DEF Nxt
  <2>3. f = [n \in 0 .. PermStart + PermSize |-> IF n = 0 THEN found ELSE Nxt(f[n - 1], n)]
    BY <2>1, <2>2
  <2> QED BY <2>3
<1>5. Reaches(m, found) = [n \in 0 .. PermStart + PermSize |-> IF n = 0 THEN found ELSE Nxt(Reaches(m, found)[n - 1], n)]
  BY <1>4a DEF Reaches
<1> DEFINE loop == Reaches(m, found)
<1>6. loop[0] = found /\ \A n \in 1 .. PermStart + PermSize : loop[n] = Nxt(loop[n - 1], n)
  <2>1. loop = [n \in 0 .. PermStart + PermSize |-> IF n = 0 THEN found ELSE Nxt(loop[n - 1], n)]
    BY <1>5
  <2> HIDE DEF Nxt, loop
  <2> QED BY <2>1, <1>0
<1>7. loop[0] = found /\ \A n \in 1 .. PermStart + PermSize : loop[n] = loop[n - 1] \cup UNION {ToSet(m[p].fields) \cap Pages : p \in loop[n - 1]}
  <2> HIDE DEF loop
  <2> QED BY <1>6
<1> HIDE DEF loop
<1>8. Reaching(loop, m, found)
  BY <1>7 DEF Reaching
<1> QED BY <1>8 DEF loop

\* Z has what has been found, and with an object all that it refers to.
Closing(m, found, Z) == found \subseteq Z /\ \A p \in Z : ToSet(m[p].fields) \cap Pages \subseteq Z

Reached(m, found, R) ==
  /\ R \subseteq Pages /\ Closing(m, found, R)
  /\ \A Z : Closing(m, found, Z) => R \subseteq Z

\* Reach is the smallest set with the given objects that is closed under
\* references.
LEMMA ReachWorks ==
  ASSUME NEW m, NEW found \in SUBSET Pages
  PROVE  Reached(m, found, Reach(m, found))
<1> DEFINE N == PermStart + PermSize
           loop == Reaches(m, found)
           More(R) == R \cup UNION {ToSet(m[p].fields) \cap Pages : p \in R}
<1>0. N \in Nat /\ N >= 1 /\ Pages = 0 .. N - 1
  BY Areas DEF Pages
<1>0a. N = PermStart + PermSize
  OBVIOUS
<1>1. loop[0] = found /\ \A n \in 1 .. N : loop[n] = More(loop[n - 1])
  <2>1. Reaching(loop, m, found)
    BY <1>0, ReachesDef
  <2> HIDE DEF loop
  <2> QED BY <2>1 DEF Reaching
<1>1a. Reach(m, found) = loop[Settlement(loop)]
  BY ReachLoop
<1> HIDE DEF loop, N
<1>2. \A n \in 0 .. N - 1 : loop[n + 1] = More(loop[n])
  <2> SUFFICES ASSUME NEW n \in 0 .. N - 1 PROVE loop[n + 1] = More(loop[n])
    OBVIOUS
  <2>1. n + 1 \in 1 .. N /\ (n + 1) - 1 = n
    BY <1>0
  <2>2. loop[n + 1] = More(loop[(n + 1) - 1])
    BY <1>1, <2>1
  <2> QED BY <2>1, <2>2
<1>3. \A R \in SUBSET Pages : More(R) \in SUBSET Pages /\ R \subseteq More(R)
  OBVIOUS
<1> HIDE DEF More
<1>4. \A n \in 0 .. N : loop[n] \in SUBSET Pages
  <2> DEFINE T == {n \in Nat : loop[n] \in SUBSET Pages}
  <2>1. 0 \in T
    BY <1>1
  <2>2. \A n \in 0 .. N - 1 : n \in T => n + 1 \in T
    BY <1>2, <1>3
  <2>3. \A n \in 0 .. N : n \in T
    <3> HIDE DEF T
    <3> QED BY <2>1, <2>2, <1>0, UpTo
  <2> QED BY <2>3
<1>5. \E n \in 0 .. N - 1 : loop[n + 1] = loop[n]
  <2>1. CASE found = {}
    <3>1. loop[1] = More(loop[0]) /\ 0 \in 0 .. N - 1
      <4>1. 0 \in 0 .. N - 1 /\ 0 + 1 = 1
        BY <1>0
      <4> QED BY <4>1, <1>2
    <3>2. More({}) = {}
      BY DEF More
    <3>3. loop[0 + 1] = loop[0]
      BY <3>1, <3>2, <2>1, <1>1
    <3> QED BY <3>1, <3>3
  <2>2. CASE found # {}
    <3> SUFFICES ASSUME \A n \in 0 .. N - 1 : loop[n + 1] # loop[n] PROVE FALSE
      OBVIOUS
    <3>1. IsFiniteSet(Pages) /\ Cardinality(Pages) = N
      BY <1>0, FS_Interval
    <3>2. \A n \in 0 .. N : IsFiniteSet(loop[n]) /\ Cardinality(loop[n]) \in Nat /\ Cardinality(loop[n]) <= N
      BY <3>1, <1>4, FS_Subset, FS_CardinalityType
    <3> DEFINE T == {n \in Nat : Cardinality(loop[n]) >= n + 1}
    <3>3. 0 \in T
      <4>1. loop[0] # {} /\ IsFiniteSet(loop[0]) /\ Cardinality(loop[0]) \in Nat
        BY <2>2, <1>0, <1>1, <3>2
      <4>2. Cardinality(loop[0]) # 0
        BY <4>1, FS_EmptySet
      <4> QED BY <4>1, <4>2
    <3>4. ASSUME NEW n \in 0 .. N - 1, n \in T PROVE n + 1 \in T
      <4>1. n \in 0 .. N /\ n + 1 \in 0 .. N /\ n \in Nat
        BY <1>0
      <4>2. loop[n] \subseteq loop[n + 1] /\ loop[n] # loop[n + 1]
        BY <4>1, <1>2, <1>3, <1>4
      <4>3. IsFiniteSet(loop[n + 1]) /\ Cardinality(loop[n]) \in Nat /\ Cardinality(loop[n + 1]) \in Nat
        BY <4>1, <3>2
      <4>4. Cardinality(loop[n]) < Cardinality(loop[n + 1])
        <5> DEFINE A == loop[n]
                   B == loop[n + 1]
        <5>1. A \in SUBSET B /\ IsFiniteSet(B) /\ A # B /\ Cardinality(A) \in Nat /\ Cardinality(B) \in Nat
          BY <4>2, <4>3
        <5> HIDE DEF A, B
        <5>2. Cardinality(A) < Cardinality(B)
          BY <5>1, FS_Subset
        <5> QED BY <5>2 DEF A, B
      <4>5. Cardinality(loop[n]) >= n + 1
        BY <3>4
      <4> QED BY <4>1, <4>3, <4>4, <4>5
    <3>5. \A n \in 0 .. N : n \in T
      <4> HIDE DEF T
      <4> QED BY <3>3, <3>4, <1>0, UpTo
    <3>6. Cardinality(loop[N]) >= N + 1 /\ Cardinality(loop[N]) <= N /\ Cardinality(loop[N]) \in Nat
      BY <3>5, <3>2, <1>0
    <3> QED BY <3>6, <1>0
  <2> QED BY <2>1, <2>2
<1> DEFINE k == Settlement(loop)
           R == loop[k]
<1>6. k \in 0 .. N - 1 /\ loop[k + 1] = loop[k]
  <2>1. \E n \in 0 .. PermStart + PermSize - 1 : loop[n + 1] = loop[n]
    BY <1>5, <1>0a, <1>0, Areas
  <2>2. Settlement(loop) \in 0 .. PermStart + PermSize - 1 /\ loop[Settlement(loop) + 1] = loop[Settlement(loop)]
    BY <2>1, SettlementWorks
  <2> QED BY <2>2, <1>0a, <1>0, Areas
<1>7. Reach(m, found) = R
  BY <1>1a
<1> HIDE DEF k
<1>8. R \in SUBSET Pages /\ R = More(R)
  BY <1>2, <1>4, <1>6, <1>0
<1>9. ASSUME NEW Z, Closing(m, found, Z) PROVE \A n \in 0 .. N : loop[n] \subseteq Z
  <2> DEFINE T == {n \in Nat : loop[n] \subseteq Z}
  <2>1. 0 \in T
    BY <1>1, <1>9 DEF Closing
  <2>2. \A A : A \subseteq Z => More(A) \subseteq Z
    BY <1>9 DEF Closing, More
  <2>3. \A n \in 0 .. N - 1 : n \in T => n + 1 \in T
    BY <1>2, <2>2
  <2>4. \A n \in 0 .. N : n \in T
    <3> HIDE DEF T
    <3> QED BY <2>1, <2>3, <1>0, UpTo
  <2> QED BY <2>4
<1>10. \A Z : Closing(m, found, Z) => R \subseteq Z
  BY <1>6, <1>9, <1>0
<1>11. found \subseteq R
  <2> DEFINE T == {n \in Nat : found \subseteq loop[n]}
  <2>1. 0 \in T
    BY <1>1
  <2>2. ASSUME NEW n \in 0 .. N - 1, n \in T PROVE n + 1 \in T
    BY <2>2, <1>2, <1>3, <1>4, <1>0
  <2>3. \A n \in 0 .. N : n \in T
    <3> HIDE DEF T
    <3> QED BY <2>1, <2>2, <1>0, UpTo
  <2> QED BY <2>3, <1>6, <1>0
<1> HIDE DEF R
<1>12. Closing(m, found, R)
  BY <1>8, <1>11 DEF Closing, More
<1> QED BY <1>7, <1>8, <1>10, <1>12 DEF Reached

-----------------------------------------------------------------------------
(* The objects of a state that can be reached.                             *)

\* Z has what the roots refer to and, with an object, all that it refers to.
Rooted(s, Z) ==
  /\ \A r \in Roots : s.root[r] \in Z \cup {Nil}
  /\ PermHeads(s) \subseteq Z
  /\ \A p \in Z : \A i \in 1 .. Len(s.mem[p].fields) : s.mem[p].fields[i] \in Z \cup {Nil}

Lives(s, L) ==
  /\ L \subseteq Cells(s) /\ L \subseteq Pages /\ Rooted(s, L)
  /\ \A Z \in SUBSET Pages : Rooted(s, Z) => L \subseteq Z

\* What is live are objects, closed under references.
LEMMA LiveWorks ==
  ASSUME NEW s, HeapOK(s)
  PROVE  Lives(s, LiveOf(s))
<1> DEFINE m == s.mem
           found == (ToSet(s.root) \cap Pages) \cup PermHeads(s)
           L == LiveOf(s)
<1>1. TableOK(s.table) /\ Covered(s) /\ Rest(s) /\ Closed(s) /\ Typed(s)
  BY DEF HeapOK
<1>2. Placed(s)
  BY <1>1, CellsPlaced
<1>3. \A p \in PermHeads(s) : p \in Pages /\ p \in Cells(s)
  BY <1>2 DEF Placed
<1>4. s.root \in [Roots -> Pages \cup {Nil}] /\ m \in Memories
  BY <1>1 DEF Typed
<1>5. ToSet(s.root) = {s.root[r] : r \in Roots}
  BY <1>4 DEF ToSet
<1>6. \A p \in Pages : m[p].fields \in Words /\ ToSet(m[p].fields) = {m[p].fields[i] : i \in 1 .. Len(m[p].fields)}
  <2> SUFFICES ASSUME NEW p \in Pages
               PROVE  m[p].fields \in Words /\ ToSet(m[p].fields) = {m[p].fields[i] : i \in 1 .. Len(m[p].fields)}
    OBVIOUS
  <2> DEFINE w == m[p].fields
  <2>1. w \in Words
    BY <1>4, HeaderType
  <2> HIDE DEF w
  <2>2. ToSet(w) = {w[i] : i \in 1 .. Len(w)}
    BY <2>1 DEF ToSet, Words
  <2> QED BY <2>1, <2>2 DEF w
<1>7. \A p \in Pages : \A i \in 1 .. Len(m[p].fields) : m[p].fields[i] \in Pages \cup {Nil}
  BY <1>4, HeaderType
<1>8. Nil \notin Pages /\ found \in SUBSET Pages
  BY <1>3, Areas
<1>9. L = Reach(m, found)
  BY DEF LiveOf
<1>10. Reached(m, found, L)
  BY <1>8, <1>9, ReachWorks
<1> HIDE DEF L, found
<1>11. ASSUME NEW Z \in SUBSET Pages PROVE Closing(m, found, Z) <=> Rooted(s, Z)
  <2>1. found \subseteq Z <=> (\A r \in Roots : s.root[r] \in Z \cup {Nil}) /\ PermHeads(s) \subseteq Z
    BY <1>4, <1>5, <1>8 DEF found
  <2>2. ASSUME NEW p \in Z
        PROVE  ToSet(m[p].fields) \cap Pages \subseteq Z
                 <=> \A i \in 1 .. Len(m[p].fields) : m[p].fields[i] \in Z \cup {Nil}
    <3> DEFINE w == m[p].fields
    <3>1. ToSet(w) = {w[i] : i \in 1 .. Len(w)} /\ \A i \in 1 .. Len(w) : w[i] \in Pages \cup {Nil}
      BY <1>6, <1>7
    <3> HIDE DEF w
    <3>2. ToSet(w) \cap Pages \subseteq Z <=> \A i \in 1 .. Len(w) : w[i] \in Z \cup {Nil}
      BY <3>1, <1>8
    <3> QED BY <3>2 DEF w
  <2> QED BY <2>1, <2>2 DEF Closing, Rooted
<1>12. L \in SUBSET Pages /\ Rooted(s, L) /\ \A Z \in SUBSET Pages : Rooted(s, Z) => L \subseteq Z
  BY <1>10, <1>11 DEF Reached
<1>13. Rooted(s, Cells(s)) /\ Cells(s) \in SUBSET Pages
  <2>1. \A r \in Roots : s.root[r] \in Cells(s) \cup {Nil}
    BY <1>1 DEF Closed
  <2>2. Cells(s) \in SUBSET Pages
    BY <1>2 DEF Placed
  <2>3. ASSUME NEW p \in Cells(s), NEW i \in 1 .. Len(m[p].fields) PROVE m[p].fields[i] \in Cells(s) \cup {Nil}
    <3>1. ToSet(m[p].fields) = {m[p].fields[j] : j \in 1 .. Len(m[p].fields)}
      BY <2>2, <1>6
    <3>2. ToSet(m[p].fields) \subseteq Cells(s) \cup {Nil}
      BY <1>1 DEF Closed
    <3> QED BY <3>1, <3>2
  <2> QED BY <2>1, <2>2, <2>3, <1>3 DEF Rooted
<1>14. Lives(s, L)
  BY <1>12, <1>13 DEF Lives
<1> QED BY <1>14 DEF L

-----------------------------------------------------------------------------
(* Two states with the same graph of objects, at different addresses.      *)

Moved(s, t, f) ==
  /\ f \in [LiveOf(s) -> Pages]
  /\ \A p, q \in LiveOf(s) : f[p] = f[q] => p = q
  /\ LiveOf(t) = {f[p] : p \in LiveOf(s)}
  /\ PermHeads(t) = PermHeads(s)
  /\ \A p \in PermHeads(s) : p \in LiveOf(s) /\ f[p] = p
  /\ \A r \in Roots : Renamed(LiveOf(s), f, s.root[r], t.root[r])
  /\ \A p \in LiveOf(s) : /\ t.mem[f[p]].pages = s.mem[p].pages /\ t.mem[f[p]].vmt = s.mem[p].vmt
                          /\ Len(t.mem[f[p]].fields) = Len(s.mem[p].fields)
                          /\ \A i \in 1 .. Len(s.mem[p].fields) :
                               Renamed(LiveOf(s), f, s.mem[p].fields[i], t.mem[f[p]].fields[i])

SameGraph(s, t) == \E f : Moved(s, t, f)

\* Where objects have only moved the live ones form the same graph.
LEMMA RelocatedMoved ==
  ASSUME NEW s, NEW t, HeapOK(s), HeapOK(t), NEW K, NEW f, Relocated(s, t, K, f)
  PROVE  SameGraph(s, t)
<1> DEFINE L == LiveOf(s)
           M == LiveOf(t)
           g == [p \in L |-> f[p]]
<1>1. Lives(s, L) /\ Lives(t, M)
  BY LiveWorks
<1> HIDE DEF L, M
<1>2. K \subseteq Cells(s) /\ K \in SUBSET Pages /\ f \in [K -> Pages] /\ Cells(t) = {f[p] : p \in K}
      /\ (\A p, q \in K : f[p] = f[q] => p = q)
      /\ PermHeads(t) = PermHeads(s) /\ (\A p \in PermHeads(s) : p \in K /\ f[p] = p)
      /\ \A r \in Roots : Renamed(K, f, s.root[r], t.root[r])
  <2>1. Placed(s)
    BY CellsPlaced DEF HeapOK
  <2> QED BY <2>1 DEF Relocated, Placed
<1>3. \A p \in K : /\ t.mem[f[p]].pages = s.mem[p].pages /\ t.mem[f[p]].vmt = s.mem[p].vmt
                   /\ Len(t.mem[f[p]].fields) = Len(s.mem[p].fields)
                   /\ \A i \in 1 .. Len(s.mem[p].fields) :
                        Renamed(K, f, s.mem[p].fields[i], t.mem[f[p]].fields[i])
  BY DEF Relocated
<1>4. L \subseteq K
  <2>1. Rooted(s, K)
    BY <1>2, <1>3 DEF Rooted, Renamed
  <2> QED BY <2>1, <1>1, <1>2 DEF Lives
<1>5. Rooted(s, L) /\ Rooted(t, M) /\ L \subseteq Pages /\ M \subseteq Pages
  BY <1>1 DEF Lives
<1>6. Nil \notin Pages
  BY Areas
<1>7. \A p \in L : \A i \in 1 .. Len(s.mem[p].fields) :
        s.mem[p].fields[i] \in L \cup {Nil} /\ Renamed(K, f, s.mem[p].fields[i], t.mem[f[p]].fields[i])
  BY <1>3, <1>4, <1>5 DEF Rooted
<1>8. \A r \in Roots : s.root[r] \in L \cup {Nil} /\ Renamed(K, f, s.root[r], t.root[r])
  BY <1>2, <1>5 DEF Rooted
<1>9. \A w, new : w \in L \cup {Nil} /\ Renamed(K, f, w, new) => Renamed(L, g, w, new)
  BY DEF Renamed
<1>10. M \subseteq {f[p] : p \in L}
  <2> DEFINE Z == {f[p] : p \in L}
  <2>1. Z \in SUBSET Pages
    BY <1>2, <1>4
  <2>2. \A w, new : w \in L \cup {Nil} /\ Renamed(K, f, w, new) => new \in Z \cup {Nil}
    BY DEF Renamed
  <2>3. \A r \in Roots : t.root[r] \in Z \cup {Nil}
    BY <2>2, <1>8
  <2>4. PermHeads(t) \subseteq Z
    BY <1>2, <1>5 DEF Rooted
  <2>5. ASSUME NEW q \in Z, NEW i \in 1 .. Len(t.mem[q].fields) PROVE t.mem[q].fields[i] \in Z \cup {Nil}
    <3>1. PICK p \in L : q = f[p]
      OBVIOUS
    <3>2. i \in 1 .. Len(s.mem[p].fields)
      BY <3>1, <2>5, <1>3, <1>4
    <3> HIDE DEF Z
    <3> QED BY <3>1, <3>2, <2>2, <1>7
  <2>6. Rooted(t, Z)
    BY <2>3, <2>4, <2>5 DEF Rooted
  <2> QED BY <2>1, <2>6, <1>1 DEF Lives
<1>11. \A p \in L : f[p] \in M
  <2> DEFINE Z == {p \in K : f[p] \in M}
  <2>1. Z \in SUBSET Pages
    BY <1>2
  <2>2. \A w, new : Renamed(K, f, w, new) /\ new \in M \cup {Nil} => w \in Z \cup {Nil}
    BY <1>2, <1>6 DEF Renamed
  <2>3. \A r \in Roots : s.root[r] \in Z \cup {Nil}
    BY <2>2, <1>2, <1>5 DEF Rooted
  <2>4. PermHeads(s) \subseteq Z
    BY <1>2, <1>5 DEF Rooted
  <2>5. ASSUME NEW p \in Z, NEW i \in 1 .. Len(s.mem[p].fields) PROVE s.mem[p].fields[i] \in Z \cup {Nil}
    <3>1. f[p] \in M /\ p \in K
      OBVIOUS
    <3>2. i \in 1 .. Len(t.mem[f[p]].fields)
      BY <3>1, <2>5, <1>3
    <3>3. t.mem[f[p]].fields[i] \in M \cup {Nil}
      BY <3>1, <3>2, <1>5 DEF Rooted
    <3> HIDE DEF Z
    <3> QED BY <3>1, <3>3, <2>2, <2>5, <1>3
  <2>6. Rooted(s, Z)
    BY <2>3, <2>4, <2>5 DEF Rooted
  <2> QED BY <2>1, <2>6, <1>1 DEF Lives
<1>12. \A p \in L : g[p] = f[p] /\ p \in K
  BY <1>4
<1>13. g \in [L -> Pages]
  BY <1>2, <1>4
<1> HIDE DEF g
<1>14. M = {g[p] : p \in L}
  BY <1>10, <1>11, <1>12
<1>15. \A p \in PermHeads(s) : p \in L /\ g[p] = p
  BY <1>2, <1>5, <1>12 DEF Rooted
<1>16. \A p \in L : /\ t.mem[g[p]].pages = s.mem[p].pages /\ t.mem[g[p]].vmt = s.mem[p].vmt
                    /\ Len(t.mem[g[p]].fields) = Len(s.mem[p].fields)
                    /\ \A i \in 1 .. Len(s.mem[p].fields) :
                         Renamed(L, g, s.mem[p].fields[i], t.mem[g[p]].fields[i])
  BY <1>3, <1>7, <1>9, <1>12
<1>17. \A r \in Roots : Renamed(L, g, s.root[r], t.root[r])
  BY <1>8, <1>9
<1>18. \A p, q \in L : g[p] = g[q] => p = q
  BY <1>2, <1>12
<1>19. Moved(s, t, g)
  BY <1>2, <1>13, <1>14, <1>15, <1>16, <1>17, <1>18 DEF Moved, L, M
<1> QED BY <1>19 DEF SameGraph

\* Two moves are a move.
LEMMA SameGraphTransitive ==
  ASSUME NEW s, NEW t, NEW u, SameGraph(s, t), SameGraph(t, u)
  PROVE  SameGraph(s, u)
<1>1. PICK f : Moved(s, t, f)
  BY DEF SameGraph
<1>2. PICK g : Moved(t, u, g)
  BY DEF SameGraph
<1> DEFINE L == LiveOf(s)
           M == LiveOf(t)
           h == [p \in L |-> g[f[p]]]
<1>3. f \in [L -> Pages] /\ M = {f[p] : p \in L} /\ \A p \in L : f[p] \in M
  BY <1>1 DEF Moved
<1>4. g \in [M -> Pages] /\ LiveOf(u) = {g[p] : p \in M}
  BY <1>2 DEF Moved
<1>5. h \in [L -> Pages] /\ \A p \in L : h[p] = g[f[p]]
  BY <1>3, <1>4
<1>6. \A a, b, c : Renamed(L, f, a, b) /\ Renamed(M, g, b, c) => Renamed(L, h, a, c)
  <2>1. \A p \in L : f[p] # Nil
    BY <1>3, Areas
  <2> QED BY <2>1, <1>5 DEF Renamed
<1> HIDE DEF h, L, M
<1>7. LiveOf(u) = {h[p] : p \in L}
  BY <1>3, <1>4, <1>5
<1>8. \A p, q \in L : h[p] = h[q] => p = q
  BY <1>1, <1>2, <1>3, <1>5 DEF Moved, L, M
<1>9. PermHeads(u) = PermHeads(s) /\ \A p \in PermHeads(s) : p \in L /\ h[p] = p
  BY <1>1, <1>2, <1>5 DEF Moved, L, M
<1>10. \A r \in Roots : Renamed(L, h, s.root[r], u.root[r])
  BY <1>1, <1>2, <1>6 DEF Moved, L, M
<1>11. ASSUME NEW p \in L
       PROVE  /\ u.mem[h[p]].pages = s.mem[p].pages /\ u.mem[h[p]].vmt = s.mem[p].vmt
              /\ Len(u.mem[h[p]].fields) = Len(s.mem[p].fields)
              /\ \A i \in 1 .. Len(s.mem[p].fields) :
                   Renamed(L, h, s.mem[p].fields[i], u.mem[h[p]].fields[i])
  <2> DEFINE q == f[p]
  <2>1. q \in M /\ h[p] = g[q]
    BY <1>3, <1>5
  <2>2. /\ t.mem[q].pages = s.mem[p].pages /\ t.mem[q].vmt = s.mem[p].vmt
        /\ Len(t.mem[q].fields) = Len(s.mem[p].fields)
        /\ \A i \in 1 .. Len(s.mem[p].fields) : Renamed(L, f, s.mem[p].fields[i], t.mem[q].fields[i])
    BY <1>1 DEF Moved, L
  <2> HIDE DEF q
  <2>3. /\ u.mem[g[q]].pages = t.mem[q].pages /\ u.mem[g[q]].vmt = t.mem[q].vmt
        /\ Len(u.mem[g[q]].fields) = Len(t.mem[q].fields)
        /\ \A i \in 1 .. Len(t.mem[q].fields) : Renamed(M, g, t.mem[q].fields[i], u.mem[g[q]].fields[i])
    BY <2>1, <1>2 DEF Moved, M
  <2> QED BY <2>1, <2>2, <2>3, <1>6
<1>12. Moved(s, u, h)
  BY <1>5, <1>7, <1>8, <1>9, <1>10, <1>11 DEF Moved, L
<1> QED BY <1>12 DEF SameGraph

\* Objects that move keep identities of their own.
LEMMA SameGraphUnique ==
  ASSUME NEW s, NEW t, SameGraph(s, t), Unique(s)
  PROVE  Unique(t)
<1>1. PICK f : Moved(s, t, f)
  BY DEF SameGraph
<1> SUFFICES ASSUME NEW a \in LiveOf(t), NEW b \in LiveOf(t), t.mem[a].vmt = t.mem[b].vmt PROVE a = b
  BY DEF Unique
<1>2. PICK p \in LiveOf(s) : a = f[p]
  BY <1>1 DEF Moved
<1>3. PICK q \in LiveOf(s) : b = f[q]
  BY <1>1 DEF Moved
<1>4. t.mem[a].vmt = s.mem[p].vmt /\ t.mem[b].vmt = s.mem[q].vmt
  BY <1>1, <1>2, <1>3 DEF Moved
<1> QED BY <1>2, <1>3, <1>4 DEF Unique
=============================================================================
