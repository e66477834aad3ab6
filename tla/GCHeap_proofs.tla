---------------------------- MODULE GCHeap_proofs ---------------------------
(***************************************************************************)
(* The theorems about GCHeap, for every size of the areas, every number of *)
(* roots and every set of shapes: the heap stays in order, whatever the    *)
(* program allocates, assigns and drops, and the program sees the object   *)
(* graph of ObjectGraph.                                                   *)
(*                                                                         *)
(* The argument: GC_ALLOC and Collect leave the same graph in a heap that  *)
(* is in order, or fail and leave it as it was (Allocated); an object is   *)
(* created in memory that no walk covers (Clear); what the program sees is *)
(* the same where objects have only moved (SameGraphView), and after an    *)
(* operation it is what ObjectGraph makes of it (PicturedUpdates).         *)
(***************************************************************************)
EXTENDS GCCollect_proofs

-----------------------------------------------------------------------------
(* Growing the heap.                                                       *)

\* A set of numbers has a least one.
LEMMA LeastElement ==
  ASSUME NEW S \in SUBSET Nat, S # {}
  PROVE  \E k \in S : \A j \in S : k <= j
<1> SUFFICES ASSUME \A k \in S : \E j \in S : ~(k <= j) PROVE FALSE
  OBVIOUS
<1> DEFINE T == {n \in Nat : \A k \in S : n <= k}
<1>1. 0 \in T
  OBVIOUS
<1>2. ASSUME NEW n \in T PROVE n + 1 \in T
  <2>1. n \notin S
    OBVIOUS
  <2> QED BY <2>1
<1>3. T = Nat
  <2> HIDE DEF T
  <2>1. T \in SUBSET Nat
    BY DEF T
  <2> QED BY <1>1, <1>2, <2>1, NatSetInduction
<1>4. PICK k \in S : TRUE
  OBVIOUS
<1>5. k + 1 \in T
  BY <1>3
<1> QED BY <1>5

\* n increments are at least n pages.
LEMMA Multiple ==
  ASSUME NEW n \in Nat
  PROVE  n * HeapInc \in Nat /\ n <= n * HeapInc
<1>1. HeapInc \in Nat /\ HeapInc >= 1
  BY Areas
<1> DEFINE T == {k \in Nat : k * HeapInc \in Nat /\ k <= k * HeapInc}
<1>2. 0 \in T
  BY <1>1
<1>3. ASSUME NEW k \in T PROVE k + 1 \in T
  <2>1. (k + 1) * HeapInc = k * HeapInc + HeapInc
    BY <1>1
  <2> DEFINE a == k * HeapInc
             b == (k + 1) * HeapInc
  <2>2. a \in Nat /\ k <= a /\ b = a + HeapInc
    BY <2>1
  <2> HIDE DEF a, b
  <2>3. b \in Nat /\ k + 1 <= b
    BY <2>2, <1>1
  <2> QED BY <2>3 DEF b
<1>4. T = Nat
  <2> HIDE DEF T
  <2>1. T \in SUBSET Nat
    BY DEF T
  <2> QED BY <1>2, <1>3, <2>1, NatSetInduction
<1> QED BY <1>4

\* The heap has been grown k times.
EndAfter(end, k) == end + k * HeapInc
EnoughAfter(t, size, most, k) ==
  Minus(EndAfter(t.gc_end, k), t.gc_mg_current) >= size \/ EndAfter(t.gc_end, k) + HeapInc > most

\* The heap is grown often enough within the bound of Increments.
LEMMA IncrementsExist ==
  ASSUME NEW t, NEW size, NEW most, EnoughAfter(t, size, most, Limit)
  PROVE  Increments(t, size, most) \in 0 .. Limit
<1> DEFINE S == {k \in 0 .. Limit : EnoughAfter(t, size, most, k)}
<1>0. Limit \in Nat
  BY Areas
<1>1. Limit \in S
  BY <1>0
<1>2. S \in SUBSET Nat /\ S # {}
  BY <1>0, <1>1
<1>3. PICK k \in S : \A j \in S : k <= j
  <2> HIDE DEF S
  <2> QED BY <1>2, LeastElement
<1>4. k \in 0 .. Limit /\ EnoughAfter(t, size, most, k) /\ \A j \in 0 .. k - 1 : ~EnoughAfter(t, size, most, j)
  <2>1. k \in 0 .. Limit /\ EnoughAfter(t, size, most, k)
    OBVIOUS
  <2>2. ASSUME NEW j \in 0 .. k - 1 PROVE ~EnoughAfter(t, size, most, j)
    <3>1. j \in 0 .. Limit /\ ~(k <= j)
      BY <2>1, <1>0
    <3> QED BY <3>1, <1>3
  <2> QED BY <2>1, <2>2
<1>5. \E n \in 0 .. Limit :
        /\ Minus(t.gc_end + n * HeapInc, t.gc_mg_current) >= size \/ t.gc_end + n * HeapInc + HeapInc > most
        /\ \A j \in 0 .. n - 1 :
             ~(Minus(t.gc_end + j * HeapInc, t.gc_mg_current) >= size \/ t.gc_end + j * HeapInc + HeapInc > most)
  BY <1>4 DEF EnoughAfter, EndAfter
<1> QED BY <1>5 DEF Increments

\* Only the end of the heap has changed.
SameTable(t, u) ==
  /\ u \in Tables
  /\ u.gc_yg_current = t.gc_yg_current /\ u.gc_mg_current = t.gc_mg_current
  /\ u.gc_yg_start = t.gc_yg_start /\ u.gc_yg_end = t.gc_yg_end
  /\ u.gc_shadow = t.gc_shadow /\ u.gc_shadow_end = t.gc_shadow_end
  /\ u.gc_mg_start = t.gc_mg_start /\ u.gc_end >= t.gc_end
  /\ u.gc_perm_start = t.gc_perm_start /\ u.gc_perm_current = t.gc_perm_current

Regrown(s, t) == t.mem = s.mem /\ t.cards = s.cards /\ t.root = s.root /\ SameTable(s.table, t.table)

\* A record of the four variables.
Whole(s) == s = [mem |-> s.mem, cards |-> s.cards, root |-> s.root, table |-> s.table]

\* A state with another table.
LEMMA TableReplaced ==
  ASSUME NEW s, Whole(s), NEW u
  PROVE  LET e == [s EXCEPT !.table = u]
         IN  Whole(e) /\ e.mem = s.mem /\ e.cards = s.cards /\ e.root = s.root /\ e.table = u
BY DEF Whole

\* A table is itself but for the end of the heap.
LEMMA SameTableReflexive ==
  ASSUME NEW t \in Tables
  PROVE  SameTable(t, t)
BY DEF SameTable, Tables

\* Expand changes nothing but the end of the heap.
LEMMA ExpandGrows ==
  ASSUME NEW t \in Tables, NEW size, NEW most, EnoughAfter(t, size, most, Limit)
  PROVE  SameTable(t, Expand(t, size, most))
<1> DEFINE k == Increments(t, size, most)
           d == k * HeapInc
           u == [t EXCEPT !.gc_end = @ + d]
<1>1. k \in 0 .. Limit
  BY IncrementsExist
<1> HIDE DEF k
<1>2. d \in Nat
  BY <1>1, Multiple
<1>3. u = Expand(t, size, most)
  BY DEF Expand, k
<1> HIDE DEF d
<1>4. t.gc_end \in Nat /\ t.gc_end + d \in Nat /\ t.gc_end + d >= t.gc_end
  BY <1>2 DEF Tables
<1>5. u \in Tables /\ u.gc_end = t.gc_end + d
  BY <1>4 DEF Tables
<1>6. SameTable(t, u)
  BY <1>4, <1>5 DEF SameTable, Tables
<1> QED BY <1>3, <1>6

\* Up to the bound of the heap there is always an end to it.
LEMMA EnoughInHeap ==
  ASSUME NEW t, t.gc_end \in Nat, NEW size
  PROVE  EnoughAfter(t, size, Limit, Limit)
<1> DEFINE d == Limit * HeapInc
<1>1. d \in Nat /\ Limit <= d /\ Limit \in Nat /\ HeapInc \in Nat /\ HeapInc >= 1
  BY Multiple, Areas
<1> HIDE DEF d
<1>2. t.gc_end + d + HeapInc > Limit
  BY <1>1
<1> QED BY <1>2 DEF EnoughAfter, EndAfter, d

\* For the promotion the heap is grown often enough.
LEMMA EnoughForPromotion ==
  ASSUME NEW t, TableOK(t)
  PROVE  EnoughAfter(t, t.gc_yg_current - t.gc_yg_start, WordSize, Limit)
<1> DEFINE d == Limit * HeapInc
           size == t.gc_yg_current - t.gc_yg_start
           end == t.gc_end + d
<1>1. d \in Nat /\ Limit <= d /\ Limit \in Nat /\ HeapInc \in Nat /\ HeapInc >= 1 /\ YGSize \in Nat
  BY Multiple, Areas
<1>2. size \in Nat /\ size <= 2 * YGSize /\ t.gc_end \in Nat /\ 2 * YGSize <= t.gc_end
      /\ t.gc_mg_current \in Nat /\ t.gc_mg_current <= Limit
  BY <1>1, TableFacts
<1> HIDE DEF d, size
<1>3. end - t.gc_mg_current \in Nat /\ end - t.gc_mg_current >= size /\ end \in Nat
  BY <1>1, <1>2
<1>4. CASE end - t.gc_mg_current < WordSize
  <2>1. Minus(end, t.gc_mg_current) = end - t.gc_mg_current
    BY <1>3, <1>4 DEF Minus, WordSize
  <2> QED BY <2>1, <1>3 DEF EnoughAfter, EndAfter, d, size
<1>5. CASE ~(end - t.gc_mg_current < WordSize)
  <2>1. end + HeapInc > WordSize
    BY <1>1, <1>2, <1>3, <1>5 DEF WordSize
  <2> QED BY <2>1 DEF EnoughAfter, EndAfter, d
<1> QED BY <1>4, <1>5

-----------------------------------------------------------------------------
\* The same memory and the same roots are the same objects.
LEMMA SameMemory ==
  ASSUME NEW s, NEW t, HeapOK(s), t.mem = s.mem, t.root = s.root, PermHeads(t) = PermHeads(s)
  PROVE  SameGraph(s, t)
<1> DEFINE L == LiveOf(s)
           f == [p \in L |-> p]
<1>1. LiveOf(t) = L
  BY DEF LiveOf
<1>2. Lives(s, L)
  BY LiveWorks
<1>3. Rooted(s, L) /\ L \subseteq Pages
  BY <1>2 DEF Lives
<1> HIDE DEF L
<1>4. \A w \in L \cup {Nil} : Renamed(L, f, w, w)
  BY DEF Renamed
<1>5. f \in [L -> Pages] /\ \A p \in L : f[p] = p
  BY <1>3
<1> HIDE DEF f
<1>6. Moved(s, t, f)
  BY <1>1, <1>3, <1>4, <1>5 DEF Moved, Rooted, L
<1> QED BY <1>6 DEF SameGraph

\* A heap that has only grown stays in order with the same graph.
LEMMA RegrownOK ==
  ASSUME NEW s, NEW t, HeapOK(s), Regrown(s, t), t.table.gc_end <= Limit
  PROVE  HeapOK(t) /\ SameGraph(s, t)
<1>1. /\ t.mem = s.mem /\ t.cards = s.cards /\ t.root = s.root /\ SameTable(s.table, t.table)
  BY DEF Regrown
<1>2. YoungHeads(t) = YoungHeads(s) /\ MatureHeads(t) = MatureHeads(s) /\ PermHeads(t) = PermHeads(s)
  BY <1>1 DEF YoungHeads, MatureHeads, PermHeads, SameTable
<1>3. Cells(t) = Cells(s)
  BY <1>1, <1>2 DEF Cells
<1>4. TableOK(t.table)
  <2>1. TableOK(s.table)
    BY DEF HeapOK
  <2>2. s.table.gc_end \in Nat /\ 2 * YGSize <= s.table.gc_end /\ YGSize \in Nat /\ Limit \in Nat
    BY <2>1, TableFacts, Areas
  <2>3. t.table.gc_end \in Nat /\ t.table.gc_end >= s.table.gc_end
    BY <1>1 DEF SameTable, Tables
  <2>4. t.table.gc_end \in 2 * YGSize .. Limit
    BY <2>2, <2>3
  <2> QED BY <2>1, <2>4, <1>1 DEF TableOK, SameTable
<1>5. Covered(t)
  BY <1>1, <1>2 DEF HeapOK, Covered, SameTable
<1>6. Typed(t) /\ Closed(t) /\ Rest(t) /\ Carded(t) /\ Shaped(t)
  BY <1>1, <1>2, <1>3 DEF HeapOK, Typed, Closed, Rest, Carded, Shaped
<1>7. HeapOK(t)
  BY <1>4, <1>5, <1>6 DEF HeapOK
<1> QED BY <1>1, <1>2, <1>7, SameMemory

-----------------------------------------------------------------------------
(* What is given.                                                          *)

Current == {"gc_yg_current", "gc_mg_current", "gc_perm_current"}

Given(s, field, size, a) ==
  /\ a.state.mem = s.mem /\ a.state.cards = s.cards /\ a.state.root = s.root /\ Whole(a.state)
  /\ a.state.table \in Tables
  /\ a.state.table.gc_yg_start = s.table.gc_yg_start /\ a.state.table.gc_yg_end = s.table.gc_yg_end
  /\ a.state.table.gc_shadow = s.table.gc_shadow /\ a.state.table.gc_shadow_end = s.table.gc_shadow_end
  /\ a.state.table.gc_mg_start = s.table.gc_mg_start /\ a.state.table.gc_end = s.table.gc_end
  /\ a.state.table.gc_perm_start = s.table.gc_perm_start
  /\ a.state.table.gc_yg_current = s.table.gc_yg_current + (IF field = "gc_yg_current" THEN size ELSE 0)
  /\ a.state.table.gc_mg_current = s.table.gc_mg_current + (IF field = "gc_mg_current" THEN size ELSE 0)
  /\ a.state.table.gc_perm_current = s.table.gc_perm_current + (IF field = "gc_perm_current" THEN size ELSE 0)
  /\ a.given = IF size = 0 THEN Nil ELSE s.table[field]

\* Give moves the end of the part in use behind the memory it gives.
LEMMA GiveWorks ==
  ASSUME NEW s, Whole(s), s.table \in Tables, NEW field \in Current, NEW size \in Nat
  PROVE  Given(s, field, size, Give(s, field, size))
<1> DEFINE t == s.table
           u == [t EXCEPT ![field] = @ + size]
           e == [s EXCEPT !.table = u]
           a == Give(s, field, size)
<1>1. a = [state |-> e, given |-> IF size = 0 THEN Nil ELSE s.table[field]]
  <2>1. [s EXCEPT !.table[field] = @ + size] = e
    BY DEF Whole
  <2> QED BY <2>1 DEF Give
<1>2. a.state = e /\ a.given = IF size = 0 THEN Nil ELSE s.table[field]
  BY <1>1
<1>3. Whole(e) /\ e.mem = s.mem /\ e.cards = s.cards /\ e.root = s.root /\ e.table = u
  <2> HIDE DEF u
  <2> QED BY TableReplaced
<1> HIDE DEF a, e
<1>4. t \in Tables
  OBVIOUS
<1> HIDE DEF t
<1>5. /\ u \in Tables
      /\ u.gc_yg_start = t.gc_yg_start /\ u.gc_yg_end = t.gc_yg_end
      /\ u.gc_shadow = t.gc_shadow /\ u.gc_shadow_end = t.gc_shadow_end
      /\ u.gc_mg_start = t.gc_mg_start /\ u.gc_end = t.gc_end
      /\ u.gc_perm_start = t.gc_perm_start
      /\ u.gc_yg_current = t.gc_yg_current + (IF field = "gc_yg_current" THEN size ELSE 0)
      /\ u.gc_mg_current = t.gc_mg_current + (IF field = "gc_mg_current" THEN size ELSE 0)
      /\ u.gc_perm_current = t.gc_perm_current + (IF field = "gc_perm_current" THEN size ELSE 0)
  <2>1. CASE field = "gc_yg_current"
    BY <2>1, <1>4 DEF Tables
  <2>2. CASE field = "gc_mg_current"
    BY <2>2, <1>4 DEF Tables
  <2>3. CASE field = "gc_perm_current"
    BY <2>3, <1>4 DEF Tables
  <2> QED BY <2>1, <2>2, <2>3 DEF Current
<1> HIDE DEF u
<1>6. Given(s, field, size, a)
  BY <1>2, <1>3, <1>5 DEF Given, t
<1> QED BY <1>6 DEF a

\* There is room for size pages.
Room(t, field, size) ==
  /\ field = "gc_yg_current" => t.gc_yg_current + size <= t.gc_yg_end
  /\ field = "gc_mg_current" => t.gc_mg_current + size <= Limit
  /\ field = "gc_perm_current" => t.gc_perm_current + size <= PermStart + PermSize

\* Either nothing is given, or pages of the state t.
GivenFrom(s, t, field, size, a) ==
  /\ HeapOK(t) /\ Whole(t) /\ SameGraph(s, t) /\ field \in Current /\ Room(t.table, field, size)
  /\ a = Give(t, field, size)

Allocated(s, size, a) ==
  \/ a.given = Nil /\ HeapOK(a.state) /\ SameGraph(s, a.state)
  \/ size # 0 /\ \E t, field : GivenFrom(s, t, field, size, a) /\ field # "gc_perm_current"

\* Memory that an area has room for is an allocation.
LEMMA GiveAllocates ==
  ASSUME NEW s, NEW t, HeapOK(t), Whole(t), SameGraph(s, t), NEW field \in Current, field # "gc_perm_current", NEW size \in Nat,
         size # 0 => Room(t.table, field, size), NEW a, a = Give(t, field, size)
  PROVE  Allocated(s, size, a)
<1>1. CASE size # 0
  BY <1>1 DEF Allocated, GivenFrom
<1>2. CASE size = 0
  <2>1. t.table \in Tables
    BY DEF HeapOK, TableOK
  <2>2. Given(t, field, size, a)
    BY <2>1, GiveWorks
  <2>3. a.given = Nil
    BY <2>2, <1>2 DEF Given
  <2>4. Regrown(t, a.state)
    <3>1. \A n \in Nat : n + 0 = n /\ n >= n
      OBVIOUS
    <3> QED BY <2>1, <2>2, <1>2, <3>1 DEF Given, Regrown, SameTable, Tables
  <2>5. a.state.table.gc_end <= Limit
    BY <2>2, TableFacts DEF Given, HeapOK
  <2>6. HeapOK(a.state) /\ SameGraph(t, a.state)
    BY <2>4, <2>5, RegrownOK
  <2>7. SameGraph(s, a.state)
    BY <2>6, SameGraphTransitive
  <2> QED BY <2>3, <2>6, <2>7 DEF Allocated
<1> QED BY <1>1, <1>2

\* The final state is within the bound of the heap.
Bounded(u) == u.table.gc_end <= Limit /\ u.table.gc_mg_current <= Limit

\* Before a full collection the heap only grows.
LEMMA ExpandedForPromotion ==
  ASSUME NEW s, HeapOK(s), Whole(s)
  PROVE  Regrown(s, ExpandForPromotion(s)) /\ Whole(ExpandForPromotion(s))
<1> DEFINE t == s.table
           u == Expand(t, t.gc_yg_current - t.gc_yg_start, WordSize)
           e == [s EXCEPT !.table = u]
<1>1. e = ExpandForPromotion(s)
  BY DEF ExpandForPromotion
<1>2. TableOK(t) /\ t \in Tables
  BY DEF HeapOK, TableOK
<1>3. SameTable(t, u)
  <2> DEFINE size == t.gc_yg_current - t.gc_yg_start
  <2>1. EnoughAfter(t, size, WordSize, Limit)
    BY <1>2, EnoughForPromotion
  <2> HIDE DEF size, t
  <2>2. SameTable(t, Expand(t, size, WordSize))
    BY <1>2, <2>1, ExpandGrows
  <2> QED BY <2>2 DEF size
<1>4. Whole(e) /\ e.mem = s.mem /\ e.cards = s.cards /\ e.root = s.root /\ e.table = u
  <2> HIDE DEF u
  <2> QED BY TableReplaced
<1> HIDE DEF e, u
<1>5. Regrown(s, e)
  BY <1>3, <1>4 DEF Regrown
<1> QED BY <1>1, <1>4, <1>5

\* Where the mature generation ends after a full collection.
NewEnd(e) == CompactAndPromote(e.table, MarkRoots(e)).new

\* A full collection sets the table and leaves a state of all four parts.
LEMMA FullTable ==
  ASSUME NEW e
  PROVE  FullCollect(e).table = Settling(e.table, NewEnd(e)) /\ Whole(FullCollect(e))
<1> DEFINE c == CompactAndPromote(e.table, MarkRoots(e))
           r == FixObject(e.table, c.map, c.mem, e.root)
<1>1. FullCollect(e) = Finish(e, c, r) /\ NewEnd(e) = c.new
  BY DEF FullCollect, NewEnd
<1> HIDE DEF c, r
<1>2. Finish(e, c, r).table = Settling(e.table, c.new) /\ Whole(Finish(e, c, r))
  BY DEF Finish, Settling, Whole
<1> QED BY <1>1, <1>2

\* The end of the mature generation after a full collection.
LEMMA NewEndNat ==
  ASSUME NEW e, HeapOK(e)
  PROVE  NewEnd(e) \in Nat
<1> DEFINE x == MarkContext(e)
           m == MarkRoots(e)
<1>1. AllMarked(e, x, m) /\ x = MarkContext(e)
  BY MarkRootsWorks
<1> HIDE DEF x, m
<1>2. CompactContext(e.table, m, MatureHeads(e), YoungHeads(e))
  BY <1>1, MarkedContext
<1>3. Packed(e.table, m, MatureHeads(e), YoungHeads(e), CompactAndPromote(e.table, m))
  BY <1>2, CompactAndPromoteWorks
<1>4. CompactAndPromote(e.table, m).new \in Nat
  BY <1>3 DEF Packed, Compacted, Compactions
<1> QED BY <1>4 DEF NewEnd, m

\* Tables that may have anything for the end of the mature generation.
LEMMA SettlingFields ==
  ASSUME NEW t \in Tables, NEW new, NEW z
  PROVE  LET w == Settling(t, new)
             v == [w EXCEPT !.gc_end = z]
         IN  /\ w.gc_end = t.gc_end /\ w.gc_mg_current = new
             /\ [w EXCEPT !.gc_yg_current = z].gc_end = t.gc_end
             /\ [w EXCEPT !.gc_yg_current = z].gc_mg_current = new
             /\ v.gc_end = z /\ v.gc_mg_current = new
             /\ \A k : [v EXCEPT !.gc_mg_current = k].gc_end = z /\ [v EXCEPT !.gc_mg_current = k].gc_mg_current = k
<1> DEFINE w0 == [t EXCEPT !.gc_mg_current = new]
           w == [w0 EXCEPT !.gc_yg_current = t.gc_yg_start]
           v == [w EXCEPT !.gc_end = z]
<1>1. {"gc_end", "gc_mg_current", "gc_yg_current"} \subseteq DOMAIN t
  BY DEF Tables
<1>2. DOMAIN w0 = DOMAIN t /\ w0.gc_end = t.gc_end /\ w0.gc_mg_current = new
  BY <1>1
<1>3. w = Settling(t, new)
  BY DEF Settling
<1> HIDE DEF w0
<1>4. DOMAIN w = DOMAIN t /\ w.gc_end = t.gc_end /\ w.gc_mg_current = new
  BY <1>1, <1>2
<1> HIDE DEF w
<1>5. DOMAIN v = DOMAIN t /\ v.gc_end = z /\ v.gc_mg_current = new
  BY <1>1, <1>4
<1>6. [w EXCEPT !.gc_yg_current = z].gc_end = t.gc_end /\ [w EXCEPT !.gc_yg_current = z].gc_mg_current = new
  BY <1>1, <1>4
<1> HIDE DEF v
<1>7. \A k : [v EXCEPT !.gc_mg_current = k].gc_end = z /\ [v EXCEPT !.gc_mg_current = k].gc_mg_current = k
  BY <1>1, <1>5
<1> QED BY <1>3, <1>4, <1>5, <1>6, <1>7 DEF v

\* The table after memory was given.
LEMMA GiveTable ==
  ASSUME NEW s, Whole(s), NEW field, NEW size
  PROVE  Give(s, field, size).state.table = [s.table EXCEPT ![field] = @ + size]
<1>1. [s EXCEPT !.table[field] = @ + size] = [s EXCEPT !.table = [s.table EXCEPT ![field] = @ + size]]
  BY DEF Whole
<1> DEFINE u == [s.table EXCEPT ![field] = @ + size]
<1>2. [s EXCEPT !.table = u].table = u
  <2> HIDE DEF u
  <2> QED BY TableReplaced
<1> QED BY <1>1, <1>2 DEF Give

\* A full collection of a grown heap works if it stays within the bound.
LEMMA FullWithin ==
  ASSUME NEW s, HeapOK(s), NEW e, Regrown(s, e), e.table.gc_end <= Limit, NewEnd(e) <= Limit
  PROVE  FullResult(e, FullCollect(e)) /\ HeapOK(FullCollect(e)) /\ SameGraph(s, FullCollect(e))
<1> DEFINE F == FullCollect(e)
<1>1. HeapOK(e) /\ SameGraph(s, e)
  BY RegrownOK
<1>2. F.table.gc_mg_current = NewEnd(e)
  <2>1. F.table = Settling(e.table, NewEnd(e)) /\ e.table \in Tables
    BY FullTable DEF Regrown, SameTable
  <2> HIDE DEF F
  <2> QED BY <2>1, SettlingFields
<1>3. FullResult(e, F)
  BY <1>1, <1>2, FullCollectWorks
<1> HIDE DEF F
<1>4. PICK K, f : Relocated(e, F, K, f)
  BY <1>3 DEF FullResult
<1>5. HeapOK(F)
  BY <1>3 DEF FullResult
<1>6. SameGraph(e, F)
  BY <1>1, <1>4, <1>5, RelocatedMoved
<1>7. SameGraph(s, F)
  BY <1>1, <1>6, SameGraphTransitive
<1> QED BY <1>3, <1>5, <1>7 DEF F

\* What follows a full collection allocates or fails without harm.
LEMMA FullAllocates ==
  ASSUME NEW s, HeapOK(s), Whole(s), NEW size \in Nat,
         NEW a, a = Allocate(FullCollect(ExpandForPromotion(s)), size), Bounded(a.state)
  PROVE  Allocated(s, size, a)
<1> DEFINE e == ExpandForPromotion(s)
           F == FullCollect(e)
           new == NewEnd(e)
           T == F.table
<1>1. Regrown(s, e) /\ Whole(e) /\ a = Allocate(F, size)
  BY ExpandedForPromotion
<1> HIDE DEF e
<1>2. Whole(F) /\ T = Settling(e.table, new) /\ e.table \in Tables
  BY <1>1, FullTable DEF Regrown, SameTable
<1>3. ASSUME e.table.gc_end <= Limit, new <= Limit
      PROVE  HeapOK(F) /\ SameGraph(s, F) /\ T \in Tables /\ TableOK(T)
  <2>1. HeapOK(F) /\ SameGraph(s, F)
    BY <1>1, <1>3, FullWithin
  <2> HIDE DEF F
  <2> QED BY <2>1 DEF HeapOK, TableOK
<1>4. ASSUME e.table.gc_end <= Limit PROVE new \in Nat
  <2>1. HeapOK(e)
    BY <1>1, <1>4, RegrownOK
  <2> QED BY <2>1, NewEndNat
<1> HIDE DEF F, new
<1>5. T.gc_end = e.table.gc_end /\ T.gc_mg_current = new /\ e.table.gc_end \in Nat
  <2>1. T.gc_end = e.table.gc_end /\ T.gc_mg_current = new
    BY <1>2, SettlingFields
  <2> QED BY <2>1, <1>2 DEF Tables
<1>6. CASE size = 0 \/ Minus(T.gc_yg_end, T.gc_yg_current) >= size
  <2>1. a = Give(F, "gc_yg_current", size)
    BY <1>1, <1>6 DEF Allocate
  <2>2. a.state.table = [T EXCEPT !.gc_yg_current = @ + size]
    BY <2>1, <1>2, GiveTable
  <2>3. a.state.table.gc_end = e.table.gc_end /\ a.state.table.gc_mg_current = new
    <3> DEFINE z == T.gc_yg_current + size
    <3>1. a.state.table = [T EXCEPT !.gc_yg_current = z]
      BY <2>2
    <3> HIDE DEF z, T
    <3> QED BY <3>1, <1>2, SettlingFields
  <2>4. HeapOK(F) /\ SameGraph(s, F) /\ TableOK(T)
    BY <2>3, <1>3 DEF Bounded
  <2>5. size # 0 => Room(T, "gc_yg_current", size)
    <3>1. /\ T.gc_yg_current \in Nat /\ T.gc_yg_end \in Nat /\ T.gc_yg_current <= T.gc_yg_end
          /\ T.gc_yg_end <= 2 * YGSize /\ YGSize \in Nat /\ 2 * YGSize < WordSize
      BY <2>4, TableFacts, Areas
    <3> HIDE DEF T
    <3>2. Minus(T.gc_yg_end, T.gc_yg_current) = T.gc_yg_end - T.gc_yg_current
      BY <3>1 DEF Minus, WordSize
    <3> QED BY <3>1, <3>2, <1>6 DEF Room
  <2> QED BY <2>1, <2>4, <2>5, <1>2, GiveAllocates DEF Current
<1>7. CASE ~(size = 0 \/ Minus(T.gc_yg_end, T.gc_yg_current) >= size)
  <2> DEFINE u == Expand(T, size, Limit)
             g == [F EXCEPT !.table = u]
             d == Increments(T, size, Limit) * HeapInc
             z == T.gc_end + d
  <2>1. a = AllocateMature(g, size)
    BY <1>1, <1>7 DEF Allocate
  <2>2. d \in Nat /\ u = [T EXCEPT !.gc_end = z] /\ z \in Nat /\ z >= e.table.gc_end
    <3>1. EnoughAfter(T, size, Limit, Limit)
      BY <1>5, EnoughInHeap
    <3>2. Increments(T, size, Limit) \in 0 .. Limit
      BY <3>1, IncrementsExist
    <3>3. d \in Nat
      BY <3>2, Multiple
    <3>4. u = [T EXCEPT !.gc_end = z]
      BY DEF Expand
    <3> HIDE DEF d, T, u
    <3> QED BY <3>3, <3>4, <1>5
  <2>3. Whole(g) /\ g.mem = F.mem /\ g.cards = F.cards /\ g.root = F.root /\ g.table = u
    <3> HIDE DEF u
    <3> QED BY <1>2, TableReplaced
  <2> HIDE DEF g, z
  <2>4. u.gc_end = z /\ u.gc_mg_current = new
        /\ \A k : [u EXCEPT !.gc_mg_current = k].gc_end = z /\ [u EXCEPT !.gc_mg_current = k].gc_mg_current = k
    <3>1. LET w == T
              v == [w EXCEPT !.gc_end = z]
          IN  /\ v.gc_end = z /\ v.gc_mg_current = new
              /\ \A k : [v EXCEPT !.gc_mg_current = k].gc_end = z /\ [v EXCEPT !.gc_mg_current = k].gc_mg_current = k
      BY <1>2, SettlingFields
    <3> HIDE DEF u, d, T
    <3> QED BY <3>1, <2>2
  <2> HIDE DEF u, d
  <2>5. ASSUME z <= Limit, new <= Limit
        PROVE  HeapOK(g) /\ SameGraph(s, g)
    <3>1. e.table.gc_end <= Limit
      BY <2>2, <2>5, <1>5, Areas
    <3>2. HeapOK(F) /\ SameGraph(s, F) /\ T \in Tables
      BY <3>1, <2>5, <1>3
    <3>3. SameTable(T, u)
      <4>1. EnoughAfter(T, size, Limit, Limit)
        BY <1>5, EnoughInHeap
      <4> HIDE DEF T
      <4> QED BY <4>1, <3>2, ExpandGrows DEF u
    <3>4. Regrown(F, g)
      BY <3>3, <2>3 DEF Regrown
    <3>5. HeapOK(g) /\ SameGraph(F, g)
      BY <3>2, <3>4, <2>3, <2>4, <2>5, RegrownOK
    <3>6. SameGraph(s, g)
      BY <3>2, <3>5, SameGraphTransitive
    <3> QED BY <3>5, <3>6
  <2>6. CASE Minus(g.table.gc_end, g.table.gc_mg_current) < size
    <3>1. a.state = g /\ a.given = Nil
      BY <2>1, <2>6 DEF AllocateMature
    <3>2. z <= Limit /\ new <= Limit
      BY <3>1, <2>3, <2>4 DEF Bounded
    <3> QED BY <3>1, <3>2, <2>5 DEF Allocated
  <2>7. CASE ~(Minus(g.table.gc_end, g.table.gc_mg_current) < size)
    <3>1. a = Give(g, "gc_mg_current", size)
      BY <2>1, <2>7 DEF AllocateMature
    <3>2. a.state.table = [u EXCEPT !.gc_mg_current = @ + size]
      BY <3>1, <2>3, GiveTable
    <3>3. a.state.table.gc_end = z /\ a.state.table.gc_mg_current = new + size
      <4> DEFINE k == u.gc_mg_current + size
      <4>1. a.state.table = [u EXCEPT !.gc_mg_current = k] /\ k = new + size
        BY <3>2, <2>4
      <4> HIDE DEF k
      <4> QED BY <4>1, <2>4
    <3>4. z <= Limit /\ new + size <= Limit
      BY <3>3 DEF Bounded
    <3>5. new \in Nat /\ new <= Limit
      <4>1. e.table.gc_end <= Limit
        BY <3>4, <2>2, <1>5, Areas
      <4>2. new \in Nat
        BY <4>1, <1>4
      <4> QED BY <4>2, <3>4, Areas
    <3>6. HeapOK(g) /\ SameGraph(s, g)
      BY <3>4, <3>5, <2>5
    <3>7. Room(g.table, "gc_mg_current", size)
      BY <3>4, <2>3, <2>4 DEF Room
    <3> QED BY <3>1, <3>6, <3>7, <2>3, GiveAllocates DEF Current
  <2> QED BY <2>6, <2>7
<1> QED BY <1>6, <1>7

-----------------------------------------------------------------------------
(* The three ways to allocate.                                             *)

\* GCRoutine allocates or fails without harm.
LEMMA RoutineWorks ==
  ASSUME HeapOK(Now), NEW size \in Nat, NEW fullMode \in BOOLEAN,
         NEW a, a = GCRoutine(size, fullMode), Bounded(a.state)
  PROVE  Allocated(Now, size, a)
<1> DEFINE s == MinorCollect
           t == s.table
<1>1. MinorResult(Now, s)
  BY MinorCollectWorks
<1>2. Whole(s)
  <2> DEFINE h == MinorHeap(Now)
             words == MinorRoots(Now)
  <2>1. s = SwitchHalves(table, h, words)
    BY MinorCollectDef
  <2> HIDE DEF s, h, words
  <2> QED BY <2>1 DEF SwitchHalves, Whole
<1>3. a = IF Minus(t.gc_yg_end, t.gc_yg_current) < size \/ fullMode
          THEN Allocate(FullCollect(ExpandForPromotion(s)), size)
          ELSE Give(s, "gc_yg_current", size)
  BY DEF GCRoutine
<1> HIDE DEF s
<1>4. PICK K, f : Relocated(Now, s, K, f)
  BY <1>1 DEF MinorResult
<1>5. HeapOK(s)
  BY <1>1 DEF MinorResult
<1>6. SameGraph(Now, s)
  BY <1>4, <1>5, RelocatedMoved
<1>7. CASE Minus(t.gc_yg_end, t.gc_yg_current) < size \/ fullMode
  <2>1. a = Allocate(FullCollect(ExpandForPromotion(s)), size)
    BY <1>3, <1>7
  <2>2. Allocated(s, size, a)
    BY <2>1, <1>2, <1>5, FullAllocates
  <2>3. CASE a.given = Nil /\ HeapOK(a.state) /\ SameGraph(s, a.state)
    <3>1. SameGraph(Now, a.state)
      BY <2>3, <1>6, SameGraphTransitive
    <3> QED BY <2>3, <3>1 DEF Allocated
  <2>4. CASE size # 0 /\ \E u, field : GivenFrom(s, u, field, size, a) /\ field # "gc_perm_current"
    <3>1. PICK u, field : GivenFrom(s, u, field, size, a) /\ field # "gc_perm_current"
      BY <2>4
    <3>2. SameGraph(s, u)
      BY <3>1 DEF GivenFrom
    <3>3. SameGraph(Now, u)
      BY <3>2, <1>6, SameGraphTransitive
    <3>4. GivenFrom(Now, u, field, size, a)
      BY <3>1, <3>3 DEF GivenFrom
    <3> QED BY <2>4, <3>1, <3>4 DEF Allocated
  <2> QED BY <2>2, <2>3, <2>4 DEF Allocated
<1>8. CASE ~(Minus(t.gc_yg_end, t.gc_yg_current) < size \/ fullMode)
  <2>1. a = Give(s, "gc_yg_current", size)
    BY <1>3, <1>8
  <2>2. TableOK(t)
    BY <1>5 DEF HeapOK
  <2>3. /\ t.gc_yg_current \in Nat /\ t.gc_yg_end \in Nat /\ t.gc_yg_current <= t.gc_yg_end
        /\ t.gc_yg_end <= 2 * YGSize /\ YGSize \in Nat /\ 2 * YGSize < WordSize
    BY <2>2, TableFacts, Areas
  <2>4. Room(t, "gc_yg_current", size)
    <3> HIDE DEF t
    <3>1. Minus(t.gc_yg_end, t.gc_yg_current) = t.gc_yg_end - t.gc_yg_current
      BY <2>3 DEF Minus, WordSize
    <3> QED BY <3>1, <2>3, <1>8 DEF Room
  <2> QED BY <2>1, <2>4, <1>2, <1>5, <1>6, GiveAllocates DEF Current
<1> QED BY <1>7, <1>8

\* The state of the variables has all four parts and is the same graph as
\* itself.
LEMMA NowWhole ==
  ASSUME HeapOK(Now)
  PROVE  Whole(Now) /\ SameGraph(Now, Now)
<1>1. Whole(Now)
  BY DEF Whole, Now
<1>2. SameGraph(Now, Now)
  BY SameMemory
<1> QED BY <1>1, <1>2

\* GC_ALLOC allocates or fails without harm.
LEMMA GC_ALLOCWorks ==
  ASSUME HeapOK(Now), NEW size \in Nat, NEW a, a = GC_ALLOC(size), Bounded(a.state)
  PROVE  Allocated(Now, size, a)
<1>1. Whole(Now) /\ SameGraph(Now, Now)
  BY NowWhole
<1>2. Now.table = table
  BY DEF Now
<1>3. CASE table.gc_yg_current + size < table.gc_yg_end
  <2> DEFINE f == "gc_yg_current"
  <2>1. a = Give(Now, f, size)
    BY <1>3 DEF GC_ALLOC
  <2>2. table.gc_yg_current \in Nat /\ table.gc_yg_end \in Nat
    BY <1>2, TableFacts DEF HeapOK
  <2>3. Room(Now.table, f, size)
    BY <1>2, <1>3, <2>2 DEF Room
  <2>4. f \in Current /\ f # "gc_perm_current"
    BY DEF Current
  <2> HIDE DEF f
  <2> QED BY <2>1, <2>3, <2>4, <1>1, GiveAllocates
<1>4. CASE ~(table.gc_yg_current + size < table.gc_yg_end)
  <2>1. a = GCRoutine(size, FALSE)
    BY <1>4 DEF GC_ALLOC
  <2> QED BY <2>1, RoutineWorks
<1> QED BY <1>3, <1>4

\* GC_ALLOCPERM allocates where there is room.
LEMMA GC_ALLOCPERMWorks ==
  ASSUME HeapOK(Now), NEW size \in Nat, size # 0, NEW a, a = GC_ALLOCPERM(size),
         table.gc_perm_current + size <= PermStart + PermSize
  PROVE  GivenFrom(Now, Now, "gc_perm_current", size, a)
<1>1. Whole(Now) /\ SameGraph(Now, Now)
  BY NowWhole
<1>2. Now.table = table
  BY DEF Now
<1>3. Room(Now.table, "gc_perm_current", size)
  BY <1>2 DEF Room
<1> QED BY <1>1, <1>3 DEF GivenFrom, GC_ALLOCPERM, Current

-----------------------------------------------------------------------------
(* The creation of an object in the memory that has been given.            *)

HeaderOf(shape, o) ==
  [pages |-> shape.pages, marked |-> FALSE, vmt |-> o, fields |-> [i \in 1 .. shape.fields |-> Nil]]

CreatedIn(m, q, shape, o) ==
  [p \in Pages |-> IF p = q THEN HeaderOf(shape, o)
                   ELSE IF p \in q .. q + shape.pages - 1 THEN Zero ELSE m[p]]

\* n is the memory m with a new object at q.
NewObject(m, n, q, shape, o) ==
  /\ n \in Memories
  /\ n[q].pages = shape.pages /\ n[q].marked = FALSE /\ n[q].vmt = o
  /\ Len(n[q].fields) = shape.fields /\ n[q].fields \in Words
  /\ \A i \in 1 .. shape.fields : n[q].fields[i] = Nil
  /\ \A p \in Pages : q < p /\ p < q + shape.pages => n[p] = Zero
  /\ \A p \in Pages : ~(q <= p /\ p < q + shape.pages) => n[p] = m[p]

\* The shapes have pages and fields.
LEMMA ShapeType ==
  ASSUME NEW shape \in Shapes
  PROVE  shape.pages \in Nat /\ shape.pages >= 1 /\ shape.fields \in Nat
BY ProgramAssumption

\* A header of zeros is a header without fields.
LEMMA ZeroHeader == Zero \in Headers /\ Zero.fields = <<>> /\ Zero.marked = FALSE /\ Zero.vmt = NoObject
<1>1. <<>> \in Words
  BY DEF Words
<1> QED BY <1>1 DEF Zero, Headers

\* The memory after an object was created.
LEMMA CreatedInWorks ==
  ASSUME NEW m \in Memories, NEW q \in Pages, NEW shape \in Shapes, NEW o \in Objects
  PROVE  NewObject(m, CreatedIn(m, q, shape, o), q, shape, o)
<1> DEFINE n == CreatedIn(m, q, shape, o)
           h == HeaderOf(shape, o)
           w == [i \in 1 .. shape.fields |-> Nil]
<1>1. shape.pages \in Nat /\ shape.pages >= 1 /\ shape.fields \in Nat /\ q \in Nat
  BY ShapeType, Areas
<1>2. w \in Words /\ Len(w) = shape.fields /\ \A i \in 1 .. shape.fields : w[i] = Nil
  BY <1>1 DEF Words
<1> HIDE DEF w
<1>3. h = [pages |-> shape.pages, marked |-> FALSE, vmt |-> o, fields |-> w]
  BY DEF HeaderOf, w
<1>4. h.pages = shape.pages /\ h.marked = FALSE /\ h.vmt = o /\ h.fields = w
  BY <1>3
<1>5. h \in Headers
  BY <1>1, <1>2, <1>3 DEF Headers
<1> HIDE DEF h
<1>6. n = [p \in Pages |-> IF p = q THEN h ELSE IF p \in q .. q + shape.pages - 1 THEN Zero ELSE m[p]]
  BY DEF CreatedIn, h
<1> HIDE DEF n
<1>7. n \in Memories
  BY <1>5, <1>6, ZeroHeader DEF Memories
<1>8. n[q] = h
  BY <1>6
<1>9. \A p \in Pages : q < p /\ p < q + shape.pages => n[p] = Zero
  BY <1>1, <1>6, Areas
<1>10. \A p \in Pages : ~(q <= p /\ p < q + shape.pages) => n[p] = m[p]
  BY <1>1, <1>6, Areas
<1>11. NewObject(m, n, q, shape, o)
  BY <1>2, <1>4, <1>7, <1>8, <1>9, <1>10 DEF NewObject
<1> QED BY <1>11 DEF n

\* What Create makes of the state it is given.
CreatedState(a, r, shape, o, u) ==
  /\ Whole(u) /\ u.mem = CreatedIn(a.state.mem, a.given, shape, o)
  /\ u.cards = a.state.cards /\ u.table = a.state.table
  /\ u.root = [a.state.root EXCEPT ![r] = a.given]

\* The state after an object was created, in its parts.
LEMMA CreateDef ==
  ASSUME NEW a, Whole(a.state), a.given # Nil, NEW r, NEW shape, NEW o
  PROVE  CreatedState(a, r, shape, o, Create(a, r, shape, o))
<1> DEFINE s == a.state
           M == CreatedIn(s.mem, a.given, shape, o)
           R == [s.root EXCEPT ![r] = a.given]
           u == [mem |-> M, cards |-> s.cards, root |-> R, table |-> s.table]
<1>1. Create(a, r, shape, o)
        = [s EXCEPT !.mem = [p \in Pages |-> IF p = a.given THEN HeaderOf(shape, o)
                               ELSE IF p \in a.given .. a.given + shape.pages - 1 THEN Zero ELSE @[p]],
                    !.root[r] = a.given]
  BY DEF Create, HeaderOf
<1>2. s = [mem |-> s.mem, cards |-> s.cards, root |-> s.root, table |-> s.table]
  BY DEF Whole
<1>3. Create(a, r, shape, o) = [s EXCEPT !.mem = M, !.root = R]
  BY <1>1, <1>2 DEF CreatedIn
<1> HIDE DEF M, R
<1>4. [s EXCEPT !.mem = M, !.root = R] = u
  <2> DEFINE C == s.cards
             T == s.table
             K == s.root
             e == [s EXCEPT !.mem = M]
  <2>1. e = [mem |-> M, cards |-> C, root |-> K, table |-> T]
    BY <1>2
  <2> HIDE DEF C, T, K, s
  <2>2. [e EXCEPT !.root = R] = [mem |-> M, cards |-> C, root |-> R, table |-> T]
    <3> DEFINE g == [mem |-> M, cards |-> C, root |-> K, table |-> T]
    <3>1. [g EXCEPT !.root = R] = [mem |-> M, cards |-> C, root |-> R, table |-> T]
      OBVIOUS
    <3>2. e = g
      BY <2>1
    <3> HIDE DEF g, e
    <3> QED BY <3>1, <3>2
  <2> QED BY <2>2 DEF C, T
<1>5. Create(a, r, shape, o) = u
  BY <1>3, <1>4
<1>6. Whole(u) /\ u.mem = M /\ u.cards = s.cards /\ u.table = s.table /\ u.root = R
  BY DEF Whole
<1> HIDE DEF u
<1> QED BY <1>5, <1>6 DEF CreatedState, M, R

-----------------------------------------------------------------------------
\* The memory that is given holds no object, and is behind the last of its area.
Clear(t, q, size) ==
  /\ q \in Pages /\ q # Nil
  /\ \A p \in YoungHeads(t) \cup MatureHeads(t) \cup PermHeads(t) : p \in Pages /\ ~(q <= p /\ p < q + size)

\* The memory that is given holds no object.
LEMMA GivenClear ==
  ASSUME NEW t, HeapOK(t), NEW field \in Current, NEW size \in Nat, size # 0,
         Room(t.table, field, size), NEW q, q = t.table[field]
  PROVE  Clear(t, q, size)
<1>1. Placed(t) /\ TableOK(t.table)
  BY CellsPlaced DEF HeapOK
<1> DEFINE b == t.table
<1>2. /\ b.gc_yg_start \in Nat /\ b.gc_yg_current \in Nat /\ b.gc_yg_end \in Nat /\ b.gc_yg_end <= 2 * YGSize
      /\ b.gc_mg_current \in Nat /\ 2 * YGSize <= b.gc_mg_current
      /\ b.gc_perm_current \in Nat /\ PermStart <= b.gc_perm_current
      /\ b.gc_yg_current <= b.gc_yg_end /\ b.gc_mg_current <= Limit
  <2>1. TableOK(b)
    BY <1>1
  <2> HIDE DEF b
  <2> QED BY <2>1, TableFacts DEF TableOK
<1>3. Room(b, field, size) /\ q = b[field]
  OBVIOUS
<1>4. /\ \A p \in YoungHeads(t) : p \in Nat /\ p < b.gc_yg_current /\ p \in Pages
      /\ \A p \in MatureHeads(t) : p \in Nat /\ 2 * YGSize <= p /\ p < b.gc_mg_current /\ p \in Pages
      /\ \A p \in PermHeads(t) : p \in Nat /\ PermStart <= p /\ p < b.gc_perm_current /\ p \in Pages
  BY <1>1 DEF Placed
<1> HIDE DEF b
<1>5. CASE field = "gc_yg_current"
  <2>1. q = b.gc_yg_current /\ q + size <= b.gc_yg_end
    BY <1>3, <1>5 DEF Room
  <2> QED BY <2>1, <1>2, <1>4, Areas DEF Clear
<1>6. CASE field = "gc_mg_current"
  <2>1. q = b.gc_mg_current /\ q + size <= Limit
    BY <1>3, <1>6 DEF Room
  <2> QED BY <2>1, <1>2, <1>4, Areas DEF Clear
<1>7. CASE field = "gc_perm_current"
  <2>1. q = b.gc_perm_current /\ q + size <= PermStart + PermSize
    BY <1>3, <1>7 DEF Room
  <2> QED BY <2>1, <1>2, <1>4, Areas DEF Clear
<1> QED BY <1>5, <1>6, <1>7 DEF Current

\* The table stays in order when memory is given.
LEMMA GivenTable ==
  ASSUME NEW t, HeapOK(t), NEW field \in Current, NEW size \in Nat,
         Room(t.table, field, size), NEW a, Given(t, field, size, a)
  PROVE  TableOK(a.state.table)
<1> DEFINE b == t.table
           c == a.state.table
<1>1. TableOK(b)
  BY DEF HeapOK
<1>2. /\ c \in Tables
      /\ c.gc_yg_start = b.gc_yg_start /\ c.gc_yg_end = b.gc_yg_end
      /\ c.gc_shadow = b.gc_shadow /\ c.gc_shadow_end = b.gc_shadow_end
      /\ c.gc_mg_start = b.gc_mg_start /\ c.gc_end = b.gc_end
      /\ c.gc_perm_start = b.gc_perm_start
      /\ c.gc_yg_current = b.gc_yg_current + (IF field = "gc_yg_current" THEN size ELSE 0)
      /\ c.gc_mg_current = b.gc_mg_current + (IF field = "gc_mg_current" THEN size ELSE 0)
      /\ c.gc_perm_current = b.gc_perm_current + (IF field = "gc_perm_current" THEN size ELSE 0)
  BY DEF Given
<1>3. Room(b, field, size)
  OBVIOUS
<1> HIDE DEF b, c
<1>4. /\ b.gc_yg_start \in Nat /\ b.gc_yg_current \in Nat /\ b.gc_yg_end \in Nat /\ b.gc_yg_start <= b.gc_yg_current
      /\ b.gc_mg_current \in Nat /\ 2 * YGSize <= b.gc_mg_current /\ b.gc_yg_current <= b.gc_yg_end /\ b.gc_mg_current <= Limit
  BY <1>1, TableFacts
<1>5. b.gc_perm_current \in Nat /\ PermStart <= b.gc_perm_current /\ b.gc_perm_current <= PermStart + PermSize
  BY <1>1, Areas DEF TableOK
<1>6. c.gc_yg_current \in c.gc_yg_start .. c.gc_yg_end
  BY <1>2, <1>3, <1>4 DEF Room
<1>7. c.gc_mg_current \in 2 * YGSize .. Limit
  BY <1>2, <1>3, <1>4, Areas DEF Room
<1>8. c.gc_perm_current \in PermStart .. PermStart + PermSize
  BY <1>2, <1>3, <1>5, Areas DEF Room
<1>9. TableOK(c)
  BY <1>1, <1>2, <1>6, <1>7, <1>8 DEF TableOK
<1> QED BY <1>9 DEF c

\* The objects S fill the area from from to to.
Area(m, S, from, to) == S = Walk(m, from, to) /\ Tiled(m, S, from, to)

SamePages(m, n, S) == \A p \in S : n[p].pages = m[p].pages /\ m[p].pages \in Nat \ {0}

\* An area grows by the object behind it.
LEMMA AreaGrown ==
  ASSUME NEW m, NEW n, NEW from \in Nat, NEW to \in Nat, NEW S, Area(m, S, from, to), SamePages(m, n, S),
         NEW size \in Nat \ {0}, size = n[to].pages
  PROVE  Area(n, S \cup {to}, from, to + size)
<1>0. Tiled(m, S, from, to) /\ \A p \in S : n[p].pages = m[p].pages /\ m[p].pages \in Nat \ {0}
  BY DEF Area, SamePages
<1>1. Tiled(n, S \cup {to}, from, to + size)
  BY <1>0, TiledAppend
<1>2. \A p \in S \cup {to} : n[p].pages \in Nat \ {0}
  BY <1>0
<1>3. to + size \in Nat
  OBVIOUS
<1>4. Walk(n, from, to + size) = S \cup {to}
  BY <1>1, <1>2, <1>3, WalkTiled
<1> QED BY <1>1, <1>4 DEF Area

\* An area whose objects keep their size stays as it is.
LEMMA AreaKept ==
  ASSUME NEW m, NEW n, NEW from \in Nat, NEW to \in Nat, NEW S, Area(m, S, from, to), SamePages(m, n, S)
  PROVE  Area(n, S, from, to)
<1>0. Tiled(m, S, from, to) /\ \A p \in S : n[p].pages = m[p].pages /\ m[p].pages \in Nat \ {0}
  BY DEF Area, SamePages
<1>1. Tiled(n, S, from, to)
  BY <1>0, TiledAgree
<1>2. \A p \in S : n[p].pages \in Nat \ {0}
  BY <1>0
<1>3. Walk(n, from, to) = S
  BY <1>1, <1>2, WalkTiled
<1> QED BY <1>1, <1>3 DEF Area

\* The area that is given in is filled on by q.
LEMMA AreaNext ==
  ASSUME NEW m, NEW n, NEW from \in Nat, NEW S, NEW b, NEW f, b[f] \in Nat, Area(m, S, from, b[f]),
         SamePages(m, n, S), NEW size \in Nat \ {0}, NEW q, n[q].pages = size, NEW field, field = f => q = b[f]
  PROVE  Area(n, S \cup (IF field = f THEN {q} ELSE {}), from, b[f] + (IF field = f THEN size ELSE 0))
<1>1. CASE field = f
  <2> DEFINE to == b[f]
  <2>1. Area(m, S, from, to) /\ to \in Nat /\ q = to /\ size = n[to].pages
    BY <1>1
  <2> HIDE DEF to
  <2>2. Area(n, S \cup {to}, from, to + size)
    BY <2>1, AreaGrown
  <2> QED BY <1>1, <2>1, <2>2 DEF to
<1>2. CASE field # f
  <2> DEFINE to == b[f]
  <2>1. Area(m, S, from, to) /\ to \in Nat
    OBVIOUS
  <2> HIDE DEF to
  <2>2. Area(n, S, from, to)
    BY <2>1, AreaKept
  <2>3. S \cup {} = S /\ to + 0 = to
    BY <2>1
  <2> QED BY <1>2, <2>2, <2>3 DEF to
<1> QED BY <1>1, <1>2

\* The walks of u find the objects of t, and the one at q.
HeadsGrown(t, u, field, q) ==
  /\ YoungHeads(u) = YoungHeads(t) \cup (IF field = "gc_yg_current" THEN {q} ELSE {})
  /\ MatureHeads(u) = MatureHeads(t) \cup (IF field = "gc_mg_current" THEN {q} ELSE {})
  /\ PermHeads(u) = PermHeads(t) \cup (IF field = "gc_perm_current" THEN {q} ELSE {})
  /\ Covered(u)

\* The walk over the area that gave the memory finds the new object, the others
\* find the same as before.
LEMMA HeadsOfCreated ==
  ASSUME NEW t, HeapOK(t), NEW field \in Current, NEW shape \in Shapes, NEW o,
         NEW q, q = t.table[field], Clear(t, q, shape.pages),
         NEW a, Given(t, field, shape.pages, a),
         NEW u, u.table = a.state.table, NewObject(t.mem, u.mem, q, shape, o)
  PROVE  HeadsGrown(t, u, field, q)
<1> DEFINE b == t.table
           m == t.mem
           n == u.mem
           size == shape.pages
           Y == YoungHeads(t)
           M == MatureHeads(t)
           P == PermHeads(t)
           add(f) == IF field = f THEN size ELSE 0
           new(f) == IF field = f THEN {q} ELSE {}
<1>1. TableOK(b) /\ Covered(t) /\ m \in Memories
  BY DEF HeapOK, Typed
<1>2. /\ u.table.gc_yg_start = b.gc_yg_start /\ u.table.gc_mg_start = b.gc_mg_start
      /\ u.table.gc_perm_start = b.gc_perm_start
      /\ u.table.gc_yg_current = b.gc_yg_current + add("gc_yg_current")
      /\ u.table.gc_mg_current = b.gc_mg_current + add("gc_mg_current")
      /\ u.table.gc_perm_current = b.gc_perm_current + add("gc_perm_current")
  BY DEF Given
<1>3. size \in Nat \ {0} /\ n[q].pages = size /\ q \in Pages
  BY ShapeType DEF NewObject, Clear
<1>4. \A p \in Y \cup M \cup P : n[p].pages = m[p].pages /\ m[p].pages \in Nat \ {0}
  <2> SUFFICES ASSUME NEW p \in Y \cup M \cup P PROVE n[p].pages = m[p].pages /\ m[p].pages \in Nat \ {0}
    OBVIOUS
  <2>1. p \in Pages /\ ~(q <= p /\ p < q + size)
    BY DEF Clear
  <2>2. n[p] = m[p]
    BY <2>1 DEF NewObject
  <2> QED BY <2>1, <2>2, <1>1, HeaderType
<1>5. /\ Area(m, Y, b.gc_yg_start, b.gc_yg_current) /\ Area(m, M, b.gc_mg_start, b.gc_mg_current)
      /\ Area(m, P, b.gc_perm_start, b.gc_perm_current)
  BY <1>1 DEF Covered, YoungHeads, MatureHeads, PermHeads, Area
<1>6. /\ b.gc_yg_start \in Nat /\ b.gc_yg_current \in Nat /\ b.gc_mg_start \in Nat /\ b.gc_mg_current \in Nat
      /\ b.gc_perm_start \in Nat /\ b.gc_perm_current \in Nat
  BY <1>1 DEF TableOK, Tables
<1>7. SamePages(m, n, Y) /\ SamePages(m, n, M) /\ SamePages(m, n, P)
  BY <1>4 DEF SamePages
<1>8. q = b[field]
  OBVIOUS
<1> HIDE DEF Y, M, P, m, n, b, size
<1>10. Area(n, Y \cup new("gc_yg_current"), b.gc_yg_start, b.gc_yg_current + add("gc_yg_current"))
  <2>1. b["gc_yg_current"] \in Nat /\ Area(m, Y, b.gc_yg_start, b["gc_yg_current"])
    BY <1>5, <1>6
  <2> HIDE DEF add, new
  <2>2. Area(n, Y \cup new("gc_yg_current"), b.gc_yg_start, b["gc_yg_current"] + add("gc_yg_current"))
    BY <2>1, <1>3, <1>6, <1>7, <1>8, AreaNext DEF add, new
  <2> QED BY <2>2
<1>11. Area(n, M \cup new("gc_mg_current"), b.gc_mg_start, b.gc_mg_current + add("gc_mg_current"))
  <2>1. b["gc_mg_current"] \in Nat /\ Area(m, M, b.gc_mg_start, b["gc_mg_current"])
    BY <1>5, <1>6
  <2> HIDE DEF add, new
  <2>2. Area(n, M \cup new("gc_mg_current"), b.gc_mg_start, b["gc_mg_current"] + add("gc_mg_current"))
    BY <2>1, <1>3, <1>6, <1>7, <1>8, AreaNext DEF add, new
  <2> QED BY <2>2
<1>12. Area(n, P \cup new("gc_perm_current"), b.gc_perm_start, b.gc_perm_current + add("gc_perm_current"))
  <2>1. b["gc_perm_current"] \in Nat /\ Area(m, P, b.gc_perm_start, b["gc_perm_current"])
    BY <1>5, <1>6
  <2> HIDE DEF add, new
  <2>2. Area(n, P \cup new("gc_perm_current"), b.gc_perm_start, b["gc_perm_current"] + add("gc_perm_current"))
    BY <2>1, <1>3, <1>6, <1>7, <1>8, AreaNext DEF add, new
  <2> QED BY <2>2
<1> HIDE DEF add, new
<1>13. /\ Area(n, Y \cup new("gc_yg_current"), u.table.gc_yg_start, u.table.gc_yg_current)
       /\ Area(n, M \cup new("gc_mg_current"), u.table.gc_mg_start, u.table.gc_mg_current)
       /\ Area(n, P \cup new("gc_perm_current"), u.table.gc_perm_start, u.table.gc_perm_current)
  BY <1>2, <1>10, <1>11, <1>12
<1>14. /\ YoungHeads(u) = Y \cup new("gc_yg_current") /\ MatureHeads(u) = M \cup new("gc_mg_current")
       /\ PermHeads(u) = P \cup new("gc_perm_current") /\ Covered(u)
  BY <1>13 DEF YoungHeads, MatureHeads, PermHeads, Covered, Area, n
<1> QED BY <1>14 DEF HeadsGrown, Y, M, P, new

-----------------------------------------------------------------------------
(* The state u is t with a new object at q, which the root r refers to.    *)

Born(t, u, field, q, r, shape, o) ==
  /\ q \in Pages /\ q \notin Cells(t)
  /\ Cells(u) = Cells(t) \cup {q}
  /\ PermHeads(u) = PermHeads(t) \cup (IF field = "gc_perm_current" THEN {q} ELSE {})
  /\ u.mem[q].pages = shape.pages /\ u.mem[q].vmt = o
  /\ Len(u.mem[q].fields) = shape.fields
  /\ \A i \in 1 .. shape.fields : u.mem[q].fields[i] = Nil
  /\ \A p \in Cells(t) : u.mem[p] = t.mem[p]
  /\ u.root = [t.root EXCEPT ![r] = q]

\* A new object leaves the heap in order.
LEMMA CreateWorks ==
  ASSUME NEW t, HeapOK(t), NEW field \in Current, NEW shape \in Shapes, NEW o \in Objects, NEW r \in Roots,
         Room(t.table, field, shape.pages), NEW a, Given(t, field, shape.pages, a),
         NEW u, u = Create(a, r, shape, o)
  PROVE  HeapOK(u) /\ Born(t, u, field, a.given, r, shape, o) /\ a.given # Nil
<1> DEFINE q == a.given
           m == t.mem
           n == u.mem
           C == Cells(t)
<1>1. shape.pages \in Nat /\ shape.pages # 0 /\ shape.pages >= 1 /\ shape.fields \in Nat
  BY ShapeType
<1>2. q = t.table[field] /\ Whole(a.state) /\ a.state.mem = m /\ a.state.root = t.root /\ a.state.cards = t.cards
  BY <1>1 DEF Given
<1>3. Clear(t, q, shape.pages)
  BY <1>1, <1>2, GivenClear
<1>4. q \in Pages /\ q # Nil /\ q \in Nat
  BY <1>3, Areas DEF Clear
<1>5. CreatedState(a, r, shape, o, u)
  BY <1>2, <1>4, CreateDef
<1>6. n = CreatedIn(m, q, shape, o) /\ u.cards = t.cards /\ u.table = a.state.table
      /\ u.root = [t.root EXCEPT ![r] = q]
  BY <1>2, <1>5 DEF CreatedState
<1>7. TableOK(t.table) /\ Typed(t) /\ Covered(t) /\ Closed(t) /\ Rest(t) /\ Carded(t) /\ Shaped(t)
  BY DEF HeapOK
<1>8. m \in Memories
  BY <1>7 DEF Typed
<1>9. NewObject(m, n, q, shape, o)
  BY <1>4, <1>6, <1>8, CreatedInWorks
<1>10. TableOK(u.table)
  BY <1>1, <1>6, GivenTable
<1>11. HeadsGrown(t, u, field, q)
  BY <1>2, <1>3, <1>6, <1>9, HeadsOfCreated
<1>12. Placed(t)
  BY <1>7, CellsPlaced
<1> HIDE DEF q
<1>13. \A p \in YoungHeads(t) \cup MatureHeads(t) \cup PermHeads(t) : p \in Pages /\ p # q /\ n[p] = m[p]
  <2> SUFFICES ASSUME NEW p \in YoungHeads(t) \cup MatureHeads(t) \cup PermHeads(t)
               PROVE  p \in Pages /\ p # q /\ n[p] = m[p]
    OBVIOUS
  <2>1. p \in Pages /\ ~(q <= p /\ p < q + shape.pages) /\ p \in Nat
    BY <1>3, Areas DEF Clear
  <2> QED BY <2>1, <1>1, <1>4, <1>9 DEF NewObject
<1>14. C = {p \in YoungHeads(t) \cup MatureHeads(t) \cup PermHeads(t) : ~m[p].marked}
  BY DEF Cells
<1>15. YoungHeads(u) \cup MatureHeads(u) \cup PermHeads(u) = YoungHeads(t) \cup MatureHeads(t) \cup PermHeads(t) \cup {q}
  BY <1>11 DEF HeadsGrown, Current
<1>16. Cells(u) = C \cup {q}
  <2>1. Cells(u) = {p \in YoungHeads(u) \cup MatureHeads(u) \cup PermHeads(u) : ~n[p].marked}
    BY DEF Cells
  <2>2. ~n[q].marked
    BY <1>9 DEF NewObject
  <2> HIDE DEF n, C, m
  <2> QED BY <2>1, <2>2, <1>13, <1>14, <1>15
<1>17. q \notin C /\ \A p \in C : p \in Pages /\ n[p] = m[p]
  BY <1>13, <1>14
<1> HIDE DEF C
<1>18. /\ n \in Memories /\ n[q].pages = shape.pages /\ n[q].marked = FALSE /\ n[q].vmt = o
       /\ Len(n[q].fields) = shape.fields /\ n[q].fields \in Words
       /\ \A i \in 1 .. shape.fields : n[q].fields[i] = Nil
       /\ \A p \in Pages : q < p /\ p < q + shape.pages => n[p] = Zero
       /\ \A p \in Pages : ~(q <= p /\ p < q + shape.pages) => n[p] = m[p]
  BY <1>9 DEF NewObject
<1>19. \A p \in Pages : p = q \/ n[p] = Zero \/ n[p] = m[p]
  <2> SUFFICES ASSUME NEW p \in Pages, p # q PROVE n[p] = Zero \/ n[p] = m[p]
    OBVIOUS
  <2>1. p \in Nat /\ q \in Nat /\ shape.pages \in Nat
    BY <1>1, <1>4, Areas
  <2>2. (q < p /\ p < q + shape.pages) \/ ~(q <= p /\ p < q + shape.pages)
    BY <2>1
  <2> HIDE DEF n, m
  <2> QED BY <1>18, <2>2
<1> HIDE DEF n, m
<1>20. Nil \notin YoungHeads(u) /\ \A i \in {ToSet(n[q].fields)} : i \subseteq {Nil}
  <2>1. ToSet(n[q].fields) = {n[q].fields[i] : i \in 1 .. Len(n[q].fields)}
    <3> DEFINE w == n[q].fields
    <3>1. w \in Words
      BY <1>18
    <3> HIDE DEF w
    <3>2. ToSet(w) = {w[i] : i \in 1 .. Len(w)}
      BY <3>1 DEF ToSet, Words
    <3> QED BY <3>2 DEF w
  <2>2. Nil \notin YoungHeads(u)
    <3>1. YoungHeads(u) \subseteq YoungHeads(t) \cup {q}
      BY <1>11 DEF HeadsGrown
    <3> QED BY <3>1, <1>4, <1>13, Areas
  <2> QED BY <2>1, <2>2, <1>18
<1>21. u.root \in [Roots -> Pages \cup {Nil}] /\ \A i \in Roots : u.root[i] = q \/ u.root[i] = t.root[i]
  <2> DEFINE root0 == t.root
             root1 == u.root
  <2>1. root0 \in [Roots -> Pages \cup {Nil}] /\ root1 = [root0 EXCEPT ![r] = q]
    BY <1>6, <1>7 DEF Typed
  <2> HIDE DEF root0, root1
  <2>2. root1 \in [Roots -> Pages \cup {Nil}] /\ \A i \in Roots : root1[i] = q \/ root1[i] = root0[i]
    BY <2>1, <1>4
  <2> QED BY <2>2 DEF root0, root1
<1>22. Typed(u)
  <2>1. \A p \in Pages : n[p].vmt \in Objects \cup {NoObject}
    <3>1. \A p \in Pages : m[p].vmt \in Objects \cup {NoObject}
      BY <1>7 DEF Typed, m
    <3> QED BY <3>1, <1>18, <1>19, ZeroHeader
  <2> QED BY <2>1, <1>6, <1>7, <1>18, <1>21 DEF Typed, n
<1>23. Covered(u)
  BY <1>11 DEF HeadsGrown
<1>24. Closed(u)
  <2>1. \A i \in Roots : u.root[i] \in C \cup {q} \cup {Nil}
    <3>1. \A i \in Roots : t.root[i] \in C \cup {Nil}
      BY <1>7 DEF Closed, C
    <3> QED BY <3>1, <1>21
  <2>2. \A p \in C : ToSet(n[p].fields) \subseteq C \cup {Nil}
    <3>1. \A p \in C : ToSet(m[p].fields) \subseteq C \cup {Nil}
      BY <1>7 DEF Closed, C, m
    <3> QED BY <3>1, <1>17
  <2>3. \A p \in C \cup {q} : ToSet(n[p].fields) \subseteq C \cup {q} \cup {Nil}
    BY <2>2, <1>20
  <2> QED BY <2>1, <2>3, <1>16 DEF Closed, n
<1>25. Rest(u)
  <2>1. \A p \in Pages \ C : m[p].fields = <<>>
    BY <1>7 DEF Rest, C, m
  <2>2. \A p \in Pages : m[p].marked => p \in 2 * YGSize .. Limit - 1 /\ p + m[p].pages <= Limit
    BY <1>7 DEF Rest, m
  <2>3. \A p \in Pages \ (C \cup {q}) : n[p].fields = <<>>
    BY <2>1, <1>19, ZeroHeader
  <2>4. \A p \in Pages : n[p].marked => p \in 2 * YGSize .. Limit - 1 /\ p + n[p].pages <= Limit
    BY <2>2, <1>18, <1>19, ZeroHeader
  <2> QED BY <2>3, <2>4, <1>16 DEF Rest, n
<1>26. Carded(u)
  <2> SUFFICES ASSUME NEW p \in Cells(u) \cap MatureHeads(u), p \notin u.cards
               PROVE  ToSet(n[p].fields) \cap YoungHeads(u) = {}
    BY DEF Carded, n
  <2>1. CASE p = q
    BY <2>1, <1>20
  <2>2. CASE p # q
    <3>1. p \in C /\ n[p] = m[p] /\ p \notin t.cards
      BY <2>2, <1>6, <1>16, <1>17
    <3>2. p \in MatureHeads(t)
      BY <2>2, <1>11 DEF HeadsGrown
    <3>3. ToSet(m[p].fields) \cap YoungHeads(t) = {}
      BY <3>1, <3>2, <1>7 DEF Carded, C, m
    <3>4. ToSet(m[p].fields) \subseteq C \cup {Nil}
      BY <3>1, <1>7 DEF Closed, C, m
    <3>5. YoungHeads(u) \subseteq YoungHeads(t) \cup {q}
      BY <1>11 DEF HeadsGrown
    <3> QED BY <3>1, <3>3, <3>4, <3>5, <1>4, <1>17
  <2> QED BY <2>1, <2>2
<1>27. Shaped(u)
  <2> SUFFICES ASSUME NEW p \in Cells(u)
               PROVE  n[p].vmt \in Objects /\ \E sh \in Shapes : n[p].pages = sh.pages /\ Len(n[p].fields) = sh.fields
    BY DEF Shaped, n
  <2>1. CASE p = q
    BY <2>1, <1>18
  <2>2. CASE p # q
    <3>1. p \in C /\ n[p] = m[p]
      BY <2>2, <1>16, <1>17
    <3>2. m[p].vmt \in Objects /\ \E sh \in Shapes : m[p].pages = sh.pages /\ Len(m[p].fields) = sh.fields
      BY <3>1, <1>7 DEF Shaped, C, m
    <3> QED BY <3>1, <3>2
  <2> QED BY <2>1, <2>2
<1>28. HeapOK(u)
  BY <1>10, <1>22, <1>23, <1>24, <1>25, <1>26, <1>27 DEF HeapOK
<1>29. PermHeads(u) = PermHeads(t) \cup (IF field = "gc_perm_current" THEN {q} ELSE {})
  BY <1>11 DEF HeadsGrown
<1>30. Born(t, u, field, q, r, shape, o)
  BY <1>4, <1>6, <1>16, <1>17, <1>18, <1>29 DEF Born, C, n, m
<1> QED BY <1>28, <1>30, <1>4 DEF q

-----------------------------------------------------------------------------
(* What the program sees of a state.                                       *)

Name(s, word) == IF word = Nil THEN NoObject ELSE s.mem[word].vmt

ContentAt(s, p) ==
  [pages |-> s.mem[p].pages,
   fields |-> [i \in DOMAIN s.mem[p].fields |-> Name(s, s.mem[p].fields[i])]]

Named(s, o) == {p \in LiveOf(s) : s.mem[p].vmt = o}

ContentsOf(s) ==
  [o \in Objects |-> IF Named(s, o) = {} THEN Forgotten ELSE ContentAt(s, CHOOSE p \in Named(s, o) : TRUE)]

RefersOf(s) == [r \in Roots |-> Name(s, s.root[r])]

PermanentOf(s) == {s.mem[p].vmt : p \in PermHeads(s)}

\* c has the contents of the objects of s, and no others.
Depicts(s, c) ==
  /\ c = [o \in Objects |-> c[o]]
  /\ \A p \in LiveOf(s) : c[s.mem[p].vmt] = ContentAt(s, p)
  /\ \A o \in Objects : Named(s, o) = {} => c[o] = Forgotten

\* What is live are objects in place, closed under references, with an identity
\* each.
LEMMA LiveFacts ==
  ASSUME NEW s, HeapOK(s)
  PROVE  /\ LiveOf(s) \subseteq Cells(s) /\ LiveOf(s) \subseteq Pages /\ Rooted(s, LiveOf(s))
         /\ \A p \in LiveOf(s) : s.mem[p].vmt \in Objects /\ s.mem[p].vmt # NoObject
<1>1. Lives(s, LiveOf(s))
  BY LiveWorks
<1>2. \A p \in Cells(s) : s.mem[p].vmt \in Objects
  BY DEF HeapOK, Shaped
<1> QED BY <1>1, <1>2, NameAssumption DEF Lives

\* Contents shows every live object and nothing else.
LEMMA ContentsDepict ==
  ASSUME NEW s, HeapOK(s), Unique(s)
  PROVE  Depicts(s, ContentsOf(s))
<1> DEFINE c == ContentsOf(s)
<1>1. c = [o \in Objects |-> IF Named(s, o) = {} THEN Forgotten ELSE ContentAt(s, CHOOSE p \in Named(s, o) : TRUE)]
  BY DEF ContentsOf
<1> HIDE DEF c
<1>2. c = [o \in Objects |-> c[o]]
  BY <1>1
<1>3. ASSUME NEW p \in LiveOf(s) PROVE c[s.mem[p].vmt] = ContentAt(s, p)
  <2> DEFINE o == s.mem[p].vmt
  <2>1. o \in Objects
    BY LiveFacts
  <2>2. Named(s, o) = {p}
    BY DEF Named, Unique
  <2>3. (CHOOSE q \in {p} : TRUE) = p
    OBVIOUS
  <2> HIDE DEF o
  <2>4. c[o] = ContentAt(s, CHOOSE q \in Named(s, o) : TRUE)
    BY <1>1, <2>1, <2>2
  <2>5. c[o] = ContentAt(s, CHOOSE q \in {p} : TRUE)
    BY <2>2, <2>4
  <2>6. c[o] = ContentAt(s, p)
    BY <2>3, <2>5
  <2> QED BY <2>6 DEF o
<1>4. \A o \in Objects : Named(s, o) = {} => c[o] = Forgotten
  BY <1>1
<1> QED BY <1>2, <1>3, <1>4 DEF Depicts, c

\* What is shown is determined.
LEMMA OneDepiction ==
  ASSUME NEW s, NEW c, NEW d, Depicts(s, c), Depicts(s, d)
  PROVE  c = d
<1>1. ASSUME NEW o \in Objects PROVE c[o] = d[o]
  <2>1. CASE Named(s, o) = {}
    BY <2>1 DEF Depicts
  <2>2. CASE Named(s, o) # {}
    BY <2>2 DEF Depicts, Named
  <2> QED BY <2>1, <2>2
<1> QED BY <1>1 DEF Depicts

\* States with the same graph of objects look the same.
SameView(s, t) ==
  ContentsOf(t) = ContentsOf(s) /\ RefersOf(t) = RefersOf(s) /\ PermanentOf(t) = PermanentOf(s)

\* When objects only move, the program sees the same.
LEMMA SameGraphView ==
  ASSUME NEW s, NEW t, HeapOK(s), HeapOK(t), SameGraph(s, t), Unique(s)
  PROVE  SameView(s, t)
<1>1. PICK f : Moved(s, t, f)
  BY DEF SameGraph
<1>2. Unique(t)
  BY SameGraphUnique
<1> DEFINE L == LiveOf(s)
<1>3. \A w, new : Renamed(L, f, w, new) => Name(t, new) = Name(s, w)
  <2> SUFFICES ASSUME NEW w, NEW new, Renamed(L, f, w, new) PROVE Name(t, new) = Name(s, w)
    OBVIOUS
  <2>1. CASE w = Nil
    BY <2>1 DEF Renamed, Name
  <2>2. CASE w # Nil
    <3>1. w \in L /\ new = f[w]
      BY <2>2 DEF Renamed
    <3>2. f[w] \in Pages /\ t.mem[f[w]].vmt = s.mem[w].vmt
      BY <3>1, <1>1 DEF Moved
    <3>3. new # Nil
      BY <3>1, <3>2, Areas
    <3> QED BY <2>2, <3>1, <3>2, <3>3 DEF Name
  <2> QED BY <2>1, <2>2
<1>4. ASSUME NEW p \in L PROVE ContentAt(t, f[p]) = ContentAt(s, p)
  <2> DEFINE a == s.mem[p].fields
             b == t.mem[f[p]].fields
  <2>1. /\ t.mem[f[p]].pages = s.mem[p].pages /\ Len(b) = Len(a)
        /\ \A i \in 1 .. Len(a) : Renamed(L, f, a[i], b[i])
    BY <1>1 DEF Moved
  <2>2. p \in Pages /\ f[p] \in Pages /\ s.mem \in Memories /\ t.mem \in Memories
    <3>1. p \in Pages
      BY LiveFacts
    <3> QED BY <3>1, <1>1 DEF Moved, HeapOK, Typed
  <2>3. a \in Words /\ b \in Words
    BY <2>2, HeaderType
  <2> HIDE DEF a, b
  <2>4. DOMAIN a = 1 .. Len(a) /\ DOMAIN b = 1 .. Len(a)
    BY <2>1, <2>3 DEF Words
  <2>5. \A i \in 1 .. Len(a) : Name(t, b[i]) = Name(s, a[i])
    BY <2>1, <1>3
  <2>6. [i \in DOMAIN b |-> Name(t, b[i])] = [i \in DOMAIN a |-> Name(s, a[i])]
    BY <2>4, <2>5
  <2> QED BY <2>1, <2>6 DEF ContentAt, a, b
<1>5. /\ f \in [L -> Pages] /\ LiveOf(t) = {f[p] : p \in L} /\ PermHeads(t) = PermHeads(s)
      /\ (\A p \in PermHeads(s) : p \in L /\ f[p] = p)
      /\ (\A p \in L : t.mem[f[p]].vmt = s.mem[p].vmt)
      /\ (\A r \in Roots : Renamed(L, f, s.root[r], t.root[r]))
  BY <1>1 DEF Moved
<1> DEFINE c == ContentsOf(s)
<1>6. Depicts(s, c) /\ Depicts(t, ContentsOf(t))
  BY <1>2, ContentsDepict
<1> HIDE DEF c
<1>7. Depicts(t, c)
  <2>1. ASSUME NEW q \in LiveOf(t) PROVE c[t.mem[q].vmt] = ContentAt(t, q)
    <3>1. PICK p \in L : q = f[p]
      BY <1>5
    <3>2. c[s.mem[p].vmt] = ContentAt(s, p)
      BY <1>6 DEF Depicts
    <3> QED BY <3>1, <3>2, <1>4, <1>5
  <2>2. ASSUME NEW o \in Objects, Named(t, o) = {} PROVE c[o] = Forgotten
    <3>1. \A p \in L : s.mem[p].vmt # o
      BY <2>2, <1>5 DEF Named
    <3>2. Named(s, o) = {}
      BY <3>1 DEF Named
    <3> QED BY <3>2, <1>6 DEF Depicts
  <2> QED BY <2>1, <2>2, <1>6 DEF Depicts
<1>8. ContentsOf(t) = c
  BY <1>6, <1>7, OneDepiction
<1>9. \A r \in Roots : Name(t, t.root[r]) = Name(s, s.root[r])
  BY <1>3, <1>5
<1>10. RefersOf(t) = RefersOf(s)
  BY <1>9 DEF RefersOf
<1>11. PermanentOf(t) = PermanentOf(s)
  <2>1. \A p \in PermHeads(s) : t.mem[p].vmt = s.mem[p].vmt
    BY <1>5
  <2> QED BY <2>1, <1>5 DEF PermanentOf
<1> QED BY <1>8, <1>10, <1>11 DEF SameView, c

-----------------------------------------------------------------------------
(* The contents after an operation of the program.                         *)

\* The objects of Z have different identities and the contents cont.
Pictured(u, Z, cont) ==
  /\ Z \in SUBSET Pages /\ Rooted(u, Z)
  /\ \A p, q \in Z : u.mem[p].vmt = u.mem[q].vmt => p = q
  /\ \A p \in Z : u.mem[p].vmt \in Objects /\ cont[u.mem[p].vmt] = ContentAt(u, p)

FromOf(u) == (ToSet(RefersOf(u)) \cup PermanentOf(u)) \ {NoObject}

Updated(u, cont) ==
  ContentsOf(u) = [o \in Objects |-> IF o \in Graph!ReachableFrom(cont, FromOf(u)) THEN cont[o] ELSE Forgotten]

\* A content is not Forgotten.
LEMMA ContentType ==
  ASSUME NEW u, u.mem \in Memories, NEW Z \in SUBSET Pages, NEW p \in Z,
         \A q \in Z : u.mem[q].vmt \in Objects,
         \A i \in 1 .. Len(u.mem[p].fields) : u.mem[p].fields[i] \in Z \cup {Nil}
  PROVE  ContentAt(u, p) # Forgotten
<1> DEFINE a == u.mem[p].fields
           b == [i \in DOMAIN a |-> Name(u, a[i])]
<1>1. a \in Words /\ u.mem[p].pages \in Nat
  BY HeaderType
<1>2. \A i \in 1 .. Len(a) : a[i] \in Z \cup {Nil}
  OBVIOUS
<1> HIDE DEF a
<1>3. DOMAIN a = 1 .. Len(a) /\ Len(a) \in Nat
  BY <1>1 DEF Words
<1>4. \A i \in 1 .. Len(a) : Name(u, a[i]) \in Objects \cup {NoObject}
  BY <1>2 DEF Name
<1>5. b \in Seq(Objects \cup {NoObject})
  BY <1>3, <1>4
<1>6. ContentAt(u, p) = [pages |-> u.mem[p].pages, fields |-> b]
  BY DEF ContentAt, a
<1> HIDE DEF b
<1>7. ContentAt(u, p) \in [pages : Nat, fields : Seq(Objects \cup {NoObject})]
  BY <1>1, <1>5, <1>6
<1> QED BY <1>7, NameAssumption

\* The objects that are reached by identities.
LEMMA SuccessorsOf ==
  ASSUME NEW u, u.mem \in Memories, NEW p \in Pages, NEW cont, NEW o, cont[o] = ContentAt(u, p), cont[o] # Forgotten
  PROVE  Graph!Successors(cont, o) = {Name(u, u.mem[p].fields[i]) : i \in 1 .. Len(u.mem[p].fields)} \ {NoObject}
<1> DEFINE a == u.mem[p].fields
           b == [i \in DOMAIN a |-> Name(u, a[i])]
<1>1. a \in Words
  BY HeaderType
<1>2. ContentAt(u, p).fields = b
  BY DEF ContentAt
<1> HIDE DEF a
<1>3. DOMAIN a = 1 .. Len(a)
  BY <1>1 DEF Words
<1>4. ToSet(b) = {Name(u, a[i]) : i \in 1 .. Len(a)}
  BY <1>3 DEF ToSet
<1> HIDE DEF b
<1>5. Graph!Successors(cont, o) = ToSet(b) \ {NoObject}
  BY <1>2 DEF Graph!Successors, Graph!ToSet, ToSet
<1> QED BY <1>4, <1>5 DEF a

\* S has all that is reached.
Includes(cont, from, S) == from \subseteq S /\ \A o \in S : Graph!Successors(cont, o) \subseteq S

\* What is reachable in ObjectGraph.
LEMMA ReachableDef ==
  ASSUME NEW cont, NEW from
  PROVE  Graph!ReachableFrom(cont, from) = {o \in Objects : \A S \in SUBSET Objects : Includes(cont, from, S) => o \in S}
BY DEF Graph!ReachableFrom, Includes

\* When the objects of Z are as cont says and Z is closed, the program sees
\* what it reaches of cont.
LEMMA PicturedUpdates ==
  ASSUME NEW u, HeapOK(u), NEW Z, NEW cont, Pictured(u, Z, cont)
  PROVE  Unique(u) /\ Updated(u, cont)
<1> DEFINE L == LiveOf(u)
           m == u.mem
           from == FromOf(u)
           R == Graph!ReachableFrom(cont, from)
           N == {m[p].vmt : p \in L}
<1>1. /\ Z \in SUBSET Pages /\ Rooted(u, Z)
      /\ \A p, q \in Z : m[p].vmt = m[q].vmt => p = q
      /\ \A p \in Z : m[p].vmt \in Objects /\ cont[m[p].vmt] = ContentAt(u, p)
  BY DEF Pictured
<1>2. m \in Memories /\ u.root \in [Roots -> Pages \cup {Nil}]
  BY DEF HeapOK, Typed
<1>3. L \subseteq Z /\ Rooted(u, L)
  <2>1. Lives(u, L)
    BY LiveWorks
  <2> QED BY <2>1, <1>1 DEF Lives
<1>4. Unique(u)
  BY <1>1, <1>3 DEF Unique
<1>5. ASSUME NEW p \in Z
      PROVE  Graph!Successors(cont, m[p].vmt) = {Name(u, m[p].fields[i]) : i \in 1 .. Len(m[p].fields)} \ {NoObject}
  <2>1. \A i \in 1 .. Len(m[p].fields) : m[p].fields[i] \in Z \cup {Nil}
    BY <1>1 DEF Rooted
  <2>2. ContentAt(u, p) # Forgotten
    BY <2>1, <1>1, <1>2, ContentType
  <2> QED BY <2>2, <1>1, <1>2, SuccessorsOf
<1>6. from = ({Name(u, u.root[r]) : r \in Roots} \cup {m[p].vmt : p \in PermHeads(u)}) \ {NoObject}
  <2>1. ToSet(RefersOf(u)) = {Name(u, u.root[r]) : r \in Roots}
    BY DEF ToSet, RefersOf
  <2> QED BY <2>1 DEF FromOf, PermanentOf
<1>7. R = {o \in Objects : \A S \in SUBSET Objects : Includes(cont, from, S) => o \in S}
  BY ReachableDef
<1>8. Nil \notin Pages
  BY Areas
<1> HIDE DEF R, from, L
<1>9. \A w : w \in L \cup {Nil} /\ Name(u, w) # NoObject => Name(u, w) \in N
  BY DEF Name
<1>10. Includes(cont, from, N)
  <2>1. from \subseteq N
    <3>1. \A r \in Roots : u.root[r] \in L \cup {Nil}
      BY <1>3 DEF Rooted
    <3>2. PermHeads(u) \subseteq L
      BY <1>3 DEF Rooted
    <3> QED BY <3>1, <3>2, <1>6, <1>9
  <2>2. ASSUME NEW p \in L PROVE Graph!Successors(cont, m[p].vmt) \subseteq N
    <3>1. \A i \in 1 .. Len(m[p].fields) : m[p].fields[i] \in L \cup {Nil}
      BY <1>3 DEF Rooted
    <3>2. p \in Z
      BY <1>3
    <3>3. Graph!Successors(cont, m[p].vmt) = {Name(u, m[p].fields[i]) : i \in 1 .. Len(m[p].fields)} \ {NoObject}
      BY <3>2, <1>5
    <3> HIDE DEF N
    <3> QED BY <3>1, <3>3, <1>9
  <2> QED BY <2>1, <2>2 DEF Includes
<1>11. N \in SUBSET Objects
  BY <1>1, <1>3
<1>12. ASSUME NEW S \in SUBSET Objects, Includes(cont, from, S) PROVE N \subseteq S
  <2> DEFINE W == {p \in Z : m[p].vmt \in S}
  <2>1. \A w : w \in Z \cup {Nil} /\ (Name(u, w) # NoObject => Name(u, w) \in S) => w \in W \cup {Nil}
    BY <1>1, NameAssumption DEF Name
  <2>2. \A r \in Roots : u.root[r] \in W \cup {Nil}
    <3>1. \A r \in Roots : u.root[r] \in Z \cup {Nil}
      BY <1>1 DEF Rooted
    <3>2. \A r \in Roots : Name(u, u.root[r]) # NoObject => Name(u, u.root[r]) \in S
      BY <1>6, <1>12 DEF Includes
    <3> HIDE DEF W
    <3> QED BY <2>1, <3>1, <3>2
  <2>3. PermHeads(u) \subseteq W
    <3>1. \A p \in PermHeads(u) : p \in Z /\ m[p].vmt # NoObject
      BY <1>1, NameAssumption DEF Rooted
    <3> QED BY <3>1, <1>6, <1>12 DEF Includes
  <2>4. ASSUME NEW p \in W, NEW i \in 1 .. Len(m[p].fields) PROVE m[p].fields[i] \in W \cup {Nil}
    <3>1. p \in Z /\ m[p].vmt \in S
      OBVIOUS
    <3>2. m[p].fields[i] \in Z \cup {Nil}
      BY <3>1, <2>4, <1>1 DEF Rooted
    <3>3. Graph!Successors(cont, m[p].vmt) \subseteq S
      BY <3>1, <1>12 DEF Includes
    <3>4. Name(u, m[p].fields[i]) # NoObject => Name(u, m[p].fields[i]) \in S
      BY <3>1, <3>3, <2>4, <1>5
    <3> HIDE DEF W
    <3> QED BY <2>1, <3>2, <3>4
  <2>5. W \in SUBSET Pages /\ Rooted(u, W)
    BY <2>2, <2>3, <2>4, <1>1 DEF Rooted
  <2>6. L \subseteq W
    <3>1. Lives(u, L)
      BY LiveWorks DEF L
    <3> QED BY <3>1, <2>5 DEF Lives
  <2> QED BY <2>6
<1>13. R = N
  <2> HIDE DEF N
  <2> QED BY <1>7, <1>10, <1>11, <1>12
<1> DEFINE c == [o \in Objects |-> IF o \in R THEN cont[o] ELSE Forgotten]
<1>14. Depicts(u, c)
  <2>1. \A p \in L : c[m[p].vmt] = ContentAt(u, p)
    BY <1>1, <1>3, <1>13
  <2>2. \A o \in Objects : Named(u, o) = {} => c[o] = Forgotten
    <3>1. \A o \in Objects : Named(u, o) = {} => o \notin N
      BY DEF Named, L
    <3> QED BY <3>1, <1>13
  <2>3. c = [o \in Objects |-> c[o]]
    OBVIOUS
  <2> QED BY <2>1, <2>2, <2>3 DEF Depicts, L
<1>15. Depicts(u, ContentsOf(u))
  BY <1>4, ContentsDepict
<1> HIDE DEF c
<1>16. ContentsOf(u) = c
  BY <1>14, <1>15, OneDepiction
<1> QED BY <1>4, <1>16 DEF Updated, c, R, from

-----------------------------------------------------------------------------
(* The operations of the program on states.                                *)

\* An identity without an object has none after a move.
LEMMA SameNames ==
  ASSUME NEW s, NEW t, SameGraph(s, t), NEW o, Named(s, o) = {}
  PROVE  Named(t, o) = {}
<1>1. PICK f : Moved(s, t, f)
  BY DEF SameGraph
<1>2. /\ LiveOf(t) = {f[p] : p \in LiveOf(s)}
      /\ \A p \in LiveOf(s) : t.mem[f[p]].vmt = s.mem[p].vmt
  BY <1>1 DEF Moved
<1>3. \A p \in LiveOf(s) : s.mem[p].vmt # o
  BY DEF Named
<1> QED BY <1>2, <1>3 DEF Named

\* The same memory is at p in both states, and what it refers to has its names.
LEMMA SameContent ==
  ASSUME NEW s, NEW u, s.mem \in Memories, NEW p \in Pages, u.mem[p] = s.mem[p],
         \A i \in 1 .. Len(s.mem[p].fields) : Name(u, s.mem[p].fields[i]) = Name(s, s.mem[p].fields[i])
  PROVE  ContentAt(u, p) = ContentAt(s, p)
<1> DEFINE a == s.mem[p].fields
<1>1. a \in Words
  BY HeaderType
<1>2. \A i \in 1 .. Len(a) : Name(u, a[i]) = Name(s, a[i])
  OBVIOUS
<1>3. ContentAt(u, p) = [pages |-> s.mem[p].pages, fields |-> [i \in DOMAIN a |-> Name(u, a[i])]]
  BY DEF ContentAt
<1>4. ContentAt(s, p) = [pages |-> s.mem[p].pages, fields |-> [i \in DOMAIN a |-> Name(s, a[i])]]
  BY DEF ContentAt
<1> HIDE DEF a
<1>5. DOMAIN a = 1 .. Len(a)
  BY <1>1 DEF Words
<1>6. [i \in DOMAIN a |-> Name(u, a[i])] = [i \in DOMAIN a |-> Name(s, a[i])]
  BY <1>2, <1>5
<1> QED BY <1>3, <1>4, <1>6

\* What the program sees of a new object.
Seen(t, u, field, r, shape, o) ==
  /\ Updated(u, [ContentsOf(t) EXCEPT ![o] = Graph!Empty(shape)])
  /\ RefersOf(u) = [RefersOf(t) EXCEPT ![r] = o]
  /\ PermanentOf(u) = PermanentOf(t) \cup (IF field = "gc_perm_current" THEN {o} ELSE {})

\* The program sees a new object as ObjectGraph creates it.
LEMMA BornSeen ==
  ASSUME NEW t, NEW u, HeapOK(t), HeapOK(u), Unique(t), NEW field, NEW q, NEW r \in Roots,
         NEW shape \in Shapes, NEW o \in Objects, Born(t, u, field, q, r, shape, o), Named(t, o) = {}
  PROVE  Unique(u) /\ Seen(t, u, field, r, shape, o)
<1> DEFINE L == LiveOf(t)
           Z == L \cup {q}
           m == t.mem
           n == u.mem
           c == ContentsOf(t)
           d == [c EXCEPT ![o] = Graph!Empty(shape)]
<1>1. /\ q \in Pages /\ q \notin Cells(t)
      /\ PermHeads(u) = PermHeads(t) \cup (IF field = "gc_perm_current" THEN {q} ELSE {})
      /\ n[q].pages = shape.pages /\ n[q].vmt = o /\ Len(n[q].fields) = shape.fields
      /\ \A i \in 1 .. shape.fields : n[q].fields[i] = Nil
      /\ \A p \in Cells(t) : n[p] = m[p]
      /\ u.root = [t.root EXCEPT ![r] = q]
  BY DEF Born
<1>2. /\ L \subseteq Cells(t) /\ L \subseteq Pages /\ Rooted(t, L)
      /\ \A p \in L : m[p].vmt \in Objects /\ m[p].vmt # NoObject
  BY LiveFacts
<1>3. Depicts(t, c)
  BY ContentsDepict
<1>4. m \in Memories /\ n \in Memories /\ t.root \in [Roots -> Pages \cup {Nil}]
  BY DEF HeapOK, Typed
<1>5. \A p \in L : m[p].vmt # o
  BY DEF Named
<1>6. Nil \notin Pages /\ q # Nil
  BY <1>1, Areas
<1>7. u.root[r] = q /\ \A i \in Roots : i # r => u.root[i] = t.root[i]
  <2> DEFINE root0 == t.root
             root1 == u.root
  <2>1. root0 \in [Roots -> Pages \cup {Nil}] /\ root1 = [root0 EXCEPT ![r] = q]
    BY <1>1, <1>4
  <2> HIDE DEF root0, root1
  <2>2. root1[r] = q /\ \A i \in Roots : i # r => root1[i] = root0[i]
    BY <2>1
  <2> QED BY <2>2 DEF root0, root1
<1> HIDE DEF c, m, n, L
<1>8. \A p \in L : n[p] = m[p] /\ p # q
  BY <1>1, <1>2
<1>9. \A w \in L \cup {Nil} : Name(u, w) = Name(t, w)
  BY <1>8 DEF Name, m, n
<1>10. c \in [Objects -> {c[x] : x \in Objects}]
  BY <1>3 DEF Depicts
<1>11. d[o] = Graph!Empty(shape) /\ (\A x \in Objects : x # o => d[x] = c[x])
  BY <1>10
<1> HIDE DEF d
<1>12. Z \in SUBSET Pages /\ Rooted(u, Z)
  <2>1. \A i \in Roots : u.root[i] \in Z \cup {Nil}
    BY <1>2, <1>7 DEF Rooted
  <2>2. PermHeads(u) \subseteq Z
    BY <1>1, <1>2 DEF Rooted
  <2>3. ASSUME NEW p \in Z, NEW i \in 1 .. Len(n[p].fields) PROVE n[p].fields[i] \in Z \cup {Nil}
    <3>1. CASE p = q
      BY <3>1, <2>3, <1>1
    <3>2. CASE p # q
      <4>1. p \in L /\ n[p] = m[p]
        BY <3>2, <1>8
      <4> QED BY <4>1, <2>3, <1>2 DEF Rooted, m
    <3> QED BY <3>1, <3>2
  <2> QED BY <2>1, <2>2, <2>3, <1>1, <1>2 DEF Rooted, n
<1>13. \A p1, p2 \in Z : n[p1].vmt = n[p2].vmt => p1 = p2
  <2>1. \A p1, p2 \in L : m[p1].vmt = m[p2].vmt => p1 = p2
    BY DEF Unique, L, m
  <2> QED BY <2>1, <1>1, <1>5, <1>8
<1>14. ASSUME NEW p \in L PROVE n[p].vmt \in Objects /\ d[n[p].vmt] = ContentAt(u, p)
  <2>1. n[p] = m[p] /\ m[p].vmt \in Objects /\ m[p].vmt # o
    BY <1>2, <1>5, <1>8
  <2>2. \A i \in 1 .. Len(m[p].fields) : m[p].fields[i] \in L \cup {Nil}
    BY <1>2 DEF Rooted, m
  <2>3. \A i \in 1 .. Len(m[p].fields) : Name(u, m[p].fields[i]) = Name(t, m[p].fields[i])
    BY <2>2, <1>9
  <2>4. ContentAt(u, p) = ContentAt(t, p)
    BY <2>1, <2>3, <1>2, <1>4, SameContent DEF m, n
  <2>5. c[m[p].vmt] = ContentAt(t, p)
    BY <1>3 DEF Depicts, L, m
  <2> QED BY <2>1, <2>4, <2>5, <1>11
<1>15. n[q].vmt \in Objects /\ d[n[q].vmt] = ContentAt(u, q)
  <2> DEFINE a == n[q].fields
  <2>1. a \in Words
    BY <1>1, <1>4, HeaderType
  <2>2. ContentAt(u, q) = [pages |-> shape.pages, fields |-> [i \in DOMAIN a |-> Name(u, a[i])]]
    BY <1>1 DEF ContentAt, n
  <2>3. Len(a) = shape.fields /\ \A i \in 1 .. shape.fields : a[i] = Nil
    BY <1>1
  <2> HIDE DEF a
  <2>4. DOMAIN a = 1 .. shape.fields
    BY <2>1, <2>3 DEF Words
  <2>5. \A i \in 1 .. shape.fields : Name(u, a[i]) = NoObject
    BY <2>3 DEF Name
  <2>6. [i \in DOMAIN a |-> Name(u, a[i])] = [i \in 1 .. shape.fields |-> NoObject]
    BY <2>4, <2>5
  <2>7. ContentAt(u, q) = Graph!Empty(shape)
    BY <2>2, <2>6 DEF Graph!Empty
  <2> QED BY <2>7, <1>1, <1>11
<1>16. Pictured(u, Z, d)
  BY <1>12, <1>13, <1>14, <1>15 DEF Pictured, n
<1>17. Unique(u) /\ Updated(u, d)
  BY <1>16, PicturedUpdates
<1>18. RefersOf(u) = [RefersOf(t) EXCEPT ![r] = o]
  <2>1. \A i \in Roots : t.root[i] \in L \cup {Nil}
    BY <1>2 DEF Rooted
  <2>2. Name(u, u.root[r]) = o
    BY <1>1, <1>6, <1>7 DEF Name, n
  <2>3. \A i \in Roots : i # r => Name(u, u.root[i]) = Name(t, t.root[i])
    BY <2>1, <1>7, <1>9
  <2> QED BY <2>2, <2>3 DEF RefersOf
<1>19. PermanentOf(u) = PermanentOf(t) \cup (IF field = "gc_perm_current" THEN {o} ELSE {})
  <2>1. \A p \in PermHeads(t) : n[p] = m[p]
    BY <1>2, <1>8 DEF Rooted
  <2> QED BY <2>1, <1>1 DEF PermanentOf, n, m
<1> QED BY <1>17, <1>18, <1>19 DEF Seen, d, c

-----------------------------------------------------------------------------
\* u is s with w in the root v.
Rerooted(s, u, v, w) ==
  u.mem = s.mem /\ u.cards = s.cards /\ u.table = s.table /\ u.root = [s.root EXCEPT ![v] = w]

\* A root that is given another live object leaves the heap in order, and the
\* program sees it.
LEMMA RerootedWorks ==
  ASSUME NEW s, NEW u, HeapOK(s), Unique(s), NEW v \in Roots, NEW w \in LiveOf(s) \cup {Nil}, Rerooted(s, u, v, w)
  PROVE  /\ HeapOK(u) /\ Unique(u) /\ Updated(u, ContentsOf(s))
         /\ RefersOf(u) = [RefersOf(s) EXCEPT ![v] = Name(s, w)] /\ PermanentOf(u) = PermanentOf(s)
<1> DEFINE L == LiveOf(s)
<1>1. u.mem = s.mem /\ u.cards = s.cards /\ u.table = s.table /\ u.root = [s.root EXCEPT ![v] = w]
  BY DEF Rerooted
<1>2. /\ L \subseteq Cells(s) /\ L \subseteq Pages /\ Rooted(s, L)
      /\ \A p \in L : s.mem[p].vmt \in Objects /\ s.mem[p].vmt # NoObject
  BY LiveFacts
<1>3. s.root \in [Roots -> Pages \cup {Nil}]
  BY DEF HeapOK, Typed
<1> HIDE DEF L
<1>4. w \in L \cup {Nil}
  BY DEF L
<1>5. /\ u.root \in [Roots -> Pages \cup {Nil}] /\ u.root[v] = w
      /\ \A i \in Roots : i # v => u.root[i] = s.root[i]
  <2> DEFINE root0 == s.root
             root1 == u.root
  <2>1. root0 \in [Roots -> Pages \cup {Nil}] /\ root1 = [root0 EXCEPT ![v] = w] /\ w \in Pages \cup {Nil}
    BY <1>1, <1>2, <1>3, <1>4
  <2> HIDE DEF root0, root1
  <2>2. root1 \in [Roots -> Pages \cup {Nil}] /\ root1[v] = w /\ \A i \in Roots : i # v => root1[i] = root0[i]
    BY <2>1
  <2> QED BY <2>2 DEF root0, root1
<1>6. YoungHeads(u) = YoungHeads(s) /\ MatureHeads(u) = MatureHeads(s) /\ PermHeads(u) = PermHeads(s)
  BY <1>1 DEF YoungHeads, MatureHeads, PermHeads
<1>7. Cells(u) = Cells(s)
  BY <1>1, <1>6 DEF Cells
<1>8. TableOK(u.table) /\ Covered(u) /\ Rest(u) /\ Carded(u) /\ Shaped(u)
  BY <1>1, <1>6, <1>7 DEF HeapOK, Covered, Rest, Carded, Shaped
<1>9. Typed(u)
  BY <1>1, <1>5 DEF HeapOK, Typed
<1>10. Closed(u)
  <2>1. /\ \A i \in Roots : s.root[i] \in Cells(s) \cup {Nil}
        /\ \A p \in Cells(s) : ToSet(s.mem[p].fields) \subseteq Cells(s) \cup {Nil}
    BY DEF HeapOK, Closed
  <2>2. \A i \in Roots : u.root[i] \in Cells(s) \cup {Nil}
    BY <2>1, <1>2, <1>4, <1>5
  <2> QED BY <2>1, <2>2, <1>1, <1>7 DEF Closed
<1>11. HeapOK(u)
  BY <1>8, <1>9, <1>10 DEF HeapOK
<1>12. \A x : Name(u, x) = Name(s, x)
  BY <1>1 DEF Name
<1>13. \A p : ContentAt(u, p) = ContentAt(s, p)
  BY <1>1, <1>12 DEF ContentAt
<1>14. Rooted(u, L)
  <2>1. \A i \in Roots : u.root[i] \in L \cup {Nil}
    BY <1>2, <1>4, <1>5 DEF Rooted
  <2> QED BY <2>1, <1>1, <1>2, <1>6 DEF Rooted
<1>15. Depicts(s, ContentsOf(s))
  BY ContentsDepict
<1>16. Pictured(u, L, ContentsOf(s))
  <2>1. \A p \in L : ContentsOf(s)[s.mem[p].vmt] = ContentAt(s, p)
    BY <1>15 DEF Depicts, L
  <2>2. \A p, q \in L : s.mem[p].vmt = s.mem[q].vmt => p = q
    BY DEF Unique, L
  <2> QED BY <2>1, <2>2, <1>1, <1>2, <1>13, <1>14 DEF Pictured
<1>17. Unique(u) /\ Updated(u, ContentsOf(s))
  BY <1>11, <1>16, PicturedUpdates
<1>18. RefersOf(u) = [RefersOf(s) EXCEPT ![v] = Name(s, w)]
  <2>1. Name(u, u.root[v]) = Name(s, w) /\ \A i \in Roots : i # v => Name(u, u.root[i]) = Name(s, s.root[i])
    BY <1>5, <1>12
  <2> QED BY <2>1 DEF RefersOf
<1>19. PermanentOf(u) = PermanentOf(s)
  BY <1>1, <1>6 DEF PermanentOf
<1> QED BY <1>11, <1>17, <1>18, <1>19

\* u is s with w in the field i of the object at p, and the card of p set.
Stored(s, u, p, i, w) ==
  /\ u.mem = [s.mem EXCEPT ![p].fields[i] = w]
  /\ u.cards = s.cards \cup ({p} \cap s.table.gc_mg_start .. Limit - 1)
  /\ u.table = s.table /\ u.root = s.root

\* A field that is given a live object leaves the heap in order, and the
\* program sees it.
LEMMA StoredWorks ==
  ASSUME NEW s, NEW u, HeapOK(s), Unique(s), NEW p \in LiveOf(s), NEW i \in DOMAIN s.mem[p].fields,
         NEW w \in LiveOf(s) \cup {Nil}, Stored(s, u, p, i, w)
  PROVE  /\ HeapOK(u) /\ Unique(u)
         /\ Updated(u, [ContentsOf(s) EXCEPT ![s.mem[p].vmt].fields[i] = Name(s, w)])
         /\ RefersOf(u) = RefersOf(s) /\ PermanentOf(u) = PermanentOf(s)
<1> DEFINE L == LiveOf(s)
           m == s.mem
           n == u.mem
           C == Cells(s)
           a == s.mem[p].fields
           b == [a EXCEPT ![i] = w]
           o == s.mem[p].vmt
           c == ContentsOf(s)
           x == Name(s, w)
           d == [c EXCEPT ![o].fields[i] = x]
<1>1. /\ n = [m EXCEPT ![p].fields[i] = w] /\ u.table = s.table /\ u.root = s.root
      /\ u.cards = s.cards \cup ({p} \cap s.table.gc_mg_start .. Limit - 1)
  BY DEF Stored
<1>2. /\ L \subseteq C /\ L \subseteq Pages /\ Rooted(s, L)
      /\ \A q \in L : m[q].vmt \in Objects /\ m[q].vmt # NoObject
  BY LiveFacts
<1>3. /\ TableOK(s.table) /\ Typed(s) /\ Covered(s) /\ Closed(s) /\ Rest(s) /\ Carded(s) /\ Shaped(s)
      /\ m \in Memories
  BY DEF HeapOK, Typed
<1>4. p \in L /\ p \in Pages /\ p \in C /\ w \in L \cup {Nil} /\ w \in Pages \cup {Nil}
  BY <1>2
<1>5. a \in Words /\ Len(a) \in Nat /\ i \in DOMAIN a
  BY <1>3, <1>4, HeaderType
<1> HIDE DEF a
<1>6. i \in 1 .. Len(a) /\ DOMAIN a = 1 .. Len(a)
  BY <1>5 DEF Words
<1>7. b \in Words /\ Len(b) = Len(a) /\ b[i] = w /\ \A j \in 1 .. Len(a) : j # i => b[j] = a[j]
  BY <1>4, <1>5, <1>6 DEF Words
<1>8. n = Written(m, p, b)
  BY <1>1, <1>3, <1>4 DEF Written, a, Memories, Headers
<1> HIDE DEF b
<1>9. /\ n \in Memories
      /\ n[p].pages = m[p].pages /\ n[p].marked = m[p].marked /\ n[p].vmt = m[p].vmt /\ n[p].fields = b
      /\ \A q \in Pages : q # p => n[q] = m[q]
  BY <1>3, <1>4, <1>7, <1>8, FieldsMemory
<1> HIDE DEF m, n, L, C, c, d
<1>10. \A q \in Pages : n[q].pages = m[q].pages /\ n[q].marked = m[q].marked /\ n[q].vmt = m[q].vmt
  BY <1>9
<1>11. Placed(s)
  BY <1>3, CellsPlaced
<1>12. /\ \A q \in YoungHeads(s) \cup MatureHeads(s) \cup PermHeads(s) : q \in Pages
       /\ \A q \in C : q \in Pages /\ q # Nil
  BY <1>11 DEF Placed, C
<1>13. /\ YoungHeads(u) = YoungHeads(s) /\ MatureHeads(u) = MatureHeads(s) /\ PermHeads(u) = PermHeads(s)
       /\ Covered(u)
  <2> DEFINE t == s.table
             Y == YoungHeads(s)
             M == MatureHeads(s)
             P == PermHeads(s)
  <2>1. /\ Area(m, Y, t.gc_yg_start, t.gc_yg_current) /\ Area(m, M, t.gc_mg_start, t.gc_mg_current)
        /\ Area(m, P, t.gc_perm_start, t.gc_perm_current)
    BY <1>3 DEF Covered, YoungHeads, MatureHeads, PermHeads, Area, m
  <2>2. /\ t.gc_yg_start \in Nat /\ t.gc_yg_current \in Nat /\ t.gc_mg_start \in Nat /\ t.gc_mg_current \in Nat
        /\ t.gc_perm_start \in Nat /\ t.gc_perm_current \in Nat
    BY <1>3 DEF TableOK, Tables
  <2>3. \A S \in {Y, M, P} : SamePages(m, n, S)
    <3>1. \A q \in Pages : m[q].pages \in Nat \ {0}
      BY <1>3, HeaderType
    <3> QED BY <3>1, <1>10, <1>12 DEF SamePages
  <2>4. u.table = t
    BY <1>1
  <2> HIDE DEF t, Y, M, P
  <2>5. Area(n, Y, t.gc_yg_start, t.gc_yg_current)
    BY <2>1, <2>2, <2>3, AreaKept
  <2>6. Area(n, M, t.gc_mg_start, t.gc_mg_current)
    BY <2>1, <2>2, <2>3, AreaKept
  <2>7. Area(n, P, t.gc_perm_start, t.gc_perm_current)
    BY <2>1, <2>2, <2>3, AreaKept
  <2>8. YoungHeads(u) = Y /\ MatureHeads(u) = M /\ PermHeads(u) = P /\ Covered(u)
    BY <2>4, <2>5, <2>6, <2>7 DEF YoungHeads, MatureHeads, PermHeads, Covered, Area, n
  <2> QED BY <2>8 DEF Y, M, P
<1>14. Cells(u) = C
  <2>1. C = {q \in YoungHeads(s) \cup MatureHeads(s) \cup PermHeads(s) : ~m[q].marked}
    BY DEF C, Cells, m
  <2>2. Cells(u) = {q \in YoungHeads(s) \cup MatureHeads(s) \cup PermHeads(s) : ~n[q].marked}
    BY <1>13 DEF Cells, n
  <2> QED BY <2>1, <2>2, <1>10, <1>12
<1>15. ToSet(b) \subseteq ToSet(a) \cup {w}
  <2>1. ToSet(b) = {b[j] : j \in 1 .. Len(a)} /\ ToSet(a) = {a[j] : j \in 1 .. Len(a)}
    BY <1>5, <1>7 DEF ToSet, Words
  <2> QED BY <2>1, <1>7
<1>16. a = m[p].fields /\ b = n[p].fields
  BY <1>9 DEF a, m
<1>17. Typed(u)
  <2>1. \A q \in Pages : m[q].vmt \in Objects \cup {NoObject}
    BY <1>3 DEF Typed, m
  <2>2. s.cards \subseteq 2 * YGSize .. Limit - 1 /\ s.root \in [Roots -> Pages \cup {Nil}]
    BY <1>3 DEF Typed
  <2>3. s.table.gc_mg_start = 2 * YGSize
    BY <1>3 DEF TableOK
  <2>4. u.cards \subseteq 2 * YGSize .. Limit - 1
    BY <2>2, <2>3, <1>1
  <2> QED BY <2>1, <2>2, <2>4, <1>1, <1>9, <1>10 DEF Typed, n
<1>18. Closed(u)
  <2>1. \A q \in C : ToSet(m[q].fields) \subseteq C \cup {Nil}
    BY <1>3 DEF Closed, C, m
  <2>2. \A q \in C : ToSet(n[q].fields) \subseteq C \cup {Nil}
    <3> SUFFICES ASSUME NEW q \in C PROVE ToSet(n[q].fields) \subseteq C \cup {Nil}
      OBVIOUS
    <3>1. CASE q = p
      BY <3>1, <2>1, <1>2, <1>4, <1>15, <1>16
    <3>2. CASE q # p
      BY <3>2, <2>1, <1>9, <1>12
    <3> QED BY <3>1, <3>2
  <2>3. \A j \in Roots : u.root[j] \in C \cup {Nil}
    BY <1>1, <1>3 DEF Closed, C
  <2> QED BY <2>2, <2>3, <1>14 DEF Closed, n
<1>19. Rest(u)
  <2>1. /\ \A q \in Pages \ C : m[q].fields = <<>>
        /\ \A q \in Pages : m[q].marked => q \in 2 * YGSize .. Limit - 1 /\ q + m[q].pages <= Limit
    BY <1>3 DEF Rest, C, m
  <2>2. \A q \in Pages \ C : n[q].fields = <<>>
    BY <2>1, <1>4, <1>9
  <2> QED BY <2>1, <2>2, <1>10, <1>14 DEF Rest, n
<1>20. Carded(u)
  <2> SUFFICES ASSUME NEW q \in C \cap MatureHeads(s)
               PROVE  q \in u.cards \/ ToSet(n[q].fields) \cap YoungHeads(s) = {}
    BY <1>13, <1>14 DEF Carded, n
  <2>1. CASE q = p
    <3>1. q \in Nat /\ 2 * YGSize <= q /\ q < s.table.gc_mg_current
      BY <1>11 DEF Placed
    <3>2. s.table.gc_mg_start = 2 * YGSize /\ s.table.gc_mg_current \in Nat /\ s.table.gc_mg_current <= Limit
      BY <1>3, TableFacts
    <3>3. q \in 2 * YGSize .. Limit - 1
      BY <3>1, <3>2, Areas
    <3> QED BY <2>1, <3>2, <3>3, <1>1
  <2>2. CASE q # p
    <3>1. n[q] = m[q]
      BY <2>2, <1>9, <1>12
    <3>2. q \in s.cards \/ ToSet(m[q].fields) \cap YoungHeads(s) = {}
      BY <1>3 DEF Carded, C, m
    <3> QED BY <3>1, <3>2, <1>1
  <2> QED BY <2>1, <2>2
<1>21. Shaped(u)
  <2> SUFFICES ASSUME NEW q \in C
               PROVE  n[q].vmt \in Objects /\ \E sh \in Shapes : n[q].pages = sh.pages /\ Len(n[q].fields) = sh.fields
    BY <1>14 DEF Shaped, n
  <2>1. m[q].vmt \in Objects /\ \E sh \in Shapes : m[q].pages = sh.pages /\ Len(m[q].fields) = sh.fields
    BY <1>3 DEF Shaped, C, m
  <2>2. Len(n[q].fields) = Len(m[q].fields)
    BY <1>7, <1>9, <1>12, <1>16
  <2> QED BY <2>1, <2>2, <1>10, <1>12
<1>22. HeapOK(u)
  BY <1>1, <1>3, <1>13, <1>17, <1>18, <1>19, <1>20, <1>21 DEF HeapOK
<1>23. \A v \in Pages \cup {Nil} : Name(u, v) = Name(s, v)
  BY <1>10 DEF Name, m, n
<1>24. \A q \in L : \A j \in 1 .. Len(m[q].fields) : m[q].fields[j] \in L \cup {Nil}
  BY <1>2 DEF Rooted, m
<1>25. Rooted(u, L)
  <2>1. (\A j \in Roots : u.root[j] \in L \cup {Nil}) /\ PermHeads(u) \subseteq L
    BY <1>1, <1>2, <1>13 DEF Rooted
  <2>2. ASSUME NEW q \in L, NEW j \in 1 .. Len(n[q].fields) PROVE n[q].fields[j] \in L \cup {Nil}
    <3>1. CASE q = p
      <4>1. b[j] \in L \cup {Nil}
        BY <3>1, <2>2, <1>4, <1>7, <1>16, <1>24
      <4> QED BY <4>1, <3>1, <1>16
    <3>2. CASE q # p
      BY <3>2, <2>2, <1>2, <1>9, <1>24
    <3> QED BY <3>1, <3>2
  <2> QED BY <2>1, <2>2 DEF Rooted, n
<1>26. Depicts(s, c)
  BY ContentsDepict DEF c
<1>27. o = m[p].vmt /\ o \in Objects
  BY <1>2, <1>4 DEF m
<1>28. c[o] = ContentAt(s, p) /\ c = [y \in Objects |-> c[y]]
  BY <1>26 DEF Depicts
<1> HIDE DEF o, x
<1>29. (\A y \in Objects : y # o => d[y] = c[y]) /\ d[o] = [ContentAt(s, p) EXCEPT !.fields[i] = x]
  BY <1>27, <1>28 DEF d
<1>30. [ContentAt(s, p) EXCEPT !.fields[i] = x] = ContentAt(u, p)
  <2> DEFINE e == [j \in DOMAIN a |-> Name(s, a[j])]
             g == [j \in DOMAIN b |-> Name(u, b[j])]
             k == m[p].pages
  <2>1. ContentAt(s, p) = [pages |-> k, fields |-> e]
    BY DEF ContentAt, a, m
  <2>2. ContentAt(u, p) = [pages |-> k, fields |-> g]
    BY <1>9, <1>16 DEF ContentAt, n
  <2>3. DOMAIN b = 1 .. Len(a)
    BY <1>7 DEF Words
  <2>4. \A j \in 1 .. Len(a) : a[j] \in Pages \cup {Nil}
    BY <1>5 DEF Words
  <2>5. Name(u, w) = x
    BY <1>4, <1>23 DEF x
  <2>6. g = [e EXCEPT ![i] = x]
    <3> DEFINE h == [e EXCEPT ![i] = x]
    <3>1. h = [j \in 1 .. Len(a) |-> IF j = i THEN x ELSE Name(s, a[j])]
      BY <1>6
    <3>2. \A j \in 1 .. Len(a) : Name(u, b[j]) = IF j = i THEN x ELSE Name(s, a[j])
      BY <2>4, <2>5, <1>7, <1>23
    <3> HIDE DEF h
    <3>3. g = h
      BY <3>1, <3>2, <2>3
    <3> QED BY <3>3 DEF h
  <2> HIDE DEF e, g, k
  <2>7. [[pages |-> k, fields |-> e] EXCEPT !.fields[i] = x] = [pages |-> k, fields |-> [e EXCEPT ![i] = x]]
    OBVIOUS
  <2> QED BY <2>1, <2>2, <2>6, <2>7
<1>31. \A q \in L : d[n[q].vmt] = ContentAt(u, q)
  <2> SUFFICES ASSUME NEW q \in L PROVE d[n[q].vmt] = ContentAt(u, q)
    OBVIOUS
  <2>1. CASE q = p
    BY <2>1, <1>9, <1>27, <1>29, <1>30
  <2>2. CASE q # p
    <3>1. m[q].vmt # o /\ m[q].vmt \in Objects
      BY <2>2, <1>2, <1>4 DEF Unique, L, m, o
    <3>2. c[m[q].vmt] = ContentAt(s, q)
      BY <1>26 DEF Depicts, L, m
    <3>3. n[q] = m[q] /\ q \in Pages
      BY <2>2, <1>2, <1>9
    <3>4. \A j \in 1 .. Len(m[q].fields) : Name(u, m[q].fields[j]) = Name(s, m[q].fields[j])
      BY <1>2, <1>23, <1>24
    <3>5. ContentAt(u, q) = ContentAt(s, q)
      BY <3>3, <3>4, <1>3, SameContent DEF m, n
    <3> QED BY <3>1, <3>2, <3>3, <3>5, <1>29
  <2> QED BY <2>1, <2>2
<1>32. \A q1, q2 \in L : n[q1].vmt = n[q2].vmt => q1 = q2
  <2>1. \A q1, q2 \in L : m[q1].vmt = m[q2].vmt => q1 = q2
    BY DEF Unique, L, m
  <2> QED BY <2>1, <1>2, <1>10
<1>33. Pictured(u, L, d)
  BY <1>2, <1>10, <1>25, <1>31, <1>32 DEF Pictured, n
<1>34. Unique(u) /\ Updated(u, d)
  BY <1>22, <1>33, PicturedUpdates
<1>35. RefersOf(u) = RefersOf(s)
  <2>1. \A j \in Roots : s.root[j] \in Pages \cup {Nil}
    BY <1>3 DEF Typed
  <2>2. \A j \in Roots : Name(u, u.root[j]) = Name(s, s.root[j])
    BY <2>1, <1>1, <1>23
  <2> QED BY <2>2 DEF RefersOf
<1>36. PermanentOf(u) = PermanentOf(s)
  <2>1. \A q \in PermHeads(s) : n[q].vmt = m[q].vmt
    BY <1>10, <1>12
  <2> QED BY <2>1, <1>13 DEF PermanentOf, m, n
<1> QED BY <1>22, <1>34, <1>35, <1>36 DEF d, c, o, x

-----------------------------------------------------------------------------
(* The inductive invariant.                                                *)

\* The heap is in order at the beginning.
LEMMA HeapInit == Init => HeapInv
<1> SUFFICES ASSUME Init PROVE HeapInv
  OBVIOUS
<1> DEFINE s == Now
           m == s.mem
           t == s.table
<1>1. /\ m = [p \in Pages |-> Zero] /\ s.cards = {} /\ s.root = [r \in Roots |-> Nil]
      /\ t = [gc_yg_start |-> 0, gc_yg_current |-> 0, gc_yg_end |-> YGSize,
              gc_shadow |-> YGSize, gc_shadow_end |-> 2 * YGSize,
              gc_mg_start |-> 2 * YGSize, gc_mg_current |-> 2 * YGSize, gc_end |-> MGSize,
              gc_perm_start |-> PermStart, gc_perm_current |-> PermStart]
  BY DEF Init, Now
<1> HIDE DEF m, t
<1>2. TableOK(t)
  BY <1>1, Areas DEF TableOK, Tables
<1>3. m \in Memories /\ \A p \in Pages : m[p] = Zero
  BY <1>1, ZeroHeader DEF Memories
<1>4. \A from \in Nat : Tiled(m, {}, from, from) /\ Walk(m, from, from) = {}
  <2> SUFFICES ASSUME NEW from \in Nat PROVE Tiled(m, {}, from, from) /\ Walk(m, from, from) = {}
    OBVIOUS
  <2>1. Tiled(m, {}, from, from)
    BY TiledNothing
  <2>2. Walk(m, from, from) = {}
    BY <2>1, WalkTiled
  <2> QED BY <2>1, <2>2
<1>5. YGSize \in Nat /\ PermStart \in Nat /\ 2 * YGSize \in Nat
  BY Areas
<1>6. YoungHeads(s) = {} /\ MatureHeads(s) = {} /\ PermHeads(s) = {} /\ Covered(s)
  BY <1>1, <1>4, <1>5 DEF YoungHeads, MatureHeads, PermHeads, Covered, m, t
<1>7. Cells(s) = {}
  BY <1>6 DEF Cells
<1>8. Typed(s)
  BY <1>1, <1>3, ZeroHeader DEF Typed, m
<1>9. Closed(s)
  BY <1>1, <1>7 DEF Closed
<1>10. Rest(s) /\ Carded(s) /\ Shaped(s)
  BY <1>3, <1>7, ZeroHeader DEF Rest, Carded, Shaped, m
<1>11. HeapOK(s)
  BY <1>2, <1>6, <1>8, <1>9, <1>10 DEF HeapOK, t
<1>12. Unique(s)
  <2>1. LiveOf(s) = {}
    BY <1>7, <1>11, LiveFacts
  <2> QED BY <2>1 DEF Unique
<1> QED BY <1>11, <1>12 DEF HeapInv

\* The next state.
LEMMA NextState ==
  ASSUME NEW n, n = [mem |-> mem', cards |-> cards', root |-> root', table |-> table']
  PROVE  /\ HeapOK(n) /\ Unique(n) => HeapInv'
         /\ [r \in Roots |-> Identity(root[r])]' = RefersOf(n)
         /\ {mem[p].vmt : p \in PermObjects}' = PermanentOf(n)
         /\ Contents' = ContentsOf(n)
<1>1. n = Now'
  BY DEF Now
<1>2. HeapOK(n) /\ Unique(n) => HeapInv'
  BY <1>1 DEF HeapInv
<1>3. n.mem = mem' /\ n.root = root' /\ n.table = table'
  OBVIOUS
<1>4. LiveOf(n) = Live'
  BY <1>3 DEF LiveOf, Live, PermHeads, PermObjects
<1>5. [r \in Roots |-> Identity(root[r])]' = RefersOf(n)
  BY <1>3 DEF RefersOf, Identity, Name
<1>6. {mem[p].vmt : p \in PermObjects}' = PermanentOf(n)
  BY <1>3 DEF PermanentOf, PermHeads, PermObjects
<1>7. Contents' = ContentsOf(n)
  BY <1>3, <1>4, ZenonT(60) DEF Contents, ContentsOf, ContentAt, Named, Name, Identity
<1> QED BY <1>2, <1>5, <1>6, <1>7

\* What the properties say of the variables, said of the state Now.
LEMMA CurrentState ==
  /\ [r \in Roots |-> Identity(root[r])] = RefersOf(Now)
  /\ {mem[p].vmt : p \in PermObjects} = PermanentOf(Now)
  /\ Contents = ContentsOf(Now)
  /\ Live = LiveOf(Now) /\ PermObjects = PermHeads(Now)
  /\ Identities = {Now.mem[p].vmt : p \in LiveOf(Now)}
<1>1. Now.mem = mem /\ Now.root = root /\ Now.table = table
  BY DEF Now
<1>2. LiveOf(Now) = Live /\ PermObjects = PermHeads(Now)
  BY <1>1 DEF LiveOf, Live, PermHeads, PermObjects
<1>3. [r \in Roots |-> Identity(root[r])] = RefersOf(Now)
  BY <1>1 DEF RefersOf, Identity, Name
<1>4. {mem[p].vmt : p \in PermObjects} = PermanentOf(Now)
  BY <1>1 DEF PermanentOf, PermHeads, PermObjects
<1>5. Contents = ContentsOf(Now)
  BY <1>1, <1>2 DEF Contents, ContentsOf, ContentAt, Named, Name, Identity
<1>6. Identities = {Now.mem[p].vmt : p \in LiveOf(Now)}
  BY <1>1, <1>2 DEF Identities
<1> QED BY <1>2, <1>3, <1>4, <1>5, <1>6

\* The next state, as a value.
Follows(n) == n = [mem |-> mem', cards |-> cards', root |-> root', table |-> table']

\* What the program sees has not changed.
Unseen == UNCHANGED <<[r \in Roots |-> Identity(root[r])], Contents, {mem[p].vmt : p \in PermObjects}>>

\* A step to a state that looks the same is unseen.
LEMMA SameViewUnseen ==
  ASSUME NEW n, Follows(n), SameView(Now, n)
  PROVE  Unseen
<1>1. /\ [r \in Roots |-> Identity(root[r])]' = RefersOf(n)
      /\ {mem[p].vmt : p \in PermObjects}' = PermanentOf(n)
      /\ Contents' = ContentsOf(n)
  BY NextState DEF Follows
<1>2. /\ [r \in Roots |-> Identity(root[r])] = RefersOf(Now)
      /\ {mem[p].vmt : p \in PermObjects} = PermanentOf(Now)
      /\ Contents = ContentsOf(Now)
  BY CurrentState
<1>3. /\ RefersOf(n) = RefersOf(Now) /\ PermanentOf(n) = PermanentOf(Now) /\ ContentsOf(n) = ContentsOf(Now)
  BY DEF SameView
<1>4. [r \in Roots |-> Identity(root[r])]' = [r \in Roots |-> Identity(root[r])]
  BY <1>1, <1>2, <1>3
<1>5. {mem[p].vmt : p \in PermObjects}' = {mem[p].vmt : p \in PermObjects}
  BY <1>1, <1>2, <1>3
<1>6. Contents' = Contents
  BY <1>1, <1>2, <1>3
<1> QED BY <1>4, <1>5, <1>6 DEF Unseen

\* A state that the variables become.
LEMMA BecomeWorks ==
  ASSUME NEW u, HeapOK(u), Unique(u), Become(u), NEW n, Follows(n)
  PROVE  HeapOK(n) /\ Unique(n) /\ SameView(u, n) /\ HeapInv'
<1>1. n.mem = u.mem /\ n.cards = u.cards /\ n.root = u.root /\ n.table = u.table
  BY DEF Become, Follows
<1>2. u.table \in Tables /\ u.table.gc_end <= Limit
  BY TableFacts DEF HeapOK
<1>3. SameTable(u.table, u.table)
  BY <1>2, SameTableReflexive
<1>4. Regrown(u, n)
  BY <1>1, <1>3 DEF Regrown
<1>5. HeapOK(n) /\ SameGraph(u, n)
  BY <1>1, <1>2, <1>4, RegrownOK
<1>6. Unique(n)
  BY <1>5, SameGraphUnique
<1>7. SameView(u, n)
  BY <1>5, SameGraphView
<1>8. HeapInv'
  BY <1>5, <1>6, NextState DEF Follows
<1> QED BY <1>5, <1>6, <1>7, <1>8

\* There is a next state.
LEMMA FollowsExists == \E n : Follows(n)
BY DEF Follows

\* Nothing was created.
LEMMA NothingGiven ==
  ASSUME HeapInv, NEW u, HeapOK(u), SameGraph(Now, u), Become(u)
  PROVE  HeapInv' /\ Unseen
<1>1. PICK n : Follows(n)
  BY FollowsExists
<1>2. HeapOK(Now) /\ Unique(Now)
  BY DEF HeapInv
<1>3. Unique(u)
  BY <1>2, SameGraphUnique
<1>4. SameView(Now, u)
  BY <1>2, SameGraphView
<1>5. HeapInv' /\ SameView(u, n)
  BY <1>1, <1>3, BecomeWorks
<1>6. SameView(Now, n)
  BY <1>4, <1>5 DEF SameView
<1> QED BY <1>1, <1>5, <1>6, SameViewUnseen

\* An object was created.
LEMMA SomethingGiven ==
  ASSUME HeapInv, NEW t, NEW field, NEW r \in Roots, NEW shape \in Shapes, NEW o \in Objects, Named(Now, o) = {},
         NEW a, GivenFrom(Now, t, field, shape.pages, a), Become(Create(a, r, shape, o)), NEW n, Follows(n)
  PROVE  HeapInv' /\ Seen(Now, n, field, r, shape, o) /\ a.given # Nil
<1> DEFINE u == Create(a, r, shape, o)
<1>1. HeapOK(Now) /\ Unique(Now)
  BY DEF HeapInv
<1>2. /\ HeapOK(t) /\ Whole(t) /\ SameGraph(Now, t) /\ field \in Current /\ Room(t.table, field, shape.pages)
      /\ a = Give(t, field, shape.pages)
  BY DEF GivenFrom
<1>3. shape.pages \in Nat /\ t.table \in Tables
  BY <1>2, ShapeType DEF HeapOK, TableOK
<1>4. Given(t, field, shape.pages, a)
  BY <1>2, <1>3, GiveWorks
<1>5. HeapOK(u) /\ Born(t, u, field, a.given, r, shape, o) /\ a.given # Nil
  BY <1>2, <1>4, CreateWorks
<1>6. Become(u)
  OBVIOUS
<1> HIDE DEF u
<1>7. Unique(t) /\ Named(t, o) = {} /\ SameView(Now, t)
  BY <1>1, <1>2, SameGraphUnique, SameNames, SameGraphView
<1>8. Unique(u) /\ Seen(t, u, field, r, shape, o)
  BY <1>2, <1>5, <1>7, BornSeen
<1>9. HeapInv' /\ SameView(u, n)
  BY <1>5, <1>6, <1>8, BecomeWorks
<1>10. Seen(Now, n, field, r, shape, o)
  <2>1. RefersOf(n) = RefersOf(u) /\ PermanentOf(n) = PermanentOf(u) /\ ContentsOf(n) = ContentsOf(u)
    BY <1>9 DEF SameView
  <2>2. RefersOf(t) = RefersOf(Now) /\ PermanentOf(t) = PermanentOf(Now) /\ ContentsOf(t) = ContentsOf(Now)
    BY <1>7 DEF SameView
  <2>3. FromOf(n) = FromOf(u)
    BY <2>1 DEF FromOf
  <2>4. \A c : Updated(u, c) => Updated(n, c)
    BY <2>1, <2>3 DEF Updated
  <2> QED BY <1>8, <2>1, <2>2, <2>4 DEF Seen
<1> QED BY <1>5, <1>9, <1>10

-----------------------------------------------------------------------------
(* What is allocated is a state.                                           *)

\* Give leaves a state of all four parts.
LEMMA GiveWhole ==
  ASSUME NEW s, Whole(s), NEW field, NEW size
  PROVE  Whole(Give(s, field, size).state)
<1> DEFINE u == [s.table EXCEPT ![field] = @ + size]
<1>1. [s EXCEPT !.table[field] = @ + size] = [s EXCEPT !.table = u]
  BY DEF Whole
<1>2. Whole([s EXCEPT !.table = u])
  <2> HIDE DEF u
  <2> QED BY TableReplaced
<1> QED BY <1>1, <1>2 DEF Give

\* Allocate leaves a state of all four parts.
LEMMA AllocateWhole ==
  ASSUME NEW s, Whole(s), NEW size
  PROVE  Whole(Allocate(s, size).state)
<1>1. CASE size = 0 \/ Minus(s.table.gc_yg_end, s.table.gc_yg_current) >= size
  BY <1>1, GiveWhole DEF Allocate
<1>2. CASE ~(size = 0 \/ Minus(s.table.gc_yg_end, s.table.gc_yg_current) >= size)
  <2> DEFINE u == Expand(s.table, size, Limit)
             g == [s EXCEPT !.table = u]
  <2>1. Allocate(s, size) = AllocateMature(g, size)
    BY <1>2 DEF Allocate
  <2>2. Whole(g)
    <3> HIDE DEF u
    <3> QED BY TableReplaced
  <2> HIDE DEF g
  <2>3. Whole(AllocateMature(g, size).state)
    BY <2>2, GiveWhole DEF AllocateMature
  <2> QED BY <2>1, <2>3
<1> QED BY <1>1, <1>2

\* GCRoutine leaves a state of all four parts.
LEMMA RoutineWhole ==
  ASSUME NEW size, NEW fullMode
  PROVE  Whole(GCRoutine(size, fullMode).state)
<1> DEFINE s == MinorCollect
           t == s.table
           F == FullCollect(ExpandForPromotion(s))
<1>1. Whole(s)
  BY DEF MinorCollect, SwitchHalves, Whole
<1>2. GCRoutine(size, fullMode) = IF Minus(t.gc_yg_end, t.gc_yg_current) < size \/ fullMode
          THEN Allocate(F, size) ELSE Give(s, "gc_yg_current", size)
  BY DEF GCRoutine
<1>3. Whole(F)
  BY FullTable
<1> HIDE DEF s, F
<1>4. Whole(Allocate(F, size).state)
  BY <1>3, AllocateWhole
<1>5. Whole(Give(s, "gc_yg_current", size).state)
  BY <1>1, GiveWhole
<1> QED BY <1>2, <1>4, <1>5

\* GC_ALLOC leaves a state of all four parts.
LEMMA GC_ALLOCWhole ==
  ASSUME NEW size
  PROVE  Whole(GC_ALLOC(size).state)
<1>1. Whole(Now)
  BY DEF Whole, Now
<1>2. Whole(Give(Now, "gc_yg_current", size).state)
  BY <1>1, GiveWhole
<1>3. Whole(GCRoutine(size, FALSE).state)
  BY RoutineWhole
<1> QED BY <1>2, <1>3 DEF GC_ALLOC

\* A step that creates an object has allocated within the bounds of the heap.
LEMMA CreateBounded ==
  ASSUME NEW a, Whole(a.state), NEW r, NEW shape, NEW o, Become(Create(a, r, shape, o))
  PROVE  Bounded(a.state)
<1> DEFINE u == Create(a, r, shape, o)
<1>1. u.table = a.state.table
  <2>1. CASE a.given = Nil
    BY <2>1 DEF Create
  <2>2. CASE a.given # Nil
    <3>1. CreatedState(a, r, shape, o, u)
      BY <2>2, CreateDef
    <3> HIDE DEF u
    <3> QED BY <3>1 DEF CreatedState
  <2> QED BY <2>1, <2>2
<1>2. Become(u)
  OBVIOUS
<1> HIDE DEF u
<1> QED BY <1>1, <1>2 DEF Become, Bounded

-----------------------------------------------------------------------------
(* The actions preserve the invariant and implement those of ObjectGraph.  *)

\* An identity that no live object has is free.
LEMMA FreeIdentity ==
  ASSUME HeapInv, NEW o \in Objects \ Identities
  PROVE  o \in Objects /\ Named(Now, o) = {} /\ o \in Graph!Free
<1>1. Identities = {Now.mem[p].vmt : p \in LiveOf(Now)} /\ Contents = ContentsOf(Now)
  BY CurrentState
<1>2. Named(Now, o) = {}
  BY <1>1 DEF Named
<1>3. Depicts(Now, ContentsOf(Now))
  BY ContentsDepict DEF HeapInv
<1>4. ContentsOf(Now)[o] = Forgotten
  BY <1>2, <1>3 DEF Depicts
<1>5. o \in Graph!Free
  BY <1>1, <1>4 DEF Graph!Free
<1> QED BY <1>2, <1>5

\* What n shows of an operation.
Shows(n, refs, cont, perm) == RefersOf(n) = refs /\ PermanentOf(n) = perm /\ Updated(n, cont)

\* The variables of ObjectGraph in the next state.
LEMMA AbstractBecomes ==
  ASSUME NEW refs, NEW cont, NEW perm, NEW n, Follows(n), Shows(n, refs, cont, perm)
  PROVE  /\ [r \in Roots |-> Identity(root[r])]' = refs
         /\ {mem[p].vmt : p \in PermObjects}' = perm
         /\ Contents' = [o \in Objects |->
              IF o \in Graph!ReachableFrom(cont, (Graph!ToSet(refs) \cup perm) \ {NoObject}) THEN cont[o] ELSE Forgotten]
<1>1. /\ [r \in Roots |-> Identity(root[r])]' = RefersOf(n)
      /\ {mem[p].vmt : p \in PermObjects}' = PermanentOf(n)
      /\ Contents' = ContentsOf(n)
  BY NextState DEF Follows
<1>2. RefersOf(n) = refs /\ PermanentOf(n) = perm
  BY DEF Shows
<1>3. FromOf(n) = (Graph!ToSet(refs) \cup perm) \ {NoObject}
  BY <1>2 DEF FromOf, ToSet, Graph!ToSet
<1>4. ContentsOf(n) = [o \in Objects |-> IF o \in Graph!ReachableFrom(cont, FromOf(n)) THEN cont[o] ELSE Forgotten]
  BY DEF Updated, Shows
<1> QED BY <1>1, <1>2, <1>3, <1>4

\* New keeps the heap in order and creates one object, or none when the memory
\* is exhausted.
LEMMA NewWorks ==
  ASSUME HeapInv, NEW r \in Roots, NEW shape \in Shapes, New(r, shape)
  PROVE  HeapInv' /\ (Graph!New(r, shape) \/ Unseen)
<1>1. PICK o \in Objects \ Identities : Become(Create(GC_ALLOC(shape.pages), r, shape, o))
  BY DEF New
<1> DEFINE a == GC_ALLOC(shape.pages)
<1>2. Whole(a.state) /\ a = GC_ALLOC(shape.pages) /\ Become(Create(a, r, shape, o))
  BY <1>1, GC_ALLOCWhole
<1> HIDE DEF a
<1>3. Bounded(a.state)
  BY <1>2, CreateBounded
<1>4. HeapOK(Now) /\ shape.pages \in Nat
  BY ShapeType DEF HeapInv
<1>5. Allocated(Now, shape.pages, a)
  BY <1>2, <1>3, <1>4, GC_ALLOCWorks
<1>6. o \in Objects /\ Named(Now, o) = {} /\ o \in Graph!Free
  BY FreeIdentity
<1>7. CASE a.given = Nil /\ HeapOK(a.state) /\ SameGraph(Now, a.state)
  <2>1. Become(a.state)
    BY <1>2, <1>7 DEF Create
  <2> QED BY <2>1, <1>7, NothingGiven
<1>8. CASE \E t, field : GivenFrom(Now, t, field, shape.pages, a) /\ field # "gc_perm_current"
  <2>1. PICK t, field : GivenFrom(Now, t, field, shape.pages, a) /\ field # "gc_perm_current"
    BY <1>8
  <2>2. PICK n : Follows(n)
    BY FollowsExists
  <2>3. HeapInv' /\ Seen(Now, n, field, r, shape, o)
    BY <2>1, <2>2, <1>2, <1>6, SomethingGiven
  <2>4. /\ Updated(n, [ContentsOf(Now) EXCEPT ![o] = Graph!Empty(shape)])
        /\ RefersOf(n) = [RefersOf(Now) EXCEPT ![r] = o] /\ PermanentOf(n) = PermanentOf(Now)
    BY <2>1, <2>3 DEF Seen
  <2>5. Graph!New(r, shape)
    <3> DEFINE refs0 == [x \in Roots |-> Identity(root[x])]
               perm0 == {mem[p].vmt : p \in PermObjects}
               refs == [refs0 EXCEPT ![r] = o]
               cont == [Contents EXCEPT ![o] = Graph!Empty(shape)]
    <3>1. Shows(n, refs, cont, perm0)
      BY <2>4, CurrentState DEF Shows
    <3> HIDE DEF refs, cont, perm0
    <3>2. /\ [x \in Roots |-> Identity(root[x])]' = refs
          /\ {mem[p].vmt : p \in PermObjects}' = perm0
          /\ Contents' = [x \in Objects |->
               IF x \in Graph!ReachableFrom(cont, (Graph!ToSet(refs) \cup perm0) \ {NoObject}) THEN cont[x] ELSE Forgotten]
      BY <2>2, <3>1, AbstractBecomes
    <3>3. Graph!Becomes(refs, cont, perm0)
      BY <3>2 DEF Graph!Becomes
    <3> QED BY <3>3, <1>6 DEF Graph!New, refs, cont, perm0
  <2> QED BY <2>3, <2>5
<1> QED BY <1>5, <1>7, <1>8 DEF Allocated

\* NewPermanent keeps the heap in order and creates one permanent object.
LEMMA NewPermanentWorks ==
  ASSUME HeapInv, NEW r \in Roots, NEW shape \in Shapes, NewPermanent(r, shape)
  PROVE  HeapInv' /\ Graph!NewPermanent(r, shape)
<1>1. /\ table.gc_perm_current + shape.pages <= PermStart + PermSize
      /\ \E o \in Objects \ Identities : Become(Create(GC_ALLOCPERM(shape.pages), r, shape, o))
  BY DEF NewPermanent
<1>2. PICK o \in Objects \ Identities : Become(Create(GC_ALLOCPERM(shape.pages), r, shape, o))
  BY <1>1
<1> DEFINE a == GC_ALLOCPERM(shape.pages)
           field == "gc_perm_current"
<1>3. a = GC_ALLOCPERM(shape.pages) /\ Become(Create(a, r, shape, o))
  BY <1>2
<1> HIDE DEF a
<1>4. HeapOK(Now) /\ shape.pages \in Nat /\ shape.pages # 0
  BY ShapeType DEF HeapInv
<1>5. GivenFrom(Now, Now, "gc_perm_current", shape.pages, a)
  BY <1>1, <1>3, <1>4, GC_ALLOCPERMWorks
<1>6. o \in Objects /\ Named(Now, o) = {} /\ o \in Graph!Free
  BY FreeIdentity
<1>7. PICK n : Follows(n)
  BY FollowsExists
<1>8. HeapInv' /\ Seen(Now, n, "gc_perm_current", r, shape, o)
  BY <1>3, <1>5, <1>6, <1>7, SomethingGiven
<1>9. /\ Updated(n, [ContentsOf(Now) EXCEPT ![o] = Graph!Empty(shape)])
      /\ RefersOf(n) = [RefersOf(Now) EXCEPT ![r] = o] /\ PermanentOf(n) = PermanentOf(Now) \cup {o}
  BY <1>8 DEF Seen
<1>10. Graph!NewPermanent(r, shape)
  <2> DEFINE refs == [[x \in Roots |-> Identity(root[x])] EXCEPT ![r] = o]
             cont == [Contents EXCEPT ![o] = Graph!Empty(shape)]
             perm == {mem[p].vmt : p \in PermObjects} \cup {o}
  <2>1. Shows(n, refs, cont, perm)
    BY <1>9, CurrentState DEF Shows
  <2> HIDE DEF refs, cont, perm
  <2>2. /\ [x \in Roots |-> Identity(root[x])]' = refs
        /\ {mem[p].vmt : p \in PermObjects}' = perm
        /\ Contents' = [x \in Objects |->
             IF x \in Graph!ReachableFrom(cont, (Graph!ToSet(refs) \cup perm) \ {NoObject}) THEN cont[x] ELSE Forgotten]
    BY <1>7, <2>1, AbstractBecomes
  <2>3. Graph!Becomes(refs, cont, perm)
    BY <2>2 DEF Graph!Becomes
  <2> QED BY <2>3, <1>6 DEF Graph!NewPermanent, refs, cont, perm
<1> QED BY <1>8, <1>10

\* A collection keeps the heap in order and cannot be seen.
LEMMA CollectWorks ==
  ASSUME HeapInv, NEW fullMode \in BOOLEAN, Collect(fullMode)
  PROVE  HeapInv' /\ Unseen
<1> DEFINE a == GCRoutine(0, fullMode)
<1>1. a = GCRoutine(0, fullMode) /\ Become(a.state)
  BY DEF Collect
<1> HIDE DEF a
<1>2. Bounded(a.state)
  BY <1>1 DEF Become, Bounded
<1>3. Allocated(Now, 0, a)
  BY <1>1, <1>2, RoutineWorks DEF HeapInv
<1>4. HeapOK(a.state) /\ SameGraph(Now, a.state)
  BY <1>3 DEF Allocated
<1> QED BY <1>1, <1>4, NothingGiven

\* What a root refers to is live, and so is what a live object refers to.
LEMMA RootLive ==
  ASSUME HeapInv
  PROVE  /\ \A r \in Roots : root[r] \in LiveOf(Now) \cup {Nil}
         /\ \A p \in LiveOf(Now) : \A i \in DOMAIN mem[p].fields : mem[p].fields[i] \in LiveOf(Now) \cup {Nil}
<1>1. Rooted(Now, LiveOf(Now)) /\ LiveOf(Now) \subseteq Pages /\ Now.mem \in Memories
  BY LiveFacts DEF HeapInv, HeapOK, Typed
<1>2. Now.mem = mem /\ Now.root = root
  BY DEF Now
<1>3. ASSUME NEW p \in LiveOf(Now), NEW i \in DOMAIN mem[p].fields PROVE mem[p].fields[i] \in LiveOf(Now) \cup {Nil}
  <2>1. mem[p].fields \in Words
    BY <1>1, <1>2, HeaderType
  <2>2. i \in 1 .. Len(mem[p].fields)
    BY <2>1, <1>3 DEF Words
  <2> QED BY <2>2, <1>1, <1>2 DEF Rooted
<1> QED BY <1>1, <1>2, <1>3 DEF Rooted

\* What the program reads of an object is in ObjectGraph, too.
LEMMA FieldSeen ==
  ASSUME HeapInv, NEW r \in Roots, root[r] # Nil, NEW i \in DOMAIN mem[root[r]].fields
  PROVE  /\ root[r] \in LiveOf(Now)
         /\ RefersOf(Now)[r] = mem[root[r]].vmt /\ RefersOf(Now)[r] # NoObject
         /\ i \in DOMAIN ContentsOf(Now)[RefersOf(Now)[r]].fields
         /\ ContentsOf(Now)[RefersOf(Now)[r]].fields[i] = Name(Now, mem[root[r]].fields[i])
         /\ \E shape \in Shapes : i \in 1 .. shape.fields
<1> DEFINE p == root[r]
<1>1. p \in LiveOf(Now)
  BY RootLive
<1>2. Now.mem = mem /\ Now.root = root
  BY DEF Now
<1>3. RefersOf(Now)[r] = mem[p].vmt
  BY <1>2 DEF RefersOf, Name
<1>4. HeapOK(Now) /\ Unique(Now)
  BY DEF HeapInv
<1>5. LiveOf(Now) \subseteq Cells(Now) /\ mem[p].vmt # NoObject /\ p \in Pages
  BY <1>1, <1>2, <1>4, LiveFacts
<1>6. ContentsOf(Now)[mem[p].vmt] = ContentAt(Now, p)
  <2>1. Depicts(Now, ContentsOf(Now))
    BY <1>4, ContentsDepict
  <2> QED BY <2>1, <1>1, <1>2 DEF Depicts
<1>7. /\ i \in DOMAIN ContentAt(Now, p).fields
      /\ ContentAt(Now, p).fields[i] = Name(Now, mem[p].fields[i])
  BY <1>2 DEF ContentAt
<1>8. \E shape \in Shapes : i \in 1 .. shape.fields
  <2>1. PICK shape \in Shapes : Len(mem[p].fields) = shape.fields
    BY <1>1, <1>2, <1>4, <1>5 DEF HeapOK, Shaped
  <2>2. mem[p].fields \in Words
    BY <1>2, <1>4, <1>5, HeaderType DEF HeapOK, Typed
  <2>3. i \in 1 .. Len(mem[p].fields)
    BY <2>2 DEF Words
  <2> QED BY <2>1, <2>3
<1> QED BY <1>1, <1>3, <1>5, <1>6, <1>7, <1>8

\* Assign keeps the heap in order and stores one reference.
LEMMA AssignWorks ==
  ASSUME HeapInv, NEW r \in Roots, NEW v \in Roots, NEW i, Assign(r, i, v)
  PROVE  HeapInv' /\ Graph!Store(r, i, v) /\ \E shape \in Shapes : i \in 1 .. shape.fields
<1> DEFINE at == root[r]
           w == root[v]
<1>1. /\ at # Nil /\ i \in DOMAIN mem[at].fields /\ mem' = [mem EXCEPT ![at].fields[i] = w]
      /\ cards' = cards \cup ({at} \cap table.gc_mg_start .. Limit - 1) /\ table' = table /\ root' = root
  BY DEF Assign
<1>2. PICK n : Follows(n)
  BY FollowsExists
<1>3. n.mem = mem' /\ n.cards = cards' /\ n.table = table' /\ n.root = root'
  BY <1>2 DEF Follows
<1>4. Now.mem = mem /\ Now.cards = cards /\ Now.table = table /\ Now.root = root
  BY DEF Now
<1>5. HeapOK(Now) /\ Unique(Now)
  BY DEF HeapInv
<1>6. /\ at \in LiveOf(Now) /\ RefersOf(Now)[r] = mem[at].vmt /\ RefersOf(Now)[r] # NoObject
      /\ i \in DOMAIN ContentsOf(Now)[RefersOf(Now)[r]].fields
      /\ \E shape \in Shapes : i \in 1 .. shape.fields
  BY <1>1, FieldSeen
<1>7. w \in LiveOf(Now) \cup {Nil}
  BY RootLive
<1>8. RefersOf(Now)[v] = Name(Now, w)
  BY <1>4 DEF RefersOf
<1> HIDE DEF at, w
<1>9. Stored(Now, n, at, i, w)
  BY <1>1, <1>3, <1>4 DEF Stored
<1>10. i \in DOMAIN Now.mem[at].fields
  BY <1>1, <1>4
<1>11. /\ HeapOK(n) /\ Unique(n)
       /\ Updated(n, [ContentsOf(Now) EXCEPT ![Now.mem[at].vmt].fields[i] = Name(Now, w)])
       /\ RefersOf(n) = RefersOf(Now) /\ PermanentOf(n) = PermanentOf(Now)
  BY <1>5, <1>6, <1>7, <1>9, <1>10, StoredWorks
<1>12. HeapInv'
  BY <1>2, <1>11, NextState DEF Follows
<1>13. Updated(n, [ContentsOf(Now) EXCEPT ![RefersOf(Now)[r]].fields[i] = RefersOf(Now)[v]])
  BY <1>4, <1>6, <1>8, <1>11
<1>14. Graph!Store(r, i, v)
  <2> DEFINE refs0 == [x \in Roots |-> Identity(root[x])]
             perm0 == {mem[p].vmt : p \in PermObjects}
             refs == refs0
             cont == [Contents EXCEPT ![refs0[r]].fields[i] = refs0[v]]
             perm == perm0
  <2>1. Shows(n, refs, cont, perm)
    BY <1>11, <1>13, CurrentState DEF Shows
  <2> HIDE DEF refs, cont, perm
  <2>2. /\ [x \in Roots |-> Identity(root[x])]' = refs
        /\ {mem[p].vmt : p \in PermObjects}' = perm
        /\ Contents' = [x \in Objects |->
             IF x \in Graph!ReachableFrom(cont, (Graph!ToSet(refs) \cup perm) \ {NoObject}) THEN cont[x] ELSE Forgotten]
    BY <1>2, <2>1, AbstractBecomes
  <2>3. Graph!Becomes(refs, cont, perm)
    BY <2>2 DEF Graph!Becomes
  <2>4. refs0[r] # NoObject /\ i \in DOMAIN Contents[refs0[r]].fields
    BY <1>6, CurrentState
  <2> QED BY <2>3, <2>4 DEF Graph!Store, refs, cont, perm
<1> QED BY <1>6, <1>12, <1>14

\* A step that sets a root keeps the heap in order and is seen as such.
LEMMA RerootedSeen ==
  ASSUME HeapInv, NEW v \in Roots, NEW w \in LiveOf(Now) \cup {Nil},
         root' = [root EXCEPT ![v] = w], mem' = mem, cards' = cards, table' = table
  PROVE  HeapInv' /\ \E n : Follows(n) /\ Shows(n, [RefersOf(Now) EXCEPT ![v] = Name(Now, w)], ContentsOf(Now), PermanentOf(Now))
<1>1. PICK n : Follows(n)
  BY FollowsExists
<1>2. n.mem = mem' /\ n.cards = cards' /\ n.table = table' /\ n.root = root'
  BY <1>1 DEF Follows
<1>3. Now.mem = mem /\ Now.cards = cards /\ Now.table = table /\ Now.root = root
  BY DEF Now
<1>4. HeapOK(Now) /\ Unique(Now)
  BY DEF HeapInv
<1>5. Rerooted(Now, n, v, w)
  BY <1>2, <1>3 DEF Rerooted
<1>6. /\ HeapOK(n) /\ Unique(n) /\ Updated(n, ContentsOf(Now))
      /\ RefersOf(n) = [RefersOf(Now) EXCEPT ![v] = Name(Now, w)] /\ PermanentOf(n) = PermanentOf(Now)
  BY <1>4, <1>5, RerootedWorks
<1>7. HeapInv'
  BY <1>1, <1>6, NextState DEF Follows
<1>8. Shows(n, [RefersOf(Now) EXCEPT ![v] = Name(Now, w)], ContentsOf(Now), PermanentOf(Now))
  BY <1>6 DEF Shows
<1> QED BY <1>1, <1>7, <1>8

\* Get keeps the heap in order and loads one reference.
LEMMA GetWorks ==
  ASSUME HeapInv, NEW r \in Roots, NEW v \in Roots, NEW i, Get(r, i, v)
  PROVE  HeapInv' /\ Graph!Load(r, i, v) /\ \E shape \in Shapes : i \in 1 .. shape.fields
<1> DEFINE at == root[r]
           w == mem[at].fields[i]
<1>1. /\ at # Nil /\ i \in DOMAIN mem[at].fields
      /\ root' = [root EXCEPT ![v] = w] /\ mem' = mem /\ cards' = cards /\ table' = table
  BY DEF Get
<1>2. /\ at \in LiveOf(Now) /\ RefersOf(Now)[r] # NoObject
      /\ i \in DOMAIN ContentsOf(Now)[RefersOf(Now)[r]].fields
      /\ ContentsOf(Now)[RefersOf(Now)[r]].fields[i] = Name(Now, w)
      /\ \E shape \in Shapes : i \in 1 .. shape.fields
  BY <1>1, FieldSeen
<1>3. w \in LiveOf(Now) \cup {Nil}
  BY <1>1, <1>2, RootLive
<1>4. HeapInv' /\ \E n : Follows(n) /\ Shows(n, [RefersOf(Now) EXCEPT ![v] = Name(Now, w)], ContentsOf(Now), PermanentOf(Now))
  <2> HIDE DEF w, at
  <2> QED BY <1>1, <1>3, RerootedSeen
<1>5. PICK n : Follows(n) /\ Shows(n, [RefersOf(Now) EXCEPT ![v] = Name(Now, w)], ContentsOf(Now), PermanentOf(Now))
  BY <1>4
<1>6. Shows(n, [RefersOf(Now) EXCEPT ![v] = ContentsOf(Now)[RefersOf(Now)[r]].fields[i]], ContentsOf(Now), PermanentOf(Now))
  BY <1>2, <1>5
<1>7. Graph!Load(r, i, v)
  <2> DEFINE refs0 == [x \in Roots |-> Identity(root[x])]
             perm0 == {mem[p].vmt : p \in PermObjects}
             refs == [refs0 EXCEPT ![v] = Contents[refs0[r]].fields[i]]
             cont == Contents
             perm == perm0
  <2>1. Shows(n, refs, cont, perm)
    BY <1>6, CurrentState DEF Shows
  <2> HIDE DEF refs, cont, perm
  <2>2. /\ [x \in Roots |-> Identity(root[x])]' = refs
        /\ {mem[p].vmt : p \in PermObjects}' = perm
        /\ Contents' = [x \in Objects |->
             IF x \in Graph!ReachableFrom(cont, (Graph!ToSet(refs) \cup perm) \ {NoObject}) THEN cont[x] ELSE Forgotten]
    BY <1>5, <2>1, AbstractBecomes
  <2>3. Graph!Becomes(refs, cont, perm)
    BY <2>2 DEF Graph!Becomes
  <2>4. refs0[r] # NoObject /\ i \in DOMAIN Contents[refs0[r]].fields
    BY <1>2, CurrentState
  <2> QED BY <2>3, <2>4 DEF Graph!Load, refs, cont, perm
<1> QED BY <1>2, <1>4, <1>7

\* Drop keeps the heap in order and forgets what only the root reached.
LEMMA DropWorks ==
  ASSUME HeapInv, NEW r \in Roots, Drop(r)
  PROVE  HeapInv' /\ Graph!Drop(r)
<1>1. root' = [root EXCEPT ![r] = Nil] /\ mem' = mem /\ cards' = cards /\ table' = table
  BY DEF Drop
<1>2. HeapInv' /\ \E n : Follows(n) /\ Shows(n, [RefersOf(Now) EXCEPT ![r] = Name(Now, Nil)], ContentsOf(Now), PermanentOf(Now))
  BY <1>1, RerootedSeen
<1>3. Name(Now, Nil) = NoObject
  BY DEF Name
<1>4. PICK n : Follows(n) /\ Shows(n, [RefersOf(Now) EXCEPT ![r] = NoObject], ContentsOf(Now), PermanentOf(Now))
  BY <1>2, <1>3
<1>5. Graph!Drop(r)
  <2> DEFINE refs == [[x \in Roots |-> Identity(root[x])] EXCEPT ![r] = NoObject]
             cont == Contents
             perm == {mem[p].vmt : p \in PermObjects}
  <2>1. Shows(n, refs, cont, perm)
    BY <1>4, CurrentState DEF Shows
  <2> HIDE DEF refs, cont, perm
  <2>2. /\ [x \in Roots |-> Identity(root[x])]' = refs
        /\ {mem[p].vmt : p \in PermObjects}' = perm
        /\ Contents' = [x \in Objects |->
             IF x \in Graph!ReachableFrom(cont, (Graph!ToSet(refs) \cup perm) \ {NoObject}) THEN cont[x] ELSE Forgotten]
    BY <1>4, <2>1, AbstractBecomes
  <2>3. Graph!Becomes(refs, cont, perm)
    BY <2>2 DEF Graph!Becomes
  <2> QED BY <2>3, <1>4 DEF Graph!Drop, refs, cont, perm
<1> QED BY <1>2, <1>5

-----------------------------------------------------------------------------
(* The theorems.                                                           *)

\* Steps of ObjectGraph and steps that it does not see.
LEMMA StepWorks ==
  ASSUME HeapInv, Next
  PROVE  HeapInv' /\ (Graph!Next \/ Unseen)
<1>1. ASSUME NEW r \in Roots, NEW shape \in Shapes, New(r, shape) PROVE HeapInv' /\ (Graph!Next \/ Unseen)
  <2>1. HeapInv' /\ (Graph!New(r, shape) \/ Unseen)
    BY <1>1, NewWorks
  <2>2. Graph!New(r, shape) => Graph!Next
    BY DEF Graph!Next, Graph!Roots, Roots
  <2> QED BY <2>1, <2>2
<1>2. ASSUME NEW r \in Roots, NEW shape \in Shapes, NewPermanent(r, shape) PROVE HeapInv' /\ (Graph!Next \/ Unseen)
  <2>1. HeapInv' /\ Graph!NewPermanent(r, shape)
    BY <1>2, NewPermanentWorks
  <2>2. Graph!NewPermanent(r, shape) => Graph!Next
    BY DEF Graph!Next, Graph!Roots, Roots
  <2> QED BY <2>1, <2>2
<1>3. ASSUME NEW r \in Roots, NEW v \in Roots, NEW i \in 1 .. MaxFields, Assign(r, i, v)
      PROVE  HeapInv' /\ (Graph!Next \/ Unseen)
  <2>1. HeapInv' /\ Graph!Store(r, i, v) /\ \E shape \in Shapes : i \in 1 .. shape.fields
    BY <1>3, AssignWorks
  <2>2. ASSUME NEW shape \in Shapes, i \in 1 .. shape.fields PROVE Graph!Store(r, i, v) => Graph!Next
    BY <2>2 DEF Graph!Next, Graph!Roots, Roots
  <2> QED BY <2>1, <2>2
<1>4. ASSUME NEW r \in Roots, NEW v \in Roots, NEW i \in 1 .. MaxFields, Get(r, i, v)
      PROVE  HeapInv' /\ (Graph!Next \/ Unseen)
  <2>1. HeapInv' /\ Graph!Load(r, i, v) /\ \E shape \in Shapes : i \in 1 .. shape.fields
    BY <1>4, GetWorks
  <2>2. ASSUME NEW shape \in Shapes, i \in 1 .. shape.fields PROVE Graph!Load(r, i, v) => Graph!Next
    BY <2>2 DEF Graph!Next, Graph!Roots, Roots
  <2> QED BY <2>1, <2>2
<1>5. ASSUME NEW r \in Roots, Drop(r) PROVE HeapInv' /\ (Graph!Next \/ Unseen)
  <2>1. HeapInv' /\ Graph!Drop(r)
    BY <1>5, DropWorks
  <2>2. Graph!Drop(r) => Graph!Next
    BY DEF Graph!Next, Graph!Roots, Roots
  <2> QED BY <2>1, <2>2
<1>6. ASSUME NEW fullMode \in BOOLEAN, Collect(fullMode) PROVE HeapInv' /\ (Graph!Next \/ Unseen)
  BY <1>6, CollectWorks
<1> QED BY <1>1, <1>2, <1>3, <1>4, <1>5, <1>6 DEF Next

\* A step that changes nothing.
LEMMA IdleWorks ==
  ASSUME HeapInv, UNCHANGED vars
  PROVE  HeapInv' /\ Unseen
<1>1. PICK n : Follows(n)
  BY FollowsExists
<1>2. n = Now
  BY <1>1 DEF Follows, Now, vars
<1>3. HeapOK(n) /\ Unique(n)
  BY <1>2 DEF HeapInv
<1>4. HeapInv'
  BY <1>1, <1>3, NextState DEF Follows
<1>5. SameView(Now, n)
  BY <1>2 DEF SameView
<1>6. Unseen
  BY <1>1, <1>5, SameViewUnseen
<1> QED BY <1>4, <1>6

\* The heap is in order in every reachable state: the inductive invariant.
THEOREM HeapInvariant == Spec => []HeapInv
<1>1. Init => HeapInv
  BY HeapInit
<1>2. HeapInv /\ [Next]_vars => HeapInv'
  BY StepWorks, IdleWorks
<1> QED BY <1>1, <1>2, PTL DEF Spec

\* The inductive invariant implies the type invariant.
LEMMA InvTypeOK == HeapInv => TypeOK
<1> SUFFICES ASSUME HeapInv PROVE TypeOK
  OBVIOUS
<1>1. Now.mem = mem /\ Now.cards = cards /\ Now.table = table /\ Now.root = root
  BY DEF Now
<1>2. TableOK(table) /\ Typed(Now)
  BY <1>1 DEF HeapInv, HeapOK
<1>3. mem \in Memories /\ root \in [Roots -> Pages \cup {Nil}] /\ cards \subseteq 2 * YGSize .. Limit - 1
  BY <1>1, <1>2 DEF Typed
<1>4. ASSUME NEW p \in Pages
      PROVE  /\ mem[p].pages \in Nat \ {0} /\ mem[p].marked \in BOOLEAN /\ mem[p].vmt \in Objects \cup {NoObject}
             /\ ToSet(mem[p].fields) \subseteq Pages \cup {Nil}
  <2>1. mem[p].vmt \in Objects \cup {NoObject}
    BY <1>1, <1>2 DEF Typed
  <2>2. mem[p].fields \in Words
    BY <1>3, HeaderType
  <2>3. ToSet(mem[p].fields) \subseteq Pages \cup {Nil}
    BY <2>2 DEF ToSet, Words
  <2> QED BY <1>3, <2>1, <2>3, HeaderType
<1>5. DOMAIN root = Roots /\ ToSet(root) \subseteq Pages \cup {Nil}
  BY <1>3 DEF ToSet
<1>6. /\ {<<table.gc_yg_start, table.gc_yg_end>>, <<table.gc_shadow, table.gc_shadow_end>>}
           = {<<0, YGSize>>, <<YGSize, 2 * YGSize>>}
      /\ table.gc_yg_current \in table.gc_yg_start .. table.gc_yg_end
      /\ table.gc_mg_start = 2 * YGSize
      /\ {table.gc_mg_current, table.gc_end} \subseteq table.gc_mg_start .. Limit
      /\ table.gc_perm_current \in PermStart .. PermStart + PermSize
  BY <1>2 DEF TableOK
<1>7. cards \subseteq table.gc_mg_start .. Limit - 1
  BY <1>3, <1>6
<1> QED BY <1>4, <1>5, <1>6, <1>7 DEF TypeOK

\* The inductive invariant implies that live objects are in place.
LEMMA InvLiveObjectsInPlace == HeapInv => LiveObjectsInPlace
<1> SUFFICES ASSUME HeapInv PROVE LiveObjectsInPlace
  OBVIOUS
<1>1. Now.mem = mem /\ Now.table = table
  BY DEF Now
<1>2. HeapOK(Now) /\ Unique(Now)
  BY DEF HeapInv
<1>3. Live = LiveOf(Now) /\ PermObjects = PermHeads(Now)
  BY CurrentState
<1>4. Live \subseteq Cells(Now)
  BY <1>2, <1>3, LiveFacts
<1>5. \A p \in Live : p \in YoungHeads(Now) \cup MatureHeads(Now) \cup PermHeads(Now) /\ ~mem[p].marked
  BY <1>1, <1>4 DEF Cells
<1>6. \A p, q \in Live : mem[q].vmt = mem[p].vmt => q = p
  BY <1>1, <1>2, <1>3 DEF Unique
<1> QED BY <1>1, <1>3, <1>5, <1>6 DEF LiveObjectsInPlace, YoungHeads, MatureHeads

\* The inductive invariant implies that no card is missing.
LEMMA InvCardsComplete == HeapInv => CardsComplete
<1> SUFFICES ASSUME HeapInv,
                    NEW p \in Live, table.gc_mg_start <= p, p < table.gc_mg_current, p \notin cards,
                    NEW q \in ToSet(mem[p].fields), table.gc_yg_start <= q, q < table.gc_yg_end
             PROVE  FALSE
  BY DEF CardsComplete
<1>1. Now.mem = mem /\ Now.table = table /\ Now.cards = cards
  BY DEF Now
<1>2. HeapOK(Now)
  BY DEF HeapInv
<1>3. Live = LiveOf(Now) /\ PermObjects = PermHeads(Now)
  BY CurrentState
<1>4. p \in Cells(Now)
  BY <1>2, <1>3, LiveFacts
<1>5. q \in Cells(Now) \cup {Nil}
  BY <1>1, <1>2, <1>4 DEF HeapOK, Closed
<1>6. TableOK(table) /\ Covered(Now) /\ Carded(Now)
  BY <1>1, <1>2 DEF HeapOK
<1>7. /\ YoungHeads(Now) \subseteq table.gc_yg_start .. table.gc_yg_current - 1
      /\ MatureHeads(Now) \subseteq table.gc_mg_start .. table.gc_mg_current - 1
      /\ PermHeads(Now) \subseteq table.gc_perm_start .. table.gc_perm_current - 1
  BY <1>1, <1>6 DEF Covered, Tiled
<1>8. table \in Tables
  BY <1>6, TableFacts
<1>9. /\ table.gc_yg_end <= table.gc_mg_start /\ table.gc_mg_current <= Limit /\ table.gc_perm_start >= Limit
      /\ table.gc_perm_start >= table.gc_yg_end /\ table.gc_yg_current <= table.gc_yg_end
  BY <1>6, Areas, TableFacts DEF TableOK
<1>10. p \in MatureHeads(Now)
  <2>1. p \in YoungHeads(Now) \cup MatureHeads(Now) \cup PermHeads(Now)
    BY <1>4 DEF Cells
  <2> QED BY <2>1, <1>7, <1>8, <1>9, Areas DEF Tables
<1>11. q \in YoungHeads(Now)
  <2>1. q # Nil
    BY <1>8, Areas DEF Tables, Nil
  <2>2. q \in YoungHeads(Now) \cup MatureHeads(Now) \cup PermHeads(Now)
    BY <1>5, <2>1 DEF Cells
  <2> QED BY <2>2, <1>7, <1>8, <1>9, Areas DEF Tables
<1> QED BY <1>1, <1>4, <1>6, <1>10, <1>11 DEF Carded

\* Headers, fields, cards, roots and the table of the memory manager (GCTable in
\* core.h) keep their types and ranges.
THEOREM HeapTypeOK == Spec => []TypeOK
BY HeapInvariant, InvTypeOK, PTL

\* Every object the program can reach is found by the linear walks of the collector
\* (FullCollect, CollectPermYGRoots), has no mark, and is not taken for another.
THEOREM HeapLiveObjectsInPlace == Spec => []LiveObjectsInPlace
BY HeapInvariant, InvLiveObjectsInPlace, PTL

\* No reference from a mature to a young object is missed by CollectMG2YGRoots: its
\* card is set.
THEOREM HeapCardsComplete == Spec => []CardsComplete
BY HeapInvariant, InvCardsComplete, PTL

\* The heap begins with an empty graph.
LEMMA InitGraph == Init => Graph!Init
<1> SUFFICES ASSUME Init PROVE Graph!Init
  OBVIOUS
<1>1. HeapOK(Now)
  BY HeapInit DEF HeapInv
<1>2. Now.root = [r \in Roots |-> Nil] /\ root = Now.root /\ Now.table = table /\ Now.mem = mem
  BY DEF Init, Now
<1>3. RefersOf(Now) = [r \in Roots |-> NoObject]
  BY <1>2 DEF RefersOf, Name
<1>4. PermHeads(Now) = {}
  <2>1. table.gc_perm_start = PermStart /\ table.gc_perm_current = PermStart
    BY DEF Init
  <2>2. Tiled(mem, PermHeads(Now), PermStart, PermStart)
    BY <1>1, <1>2, <2>1 DEF HeapOK, Covered
  <2>3. PermStart \in Nat
    BY Areas
  <2> QED BY <2>2, <2>3 DEF Tiled
<1>5. LiveOf(Now) = {}
  <2>1. Cells(Now) = {}
    <3>1. /\ table.gc_yg_start = 0 /\ table.gc_yg_current = 0
          /\ table.gc_mg_start = 2 * YGSize /\ table.gc_mg_current = 2 * YGSize
      BY DEF Init
    <3>2. Tiled(mem, YoungHeads(Now), 0, 0) /\ Tiled(mem, MatureHeads(Now), 2 * YGSize, 2 * YGSize)
      BY <1>1, <1>2, <3>1 DEF HeapOK, Covered
    <3>3. YoungHeads(Now) = {} /\ MatureHeads(Now) = {}
      BY <3>2, Areas DEF Tiled
    <3> QED BY <1>4, <3>3 DEF Cells
  <2> QED BY <1>1, <2>1, LiveFacts
<1>6. ContentsOf(Now) = [o \in Objects |-> Forgotten]
  BY <1>5 DEF ContentsOf, Named
<1>7. PermanentOf(Now) = {}
  BY <1>4 DEF PermanentOf
<1>8. [r \in Roots |-> Identity(root[r])] = [r \in Roots |-> NoObject] /\ Contents = [o \in Objects |-> Forgotten]
      /\ {mem[p].vmt : p \in PermObjects} = {}
  BY <1>3, <1>6, <1>7, CurrentState
<1> QED BY <1>8 DEF Graph!Init, Graph!Roots, Roots

\* Allocations, assignments and collections implement the graph of objects a program
\* relies on: a collection is never seen, and what is reached is never changed.
THEOREM HeapImplementsObjectGraph == Spec => ImplementsObjectGraph
<1>1. Init => Graph!Init
  BY InitGraph
<1>2. HeapInv /\ [Next]_vars => [Graph!Next]_(Graph!vars)
  <2>1. Unseen => UNCHANGED Graph!vars
    BY DEF Unseen, Graph!vars
  <2>2. HeapInv /\ Next => Graph!Next \/ UNCHANGED Graph!vars
    BY StepWorks, <2>1
  <2>3. HeapInv /\ UNCHANGED vars => UNCHANGED Graph!vars
    BY IdleWorks, <2>1
  <2> QED BY <2>2, <2>3
<1> QED BY <1>1, <1>2, HeapInvariant, PTL DEF Spec, Graph!Spec, ImplementsObjectGraph
=============================================================================
