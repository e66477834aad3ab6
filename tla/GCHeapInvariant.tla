--------------------------- MODULE GCHeapInvariant --------------------------
(***************************************************************************)
(* What it means that a heap of GCHeap is in order, of any state s with    *)
(* the fields mem, cards, table and root: the objects of each area tile    *)
(* its part in use, references lead from objects to objects, nothing but   *)
(* an object has references, a reference from the mature to the young      *)
(* generation has a card, and the live objects have identities of their    *)
(* own.  It is the inductive invariant of GCHeap.                          *)
(***************************************************************************)
EXTENDS GCHeap, FiniteSets

\* The objects S tile the pages from from to to - 1.
Tiled(m, S, from, to) ==
  /\ S \subseteq from .. to - 1
  /\ from <= to
  /\ from < to => from \in S
  /\ \A p \in S : p + m[p].pages \in S \cup {to}
  /\ \A p, q \in S : p < q => p + m[p].pages <= q

\* What the walks over the three areas find.
YoungHeads(s) == Walk(s.mem, s.table.gc_yg_start, s.table.gc_yg_current)
MatureHeads(s) == Walk(s.mem, s.table.gc_mg_start, s.table.gc_mg_current)
PermHeads(s) == Walk(s.mem, s.table.gc_perm_start, s.table.gc_perm_current)

\* The objects: what a walk finds and is not marked.
Cells(s) == {p \in YoungHeads(s) \cup MatureHeads(s) \cup PermHeads(s) : ~s.mem[p].marked}

Tables == [gc_yg_start : Nat, gc_yg_current : Nat, gc_yg_end : Nat, gc_shadow : Nat, gc_shadow_end : Nat,
           gc_mg_start : Nat, gc_mg_current : Nat, gc_end : Nat, gc_perm_start : Nat, gc_perm_current : Nat]

\* The halves of the young generation, and how far each area is in use.
TableOK(t) ==
  /\ t \in Tables
  /\ \/ <<t.gc_yg_start, t.gc_yg_end, t.gc_shadow, t.gc_shadow_end>> = <<0, YGSize, YGSize, 2 * YGSize>>
     \/ <<t.gc_yg_start, t.gc_yg_end, t.gc_shadow, t.gc_shadow_end>> = <<YGSize, 2 * YGSize, 0, YGSize>>
  /\ t.gc_yg_current \in t.gc_yg_start .. t.gc_yg_end
  /\ t.gc_mg_start = 2 * YGSize
  /\ t.gc_mg_current \in 2 * YGSize .. Limit
  /\ t.gc_end \in 2 * YGSize .. Limit
  /\ t.gc_perm_start = PermStart
  /\ t.gc_perm_current \in PermStart .. PermStart + PermSize

\* Types.  Only a page of the heap has a card.
Typed(s) ==
  /\ s.mem \in Memories
  /\ \A p \in Pages : s.mem[p].vmt \in Objects \cup {NoObject}
  /\ s.cards \subseteq 2 * YGSize .. Limit - 1
  /\ s.root \in [Roots -> Pages \cup {Nil}]

\* Each area is tiled by its objects: a linear walk over it misses none.
Covered(s) ==
  /\ Tiled(s.mem, YoungHeads(s), s.table.gc_yg_start, s.table.gc_yg_current)
  /\ Tiled(s.mem, MatureHeads(s), s.table.gc_mg_start, s.table.gc_mg_current)
  /\ Tiled(s.mem, PermHeads(s), s.table.gc_perm_start, s.table.gc_perm_current)

\* Roots and objects refer to objects.
Closed(s) ==
  /\ \A r \in Roots : s.root[r] \in Cells(s) \cup {Nil}
  /\ \A p \in Cells(s) : ToSet(s.mem[p].fields) \subseteq Cells(s) \cup {Nil}

\* Beside the objects no page has references, and a mark is left only on a header
\* of the mature generation's memory.
Rest(s) ==
  /\ \A p \in Pages \ Cells(s) : s.mem[p].fields = <<>>
  /\ \A p \in Pages : s.mem[p].marked =>
       p \in 2 * YGSize .. Limit - 1 /\ p + s.mem[p].pages <= Limit

\* A mature object that refers to a young one has its card set.
Carded(s) ==
  \A p \in Cells(s) \cap MatureHeads(s) :
    p \in s.cards \/ ToSet(s.mem[p].fields) \cap YoungHeads(s) = {}

\* Every object has a shape and an identity.
Shaped(s) ==
  \A p \in Cells(s) : /\ s.mem[p].vmt \in Objects
     /\ \E sh \in Shapes : s.mem[p].pages = sh.pages /\ Len(s.mem[p].fields) = sh.fields

\* The objects the program can reach.
LiveOf(s) == Reach(s.mem, (ToSet(s.root) \cap Pages) \cup PermHeads(s))

\* No identity is that of two live objects.
Unique(s) == \A p, q \in LiveOf(s) : s.mem[p].vmt = s.mem[q].vmt => p = q

\* The heap is in order.
HeapOK(s) ==
  /\ TableOK(s.table)
  /\ Typed(s)
  /\ Covered(s)
  /\ Closed(s)
  /\ Rest(s)
  /\ Carded(s)
  /\ Shaped(s)

\* The inductive invariant: in every state the heap is in order, also what cannot
\* be reached any more, so that every collection finds what it relies on.
HeapInv == HeapOK(Now) /\ Unique(Now)
=============================================================================
