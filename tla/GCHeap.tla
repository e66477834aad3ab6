------------------------------- MODULE GCHeap -------------------------------
(***************************************************************************)
(* The heap of the ELENA runtime and its generational collector, as        *)
(* src/elenasrc3/engine/gcroutines.cpp implements it: a young generation   *)
(* copied between two halves, a mature generation that is marked and       *)
(* compacted, the cards of the write barrier, permanent objects, and the   *)
(* growth of the heap.  The program is any sequence of allocations and of  *)
(* reads and writes of references, which src/asm/amd64/core60.asm          *)
(* implements.  A collection is one step: the world is stopped around it   *)
(* (see StopTheWorld).                                                     *)
(*                                                                         *)
(* Addresses are page numbers, counted from gc_start.  A page holds the    *)
(* header that starts there and, of the fields behind it, the references.  *)
(* Pages inside an object, and pages never written, read as zeros: what is *)
(* not a reference in a large object is zero.  The vmt of an object stands *)
(* for all that identifies it, its class and its data.                     *)
(***************************************************************************)
EXTENDS Integers, Sequences, SequencesExt

CONSTANTS
  YGSize,     \* the pages of one half of the young generation
  MGSize,     \* the pages of the heap at the start, both halves included
  HeapInc,    \* heap_inc: the pages the heap grows by
  Limit,      \* bound: the pages reserved for the heap
  PermSize,   \* bound: the pages of the permanent area
  RootCount,  \* the words of the frames and of the static area
  Objects,    \* the identities objects have
  Shapes,     \* the objects a program creates: [pages, fields]
  NoObject,   \* the vmt of a page that never held an object
  Forgotten   \* see ObjectGraph

\* References that are not into the heap: nil is a constant object.
Nil == -1
\* Unsigned differences of addresses wrap.
WordSize == 65536
Minus(a, b) == (a - b) % WordSize
\* The bytes of a 64-bit entry of the mapping table, which are also the cards
\* of eight pages, and how many of them an address fills with other than zero.
EntrySize == 8
AddressBytes == 6

ASSUME SizeAssumption ==
  /\ YGSize \in Nat \ {0}
  /\ HeapInc \in Nat \ {0}
  /\ PermSize \in Nat
  /\ {MGSize, Limit} \subseteq 2 * YGSize .. WordSize - 1
  /\ MGSize <= Limit
MaxFields == LET fields == {s.fields : s \in Shapes} IN CHOOSE n \in fields : \A m \in fields : m <= n

ASSUME ProgramAssumption ==
  /\ RootCount \in Nat
  /\ \A s \in Shapes : s.pages \in Nat \ {0} /\ s.fields \in Nat

\* What stands for nothing is not an object, nor the content of one.
ASSUME NameAssumption ==
  /\ NoObject \notin Objects
  /\ Forgotten \notin [pages : Nat, fields : Seq(Objects \cup {NoObject})]

\* The permanent area lies away from the heap.
PermStart == Limit + 2 * YGSize
Pages == 0 .. PermStart + PermSize - 1
Roots == 1 .. RootCount

VARIABLES
  mem,     \* the header that each page starts with
  cards,   \* gc_mg_wbar: the pages whose card is not zero
  table,   \* the GCTable
  root     \* the words of the frames and of the static area

vars == <<mem, cards, table, root>>

\* A page of zeros: a header of size 0, which takes one page.
Zero == [pages |-> 1, marked |-> FALSE, vmt |-> NoObject, fields |-> <<>>]

Init ==
  /\ mem = [p \in Pages |-> Zero]
  /\ cards = {}
  /\ table = [gc_yg_start |-> 0, gc_yg_current |-> 0, gc_yg_end |-> YGSize,
              gc_shadow |-> YGSize, gc_shadow_end |-> 2 * YGSize,
              gc_mg_start |-> 2 * YGSize, gc_mg_current |-> 2 * YGSize, gc_end |-> MGSize,
              gc_perm_start |-> PermStart, gc_perm_current |-> PermStart]
  /\ root = [r \in Roots |-> Nil]

\* The headers a linear walk over [from, to) finds.
Walk(m, from, to) ==
  LET at[n \in 0 .. to - from] ==
        IF n = 0 THEN from
        ELSE LET p == at[n - 1] IN IF p < to THEN p + m[p].pages ELSE p
  IN {at[n] : n \in 0 .. to - from} \cap from .. to - 1

-----------------------------------------------------------------------------
(* The recursions of the collector are functions of how much deeper they may  *)
(* get.  They enter an object once, so they are never cut off.                *)

MaxDepth == Limit + 1

Words == Seq(Pages \cup {Nil})
Headers == [pages : Nat \ {0}, marked : BOOLEAN, vmt : Objects \cup {NoObject} \cup Pages,
            fields : Words]
Memories == [Pages -> Headers]

Within(word, start, end) == start <= word /\ word < end

-----------------------------------------------------------------------------
(* A minor collection.  h.mem is the memory, h.shadow the first free page of  *)
(* the shadow half, and words is the list of words a root or an object holds. *)

Heaps == [mem : Memories, shadow : Pages]

\* One word: an object that is not yet copied is claimed, its fields are
\* collected, and then copied.
YGVisit(collect, start, end, acc, word) ==
  LET h == acc.h
      claimed == [mem |-> [h.mem EXCEPT ![h.shadow] = h.mem[word], ![word].marked = TRUE,
                                        ![word].vmt = h.shadow],
                  shadow |-> h.shadow + h.mem[word].pages]
      fields == collect[claimed][h.mem[word].fields]
  IN IF ~Within(word, start, end) THEN [h |-> h, words |-> Append(acc.words, word)]
     ELSE IF h.mem[word].marked THEN [h |-> h, words |-> Append(acc.words, h.mem[word].vmt)]
     ELSE [h |-> [fields.h EXCEPT !.mem[h.shadow].fields = fields.words],
           words |-> Append(acc.words, h.shadow)]

YGVisits(collect, start, end, h, words) ==
  LET visit[n \in 0 .. Len(words)] ==
        IF n = 0 THEN [h |-> h, words |-> <<>>]
        ELSE YGVisit(collect, start, end, visit[n - 1], words[n])
  IN visit

YGCollects(start, end) ==
  LET collect[depth \in 0 .. MaxDepth] ==
        [h \in Heaps |-> [words \in Words |->
           IF depth = 0 THEN [h |-> h, words |-> words]
           ELSE YGVisits(collect[depth - 1], start, end, h, words)[Len(words)]]]
  IN collect

YGCollect(t, h, words) == YGCollects(t.gc_yg_start, t.gc_yg_end)[MaxDepth][h][words]

\* Collects from the fields of an object outside the young generation.
CollectObject(t, h, page) ==
  LET fields == YGCollect(t, h, h.mem[page].fields)
  IN  [fields.h EXCEPT !.mem[page].fields = fields.words]

\* Collects from those of the given objects that are in [from, to), in their order.
CollectObjects(t, h, from, to, objects) ==
  LET collect[p \in from .. to] ==
        IF p = from THEN h
        ELSE IF p - 1 \in objects THEN CollectObject(t, collect[p - 1], p - 1)
        ELSE collect[p - 1]
  IN collect[to]

\* Mutant: a last group of fewer than eight pages is left out.
CardsReadDown(count) == EntrySize * (count \div EntrySize)

\* The cards are read eight at a time.
CardsRead(count) == EntrySize * ((count + EntrySize - 1) \div EntrySize)

CollectMG2YGRoots(t, h) ==
  CollectObjects(t, h, t.gc_mg_start,
                 t.gc_mg_start + CardsRead(t.gc_mg_current - t.gc_mg_start), cards)

\* Mutant: the permanent objects are not looked at.
CollectNoPermRoots(t, h) == h

CollectPermYGRoots(t, h) ==
  CollectObjects(t, h, t.gc_perm_start, t.gc_perm_current,
                 Walk(h.mem, t.gc_perm_start, t.gc_perm_current))

\* The two halves change places.  The half left is never read before it is
\* written, and is cleared here.
SwitchHalves(t, h, words) ==
  [mem |-> [p \in Pages |-> IF t.gc_yg_start <= p /\ p < t.gc_yg_end THEN Zero ELSE h.mem[p]],
   cards |-> cards,
   root |-> words,
   table |-> [t EXCEPT !.gc_yg_current = h.shadow,
                       !.gc_yg_start = t.gc_shadow, !.gc_shadow = t.gc_yg_start,
                       !.gc_yg_end = t.gc_shadow_end, !.gc_shadow_end = t.gc_yg_end]]

\* The permanent area is also pushed as one root of the frames.
MinorCollect ==
  LET roots == YGCollect(table, [mem |-> mem, shadow |-> table.gc_shadow], root)
  IN SwitchHalves(table, CollectPermYGRoots(table, CollectMG2YGRoots(table,
                           CollectPermYGRoots(table, roots.h))), roots.words)

-----------------------------------------------------------------------------
(* A full collection of the state s that a minor one left.  It takes references *)
(* into [start, end): the young and the mature generation, one behind the other. *)

\* Marks what can be reached from words in [start, end).
MGVisit(collect, start, end, m, word) ==
  IF ~Within(word, start, end) \/ m[word].marked THEN m
  ELSE collect[[m EXCEPT ![word].marked = TRUE]][m[word].fields]

MGVisits(collect, start, end, m, words) ==
  LET visit[n \in 0 .. Len(words)] ==
        IF n = 0 THEN m ELSE MGVisit(collect, start, end, visit[n - 1], words[n])
  IN visit

MGCollects(start, end) ==
  LET collect[depth \in 0 .. MaxDepth] ==
        [m \in Memories |-> [words \in Words |->
           IF depth = 0 THEN m
           ELSE MGVisits(collect[depth - 1], start, end, m, words)[Len(words)]]]
  IN collect

MGCollect(t, m, words) == MGCollects(t.gc_yg_start, t.gc_mg_current)[MaxDepth][m][words]

\* The permanent objects are roots, too.
MarkPermanent(t, m) ==
  LET objects == Walk(m, t.gc_perm_start, t.gc_perm_current)
      mark[p \in t.gc_perm_start .. t.gc_perm_current] ==
        IF p = t.gc_perm_start THEN m
        ELSE IF p - 1 \in objects THEN MGCollect(t, mark[p - 1], mark[p - 1][p - 1].fields)
        ELSE mark[p - 1]
  IN mark[t.gc_perm_current]

\* c.ptr walks over the old pages, c.new is where the next live object goes, and
\* c.map is the mapping table.  The loop over what stays in place ends at the
\* first header that is not marked.
SkipPermanent(c) ==
  LET Skipped(d) == [d EXCEPT !.map[d.ptr] = d.ptr, !.ptr = @ + d.mem[d.ptr].pages,
                              !.new = d.ptr + d.mem[d.ptr].pages]
      skip[n \in 0 .. Limit] ==
        IF n = 0 THEN c
        ELSE LET d == skip[n - 1] IN IF d.mem[d.ptr].marked THEN Skipped(d) ELSE d
  IN skip[Limit]

\* memmove of all the pages of an object.
MoveObject(m, new, old, count) ==
  [p \in Pages |-> IF p \in new .. new + count - 1 THEN m[old + p - new] ELSE m[p]]

\* Moves the marked objects of [c.ptr, end) down to c.new.
Compact(c, end) ==
  LET Moved(d, pages) == [ptr |-> d.ptr + pages, new |-> d.new + pages,
                          map |-> [d.map EXCEPT ![d.ptr] = d.new],
                          mem |-> MoveObject(d.mem, d.new, d.ptr, pages)]
      Passed(d, page) == IF page.marked THEN Moved(d, page.pages)
                         ELSE [d EXCEPT !.ptr = @ + page.pages]
      compact[n \in 0 .. Limit] ==
        IF n = 0 THEN c
        ELSE LET d == compact[n - 1] IN IF d.ptr < end THEN Passed(d, d.mem[d.ptr]) ELSE d
  IN compact[Limit]

\* Replaces the references among words by the mapping, and clears the marks.
FixVisit(fix, map, start, end, acc, word) ==
  LET new == map[word]
      fields == fix[[acc.mem EXCEPT ![new].marked = FALSE]][acc.mem[new].fields]
  IN IF ~Within(word, start, end) THEN [mem |-> acc.mem, words |-> Append(acc.words, word)]
     ELSE IF ~acc.mem[new].marked THEN [mem |-> acc.mem, words |-> Append(acc.words, new)]
     ELSE [mem |-> [fields.mem EXCEPT ![new].fields = fields.words],
           words |-> Append(acc.words, new)]

FixVisits(fix, map, start, end, m, words) ==
  LET visit[n \in 0 .. Len(words)] ==
        IF n = 0 THEN [mem |-> m, words |-> <<>>]
        ELSE FixVisit(fix, map, start, end, visit[n - 1], words[n])
  IN visit

FixObjects(map, start, end) ==
  LET fix[depth \in 0 .. MaxDepth] ==
        [m \in Memories |-> [words \in Words |->
           IF depth = 0 THEN [mem |-> m, words |-> words]
           ELSE FixVisits(fix[depth - 1], map, start, end, m, words)[Len(words)]]]
  IN fix

FixObject(t, map, m, words) == FixObjects(map, t.gc_yg_start, t.gc_mg_current)[MaxDepth][m][words]

\* Mutant: the references of permanent objects are left as they are.
FixNoPermanent(t, map, m) == m

\* The same for the permanent objects, which are one root.
FixPermanent(t, map, m) ==
  LET objects == Walk(m, t.gc_perm_start, t.gc_perm_current)
      Fixed(at, page) == LET fields == FixObject(t, map, at, at[page].fields)
                         IN  [fields.mem EXCEPT ![page].fields = fields.words]
      fix[p \in t.gc_perm_start .. t.gc_perm_current] ==
        IF p = t.gc_perm_start THEN m
        ELSE IF p - 1 \in objects THEN Fixed(fix[p - 1], p - 1)
        ELSE fix[p - 1]
  IN fix[t.gc_perm_current]

\* The roots are the frames, the static area and the permanent objects.
MarkRoots(s) == MarkPermanent(s.table, MGCollect(s.table, s.mem, s.root))

\* Compacts the mature generation and promotes the young one behind it.
CompactAndPromote(t, marked) ==
  LET kept == SkipPermanent([mem |-> marked, ptr |-> t.gc_mg_start, new |-> t.gc_mg_start,
                             map |-> [p \in Pages |-> Nil]])
  IN Compact([Compact(kept, t.gc_mg_current) EXCEPT !.ptr = t.gc_yg_start], t.gc_yg_current)

\* The mapping table and the cards are in the same bytes: page i has the byte i
\* as its card and the bytes from 8 i as its entry.  The cards are cleared up to
\* gc_end; below gc_mg_start no card is ever read.
CardsLeft(s, map) ==
  {p \in s.table.gc_end .. Limit - 1 :
     p \in s.cards \/ (p % EntrySize < AddressBytes /\ map[p \div EntrySize] # Nil)}

\* Behind gc_mg_current no more is left of what has been moved than a header, if
\* it is marked.
Remains(t, m, new) ==
  LET Stale(page) == IF page.marked THEN [Zero EXCEPT !.pages = page.pages, !.marked = TRUE]
                     ELSE Zero
  IN [p \in Pages |-> IF p < t.gc_mg_start THEN Zero
                      ELSE IF new <= p /\ p < Limit THEN Stale(m[p]) ELSE m[p]]

\* c is what CompactAndPromote leaves, roots what FixObject makes of the roots.
Finish(s, c, roots) ==
  [mem |-> Remains(s.table, FixPermanent(s.table, c.map, roots.mem), c.new),
   cards |-> CardsLeft(s, c.map),
   root |-> roots.words,
   table |-> [s.table EXCEPT !.gc_mg_current = c.new, !.gc_yg_current = s.table.gc_yg_start]]

FullCollect(s) ==
  LET c == CompactAndPromote(s.table, MarkRoots(s))
  IN  Finish(s, c, FixObject(s.table, c.map, c.mem, s.root))

-----------------------------------------------------------------------------
(* GCRoutine.                                                                 *)

\* How many times the heap is grown until the mature generation has room for size
\* pages, or until ExpandHeap fails because more than most pages are asked for.
Increments(t, size, most) ==
  LET End(k) == t.gc_end + k * HeapInc
      Enough(k) == Minus(End(k), t.gc_mg_current) >= size \/ End(k) + HeapInc > most
  IN CHOOSE k \in 0 .. Limit : Enough(k) /\ \A j \in 0 .. k - 1 : ~Enough(j)

Expand(t, size, most) == [t EXCEPT !.gc_end = @ + Increments(t, size, most) * HeapInc]

\* The state after an allocation of size pages where table.field points, with
\* the address of the object, or Nil for none.
Give(state, field, size) ==
  [state |-> [state EXCEPT !.table[field] = @ + size],
   given |-> IF size = 0 THEN Nil ELSE state.table[field]]

\* Grows the heap for the promotion of the young generation, without a look at
\* whether ExpandHeap has failed.
ExpandForPromotion(s) ==
  [s EXCEPT !.table = Expand(@, @.gc_yg_current - @.gc_yg_start, WordSize)]

\* Allocates in the mature generation, which has been grown if it could be.
AllocateMature(s, size) ==
  IF Minus(s.table.gc_end, s.table.gc_mg_current) < size
  THEN [state |-> s, given |-> Nil]
  ELSE Give(s, "gc_mg_current", size)

\* After a full collection.
Allocate(s, size) ==
  IF size = 0 \/ Minus(s.table.gc_yg_end, s.table.gc_yg_current) >= size
  THEN Give(s, "gc_yg_current", size)
  ELSE AllocateMature([s EXCEPT !.table = Expand(@, size, Limit)], size)

\* The state after a collection for an object of size pages (0 for none), with
\* the address of the object, or Nil when the memory is exhausted.
GCRoutine(size, fullMode) ==
  LET After(s) ==
        IF Minus(s.table.gc_yg_end, s.table.gc_yg_current) < size \/ fullMode
        THEN Allocate(FullCollect(ExpandForPromotion(s)), size)
        ELSE Give(s, "gc_yg_current", size)
  IN After(MinorCollect)

Now == [mem |-> mem, cards |-> cards, root |-> root, table |-> table]

\* Mutant: the size is not added before the comparison.
GC_ALLOCUnchecked(size) ==
  IF table.gc_yg_current < table.gc_yg_end THEN Give(Now, "gc_yg_current", size)
  ELSE GCRoutine(size, FALSE)

\* GC_ALLOC: from the young generation if it fits below the end, otherwise by
\* the collector.
GC_ALLOC(size) ==
  IF table.gc_yg_current + size < table.gc_yg_end THEN Give(Now, "gc_yg_current", size)
  ELSE GCRoutine(size, FALSE)

\* GC_ALLOCPERM and GCRoutinePerm: the permanent area grows as needed.
GC_ALLOCPERM(size) == Give(Now, "gc_perm_current", size)

-----------------------------------------------------------------------------
(* The program.                                                               *)

\* The objects reached from a set of objects by up to n references, for every
\* n, and by any number of them.
Reaches(m, found) ==
  LET reach[n \in 0 .. PermStart + PermSize] ==
        IF n = 0 THEN found
        ELSE reach[n - 1] \cup UNION {ToSet(m[p].fields) \cap Pages : p \in reach[n - 1]}
  IN reach

Reach(m, found) ==
  LET reach == Reaches(m, found)
  IN reach[CHOOSE n \in 0 .. PermStart + PermSize - 1 : reach[n + 1] = reach[n]]

PermObjects == Walk(mem, table.gc_perm_start, table.gc_perm_current)
Live == Reach(mem, (ToSet(root) \cap Pages) \cup PermObjects)
Identities == {mem[p].vmt : p \in Live}

\* What the instruction that creates an object does with the memory it is given:
\* the header is written and the object filled with nil.  When the memory is exhausted an
\* exception is raised and nothing is created.
Create(a, r, shape, o) ==
  LET header == [pages |-> shape.pages, marked |-> FALSE, vmt |-> o,
                 fields |-> [i \in 1 .. shape.fields |-> Nil]]
      Written(p) == p \in a.given .. a.given + shape.pages - 1
  IN IF a.given = Nil THEN a.state
     ELSE [a.state EXCEPT !.mem = [p \in Pages |-> IF p = a.given THEN header
                                                  ELSE IF Written(p) THEN Zero ELSE @[p]],
                          !.root[r] = a.given]

Become(s) ==
  /\ s.table.gc_end <= Limit
  /\ s.table.gc_mg_current <= Limit
  /\ mem' = s.mem
  /\ cards' = s.cards
  /\ table' = s.table
  /\ root' = s.root

\* newir, newnr, createnr: an object with an identity of its own.
New(r, shape) ==
  \E o \in Objects \ Identities : Become(Create(GC_ALLOC(shape.pages), r, shape, o))

\* xcreater.
NewPermanent(r, shape) ==
  /\ table.gc_perm_current + shape.pages <= PermStart + PermSize
  /\ \E o \in Objects \ Identities :
       Become(Create(GC_ALLOCPERM(shape.pages), r, shape, o))

\* Mutant: an assignment without the write barrier.
AssignWithoutBarrier(r, i, v) ==
  /\ root[r] # Nil
  /\ i \in DOMAIN mem[root[r]].fields
  /\ mem' = [mem EXCEPT ![root[r]].fields[i] = root[v]]
  /\ UNCHANGED <<cards, table, root>>

\* assign, with the write barrier; for a permanent object the xassign of
\* __perm_array_set and __perm_array_clear.  No card below gc_mg_start is read.
Assign(r, i, v) ==
  /\ root[r] # Nil
  /\ i \in DOMAIN mem[root[r]].fields
  /\ mem' = [mem EXCEPT ![root[r]].fields[i] = root[v]]
  /\ cards' = cards \cup ({root[r]} \cap table.gc_mg_start .. Limit - 1)
  /\ UNCHANGED <<table, root>>

\* geti.
Get(r, i, v) ==
  /\ root[r] # Nil
  /\ i \in DOMAIN mem[root[r]].fields
  /\ root' = [root EXCEPT ![v] = mem[root[r]].fields[i]]
  /\ UNCHANGED <<mem, cards, table>>

\* A frame is left or a static is set to nil.
Drop(r) ==
  /\ root' = [root EXCEPT ![r] = Nil]
  /\ UNCHANGED <<mem, cards, table>>

\* system 1 and system 2.
Collect(fullMode) == Become(GCRoutine(0, fullMode).state)

Next ==
  \/ \E r \in Roots, shape \in Shapes : New(r, shape)
  \/ \E r \in Roots, shape \in Shapes : NewPermanent(r, shape)
  \/ \E r, v \in Roots : \E i \in 1 .. MaxFields : Assign(r, i, v)
  \/ \E r, v \in Roots : \E i \in 1 .. MaxFields : Get(r, i, v)
  \/ \E r \in Roots : Drop(r)
  \/ \E fullMode \in BOOLEAN : Collect(fullMode)

Spec == Init /\ [][Next]_vars

-----------------------------------------------------------------------------
(* Properties.                                                                *)

\* What the program sees of an address.
Identity(p) == IF p = Nil THEN NoObject ELSE mem[p].vmt

\* The reachable objects by their identity: their size and what they refer to.
Contents ==
  LET live == Live
      Content(p) == [pages |-> mem[p].pages,
                     fields |-> [i \in DOMAIN mem[p].fields |-> Identity(mem[p].fields[i])]]
      Named(o) == {p \in live : mem[p].vmt = o}
  IN [o \in Objects |-> IF Named(o) = {} THEN Forgotten
                         ELSE Content(CHOOSE p \in Named(o) : TRUE)]

\* The collector never shows: the program works on a graph of objects in which
\* no reachable object is lost, split in two, or has one of its references or
\* its size changed, however objects are copied, promoted and compacted.
Graph == INSTANCE ObjectGraph WITH
  refers <- [r \in Roots |-> Identity(root[r])],
  permanent <- {mem[p].vmt : p \in PermObjects},
  content <- Contents

ImplementsObjectGraph == Graph!Spec

TypeOK ==
  /\ \A p \in Pages : /\ mem[p].pages \in Nat \ {0}
                      /\ mem[p].marked \in BOOLEAN
                      /\ mem[p].vmt \in Objects \cup {NoObject}
                      /\ ToSet(mem[p].fields) \subseteq Pages \cup {Nil}
  /\ cards \subseteq table.gc_mg_start .. Limit - 1
  /\ {<<table.gc_yg_start, table.gc_yg_end>>, <<table.gc_shadow, table.gc_shadow_end>>}
       = {<<0, YGSize>>, <<YGSize, 2 * YGSize>>}
  /\ table.gc_yg_current \in table.gc_yg_start .. table.gc_yg_end
  /\ table.gc_mg_start = 2 * YGSize
  /\ {table.gc_mg_current, table.gc_end} \subseteq table.gc_mg_start .. Limit
  /\ table.gc_perm_current \in PermStart .. PermStart + PermSize
  /\ DOMAIN root = Roots
  /\ ToSet(root) \subseteq Pages \cup {Nil}

\* Every reachable object is one that the linear walks of the collector find in
\* the part in use of a generation, it carries no mark of an earlier collection,
\* and no other object is taken for it.
LiveObjectsInPlace ==
  LET t == table
      walked == Walk(mem, t.gc_yg_start, t.gc_yg_current)
                \cup Walk(mem, t.gc_mg_start, t.gc_mg_current) \cup PermObjects
  IN \A p \in Live : /\ p \in walked
                     /\ ~mem[p].marked
                     /\ \A q \in Live : mem[q].vmt = mem[p].vmt => q = p

\* A minor collection finds every reference from the mature to the young
\* generation: the card of the object that holds it is set.
CardsComplete ==
  \A p \in Live : (table.gc_mg_start <= p /\ p < table.gc_mg_current) =>
    (p \in cards \/ \A q \in ToSet(mem[p].fields) :
                       ~(table.gc_yg_start <= q /\ q < table.gc_yg_end))

\* The mature generation ends within the memory committed for it.
MatureInBounds == table.gc_mg_current <= table.gc_end
=============================================================================
