--------------------------- MODULE PermVectorTable ---------------------------
(***************************************************************************)
(* The table of permanent roots, src/src60/system/runtime/vectortable.l: a *)
(* chain of arrays whose cells hold objects that foreign code refers to.   *)
(* A cell is allocated for the object and cleared when it is released.     *)
(*                                                                         *)
(* An allocation is two steps, for nothing locks the table: it chooses a   *)
(* cell, and it fills the cell.  Chain items are numbered in the order of  *)
(* their creation.                                                         *)
(***************************************************************************)
EXTENDS Integers, Sequences, FiniteSets

CONSTANTS
  Callers,   \* the threads that use the table
  Clients,   \* thread handles and forms: each registers an object once
  Objects,
  Registers, \* the object a client registers; two may register the same one
  Nil,
  Length,    \* the length of an array
  MaxItems   \* bound: the chain items of a behaviour

ASSUME NilAssumption == Nil \notin Objects \cup Clients
ASSUME RegistersAssumption == Registers \in [Clients -> Objects]
ASSUME LengthAssumption == Length \in Nat \ {0}

Cells == 0 .. Length - 1

VARIABLES
  array,     \* each item: Array
  free,      \* each item: Free
  current,   \* each item: Current
  next,      \* each item: Next, 0 for none
  first,     \* _firstChainItem, 0 for none
  chainItem, \* _chainItem, 0 for none
  pc, client, item, index,  \* each caller: "idle" or "fill", for whom, and the cell
  pointer    \* the cell a client holds a pointer to, or Nil

tableVars == <<array, free, current, next, first, chainItem>>
callVars == <<pc, client, item, index>>
vars == <<tableVars, callVars, pointer>>

Items == 1 .. Len(array)

Init ==
  /\ array = <<>> /\ free = <<>> /\ current = <<>> /\ next = <<>>
  /\ first = 0 /\ chainItem = 0
  /\ pc = [c \in Callers |-> "idle"]
  /\ client = [c \in Callers |-> Nil]
  /\ item = [c \in Callers |-> 0]
  /\ index = [c \in Callers |-> 0]
  /\ pointer = [k \in Clients |-> Nil]

Empty(a) == {x \in Cells : a[x] = Nil}

\* The items a walk from _firstChainItem passes
Chain == {i \in Items : first # 0 /\ \A S \in SUBSET Items :
  (first \in S /\ \A j \in S : next[j] = 0 \/ next[j] \in S) => i \in S}

\* Next is given to an item when it is created: a walk goes from younger to
\* older items, and i is the first of some items it passes.
IsYoungest(i, items) == i \in items /\ \A j \in items : j <= i
IsOldest(i, items) == i \in items /\ \A j \in items : i <= j

-----------------------------------------------------------------------------
(* allocate: choose a cell *)

\* PermVectorTable.isAvailable
isAvailable == chainItem # 0 /\ free[chainItem] > 0

\* rearrange counts the empty cells of the items it passes
WithEmpty == {i \in Chain : Empty(array[i]) # {}}
FreeRearranged(walked) ==
  [i \in Items |-> IF i \in walked THEN Cardinality(Empty(array[i])) ELSE free[i]]
CurrentRearranged(walked) ==
  [i \in Items |-> IF i \in walked THEN 0 ELSE current[i]]

\* Mutant: the cell at Current is taken as it is
ScanNothing(a, from, x) == x = from

\* while (Array[index] != nil) index++, from Current, ends at x; Length is
\* outside the array.
ScanEnds(a, from, x) ==
  /\ x >= from
  /\ x \in Cells => a[x] = Nil
  /\ \A y \in Cells : from <= y /\ y < x => a[y] # Nil

\* c is going to fill a cell of item i for client k
Found(c, k, i) ==
  /\ chainItem' = i
  /\ pc' = [pc EXCEPT ![c] = "fill"]
  /\ client' = [client EXCEPT ![c] = k]
  /\ item' = [item EXCEPT ![c] = i]
  /\ \E x \in 0 .. Length :
       ScanEnds(array'[i], current'[i], x) /\ index' = [index EXCEPT ![c] = x]
  /\ UNCHANGED pointer

\* c runs the constructor of a new client
Begins(c, k) ==
  /\ pc[c] = "idle"
  /\ pointer[k] = Nil
  /\ \A d \in Callers : pc[d] = "fill" => client[d] # k

\* The item used last has free cells
AllocateHere(c, k) ==
  /\ Begins(c, k)
  /\ isAvailable
  /\ UNCHANGED <<array, free, current, next, first>>
  /\ Found(c, k, chainItem)

\* rearrange stops at the first item with an empty cell
AllocateRearranged(c, k) ==
  /\ Begins(c, k)
  /\ ~isAvailable
  /\ \E i \in WithEmpty :
       LET walked == {j \in Chain : j >= i}
       IN /\ IsYoungest(i, WithEmpty)
          /\ free' = FreeRearranged(walked)
          /\ current' = CurrentRearranged(walked)
          /\ UNCHANGED <<array, next, first>>
          /\ Found(c, k, i)

\* rearrange has found none: a new item, in front of the oldest
AllocateNew(c, k) ==
  /\ Begins(c, k)
  /\ ~isAvailable
  /\ WithEmpty = {}
  /\ Len(array) < MaxItems
  /\ array' = Append(array, [x \in Cells |-> Nil])
  /\ free' = Append(FreeRearranged(Chain), Length)
  /\ current' = Append(CurrentRearranged(Chain), 0)
  /\ \/ first = 0 /\ next' = Append(next, 0) /\ first' = Len(array) + 1
     \/ /\ first # 0
        /\ \E i \in Chain : IsOldest(i, Chain) /\ next' = Append(next, i)
        /\ UNCHANGED first
  /\ Found(c, k, Len(array) + 1)

\* PermVectorChain.allocate, from the assignment of the cell on
Fill(c) ==
  LET i == item[c]
  IN /\ pc[c] = "fill"
     /\ index[c] \in Cells
     /\ array' = [array EXCEPT ![i][index[c]] = Registers[client[c]]]
     /\ current' = [current EXCEPT ![i] = index[c] + 1]
     /\ free' = [free EXCEPT ![i] = @ - 1]
     /\ pointer' = [pointer EXCEPT ![client[c]] = <<i, index[c]>>]
     /\ pc' = [pc EXCEPT ![c] = "idle"]
     /\ UNCHANGED <<next, first, chainItem, client, item, index>>

-----------------------------------------------------------------------------
(* release *)

\* Mutant: a removed object is counted as a free cell
FreeAfterRemove(i) == [free EXCEPT ![i] = @ + 1]

\* Mutant: a removed object is counted as a used cell
FreeReduced(i) == [free EXCEPT ![i] = @ - 1]

\* PermVectorChain.remove clears the cell and counts nothing
FreeAfter(i) == free

Holding(o) == {i \in Chain : \E x \in Cells : array[i][x] = o}

\* indexOf finds the first cell that holds the object, in the first item that has
\* one, whatever cell the client has
Release(c, k) ==
  /\ pc[c] = "idle"
  /\ pointer[k] # Nil
  /\ pointer' = [pointer EXCEPT ![k] = Nil]
  /\ LET o == Registers[k]
     IN \/ Holding(o) = {} /\ UNCHANGED <<array, free>>
        \/ \E i \in Holding(o), x \in Cells :
             /\ IsYoungest(i, Holding(o))
             /\ array[i][x] = o /\ \A y \in Cells : array[i][y] = o => x <= y
             /\ array' = [array EXCEPT ![i][x] = Nil]
             /\ free' = FreeAfter(i)
  /\ UNCHANGED <<current, next, first, chainItem, callVars>>

Next == \E c \in Callers :
  \/ Fill(c)
  \/ \E k \in Clients :
       AllocateHere(c, k) \/ AllocateRearranged(c, k) \/ AllocateNew(c, k) \/ Release(c, k)

Spec == Init /\ [][Next]_vars

-----------------------------------------------------------------------------
\* Type invariant.
TypeOK ==
  /\ array \in Seq([Cells -> Objects \cup {Nil}])
  /\ free \in Seq(Nat) /\ current \in Seq(0 .. Length) /\ next \in Seq(Nat)
  /\ Len(free) = Len(array) /\ Len(current) = Len(array) /\ Len(next) = Len(array)
  /\ first \in {0} \cup Items /\ chainItem \in {0} \cup Items
  /\ pc \in [Callers -> {"idle", "fill"}]
  /\ client \in [Callers -> Clients \cup {Nil}]
  /\ item \in [Callers -> {0} \cup Items]
  /\ index \in [Callers -> 0 .. Length]
  /\ pointer \in [Clients -> {Nil} \cup (Items \X Cells)]

\* The scan for an empty cell ends in the array: the counters Free and Current
\* promise one, although releases change the cells and not the counters.
ScanInArray == \A c \in Callers : pc[c] = "fill" => index[c] \in Cells

\* A client's object stays a root: at least as many cells hold it as clients have
\* registered it, also when one of them has released it.
StaysRooted ==
  \A o \in Objects :
    Cardinality({k \in Clients : pointer[k] # Nil /\ Registers[k] = o})
      <= Cardinality({p \in Items \X Cells : array[p[1]][p[2]] = o})
=============================================================================
