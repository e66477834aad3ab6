----------------------- MODULE PermVectorTable_proofs -----------------------
(***************************************************************************)
(* Proofs about PermVectorTable for every length of the arrays and every   *)
(* number of clients and items: as long as calls follow one another, an    *)
(* allocation finds its cell.                                              *)
(***************************************************************************)
EXTENDS PermVectorTable, FiniteSetTheorems, SequenceTheorems, TLAPS

\* The empty cells a scan can still reach
Ahead(a, from) == {x \in Empty(a) : x >= from}

\* Free promises no more cells than a scan from Current finds.
FreeIsAhead ==
  \A i \in Items : free[i] <= Cardinality(Ahead(array[i], current[i]))

\* The cell a caller has chosen is empty, and no cell is empty between Current
\* and it.
ChosenIsEmpty ==
  \A c \in Callers : pc[c] = "fill" =>
    /\ item[c] \in Items /\ index[c] \in Cells /\ client[c] \in Clients
    /\ free[item[c]] > 0
    /\ array[item[c]][index[c]] = Nil
    /\ index[c] >= current[item[c]]
    /\ \A y \in Cells : current[item[c]] <= y /\ y < index[c] => array[item[c]][y] # Nil

TableInv == TypeOK /\ FreeIsAhead /\ ChosenIsEmpty

\* Calls follow one another.
OneCaller == \A c, d \in Callers : c = d

-----------------------------------------------------------------------------
(* Counting empty cells *)

\* The cells a scan can reach are finitely many.
LEMMA AheadFinite ==
  ASSUME NEW a, NEW from
  PROVE  /\ IsFiniteSet(Ahead(a, from)) /\ IsFiniteSet(Empty(a))
         /\ Cardinality(Ahead(a, from)) \in Nat /\ Cardinality(Empty(a)) \in Nat
<1>1. IsFiniteSet(Cells)
  BY FS_Interval, LengthAssumption DEF Cells
<1>2. Empty(a) \subseteq Cells /\ Ahead(a, from) \subseteq Cells
  BY DEF Empty, Ahead
<1>3. IsFiniteSet(Empty(a)) /\ IsFiniteSet(Ahead(a, from))
  BY <1>1, <1>2, FS_Subset
<1> QED
  BY <1>3, FS_CardinalityType

\* From the start every empty cell is ahead.
LEMMA AllAhead ==
  ASSUME NEW a
  PROVE  Ahead(a, 0) = Empty(a)
BY LengthAssumption DEF Ahead, Empty, Cells

\* A scan that has a free cell in front of it ends in the array.
LEMMA ScanFinds ==
  ASSUME NEW a, NEW from, NEW x \in 0 .. Length, ScanEnds(a, from, x),
         NEW n \in Nat, n > 0, n <= Cardinality(Ahead(a, from))
  PROVE  x \in Cells
<1>1. SUFFICES ASSUME x \notin Cells PROVE FALSE
  OBVIOUS
<1>2. x = Length
  BY <1>1, LengthAssumption DEF Cells
<1>3. \A y \in Cells : y < Length
  BY LengthAssumption DEF Cells
<1>4. ASSUME NEW y \in Ahead(a, from) PROVE FALSE
  <2>1. y \in Cells /\ a[y] = Nil /\ y >= from
    BY <1>4 DEF Ahead, Empty
  <2>2. y < x
    BY <2>1, <1>2, <1>3
  <2>3. from <= y => a[y] # Nil
    BY <2>1, <2>2 DEF ScanEnds
  <2> QED
    BY <2>1, <2>3
<1>5. Ahead(a, from) = {}
  BY <1>4
<1>6. Cardinality(Ahead(a, from)) = 0
  BY <1>5, FS_EmptySet
<1> QED
  BY <1>6

\* Filling the cell where the scan ended uses up one of the cells ahead.
LEMMA FillCounts ==
  ASSUME NEW a, DOMAIN a = Cells, NEW from \in Int, NEW x \in Cells, NEW o, o # Nil,
         a[x] = Nil, x >= from, \A y \in Cells : from <= y /\ y < x => a[y] # Nil
  PROVE  Cardinality(Ahead([a EXCEPT ![x] = o], x + 1)) = Cardinality(Ahead(a, from)) - 1
<1> DEFINE b == [a EXCEPT ![x] = o]
<1>1. x \in Ahead(a, from)
  BY DEF Ahead, Empty
<1>2. \A y \in Cells : y \in Int
  BY DEF Cells
<1>3. ASSUME NEW y PROVE y \in Ahead(b, x + 1) <=> y \in Ahead(a, from) \ {x}
  <2>1. CASE y \notin Cells
    BY <2>1 DEF Ahead, Empty
  <2>2. CASE y \in Cells /\ y = x
    BY <2>2, <1>2 DEF Ahead, Empty
  <2>3. CASE y \in Cells /\ y < x
    BY <2>3, <1>2 DEF Ahead, Empty
  <2>4. CASE y \in Cells /\ y > x
    <3>1. b[y] = a[y]
      BY <2>4, <1>2
    <3> QED
      BY <3>1, <2>4, <1>2 DEF Ahead, Empty
  <2> QED
    BY <2>1, <2>2, <2>3, <2>4, <1>2
<1>4. Ahead(b, x + 1) = Ahead(a, from) \ {x}
  BY <1>3
<1> QED
  BY <1>1, <1>4, AheadFinite, FS_RemoveElement

\* Clearing a cell takes no empty cell away.
LEMMA ClearCounts ==
  ASSUME NEW a, DOMAIN a = Cells, NEW x \in Cells, NEW from
  PROVE  Cardinality(Ahead(a, from)) <= Cardinality(Ahead([a EXCEPT ![x] = Nil], from))
<1>1. Ahead(a, from) \subseteq Ahead([a EXCEPT ![x] = Nil], from)
  BY DEF Ahead, Empty
<1> QED
  BY <1>1, AheadFinite, FS_Subset

-----------------------------------------------------------------------------
(* The steps *)

LEMMA TableInitInv == Init => TableInv
<1> SUFFICES ASSUME Init PROVE TableInv
  OBVIOUS
<1>1. Len(array) = 0 /\ Items = {}
  BY DEF Init, Items
<1>2. TypeOK
  <2>1. array \in Seq([Cells -> Objects \cup {Nil}]) /\ free \in Seq(Nat) /\ current \in Seq(0 .. Length)
        /\ Len(free) = 0 /\ Len(current) = 0 /\ Len(next) = 0 /\ next \in Seq(Nat)
    BY DEF Init
  <2> QED
    BY <1>1, <2>1, LengthAssumption DEF Init, TypeOK
<1>3. FreeIsAhead /\ ChosenIsEmpty
  BY <1>1 DEF Init, FreeIsAhead, ChosenIsEmpty
<1> QED
  BY <1>2, <1>3 DEF TableInv

\* The types of what belongs to one item.
LEMMA TypedItem ==
  ASSUME TypeOK, NEW i \in Items
  PROVE  free[i] \in Nat /\ current[i] \in 0 .. Length /\ array[i] \in [Cells -> Objects \cup {Nil}]
<1>1. i \in 1 .. Len(free) /\ i \in 1 .. Len(current) /\ i \in 1 .. Len(array)
  BY DEF TypeOK, Items
<1>2. array \in Seq([Cells -> Objects \cup {Nil}]) /\ free \in Seq(Nat) /\ current \in Seq(0 .. Length)
  BY DEF TypeOK
<1> QED
  BY <1>1, <1>2, ElementOfSeq

LEMMA TypedItemNext ==
  ASSUME TypeOK', NEW i \in Items'
  PROVE  free'[i] \in Nat /\ current'[i] \in 0 .. Length
<1>1. i \in 1 .. Len(free') /\ i \in 1 .. Len(current')
  BY DEF TypeOK, Items
<1>2. free' \in Seq(Nat) /\ current' \in Seq(0 .. Length)
  BY DEF TypeOK
<1> QED
  BY <1>1, <1>2, ElementOfSeq

\* A caller that goes on to fill a cell has chosen an empty one.
LEMMA FoundInv ==
  ASSUME OneCaller, TypeOK', FreeIsAhead',
         NEW c \in Callers, NEW k \in Clients, NEW i \in 1 .. Len(array'),
         TypeOK, free'[i] > 0, Found(c, k, i)
  PROVE  ChosenIsEmpty'
<1>1. PICK x \in 0 .. Length :
        ScanEnds(array'[i], current'[i], x) /\ index' = [index EXCEPT ![c] = x]
  BY DEF Found
<1>2. i \in Items' /\ free'[i] \in Nat /\ current'[i] \in 0 .. Length
  <2>1. i \in Items'
    BY DEF Items
  <2> QED
    BY <2>1, TypedItemNext
<1>3. free'[i] <= Cardinality(Ahead(array'[i], current'[i]))
  BY <1>2 DEF FreeIsAhead
<1>4. x \in Cells
  <2>1. PICK a, from, n : a = array'[i] /\ from = current'[i] /\ n = free'[i]
    OBVIOUS
  <2>2. ScanEnds(a, from, x)
    BY <2>1, <1>1
  <2>3. n \in Nat /\ n > 0 /\ n <= Cardinality(Ahead(a, from))
    BY <2>1, <1>2, <1>3
  <2> QED
    BY <2>2, <2>3, ScanFinds
<1>5. index'[c] = x /\ item'[c] = i /\ client'[c] = k
  BY <1>1 DEF Found, TypeOK
<1>6. /\ array'[i][x] = Nil /\ x >= current'[i]
      /\ \A y \in Cells : current'[i] <= y /\ y < x => array'[i][y] # Nil
  BY <1>1, <1>4 DEF ScanEnds
<1>7. \A d \in Callers : d = c
  BY DEF OneCaller
<1> QED
  BY <1>2, <1>4, <1>5, <1>6, <1>7 DEF ChosenIsEmpty

\* What rearrange does to the counters of the items it passes keeps them right.
LEMMA RearrangeInv ==
  ASSUME TypeOK, FreeIsAhead, NEW walked
  PROVE  /\ FreeRearranged(walked) \in Seq(Nat) /\ CurrentRearranged(walked) \in Seq(0 .. Length)
         /\ Len(FreeRearranged(walked)) = Len(array) /\ Len(CurrentRearranged(walked)) = Len(array)
         /\ \A i \in Items : FreeRearranged(walked)[i]
                               <= Cardinality(Ahead(array[i], CurrentRearranged(walked)[i]))
<1>1. Len(array) \in Nat /\ Items = 1 .. Len(array)
  BY DEF TypeOK, Items
<1>2. ASSUME NEW i \in Items
      PROVE  /\ FreeRearranged(walked)[i] \in Nat /\ CurrentRearranged(walked)[i] \in 0 .. Length
             /\ FreeRearranged(walked)[i] <= Cardinality(Ahead(array[i], CurrentRearranged(walked)[i]))
  <2>1. CASE i \in walked
    <3>1. FreeRearranged(walked)[i] = Cardinality(Empty(array[i])) /\ CurrentRearranged(walked)[i] = 0
      BY <2>1 DEF FreeRearranged, CurrentRearranged
    <3>2. Cardinality(Empty(array[i])) \in Nat
      BY AheadFinite
    <3>3. Ahead(array[i], 0) = Empty(array[i])
      BY AllAhead
    <3> QED
      BY <3>1, <3>2, <3>3, LengthAssumption
  <2>2. CASE i \notin walked
    <3>1. FreeRearranged(walked)[i] = free[i] /\ CurrentRearranged(walked)[i] = current[i]
      BY <2>2 DEF FreeRearranged, CurrentRearranged
    <3>2. free[i] \in Nat /\ current[i] \in 0 .. Length
      BY TypedItem
    <3>3. free[i] <= Cardinality(Ahead(array[i], current[i]))
      BY DEF FreeIsAhead
    <3> QED
      BY <3>1, <3>2, <3>3
  <2> QED
    BY <2>1, <2>2
<1>3. /\ FreeRearranged(walked) = [i \in 1 .. Len(array) |-> FreeRearranged(walked)[i]]
      /\ CurrentRearranged(walked) = [i \in 1 .. Len(array) |-> CurrentRearranged(walked)[i]]
  BY <1>1 DEF FreeRearranged, CurrentRearranged
<1>4. /\ FreeRearranged(walked) \in [1 .. Len(array) -> Nat]
      /\ CurrentRearranged(walked) \in [1 .. Len(array) -> 0 .. Length]
  BY <1>1, <1>2, <1>3
<1>5. /\ FreeRearranged(walked) \in Seq(Nat) /\ CurrentRearranged(walked) \in Seq(0 .. Length)
  BY <1>1, <1>4, SeqDef
<1>6. Len(FreeRearranged(walked)) = Len(array) /\ Len(CurrentRearranged(walked)) = Len(array)
  <2>1. /\ DOMAIN FreeRearranged(walked) = 1 .. Len(array)
        /\ DOMAIN CurrentRearranged(walked) = 1 .. Len(array)
    BY <1>4
  <2> QED
    BY <1>1, <1>5, <2>1, LenProperties
<1> QED
  BY <1>2, <1>5, <1>6

\* What a step that begins an allocation keeps: the cells and the pointers.
LEMMA BeginTyped ==
  ASSUME TypeOK, NEW c \in Callers, NEW k \in Clients, NEW i \in 1 .. Len(array'), Found(c, k, i)
  PROVE  /\ chainItem' = i
         /\ pc' \in [Callers -> {"idle", "fill"}]
         /\ client' \in [Callers -> Clients \cup {Nil}]
         /\ index' \in [Callers -> 0 .. Length]
         /\ pointer' = pointer
         /\ item' = [item EXCEPT ![c] = i]
BY DEF Found, TypeOK

LEMMA AllocateHereInv ==
  ASSUME TableInv, OneCaller, NEW c \in Callers, NEW k \in Clients, AllocateHere(c, k)
  PROVE  TableInv'
<1>1. TypeOK /\ FreeIsAhead
  BY DEF TableInv
<1>2. /\ array' = array /\ free' = free /\ current' = current /\ next' = next /\ first' = first
      /\ Found(c, k, chainItem) /\ chainItem # 0 /\ free[chainItem] > 0
  BY DEF AllocateHere, isAvailable
<1>3. chainItem \in 1 .. Len(array') /\ Items' = Items
  BY <1>1, <1>2 DEF TypeOK, Items
<1>4. PICK i \in 1 .. Len(array') : i = chainItem
  BY <1>3
<1>5. Found(c, k, i) /\ free'[i] > 0
  BY <1>2, <1>4
<1>6. TypeOK'
  <2>1. /\ chainItem' = i /\ pc' \in [Callers -> {"idle", "fill"}]
        /\ client' \in [Callers -> Clients \cup {Nil}] /\ index' \in [Callers -> 0 .. Length]
        /\ pointer' = pointer /\ item' = [item EXCEPT ![c] = i]
    BY <1>1, <1>5, BeginTyped
  <2>2. i \in Items /\ item' \in [Callers -> {0} \cup Items]
    BY <1>1, <1>3, <1>4, <2>1 DEF TypeOK, Items
  <2> QED
    BY <1>1, <1>2, <1>3, <2>1, <2>2 DEF TypeOK
<1>7. FreeIsAhead'
  BY <1>1, <1>2, <1>3 DEF FreeIsAhead
<1>9. ChosenIsEmpty'
  BY <1>1, <1>5, <1>6, <1>7, FoundInv
<1> QED
  BY <1>6, <1>7, <1>9 DEF TableInv

LEMMA AllocateRearrangedInv ==
  ASSUME TableInv, OneCaller, NEW c \in Callers, NEW k \in Clients, AllocateRearranged(c, k)
  PROVE  TableInv'
<1>1. TypeOK /\ FreeIsAhead
  BY DEF TableInv
<1>2. PICK i, walked :
        /\ i \in WithEmpty /\ walked = {j \in Chain : j >= i}
        /\ free' = FreeRearranged(walked) /\ current' = CurrentRearranged(walked)
        /\ array' = array /\ next' = next /\ first' = first
        /\ Found(c, k, i)
  BY DEF AllocateRearranged
<1>3. i \in Chain /\ i \in Items /\ Empty(array[i]) # {} /\ Items' = Items
  BY <1>2 DEF WithEmpty, Chain, Items
<1>4. i \in 1 .. Len(array')
  BY <1>2, <1>3 DEF Items
<1>5. /\ free' \in Seq(Nat) /\ current' \in Seq(0 .. Length)
      /\ Len(free') = Len(array) /\ Len(current') = Len(array)
      /\ \A j \in Items : free'[j] <= Cardinality(Ahead(array[j], current'[j]))
  BY <1>1, <1>2, RearrangeInv
<1>6. TypeOK'
  <2>1. /\ chainItem' = i /\ pc' \in [Callers -> {"idle", "fill"}]
        /\ client' \in [Callers -> Clients \cup {Nil}] /\ index' \in [Callers -> 0 .. Length]
        /\ pointer' = pointer /\ item' = [item EXCEPT ![c] = i]
    BY <1>1, <1>2, <1>4, BeginTyped
  <2>2. item' \in [Callers -> {0} \cup Items]
    BY <1>1, <1>3, <2>1 DEF TypeOK
  <2> QED
    BY <1>1, <1>2, <1>3, <1>5, <2>1, <2>2 DEF TypeOK
<1>7. FreeIsAhead'
  BY <1>2, <1>3, <1>5 DEF FreeIsAhead
<1>9. free'[i] > 0
  <2>1. i \in walked
    BY <1>2, <1>3 DEF Items, TypeOK
  <2>2. free'[i] = Cardinality(Empty(array[i]))
    BY <1>2, <1>3, <2>1 DEF FreeRearranged
  <2>3. Cardinality(Empty(array[i])) \in Nat /\ Cardinality(Empty(array[i])) # 0
    BY <1>3, AheadFinite, FS_EmptySet
  <2> QED
    BY <2>2, <2>3
<1>10. ChosenIsEmpty'
  BY <1>1, <1>2, <1>4, <1>6, <1>7, <1>9, FoundInv
<1> QED
  BY <1>6, <1>7, <1>10 DEF TableInv

\* A new item has all its cells ahead.
LEMMA NewItemInv ==
  ASSUME TableInv, NEW c \in Callers, NEW k \in Clients, AllocateNew(c, k)
  PROVE  /\ array' \in Seq([Cells -> Objects \cup {Nil}]) /\ free' \in Seq(Nat)
         /\ current' \in Seq(0 .. Length) /\ next' \in Seq(Nat) /\ Len(next') = Len(array) + 1
         /\ Len(array') = Len(array) + 1 /\ Len(free') = Len(array) + 1 /\ Len(current') = Len(array) + 1
         /\ FreeIsAhead'
         /\ \A i \in Items : array'[i] = array[i]
         /\ free'[Len(array) + 1] > 0
<1> DEFINE n == Len(array) + 1
           blank == [x \in Cells |-> Nil]
<1>1. TypeOK /\ FreeIsAhead /\ Len(array) \in Nat /\ Items = 1 .. Len(array)
  BY DEF TableInv, TypeOK, Items
<1>2. PICK walked, f, u :
        /\ walked = Chain /\ f = FreeRearranged(walked) /\ u = CurrentRearranged(walked)
        /\ array' = Append(array, blank) /\ free' = Append(f, Length) /\ current' = Append(u, 0)
        /\ \E y \in Nat : next' = Append(next, y)
  <2>1. \E y \in Nat : next' = Append(next, y)
    <3>1. Chain \subseteq Nat /\ 0 \in Nat
      BY <1>1 DEF Chain
    <3> QED
      BY <3>1 DEF AllocateNew
  <2>2. /\ array' = Append(array, blank) /\ free' = Append(FreeRearranged(Chain), Length)
        /\ current' = Append(CurrentRearranged(Chain), 0)
    BY DEF AllocateNew
  <2> QED
    BY <2>1, <2>2
<1>3. /\ f \in Seq(Nat) /\ u \in Seq(0 .. Length) /\ Len(f) = Len(array) /\ Len(u) = Len(array)
      /\ \A i \in Items : f[i] <= Cardinality(Ahead(array[i], u[i]))
  BY <1>1, <1>2, RearrangeInv
<1>4. array \in Seq([Cells -> Objects \cup {Nil}]) /\ blank \in [Cells -> Objects \cup {Nil}]
  BY <1>1 DEF TypeOK
<1>5. /\ array' \in Seq([Cells -> Objects \cup {Nil}]) /\ Len(array') = n
      /\ \A i \in 1 .. Len(array) : array'[i] = array[i]
      /\ array'[n] = blank
  BY <1>2, <1>4, AppendProperties
<1>6. Length \in Nat /\ Length > 0 /\ 0 \in 0 .. Length
  BY LengthAssumption
<1>7. /\ free' \in Seq(Nat) /\ Len(free') = n
      /\ \A i \in 1 .. Len(array) : free'[i] = f[i]
      /\ free'[n] = Length
  BY <1>2, <1>3, <1>6, AppendProperties
<1>8. /\ current' \in Seq(0 .. Length) /\ Len(current') = n
      /\ \A i \in 1 .. Len(array) : current'[i] = u[i]
      /\ current'[n] = 0
  BY <1>2, <1>3, <1>6, AppendProperties
<1>9. Len(next') = n /\ next' \in Seq(Nat)
  <2>1. Len(next) = Len(array) /\ next \in Seq(Nat)
    BY <1>1 DEF TypeOK
  <2> QED
    BY <1>1, <1>2, <2>1, AppendProperties
<1>10. ASSUME NEW i \in Items' PROVE free'[i] <= Cardinality(Ahead(array'[i], current'[i]))
  <2>1. i \in 1 .. Len(array) \/ i = n
    BY <1>1, <1>5 DEF Items
  <2>2. CASE i \in 1 .. Len(array)
    BY <2>2, <1>1, <1>3, <1>5, <1>7, <1>8
  <2>3. CASE i = n
    <3>1. Ahead(blank, 0) = Cells
      BY LengthAssumption DEF Ahead, Empty, Cells
    <3>2. Cardinality(Cells) = Length
      <4>1. Cardinality(0 .. Length - 1) = IF 0 > Length - 1 THEN 0 ELSE Length - 1 - 0 + 1
        BY <1>6, FS_Interval
      <4> QED
        BY <4>1, <1>6 DEF Cells
    <3>3. Cardinality(Ahead(array'[i], current'[i])) = Length
      BY <2>3, <3>1, <3>2, <1>5, <1>8
    <3> QED
      BY <2>3, <3>3, <1>6, <1>7
  <2> QED
    BY <2>1, <2>2, <2>3
<1>11. FreeIsAhead'
  BY <1>10 DEF FreeIsAhead
<1> QED
  BY <1>1, <1>5, <1>6, <1>7, <1>8, <1>9, <1>11

LEMMA AllocateNewInv ==
  ASSUME TableInv, OneCaller, NEW c \in Callers, NEW k \in Clients, AllocateNew(c, k)
  PROVE  TableInv'
<1>1. TypeOK /\ Len(array) \in Nat /\ Items = 1 .. Len(array)
  BY DEF TableInv, TypeOK, Items
<1>2. /\ array' \in Seq([Cells -> Objects \cup {Nil}]) /\ free' \in Seq(Nat)
      /\ current' \in Seq(0 .. Length) /\ next' \in Seq(Nat) /\ Len(next') = Len(array) + 1
      /\ Len(array') = Len(array) + 1 /\ Len(free') = Len(array) + 1 /\ Len(current') = Len(array) + 1
      /\ FreeIsAhead'
      /\ \A i \in Items : array'[i] = array[i]
      /\ free'[Len(array) + 1] > 0
  BY NewItemInv
<1>3. Items' = 1 .. Len(array) + 1 /\ Items \subseteq Items'
  BY <1>1, <1>2 DEF Items
<1>4. PICK n \in 1 .. Len(array') : n = Len(array) + 1
  BY <1>1, <1>2
<1>5. Found(c, k, n) /\ first' \in {first, n}
  BY <1>4 DEF AllocateNew
<1>6. TypeOK'
  <2>1. /\ chainItem' = n /\ pc' \in [Callers -> {"idle", "fill"}]
        /\ client' \in [Callers -> Clients \cup {Nil}] /\ index' \in [Callers -> 0 .. Length]
        /\ pointer' = pointer /\ item' = [item EXCEPT ![c] = n]
    BY <1>1, <1>5, BeginTyped
  <2>2. n \in Items'
    BY <1>1, <1>3, <1>4
  <2>3. item' \in [Callers -> {0} \cup Items']
    BY <1>1, <1>3, <2>1, <2>2 DEF TypeOK
  <2>4. pointer' \in [Clients -> {Nil} \cup (Items' \X Cells)]
    BY <1>1, <1>3, <2>1 DEF TypeOK
  <2>5. first' \in {0} \cup Items' /\ chainItem' \in {0} \cup Items'
    BY <1>1, <1>3, <1>5, <2>1, <2>2 DEF TypeOK
  <2> QED
    BY <1>1, <1>2, <2>1, <2>3, <2>4, <2>5 DEF TypeOK
<1>8. ChosenIsEmpty'
  BY <1>1, <1>2, <1>4, <1>5, <1>6, FoundInv
<1> QED
  BY <1>2, <1>6, <1>8 DEF TableInv

LEMMA FillInv ==
  ASSUME TableInv, OneCaller, NEW c \in Callers, Fill(c)
  PROVE  TableInv'
<1>1. TypeOK /\ FreeIsAhead /\ ChosenIsEmpty
  BY DEF TableInv
<1>2. PICK i, x, k, o : i = item[c] /\ x = index[c] /\ k = client[c] /\ o = Registers[k]
  OBVIOUS
<1>3. /\ i \in Items /\ x \in Cells /\ k \in Clients /\ o \in Objects /\ free[i] > 0 /\ array[i][x] = Nil
      /\ x >= current[i] /\ \A y \in Cells : current[i] <= y /\ y < x => array[i][y] # Nil
  BY <1>1, <1>2, RegistersAssumption DEF ChosenIsEmpty, Fill
<1>4. /\ array' = [array EXCEPT ![i][x] = o] /\ current' = [current EXCEPT ![i] = x + 1]
      /\ free' = [free EXCEPT ![i] = @ - 1] /\ pointer' = [pointer EXCEPT ![k] = <<i, x>>]
      /\ pc' = [pc EXCEPT ![c] = "idle"]
      /\ UNCHANGED <<next, first, chainItem, client, item, index>>
  BY <1>2 DEF Fill
<1>5. free[i] \in Nat /\ current[i] \in 0 .. Length /\ array[i] \in [Cells -> Objects \cup {Nil}]
  BY <1>1, <1>3, TypedItem
<1>6. i \in 1 .. Len(array) /\ i \in 1 .. Len(free) /\ i \in 1 .. Len(current) /\ Items = 1 .. Len(array)
  BY <1>1, <1>3 DEF TypeOK, Items
<1>7. PICK b, f, u : b = [array[i] EXCEPT ![x] = o] /\ f = free[i] - 1 /\ u = x + 1
  OBVIOUS
<1>8. b \in [Cells -> Objects \cup {Nil}] /\ f \in Nat /\ u \in 0 .. Length
  BY <1>3, <1>5, <1>7, LengthAssumption DEF Cells
<1>9. array' = [array EXCEPT ![i] = b] /\ free' = [free EXCEPT ![i] = f] /\ current' = [current EXCEPT ![i] = u]
  BY <1>4, <1>7
<1>10. /\ array' \in Seq([Cells -> Objects \cup {Nil}]) /\ Len(array') = Len(array)
       /\ \A j \in 1 .. Len(array) : array'[j] = IF j = i THEN b ELSE array[j]
  BY <1>1, <1>6, <1>8, <1>9, ExceptSeq DEF TypeOK
<1>11. /\ free' \in Seq(Nat) /\ Len(free') = Len(free)
       /\ \A j \in 1 .. Len(free) : free'[j] = IF j = i THEN f ELSE free[j]
  BY <1>1, <1>6, <1>8, <1>9, ExceptSeq DEF TypeOK
<1>12. /\ current' \in Seq(0 .. Length) /\ Len(current') = Len(current)
       /\ \A j \in 1 .. Len(current) : current'[j] = IF j = i THEN u ELSE current[j]
  BY <1>1, <1>6, <1>8, <1>9, ExceptSeq DEF TypeOK
<1>13. Items' = Items
  BY <1>10 DEF Items
<1>14. TypeOK'
  <2>1. pointer' \in [Clients -> {Nil} \cup (Items \X Cells)] /\ pc' \in [Callers -> {"idle", "fill"}]
    BY <1>1, <1>3, <1>4 DEF TypeOK
  <2> QED
    BY <1>1, <1>4, <1>10, <1>11, <1>12, <1>13, <2>1 DEF TypeOK
<1>15. FreeIsAhead'
  <2>1. ASSUME NEW j \in Items PROVE free'[j] <= Cardinality(Ahead(array'[j], current'[j]))
    <3>1. CASE j # i
      <4>1. free'[j] = free[j] /\ current'[j] = current[j] /\ array'[j] = array[j]
        BY <3>1, <1>1, <1>6, <1>10, <1>11, <1>12 DEF TypeOK
      <4> QED
        BY <4>1, <1>1 DEF FreeIsAhead
    <3>2. CASE j = i
      <4>1. PICK a, from : a = array[i] /\ from = current[i]
        OBVIOUS
      <4>2. DOMAIN a = Cells /\ from \in Int /\ o # Nil /\ a[x] = Nil /\ x >= from
            /\ \A y \in Cells : from <= y /\ y < x => a[y] # Nil
        BY <4>1, <1>3, <1>5, NilAssumption
      <4>3. Cardinality(Ahead([a EXCEPT ![x] = o], x + 1)) = Cardinality(Ahead(a, from)) - 1
        BY <4>2, <1>3, FillCounts
      <4>4. free[i] <= Cardinality(Ahead(a, from)) /\ Cardinality(Ahead(a, from)) \in Nat
        BY <4>1, <1>1, <1>3, AheadFinite DEF FreeIsAhead
      <4>5. free'[i] = free[i] - 1 /\ current'[i] = x + 1 /\ array'[i] = [a EXCEPT ![x] = o]
        BY <4>1, <1>6, <1>7, <1>10, <1>11, <1>12
      <4> QED
        BY <3>2, <4>3, <4>4, <4>5, <1>5
    <3> QED
      BY <3>1, <3>2
  <2> QED
    BY <2>1, <1>13 DEF FreeIsAhead
<1>16. ChosenIsEmpty'
  <2>1. \A d \in Callers : pc'[d] = "idle"
    BY <1>1, <1>4 DEF OneCaller, TypeOK
  <2> QED
    BY <2>1 DEF ChosenIsEmpty
<1> QED
  BY <1>14, <1>15, <1>16 DEF TableInv

LEMMA ReleaseInv ==
  ASSUME TableInv, OneCaller, NEW c \in Callers, NEW k \in Clients, Release(c, k)
  PROVE  TableInv'
<1>1. TypeOK /\ FreeIsAhead
  BY DEF TableInv
<1>2. /\ pc[c] = "idle" /\ pointer' = [pointer EXCEPT ![k] = Nil]
      /\ UNCHANGED <<current, next, first, chainItem, pc, client, item, index>>
  BY DEF Release, callVars
<1>3. pointer' \in [Clients -> {Nil} \cup (Items \X Cells)]
  BY <1>1, <1>2 DEF TypeOK
<1>4. ChosenIsEmpty'
  <2>1. \A d \in Callers : pc'[d] = "idle"
    BY <1>2 DEF OneCaller
  <2> QED
    BY <2>1 DEF ChosenIsEmpty
<1>5. CASE UNCHANGED <<array, free>>
  <2>1. TypeOK'
    BY <1>1, <1>2, <1>3, <1>5 DEF TypeOK, Items
  <2>2. FreeIsAhead'
    BY <1>1, <1>2, <1>5 DEF FreeIsAhead, Items
  <2> QED
    BY <1>4, <2>1, <2>2 DEF TableInv
<1>6. ASSUME NEW i \in Holding(Registers[k]), NEW x \in Cells, array' = [array EXCEPT ![i][x] = Nil], free' = FreeAfter(i)
      PROVE  TableInv'
  <2>1. i \in Items /\ Items = 1 .. Len(array) /\ Len(array) \in Nat
    BY <1>1 DEF Holding, Chain, Items, TypeOK
  <2>2. array[i] \in [Cells -> Objects \cup {Nil}]
    BY <1>1, <2>1, TypedItem
  <2>3. PICK b : b = [array[i] EXCEPT ![x] = Nil]
    OBVIOUS
  <2>4. b \in [Cells -> Objects \cup {Nil}] /\ array' = [array EXCEPT ![i] = b]
    BY <1>6, <2>2, <2>3
  <2>5. /\ array' \in Seq([Cells -> Objects \cup {Nil}]) /\ Len(array') = Len(array)
        /\ \A j \in 1 .. Len(array) : array'[j] = IF j = i THEN b ELSE array[j]
    BY <1>1, <2>1, <2>4, ExceptSeq DEF TypeOK
  <2>6. free' = free /\ Items' = Items
    BY <1>6, <2>5 DEF FreeAfter, Items
  <2>7. TypeOK'
    BY <1>1, <1>2, <1>3, <2>5, <2>6 DEF TypeOK
  <2>8. ASSUME NEW j \in Items PROVE free'[j] <= Cardinality(Ahead(array'[j], current'[j]))
    <3>1. PICK a, from : a = array[j] /\ from = current[j]
      OBVIOUS
    <3>2. free[j] \in Nat /\ free[j] <= Cardinality(Ahead(a, from)) /\ Cardinality(Ahead(a, from)) \in Nat
      BY <1>1, <3>1, TypedItem, AheadFinite DEF FreeIsAhead
    <3>3. CASE j # i
      BY <1>2, <2>1, <2>5, <2>6, <3>1, <3>2, <3>3
    <3>4. CASE j = i
      <4>1. array'[j] = [a EXCEPT ![x] = Nil] /\ current'[j] = from /\ free'[j] = free[j]
        BY <1>2, <2>1, <2>3, <2>5, <2>6, <3>1, <3>4
      <4>2. DOMAIN a = Cells
        BY <2>2, <3>1, <3>4
      <4>3. Cardinality(Ahead(a, from)) <= Cardinality(Ahead([a EXCEPT ![x] = Nil], from))
        BY <4>2, ClearCounts
      <4>4. Cardinality(Ahead([a EXCEPT ![x] = Nil], from)) \in Nat
        BY AheadFinite
      <4> QED
        BY <3>2, <4>1, <4>3, <4>4
    <3> QED
      BY <3>3, <3>4
  <2>9. FreeIsAhead'
    BY <2>6, <2>8 DEF FreeIsAhead
  <2> QED
    BY <1>4, <2>7, <2>9 DEF TableInv
<1> QED
  BY <1>5, <1>6 DEF Release

-----------------------------------------------------------------------------
(* The theorems *)

LEMMA TableStepInv ==
  ASSUME TableInv, OneCaller, [Next]_vars
  PROVE  TableInv'
<1>1. CASE UNCHANGED vars
  BY <1>1 DEF vars, tableVars, callVars, TableInv, TypeOK, FreeIsAhead, ChosenIsEmpty, Items
<1>2. CASE Next
  <2>1. PICK c \in Callers :
          Fill(c) \/ \E k \in Clients : AllocateHere(c, k) \/ AllocateRearranged(c, k)
                                        \/ AllocateNew(c, k) \/ Release(c, k)
    BY <1>2 DEF Next
  <2> QED
    BY <2>1, FillInv, AllocateHereInv, AllocateRearrangedInv, AllocateNewInv, ReleaseInv
<1> QED
  BY <1>1, <1>2

\* For every length of the arrays and every number of clients, as long as calls
\* follow one another, the counters Free and Current promise only cells that are
\* there.
THEOREM TableInvariant == ASSUME OneCaller PROVE Spec => []TableInv
<1>1. TableInv /\ [Next]_vars => TableInv'
  BY TableStepInv
<1> QED
  BY <1>1, TableInitInv, PTL DEF Spec

\* Types: counters, links and chosen cells stay in their ranges.
THEOREM TableTypeSafety == ASSUME OneCaller PROVE Spec => []TypeOK
<1>1. TableInv => TypeOK
  BY DEF TableInv
<1> QED
  BY <1>1, TableInvariant, PTL

\* The scan of allocate for an empty cell never leaves the array.
THEOREM ScanSafety == ASSUME OneCaller PROVE Spec => []ScanInArray
<1>1. TableInv => ScanInArray
  BY DEF TableInv, ChosenIsEmpty, ScanInArray
<1> QED
  BY <1>1, TableInvariant, PTL
=============================================================================
