----------------------- MODULE BlockingQueue_proofs -----------------------
(***************************************************************************)
(* The queue never runs empty under a pop and is a first-in first-out      *)
(* queue, for every finite set of threads and every set of values.         *)
(*                                                                         *)
(* The inductive invariant counts: every element of the list is one for    *)
(* which a permit is free, has been taken by a thread that is about to     *)
(* pop, or will be released by a thread that has just pushed.              *)
(***************************************************************************)
EXTENDS BlockingQueue, FiniteSetTheorems, SequenceTheorems, TLAPS

AtStep(s) == {t \in Threads : at[t] = s}

Counted ==
  permits + Cardinality(AtStep("granted")) + Cardinality(AtStep("pushed")) = tale - top

\* What every step of the queue keeps, and more than PopFindsElement says.
QueueInv ==
  /\ QueueTypeOK
  /\ top <= tale /\ tale <= Len(array)
  /\ Counted
  /\ PopFindsElement

\* A thread that moves from a step to another one leaves the set of threads at
\* the first and enters the set at the second; the other sets stay.
LEMMA MoveCounts ==
  ASSUME NEW t \in Threads, NEW from, NEW to, from # to,
         at \in [Threads -> {"idle", "pushed", "granted", "raised"}], Moves(t, from, to)
  PROVE  /\ AtStep(from)' = AtStep(from) \ {t} /\ t \in AtStep(from)
         /\ AtStep(to)' = AtStep(to) \cup {t} /\ t \notin AtStep(to)
         /\ \A s : s # from /\ s # to => AtStep(s)' = AtStep(s)
  BY DEF Moves, AtStep

\* The sets of threads at a step are finite, so their sizes are numbers that
\* grow and shrink by one with a move.
LEMMA MoveSizes ==
  ASSUME NEW t \in Threads, NEW from, NEW to, from # to,
         at \in [Threads -> {"idle", "pushed", "granted", "raised"}], Moves(t, from, to)
  PROVE  /\ \A s : Cardinality(AtStep(s)) \in Nat
         /\ Cardinality(AtStep(from)') = Cardinality(AtStep(from)) - 1
         /\ Cardinality(AtStep(to)') = Cardinality(AtStep(to)) + 1
         /\ \A s : s # from /\ s # to => Cardinality(AtStep(s)') = Cardinality(AtStep(s))
<1>1. \A s : IsFiniteSet(AtStep(s))
  BY ThreadsAssumption, FS_Subset DEF AtStep
<1>2. \A s : Cardinality(AtStep(s)) \in Nat
  BY <1>1, FS_CardinalityType
<1>3. Cardinality(AtStep(from) \ {t}) = Cardinality(AtStep(from)) - 1
  BY <1>1, MoveCounts, FS_RemoveElement
<1>4. Cardinality(AtStep(to) \cup {t}) = Cardinality(AtStep(to)) + 1
  BY <1>1, MoveCounts, FS_AddElement
<1> QED
  BY <1>2, <1>3, <1>4, MoveCounts

LEMMA QueueInitInv == QueueInit => QueueInv
<1> SUFFICES ASSUME QueueInit PROVE QueueInv
  OBVIOUS
<1>1. AtStep("granted") = {} /\ AtStep("pushed") = {}
  BY DEF QueueInit, AtStep
<1>2. Cardinality({}) = 0
  BY FS_EmptySet
<1> QED
  BY <1>1, <1>2 DEF QueueInit, QueueInv, QueueTypeOK, Counted, PopFindsElement

LEMMA StoreTyped ==
  ASSUME QueueInv, NEW v \in Values
  PROVE  /\ Store(v) \in Seq(Values)
         /\ Len(Store(v)) >= tale + 1 /\ Len(Store(v)) >= Len(array)
         /\ Store(v)[tale + 1] = v
         /\ \A i \in 1 .. tale : Store(v)[i] = array[i]
<1>1. CASE tale < Len(array)
  <2>1. tale + 1 \in 1 .. Len(array)
    BY <1>1 DEF QueueInv, QueueTypeOK
  <2>2. Len([array EXCEPT ![tale + 1] = v]) = Len(array)
    BY <2>1 DEF QueueInv, QueueTypeOK
  <2> QED
    BY <1>1, <2>1, <2>2 DEF Store, QueueInv, QueueTypeOK
<1>2. CASE ~(tale < Len(array))
  BY <1>2 DEF Store, QueueInv, QueueTypeOK
<1> QED
  BY <1>1, <1>2

\* The elements of a between two indices.
Window(a, lo, hi) == [i \in 1 .. hi - lo |-> a[lo + i]]

LEMMA WindowIsSeq ==
  ASSUME NEW a \in Seq(Values), NEW lo \in Nat, NEW hi \in Nat, lo <= hi, hi <= Len(a)
  PROVE  /\ Window(a, lo, hi) \in Seq(Values)
         /\ Len(Window(a, lo, hi)) = hi - lo
         /\ \A i \in 1 .. hi - lo : Window(a, lo, hi)[i] = a[lo + i]
<1>1. \A i \in 1 .. hi - lo : lo + i \in 1 .. Len(a) /\ a[lo + i] \in Values
  OBVIOUS
<1> QED
  BY <1>1 DEF Window

\* The list of values that are pushed and not taken grows at its end by a push
\* and loses its head by a pop, with and without the reset of the indices.
LEMMA PushAppends ==
  ASSUME QueueInv, NEW t \in Threads, NEW v \in Values, ListPush(t, v)
  PROVE  items' = Append(items, v)
<1>1. top \in Nat /\ tale \in Nat /\ top <= tale /\ array \in Seq(Values) /\ tale <= Len(array)
  BY DEF QueueInv, QueueTypeOK
<1>2. items = Window(array, top, tale) /\ items' = Window(Store(v), top, tale + 1)
  <2>1. items' = Window(array', top', tale')
    BY DEF items, Window
  <2>2. top' = top /\ tale' = tale + 1 /\ array' = Store(v)
    BY DEF ListPush
  <2> QED
    BY <2>1, <2>2 DEF items, Window
<1>3. /\ items \in Seq(Values) /\ Len(items) = tale - top
      /\ \A i \in 1 .. tale - top : items[i] = array[top + i]
  BY <1>1, <1>2, WindowIsSeq
<1>4. /\ items' \in Seq(Values) /\ Len(items') = tale - top + 1
      /\ \A i \in 1 .. tale - top + 1 : items'[i] = Store(v)[top + i]
  <2>1. Store(v) \in Seq(Values) /\ tale + 1 <= Len(Store(v))
    BY StoreTyped
  <2>2. tale + 1 \in Nat /\ top <= tale + 1
    BY <1>1
  <2>3. tale + 1 - top = tale - top + 1
    BY <1>1
  <2> QED
    <3>1. /\ Window(Store(v), top, tale + 1) \in Seq(Values)
          /\ Len(Window(Store(v), top, tale + 1)) = tale + 1 - top
          /\ \A i \in 1 .. tale + 1 - top :
               Window(Store(v), top, tale + 1)[i] = Store(v)[top + i]
      <4>1. PICK b, hi : b = Store(v) /\ hi = tale + 1
        OBVIOUS
      <4>2. b \in Seq(Values) /\ hi \in Nat /\ top <= hi /\ hi <= Len(b)
        BY <2>1, <2>2, <4>1
      <4>3. /\ Window(b, top, hi) \in Seq(Values)
            /\ Len(Window(b, top, hi)) = hi - top
            /\ \A i \in 1 .. hi - top : Window(b, top, hi)[i] = b[top + i]
        BY <1>1, <4>2, WindowIsSeq
      <4> QED
        BY <1>1, <4>1, <4>3
    <3> QED
      BY <1>1, <1>2, <2>3, <3>1
<1>5. /\ Append(items, v) \in Seq(Values)
      /\ Len(Append(items, v)) = tale - top + 1
      /\ Append(items, v)[tale - top + 1] = v
      /\ \A i \in 1 .. tale - top : Append(items, v)[i] = items[i]
  BY <1>1, <1>3
<1>6. ASSUME NEW i \in 1 .. tale - top + 1
      PROVE  items'[i] = Append(items, v)[i]
  <2>1. CASE i = tale - top + 1
    <3>1. top + i = tale + 1
      BY <2>1, <1>1
    <3>2. tale - top + 1 \in 1 .. tale - top + 1
      BY <1>1
    <3>3. items'[i] = Store(v)[tale + 1]
      BY <1>4, <3>1
    <3>4. Append(items, v)[i] = v
      BY <1>5, <2>1
    <3> QED
      BY <3>3, <3>4, StoreTyped
  <2>2. CASE i \in 1 .. tale - top
    <3>1. top + i \in 1 .. tale
      BY <2>2, <1>1
    <3>2. i \in 1 .. tale - top + 1
      BY <2>2, <1>1
    <3>3. items'[i] = Store(v)[top + i] /\ Store(v)[top + i] = array[top + i]
      BY <3>1, <3>2, <1>4, StoreTyped
    <3> QED
      BY <2>2, <3>3, <1>3, <1>5
  <2>3. i = tale - top + 1 \/ i \in 1 .. tale - top
    BY <1>1
  <2> QED
    BY <2>1, <2>2, <2>3
<1> HIDE DEF items
<1> QED
  BY <1>4, <1>5, <1>6, SeqEqual

LEMMA PopRemovesHead ==
  ASSUME QueueInv, NEW t \in Threads, ListPop(t), top # tale
  PROVE  /\ items # <<>>
         /\ got' = [got EXCEPT ![t] = Head(items)]
         /\ items' = Tail(items)
<1>1. top \in Nat /\ tale \in Nat /\ top < tale /\ top <= tale /\ array \in Seq(Values) /\ tale <= Len(array)
  BY DEF QueueInv, QueueTypeOK
<1>2. /\ items \in Seq(Values) /\ Len(items) = tale - top
      /\ \A i \in 1 .. tale - top : items[i] = array[top + i]
  <2>1. items = Window(array, top, tale)
    BY DEF items, Window
  <2>2. LET w == Window(array, top, tale)
        IN  /\ w \in Seq(Values) /\ Len(w) = tale - top
            /\ \A i \in 1 .. tale - top : w[i] = array[top + i]
    BY <1>1, WindowIsSeq
  <2> QED
    BY <2>1, <2>2
<1>3. items # <<>> /\ Head(items) = array[top + 1]
  BY <1>1, <1>2
<1>4. /\ Tail(items) \in Seq(Values) /\ Len(Tail(items)) = tale - top - 1
      /\ \A i \in 1 .. tale - top - 1 : Tail(items)[i] = items[i + 1]
  BY <1>2, <1>3, HeadTailProperties
<1>5. got' = [got EXCEPT ![t] = Head(items)]
  BY <1>3 DEF ListPop
<1>6. items' = Window(array, top', tale')
  <2>1. items' = Window(array', top', tale')
    BY DEF items, Window
  <2> QED
    BY <2>1 DEF ListPop
<1>7. CASE tale = top + 1
  <2>1. top' = 0 /\ tale' = 0
    BY <1>1, <1>7 DEF ListPop
  <2>2. items' \in Seq(Values) /\ Len(items') = 0
    <3>1. 0 \in Nat /\ 0 <= 0 /\ 0 <= Len(array)
      BY <1>1
    <3>2. LET w == Window(array, 0, 0) IN w \in Seq(Values) /\ Len(w) = 0 - 0
      BY <1>1, <3>1, WindowIsSeq
    <3> QED
      BY <1>6, <2>1, <3>2
  <2>3. Len(Tail(items)) = 0
    <3>1. tale - top - 1 = 0
      BY <1>1, <1>7
    <3> QED
      BY <3>1, <1>4
  <2>4. items' = <<>> /\ Tail(items) = <<>>
    BY <2>2, <2>3, <1>4, EmptySeq
  <2> QED
    BY <2>4, <1>3, <1>5
<1>8. CASE tale # top + 1
  <2>1. top' = top + 1 /\ tale' = tale
    BY <1>1, <1>8 DEF ListPop
  <2>2. /\ items' \in Seq(Values) /\ Len(items') = tale - top - 1
        /\ \A i \in 1 .. tale - top - 1 : items'[i] = array[top + 1 + i]
    <3>1. top + 1 \in Nat /\ top + 1 <= tale /\ tale - (top + 1) = tale - top - 1
      BY <1>1
    <3>2. LET w == Window(array, top + 1, tale)
          IN  /\ w \in Seq(Values) /\ Len(w) = tale - (top + 1)
              /\ \A i \in 1 .. tale - (top + 1) : w[i] = array[top + 1 + i]
      BY <1>1, <3>1, WindowIsSeq
    <3> QED
      BY <1>6, <2>1, <3>1, <3>2
  <2>3. ASSUME NEW i \in 1 .. tale - top - 1
        PROVE  items'[i] = Tail(items)[i]
    <3>1. i + 1 \in 1 .. tale - top /\ top + (i + 1) = top + 1 + i
      BY <1>1
    <3> QED
      BY <3>1, <1>2, <1>4, <2>2
  <2>4. items' = Tail(items)
    BY <2>2, <2>3, <1>4, SeqEqual
  <2> QED
    BY <2>4, <1>3, <1>5
<1> QED
  BY <1>7, <1>8

LEMMA QueueStepInv ==
  ASSUME QueueInv, [QueueNext]_queueVars
  PROVE  QueueInv'
<1> USE DEF QueueInv, QueueTypeOK
<1>1. ASSUME NEW t \in Threads, NEW v \in Values, ListPush(t, v) PROVE QueueInv'
  <2>1. Counted'
    <3>1. Moves(t, "idle", "pushed") /\ tale' - top' = tale - top + 1 /\ permits' = permits
      BY <1>1 DEF ListPush
    <3> QED
      BY <3>1, MoveSizes DEF Counted
  <2>2. PopFindsElement'
    BY <1>1 DEF ListPush, Moves, PopFindsElement
  <2> QED
    <3>1. Store(v) \in Seq(Values) /\ tale + 1 <= Len(Store(v))
      BY StoreTyped
    <3>2. QueueTypeOK' /\ top' <= tale' /\ tale' <= Len(array')
      BY <1>1, <3>1 DEF ListPush, Moves
    <3> QED
      BY <2>1, <2>2, <3>2
<1>2. ASSUME NEW t \in Threads, Release(t) PROVE QueueInv'
  <2>1. Counted'
    BY <1>2, MoveSizes DEF Release, Counted
  <2>2. PopFindsElement'
    BY <1>2 DEF Release, Moves, PopFindsElement
  <2> QED
    BY <1>2, <2>1, <2>2 DEF Release, Moves
<1>3. ASSUME NEW t \in Threads, SemaphoreWait(t) PROVE QueueInv'
  <2>1. Counted'
    BY <1>3, MoveSizes DEF SemaphoreWait, Counted
  <2>2. PopFindsElement'
    BY <1>3 DEF SemaphoreWait, Moves, PopFindsElement
  <2> QED
    BY <1>3, <2>1, <2>2 DEF SemaphoreWait, Moves
<1>4. ASSUME NEW t \in Threads, ListPop(t) PROVE QueueInv'
  <2>1. top < tale
    <3>1. Moves(t, "granted", IF top = tale THEN "raised" ELSE "idle")
      BY <1>4 DEF ListPop
    <3>2. Cardinality(AtStep("granted")') = Cardinality(AtStep("granted")) - 1
      BY <3>1, MoveSizes
    <3>3. /\ Cardinality(AtStep("granted")) \in Nat /\ Cardinality(AtStep("pushed")) \in Nat
          /\ Cardinality(AtStep("granted")') \in Nat
      <4>1. \A s : IsFiniteSet(AtStep(s)) /\ IsFiniteSet(AtStep(s)')
        BY ThreadsAssumption, FS_Subset DEF AtStep
      <4> QED
        BY <4>1, FS_CardinalityType
    <3> QED
      BY <3>2, <3>3 DEF Counted
  <2>2. Moves(t, "granted", "idle") /\ permits' = permits /\ tale' - top' = tale - top - 1
    BY <1>4, <2>1 DEF ListPop
  <2>3. Counted'
    <3>1. /\ Cardinality(AtStep("granted")') = Cardinality(AtStep("granted")) - 1
          /\ Cardinality(AtStep("pushed")') = Cardinality(AtStep("pushed"))
          /\ Cardinality(AtStep("granted")) \in Nat /\ Cardinality(AtStep("pushed")) \in Nat
      BY <2>2, MoveSizes
    <3> QED
      BY <2>2, <3>1 DEF Counted
  <2>4. PopFindsElement'
    BY <2>2 DEF Moves, PopFindsElement
  <2>5. array[top + 1] \in Values
    BY <2>1
  <2> QED
    BY <1>4, <2>1, <2>2, <2>3, <2>4, <2>5 DEF ListPop, Moves
<1>5. CASE UNCHANGED queueVars
  BY <1>5 DEF queueVars, Counted, AtStep, PopFindsElement
<1> QED
  BY <1>1, <1>2, <1>3, <1>4, <1>5 DEF QueueNext

\* Elements and permits agree, whatever pushes and pops run at the same time.
THEOREM QueueInvariant == QueueSpec => []QueueInv
  BY QueueInitInv, QueueStepInv, PTL DEF QueueSpec

\* No pop finds the list empty (queues.l:64 never raises under the pool's queue).
THEOREM PopSafety == QueueSpec => []PopFindsElement
<1>1. QueueInv => PopFindsElement
  BY DEF QueueInv
<1> QED
  BY <1>1, QueueInvariant, PTL

LEMMA QueueStepMaps ==
  ASSUME QueueInv, [QueueNext]_queueVars
  PROVE  [Abstract!Next]_<<items, got>>
<1>1. ASSUME NEW t \in Threads, NEW v \in Values, ListPush(t, v)
      PROVE  [Abstract!Next]_<<items, got>>
  BY <1>1, PushAppends DEF ListPush, Abstract!Next, Abstract!Push
<1>2. ASSUME NEW t \in Threads, Release(t) \/ SemaphoreWait(t)
      PROVE  UNCHANGED <<items, got>>
  BY <1>2 DEF Release, SemaphoreWait, items
<1>3. ASSUME NEW t \in Threads, ListPop(t)
      PROVE  [Abstract!Next]_<<items, got>>
  <2>1. CASE top = tale
    BY <1>3, <2>1 DEF ListPop, items
  <2>2. CASE top # tale
    BY <1>3, <2>2, PopRemovesHead DEF Abstract!Next, Abstract!Pop
  <2> QED
    BY <2>1, <2>2
<1>4. CASE UNCHANGED queueVars
  BY <1>4 DEF queueVars, items
<1> QED
  BY <1>1, <1>2, <1>3, <1>4 DEF QueueNext

\* The semaphore, the two indices and the reuse of cells implement Fifo.
THEOREM FifoRefinement == QueueSpec => ImplementsFifo
<1>1. QueueInit => Abstract!Init
  <2> SUFFICES ASSUME QueueInit PROVE Abstract!Init
    OBVIOUS
  <2>1. items = [i \in {} |-> array[top + i]]
    BY DEF QueueInit, items
  <2> QED
    BY <2>1 DEF QueueInit, Abstract!Init
<1> QED
  BY <1>1, QueueInvariant, QueueStepMaps, PTL DEF QueueSpec, ImplementsFifo, Abstract!Spec
=============================================================================
