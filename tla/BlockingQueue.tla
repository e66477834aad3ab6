--------------------------- MODULE BlockingQueue ---------------------------
(***************************************************************************)
(* The queue of the thread pool: a semaphore                               *)
(* (src/src60/system/threading/blockinglists.l) that counts the elements   *)
(* of a list with two indices                                              *)
(* (src/src60/system/collections/threadsafe/queues.l).  A push stores and  *)
(* then releases; a pop waits and then takes.  Between its two steps a     *)
(* thread may be overtaken.                                                *)
(*                                                                         *)
(* A method of the list runs under the list's lock and touches nothing     *)
(* another thread reads without it, so it is one step.                     *)
(***************************************************************************)
EXTENDS Integers, Sequences, FiniteSets

CONSTANTS Threads, Values, NoValue

ASSUME ThreadsAssumption == IsFiniteSet(Threads)
ASSUME NoValueAssumption == NoValue \notin Values

VARIABLES
  array,    \* _list._array; the element of index i is array[i + 1]
  top,      \* _list._top, the next element to take
  tale,     \* _list._tale, where the next element goes
  permits,  \* the count of _semaphore
  at,       \* "idle", or which step of push or pop a thread has done last
  got       \* what the last pop of a thread returned

queueVars == <<array, top, tale, permits, at, got>>

QueueInit ==
  /\ array = <<>>
  /\ top = 0
  /\ tale = 0
  /\ permits = 0
  /\ at = [t \in Threads |-> "idle"]
  /\ got = [t \in Threads |-> NoValue]

\* t does a step of push or pop
Moves(t, from, to) == at[t] = from /\ at' = [at EXCEPT ![t] = to]

\* Mutant: a cell is overwritten although its element was not taken
StoreAtTop(v) ==
  IF tale < Len(array) THEN [array EXCEPT ![top + 1] = v] ELSE Append(array, v)

\* Overwrite a cell that was used before the last reset, or make a new one
Store(v) ==
  IF tale < Len(array) THEN [array EXCEPT ![tale + 1] = v] ELSE Append(array, v)

\* push: _list.push(value)
ListPush(t, v) ==
  /\ Moves(t, "idle", "pushed")
  /\ array' = Store(v)
  /\ tale' = tale + 1
  /\ UNCHANGED <<top, permits, got>>

\* Mutant: the semaphore is not released
ReleaseLost(t) ==
  Moves(t, "pushed", "idle") /\ UNCHANGED <<array, top, tale, permits, got>>

\* push: _semaphore.release()
Release(t) ==
  /\ Moves(t, "pushed", "idle")
  /\ permits' = permits + 1
  /\ UNCHANGED <<array, top, tale, got>>

\* Mutant: the wait does not use up a permit
WaitKeepsPermit(t) ==
  /\ Moves(t, "idle", "granted")
  /\ permits > 0
  /\ UNCHANGED <<array, top, tale, permits, got>>

\* Mutant: the wait does not wait
WaitUnguarded(t) ==
  /\ Moves(t, "idle", "granted")
  /\ permits' = permits - 1
  /\ UNCHANGED <<array, top, tale, got>>

\* pop: _semaphore.wait()
SemaphoreWait(t) ==
  /\ Moves(t, "idle", "granted")
  /\ permits > 0
  /\ permits' = permits - 1
  /\ UNCHANGED <<array, top, tale, got>>

\* pop: _list.pop().  It starts at index 0 again when it has taken the last
\* element, and raises "Queue is empty" when there is none.
ListPop(t) ==
  IF top = tale
    THEN Moves(t, "granted", "raised") /\ UNCHANGED <<array, top, tale, permits, got>>
    ELSE /\ Moves(t, "granted", "idle")
         /\ got' = [got EXCEPT ![t] = array[top + 1]]
         /\ top' = IF tale = top + 1 THEN 0 ELSE top + 1
         /\ tale' = IF tale = top + 1 THEN 0 ELSE tale
         /\ UNCHANGED <<array, permits>>

QueueNext == \E t \in Threads :
  \/ \E v \in Values : ListPush(t, v)
  \/ Release(t) \/ SemaphoreWait(t) \/ ListPop(t)

QueueSpec == QueueInit /\ [][QueueNext]_queueVars

-----------------------------------------------------------------------------
\* Type invariant of the queue.
QueueTypeOK ==
  /\ array \in Seq(Values)
  /\ top \in Nat /\ tale \in Nat /\ permits \in Nat
  /\ at \in [Threads -> {"idle", "pushed", "granted", "raised"}]
  /\ got \in [Threads -> Values \cup {NoValue}]

\* A pop that the semaphore let through finds an element: "Queue is empty" is
\* never raised, however pushes and pops overtake each other.
PopFindsElement == \A t \in Threads : at[t] # "raised"

items == [i \in 1 .. tale - top |-> array[top + i]]

Abstract == INSTANCE Fifo

\* The two indices, the reuse of the cells and the semaphore together are a
\* first-in first-out queue.
ImplementsFifo == Abstract!Spec
=============================================================================
