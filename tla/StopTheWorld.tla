---------------------------- MODULE StopTheWorld ----------------------------
(***************************************************************************)
(* The stop-the-world protocol of the multi-threaded ELENA runtime, as the *)
(* MTA core src/asm/amd64/corex60.asm implements it: allocation under      *)
(* gc_lock, the safe point every thread polls, the election of a           *)
(* collecting thread, the scan of the thread table, the wait for the other *)
(* threads and the end of the collection; with the thread life cycle of    *)
(* src/src60/core/system.core_routines.esm and elenartmachine.cpp.         *)
(*                                                                         *)
(* A thread is named by its slot in the thread table.  The slots are       *)
(* handed out in order and never reused, so the name is unique.  A thread  *)
(* at "run" executes compiled ELENA code; every other value of pc is a     *)
(* place in the runtime's own code.  What the collector does to the heap   *)
(* is left out: this module says when it may do it.                        *)
(***************************************************************************)
EXTENDS Integers, FiniteSets

CONSTANTS
  SlotCount,       \* env->threadCounter: the capacity of the thread table
  InitialThreads,  \* how many threads the behaviour starts with, all at "run"
  Program,         \* for each thread, the runtime services its code uses
  JoinTarget,      \* the thread whose exit t's external call waits for
  WaitLimit,       \* MAXIMUM_WAIT_OBJECTS, the most handles one wait takes
  HeapMayFail,     \* the heap expansion inside a collection may fail
  MaxCollections   \* bound: once as many collections have begun, an allocation
                   \* finds room unless a collection is announced

Threads == 0 .. SlotCount - 1
NoThread == -1

\* "alloc" GC_ALLOC, "perm" GC_ALLOCPERM, "gc" an explicit collection, "loop" a
\* loop with a safe point, "extern" an external call the compiler wrapped,
\* "load" one the core routines wrapped by hand, "create" and "exit".
Services == {"alloc", "perm", "gc", "loop", "extern", "load", "create", "exit"}

ASSUME SlotCountAssumption == SlotCount \in Nat \ {0}
ASSUME InitialAssumption == InitialThreads \in 1 .. SlotCount
ASSUME ProgramAssumption == Program \in [Threads -> SUBSET Services]
ASSUME JoinAssumption == JoinTarget \in [Threads -> Threads \cup {NoThread}]
ASSUME BoundAssumption == /\ WaitLimit \in Nat
                          /\ MaxCollections \in Nat
                          /\ HeapMayFail \in BOOLEAN

VARIABLES
  pc,           \* where each thread is
  gcLock,       \* gc_lock: 0 free, 1 held; freed by adding -1
  gcSignal,     \* gc_signal: the thread whose event is announced, or NoThread
  counter,      \* th_table->counter, the tt_length the loops use
  published,    \* slots[t].content is not null
  event,        \* tt_sync_event: "closed", "clear" or "set" (manual reset)
  flags,        \* tt_flags: the thread is in an excluded region
  rooted,       \* tt_stack_frame reaches all the frames t is live in
  routine,      \* the routine that serves t's last request for memory
  seen,         \* the event handle t read from gc_signal
  cont,         \* where t goes on when it is released
  waitList,     \* the events a collecting thread has pushed on its stack
  cursor,       \* labNext: the slot rsi points to
  left,         \* labNext: the iterations left in edi
  collections   \* the collections begun, counted up to MaxCollections

gcVars == <<gcLock, gcSignal>>
tableVars == <<counter, published>>
entryVars == <<event, flags, rooted>>
callVars == <<routine, seen, cont>>
scanVars == <<waitList, cursor, left, collections>>
vars == <<pc, gcVars, tableVars, entryVars, callVars, scanVars>>

Goto(t, l) == pc' = [pc EXCEPT ![t] = l]

Init ==
  /\ pc = [t \in Threads |-> IF t < InitialThreads THEN "run" ELSE "unborn"]
  /\ gcLock = 0
  /\ gcSignal = NoThread
  /\ counter = InitialThreads
  /\ published = [t \in Threads |-> t < InitialThreads]
  /\ event = [t \in Threads |-> IF t < InitialThreads THEN "clear" ELSE "closed"]
  /\ flags = [t \in Threads |-> FALSE]
  /\ rooted = [t \in Threads |-> FALSE]
  /\ routine = [t \in Threads |-> "alloc"]
  /\ seen = [t \in Threads |-> NoThread]
  /\ cont = [t \in Threads |-> "run"]
  /\ waitList = [t \in Threads |-> {}]
  /\ cursor = [t \in Threads |-> 0]
  /\ left = [t \in Threads |-> 0]
  /\ collections = 0

-----------------------------------------------------------------------------
(* gc_lock, and the safe point *)

\* Mutant: the test of the old value is dropped
TryLockAlways == gcLock' = 1

\* labWait: lock cmpxchg gc_lock, 0 -> 1
TryLock == gcLock = 0 /\ gcLock' = 1

\* lock xadd gc_lock, -1: whatever the lock holds
FreeLock == gcLock' = gcLock - 1

\* t spins at "from" and enters the critical section at "to"
LockTo(t, from, to) ==
  /\ pc[t] = from
  /\ TryLock
  /\ Goto(t, to)
  /\ UNCHANGED <<gcSignal, tableVars, entryVars, callVars, scanVars>>

\* t leaves the critical section at "from" and goes on at "to"
UnlockTo(t, from, to) ==
  /\ pc[t] = from
  /\ FreeLock
  /\ Goto(t, to)
  /\ rooted' = IF to = "run" THEN [rooted EXCEPT ![t] = FALSE] ELSE rooted
  /\ UNCHANGED <<gcSignal, tableVars, event, flags, callVars, scanVars>>

\* snop: gc_signal is read without the lock; THREAD_WAIT keeps the handle read
SafePoint(t, from, next) ==
  /\ pc[t] = from
  /\ IF gcSignal = NoThread
       THEN Goto(t, next) /\ UNCHANGED <<seen, cont>>
       ELSE /\ seen' = [seen EXCEPT ![t] = gcSignal]
            /\ cont' = [cont EXCEPT ![t] = next]
            /\ Goto(t, "waitSpin")
  /\ UNCHANGED <<gcVars, tableVars, entryVars, routine, scanVars>>

\* THREAD_WAIT: labWait
WaitLock(t) == LockTo(t, "waitSpin", "stop")

\* Mutant: the frame is not stored
PublishFrameNever(t) == UNCHANGED rooted

\* tt_stack_frame := rsp
PublishFrame(t) == rooted' = [rooted EXCEPT ![t] = TRUE]

\* SignalStopGCLA on the event of u; no effect on a handle that is not open
Signal(u) ==
  event' = [v \in Threads |->
              IF v = u /\ event[v] # "closed" THEN "set" ELSE event[v]]

\* With the lock held: publish the stack frame and signal t's own event
Stop(t) ==
  /\ pc[t] = "stop"
  /\ PublishFrame(t)
  /\ Signal(t)
  /\ Goto(t, "stopped")
  /\ UNCHANGED <<gcVars, tableVars, flags, callVars, scanVars>>

StopUnlock(t) == UnlockTo(t, "stopped", "parked")

\* Mutant: the stopped thread does not wait
ReleasedAtOnce(t) == TRUE

\* WaitForSignalGCLA on the handle read earlier; a wait on a closed handle may
\* fail at once or never end
Released(t) == event[seen[t]] \in {"set", "closed"}

Resume(t) ==
  /\ pc[t] = "parked"
  /\ Released(t)
  /\ Goto(t, cont[t])
  /\ rooted' = [rooted EXCEPT ![t] = cont[t] # "run"]
  /\ UNCHANGED <<gcVars, tableVars, event, flags, callVars, scanVars>>

-----------------------------------------------------------------------------
(* Allocation *)

\* Compiled code asks for memory or for a collection
Call(t, service, to) ==
  /\ pc[t] = "run"
  /\ service \in Program[t]
  /\ routine' = [routine EXCEPT ![t] = service]
  /\ Goto(t, to)
  /\ UNCHANGED <<gcVars, tableVars, entryVars, seen, cont, scanVars>>

CallAlloc(t) == Call(t, "alloc", "allocSpin")
CallAllocPerm(t) == Call(t, "perm", "permSpin")
CallCollect(t) == Call(t, "gc", "collectSpin")

AllocLock(t) == LockTo(t, "allocSpin", "alloc")
PermLock(t) == LockTo(t, "permSpin", "perm")
CollectLock(t) == LockTo(t, "collectSpin", "collect")

\* gc_yg_current + size < gc_yg_end (or the same of the permanent area)
Fits(t, from) ==
  /\ pc[t] = from
  /\ Goto(t, "allocated")
  /\ UNCHANGED <<gcVars, tableVars, entryVars, callVars, scanVars>>

\* No room: go on to GC_COLLECT with the lock held
Full(t, from) ==
  /\ pc[t] = from
  /\ collections < MaxCollections \/ gcSignal # NoThread
  /\ Goto(t, "collect")
  /\ UNCHANGED <<gcVars, tableVars, entryVars, callVars, scanVars>>

AllocFits(t) == Fits(t, "alloc")
AllocFull(t) == Full(t, "alloc")
PermFits(t) == Fits(t, "perm")
PermFull(t) == Full(t, "perm")
AllocUnlock(t) == UnlockTo(t, "allocated", "run")

-----------------------------------------------------------------------------
(* GC_COLLECT, and the copy of it inside GC_ALLOCPERM *)

\* Where a routine that has waited for a collection starts again: an explicit
\* collection from labStart, an allocation (permanent or not) from GC_ALLOC
RetryPoint(r) == IF r = "gc" THEN "collect" ELSE "allocSpin"

\* labStart: publish the frame, read gc_signal, and stop if another thread collects
EnterCollect(t) ==
  /\ pc[t] = "collect"
  /\ PublishFrame(t)
  /\ seen' = [seen EXCEPT ![t] = gcSignal]
  /\ IF gcSignal = NoThread
       THEN Goto(t, "claim") /\ UNCHANGED <<routine, cont>>
       ELSE /\ Goto(t, "stop")
            /\ cont' = [cont EXCEPT ![t] = RetryPoint(routine[t])]
            /\ routine' = [routine EXCEPT ![t] = IF @ = "gc" THEN @ ELSE "alloc"]
  /\ UNCHANGED <<gcVars, tableVars, event, flags, scanVars>>

\* labConinue: announce the collection and start the list of threads to stop
Claim(t) ==
  /\ pc[t] = "claim"
  /\ gcSignal' = t
  /\ waitList' = [waitList EXCEPT ![t] = {}]
  /\ cursor' = [cursor EXCEPT ![t] = 0]
  /\ left' = [left EXCEPT ![t] = counter]
  /\ collections' = IF collections < MaxCollections THEN collections + 1 ELSE collections
  /\ Goto(t, "scan")
  /\ UNCHANGED <<gcLock, tableVars, entryVars, callVars>>

\* Mutant: the loop ends one slot early
NextIterationEarly(t) ==
  /\ left' = [left EXCEPT ![t] = @ - 1]
  /\ Goto(t, IF left[t] <= 2 THEN "listed" ELSE "scan")

\* Mutant: the loop ends one slot late
NextIterationLate(t) ==
  /\ left' = [left EXCEPT ![t] = @ - 1]
  /\ Goto(t, IF left[t] = 0 THEN "listed" ELSE "scan")

\* The end of an iteration of labNext: sub edi, 1; jnz labNext
NextIteration(t) ==
  /\ left' = [left EXCEPT ![t] = @ - 1]
  /\ Goto(t, IF left[t] = 1 THEN "listed" ELSE "scan")

\* SignalClearGCLA
Reset(u) == event' = [event EXCEPT ![u] = IF @ = "closed" THEN @ ELSE "clear"]

\* Mutant: the own event is not told from the others
OwnNever(t, u) == FALSE

\* The own event is compared with rsi first, and with gc_signal once the loop has
\* reloaded rax.
Own(t, u) == u = IF u = 0 THEN t ELSE gcSignal

\* labNext on an occupied slot
ScanSlot(t) ==
  LET u == cursor[t]
  IN /\ pc[t] = "scan"
     /\ published[u]
     /\ waitList' = [waitList EXCEPT ![t] =
                       IF Own(t, u) \/ flags[u] THEN @ ELSE @ \cup {u}]
     /\ Reset(u)
     /\ cursor' = [cursor EXCEPT ![t] = u + 1]
     /\ NextIteration(t)
     /\ UNCHANGED <<gcVars, tableVars, flags, rooted, callVars, collections>>

\* labNext on an empty slot: jz labSkipTT, past the step of rsi to the next slot
ScanEmpty(t) ==
  /\ pc[t] = "scan"
  /\ ~published[cursor[t]]
  /\ NextIteration(t)
  /\ UNCHANGED <<gcVars, tableVars, entryVars, callVars, waitList, cursor,
                 collections>>

ListUnlock(t) == UnlockTo(t, "listed", "await")

\* Mutant: one signalled event ends the wait
AnySignalled(t) ==
  waitList[t] = {} \/ \E u \in waitList[t] : event[u] = "set"

AllSignalled(t) == \A u \in waitList[t] : event[u] = "set"

\* WaitForMultipleObjects fails, and its result is not looked at
WaitFails(t) == \/ Cardinality(waitList[t]) > WaitLimit
                \/ \E u \in waitList[t] : event[u] = "closed"

\* WaitForSignalsGCLA, skipped when the list is empty; then the list is removed
Await(t) ==
  /\ pc[t] = "await"
  /\ AllSignalled(t) \/ WaitFails(t)
  /\ waitList' = [waitList EXCEPT ![t] = {}]
  /\ cursor' = [cursor EXCEPT ![t] = 0]
  /\ Goto(t, "collecting")
  /\ UNCHANGED <<gcVars, tableVars, entryVars, callVars, left, collections>>

\* Mutant: the announcement is not withdrawn
ClearSignalNever == UNCHANGED gcSignal

ClearSignal == gcSignal' = NoThread

\* Mutant: gc_signal is read after it has been cleared
EndCollectLate(t) ==
  /\ pc[t] = "collecting"
  /\ seen' = [seen EXCEPT ![t] = NoThread]
  /\ ClearSignal
  /\ Goto(t, "signalEnd")
  /\ UNCHANGED <<gcLock, tableVars, entryVars, routine, cont, scanVars>>

\* CollectGCLA or CollectPermGCLA has returned: read gc_signal and clear it
EndCollect(t) ==
  /\ pc[t] = "collecting"
  /\ seen' = [seen EXCEPT ![t] = gcSignal]
  /\ ClearSignal
  /\ Goto(t, "signalEnd")
  /\ UNCHANGED <<gcLock, tableVars, entryVars, routine, cont, scanVars>>

\* SignalStopGCLA on the handle just read, outside the critical section
SignalEnd(t) ==
  /\ pc[t] = "signalEnd"
  /\ Signal(seen[t])
  /\ rooted' = [rooted EXCEPT ![t] = FALSE]
  /\ Goto(t, "run")
  /\ UNCHANGED <<gcVars, tableVars, flags, callVars, scanVars>>

\* RaiseError(ELENA_ERR_OUT_OF_MEMORY): control goes to t's exception handler
HeapExhausted(t) ==
  /\ HeapMayFail
  /\ routine[t] = "alloc"
  /\ pc[t] = "collecting"
  /\ rooted' = [rooted EXCEPT ![t] = FALSE]
  /\ Goto(t, "run")
  /\ UNCHANGED <<gcVars, tableVars, event, flags, callVars, scanVars>>

-----------------------------------------------------------------------------
(* Loops and external calls *)

\* saveLoop: a safe point at the head of every loop
LoopSafePoint(t) == "loop" \in Program[t] /\ SafePoint(t, "run", "run")

\* exclude, first store: tt_flags := 1
ExcludeFlag(t) ==
  /\ pc[t] = "run"
  /\ \/ "extern" \in Program[t] /\ cont' = [cont EXCEPT ![t] = "returning"]
     \/ "load" \in Program[t] /\ cont' = [cont EXCEPT ![t] = "include"]
  /\ flags' = [flags EXCEPT ![t] = TRUE]
  /\ Goto(t, "excluding")
  /\ UNCHANGED <<gcVars, tableVars, event, rooted, routine, seen, scanVars>>

\* exclude, second store: tt_stack_frame := rsp
ExcludeFrame(t) ==
  /\ pc[t] = "excluding"
  /\ PublishFrame(t)
  /\ Goto(t, "external")
  /\ UNCHANGED <<gcVars, tableVars, event, flags, callVars, scanVars>>

\* The external call returns; a join returns once the other thread has ended
ExternalReturn(t) ==
  /\ pc[t] = "external"
  /\ JoinTarget[t] # NoThread => pc[JoinTarget[t]] = "done"
  /\ Goto(t, cont[t])
  /\ UNCHANGED <<gcVars, tableVars, entryVars, callVars, scanVars>>

\* includeFrame: the safe point before include
IncludeSafePoint(t) == SafePoint(t, "returning", "include")

\* include: tt_flags := 0 and the old tt_stack_frame
Include(t) ==
  /\ pc[t] = "include"
  /\ flags' = [flags EXCEPT ![t] = FALSE]
  /\ rooted' = [rooted EXCEPT ![t] = FALSE]
  /\ Goto(t, "run")
  /\ UNCHANGED <<gcVars, tableVars, event, callVars, scanVars>>

-----------------------------------------------------------------------------
(* The life of a thread *)

\* __thread_create
CallCreate(t) ==
  /\ pc[t] = "run"
  /\ "create" \in Program[t]
  /\ Goto(t, "createSpin")
  /\ UNCHANGED <<gcVars, tableVars, entryVars, callVars, scanVars>>

CreateLock(t) == LockTo(t, "createSpin", "create")

\* allocateThread: take the next slot, or give up when the table is full.  The
\* new thread is suspended until its ThreadHandle is started.
AllocateThread(t) ==
  /\ pc[t] = "create"
  /\ IF counter < SlotCount
       THEN /\ counter' = counter + 1
            /\ pc' = [pc EXCEPT ![t] = "createDone", ![counter] = "created"]
       ELSE Goto(t, "createDone") /\ UNCHANGED counter
  /\ UNCHANGED <<gcVars, published, entryVars, callVars, scanVars>>

CreateUnlock(t) == UnlockTo(t, "createDone", "run")

\* thread_start
StartThread(t) ==
  /\ pc[t] = "created"
  /\ Goto(t, "registerSpin")
  /\ UNCHANGED <<gcVars, tableVars, entryVars, callVars, scanVars>>

RegisterLock(t) == LockTo(t, "registerSpin", "register")

\* system 3 and InitThreadLA: publish the thread entry, create its event
Register(t) ==
  /\ pc[t] = "register"
  /\ published' = [published EXCEPT ![t] = TRUE]
  /\ event' = [event EXCEPT ![t] = "clear"]
  /\ flags' = [flags EXCEPT ![t] = FALSE]
  /\ Goto(t, "registerDone")
  /\ UNCHANGED <<gcVars, counter, rooted, callVars, scanVars>>

RegisterUnlock(t) == UnlockTo(t, "registerDone", "run")

\* The end of thread_start: a safe point, then the critical section
ExitSafePoint(t) == "exit" \in Program[t] /\ SafePoint(t, "run", "exitSpin")
ExitLock(t) == LockTo(t, "exitSpin", "uninit")

\* Mutant: the slot keeps the entry of the ended thread
UninitKeepsSlot(t) ==
  /\ pc[t] = "uninit"
  /\ event' = [event EXCEPT ![t] = "closed"]
  /\ flags' = [flags EXCEPT ![t] = FALSE]
  /\ Goto(t, "exitDone")
  /\ UNCHANGED <<gcVars, tableVars, rooted, callVars, scanVars>>

\* UninitThreadLA: close the event and clear the slot
Uninit(t) ==
  /\ pc[t] = "uninit"
  /\ published' = [published EXCEPT ![t] = FALSE]
  /\ event' = [event EXCEPT ![t] = "closed"]
  /\ flags' = [flags EXCEPT ![t] = FALSE]
  /\ Goto(t, "exitDone")
  /\ UNCHANGED <<gcVars, counter, rooted, callVars, scanVars>>

ExitUnlock(t) == UnlockTo(t, "exitDone", "done")

-----------------------------------------------------------------------------
Spinning(t) == \/ WaitLock(t) \/ AllocLock(t) \/ PermLock(t) \/ CollectLock(t)
               \/ CreateLock(t) \/ RegisterLock(t) \/ ExitLock(t)

Unlocking(t) == \/ StopUnlock(t) \/ AllocUnlock(t) \/ ListUnlock(t)
                \/ CreateUnlock(t) \/ RegisterUnlock(t) \/ ExitUnlock(t)

\* What t does once it is in the runtime, without the choices of its code
Runtime(t) == \/ Stop(t) \/ Resume(t) \/ AllocFits(t) \/ AllocFull(t)
              \/ PermFits(t) \/ PermFull(t) \/ EnterCollect(t) \/ Claim(t)
              \/ ScanSlot(t) \/ ScanEmpty(t) \/ Await(t) \/ EndCollect(t)
              \/ SignalEnd(t) \/ HeapExhausted(t) \/ ExcludeFrame(t)
              \/ ExternalReturn(t) \/ IncludeSafePoint(t) \/ Include(t)
              \/ AllocateThread(t) \/ Register(t) \/ Uninit(t)

\* What compiled code at "run" may do next, and the start of a created thread
Managed(t) == \/ CallAlloc(t) \/ CallAllocPerm(t) \/ CallCollect(t)
              \/ LoopSafePoint(t) \/ ExcludeFlag(t) \/ CallCreate(t)
              \/ StartThread(t) \/ ExitSafePoint(t)

Step(t) == Spinning(t) \/ Unlocking(t) \/ Runtime(t) \/ Managed(t)

Next == \E t \in Threads : Step(t)

Spec == Init /\ [][Next]_vars

\* The operating system runs every thread, no thread loses the race for the
\* spin lock for ever, and compiled code keeps coming back to its safe points.
Fairness == \A t \in Threads : /\ WF_vars(Unlocking(t) \/ Runtime(t))
                               /\ SF_vars(Spinning(t))
                               /\ SF_vars(LoopSafePoint(t))

FairSpec == Spec /\ Fairness

-----------------------------------------------------------------------------
Holding == {"stop", "stopped", "alloc", "perm", "collect", "claim", "scan",
            "listed", "allocated", "create", "createDone", "register",
            "registerDone", "uninit", "exitDone"}

\* The thread has announced a collection and not withdrawn it
Announced == {"scan", "listed", "await", "collecting"}

\* The thread stands where it does not touch the heap: stopped for a collection,
\* on its way to stop, or inside an excluded region
Parked == {"waitSpin", "stop", "stopped", "parked",
           "excluding", "external", "returning", "include"}

Locations == Holding \cup Announced \cup Parked \cup
  {"unborn", "created", "run", "done", "signalEnd", "allocSpin", "permSpin",
   "collectSpin", "createSpin", "registerSpin", "exitSpin"}

\* The thread has no entry in the thread table
Absent == {"unborn", "created", "registerSpin", "register", "exitDone", "done"}

\* Type invariant.
TypeOK ==
  /\ pc \in [Threads -> Locations]
  /\ gcLock \in Int
  /\ gcSignal \in Threads \cup {NoThread}
  /\ counter \in 0 .. SlotCount
  /\ published \in [Threads -> BOOLEAN]
  /\ event \in [Threads -> {"closed", "clear", "set"}]
  /\ flags \in [Threads -> BOOLEAN]
  /\ rooted \in [Threads -> BOOLEAN]
  /\ routine \in [Threads -> {"alloc", "perm", "gc"}]
  /\ seen \in [Threads -> Threads \cup {NoThread}]
  /\ cont \in [Threads -> Locations]
  /\ waitList \in [Threads -> SUBSET Threads]
  /\ cursor \in [Threads -> 0 .. SlotCount]
  /\ left \in [Threads -> 0 .. SlotCount]
  /\ collections \in 0 .. MaxCollections

\* gc_lock is a mutual exclusion lock: it is held exactly when one thread is in
\* a critical section of the runtime, so freeing it by adding -1 is sound.
LockDiscipline ==
  /\ gcLock \in {0, 1}
  /\ gcLock = 1 <=> \E t \in Threads : pc[t] \in Holding
  /\ \A t, u \in Threads : pc[t] \in Holding /\ pc[u] \in Holding => t = u

\* gc_signal names the one thread that has announced a collection, from its
\* announcement until the collection has ended: no two threads collect at once,
\* and no thread stops for a collection nobody runs.
OneCollector ==
  \A t \in Threads : pc[t] \in Announced <=> gcSignal = t

\* A thread about to announce a collection has seen that none is announced, and
\* that is still so: gc_signal is set with the lock held only.
ClaimIsCurrent ==
  \A t \in Threads : pc[t] = "claim" => gcSignal = NoThread

\* While a collection runs, every registered thread but the collecting one is
\* stopped, about to stop, or in an excluded region: nobody else is in compiled
\* code or allocates.
WorldStopped ==
  \A c, u \in Threads :
    pc[c] = "collecting" /\ published[u] /\ u # c => pc[u] \in Parked

\* While a collection runs, the stack frame every registered thread has
\* published reaches all the frames it is live in: no root is missed.
RootsPublished ==
  \A c, u \in Threads : pc[c] = "collecting" /\ published[u] => rooted[u]

\* The list of threads to stop is complete: when the collecting thread has built
\* it, every other registered thread that runs compiled code is on it.
ListComplete ==
  \A c, u \in Threads :
    pc[c] = "listed" /\ published[u] /\ pc[u] = "run" => u \in waitList[c]

\* The thread table and the life of the threads agree: the slots below the
\* counter are those handed out, a slot holds an entry with an open event from
\* the registration of its thread until its end, and only a thread with an entry
\* is in compiled code or in the runtime on its behalf.
SlotTable ==
  \A t \in Threads :
    /\ t < counter <=> pc[t] # "unborn"
    /\ published[t] <=> event[t] # "closed"
    /\ published[t] <=> pc[t] \notin Absent

\* The scan of the thread table stays inside the slots handed out.
ScanInTable ==
  \A t \in Threads :
    pc[t] = "scan" => left[t] > 0 /\ cursor[t] + left[t] <= counter

\* c collects and waits for t, which still waits for the end of an earlier
\* collection of c: the scan has reset both events, and each is set by its own
\* thread only.
WaitingForEachOther(c, t) ==
  /\ pc[c] = "await" /\ t \in waitList[c] /\ event[t] = "clear"
  /\ pc[t] = "parked" /\ seen[t] = c /\ event[c] = "clear"

Circle == \E c, t \in Threads : WaitingForEachOther(c, t)

\* The collecting thread has left its collection by the out of memory exception, and
\* its announcement stays.
Abandoned == gcSignal # NoThread /\ pc[gcSignal] \notin Announced

\* A thread stopped for a collection goes on, unless its collector and it wait for
\* each other or the collection was abandoned: there is no third way to stay
\* stopped, over several collections by several threads (%THREAD_WAIT, labEnd).
ResumesUnlessStuck ==
  \A t \in Threads : pc[t] = "parked" ~> pc[t] # "parked" \/ Circle \/ Abandoned

\* A collection announced ends, with the same two exceptions (gc_signal).
EndsUnlessStuck == gcSignal # NoThread ~> gcSignal = NoThread \/ Circle \/ Abandoned

-----------------------------------------------------------------------------
(* The refinement mapping to Safepoint *)

working == {t \in Threads : pc[t] \notin Parked \cup Absent}

phase == CASE gcSignal = NoThread -> "running"
           [] gcSignal # NoThread /\ pc[gcSignal] = "collecting" -> "stopped"
           [] OTHER -> "stopping"

Abstract == INSTANCE Safepoint WITH owner <- gcSignal

\* The protocol implements Safepoint: a collection runs only in a stopped world.
ImplementsSafepoint == Abstract!Spec

=============================================================================
