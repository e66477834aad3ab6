# A TLA+ verification of the ELENA runtime

ELENA (`src/`) is an object language with its own compiler, byte code, JIT
linker, run-time library, garbage collector and IDE.  Most of it is sequential
translation of one data structure into another.  The parts where a mistake stays
hidden for years are those with several actors or with a long-lived state: the
multi-threaded runtime, a stop-the-world collector written in assembler; the
generational collector behind it, which moves objects; tasks and their thread pool;
the table of roots that foreign code holds; the two threads of the debugger; and
the editor's undo history in two bounded buffers.  This project models these six
parts, checks them with TLC and proves what can be proved for every size.

| File | Content |
|---|---|
| `StopTheWorld.tla`, `Safepoint.tla` | the stop-the-world protocol, and what it promises |
| `MCStopTheWorld.tla`, `Stw*.cfg` | its instances |
| `StopTheWorld_proofs.tla` | the theorems about it |
| `GCHeap.tla`, `ObjectGraph.tla` | the heap and its collector, and what a program relies on |
| `GCHeapInvariant.tla` | what it means that the heap is in order: its inductive invariant |
| `MCGCHeap.tla`, `Heap*.cfg` | their instances |
| `GCCollect_proofs.tla`, `GCHeap_proofs.tla` | what collections do to a heap that is in order; the theorems about the heap |
| `BlockingQueue.tla`, `Fifo.tla`, `BlockingQueue_proofs.tla` | the queue of the thread pool, what it promises, the theorems |
| `Tasks.tla`, `MCTasks.tla`, `Tasks*.cfg`, `Tasks_proofs.tla` | tasks, continuations and the pool over that queue; their instances; the theorems |
| `PermVectorTable.tla`, `MCPermVectorTable.tla`, `PermTable.cfg`, `PermVectorTable_proofs.tla` | the table of permanent roots; its instance; the theorems |
| `TextHistory.tla`, `LinearHistory.tla`, `MCTextHistory.tla`, `History.cfg`, `TextHistory_proofs.tla` | the editor's undo history, what it promises, its instance; the theorems |
| `DebugController.tla`, `Debug.cfg`, `DebugController_proofs.tla` | the debugger of the IDE; its instance; the theorems |
| `PROJECT.json` | the machine-readable index: components, runs, map to the source, hazards, findings, theorems |

## 1. Inventory

| Component | State | Operations | Hard behaviours | What makes it correct |
|---|---|---|---|---|
| MTA stop-the-world protocol (`asm/amd64/corex60.asm`) | `gc_lock`, `gc_signal`; per thread `tt_flags`, `tt_stack_frame`, `tt_sync_event` | GC_ALLOC, GC_ALLOCPERM, GC_COLLECT, THREAD_WAIT, snop, exclude, include, system 1-3 and 6-7 | every interleaving of unlocked reads and locked writes | nobody touches the heap while it is collected; every frame is a root; nobody waits for ever |
| Thread life cycle (`system.core_routines.esm`, `elenartmachine.cpp`, `dllmain.cpp`) | `th_table`: counter, slots | mta_start, __thread_create, thread_start, allocateThreadEntry, clearThreadEntry | threads that come and go during a collection | the table describes the threads that can touch the heap |
| Generational collector (`gcroutines.cpp`, barriers in `core60.asm`) | heap pointers, cards, headers, mapping table | GCRoutine, GCRoutinePerm, YGCollect, FullCollect, write barriers | stale headers, cards that are not set, overflow of an area | what the roots reach is preserved, with its shape |
| Tasks (`tasks.l`, `templates.l`) | completed flag, exception, one continuation | continueWith, complete, wait, whenAll, run, proceed | completions racing with registrations | completed once, no continuation lost |
| Pool and queues (`threadpool.l`, `blockinglists.l`, `queues.l`) | semaphore count, list with two cursors | push, pop, queueAction | all workers waiting | every action runs once, in order |
| Events, semaphores (`events.l`, `semaphores.l`) | a flag or a counter of the system | set, reset, wait, signal, release | lost wake-ups, platform differences | a set event wakes its waiters |
| PermVectorTable (`vectortable.l`) | chains of cells, free counts | allocate, rearrange, release | unsynchronised callers | a cell belongs to one object |
| Editor history (`gui/text.cpp`) | two buffers, an offset, an open record | onInsert, onErase, undo, redo | records split over the buffers | undo is the inverse of the edit |
| Debug controller (`ide/debugcontroller.cpp`) | debuggee state, events | run, step, stop | user interface thread and debugger thread | a stop is always reported |
| Object locks (`core60.asm` trylock, freelock) | a bit in an object's header | spin with a safe point | priority, a holder that waits | mutual exclusion; used as one step |
| Compiler, JIT, VM, tools, library manager, parsers, standard library | trees, tables, sections | sequential passes | none between threads | unit-testable; not modelled |

Interactions.  Compiled code calls the allocator; the allocator calls the
collector with `gc_lock` held; the collector reads the thread table that
`__thread_create` and `thread_start` fill through the C++ entry points; the
byte-code writer decides where compiled code polls `gc_signal` (head of a loop,
return from an external call); the threading library blocks in external calls,
which are excluded regions; tasks run on the pool, the pool's queue blocks on a
semaphore, also in an excluded region; a new thread's argument is kept alive by the
permanent table until the thread has read it.  The debugger and the editor belong to the IDE, a
program of its own.  `PROJECT.json` lists the components that are
left out with the reason.

## 2. StopTheWorld

### State

| Variable | Code |
|---|---|
| `pc[t]` | where thread `t` is; `"run"` is compiled code, the others are places in the runtime named after the label or call |
| `gcLock`, `gcSignal` | `gc_lock`; `gc_signal` (the thread whose event handle is stored there) |
| `counter`, `published` | `th_table->counter` (`tt_length`); `slots[t].content # null` |
| `event[t]` | `tt_sync_event`, a manual-reset event: `closed` before `system 3` and after the exit, else `clear` or `set` |
| `flags[t]` | `tt_flags` |
| `rooted[t]` | the frame pointer in `tt_stack_frame` reaches all the frames `t` is live in.  True from a store of the frame until `t` goes back to compiled code |
| `routine`, `seen`, `cont` | what the stack of `t` remembers: which allocator to repeat, the handle read from `gc_signal`, the return address of THREAD_WAIT |
| `waitList`, `cursor`, `left` | the handles a collecting thread has pushed, `rsi` and `edi` of labNext |
| `collections` | bounds the behaviours: see below |

A thread is named by its slot.  `allocateThreadEntry` hands the slots out in
order and never again, so a slot is a name.

### Actions

One action per step another thread can see.  `AllocLock`, `AllocFits`/`AllocFull`,
`AllocUnlock` are GC_ALLOC; the `Perm` ones GC_ALLOCPERM; `CollectLock` the spin
of `system 1` and `system 2`.  `EnterCollect`, `Claim`, `ScanSlot`/`ScanEmpty`,
`ListUnlock`, `Await`, `EndCollect`, `SignalEnd` follow GC_COLLECT label by label;
GC_ALLOCPERM holds a copy of the same code and shares them.  `LoopSafePoint`,
`IncludeSafePoint`, `ExitSafePoint`, `WaitLock`, `Stop`, `StopUnlock`, `Resume` are snop
and THREAD_WAIT.  `ExcludeFlag`, `ExcludeFrame`, `ExternalReturn`, `Include` are an
external call.  `CallCreate` ... `ExitUnlock` are the life of a thread.

Choices worth knowing:

- `FreeLock` is `lock xadd gc_lock, -1`, whoever does it: that the lock is never
  decremented by a thread that does not hold it is a property, not an assumption.
- The safe point reads `gc_signal` without the lock and keeps the handle read.
- labNext steps `rsi` only on an occupied slot (`ScanSlot`), as the jump to
  labSkipTT does, and compares the own event with `rsi` in its first iteration and with
  the reloaded `gc_signal` later.
- A wait on closed handles or on more handles than `WaitLimit` fails, and the code does
  not look at the result: `Await` goes on.
- Merged: publishing the frame and reading `gc_signal` at labStart (both with the lock
  held, and `gc_signal` is written only with it or by the collecting thread when it ends),
  and `system 3` with InitThreadLA (with the lock held).  `Await` also clears
  the dead registers of the scan, so that they do not multiply states.
- A thread at `"run"` may use any service of its `Program`, in any order, or none.
- What the collection does to objects is not part of this module, nor is the heap's
  size: an allocation finds room or not, by choice.

### Safepoint

`Safepoint.tla` is the promise: a set of threads at `work`, at most one `owner`,
and three phases; objects move only in phase `stopped`, which starts when the owner
is the only one at work and during which nobody goes back to work.
`ImplementsSafepoint` maps `owner` to `gcSignal`, the working threads to those that are neither in
`Parked` nor outside the table, and the phase to the owner's place.

### Runs

All the runs use `MCStopTheWorld`, whose operators say which services each thread uses.

| Run | Expect | Question | Bounds |
|---|---|---|---|
| stw_alloc | pass | Do three threads that allocate (both areas), loop and collect always stop for each other's collections, with all frames published and nobody missed, is there one collector at a time, and is all of it `Safepoint`? | 3 threads, 3 collections |
| stw_services | pass | Do lock, table and scan stay consistent when the main thread uses every service, explicit collection too, and creates threads that loop, make external calls of both kinds and end? | 3 slots, 1 initial thread, 2 collections |
| stw_live | pass | Does every stopped thread go on and every collection end, in a heap that may run out inside a collection, unless in one of the two ways the code leaves open? | 3 threads, 3 collections, fairness |
| stw_include | violation | Return from an external call, with the poll before the announcement and `include` after the scan that skipped the thread | 2 threads, 1 collection |

The properties: `LockDiscipline`, `OneCollector`, `ClaimIsCurrent` (mutual exclusion and the
election), `WorldStopped`, `RootsPublished`, `ListComplete` (the collector is alone and sees all roots),
`SlotTable`, `ScanInTable` (the thread table), the refinement `ImplementsSafepoint`, and two liveness properties.
A stopped thread that never goes on, and a collection that never ends, are possible in the code in two ways: `Circle`, in which a
collector waits for a thread that still waits for the end of that collector's last collection, and `Abandoned`, in which the
out-of-memory error has left a collection and the announcement stays.  `ResumesUnlessStuck` and `EndsUnlessStuck` say that there is no
third way.  `OneCollector` in stw_alloc says that there is no way to `Abandoned` but the error.

A thread counts as `Parked` from its decision to stop: one that has read `gc_signal` and spins for the lock of THREAD_WAIT, or has it and is about to
store its frame, touches no object.  Inside an external call a thread is in the region that exclude opened, up to its `include`.

The violated property is stated where the code promises it, at the head of the wait
(`; wait until they all stopped`); `PROJECT.json` quotes the line.  The passing runs say The passing runs say under
which use of the runtime the properties hold.  For `WorldStopped`, `RootsPublished`, `ListComplete` and `ImplementsSafepoint` that is: threads
that are all there from the start, that allocate and loop and make no external call.  The properties of stw_services hold
with all services as long as only one thread collects explicitly.

Why the bounds are enough.  Two threads show every race of a collector with one other thread; the third
one makes the wait list have two members, lets two threads compete to be the next collector while one is still
parked, and gives an empty slot a neighbour on both sides.  `MaxCollections` counts collections until it is reached
and then lets allocations find room unless a collection is already announced, so every behaviour contains complete
collections, competing requests for one, and a second one right after the first.  `Full` is the only action it
restricts.  The third collection is for the event of the first: a waiter may sleep through a whole collection of another thread and be
waited for in the next.  A behaviour may end (`CHECK_DEADLOCK FALSE`) because all threads of the program have ended, the table is
full, or in a `Circle`.

Not in a run, though the model has it:

- An empty slot below a used one, left by a thread that ended or was created and never started, makes the scan miss all
  later threads (corex60.asm:222, `ScanEmpty` and `ScanSlot`).  With three threads, of which the one in slot 1 ends, `ListComplete` fails.
- A thread registers between the scan and the end of the collection; thread_start does not look at `gc_signal`
  (system.core_routines.esm:3007).  With one created thread `WorldStopped` fails.
- exclude stores `tt_flags` before the frame (corex60.asm:667).  With one external caller `RootsPublished` fails, too.
- With more threads to wait for than `WaitLimit` (64 on Windows, where `mt_win_console60.cfg` allows 1024) the wait fails and
  the collection starts at once: with three threads and a limit of 1 `WorldStopped` fails.
- A thread that asked for a collection explicitly and finds one announced jumps to labStart after it, without the lock it has
  given up (corex60.asm:201), and frees it later.  With two threads that collect explicitly `LockDiscipline` fails.
- Without the exceptions the liveness properties fail: for `Circle` two allocators and two collections are enough (corex60.asm:238 resets
  the event that 362 has set), for `Abandoned` one collection (gcroutines.cpp:479).
- A thread on the wait list that starts an external call has no safe point before `exclude` (corex60.asm:663); if that call waits for
  the collecting thread (`JoinTarget`), both wait for ever.
- A permanent allocation that has waited is repeated by GC_ALLOC in the young generation (corex60.asm:475; `EnterCollect` sets
  `routine` to `"alloc"`).

### Fairness

`FairSpec` assumes that the operating system runs every thread (WF on the steps of the runtime),
that a thread spinning on `gc_lock` wins it some time when the lock is free again and again (SF: a spin
with cmpxchg gives no order, but no schedule starves one thread for ever), and that a loop comes
back to its safe point (SF on `LoopSafePoint`: saveLoop puts one at the head of every loop, but the loop
may do other things between).  No fairness is assumed of what compiled code chooses to do
otherwise: it need not allocate, call or end.

## 3. GCHeap

### State

| Variable | Code |
|---|---|
| `mem[p]` | the `ObjectPage` header that page `p` starts with: its size in pages, the collected mark (the sign of `size`), `vmtPtr`, and the references of the fields.  Pages inside an object, and pages never written, read as zeros |
| `cards` | `gc_mg_wbar`: the pages whose byte is not zero |
| `table` | `GCTable`, with the names of its fields; addresses are pages counted from `gc_start` |
| `root[r]` | the words of the frames and of the static area, which the collector gets as `GCRoot`s |

An object has an identity, which stands for its class and data and lies where the vmt does: when the collector overwrites a
vmt by a forwarding address, the identity is gone as the class is in the code.

### Actions

`New` is newir, newnr and createnr: GC_ALLOC takes the object from the young generation if it ends below `gc_yg_end` (`jae`:
not at it), else calls `GCRoutine`.  `NewPermanent` is xcreater with GC_ALLOCPERM.  `Assign` is assign and assigni with the
write barrier, for a permanent object xassign.  `Get` is geti.  `Drop` is a frame that is left.  `Collect` is system 1 (minor)
and system 2 (full).  A collection is one step, because the world is stopped around it, which is the subject of section 2.
Inside it the code is followed loop by loop: `YGCollect`, `CollectMG2YGRoots`, `CollectPermYGRoots` and `SwitchHalves`
make up `MinorCollect`; `MarkRoots`, `CompactAndPromote` and `Finish`, with `MGCollect`, `SkipPermanent`, `Compact` (mature, then
young), `FixObject` and `FixPermanent`, make up `FullCollect`; `GCRoutine` decides between them and grows the heap.  Each stage is an operator whose
parameter is the state the stage before has left.

Choices worth knowing:

- Headers that compaction leaves behind `gc_mg_current` keep their mark and size, because the loop of `SkipPermanent` does not look at the
  end of the generation.  What else lies there is forgotten, as is the half that a minor collection has left: it is
  written before it is read.
- The mapping table and the cards share their bytes (`EntrySize`, `AddressBytes`): page `i` has byte `i` as its card and the eight bytes from
  `8 i` as its entry.  Cards are cleared up to `gc_end`; entries behind stay.
- The recursions of the code (`YGCollect`, `MGCollect`, `FixObject`) are recursive functions of the depth that is left, over the loop that
  visits the words of one object (`YGVisits`, `MGVisits`, `FixVisits`).  An object is entered once, so `MaxDepth`, one more than the pages of the
  heap, never cuts a recursion off; the proofs of section 8 show it.  A loop over headers is a recursive function of its turns.
- A live object is one that `Reach` finds from the roots and the permanent objects.
- Differences of addresses are unsigned in the code, so they wrap (`Minus`), here at `WordSize`, far above every address.
- `ExpandHeap` before a promotion is not checked in the code.  A behaviour ends at `Limit` in that case (`Become`); before an
  allocation in the mature generation it is checked, and `New` fails with the error and the heap as it is.
- Words are references.  Numbers that look like references, which the collector would change, are left out.
- Collections take the mode of the multi-threaded core.  In the single-threaded core system 2 leaves edx to chance (a hazard in
  `PROJECT.json`).

### ObjectGraph

`ObjectGraph.tla` has no addresses.  There are objects with a size and fields, roots, and permanent objects; what cannot be reached
is forgotten at once; the program creates, links, reads and drops.  `ImplementsObjectGraph` maps every reachable
object of the heap to its identity and every reference to the identity it finds at its target: a
collection must be a stuttering step.  An object that is lost, copied twice, moved without one of its references, or whose fields
are mixed up with another's changes the graph and violates it.

### Runs

| Run | Expect | Question | Bounds |
|---|---|---|---|
| heap_graph | pass | Does the program see the graph of `ObjectGraph`, whatever is collected? | halves of 2 pages, mature generation of 1 page that grows to 2, 2 roots, 2 objects of 1 or 2 pages |
| heap_growth | pass | Is the heap in order: are live objects where the collector's walks find them, unmarked and unique, and does every reference to a young object have its card, also when the memory is exhausted? | halves of 1 page, mature generation of 1 page that grows to 3, a permanent page, 2 roots, 2 objects of 1 or 2 pages |
| heap_bounds | violation | Stale marked headers are taken for live objects; the mature generation passes `gc_end` | halves of 2 pages, heap of 6 that grows to 8, 1-page objects |

`TypeOK` bounds the areas; `LiveObjectsInPlace` and `CardsComplete` are what the next minor collection relies on;
`MatureInBounds` is what a comment of the code counts on and the code does not keep.  `HeapInv` is the inductive invariant of section 8: it implies
the three, and says of all objects, also of those that cannot be reached any more, that the walks find them and that their references are to objects.

Why the bounds are enough.  Two objects are the smallest graph with sharing, cycles, self-references and a reference between the generations in each
direction; objects of two pages have a page without a header, so that a wrong stride shows, and two fields, so that mixed-up fields do.  `Objects` are
identities, reused when unreachable, so behaviours have any number of allocations.  With a half of one page every second allocation
collects, and an object of two pages goes to the mature generation at once; with halves of two pages objects are copied next to each other
and promoted together.  Compaction has to
move objects over each other, and the heap grows until it is exhausted.  In both passing runs the mature generation stays
inside the committed heap: `Limit` leaves no room for a stale header behind a full generation, which takes the heap of
heap_bounds.

Not in a run, though the model has it: the mapping table and the cards share their bytes, and cards are cleared only up to
`gc_end` (gcroutines.cpp:415), so a heap that has grown (line 476) finds table entries as cards, also in the middle of an object.  In heap_growth
this happens and does no harm, because pages inside an object read as zeros; in the code they hold the object's data, which would be
read as a header.  `CardsComplete` says that no card is missing, not that none is set too much.  So the passing runs show the collector
right where stale headers and stray cards have no consequences, and no more than that.

## 4. Tasks, the pool and its queue

### State

`BlockingQueue.tla` (`blockinglists.l`, `collections/threadsafe/queues.l`):

| Variable | Code |
|---|---|
| `array`, `top`, `tale` | the fields of ConcurrentQueue; a cell keeps its element after it was taken |
| `permits` | the count of the semaphore |
| `at[t]` | which half of push or pop thread `t` has done: `pushed` is stored and not released, `granted` is let through and has not taken |
| `got[t]` | what its last pop returned |

`Tasks.tla` (`tasks.l`, `threadpool.l`, `templates.l`):

| Variable | Code |
|---|---|
| `completed`, `failed`, `continuation` | `_completed`, `_exception` (nil or not), `_continuation` of each task |
| `remaining`, `unregistered`, `anyFailed` | the variables whenAll's closure captures, and its loop |
| `position` | the await an async method has come to |
| `pc`, `task`, `cont`, `ex` | each thread: the place, the task it works on, the continuation it took, the exception it carries |
| `signalled[t]` | the event that thread `t` waits for |
| `ran[t]` | how often the client's continuation of a task has run |
| `scenario`, `todo` | the pool and the program of a behaviour, and the calls not made yet |

### Actions

A block under a lock is one step, because what it touches is touched only under that lock; what the code reads or writes
outside is a step of its own.  `CallRun`, `CallThen`, `CallWait`, `CallAll`, `CallAsync` are the client's calls; `ContinueWith`
has the three outcomes of continueWithUnsafe.  `WaitCheck`, `WaitRegister`, `WaitEnd` are wait, which looks at `_completed` without the lock and
again under it.  `Complete` is complete up to the unlock, and `SetEvent`, `RunUser`, `CountRead` ... `CountTest`, `Proceed`
are the continuations it calls: of wait, of a client, of whenAll and of an async method.  whenAll reads and writes its exception and compares
its counter without a lock, so these are four steps.  `Fetch`, `Dispatch`, `JobEnds`, `JobRunsJob` are a worker.
`Pushed` is the second half of a push, which other threads may overtake.

A program is a set of calls, made in any order that creates a task before it is used.  Where the code raises (a second
continuation, complete of a completed task), the exception goes where the code lets it go: to the client, whose
handler is assumed, into the job, which fails by it, or out of the worker's loop, which ends the program (`raised`).

### Fifo

`Fifo.tla` is a sequence: a push appends, a pop takes the head.  `ImplementsFifo` maps the sequence to
the cells between `top` and `tale`.  The reuse of cells and the way back to index 0 must be invisible.

### Runs

| Run | Expect | Question | Bounds |
|---|---|---|---|
| tasks | pass | Is a continuation run once, a waiter woken, an async method run in order, does whenAll end after all its tasks, whatever completes and registers meanwhile? | five programs: `AllOnOne`, `AllOnTwo`, `WaitsOnTwo`, `NestedOnOne`, `AsyncOnTwo`; 3 jobs, 1 or 2 workers |
| tasks_when_all | violation | whenAll with two workers: both count down before either compares, and both complete the task | `AllOnTwo` |

`PopFindsElement` and `ImplementsFifo` are the queue.  `WaiterIsRemembered` and `SignalledIsCompleted` say that no wakeup is lost and none comes
too early; `ContinuedOnce` that a continuation registered while its task completes runs, at most once, and not before; `AllAfterAll`
that the task of whenAll completes after all others, on one worker and on two; `AsyncInOrder` that an async method's
body is run by one thread at a time and fails by a task it awaits.  `CompletedByOwner` says that a job or an async method is completed by one
thread; `CompletedByOne`, which says it of every task, is what tasks_when_all refutes.
`WaitEnds` is liveness: a program that waits goes on, unless all workers wait for tasks that no worker is left
to run (`Starved`), which the pool allows (`NestedOnOne` reaches it, so the run does not check deadlock), or an exception has left
a worker and ended the program, as it may in `AllOnTwo` by the error of tasks_when_all (`Alive`).

Why the bounds are enough.  Two workers and the main thread make three parties: one that completes, one that registers, and one that
overtakes either between the halves of a push or pop.  Two jobs are what whenAll needs to have a first and a last; the third is nested.  The programs
together have every pair of continuations on one task (a wait, a client's, whenAll's, an async method's).  `AllOnOne` and `AllOnTwo`
are whenAll without and with a second worker in its continuation.

Fairness: every thread that can take a step takes one in the end (weak fairness for each thread while the
program is alive), and the actions of jobs end.  The client need not make a call.  No order among workers is assumed.

Assumptions: a task is started once, by the program or by one job (`CreationAssumption`: `start` is public, and a task started twice is
completed twice, the second time with an exception in its worker); continuations of clients do not raise, the client handles the exceptions of wait and continueWith, the
maximum of the semaphore is never reached, and events have one waiter and one setter.

Not in a run, though the model has it: on two workers whenAll may lose a failure.  A worker reads `e` as nil, another stores its exception and counts
down, and the first stores nil over it (tasks.l:172, `CountRead` and `CountStore`; waitAll has the same at 142); the task ends without an exception although one of
its tasks failed, and `waitAll` returns as if all had succeeded (`AllOnTwo`).  Not in a run: whenAll of no tasks registers no
continuation, so its task never completes (tasks.l:188; `CallAll` with no jobs has it); an action that raises outside Task.run ends its worker
(threadpool.l:20).

## 5. PermVectorTable

| Variable | Code (`system/runtime/vectortable.l`) |
|---|---|
| `array`, `free`, `current`, `next` | the fields Array, Free, Current, Next of each chain item, numbered in the order of their creation |
| `first`, `chainItem` | `_firstChainItem`, `_chainItem` |
| `pc`, `client`, `item`, `index` | a call of allocate between the choice of a cell and its assignment |
| `pointer[k]` | the cell that client `k` of the table, a thread handle or a form, has a pointer to |

`Registers` says which object a client registers.  Two clients may register the same one, as two threads started with one Func do
(handlers.l:36), and `Release` clears the first cell that holds the object, whichever client releases.
`AllocateHere`, `AllocateRearranged` and `AllocateNew` are the three ways allocate finds an item; `Fill` assigns the cell, and
`Release` is release with remove.  The search from Current on is in `ScanEnds`, which may end at `Length`, outside the array.
`Chain` is what a walk from `_firstChainItem` passes.

Run perm_table: one caller, four clients of three objects, in arrays of two cells and up to four items.  `ScanInArray` says that the counters, which
releases do not touch, never promise a cell that is not there; `StaysRooted` that an object stays in as many cells as it has
clients, when another client of the same object has released it, too.  Four clients overflow
two items, so that items are rearranged with holes in each position; calls follow one another.  The run may stop when the items
are used up (`MaxItems`), so deadlock is not checked.

Not in a run, though the model has it: nothing locks the table.  With two callers both may choose the same cell, and the one that fills it second takes
the cell from the object of the first, which is no longer a root (vectortable.l:55 and 58): `StaysRooted` fails, and the thread that starts first runs the function of the
other.  With three clients and two callers a rearrangement between the two steps of another allocation leaves `Current` behind the cells that `Free` counts, and
the next search runs out of the array (line 60): `ScanInArray` fails.  A client that has released before the other client of its object leaves that other one
with a pointer to a cell which may be cleared; no client in the repository both releases and shares its object.
A new item refers to the item walked last and nothing refers to it (line 159), so a walk from `_firstChainItem` passes
the first item only: releases do not find the objects in later items, and their cells stay taken.  The table grows by that; no
object loses its cell.  An object that a release does not find stays a root for ever.

## 6. TextHistory

| Variable | Code (`gui/text.cpp`, TextHistory) |
|---|---|
| `buffers`, `active`, `previous` | `_buffer1`, `_buffer2`; which of them `_buffer` and `_previous` are |
| `offset` | `_offset`, as a number of records |
| `writer` | `_writer`: last operation, position, length; operation `none` when no record is open |
| `text` | the text, as its watcher sees it change |

`OnInsert`, `OnErase`, `Undo`, `Redo` are the four operations.  `Write` follows writeRecord branch by branch: extend the open
record, close it and begin one, or write a part that fits, switch buffers and leave the rest.  `WriteOperation` calls it until nothing is left, as
writeOperation calls itself; it makes at most one call more than the line has characters, and a theorem says that they are enough.  A
record's size is counted with the sizes of the code, so that a buffer fills up as the code's does.

`LinearHistory.tla` is the promise: the edits done and the edits taken back lie on one line of single-character edits, undo and redo move along it,
and a new edit ends it.  It may forget the oldest edits on a change and the newest on an undo, because the
buffers do.  `ImplementsHistory` maps the line to the records on both sides of `_offset`.

Run history: buffers of 9 with sizes of 1, so that two records of one letter fit, texts of up to 2 characters over 2 letters.  Every edit may be split, extended
or forgotten; all sequences of edits, undo and redo are explored, without deadlock.  `CapacityKept` says that an open record leaves room for
its end; `OneOpenRecord` that the writer goes on only with the record that is open.

What the run shows the history not to promise, and LinearHistory allows: after stepping back into the previous buffer the newer buffer's edits
cannot be redone; an extension that fits exactly leaves an empty record, so that one undo does nothing.

## 7. DebugController

| Variable | Code (`ide/debugcontroller.cpp`, `idecontroller.cpp`, `ldebugger/windows/win32debugprocess.cpp`) |
|---|---|
| `modelRunning`, `ui`, `command`, `asked` | IDEModel::running; where the user-interface thread is and in which command; Stop was pressed |
| `started`, `running`, `autoNextLine` | `_started`, `_running`, `_postponed.autoNextLine` |
| `session`, `dbg[s]` | the sessions begun; where the debugger thread of each is |
| `open`, `events` | the event handles exist; those that are set (DEBUG_CLOSE, SUSPEND, RESUME, ACTIVE) |
| `processStarted`, `current`, `trapped`, `hook`, `exception` | the fields of the debug process |
| `debuggee`, `report`, `doomed` | the program under the Windows debugging interface, the event it has reported, and whether it is being terminated |
| `patient` | the user: one who gives no command between Stop and the end of the session, or any other |

A step is what lies between two uses of the shared events and flags.  `DoDebugAction` ... `SetClose` are the user interface, `StartProgram` ... `Reset` the
debugger thread, named after the branch of debugThread they are; `OnDebuggerStep`, `OnDebuggerNoSource`, `OnDebuggerStop` are the window messages, which
block the debugger thread until they are handled.  `DoDebugAction` has the guard of doDebugAction, which asks IDEModel::running and nothing else
(idecontroller.cpp:1742), so a command may follow Stop at once; `LaunchRefused` are the ways in which onDebugAction starts nothing.  `Report` is the program, which is external.  `Lowest` is waitForAnyEvent:
the first event of the array wins.

Run debug: two sessions, every command and report in every order, for a patient user and for one who is not.
`OneDebugger`, of every user: two debugger threads are never at work on a program.  While the old one still has its reset and its last message to do, a new
session may begin; the old one comes no more near the program's events.  The others are about a patient user.  `StoppedIsHeld`: while that user may give a command,
the program is held and no event is set.  `CommandAnswered`, `StopAnswered`: no command and no Stop is lost.  A session that follows another is the smallest
case of what one may leave for the next; within a session the events bound the state.  The behaviour may end when the
sessions are used up, so deadlock is not checked.

Fairness: both threads run (WF on the user interface and on each debugger thread), a message sent is handled before the user's next input for ever (SF), and a
terminated process reports its exit.  The user and the program need do nothing, and the liveness properties assume a user who
does not press Stop for ever: its event comes before all others and would starve them.

Not in a run, though the model has it, when the user gives a command after Stop without waiting:

- A session begins while the old debugger thread is in onStop.  The reset of the old one then disarms the hook and
  clears the thread of the process that both share, and its last message sets IDEModel::running to false and the documents to writable while the new program is
  under the debugger (debugcontroller.cpp:402, idecontroller.cpp:1941-1942), which CHANGELOG.md:581 calls fixed ('the document is in read-only mode during the debugging').
- A step, or run, that has passed its guard sets `_started` after the debugger thread has ended and onStop has cleared it
  (debugcontroller.cpp:486, 421).  The flag stays, every later command returns at its guard and leaves IDEModel::running set, and Stop does nothing: the commands of
  doc/lang/manual.md:96 are no longer answered.  `CommandAnswered` without `patient` fails, with one session already.

And for every user: `run` uses the current thread after it has set RESUME, and the pointer may be null by then
(line 424; the place `crashed`); a trap reported just before the termination answers Stop with a stopped program, and Stop has to be
pressed again (line 278).  Left out: breakpoints, source lines and the watch, which are data, and with them the list of breakpoints both threads use
(idecontroller.cpp:1041 and 1099); the debuggee's own threads; CreateThread that fails, after which startThread spins for ever
(debugcontroller.cpp:553).

## 8. Proofs

All of it is checked by TLAPS, for every value of the constants under the assumptions named.

`StopTheWorld_proofs.tla`, for every number of slots and every program without explicit collections (`NoExplicitCollection`):

- `RuntimeInvariant`: `Spec => []RuntimeInv`; from it `LockSafety`, `TableSafety`, `TypeSafety`, `ScanSafety`.
- `CollectorInvariant`, `CollectorSafety`, `ClaimSafety`, if also the heap can grow (`~HeapMayFail`).

`LockDiscipline` is not inductive: the lock is freed by adding -1, so one needs that only a holder frees it, which
needs that a thread released from a collection goes on at a place without the lock.  That is
`RetryTakesLock`, about `cont` and `routine`, and it holds only when nobody collects explicitly: for `routine = "gc"` the
code jumps to labStart, and then frees a lock it does not hold.  `RuntimeInv` is the conjunction of the type
invariant, `RetryTakesLock`, the table, the scan and the lock; one lemma per conjunct shows that a step keeps it, with a
step of the proof for each group of actions that can disturb it.  `CollectorSafety` adds the announcement on top of the lock: the
claim is made with the lock held, so two claims cannot meet.

The same module, for `ClosedWorld`: all threads are there from the start, use the allocators and loops only,
fit in one wait call, and the heap can grow.

- `ClosedInvariant`: `Spec => []AllInv`, the inductive invariant.
- `StoppedWorld`, `AllRootsPublished`, `CompleteList`: `WorldStopped`, `RootsPublished`, `ListComplete`.
- `SafepointRefinement`: `Spec => ImplementsSafepoint`.

The argument.  An event may be set because its thread has stopped or because that thread has ended a collection, and the
collector cannot tell which.  `ClosedInv` says why it never confuses the two.  The scan resets every event under the lock, so no
thread can stop meanwhile (`ScanInv`, `ListedInv`).  From then on an event is set only by a thread that stops, whose handle is that of the current
collector (`HandleIsCurrent`: gc_signal cannot change between the unlocked read and the stop, because the collection cannot run
before that thread has stopped), and such a thread cannot go on, because the collector's own event is clear (`AwaitInv`,
`CollectInv`).  The event that ends a collection is set after gc_signal is cleared and outside the lock; `EndInv` says that until then
everybody is still stopped, so nobody can have started the next scan.  With external calls this last step fails: a thread that
comes back is not stopped (see section 2).

`GCHeap_proofs.tla`, on top of `GCCollect_proofs.tla`, for every size of the halves, the heap, its increment and the permanent area below `WordSize`
(`SizeAssumption`), every number of roots and every set of shapes (`ProgramAssumption`):

- `HeapInvariant`: `Spec => []HeapInv`; from it `HeapTypeOK`, `HeapLiveObjectsInPlace` and `HeapCardsComplete`.
- `HeapImplementsObjectGraph`: `Spec => ImplementsObjectGraph`: no program can see a collection.

`NameAssumption` says that `NoObject` is not an object and `Forgotten` not a content, the two values that stand for nothing.  As in the runs, a
step that would leave the memory behind `Limit` does not happen (`Become`): an unchecked `ExpandHeap` is no step of a behaviour.

None of the properties is inductive, because a collection does not only touch what is live: it walks over dead objects, and copies what a dead mature object with
a card refers to.  `HeapInv` is about all of them.  `HeapOK` says of a state that the objects of each area tile its part in use (`Covered`), that roots and objects
refer to objects (`Closed`), that nothing else has references (`Rest`), that the cards are complete (`Carded`), and that every object has a shape
(`Shaped`); `Unique`, that no two live objects have one identity.

A minor collection.  In the middle of a recursion the old object has its forwarding address and the copy has its header but no fields yet, so the invariant of `YGCollect`
cannot say that copies refer to copies.  It says what a call that returns has done (`YGResult`, `YGStep`): all it has entered is copied, what it has finished refers to
copies, and what others have begun is as it was.  The proof is by induction over the depth (`YGDepths`), and in it over the words (`VisitsAll`).  The depth is
enough because what is left to copy has fewer pages with each object that is entered (`Left`), and the shadow half has room for the copies for the same reason.  Permanent objects and
the mature ones with a card are visited after the roots (`PermCollected`, `MatureCollected`); those without a card have no young references by
`Carded`, which is why the cards must be complete and not only right for live objects.

A full collection.  `MGCollect` marks the smallest set that contains the roots and is closed under references (`AllMarked`): closed by
the induction over the depth, smallest because every marked object is in each closed set.  The moves go from low to high pages and the new place of an object is never
behind the old one, so an object is read before it is written over (`Compacted`, `RegionMoved`); promoted objects move from one area to another, to memory behind the last that was moved.
`FixObject` starts at the same roots and stops at objects without a mark.  It reaches whatever `MGCollect` did, because what
it has fixed is closed and contains the roots (`FixedAll`): no mark is left for the next collection.  Old headers behind the end may be skipped as well (`InPlace`), which is the
finding of heap_bounds; in a heap that stays below `Limit` they do no harm, and that is proved, too.

The program.  Both collections, `Expand` and their combinations in `GCRoutine` leave a heap in which objects have only moved (`Relocated`, `SameGraph`): a bijection of the live
objects keeps identities, sizes and references.  Hence contents by identity are the same (`SameGraphView`) and the step is a stutter of `ObjectGraph`.  For a step of
the program, `PicturedUpdates` does the work: if a closed set of objects is as ObjectGraph's new contents say, then what is live are exactly the objects that
are reachable in these contents.  A new object is in memory no walk covers (`GivenClear`) and its identity is one that no live object has.

`BlockingQueue_proofs.tla`, for every finite set of threads and every set of values:

- `QueueInvariant`, `PopSafety`, and `FifoRefinement`: `QueueSpec => ImplementsFifo`.

`PopFindsElement` is not inductive.  The invariant counts (`Counted`): permits, threads between the halves of a pop, and threads between the halves
of a push together are the elements in the list.  A pop that was let through is one of them, so there is an element.  The refinement
needs that the cells between the indices are where the last reset left them: `PushAppends`, `PopRemovesHead`.

`Tasks_proofs.tla`, for every program, pool and finite set of jobs:

- `TasksInvariant`: `Spec => []TasksInv`; from it `TasksTypeSafety`, `SignalSafety`, `WaiterSafety`, `PoolPopSafety`.
- `PoolFifo`: `Spec => ImplementsFifo`, by way of `Spec => QueueSpec` and `FifoRefinement`: tasks and pool use the queue as it is meant.

`WaiterIsRemembered` is not inductive: it does not say that a waiter is remembered in one place only, and a second place would set an event of a later
wait.  `WaitInv` adds that: the continuation of an incomplete task, or the frame of one thread, names a thread that waits for
just that task with its event unset.  `PlaceInv` says what a thread's task is where it uses it, and `QueuedInv` that no
continuation of a wait goes through the pool.  Most actions are `Quiet`, which one lemma deals with.

The same module, for every program that starts a task once and every pool:

- `OnceInvariant`: `Spec => []OnceInv`; from it `ContinuedOnceSafety`, `AsyncSafety`, `AllAfterAllSafety` (a whenAll completes after all its jobs),
  `OwnerSafety` (a job and an async method are completed by one thread) and `OutcomeSafety` (the outcome of a completed task is final).

`ContinuedOnce` counts what ran and says nothing of what is still to run, so it is not inductive.  The invariant says where an action is: not made
yet, stored as the continuation of a task, in a cell of the queue, in the hands of one thread, or over; and that it is in one place only.  A
step may move an action from one place to the next, or create it in the first: `Holders` are the places that keep it, and `HolderStep` and `PlacesStep`
say for a step what must be shown so that no action gets a second place.  `UserInv`, `JobInv` and `AsyncInv` are that argument for a client's
continuation, for the action of a job, and for the rest of an async method, with what has happened already when the action is at that place.
`AllInv` is about whenAll: its counter is not below the number of jobs that are still to count down, so it
reaches 0 only when none is left, on any number of workers.

`PermVectorTable_proofs.tla`, for every length of the arrays, every set of objects and clients and every number of chain items, for calls one after another
(`OneCaller`):

- `TableInvariant`; from it `TableTypeSafety`, `ScanSafety`.

The invariant `FreeIsAhead` bounds `Free` by the number of empty cells from `Current` on.  A release adds an empty cell and changes no
counter, so it keeps the bound; a rearrangement counts anew and sets `Current` to 0; a fill takes one on both sides.

`DebugController_proofs.tla`, for every number of sessions:

- `UserInvariant`: `Spec => []UserInv`, for every user; from it `DebugTypeSafety` and `DebuggerSafety`.
- `DebugInvariant`, about a patient user; from it `StopSafety`.

`UserInv` says that a debugger thread at work is that of the last session, and that the controller is started unless that thread has not come to its first
command.  A session begins only while the controller is not started, and the user interface spins until the new thread waits; so none
is at work then.  `DebugInv` describes a session of a patient user by its phases (`Starting`, held, commanded, `Moving`, ending), in each of which only one
of the two threads can change events and flags, and says that every phase has one live debugger thread, of the last session.

`TextHistory_proofs.tla`, for every capacity, every size of the entries, all letters and every bound on the text, if the capacity has room for a record of one
character and the sizes are multiples of a character (`SizeAssumption`):

- `HistoryInvariant`: `Spec => []HistoryInv`; from it `HistoryTypeCorrect`, `HistoryKeepsCapacity`, `HistoryRecordsClosed`.
- `HistoryRefinement`: `Spec => ImplementsHistory`.

That the records are closed and fit does not say that they are about this text: `HistoryInv` adds that the texts between the records of a
buffer exist (`Versions`: each record fits the text before it and gives the next), and that the previous buffer and the one in use lead
to the text that is shown (`Leads`).  An edit takes several calls of write and as many buffers; between the calls the history leads to the text with the
part that was written, and what is left fits that text (`Goes`, `SplitEdit`).  An extension is one record of both edits (`JoinEdit`), which is
where the position of an erased record must stay and that of an inserted one must move.  Every call but the first finds an empty buffer and
writes a character (`Roomy`), so the calls are enough (`WriteOperationKeeps`).  Undo and redo go from one text to the next (`UndoMoves`, `RedoMoves`).
For the refinement, the edits of a split or an extended record are those of its parts (`LineEditsSplit`), the records one after the other give their edits one
after the other (`EditsOfConcat`), and edits taken back from the last to the first give the text before them (`AppliedBack`).

These are inductions over lines and records.  The library's induction theorems take an operator, which the provers cannot instantiate; `NatSetInduction` is
about a set instead and follows from `WFMin` for the order of the finite sets; in `GCCollect_proofs` it gives the inductions over depths, words and turns
of loops.  A recursive function is shown to exist by that induction and used
through its equation (`SizesDef`, `WritesDef`, `DoAllIs`, `FlattenIs`).

Only model-checked: liveness, which is out of the prover's reach, as is ENABLED; and the stop-the-world properties with thread creation,
exits and explicit collection beyond the theorems above, where they fail or need what the code's runs happen to do.  What is not proved because it is false is found by
the runs that expect a violation, or told under "Not in a run" of its section.

## 9. Plan

Done: `StopTheWorld`, `GCHeap`, `BlockingQueue` and `Tasks`, `PermVectorTable`, `TextHistory`, `DebugController`, each with its
abstract specification where it has one, and the theorems of section 8.  Left, in this order:

1. `Events`: ManualResetEvent, AutoResetEvent and CountDownEvent over the Windows and the pthread implementations.  Hazards are listed:
   the order of CreateEventA's arguments (events.l:27), the broadcast without a state (events.l:99), a mutex kept across a safe point (events.l:94),
   a countdown from 0 (events.l:206).
2. A composition of `StopTheWorld` with `GCHeap`, in which the world's collections are those of the heap; both share the
   interface that a collection is one step of a stopped world.
3. `GCHeap` with the data of objects in their pages, where a stray card does harm (section 3), and a compaction that looks at the end of the generation, for
   which `MatureInBounds` could be proved.

## 10. Not modelled

- Numbers and text in objects, and words that look like references (core60.asm:206); the placement of frames; dispatch and exceptions other than
  out of memory; the STA core's system 2, which leaves edx to chance (core60.asm:2182).
- The x32 core, which has the same protocol, and the Linux and macOS events, which implement the manual-reset events of section 2 with a mutex and a condition.
- The classes of `events.l` and `semaphores.l` (see the plan), Thread and ThreadHandle, which wrap system calls, and the instruction that
  locks an object.
- The compiler, the byte-code optimiser, the assemblers, the JIT linker, the VM's script machine, the library manager, the parsers, the tools and the
  sequential library.  They are nearly all of the code's lines, and transformations of trees and tables by one thread: a model of them would repeat
  the code statement by statement and have no interleavings to explore.  They are better tested, and the share of
  the source that this project maps stays small for that reason.
- Editor documents and views, projects and settings of the IDE: the state of one thread.

See `components` in `PROJECT.json`.
