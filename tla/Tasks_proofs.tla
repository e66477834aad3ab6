---------------------------- MODULE Tasks_proofs ----------------------------
(***************************************************************************)
(* For every pool, every set of jobs and every program: the pool's queue   *)
(* stays a first-in first-out queue whatever the tasks do with it, a       *)
(* thread is let out of a wait only by a completed task, and no thread     *)
(* that waits is forgotten.                                                *)
(*                                                                         *)
(* The argument: a waiting thread is remembered in one place, which is the *)
(* continuation of the task it waits for until that task completes, then   *)
(* the frame of the thread that completed it, then its own event.          *)
(***************************************************************************)
EXTENDS Tasks, BlockingQueue_proofs

\* Only jobs are run as jobs, and no continuation of a wait is in the queue.
QueuedInv ==
  \A i \in DOMAIN array :
    /\ array[i].cont = None => array[i].task \in Jobs
    /\ array[i].cont.kind # "set"

\* What a thread holds at the places where it uses it.
PlaceInv ==
  /\ pc[Main] \notin {"pop", "job"}
  /\ \A th \in Threads :
       /\ pc[th] = "job" => task[th] \in Jobs
       /\ pc[th] = "await" => position # 0
       /\ pc[th] \in {"complete", "continue"} => task[th] \in Tasks
       /\ pc[th] \in {"wait", "waitLock", "waiting"} => Target(th) \in Tasks /\ task[th] \in Tasks
       /\ pc[th] \in {"wait", "waitLock", "waiting"} /\ th # Main => task[th] \in Jobs

SetOf(th) == Continuation("set", th)

\* th is about to set the event of u
Carries(th, u) == pc[th] = "continue" /\ cont[th] = SetOf(u)

\* A waiting thread is remembered in one place.
WaitInv ==
  /\ \A t \in Tasks, th \in Threads : ~completed[t] /\ continuation[t] = SetOf(th) =>
       pc[th] = "waiting" /\ ~signalled[th] /\ Target(th) = t
  /\ \A th, u \in Threads : Carries(th, u) =>
       pc[u] = "waiting" /\ ~signalled[u] /\ completed[Target(u)]
  /\ \A th, v, u \in Threads : Carries(th, u) /\ Carries(v, u) => th = v
  /\ SignalledIsCompleted
  /\ WaiterIsRemembered

TasksInv == TypeOK /\ QueueInv /\ QueuedInv /\ PlaceInv /\ WaitInv

Lasting == TypeOK /\ QueueInv /\ QueuedInv /\ PlaceInv

-----------------------------------------------------------------------------
(* The queue *)

LEMMA ActionTyped ==
  ASSUME NEW c \in Continuations, NEW t \in Tasks
  PROVE  /\ Call(c, t) \in Values /\ Call(c, t).cont = c /\ Call(c, t).task = t
  BY ValuesAssumption DEF Call, PoolActions

LEMMA NoneTyped == None \in Continuations /\ None.kind = "none"
  BY MainAssumption DEF None, Continuation, Continuations

LEMMA JobTyped ==
  ASSUME NEW j \in Jobs
  PROVE  RunJob(j) \in Values /\ RunJob(j).cont = None /\ RunJob(j).task = j /\ j \in Tasks
  BY ActionTyped, NoneTyped DEF RunJob, Tasks

LEMMA KindTyped ==
  ASSUME NEW kind \in {"none", "set", "user", "count", "proceed"}, NEW th \in Threads
  PROVE  /\ Continuation(kind, th) \in Continuations
         /\ Continuation(kind, th).kind = kind /\ Continuation(kind, th).by = th
  BY DEF Continuation, Continuations

\* What an awaited or a nested job is.
LEMMA ScenarioTyped ==
  ASSUME TypeOK
  PROVE  /\ scenario.awaited \in Seq(Jobs)
         /\ scenario.nested \in [Jobs -> Jobs \cup {NoTask}]
         /\ scenario.workers \subseteq Threads \ {Main}
         /\ Jobs \subseteq Tasks
  BY ScenarioAssumption DEF TypeOK, ScenarioType, Tasks

\* continueWith pushes a value the queue may hold, or leaves the queue alone.
LEMMA ContinueQueued ==
  ASSUME QueueInv, QueuedInv, NEW th \in Threads, NEW t \in Tasks, NEW c \in Continuations,
         c.kind \notin {"none", "set"}, NEW next, NEW conflict, ContinueWith(th, t, c, next, conflict)
  PROVE  [QueueNext]_queueVars /\ QueuedInv'
<1>1. CASE UNCHANGED queueVars
  BY <1>1 DEF QueuedInv, queueVars
<1>2. CASE ListPush(th, Call(c, t))
  <2>1. Call(c, t) \in Values /\ Call(c, t).cont = c /\ c # None
    BY ActionTyped, NoneTyped
  <2>2. QueuedInv'
    BY <1>2, <2>1 DEF ListPush, Store, QueuedInv, QueueInv, QueueTypeOK
  <2> QED
    BY <1>2, <2>1, <2>2 DEF QueueNext
<1> QED
  BY <1>1, <1>2 DEF ContinueWith

LEMMA JobQueued ==
  ASSUME QueueInv, QueuedInv, NEW th \in Threads, NEW j \in Jobs, ListPush(th, RunJob(j))
  PROVE  [QueueNext]_queueVars /\ QueuedInv'
<1>1. RunJob(j) \in Values /\ RunJob(j).cont.kind # "set" /\ RunJob(j).task \in Jobs
  BY JobTyped, NoneTyped
<1>2. QueuedInv'
  BY <1>1 DEF ListPush, Store, QueuedInv, QueueInv, QueueTypeOK
<1> QED
  BY <1>1, <1>2 DEF QueueNext

\* Every step of the program or the pool is a step of the queue, or leaves it alone.
LEMMA QueueStep ==
  ASSUME Lasting, [Next]_vars
  PROVE  [QueueNext]_queueVars /\ QueuedInv'
<1> USE DEF Lasting
<1>1. ASSUME NEW j \in Jobs, CallRun(j) PROVE [QueueNext]_queueVars /\ QueuedInv'
  BY <1>1, JobQueued, MainAssumption DEF CallRun
<1>2. ASSUME NEW t \in Tasks, CallThen(t) PROVE [QueueNext]_queueVars /\ QueuedInv'
  BY <1>2, ContinueQueued, KindTyped, MainAssumption DEF CallThen
<1>3. ASSUME NEW j \in Jobs, Register(j) PROVE [QueueNext]_queueVars /\ QueuedInv'
  BY <1>3, ContinueQueued, KindTyped, ScenarioTyped, MainAssumption DEF Register
<1>4. ASSUME NEW th \in Threads, AsyncAwait(th) PROVE [QueueNext]_queueVars /\ QueuedInv'
  <2>1. position \in 1 .. Len(scenario.awaited)
    BY <1>4 DEF AsyncAwait, Ready, TypeOK, PlaceInv
  <2>2. scenario.awaited[position] \in Tasks
    BY <2>1, ScenarioTyped
  <2> QED
    BY <1>4, <2>2, ContinueQueued, KindTyped, MainAssumption DEF AsyncAwait
<1>5. ASSUME NEW th \in Threads, JobRunsJob(th) PROVE [QueueNext]_queueVars /\ QueuedInv'
  <2>1. scenario.nested[task[th]] \in Jobs
    BY <1>5, ScenarioTyped DEF JobRunsJob, Ready, PlaceInv
  <2> QED
    BY <1>5, <2>1, JobQueued DEF JobRunsJob
<1>6. ASSUME NEW th \in Threads, Pushed(th) \/ Fetch(th) \/ Dispatch(th)
      PROVE  [QueueNext]_queueVars /\ QueuedInv'
  <2>1. UNCHANGED array
    BY <1>6 DEF Pushed, Fetch, Dispatch, Release, SemaphoreWait, ListPop
  <2> QED
    BY <1>6, <2>1 DEF QueuedInv, Pushed, Fetch, Dispatch, QueueNext
<1>7. ASSUME UNCHANGED queueVars PROVE [QueueNext]_queueVars /\ QueuedInv'
  BY <1>7 DEF QueuedInv, queueVars
<1>8. ASSUME NEW th \in Threads,
             \/ WaitCheck(th) \/ WaitRegister(th) \/ WaitEnd(th)
             \/ Complete(th) \/ SetEvent(th) \/ RunUser(th)
             \/ CountRead(th) \/ CountStore(th) \/ CountDown(th) \/ CountTest(th)
             \/ Proceed(th) \/ AsyncNext(th)
             \/ \E raises \in BOOLEAN : JobEnds(th, raises)
      PROVE  UNCHANGED queueVars
  BY <1>8 DEF WaitCheck, WaitRegister, WaitEnd, WaitReturns, Complete, SetEvent, RunUser,
              CountRead, CountStore, CountDown, CountTest, Proceed, AsyncNext, JobEnds
<1>9. CASE \/ \E t \in Tasks : CallWait(t)
           \/ CallAll \/ CallAsync \/ Registered \/ UNCHANGED vars
  BY <1>7, <1>9 DEF CallWait, CallAll, CallAsync, Registered, vars
<1> QED
  BY <1>1, <1>2, <1>3, <1>4, <1>5, <1>6, <1>7, <1>8, <1>9 DEF Next, NewCall, Step

-----------------------------------------------------------------------------
(* Types, and what the threads hold at their places *)

Good == TypeOK /\ PlaceInv

\* continueWith keeps the types of what it changes.
LEMMA ContinueTyped ==
  ASSUME TypeOK, NEW th \in Threads, NEW t \in Tasks, NEW c \in Continuations,
         NEW next \in Places, NEW conflict \in Places, ContinueWith(th, t, c, next, conflict)
  PROVE  /\ continuation' \in [Tasks -> Continuations]
         /\ pc' \in [Threads -> Places]
         /\ pc' = [pc EXCEPT ![th] = next] \/ pc' = [pc EXCEPT ![th] = conflict]
  BY DEF ContinueWith, Goto, TypeOK

\* What a thread waits for stays while its task does.
LEMMA TargetStays ==
  ASSUME NEW th \in Threads, scenario' = scenario, task'[th] = task[th]
  PROVE  Target(th)' = Target(th)
  BY DEF Target

\* A thread comes to a place l with task v.
LEMMA MovedPlace ==
  ASSUME Good, NEW th \in Threads, NEW l \in Places, NEW v \in Tasks \cup {NoTask},
         scenario' = scenario, pc' = [pc EXCEPT ![th] = l], task' = [task EXCEPT ![th] = v],
         position # 0 => position' # 0, l = "await" => position' # 0,
         l \in {"pop", "job"} => th # Main,
         l = "job" => v \in Jobs, l \in {"complete", "continue"} => v \in Tasks,
         l \in {"wait", "waitLock", "waiting"} =>
           /\ IF th = Main THEN v \in Tasks ELSE v \in Jobs /\ scenario.nested[v] \in Jobs
  PROVE  PlaceInv'
<1> USE DEF Good, TypeOK, PlaceInv
<1>0. Jobs \subseteq Tasks
  BY ScenarioTyped
<1>1. pc'[th] = l /\ task'[th] = v /\ \A u \in Threads \ {th} : pc'[u] = pc[u] /\ task'[u] = task[u]
  OBVIOUS
<1>2. pc'[Main] \notin {"pop", "job"}
  BY <1>1, MainAssumption
<1>3. \A u \in Threads \ {th} : Target(u)' = Target(u)
  BY <1>1, TargetStays
<1>4. l \in {"wait", "waitLock", "waiting"} => Target(th)' \in Tasks
  BY <1>0, <1>1 DEF Target
<1> QED
  BY <1>0, <1>1, <1>2, <1>3, <1>4

LEMMA BooleanUpdate ==
  ASSUME NEW S, NEW f \in [S -> BOOLEAN], NEW x, NEW b \in BOOLEAN
  PROVE  [f EXCEPT ![x] = b] \in [S -> BOOLEAN]
  OBVIOUS

\* The Boolean variables, typed apart from the others.
Flags ==
  /\ completed \in [Tasks -> BOOLEAN] /\ failed \in [Tasks -> BOOLEAN] /\ anyFailed \in BOOLEAN
  /\ ex \in [Threads -> BOOLEAN] /\ signalled \in [Threads -> BOOLEAN]

\* Where a waiting worker is, its task is a job that runs a job.
LEMMA WaitPlace ==
  ASSUME Good, NEW th \in Threads, pc[th] \in {"wait", "waitLock", "waiting"}
  PROVE  /\ Target(th) \in Tasks /\ task[th] \in Tasks
         /\ failed[Target(th)] \in BOOLEAN
         /\ th # Main => task[th] \in Jobs /\ scenario.nested[task[th]] \in Jobs
<1>1. Target(th) \in Tasks /\ task[th] \in Tasks
  BY DEF Good, PlaceInv
<1>2. failed[Target(th)] \in BOOLEAN
  BY <1>1, Zenon DEF Good, TypeOK
<1>3. th # Main => task[th] \in Jobs /\ scenario.nested[task[th]] \in Jobs
  BY <1>1, ScenarioTyped, TaskAssumption DEF Good, PlaceInv, Target
<1> QED
  BY <1>1, <1>2, <1>3

\* The end of a wait.
LEMMA ReturnGood ==
  ASSUME Good, QueueTypeOK', NEW th \in Threads, NEW raises \in BOOLEAN, WaitReturns(th, raises),
         pc[th] \in {"wait", "waitLock", "waiting"}, UNCHANGED signalled
  PROVE  Good'
<1> USE DEF Good
<1>1. CASE th = Main
  <2>1. Flags'
    BY <1>1, Zenon DEF WaitReturns, taskVars, allVars, TypeOK, Flags
  <2>2. TypeOK'
    BY <1>1, <2>1 DEF WaitReturns, Goto, Places, TypeOK, Flags, taskVars, allVars
  <2>3. PlaceInv'
    BY <1>1, MovedPlace, "idle" \in Places, WaitPlace DEF WaitReturns, Goto, Places, TypeOK, allVars
  <2> QED
    BY <2>2, <2>3
<1>2. CASE th # Main
  <2>1. ex' \in [Threads -> BOOLEAN]
    BY <1>2, BooleanUpdate DEF WaitReturns, CompleteWith, TypeOK
  <2>2. Flags'
    BY <1>2, <2>1, Zenon DEF WaitReturns, taskVars, allVars, TypeOK, Flags
  <2>3. TypeOK'
    BY <1>2, <2>2, WaitPlace DEF WaitReturns, CompleteWith, Goto, Places, TypeOK, Flags, taskVars, allVars
  <2>4. PlaceInv'
    BY <1>2, MovedPlace, WaitPlace DEF WaitReturns, CompleteWith, Goto, Places, TypeOK
  <2> QED
    BY <2>3, <2>4
<1> QED
  BY <1>1, <1>2

LEMMA StartedFinite == Cardinality(Started) \in Nat
  BY JobsAssumption, FS_Subset, FS_CardinalityType DEF Started

\* The calls of the program.
LEMMA CallGood ==
  ASSUME Good, QueueTypeOK', NewCall \/ Registered \/ \E j \in Jobs : Register(j)
  PROVE  Good'
<1> USE MainAssumption DEF Good
<1>1. ASSUME NEW j \in Jobs, CallRun(j) PROVE Good'
  BY <1>1 DEF CallRun, Calling, TypeOK, PlaceInv, Target, taskVars, allVars, frameVars
<1>2. ASSUME NEW t \in Tasks, CallThen(t) PROVE Good'
  <2>0. pc[Main] = "idle" /\ UNCHANGED <<completed, failed, anyFailed, ex, signalled>>
    BY <1>2 DEF CallThen, Calling, Ready, allVars
  <2>1. pc' \in [Threads -> Places] /\ continuation' \in [Tasks -> Continuations]
        /\ pc' = [pc EXCEPT ![Main] = "idle"]
    <3>1. Continuation("user", Main) \in Continuations /\ "idle" \in Places
      BY KindTyped DEF Places
    <3> QED
      BY <1>2, <3>1, ContinueTyped DEF CallThen
  <2>2. TypeOK'
    BY <1>2, <2>0, <2>1 DEF CallThen, Calling, TypeOK, allVars
  <2>3. PlaceInv'
    BY <1>2, <2>0, <2>1 DEF CallThen, TypeOK, PlaceInv, Target
  <2> QED
    BY <2>2, <2>3
<1>3. ASSUME NEW t \in Tasks, CallWait(t) PROVE Good'
  <2>1. Flags'
    BY <1>3, Zenon DEF CallWait, Calling, taskVars, allVars, TypeOK, Flags
  <2>2. TypeOK'
    BY <1>3, <2>1 DEF CallWait, Calling, Ready, Goto, Places, taskVars, allVars, TypeOK, Flags
  <2>3. PlaceInv'
    BY <1>3 DEF CallWait, Calling, Ready, Goto, Places, taskVars, allVars, TypeOK, PlaceInv, Target
  <2> QED
    BY <2>2, <2>3
<1>4. CASE CallAll
  <2>0. remaining' \in Int
    BY <1>4, StartedFinite DEF CallAll
  <2>1. Flags'
    BY <1>4, Zenon DEF CallAll, Calling, taskVars, allVars, TypeOK, Flags
  <2>2. TypeOK'
    BY <1>4, <2>0, <2>1 DEF CallAll, Started, Calling, Ready, Goto, Places, taskVars, allVars, TypeOK, Flags
  <2>3. PlaceInv'
    BY <1>4 DEF CallAll, Calling, Ready, Goto, Places, taskVars, allVars, TypeOK, PlaceInv, Target
  <2> QED
    BY <2>2, <2>3
<1>5. CASE CallAsync
  <2>1. Flags'
    BY <1>5, Zenon DEF CallAsync, Calling, taskVars, allVars, TypeOK, Flags
  <2>2. TypeOK'
    BY <1>5, <2>1 DEF CallAsync, Calling, Ready, Goto, Places, taskVars, allVars, TypeOK, Flags
  <2>3. PlaceInv'
    BY <1>5 DEF CallAsync, Calling, Ready, Goto, Places, taskVars, allVars, TypeOK, PlaceInv, Target
  <2> QED
    BY <2>2, <2>3
<1>6. CASE Registered
  <2>1. Flags'
    BY <1>6, Zenon DEF Registered, taskVars, allVars, TypeOK, Flags
  <2>2. TypeOK'
    BY <1>6, <2>1 DEF Registered, Ready, Goto, Places, taskVars, allVars, TypeOK, Flags
  <2>3. PlaceInv'
    BY <1>6 DEF Registered, Ready, Goto, Places, taskVars, allVars, TypeOK, PlaceInv, Target
  <2> QED
    BY <2>2, <2>3
<1>7. ASSUME NEW j \in Jobs, Register(j) PROVE Good'
  <2>1. /\ continuation' \in [Tasks -> Continuations] /\ pc' \in [Threads -> Places]
        /\ pc' = [pc EXCEPT ![Main] = "register"] \/ pc' = [pc EXCEPT ![Main] = "idle"]
    <3>1. /\ Continuation("count", Main) \in Continuations /\ "idle" \in Places /\ "register" \in Places
          /\ j \in Tasks
      BY KindTyped, ScenarioTyped DEF Places
    <3> QED
      BY <1>7, <3>1, ContinueTyped DEF Register
  <2>2. Flags'
    BY <1>7, Zenon DEF Register, TypeOK, Flags
  <2>3. TypeOK'
    BY <1>7, <2>1, <2>2 DEF Register, TypeOK, Flags
  <2>4. PlaceInv'
    BY <1>7, <2>1 DEF Register, TypeOK, PlaceInv, Target
  <2> QED
    BY <2>3, <2>4
<1> QED
  BY <1>1, <1>2, <1>3, <1>4, <1>5, <1>6, <1>7 DEF NewCall

\* The steps of a thread inside a call or in the worker's loop.
LEMMA StepGood ==
  ASSUME Good, QueueInv, QueuedInv, QueueTypeOK', PopFindsElement', NEW th \in Threads,
         \/ Pushed(th) \/ WaitCheck(th) \/ WaitRegister(th) \/ WaitEnd(th)
         \/ Complete(th) \/ SetEvent(th) \/ RunUser(th)
         \/ CountRead(th) \/ CountStore(th) \/ CountDown(th) \/ CountTest(th)
         \/ Proceed(th) \/ AsyncNext(th) \/ AsyncAwait(th)
         \/ Fetch(th) \/ Dispatch(th) \/ JobRunsJob(th)
         \/ \E raises \in BOOLEAN : JobEnds(th, raises)
  PROVE  Good'
<1> USE DEF Good
<1>0. Home(th) \in Places /\ Home(th) \in {"idle", "pop"} /\ (Home(th) = "pop" => th # Main)
  BY DEF Home, Places
<1>1. CASE Pushed(th) \/ Fetch(th)
  BY <1>1 DEF Pushed, Fetch, TypeOK, PlaceInv, Target, taskVars, allVars, frameVars
<1>2. CASE WaitCheck(th)
  <2>1. CASE completed[Target(th)]
    BY <1>2, <2>1, ReturnGood, WaitPlace DEF WaitCheck, Ready
  <2>2. CASE ~completed[Target(th)]
    <3>1. pc[th] = "wait"
      BY <1>2 DEF WaitCheck, Ready
    <3>2. Flags'
      BY <1>2, <2>2, Zenon DEF WaitCheck, taskVars, allVars, TypeOK, Flags
    <3>3. TypeOK'
      BY <1>2, <2>2, <3>2 DEF WaitCheck, Goto, Places, TypeOK, Flags, taskVars, allVars
    <3>4. PlaceInv'
      <4>1. /\ scenario' = scenario /\ position' = position
            /\ pc' = [pc EXCEPT ![th] = "waitLock"] /\ task' = [task EXCEPT ![th] = task[th]]
        BY <1>2, <2>2 DEF WaitCheck, Goto, TypeOK
      <4> QED
        BY <3>1, <4>1, WaitPlace, MovedPlace DEF Places
    <3> QED
      BY <3>3, <3>4
  <2> QED
    BY <2>1, <2>2
<1>3. CASE WaitRegister(th)
  <2>1. CASE StillOpen(Target(th)) /\ continuation[Target(th)] = None
    <3>1. pc[th] = "waitLock" /\ SetOf(th) \in Continuations
      BY <1>3, KindTyped DEF WaitRegister, Ready, SetOf
    <3>2. signalled' \in [Threads -> BOOLEAN]
      BY <1>3, <2>1, BooleanUpdate DEF WaitRegister, NewEvent, TypeOK
    <3>3. Flags'
      BY <1>3, <2>1, <3>2, Zenon DEF WaitRegister, allVars, TypeOK, Flags
    <3>4. TypeOK'
      BY <1>3, <2>1, <3>1, <3>3 DEF WaitRegister, Goto, Places, TypeOK, Flags, allVars, SetOf
    <3>5. PlaceInv'
      BY <1>3, <2>1, <3>1, WaitPlace, MovedPlace DEF WaitRegister, Goto, Places, TypeOK
    <3> QED
      BY <3>4, <3>5
  <2>2. CASE ~(StillOpen(Target(th)) /\ continuation[Target(th)] = None)
    <3>1. (StillOpen(Target(th)) \/ failed[Target(th)]) \in BOOLEAN
      OBVIOUS
    <3> QED
      BY <1>3, <2>2, <3>1, ReturnGood DEF WaitRegister, Ready
  <2> QED
    BY <2>1, <2>2
<1>4. CASE WaitEnd(th)
  BY <1>4, ReturnGood, WaitPlace DEF WaitEnd, Ready
<1>5. CASE Complete(th)
  <2>0. pc[th] = "complete" /\ task[th] \in Tasks
    BY <1>5 DEF Complete, Ready, PlaceInv
  <2>1. completed' \in [Tasks -> BOOLEAN] /\ failed' \in [Tasks -> BOOLEAN]
    <3>1. ex[th] \in BOOLEAN
      BY Zenon DEF TypeOK
    <3> QED
      BY <1>5, <3>1, BooleanUpdate DEF Complete, TypeOK
  <2>2. Flags'
    BY <1>5, <2>1, Zenon DEF Complete, allVars, TypeOK, Flags
  <2>3. \E l \in {"raised", "idle", "pop", "continue"} : pc' = [pc EXCEPT ![th] = l] /\ (l = "pop" => th # Main)
    BY <1>0, <1>5 DEF Complete, Goto
  <2>4. cont' \in [Threads -> Continuations]
    BY <1>5, <2>0 DEF Complete, TypeOK
  <2>5. pc' \in [Threads -> Places]
    BY <2>3 DEF Places, TypeOK
  <2>6. TypeOK'
    BY <1>5, <2>2, <2>4, <2>5 DEF Complete, TypeOK, Flags, allVars
  <2>7. PlaceInv'
    BY <1>5, <2>0, <2>3, MainAssumption DEF Complete, TypeOK, PlaceInv, Target
  <2> QED
    BY <2>6, <2>7
<1>6. CASE SetEvent(th)
  <2>1. signalled' \in [Threads -> BOOLEAN]
    BY <1>6, BooleanUpdate DEF SetEvent, TypeOK
  <2>2. Flags'
    BY <1>6, <2>1, Zenon DEF SetEvent, taskVars, allVars, TypeOK, Flags
  <2>3. TypeOK'
    BY <1>0, <1>6, <2>2 DEF SetEvent, Goto, TypeOK, Flags, taskVars, allVars
  <2>4. PlaceInv'
    BY <1>0, <1>6, MainAssumption DEF SetEvent, Goto, TypeOK, PlaceInv, Target
  <2> QED
    BY <2>3, <2>4
<1>7. CASE RunUser(th)
  BY <1>7, <1>0, MainAssumption DEF RunUser, Continuing, Ready, Goto, Places, TypeOK, PlaceInv, Target, taskVars, allVars
<1>8. CASE CountRead(th)
  <2>1. ex' \in [Threads -> BOOLEAN]
    <3>1. FirstFailure(task[th]) \in BOOLEAN
      BY DEF FirstFailure
    <3> QED
      BY <1>8, <3>1, BooleanUpdate DEF CountRead, TypeOK
  <2>2. Flags'
    BY <1>8, <2>1, Zenon DEF CountRead, taskVars, allVars, TypeOK, Flags
  <2>3. TypeOK'
    BY <1>8, <2>2 DEF CountRead, Goto, Places, TypeOK, Flags, taskVars, allVars
  <2>4. PlaceInv'
    BY <1>8, MainAssumption DEF CountRead, Goto, TypeOK, PlaceInv, Target
  <2> QED
    BY <2>3, <2>4
<1>9. CASE CountStore(th)
  <2>1. anyFailed' \in BOOLEAN
    BY <1>9, Zenon DEF CountStore, TypeOK
  <2>2. Flags'
    BY <1>9, <2>1, Zenon DEF CountStore, taskVars, TypeOK, Flags
  <2>3. TypeOK'
    BY <1>9, <2>2 DEF CountStore, Goto, Places, TypeOK, Flags, taskVars
  <2>4. PlaceInv'
    BY <1>9, MainAssumption DEF CountStore, Goto, TypeOK, PlaceInv, Target
  <2> QED
    BY <2>3, <2>4
<1>10. CASE CountDown(th)
  <2>1. Flags'
    BY <1>10, Zenon DEF CountDown, taskVars, TypeOK, Flags
  <2>2. TypeOK'
    BY <1>10, <2>1 DEF CountDown, Goto, Places, TypeOK, Flags, taskVars
  <2>3. PlaceInv'
    BY <1>10, MainAssumption DEF CountDown, Goto, TypeOK, PlaceInv, Target
  <2> QED
    BY <2>2, <2>3
<1>11. CASE CountTest(th)
  <2>1. CASE Last
    <3>1. ex' \in [Threads -> BOOLEAN]
      BY <1>11, <2>1, BooleanUpdate DEF CountTest, CompleteWith, TypeOK
    <3>2. Flags'
      BY <1>11, <3>1, Zenon DEF CountTest, taskVars, allVars, TypeOK, Flags
    <3>3. TypeOK'
      BY <1>11, <2>1, <3>2 DEF CountTest, CompleteWith, Goto, Places, Tasks, TypeOK, Flags, taskVars, allVars
    <3>4. PlaceInv'
      BY <1>11, <2>1, MainAssumption DEF CountTest, CompleteWith, Goto, Tasks, TypeOK, PlaceInv, Target
    <3> QED
      BY <3>3, <3>4
  <2>2. CASE ~Last
    <3>1. Flags'
      BY <1>11, <2>2, Zenon DEF CountTest, taskVars, allVars, TypeOK, Flags
    <3>2. TypeOK'
      BY <1>0, <1>11, <2>2, <3>1 DEF CountTest, Goto, TypeOK, Flags, taskVars, allVars
    <3>3. PlaceInv'
      BY <1>0, <1>11, <2>2, MainAssumption DEF CountTest, Goto, TypeOK, PlaceInv, Target
    <3> QED
      BY <3>2, <3>3
  <2> QED
    BY <2>1, <2>2
<1>12. CASE Proceed(th)
  BY <1>12, MainAssumption DEF Proceed, Continuing, Ready, Goto, Places, TypeOK, PlaceInv, Target, taskVars, allVars
<1>13. CASE AsyncNext(th)
  <2> DEFINE s == scenario.awaited
             ends == ResultRaises(s) \/ position = Len(s)
  <2>1. Len(s) \in Nat
    BY ScenarioTyped
  <2>2. CASE ends
    <3>1. ex' \in [Threads -> BOOLEAN]
      <4>1. ResultRaises(s) \in BOOLEAN
        BY DEF ResultRaises
      <4> QED
        BY <1>13, <2>2, <4>1, BooleanUpdate DEF AsyncNext, CompleteWith, TypeOK
    <3>2. Flags'
      BY <1>13, <3>1, Zenon DEF AsyncNext, taskVars, allVars, TypeOK, Flags
    <3>3. TypeOK'
      BY <1>13, <2>2, <3>2 DEF AsyncNext, CompleteWith, Goto, Places, Tasks, TypeOK, Flags, taskVars, allVars
    <3>4. PlaceInv'
      BY <1>13, <2>2, MainAssumption DEF AsyncNext, CompleteWith, Goto, Tasks, TypeOK, PlaceInv, Target
    <3> QED
      BY <3>3, <3>4
  <2>3. CASE ~ends
    <3>1. Flags'
      BY <1>13, <2>3, Zenon DEF AsyncNext, taskVars, allVars, TypeOK, Flags
    <3>2. position \in Nat /\ position' = position + 1 /\ position' \in 0 .. Len(s)
      BY <1>13, <2>1, <2>3 DEF AsyncNext, TypeOK
    <3>3. TypeOK'
      BY <1>13, <2>3, <3>1, <3>2 DEF AsyncNext, Goto, Places, TypeOK, Flags, taskVars, allVars
    <3>4. PlaceInv'
      BY <1>13, <2>3, <3>2, MainAssumption DEF AsyncNext, Goto, TypeOK, PlaceInv, Target
    <3> QED
      BY <3>3, <3>4
  <2> QED
    BY <2>2, <2>3
<1>14. CASE AsyncAwait(th)
  <2>1. position \in 1 .. Len(scenario.awaited)
    BY <1>14 DEF AsyncAwait, Ready, TypeOK, PlaceInv
  <2>2. scenario.awaited[position] \in Tasks
    BY <2>1, ScenarioTyped
  <2>3. /\ continuation' \in [Tasks -> Continuations] /\ pc' \in [Threads -> Places]
        /\ pc' = [pc EXCEPT ![th] = Home(th)] \/ pc' = [pc EXCEPT ![th] = "complete"]
    <3>1. Continuation("proceed", Main) \in Continuations /\ "complete" \in Places
      BY KindTyped, MainAssumption DEF Places
    <3> QED
      BY <1>14, <1>0, <2>2, <3>1, ContinueTyped DEF AsyncAwait
  <2>4. ex' \in [Threads -> BOOLEAN]
    BY <1>14, BooleanUpdate, Zenon DEF AsyncAwait, TypeOK
  <2>5. Flags'
    BY <1>14, <2>4, Zenon DEF AsyncAwait, allVars, TypeOK, Flags
  <2>6. TypeOK'
    BY <1>14, <2>3, <2>5 DEF AsyncAwait, Tasks, TypeOK, Flags, allVars
  <2>7. PlaceInv'
    BY <1>0, <1>14, <2>3, MainAssumption DEF AsyncAwait, Tasks, TypeOK, PlaceInv, Target
  <2> QED
    BY <2>6, <2>7
<1>15. CASE Dispatch(th)
  <2>1. at[th] = "granted" /\ top # tale /\ got' = [got EXCEPT ![th] = array[top + 1]]
    BY <1>15 DEF Dispatch, ListPop, Moves, PopFindsElement, QueueInv, QueueTypeOK
  <2>2. top + 1 \in DOMAIN array
    BY <2>1 DEF QueueInv, QueueTypeOK
  <2>3. got'[th] = array[top + 1] /\ array[top + 1] \in Values
    BY <2>1, <2>2 DEF QueueInv, QueueTypeOK
  <2>4. got'[th].task \in Tasks /\ got'[th].cont \in Continuations
    BY <2>3, ValuesAssumption DEF PoolActions
  <2>5. got'[th].cont = None => got'[th].task \in Jobs
    BY <2>2, <2>3 DEF QueuedInv
  <2>6. at'[th] # "raised" /\ th # Main
    BY <1>15 DEF Dispatch, PopFindsElement, PlaceInv
  <2>7. \E l \in {"job", "continue"} : pc' = [pc EXCEPT ![th] = l] /\ (l = "job" => got'[th].task \in Jobs)
    BY <1>15, <2>5, <2>6 DEF Dispatch, Goto
  <2>8. Flags'
    BY <1>15, Zenon DEF Dispatch, taskVars, allVars, TypeOK, Flags
  <2>9. TypeOK'
    BY <1>15, <2>4, <2>6, <2>7, <2>8 DEF Dispatch, Places, TypeOK, Flags, taskVars, allVars
  <2>10. PlaceInv'
    BY <1>15, <2>4, <2>6, <2>7 DEF Dispatch, TypeOK, PlaceInv, Target
  <2> QED
    BY <2>9, <2>10
<1>16. CASE JobRunsJob(th)
  <2>1. scenario.nested[task[th]] \in Tasks /\ task[th] \in Jobs /\ task[th] \in Tasks /\ th # Main
    BY <1>16, ScenarioTyped DEF JobRunsJob, Ready, PlaceInv
  <2> QED
    BY <1>16, <2>1 DEF JobRunsJob, Ready, Goto, Places, TypeOK, PlaceInv, Target, taskVars, allVars
<1>17. ASSUME NEW raises \in BOOLEAN, JobEnds(th, raises) PROVE Good'
  BY <1>17, ScenarioTyped DEF JobEnds, CompleteWith, Ready, Goto, Places, TypeOK, PlaceInv, Target, taskVars, allVars
<1> QED
  BY <1>1, <1>2, <1>3, <1>4, <1>5, <1>6, <1>7, <1>8, <1>9, <1>10, <1>11, <1>12, <1>13, <1>14, <1>15, <1>16, <1>17

LEMMA GoodStep ==
  ASSUME Lasting, [Next]_vars
  PROVE  Lasting'
<1>1. QueueInv' /\ QueuedInv'
  BY QueueStep, QueueStepInv DEF Lasting
<1>2. QueueTypeOK' /\ PopFindsElement'
  BY <1>1 DEF QueueInv
<1>3. Good
  BY DEF Lasting, Good
<1>4. CASE UNCHANGED vars
  BY <1>1, <1>3, <1>4 DEF vars, Good, Lasting, TypeOK, PlaceInv, Target, taskVars, allVars, frameVars, queueVars, QueueTypeOK
<1>5. CASE NewCall \/ Registered \/ \E j \in Jobs : Register(j)
  BY <1>1, <1>2, <1>3, <1>5, CallGood DEF Good, Lasting
<1>6. ASSUME NEW th \in Threads, Step(th) PROVE Lasting'
  BY <1>1, <1>2, <1>3, <1>5, <1>6, StepGood DEF Step, Good, Lasting
<1> QED
  BY <1>4, <1>5, <1>6 DEF Next

-----------------------------------------------------------------------------
(* Waiting *)

\* A step of th that neither begins nor ends a wait, completes no task and takes
\* no continuation of a wait.
Quiet(th) ==
  /\ scenario' = scenario /\ completed' = completed /\ signalled' = signalled
  /\ \A t \in Tasks : \/ continuation'[t] = continuation[t]
                      \/ continuation[t] = None /\ continuation'[t].kind # "set"
  /\ \A u \in Threads \ {th} : pc'[u] = pc[u] /\ task'[u] = task[u] /\ cont'[u] = cont[u]
  /\ pc[th] # "waiting" /\ pc'[th] # "waiting"
  /\ \A u \in Threads : ~Carries(th, u) /\ ~Carries(th, u)'

LEMMA SetTyped == \A th, u \in Threads :
  /\ SetOf(th) \in Continuations /\ SetOf(th).kind = "set" /\ SetOf(th) # None
  /\ SetOf(th) = SetOf(u) => th = u
  BY KindTyped, NoneTyped DEF SetOf

LEMMA QuietKeeps ==
  ASSUME Lasting, WaitInv, NEW th \in Threads, Quiet(th)
  PROVE  WaitInv'
<1> USE DEF Quiet
<1>1. \A u \in Threads \ {th} : Target(u)' = Target(u)
  BY TargetStays
<1>2. \A u \in Threads, v \in Threads : Carries(u, v)' <=> Carries(u, v)
  BY DEF Carries
<1>3. \A u \in Threads : pc'[u] = "waiting" <=> pc[u] = "waiting"
  OBVIOUS
<1>4. \A t \in Tasks, u \in Threads : continuation'[t] = SetOf(u) <=> continuation[t] = SetOf(u)
  BY SetTyped
<1>5. \A t \in Tasks, u \in Threads : ~completed'[t] /\ continuation'[t] = SetOf(u) =>
        pc'[u] = "waiting" /\ ~signalled'[u] /\ Target(u)' = t
  BY <1>1, <1>3, <1>4 DEF WaitInv
<1>6. \A v, u \in Threads : Carries(v, u)' =>
        pc'[u] = "waiting" /\ ~signalled'[u] /\ completed'[Target(u)']
  BY <1>1, <1>2, <1>3 DEF WaitInv
<1>7. SignalledIsCompleted'
  BY <1>1, <1>3 DEF WaitInv, SignalledIsCompleted
<1>8. WaiterIsRemembered'
  <2>1. \A u \in Threads : pc[u] = "waiting" => u # th /\ Target(u) \in Tasks
    BY DEF Lasting, PlaceInv
  <2> QED
    BY <1>1, <1>2, <1>3, <1>4, <2>1 DEF WaitInv, WaiterIsRemembered, Carries, SetOf
<1> QED
  BY <1>2, <1>5, <1>6, <1>7, <1>8 DEF WaitInv

LEMMA CallQuiet ==
  ASSUME Lasting, NewCall \/ Registered \/ \E j \in Jobs : Register(j)
  PROVE  Quiet(Main)
<1> USE MainAssumption, SetTyped DEF Lasting, Quiet, Carries
<1>1. ASSUME NEW j \in Jobs, CallRun(j) PROVE Quiet(Main)
  BY <1>1 DEF CallRun, Calling, Ready, taskVars, frameVars
<1>2. ASSUME NEW t \in Tasks, CallThen(t) PROVE Quiet(Main)
  BY <1>2, KindTyped DEF CallThen, Calling, Ready, ContinueWith, Goto, TypeOK
<1>3. CASE (\E t \in Tasks : CallWait(t)) \/ CallAll \/ CallAsync \/ Registered
  BY <1>3 DEF CallWait, CallAll, CallAsync, Registered, Calling, Ready, Goto, TypeOK, taskVars
<1>4. ASSUME NEW j \in Jobs, Register(j) PROVE Quiet(Main)
  BY <1>4, KindTyped, ScenarioTyped DEF Register, Ready, ContinueWith, Goto, TypeOK
<1> QED
  BY <1>1, <1>2, <1>3, <1>4 DEF NewCall

\* A step of th that is not about a wait.
LEMMA StepQuiet ==
  ASSUME Lasting, PopFindsElement', NEW th \in Threads,
         \/ WaitCheck(th) /\ ~completed[Target(th)]
         \/ RunUser(th) \/ Proceed(th) \/ AsyncNext(th) \/ AsyncAwait(th)
         \/ CountRead(th) \/ CountStore(th) \/ CountDown(th) \/ CountTest(th)
         \/ Fetch(th) \/ Dispatch(th) \/ JobRunsJob(th)
         \/ \E raises \in BOOLEAN : JobEnds(th, raises)
  PROVE  Quiet(th)
<1> USE SetTyped DEF Lasting, Quiet, Carries
<1>0. Home(th) \in {"idle", "pop"}
  BY DEF Home
<1>1. CASE WaitCheck(th) /\ ~completed[Target(th)]
  BY <1>1 DEF WaitCheck, Ready, Goto, TypeOK, taskVars
<1>2. CASE RunUser(th) \/ CountRead(th) \/ Proceed(th)
  BY <1>0, <1>2 DEF RunUser, CountRead, Proceed, Continuing, Ready, Goto, TypeOK, taskVars
<1>3. CASE CountStore(th) \/ CountDown(th)
  BY <1>3 DEF CountStore, CountDown, Ready, Goto, TypeOK, taskVars
<1>4. CASE CountTest(th)
  BY <1>0, <1>4 DEF CountTest, CompleteWith, Ready, Goto, TypeOK, taskVars
<1>5. CASE AsyncNext(th)
  BY <1>5 DEF AsyncNext, CompleteWith, Ready, Goto, TypeOK, taskVars
<1>6. CASE AsyncAwait(th)
  <2>1. /\ pc[th] = "await" /\ pc'[th] \in {"idle", "pop", "complete"}
        /\ \A u \in Threads \ {th} : pc'[u] = pc[u] /\ task'[u] = task[u]
        /\ UNCHANGED <<scenario, completed, signalled, cont>>
    BY <1>0, <1>6 DEF AsyncAwait, ContinueWith, Ready, Goto, TypeOK
  <2>2. \A t \in Tasks : \/ continuation'[t] = continuation[t]
                         \/ continuation[t] = None /\ continuation'[t].kind # "set"
    BY <1>6, KindTyped, MainAssumption DEF AsyncAwait, ContinueWith, TypeOK
  <2> QED
    BY <2>1, <2>2
<1>7. CASE Fetch(th)
  BY <1>7 DEF Fetch, taskVars, frameVars
<1>8. CASE Dispatch(th)
  <2>1. at[th] = "granted" /\ top # tale /\ got' = [got EXCEPT ![th] = array[top + 1]]
    BY <1>8 DEF Dispatch, ListPop, Moves, PopFindsElement, QueueInv, QueueTypeOK
  <2>2. top + 1 \in DOMAIN array
    BY <2>1 DEF QueueInv, QueueTypeOK
  <2>3. got'[th].cont.kind # "set"
    BY <2>1, <2>2 DEF QueuedInv, QueueInv, QueueTypeOK
  <2>4. at'[th] # "raised"
    BY DEF PopFindsElement
  <2> QED
    BY <1>8, <2>3, <2>4 DEF Dispatch, Goto, TypeOK, taskVars
<1>9. CASE JobRunsJob(th)
  BY <1>9 DEF JobRunsJob, Ready, Goto, TypeOK, taskVars
<1>10. CASE \E raises \in BOOLEAN : JobEnds(th, raises)
  BY <1>10 DEF JobEnds, CompleteWith, Ready, Goto, TypeOK, taskVars
<1> QED
  BY <1>1, <1>2, <1>3, <1>4, <1>5, <1>6, <1>7, <1>8, <1>9, <1>10

\* What a step leaves alone.
LEMMA WaitFrame ==
  ASSUME WaitInv, UNCHANGED <<scenario, taskVars, frameVars, signalled>>
  PROVE  WaitInv'
  BY DEF WaitInv, SignalledIsCompleted, WaiterIsRemembered, Carries, Target, taskVars, frameVars

\* A wait begins: the task does not know another thread.
LEMMA RegisterKeeps ==
  ASSUME Lasting, WaitInv, NEW th \in Threads, WaitRegister(th),
         StillOpen(Target(th)), continuation[Target(th)] = None
  PROVE  WaitInv'
<1> DEFINE t == Target(th)
<1> USE SetTyped DEF Lasting
<1>1. /\ pc[th] = "waitLock" /\ t \in Tasks /\ ~completed[t]
      /\ pc' = [pc EXCEPT ![th] = "waiting"] /\ signalled' = [signalled EXCEPT ![th] = FALSE]
      /\ continuation' = [continuation EXCEPT ![t] = SetOf(th)]
      /\ UNCHANGED <<scenario, completed, task, cont>>
  BY DEF WaitRegister, NewEvent, Ready, Goto, PlaceInv, StillOpen, SetOf
<1>2. \A u \in Threads : Target(u)' = Target(u)
  BY <1>1, TargetStays
<1>3. \A v, u \in Threads : Carries(v, u)' <=> Carries(v, u)
  BY <1>1 DEF Carries, TypeOK
<1>4. pc'[th] = "waiting" /\ ~signalled'[th] /\ continuation'[t] = SetOf(th)
  BY <1>1 DEF TypeOK
<1>5. \A u \in Threads \ {th} : pc'[u] = pc[u] /\ signalled'[u] = signalled[u]
  BY <1>1 DEF TypeOK
<1>6. \A r \in Tasks \ {t} : continuation'[r] = continuation[r]
  BY <1>1 DEF TypeOK
<1>7. \A r \in Tasks, u \in Threads : ~completed'[r] /\ continuation'[r] = SetOf(u) =>
        pc'[u] = "waiting" /\ ~signalled'[u] /\ Target(u)' = r
  BY <1>1, <1>2, <1>4, <1>5, <1>6 DEF WaitInv
<1>8. \A v, u \in Threads : Carries(v, u)' =>
        pc'[u] = "waiting" /\ ~signalled'[u] /\ completed'[Target(u)']
  BY <1>1, <1>2, <1>3, <1>4, <1>5 DEF WaitInv
<1>9. SignalledIsCompleted'
  BY <1>1, <1>2, <1>4, <1>5 DEF WaitInv, SignalledIsCompleted
<1>10. WaiterIsRemembered'
  <2>1. ASSUME NEW u \in Threads, u # th, pc'[u] = "waiting", ~signalled'[u]
        PROVE  \/ ~completed[Target(u)] /\ continuation'[Target(u)] = SetOf(u)
               \/ \E v \in Threads : Carries(v, u)
    <3>1. Target(u) \in Tasks
      BY <1>5, <2>1 DEF PlaceInv
    <3> QED
      BY <1>5, <1>6, <2>1, <3>1 DEF WaitInv, WaiterIsRemembered, Carries, SetOf
  <2> QED
    BY <1>1, <1>2, <1>3, <1>4, <2>1 DEF WaiterIsRemembered, Carries, SetOf
<1> QED
  BY <1>3, <1>7, <1>8, <1>9, <1>10 DEF WaitInv

\* A wait ends: the task has completed, or is another thread's.
LEMMA ReturnKeeps ==
  ASSUME Lasting, WaitInv, NEW th \in Threads, NEW raises \in BOOLEAN, WaitReturns(th, raises), UNCHANGED signalled,
         pc[th] \in {"wait", "waitLock"} \/ (pc[th] = "waiting" /\ signalled[th])
  PROVE  WaitInv'
<1> USE SetTyped DEF Lasting
<1>1. /\ pc'[th] \in {"idle", "complete"}
      /\ \A u \in Threads \ {th} : pc'[u] = pc[u] /\ task'[u] = task[u]
      /\ UNCHANGED <<scenario, completed, continuation, cont, signalled>>
  BY DEF WaitReturns, CompleteWith, Goto, TypeOK, taskVars
<1>2. \A u \in Threads \ {th} : Target(u)' = Target(u)
  BY <1>1, TargetStays
<1>3. \A v, u \in Threads : Carries(v, u)' <=> Carries(v, u)
  BY <1>1 DEF Carries
<1>4. \A t \in Tasks : ~completed[t] => continuation[t] # SetOf(th)
  BY DEF WaitInv
<1>5. \A v \in Threads : ~Carries(v, th)
  BY DEF WaitInv
<1>6. \A t \in Tasks, u \in Threads : ~completed'[t] /\ continuation'[t] = SetOf(u) =>
        pc'[u] = "waiting" /\ ~signalled'[u] /\ Target(u)' = t
  BY <1>1, <1>2, <1>4 DEF WaitInv
<1>7. \A v, u \in Threads : Carries(v, u)' =>
        pc'[u] = "waiting" /\ ~signalled'[u] /\ completed'[Target(u)']
  BY <1>1, <1>2, <1>3, <1>5 DEF WaitInv
<1>8. SignalledIsCompleted'
  BY <1>1, <1>2 DEF WaitInv, SignalledIsCompleted
<1>9. WaiterIsRemembered'
  BY <1>1, <1>2, <1>3 DEF WaitInv, WaiterIsRemembered, Carries, SetOf
<1> QED
  BY <1>3, <1>6, <1>7, <1>8, <1>9 DEF WaitInv

\* A task completes: its continuation goes over to the completing thread.
LEMMA CompleteKeeps ==
  ASSUME Lasting, WaitInv, NEW th \in Threads, Complete(th)
  PROVE  WaitInv'
<1> USE SetTyped DEF Lasting
<1>0. /\ pc[th] = "complete" /\ task[th] \in Tasks
      /\ UNCHANGED <<scenario, continuation, task, signalled>>
      /\ \A u \in Threads \ {th} : pc'[u] = pc[u]
      /\ \A u \in Threads : Target(u)' = Target(u)
  BY TargetStays DEF Complete, Ready, Goto, PlaceInv, TypeOK
<1>1. CASE completed[task[th]]
  <2>1. pc'[th] = "raised" /\ UNCHANGED <<completed, cont>>
    BY <1>1 DEF Complete, Goto, TypeOK
  <2> QED
    BY <1>0, <2>1 DEF WaitInv, SignalledIsCompleted, WaiterIsRemembered, Carries
<1>2. CASE ~completed[task[th]]
  <2> DEFINE t == task[th]
  <2>1. /\ completed' = [completed EXCEPT ![t] = TRUE]
        /\ cont' = [cont EXCEPT ![th] = continuation[t]]
        /\ pc'[th] = IF continuation[t] = None THEN Home(th) ELSE "continue"
    BY <1>2 DEF Complete, Goto, TypeOK
  <2>2. completed'[t] /\ \A r \in Tasks \ {t} : completed'[r] = completed[r]
    BY <1>0, <2>1 DEF TypeOK
  <2>3. pc'[th] \in {"idle", "pop", "continue"}
    BY <2>1 DEF Home
  <2>4. \A u \in Threads : pc'[u] = "waiting" <=> pc[u] = "waiting"
    BY <1>0, <2>3
  <2>5. \A v \in Threads \ {th} : cont'[v] = cont[v]
    BY <2>1 DEF TypeOK
  <2>6. \A v \in Threads \ {th}, u \in Threads : Carries(v, u)' <=> Carries(v, u)
    BY <1>0, <2>5 DEF Carries
  <2>7. \A u \in Threads : ~Carries(th, u) /\ (Carries(th, u)' <=> continuation[t] = SetOf(u))
    BY <1>0, <2>1, <2>3 DEF Carries, TypeOK
  <2>8. \A u \in Threads : continuation[t] = SetOf(u) =>
          pc[u] = "waiting" /\ ~signalled[u] /\ Target(u) = t
    BY <1>0, <1>2 DEF WaitInv
  <2>9. \A r \in Tasks, u \in Threads : ~completed'[r] /\ continuation'[r] = SetOf(u) =>
          pc'[u] = "waiting" /\ ~signalled'[u] /\ Target(u)' = r
    BY <1>0, <2>2, <2>4 DEF WaitInv
  <2>10. \A u \in Threads : pc[u] = "waiting" /\ completed[Target(u)] => completed'[Target(u)]
    BY <2>2 DEF PlaceInv
  <2>11. \A v, u \in Threads : Carries(v, u)' =>
          pc'[u] = "waiting" /\ ~signalled'[u] /\ completed'[Target(u)']
    BY <1>0, <2>2, <2>4, <2>6, <2>7, <2>8, <2>10 DEF WaitInv
  <2>12. \A v, w, u \in Threads : Carries(v, u)' /\ Carries(w, u)' => v = w
    BY <1>2, <2>6, <2>7, <2>8 DEF WaitInv
  <2>13. SignalledIsCompleted'
    BY <1>0, <2>4, <2>10 DEF WaitInv, SignalledIsCompleted
  <2>14. WaiterIsRemembered'
    <3>1. ASSUME NEW u \in Threads, pc'[u] = "waiting", ~signalled'[u]
          PROVE  \/ ~completed'[Target(u)] /\ continuation[Target(u)] = SetOf(u)
                 \/ \E v \in Threads : Carries(v, u)'
      <4>1. Target(u) \in Tasks
        BY <2>4, <3>1 DEF PlaceInv
      <4>2. \/ ~completed[Target(u)] /\ continuation[Target(u)] = SetOf(u)
            \/ \E v \in Threads : Carries(v, u)
        BY <1>0, <2>4, <3>1 DEF WaitInv, WaiterIsRemembered, Carries, SetOf
      <4> QED
        BY <2>2, <2>6, <2>7, <4>1, <4>2
    <3> QED
      BY <1>0, <3>1 DEF WaiterIsRemembered, Carries, SetOf
  <2> QED
    BY <2>9, <2>11, <2>12, <2>13, <2>14 DEF WaitInv
<1> QED
  BY <1>1, <1>2

\* The continuation of a wait sets the event.
LEMMA SetKeeps ==
  ASSUME Lasting, WaitInv, NEW th \in Threads, SetEvent(th)
  PROVE  WaitInv'
<1> USE SetTyped DEF Lasting
<1>1. PICK w \in Threads : cont[th] = SetOf(w)
  <2>1. cont[th] \in Continuations /\ cont[th].kind = "set"
    BY DEF SetEvent, Continuing, TypeOK
  <2> QED
    BY <2>1 DEF Continuations, SetOf, Continuation
<1>2. /\ Carries(th, w)
      /\ signalled' = [signalled EXCEPT ![w] = TRUE]
      /\ pc' = [pc EXCEPT ![th] = Home(th)] /\ Home(th) \in {"idle", "pop"}
      /\ UNCHANGED <<scenario, taskVars, task, cont>>
  BY <1>1 DEF SetEvent, Continuing, Ready, Goto, Carries, SetOf, Continuation, Home
<1>3. pc[w] = "waiting" /\ ~signalled[w] /\ completed[Target(w)]
  BY <1>2 DEF WaitInv
<1>4. \A u \in Threads : Target(u)' = Target(u)
  BY <1>2, TargetStays
<1>5. /\ signalled'[w] /\ \A u \in Threads \ {w} : signalled'[u] = signalled[u]
      /\ \A u \in Threads : pc'[u] = "waiting" <=> pc[u] = "waiting"
  BY <1>2 DEF TypeOK, Carries
<1>6. \A u \in Threads : ~Carries(th, u)' /\ \A v \in Threads \ {th} : Carries(v, u)' <=> Carries(v, u)
  BY <1>2 DEF Carries, TypeOK
<1>7. \A v, u \in Threads : Carries(v, u)' => Carries(v, u) /\ u # w
  BY <1>2, <1>6 DEF WaitInv
<1>8. \A t \in Tasks : ~completed[t] => continuation[t] # SetOf(w)
  BY <1>3 DEF WaitInv
<1>9. \A t \in Tasks, u \in Threads : ~completed'[t] /\ continuation'[t] = SetOf(u) =>
        pc'[u] = "waiting" /\ ~signalled'[u] /\ Target(u)' = t
  BY <1>2, <1>4, <1>5, <1>8 DEF WaitInv, taskVars
<1>10. \A v, u \in Threads : Carries(v, u)' =>
        pc'[u] = "waiting" /\ ~signalled'[u] /\ completed'[Target(u)']
  BY <1>2, <1>4, <1>5, <1>7 DEF WaitInv, taskVars
<1>11. SignalledIsCompleted'
  BY <1>2, <1>3, <1>4, <1>5 DEF WaitInv, SignalledIsCompleted, taskVars
<1>12. WaiterIsRemembered'
  <2>1. ASSUME NEW u \in Threads, pc'[u] = "waiting", ~signalled'[u]
        PROVE  \/ ~completed[Target(u)] /\ continuation[Target(u)] = SetOf(u)
               \/ \E v \in Threads : Carries(v, u)'
    <3>1. \/ ~completed[Target(u)] /\ continuation[Target(u)] = SetOf(u)
          \/ \E v \in Threads : Carries(v, u)
      BY <1>5, <2>1 DEF WaitInv, WaiterIsRemembered, Carries, SetOf
    <3>2. ~Carries(th, u)
      BY <1>1, <1>5, <2>1 DEF Carries
    <3> QED
      BY <1>6, <3>1, <3>2
  <2> QED
    BY <1>2, <1>4, <2>1 DEF WaiterIsRemembered, Carries, SetOf, taskVars
<1> QED
  BY <1>7, <1>9, <1>10, <1>11, <1>12 DEF WaitInv

LEMMA WaitStep ==
  ASSUME Lasting, WaitInv, [Next]_vars
  PROVE  WaitInv'
<1>0. PopFindsElement'
  BY GoodStep DEF Lasting, QueueInv
<1>1. CASE UNCHANGED vars
  BY <1>1, WaitFrame DEF vars
<1>2. CASE NewCall \/ Registered \/ \E j \in Jobs : Register(j)
  BY <1>2, CallQuiet, QuietKeeps, MainAssumption
<1>3. ASSUME NEW th \in Threads, Step(th) PROVE WaitInv'
  <2>1. CASE Pushed(th)
    BY <2>1, WaitFrame DEF Pushed
  <2>2. CASE WaitCheck(th) /\ completed[Target(th)]
    BY <2>2, ReturnKeeps, WaitPlace DEF WaitCheck, Ready, Lasting, Good
  <2>3. CASE WaitRegister(th)
    <3>1. pc[th] = "waitLock"
      BY <2>3 DEF WaitRegister, Ready
    <3>2. CASE StillOpen(Target(th)) /\ continuation[Target(th)] = None
      BY <2>3, <3>2, RegisterKeeps
    <3>3. CASE ~(StillOpen(Target(th)) /\ continuation[Target(th)] = None)
      <4>1. (StillOpen(Target(th)) \/ failed[Target(th)]) \in BOOLEAN
        OBVIOUS
      <4> QED
        BY <2>3, <3>1, <3>3, <4>1, ReturnKeeps DEF WaitRegister
    <3> QED
      BY <3>2, <3>3
  <2>4. CASE WaitEnd(th)
    BY <2>4, ReturnKeeps, WaitPlace DEF WaitEnd, Ready, Lasting, Good
  <2>5. CASE Complete(th)
    BY <2>5, CompleteKeeps
  <2>6. CASE SetEvent(th)
    BY <2>6, SetKeeps
  <2> QED
    BY <1>0, <1>2, <1>3, <2>1, <2>2, <2>3, <2>4, <2>5, <2>6, StepQuiet, QuietKeeps DEF Step
<1> QED
  BY <1>1, <1>2, <1>3 DEF Next

-----------------------------------------------------------------------------
(* The theorems *)

LEMMA TasksInit == Init => TasksInv
<1> SUFFICES ASSUME Init PROVE TasksInv
  OBVIOUS
<1> USE DEF Init
<1>1. QueueInv
  BY QueueInitInv
<1>2. scenario \in ScenarioType
  BY ScenarioAssumption
<1>3. Flags
  BY Zenon DEF Flags
<1>4. Len(scenario.awaited) \in Nat
  BY <1>2 DEF ScenarioType
<1>5. TypeOK
  BY <1>1, <1>3, <1>4, NoneTyped DEF TypeOK, Flags, QueueInv, Places
<1>6. QueuedInv /\ PlaceInv
  BY MainAssumption DEF QueuedInv, PlaceInv, QueueInit
<1>7. WaitInv
  BY NoneTyped, SetTyped DEF WaitInv, SignalledIsCompleted, WaiterIsRemembered, Carries
<1> QED
  BY <1>1, <1>5, <1>6, <1>7 DEF TasksInv

\* The invariant of tasks and pool, for every program, pool and set of jobs.
THEOREM TasksInvariant == Spec => []TasksInv
<1>1. TasksInv /\ [Next]_vars => TasksInv'
  BY GoodStep, WaitStep DEF TasksInv, Lasting
<1> QED
  BY <1>1, TasksInit, PTL DEF Spec

\* Type correctness of tasks and pool.
THEOREM TasksTypeSafety == Spec => []TypeOK
<1>1. TasksInv => TypeOK
  BY DEF TasksInv
<1> QED
  BY <1>1, TasksInvariant, PTL

\* wait (tasks.l:87) returns only when its task has completed.
THEOREM SignalSafety == Spec => []SignalledIsCompleted
<1>1. TasksInv => SignalledIsCompleted
  BY DEF TasksInv, WaitInv
<1> QED
  BY <1>1, TasksInvariant, PTL

\* A waiting thread is the continuation of its task, or about to be released:
\* the second look at _completed under the lock (tasks.l:101) loses no wakeup.
THEOREM WaiterSafety == Spec => []WaiterIsRemembered
<1>1. TasksInv => WaiterIsRemembered
  BY DEF TasksInv, WaitInv
<1> QED
  BY <1>1, TasksInvariant, PTL

\* A worker let through by the semaphore finds an action, in every program.
THEOREM PoolPopSafety == Spec => []PopFindsElement
<1>1. TasksInv => PopFindsElement
  BY DEF TasksInv, QueueInv
<1> QED
  BY <1>1, TasksInvariant, PTL

\* Tasks and pool use the queue as it is meant: the program implements QueueSpec,
\* and by FifoRefinement the abstract queue.
THEOREM PoolFifo == Spec => ImplementsFifo
<1>1. Init => QueueInit
  BY DEF Init
<1>2. TasksInv /\ [Next]_vars => [QueueNext]_queueVars
  BY QueueStep DEF TasksInv, Lasting
<1>3. Spec => QueueSpec
  BY <1>1, <1>2, TasksInvariant, PTL DEF Spec, QueueSpec
<1> QED
  BY <1>3, FifoRefinement

-----------------------------------------------------------------------------
(***************************************************************************)
(* What happens once: a client's continuation runs once, a task is         *)
(* completed once, one thread at a time runs the body of an async method,  *)
(* and whenAll counts every task once.                                     *)
(*                                                                         *)
(* The argument is the same for all of them.  An action of the pool, to    *)
(* run a job or to call a continuation, is in one place at a time: not yet *)
(* made, stored as the continuation of a task, in a cell of the queue, in  *)
(* the hands of a thread, or over.  A step moves it from one place to      *)
(* another or removes it; it is made by a call that is made once.          *)
(***************************************************************************)

User == Continuation("user", Main)
Counter == Continuation("count", Main)
Proceeding == Continuation("proceed", Main)

Once(S) == \A p, q \in S : p = q

-----------------------------------------------------------------------------
(* Where an action is *)

\* The action waits as the continuation of its task.
Stored(v) == v.cont # None /\ ~completed[v.task] /\ continuation[v.task] = v.cont

Cells(v) == {i \in top + 1 .. tale : array[i] = v}

\* The threads that have taken the action and are about to call it.
Hands(v) == {th \in Threads :
  /\ task[th] = v.task
  /\ \/ v.cont = None /\ pc[th] = "job"
     \/ v.cont # None /\ pc[th] = "continue" /\ cont[th] = v.cont}

Holders(v) ==
  {<<"task", t>> : t \in {u \in {v.task} : Stored(v)}}
    \cup {<<"cell", i>> : i \in Cells(v)} \cup {<<"thread", th>> : th \in Hands(v)}

\* What the program and the tasks hand to each other: a continuation of a task
\* that has completed, or of one that has not.
TaskHanded(t) ==
  /\ continuation[t].kind # "set" => continuation[t].by = Main
  /\ continuation[t].kind = "count" => t \in Started

CellHanded(i) ==
  /\ array[i].cont.by = Main
  /\ array[i].cont.kind = "count" => array[i].task \in Started
  /\ array[i].cont # None => completed[array[i].task]

ThreadHanded(th) ==
  /\ pc[th] = "continue" =>
       /\ cont[th].kind # "none" /\ (cont[th].kind # "set" => cont[th].by = Main)
       /\ cont[th].kind = "count" => task[th] \in Started
  /\ pc[th] \in {"continue", "countStore", "countDown"} => task[th] \in Tasks /\ completed[task[th]]
  /\ pc[th] \in {"countStore", "countDown"} => task[th] \in Started
  /\ th \notin scenario.workers \cup {Main} => pc[th] = "off"

\* The main thread ends an async method only, and never counts.
MainHanded ==
  /\ pc[Main] = "complete" => task[Main] = Async
  /\ pc[Main] = "continue" => cont[Main].kind # "count"
  /\ pc[Main] \notin {"countStore", "countDown", "countTest"}

HandedInv ==
  /\ \A t \in Tasks : TaskHanded(t)
  /\ \A i \in DOMAIN array : CellHanded(i)
  /\ \A th \in Threads : ThreadHanded(th)
  /\ MainHanded
  /\ unregistered \subseteq Started

-----------------------------------------------------------------------------
(* The continuation of a client *)

UserPlaces(t) ==
  {<<"call", c>> : c \in todo \cap {[what |-> "then", on |-> t]}}
    \cup Holders(Call(User, t)) \cup {<<"ran", n>> : n \in 1 .. ran[t]}

UserInv == \A t \in Tasks : Once(UserPlaces(t)) /\ (ran[t] > 0 => completed[t])

-----------------------------------------------------------------------------
(* The body of an async method *)

Bodies == {th \in Threads : pc[th] \in {"next", "await"}}

\* The threads about to complete the task of the async method
Ends == {th \in Threads : pc[th] = "complete" /\ task[th] = Async}

BodyRest ==
  {<<"call", c>> : c \in todo \cap {[what |-> "async", on |-> Async]}}
    \cup {<<"body", th>> : th \in Bodies} \cup {<<"end", th>> : th \in Ends}
    \cup {<<"done", t>> : t \in {u \in {Async} : completed[u]}}

BodyPlaces == BodyRest \cup UNION {Holders(Call(Proceeding, t)) : t \in Tasks}

\* The i-th awaited task has completed, without an exception
Fine(i) == completed[scenario.awaited[i]] /\ ~failed[scenario.awaited[i]]

AsyncInv ==
  /\ Once(BodyPlaces)
  /\ [what |-> "async", on |-> Async] \in todo => position = 0
  /\ \A t \in Tasks : Holders(Call(Proceeding, t)) # {} => position > 0 /\ t = scenario.awaited[position]
  /\ \A i \in 1 .. position - 1 : Fine(i)
  /\ \A th \in Threads :
       /\ pc[th] = "next" => position = 0 \/ completed[scenario.awaited[position]]
       /\ th \in Ends /\ ~ex[th] => \A i \in DOMAIN scenario.awaited : Fine(i)
  /\ completed[Async] /\ ~failed[Async] => \A i \in DOMAIN scenario.awaited : Fine(i)

-----------------------------------------------------------------------------
(* The action of a job *)

\* The threads inside the action of j, after its first step
Inside(j) == {th \in Threads \ {Main} :
  task[th] = j /\ pc[th] \in {"wait", "waitLock", "waiting", "complete"}}

JobPlaces(j) ==
  {<<"call", c>> : c \in todo \cap {[what |-> "run", on |-> j]}}
    \cup Holders(RunJob(j)) \cup {<<"inside", th>> : th \in Inside(j)}
    \cup {<<"done", t>> : t \in {u \in {j} : completed[u]}}

JobInv ==
  \A j \in Jobs :
    /\ Once(JobPlaces(j))
    /\ \A i \in Jobs : scenario.nested[i] = j /\ JobPlaces(j) # {} => Inside(i) # {} \/ completed[i]

-----------------------------------------------------------------------------
(* The task of whenAll *)

Counting(j) == {th \in Threads : pc[th] \in {"countStore", "countDown"} /\ task[th] = j}

CountRest(j) == {<<"loop", t>> : t \in unregistered \cap {j}} \cup {<<"counting", th>> : th \in Counting(j)}

CountPlaces(j) == CountRest(j) \cup Holders(Call(Counter, j))

\* The threads about to complete the task of whenAll
Lasts == {th \in Threads : pc[th] = "complete" /\ task[th] = All}

\* The jobs of the program that are still to be counted
Live == {j \in Started : CountPlaces(j) # {}}

AllCalled == [what |-> "all", on |-> All] \in scenario.calls \ todo

AllInv ==
  /\ \A j \in Jobs : Once(CountPlaces(j))
  /\ ~AllCalled => Live = {} /\ Lasts = {} /\ ~completed[All] /\ \A th \in Threads : pc[th] # "countTest"
  /\ AllCalled =>
       /\ remaining >= Cardinality(Live)
       /\ remaining = Cardinality(Live) => \A j \in Started \ Live : completed[j]
  /\ Lasts # {} \/ completed[All] => \A j \in Started : completed[j]


-----------------------------------------------------------------------------
(* Lemmas on sets with one element *)

\* What has at most one element keeps that when it shrinks, or when something
\* comes for something that goes.
LEMMA OnceShrinks ==
  ASSUME NEW S, NEW R, Once(S), R \subseteq S
  PROVE  Once(R)
  BY DEF Once

LEMMA OnceMoves ==
  ASSUME NEW S, NEW R, NEW o \in S, NEW n, Once(S), R \subseteq (S \ {o}) \cup {n}
  PROVE  Once(R)
  BY DEF Once

-----------------------------------------------------------------------------
(* How a step moves an action *)

LEMMA HolderIs ==
  ASSUME NEW v
  PROVE  /\ \A p \in Holders(v) : \/ p = <<"task", v.task>> /\ Stored(v)
                                  \/ \E i \in Cells(v) : p = <<"cell", i>>
                                  \/ \E th \in Hands(v) : p = <<"thread", th>>
         /\ \A t : <<"task", t>> \in Holders(v) <=> t = v.task /\ Stored(v)
         /\ \A i : <<"cell", i>> \in Holders(v) <=> i \in Cells(v)
         /\ \A th : <<"thread", th>> \in Holders(v) <=> th \in Hands(v)
  BY DEF Holders

LEMMA HolderIsThen ==
  ASSUME NEW v
  PROVE  \A p \in Holders(v)' : \/ p = <<"task", v.task>> /\ Stored(v)'
                                \/ \E i \in Cells(v)' : p = <<"cell", i>>
                                \/ \E th \in Hands(v)' : p = <<"thread", th>>
  BY DEF Holders

\* The places of an action grow with what they consist of.
LEMMA HoldersGrow ==
  ASSUME NEW v, NEW n,
         Stored(v)' => Stored(v) \/ n = <<"task", v.task>>,
         \A i \in Cells(v)' : i \in Cells(v) \/ n = <<"cell", i>>,
         \A th \in Hands(v)' : th \in Hands(v) \/ n = <<"thread", th>>
  PROVE  Holders(v)' \subseteq Holders(v) \cup {n}
<1> SUFFICES ASSUME NEW p \in Holders(v)', p # n PROVE p \in Holders(v)
  OBVIOUS
<1>1. CASE p = <<"task", v.task>> /\ Stored(v)'
  BY <1>1, HolderIs
<1>2. ASSUME NEW i \in Cells(v)', p = <<"cell", i>> PROVE p \in Holders(v)
  BY <1>2, HolderIs
<1>3. ASSUME NEW th \in Hands(v)', p = <<"thread", th>> PROVE p \in Holders(v)
  BY <1>3, HolderIs
<1> QED
  BY <1>1, <1>2, <1>3, HolderIsThen

LEMMA HoldersShrink ==
  ASSUME NEW v,
         Stored(v)' => Stored(v), Cells(v)' \subseteq Cells(v), Hands(v)' \subseteq Hands(v)
  PROVE  Holders(v)' \subseteq Holders(v)
<1> SUFFICES ASSUME NEW p \in Holders(v)' PROVE p \in Holders(v)
  OBVIOUS
<1>1. CASE p = <<"task", v.task>> /\ Stored(v)'
  BY <1>1, HolderIs
<1>2. ASSUME NEW i \in Cells(v)', p = <<"cell", i>> PROVE p \in Holders(v)
  BY <1>2, HolderIs
<1>3. ASSUME NEW th \in Hands(v)', p = <<"thread", th>> PROVE p \in Holders(v)
  BY <1>3, HolderIs
<1> QED
  BY <1>1, <1>2, <1>3, HolderIsThen

\* A push puts its value into a cell of its own.
LEMMA PushCells ==
  ASSUME QueueInv, NEW th \in Threads, NEW w \in Values, ListPush(th, w), NEW v
  PROVE  /\ v # w => Cells(v)' \subseteq Cells(v)
         /\ Cells(v)' \subseteq Cells(v) \cup {tale + 1}
<1>1. top \in Nat /\ tale \in Nat
  BY DEF QueueInv, QueueTypeOK
<1>2. top' = top /\ tale' = tale + 1 /\ array' = Store(w)
  BY DEF ListPush
<1>3. Store(w)[tale + 1] = w /\ \A i \in 1 .. tale : Store(w)[i] = array[i]
  BY StoreTyped
<1> QED
  BY <1>1, <1>2, <1>3 DEF Cells

\* A step of th after which it holds no action, on the queue, the completion
\* and the continuations as they are.
Drops(th) ==
  /\ UNCHANGED <<completed, continuation, array, top, tale>>
  /\ \A u \in Threads \ {th} : pc'[u] = pc[u] /\ task'[u] = task[u] /\ cont'[u] = cont[u]
  /\ pc'[th] \notin {"job", "continue"}

LEMMA HandsDrop ==
  ASSUME NEW th \in Threads, NEW v,
         \A u \in Threads \ {th} : pc'[u] = pc[u] /\ task'[u] = task[u] /\ cont'[u] = cont[u],
         pc'[th] \notin {"job", "continue"}
  PROVE  Hands(v)' \subseteq Hands(v) \ {th}
  BY DEF Hands

LEMMA DropKeeps ==
  ASSUME NEW th \in Threads, Drops(th), NEW v
  PROVE  Holders(v)' \subseteq Holders(v) \ {<<"thread", th>>}
<1>1. Hands(v)' \subseteq Hands(v) \ {th}
  BY HandsDrop DEF Drops
<1>2. (Stored(v)' => Stored(v)) /\ Cells(v)' = Cells(v)
  BY DEF Drops, Stored, Cells
<1>3. Holders(v)' \subseteq Holders(v)
  BY <1>1, <1>2, HoldersShrink
<1> QED
  BY <1>1, <1>3, HolderIsThen

\* continueWith of th, which then holds no action.
LEMMA ContinueMakes ==
  ASSUME Lasting, NEW th \in Threads, NEW t \in Tasks, NEW c \in Continuations, NEW next, NEW conflict,
         c # None, ContinueWith(th, t, c, next, conflict), completed' = completed,
         \A u \in Threads \ {th} : pc'[u] = pc[u] /\ task'[u] = task[u] /\ cont'[u] = cont[u],
         pc'[th] \notin {"job", "continue"}, NEW v \in PoolActions
  PROVE  /\ v # Call(c, t) => Holders(v)' \subseteq Holders(v)
         /\ \E n : Holders(v)' \subseteq Holders(v) \cup {n}
<1>1. Hands(v)' \subseteq Hands(v)
  BY HandsDrop
<1>2. v = Call(c, t) <=> v.cont = c /\ v.task = t
  BY DEF PoolActions, Call
<1>3. CASE ListPush(th, Call(c, t)) /\ UNCHANGED continuation
  <2>1. Call(c, t) \in Values
    BY ActionTyped
  <2>2. Stored(v)' => Stored(v)
    BY <1>3 DEF Stored
  <2>3. PICK w, n : w = Call(c, t) /\ n = <<"cell", tale + 1>>
    OBVIOUS
  <2>4. (v # w => Cells(v)' \subseteq Cells(v)) /\ Cells(v)' \subseteq Cells(v) \cup {tale + 1}
    BY <1>3, <2>1, <2>3, PushCells DEF Lasting
  <2>5. Holders(v)' \subseteq Holders(v) \cup {n}
    BY <1>1, <2>2, <2>3, <2>4, HoldersGrow
  <2> QED
    BY <1>1, <2>2, <2>3, <2>4, <2>5, HoldersShrink
<1>4. CASE continuation' = [continuation EXCEPT ![t] = c] /\ UNCHANGED queueVars
  <2>1. Cells(v)' = Cells(v)
    BY <1>4 DEF Cells, queueVars
  <2>2. Stored(v)' => Stored(v) \/ v = Call(c, t)
    BY <1>2, <1>4 DEF Stored, PoolActions, Lasting, TypeOK
  <2>3. PICK n : n = <<"task", v.task>>
    OBVIOUS
  <2>4. Holders(v)' \subseteq Holders(v) \cup {n}
    BY <1>1, <2>1, <2>3, HoldersGrow
  <2> QED
    BY <1>1, <2>1, <2>2, <2>4, HoldersShrink
<1>5. CASE UNCHANGED <<continuation, queueVars>>
  <2>1. Cells(v)' = Cells(v) /\ (Stored(v)' => Stored(v))
    BY <1>5 DEF Cells, Stored, queueVars
  <2> QED
    BY <1>1, <2>1, HoldersShrink
<1> QED
  BY <1>3, <1>4, <1>5 DEF ContinueWith

\* The completing thread takes over the continuation of its task.
LEMMA CompleteHands ==
  ASSUME Lasting, NEW th \in Threads, Complete(th), NEW v \in PoolActions
  PROVE  \/ Holders(v)' \subseteq Holders(v)
         \/ /\ v.cont # None
            /\ \E o \in Holders(v) : \E n : Holders(v)' \subseteq (Holders(v) \ {o}) \cup {n}
<1>0. /\ pc[th] = "complete" /\ task[th] \in Tasks /\ UNCHANGED <<continuation, task, array, top, tale>>
      /\ \A u \in Threads \ {th} : pc'[u] = pc[u]
  BY DEF Complete, Ready, Goto, Lasting, PlaceInv, TypeOK, queueVars
<1>1. Cells(v)' = Cells(v)
  BY <1>0 DEF Cells
<1>2. CASE completed[task[th]]
  <2>1. pc'[th] = "raised" /\ UNCHANGED <<completed, cont>>
    BY <1>2 DEF Complete, Goto, Lasting, TypeOK
  <2>2. Hands(v)' \subseteq Hands(v)
    BY <1>0, <2>1, HandsDrop
  <2>3. Stored(v)' => Stored(v)
    BY <1>0, <2>1 DEF Stored
  <2> QED
    BY <1>1, <2>2, <2>3, HoldersShrink
<1>3. CASE ~completed[task[th]]
  <2> DEFINE t == task[th]
  <2>1. /\ completed' = [completed EXCEPT ![t] = TRUE]
        /\ cont' = [cont EXCEPT ![th] = continuation[t]]
        /\ pc'[th] = IF continuation[t] = None THEN Home(th) ELSE "continue"
    BY <1>3 DEF Complete, Goto, Lasting, TypeOK
  <2>2. cont'[th] = continuation[t] /\ \A u \in Threads \ {th} : cont'[u] = cont[u]
    BY <2>1 DEF Lasting, TypeOK
  <2>3. completed'[t] /\ \A u \in Tasks \ {t} : completed'[u] = completed[u]
    BY <1>0, <2>1 DEF Lasting, TypeOK
  <2>4. Stored(v)' => Stored(v) /\ v.task # t
    BY <1>0, <2>3 DEF Stored, PoolActions
  <2>5. ASSUME th \in Hands(v)' PROVE Stored(v) /\ v.task = t
    <3>1. pc'[th] # "job"
      BY <2>1 DEF Home
    <3>2. v.task = t /\ v.cont # None /\ cont'[th] = v.cont
      BY <1>0, <2>5, <3>1 DEF Hands
    <3> QED
      BY <1>0, <1>3, <2>2, <3>2 DEF Stored
  <2>6. Hands(v)' \subseteq Hands(v) \cup {th} /\ th \notin Hands(v)
    BY <1>0, <2>2 DEF Hands
  <2>7. CASE th \in Hands(v)'
    <3>1. PICK o, n : o = <<"task", t>> /\ n = <<"thread", th>>
      OBVIOUS
    <3>2. o \in Holders(v)
      BY <2>5, <2>7, <3>1, HolderIs
    <3>3. ~Stored(v)'
      BY <2>4, <2>5, <2>7
    <3>4. Holders(v)' \subseteq Holders(v) \cup {n}
      BY <1>1, <2>6, <3>1, <3>3, HoldersGrow
    <3>5. o \notin Holders(v)'
      BY <3>1, <3>3, HolderIsThen
    <3>6. v.cont # None
      BY <2>5, <2>7 DEF Stored
    <3> QED
      BY <3>2, <3>4, <3>5, <3>6
  <2>8. CASE th \notin Hands(v)'
    BY <1>1, <2>4, <2>6, <2>8, HoldersShrink
  <2> QED
    BY <2>7, <2>8
<1> QED
  BY <1>2, <1>3

\* A worker takes its action out of the queue.
LEMMA DispatchHands ==
  ASSUME Lasting, PopFindsElement', NEW th \in Threads, Dispatch(th), NEW v \in PoolActions
  PROVE  \/ Holders(v)' \subseteq Holders(v)
         \/ \E o \in Holders(v) : \E n : Holders(v)' \subseteq (Holders(v) \ {o}) \cup {n}
<1>0. top \in Nat /\ tale \in Nat /\ top <= tale
  BY DEF Lasting, QueueInv, QueueTypeOK
<1>1. /\ top # tale /\ got' = [got EXCEPT ![th] = array[top + 1]]
      /\ top' = IF tale = top + 1 THEN 0 ELSE top + 1
      /\ tale' = IF tale = top + 1 THEN 0 ELSE tale
      /\ array' = array
  BY DEF Dispatch, ListPop, Moves, PopFindsElement, Lasting, QueueInv, QueueTypeOK
<1>2. at'[th] # "raised" /\ got'[th] = array[top + 1]
  BY <1>1 DEF PopFindsElement, Lasting, QueueInv, QueueTypeOK
<1>3. /\ task' = [task EXCEPT ![th] = got'[th].task] /\ cont' = [cont EXCEPT ![th] = got'[th].cont]
      /\ pc[th] = "pop" /\ pc' = [pc EXCEPT ![th] = IF got'[th].cont = None THEN "job" ELSE "continue"]
      /\ UNCHANGED <<completed, continuation>>
  BY <1>2 DEF Dispatch, Goto, taskVars
<1>4. /\ pc'[th] = (IF got'[th].cont = None THEN "job" ELSE "continue")
      /\ task'[th] = got'[th].task /\ cont'[th] = got'[th].cont
      /\ \A u \in Threads \ {th} : pc'[u] = pc[u] /\ task'[u] = task[u] /\ cont'[u] = cont[u]
  BY <1>3 DEF Lasting, TypeOK
<1>5. Stored(v)' => Stored(v)
  BY <1>3 DEF Stored
<1>6. Cells(v)' \subseteq Cells(v) \ {top + 1}
  BY <1>0, <1>1 DEF Cells
<1>7. Hands(v)' \subseteq Hands(v) \cup {th} /\ th \notin Hands(v)
  BY <1>3, <1>4 DEF Hands
<1>8. CASE th \in Hands(v)'
  <2>1. array[top + 1] \in PoolActions
    BY <1>0, <1>1, ValuesAssumption DEF Lasting, QueueInv, QueueTypeOK
  <2>2. v.task = array[top + 1].task /\ v.cont = array[top + 1].cont
    BY <1>2, <1>4, <1>8 DEF Hands
  <2>3. v = array[top + 1]
    BY <2>1, <2>2 DEF PoolActions
  <2>4. top + 1 \in Cells(v)
    BY <1>0, <1>1, <2>3 DEF Cells
  <2>5. PICK o, n : o = <<"cell", top + 1>> /\ n = <<"thread", th>>
    OBVIOUS
  <2>6. o \in Holders(v)
    BY <2>4, <2>5, HolderIs
  <2>7. Holders(v)' \subseteq Holders(v) \cup {n}
    BY <1>5, <1>6, <1>7, <2>5, HoldersGrow
  <2>8. o \notin Holders(v)'
    BY <1>6, <2>5, HolderIsThen
  <2> QED
    BY <2>6, <2>7, <2>8
<1>9. CASE th \notin Hands(v)'
  BY <1>5, <1>6, <1>7, <1>9, HoldersShrink
<1> QED
  BY <1>8, <1>9

\* The steps that make an action.
Creates(v) ==
  \/ v.cont = None /\ CallRun(v.task)
  \/ v.cont = None /\ \E w \in Threads : JobRunsJob(w) /\ scenario.nested[task[w]] = v.task
  \/ v.cont = User /\ CallThen(v.task)
  \/ v.cont = Counter /\ Register(v.task)
  \/ v.cont = Proceeding /\ \E th \in Threads : AsyncAwait(th) /\ scenario.awaited[position] = v.task
  \/ \E th \in Threads : v.cont = SetOf(th)

Kept(v) ==
  \/ Holders(v)' \subseteq Holders(v)
  \/ \E o \in Holders(v) : \E n : Holders(v)' \subseteq (Holders(v) \ {o}) \cup {n}

Made(v) == \E n : Holders(v)' \subseteq Holders(v) \cup {n}

\* The actions after which the thread holds no action.
LEMMA Dropping ==
  ASSUME Lasting, NEW th \in Threads,
         \/ WaitCheck(th) \/ WaitEnd(th) \/ SetEvent(th) \/ RunUser(th)
         \/ CountRead(th) \/ CountStore(th) \/ CountDown(th) \/ CountTest(th)
         \/ Proceed(th) \/ AsyncNext(th)
         \/ \E raises \in BOOLEAN : JobEnds(th, raises)
         \/ WaitRegister(th) /\ ~(StillOpen(Target(th)) /\ continuation[Target(th)] = None)
  PROVE  Drops(th)
<1> USE DEF Drops, Lasting, taskVars, queueVars, Goto, CompleteWith
<1>0. Home(th) \in {"idle", "pop"}
  BY DEF Home
<1>1. CASE WaitCheck(th) \/ WaitEnd(th)
  BY <1>0, <1>1 DEF WaitCheck, WaitEnd, WaitReturns, TypeOK
<1>2. CASE WaitRegister(th) /\ ~(StillOpen(Target(th)) /\ continuation[Target(th)] = None)
  BY <1>0, <1>2 DEF WaitRegister, WaitReturns, TypeOK
<1>3. CASE SetEvent(th) \/ RunUser(th) \/ CountRead(th) \/ CountStore(th) \/ CountDown(th) \/ Proceed(th)
  BY <1>0, <1>3 DEF SetEvent, RunUser, CountRead, CountStore, CountDown, Proceed, TypeOK
<1>4. CASE CountTest(th)
  BY <1>0, <1>4 DEF CountTest, TypeOK
<1>5. CASE AsyncNext(th)
  BY <1>0, <1>5 DEF AsyncNext, TypeOK
<1>6. CASE \E raises \in BOOLEAN : JobEnds(th, raises)
  BY <1>6 DEF JobEnds, TypeOK
<1> QED
  BY <1>1, <1>2, <1>3, <1>4, <1>5, <1>6

LEMMA CallDropping ==
  ASSUME Lasting, (\E t \in Tasks : CallWait(t)) \/ CallAll \/ CallAsync \/ Registered
  PROVE  Drops(Main)
  BY MainAssumption DEF CallWait, CallAll, CallAsync, Registered, Calling, Ready, Goto, Drops,
                        Lasting, TypeOK, taskVars, queueVars

\* A job's action goes into the queue.
LEMMA JobMade ==
  ASSUME Lasting, NEW th \in Threads, NEW j \in Jobs, ListPush(th, RunJob(j)),
         UNCHANGED <<completed, continuation>>, NEW v \in PoolActions, Hands(v)' \subseteq Hands(v)
  PROVE  /\ ~(v.cont = None /\ v.task = j) => Holders(v)' \subseteq Holders(v)
         /\ Made(v)
<1>1. PICK w, n : w = RunJob(j) /\ n = <<"cell", tale + 1>>
  OBVIOUS
<1>2. w \in Values /\ (v = w <=> v.cont = None /\ v.task = j)
  BY <1>1, JobTyped DEF PoolActions, RunJob, Call
<1>3. (v # w => Cells(v)' \subseteq Cells(v)) /\ Cells(v)' \subseteq Cells(v) \cup {tale + 1}
  BY <1>1, <1>2, PushCells DEF Lasting
<1>4. Stored(v)' => Stored(v)
  BY DEF Stored
<1>5. Holders(v)' \subseteq Holders(v) \cup {n}
  BY <1>1, <1>3, <1>4, HoldersGrow
<1> QED
  BY <1>2, <1>3, <1>4, <1>5, HoldersShrink DEF Made

LEMMA HandsSame ==
  ASSUME NEW v, UNCHANGED <<pc, task, cont>>
  PROVE  Hands(v)' = Hands(v)
  BY DEF Hands

LEMMA OwnTyped ==
  /\ User \in Continuations /\ Counter \in Continuations /\ Proceeding \in Continuations
  /\ User # None /\ Counter # None /\ Proceeding # None
  /\ User # Counter /\ User # Proceeding /\ Counter # Proceeding
  BY KindTyped, MainAssumption DEF User, Counter, Proceeding, None, Continuation

LEMMA CallHolders ==
  ASSUME Lasting, NewCall \/ Registered \/ \E j \in Jobs : Register(j), NEW v \in PoolActions
  PROVE  Holders(v)' \subseteq Holders(v) \/ (Creates(v) /\ Made(v))
<1> USE MainAssumption
<1>1. ASSUME NEW j \in Jobs, CallRun(j) PROVE Holders(v)' \subseteq Holders(v) \/ (Creates(v) /\ Made(v))
  <2>1. ListPush(Main, RunJob(j)) /\ UNCHANGED <<completed, continuation>> /\ Hands(v)' \subseteq Hands(v)
    BY <1>1, HandsSame DEF CallRun, taskVars, frameVars
  <2> QED
    BY <1>1, <2>1, JobMade DEF Creates
<1>2. ASSUME NEW t \in Tasks, CallThen(t) PROVE Holders(v)' \subseteq Holders(v) \/ (Creates(v) /\ Made(v))
  <2>1. /\ ContinueWith(Main, t, User, "idle", "idle") /\ completed' = completed /\ pc'[Main] = "idle"
        /\ \A u \in Threads \ {Main} : pc'[u] = pc[u] /\ task'[u] = task[u] /\ cont'[u] = cont[u]
    BY <1>2 DEF CallThen, ContinueWith, Goto, User, Lasting, TypeOK
  <2>2. v # Call(User, t) => Holders(v)' \subseteq Holders(v)
    BY <2>1, ContinueMakes, OwnTyped
  <2>3. Made(v)
    BY <2>1, ContinueMakes, OwnTyped DEF Made
  <2> QED
    BY <1>2, <2>2, <2>3 DEF Creates, Call
<1>3. ASSUME NEW j \in Jobs, Register(j) PROVE Holders(v)' \subseteq Holders(v) \/ (Creates(v) /\ Made(v))
  <2>1. /\ ContinueWith(Main, j, Counter, "register", "idle") /\ completed' = completed
        /\ pc'[Main] \in {"register", "idle"} /\ j \in Tasks
        /\ \A u \in Threads \ {Main} : pc'[u] = pc[u] /\ task'[u] = task[u] /\ cont'[u] = cont[u]
    BY <1>3 DEF Register, ContinueWith, Goto, Counter, Tasks, Lasting, TypeOK
  <2>2. v # Call(Counter, j) => Holders(v)' \subseteq Holders(v)
    BY <2>1, ContinueMakes, OwnTyped
  <2>3. Made(v)
    BY <2>1, ContinueMakes, OwnTyped DEF Made
  <2> QED
    BY <1>3, <2>2, <2>3 DEF Creates, Call
<1>4. CASE (\E t \in Tasks : CallWait(t)) \/ CallAll \/ CallAsync \/ Registered
  <2>1. Drops(Main)
    BY <1>4, CallDropping
  <2> QED
    BY <2>1, DropKeeps
<1> QED
  BY <1>1, <1>2, <1>3, <1>4 DEF NewCall

LEMMA StepHolders ==
  ASSUME Lasting, PopFindsElement', NEW th \in Threads, Step(th),
         ~(th = Main /\ (Registered \/ \E j \in Jobs : Register(j))), NEW v \in PoolActions
  PROVE  Kept(v) \/ (Creates(v) /\ Made(v))
<1>1. CASE Pushed(th) \/ Fetch(th)
  <2>1. UNCHANGED <<completed, continuation, pc, task, cont, array, top, tale>>
    BY <1>1 DEF Pushed, Fetch, Release, SemaphoreWait, taskVars, frameVars
  <2>2. Hands(v)' = Hands(v) /\ Stored(v)' = Stored(v) /\ Cells(v)' = Cells(v)
    BY <2>1 DEF Hands, Stored, Cells
  <2> QED
    BY <2>2, HoldersShrink DEF Kept
<1>2. CASE Drops(th)
  BY <1>2, DropKeeps DEF Kept
<1>3. CASE WaitRegister(th) /\ StillOpen(Target(th)) /\ continuation[Target(th)] = None
  <2> DEFINE t == Target(th)
  <2>1. /\ pc[th] = "waitLock" /\ pc'[th] = "waiting" /\ t \in Tasks
        /\ continuation' = [continuation EXCEPT ![t] = SetOf(th)]
        /\ UNCHANGED <<completed, task, cont, array, top, tale>>
        /\ \A u \in Threads \ {th} : pc'[u] = pc[u]
    BY <1>3 DEF WaitRegister, Ready, Goto, SetOf, Lasting, PlaceInv, TypeOK, queueVars
  <2>2. Hands(v)' \subseteq Hands(v)
    BY <2>1, HandsDrop
  <2>3. Cells(v)' = Cells(v)
    BY <2>1 DEF Cells
  <2>4. Stored(v)' => Stored(v) \/ v.cont = SetOf(th)
    BY <2>1 DEF Stored, PoolActions, Lasting, TypeOK
  <2>5. PICK n : n = <<"task", v.task>>
    OBVIOUS
  <2>6. Made(v)
    BY <2>2, <2>3, <2>5, HoldersGrow DEF Made
  <2> QED
    BY <2>2, <2>3, <2>4, <2>6, HoldersShrink DEF Kept, Creates
<1>4. CASE Complete(th)
  BY <1>4, CompleteHands DEF Kept
<1>5. CASE AsyncAwait(th)
  <2>1. position \in 1 .. Len(scenario.awaited)
    BY <1>5 DEF AsyncAwait, Ready, Lasting, TypeOK, PlaceInv
  <2>2. PICK t \in Tasks : t = scenario.awaited[position]
    BY <2>1, ScenarioTyped DEF Lasting
  <2>3. /\ ContinueWith(th, t, Proceeding, Home(th), "complete") /\ completed' = completed
        /\ pc'[th] \in {"idle", "pop", "complete"}
        /\ \A u \in Threads \ {th} : pc'[u] = pc[u] /\ task'[u] = task[u] /\ cont'[u] = cont[u]
    BY <1>5, <2>2 DEF AsyncAwait, ContinueWith, Goto, Home, Proceeding, Lasting, TypeOK
  <2>4. PICK next : next = Home(th)
    OBVIOUS
  <2>5. v # Call(Proceeding, t) => Holders(v)' \subseteq Holders(v)
    BY <2>3, <2>4, ContinueMakes, OwnTyped
  <2>6. Made(v)
    BY <2>3, <2>4, ContinueMakes, OwnTyped DEF Made
  <2> QED
    BY <1>5, <2>2, <2>5, <2>6 DEF Creates, Call, Kept
<1>6. CASE Dispatch(th)
  BY <1>6, DispatchHands DEF Kept
<1>7. CASE JobRunsJob(th)
  <2>1. PICK j \in Jobs : j = scenario.nested[task[th]]
    BY <1>7, ScenarioTyped DEF JobRunsJob, Ready, Lasting, PlaceInv
  <2>2. ListPush(th, RunJob(j)) /\ UNCHANGED <<completed, continuation>>
    BY <1>7, <2>1 DEF JobRunsJob, taskVars
  <2>3. Hands(v)' \subseteq Hands(v)
    BY <1>7, HandsDrop DEF JobRunsJob, Goto, Lasting, TypeOK
  <2> QED
    BY <1>7, <2>1, <2>2, <2>3, JobMade DEF Creates, Kept
<1> QED
  BY <1>1, <1>2, <1>3, <1>4, <1>5, <1>6, <1>7, Dropping DEF Step

\* An action stays in one place, or moves to another, unless the step makes it.
LEMMA HolderStep ==
  ASSUME Lasting, [Next]_vars, NEW v \in PoolActions
  PROVE  Kept(v) \/ (Creates(v) /\ Made(v))
<1>1. PopFindsElement'
  BY GoodStep DEF Lasting, QueueInv
<1>2. CASE UNCHANGED vars
  <2>1. Hands(v)' = Hands(v) /\ Stored(v)' = Stored(v) /\ Cells(v)' = Cells(v)
    BY <1>2 DEF Hands, Stored, Cells, vars, taskVars, frameVars, queueVars
  <2> QED
    BY <2>1, HoldersShrink DEF Kept
<1>3. CASE NewCall \/ Registered \/ \E j \in Jobs : Register(j)
  BY <1>3, CallHolders DEF Kept
<1>4. ASSUME NEW th \in Threads, Step(th) PROVE Kept(v) \/ (Creates(v) /\ Made(v))
  BY <1>1, <1>3, <1>4, StepHolders
<1> QED
  BY <1>2, <1>3, <1>4 DEF Next

-----------------------------------------------------------------------------
(* What is handed over *)

\* A task completes once and keeps its outcome.
LEMMA OutcomeStays ==
  ASSUME Lasting, [Next]_vars
  PROVE  /\ scenario' = scenario /\ Started' = Started /\ todo' \subseteq todo
         /\ \A t \in Tasks : completed[t] => completed'[t] /\ failed'[t] = failed[t]
         /\ \A t \in Tasks : completed'[t] => completed[t] \/ \E th \in Threads : Complete(th) /\ task[th] = t
<1>1. scenario' = scenario
  BY DEF Next, NewCall, Step, CallRun, CallThen, CallWait, CallAll, CallAsync, Pushed, WaitCheck, WaitRegister, WaitEnd,
         WaitReturns, Complete, SetEvent, RunUser, CountRead, CountStore, CountDown, CountTest, Proceed,
         AsyncNext, AsyncAwait, Fetch, Dispatch, JobRunsJob, JobEnds, Registered, Register, vars
<1>2. todo' \subseteq todo
  BY DEF Next, NewCall, Step, CallRun, CallThen, CallWait, CallAll, CallAsync, Calling, Pushed, WaitCheck, WaitRegister, WaitEnd,
         WaitReturns, Complete, SetEvent, RunUser, CountRead, CountStore, CountDown, CountTest, Proceed,
         AsyncNext, AsyncAwait, Fetch, Dispatch, JobRunsJob, JobEnds, Registered, Register, vars
<1>3. Started' = Started
  BY <1>1 DEF Started
<1>4. CASE UNCHANGED <<completed, failed>>
  BY <1>1, <1>2, <1>3, <1>4
<1>5. ASSUME NEW th \in Threads, Complete(th), ~UNCHANGED <<completed, failed>>
      PROVE  /\ \A t \in Tasks : completed[t] => completed'[t] /\ failed'[t] = failed[t]
             /\ \A t \in Tasks : completed'[t] => completed[t] \/ task[th] = t
  <2>1. /\ completed' = [completed EXCEPT ![task[th]] = TRUE] /\ ~completed[task[th]]
        /\ failed' = [failed EXCEPT ![task[th]] = ex[th]]
    BY <1>5 DEF Complete
  <2>2. completed \in [Tasks -> BOOLEAN] /\ failed \in [Tasks -> BOOLEAN]
    BY DEF Lasting, TypeOK
  <2>3. \A t \in Tasks : t # task[th] => completed'[t] = completed[t] /\ failed'[t] = failed[t]
    BY <2>1, <2>2
  <2> QED
    BY <2>1, <2>3
<1>6. UNCHANGED <<completed, failed>> \/ \E th \in Threads : Complete(th)
  BY DEF Next, NewCall, Step, CallRun, CallThen, CallWait, CallAll, CallAsync, Calling, Pushed, WaitCheck, WaitRegister, WaitEnd,
         WaitReturns, SetEvent, RunUser, CountRead, CountStore, CountDown, CountTest, Proceed,
         AsyncNext, AsyncAwait, Fetch, Dispatch, JobRunsJob, JobEnds, Registered, Register, vars, taskVars
<1> QED
  BY <1>1, <1>2, <1>3, <1>4, <1>5, <1>6

\* What other threads hold stays theirs.
LEMMA OthersHanded ==
  ASSUME Lasting, [Next]_vars, NEW th \in Threads, ThreadHanded(th),
         pc'[th] = pc[th] /\ task'[th] = task[th] /\ cont'[th] = cont[th]
  PROVE  ThreadHanded(th)'
  BY OutcomeStays DEF ThreadHanded

LEMMA StartedJobs ==
  ASSUME Lasting
  PROVE  /\ Started \subseteq Jobs /\ Started \subseteq Tasks /\ Jobs \subseteq Tasks
         /\ Async \notin Started /\ All \notin Started
  BY TaskAssumption DEF Started, Tasks

LEMMA OwnKinds ==
  /\ User.kind = "user" /\ Counter.kind = "count" /\ Proceeding.kind = "proceed"
  /\ User.by = Main /\ Counter.by = Main /\ Proceeding.by = Main /\ None.by = Main
  /\ \A c \in Continuations : c.kind = "none" /\ c.by = Main => c = None
  /\ \A c \in Continuations : c.kind = "user" /\ c.by = Main => c = User
  /\ \A c \in Continuations : c.kind = "count" /\ c.by = Main => c = Counter
  /\ \A c \in Continuations : c.kind = "proceed" /\ c.by = Main => c = Proceeding
  BY MainAssumption, KindTyped DEF User, Counter, Proceeding, None, Continuation, Continuations

LEMMA CellsTyped ==
  ASSUME Lasting
  PROVE  /\ array \in Seq(Values) /\ tale \in Nat /\ tale <= Len(array)
         /\ \A i \in DOMAIN array : array[i].task \in Tasks /\ array[i].cont \in Continuations
<1>1. array \in Seq(Values) /\ tale \in Nat /\ tale <= Len(array)
  BY DEF Lasting, QueueInv, QueueTypeOK
<1>2. \A i \in DOMAIN array : array[i] \in PoolActions
  BY <1>1, ValuesAssumption
<1> QED
  BY <1>1, <1>2 DEF PoolActions

LEMMA SameCells ==
  ASSUME Lasting, [Next]_vars, HandedInv, array' = array
  PROVE  \A i \in DOMAIN array' : CellHanded(i)'
  BY OutcomeStays, CellsTyped DEF HandedInv, CellHanded

\* A push hands over what it stores.
LEMMA PushHanded ==
  ASSUME Lasting, [Next]_vars, HandedInv, NEW th \in Threads, NEW w \in Values, ListPush(th, w),
         w.cont.by = Main, w.cont.kind = "count" => w.task \in Started,
         w.cont # None => w.task \in Tasks /\ completed[w.task]
  PROVE  \A i \in DOMAIN array' : CellHanded(i)'
<1>1. array' = Store(w)
  BY DEF ListPush
<1>2. \A i \in DOMAIN array' : (i \in DOMAIN array /\ array'[i] = array[i]) \/ array'[i] = w
  BY <1>1, CellsTyped DEF Store
<1>3. ASSUME NEW i \in DOMAIN array' PROVE CellHanded(i)'
  <2>1. CASE i \in DOMAIN array /\ array'[i] = array[i]
    BY <2>1, OutcomeStays, CellsTyped DEF HandedInv, CellHanded
  <2>2. CASE array'[i] = w
    BY <2>2, OutcomeStays DEF CellHanded
  <2> QED
    BY <1>2, <2>1, <2>2
<1> QED
  BY <1>3

\* continueWith hands over c.
LEMMA ContinueHanded ==
  ASSUME Lasting, [Next]_vars, HandedInv, NEW th \in Threads, NEW t \in Tasks, NEW c \in Continuations,
         NEW next, NEW conflict, ContinueWith(th, t, c, next, conflict),
         c # None, c.kind # "set", c.by = Main, c.kind = "count" => t \in Started
  PROVE  /\ \A u \in Tasks : TaskHanded(u)'
         /\ \A i \in DOMAIN array' : CellHanded(i)'
<1>1. \A u \in Tasks : TaskHanded(u)'
  <2>1. \A u \in Tasks : continuation'[u] = continuation[u] \/ (u = t /\ continuation'[u] = c)
    BY DEF ContinueWith, Lasting, TypeOK
  <2> QED
    BY <2>1, OutcomeStays DEF HandedInv, TaskHanded
<1>2. CASE UNCHANGED array
  BY <1>1, <1>2, SameCells
<1>3. CASE ListPush(th, Call(c, t)) /\ completed[t]
  <2>1. PICK w : w = Call(c, t)
    OBVIOUS
  <2>2. w \in Values /\ w.cont = c /\ w.task = t
    BY <2>1, ActionTyped
  <2> QED
    BY <1>1, <1>3, <2>1, <2>2, PushHanded
<1> QED
  BY <1>1, <1>2, <1>3 DEF ContinueWith, queueVars

LEMMA SameTasks ==
  ASSUME Lasting, [Next]_vars, HandedInv, continuation' = continuation
  PROVE  \A t \in Tasks : TaskHanded(t)'
  BY OutcomeStays DEF HandedInv, TaskHanded

LEMMA JobHanded ==
  ASSUME Lasting, [Next]_vars, HandedInv, NEW th \in Threads, NEW j \in Jobs, ListPush(th, RunJob(j))
  PROVE  \A i \in DOMAIN array' : CellHanded(i)'
<1>1. PICK w : w = RunJob(j)
  OBVIOUS
<1>2. w \in Values /\ w.cont = None /\ w.cont.by = Main /\ w.cont.kind = "none"
  BY <1>1, JobTyped, OwnKinds, NoneTyped
<1> QED
  BY <1>1, <1>2, PushHanded

\* A thread comes to a place where it holds nothing of what is handed over.
LEMMA FreeHanded ==
  ASSUME Lasting, HandedInv, [Next]_vars, NEW th \in Threads, pc[th] # "off",
         pc'[th] \notin {"continue", "countStore", "countDown"}
  PROVE  ThreadHanded(th)'
<1>1. th \in scenario.workers \cup {Main}
  BY DEF HandedInv, ThreadHanded
<1> QED
  BY <1>1, OutcomeStays DEF ThreadHanded

\* Nobody but th moves.
Alone(th) == \A u \in Threads \ {th} : pc'[u] = pc[u] /\ task'[u] = task[u] /\ cont'[u] = cont[u]

\* Nobody but th moves, and it comes to a place where it holds nothing.
LEMMA FreeStep ==
  ASSUME Lasting, HandedInv, [Next]_vars, NEW th \in Threads, pc[th] # "off", Alone(th),
         pc'[th] \notin {"continue", "countStore", "countDown"}
  PROVE  \A u \in Threads : ThreadHanded(u)'
<1>1. \A u \in Threads \ {th} : ThreadHanded(u)'
  BY OthersHanded DEF HandedInv, Alone
<1> QED
  BY <1>1, FreeHanded

\* A worker's step is none of the main thread's.
LEMMA MainStays ==
  ASSUME HandedInv, NEW th \in Threads, th # Main, Alone(th)
  PROVE  MainHanded'
  BY MainAssumption DEF HandedInv, MainHanded, Alone

LEMMA MainFree ==
  ASSUME pc'[Main] \notin {"complete", "continue", "countStore", "countDown", "countTest"}
  PROVE  MainHanded'
  BY DEF MainHanded

LEMMA CallsHanded ==
  ASSUME Lasting, HandedInv, [Next]_vars, NewCall \/ Registered \/ \E j \in Jobs : Register(j)
  PROVE  HandedInv'
<1> USE MainAssumption
<1>0. /\ pc[Main] # "off" /\ Alone(Main) /\ pc'[Main] \in {"idle", "wait", "register", "next"}
  <2>1. ASSUME NEW j \in Jobs, Register(j) PROVE pc[Main] # "off" /\ Alone(Main) /\ pc'[Main] \in {"idle", "register"}
    BY <2>1 DEF Register, Ready, ContinueWith, Goto, Alone, Lasting, TypeOK
  <2>2. ASSUME NEW t \in Tasks, CallThen(t) PROVE pc[Main] # "off" /\ Alone(Main) /\ pc'[Main] = "idle"
    BY <2>2 DEF CallThen, Calling, Ready, ContinueWith, Goto, Alone, Lasting, TypeOK
  <2> QED
    BY <2>1, <2>2 DEF NewCall, CallRun, CallWait, CallAll, CallAsync, Calling, Ready, Registered, Goto, Alone,
                      frameVars, Lasting, TypeOK
<1>1. (\A u \in Threads : ThreadHanded(u)') /\ MainHanded'
  BY <1>0, FreeStep, MainFree
<1>2. (\A t \in Tasks : TaskHanded(t)') /\ (\A i \in DOMAIN array' : CellHanded(i)')
  <2>1. ASSUME NEW j \in Jobs, CallRun(j)
        PROVE  (\A t \in Tasks : TaskHanded(t)') /\ (\A i \in DOMAIN array' : CellHanded(i)')
    BY <2>1, SameTasks, JobHanded DEF CallRun, taskVars
  <2>2. ASSUME NEW t \in Tasks, CallThen(t)
        PROVE  (\A u \in Tasks : TaskHanded(u)') /\ (\A i \in DOMAIN array' : CellHanded(i)')
    <3>1. ContinueWith(Main, t, User, "idle", "idle")
      BY <2>2 DEF CallThen, User
    <3> QED
      BY <3>1, ContinueHanded, OwnTyped, OwnKinds
  <2>3. ASSUME NEW j \in Jobs, Register(j)
        PROVE  (\A u \in Tasks : TaskHanded(u)') /\ (\A i \in DOMAIN array' : CellHanded(i)')
    <3>1. ContinueWith(Main, j, Counter, "register", "idle") /\ j \in Started /\ j \in Tasks
      BY <2>3, StartedJobs DEF Register, Counter, HandedInv
    <3> QED
      BY <3>1, ContinueHanded, OwnTyped, OwnKinds
  <2>4. CASE (\E t \in Tasks : CallWait(t)) \/ CallAll \/ CallAsync \/ Registered
    BY <2>4, SameTasks, SameCells DEF CallWait, CallAll, CallAsync, Registered, taskVars, queueVars
  <2> QED
    BY <2>1, <2>2, <2>3, <2>4 DEF NewCall
<1>3. unregistered' \subseteq Started
  BY DEF HandedInv, NewCall, CallRun, CallThen, CallWait, CallAll, CallAsync, Registered, Register, allVars
<1> QED
  BY <1>1, <1>2, <1>3, OutcomeStays DEF HandedInv

\* The queue and the continuations as they are, or changed by continueWith.
LEMMA StepsTasks ==
  ASSUME Lasting, HandedInv, [Next]_vars, NEW th \in Threads, Step(th),
         ~(th = Main /\ (Registered \/ \E j \in Jobs : Register(j)))
  PROVE  (\A t \in Tasks : TaskHanded(t)') /\ (\A i \in DOMAIN array' : CellHanded(i)')
<1>1. CASE WaitRegister(th)
  <2>1. array' = array
    BY <1>1 DEF WaitRegister, WaitReturns, queueVars
  <2>2. \A t \in Tasks : continuation'[t] = continuation[t] \/ continuation'[t].kind = "set"
    BY <1>1, SetTyped DEF WaitRegister, WaitReturns, SetOf, taskVars, Lasting, TypeOK
  <2>3. \A t \in Tasks : TaskHanded(t)'
    BY <2>2, OutcomeStays DEF HandedInv, TaskHanded
  <2> QED
    BY <2>1, <2>3, SameCells
<1>2. CASE AsyncAwait(th)
  <2>1. position \in 1 .. Len(scenario.awaited)
    BY <1>2 DEF AsyncAwait, Ready, Lasting, TypeOK, PlaceInv
  <2>2. PICK t, next : t = scenario.awaited[position] /\ next = Home(th)
    OBVIOUS
  <2>3. t \in Tasks /\ ContinueWith(th, t, Proceeding, next, "complete")
    BY <1>2, <2>1, <2>2, ScenarioTyped DEF AsyncAwait, Proceeding, Lasting
  <2> QED
    BY <2>3, ContinueHanded, OwnTyped, OwnKinds
<1>3. CASE JobRunsJob(th)
  <2>1. PICK j : j = scenario.nested[task[th]]
    OBVIOUS
  <2>2. j \in Jobs /\ ListPush(th, RunJob(j)) /\ continuation' = continuation
    BY <1>3, <2>1, ScenarioTyped DEF JobRunsJob, Ready, Lasting, PlaceInv, taskVars
  <2> QED
    BY <2>2, SameTasks, JobHanded
<1>4. CASE UNCHANGED <<continuation, array>>
  BY <1>4, SameTasks, SameCells
<1> QED
  BY <1>1, <1>2, <1>3, <1>4 DEF Step, Pushed, WaitCheck, WaitEnd, WaitReturns, Complete, SetEvent, RunUser, CountRead, CountStore,
         CountDown, CountTest, Proceed, AsyncNext, Fetch, Dispatch, JobEnds, Release, SemaphoreWait, ListPop, taskVars, queueVars

LEMMA HandedParts ==
  ASSUME \A t \in Tasks : TaskHanded(t)', \A i \in DOMAIN array' : CellHanded(i)',
         \A th \in Threads : ThreadHanded(th)', MainHanded', unregistered' \subseteq Started'
  PROVE  HandedInv'
  BY DEF HandedInv

\* A step of a thread that holds something when it has done it.
LEMMA HoldingStep ==
  ASSUME Lasting, HandedInv, [Next]_vars, NEW th \in Threads, Alone(th), ThreadHanded(th)', th = Main => MainHanded'
  PROVE  (\A u \in Threads : ThreadHanded(u)') /\ MainHanded'
<1>1. \A u \in Threads \ {th} : ThreadHanded(u)'
  BY OthersHanded DEF HandedInv, Alone
<1> QED
  BY <1>1, MainStays

LEMMA StepsThreads ==
  ASSUME Lasting, PopFindsElement', HandedInv, [Next]_vars, NEW th \in Threads, Step(th),
         ~(th = Main /\ (Registered \/ \E j \in Jobs : Register(j)))
  PROVE  (\A u \in Threads : ThreadHanded(u)') /\ MainHanded'
<1> DEFINE Goal == (\A u \in Threads : ThreadHanded(u)') /\ MainHanded'
<1>0. /\ (\E raises \in BOOLEAN : JobEnds(th, raises)) \/ Dispatch(th) \/ JobRunsJob(th) => th # Main
      /\ Home(th) \in {"idle", "pop"} /\ (th = Main => Home(th) = "idle")
  BY DEF JobEnds, Dispatch, JobRunsJob, Ready, Lasting, PlaceInv, Home
<1>1. ASSUME pc[th] # "off", Alone(th), pc'[th] \notin {"continue", "countStore", "countDown"},
             th = Main => MainHanded'
      PROVE  Goal
  BY <1>1, FreeStep, MainStays
<1>2. CASE Pushed(th) \/ Fetch(th)
  <2>1. UNCHANGED <<pc, task, cont>>
    BY <1>2 DEF Pushed, Fetch, frameVars
  <2> QED
    BY <2>1, OthersHanded DEF HandedInv, MainHanded
<1>3. CASE WaitCheck(th) \/ WaitRegister(th) \/ WaitEnd(th)
  <2>1. /\ pc[th] # "off" /\ Alone(th) /\ pc'[th] \in {"idle", "complete", "waitLock", "waiting"}
        /\ th = Main => pc'[th] # "complete"
    BY <1>3 DEF WaitCheck, WaitRegister, WaitEnd, WaitReturns, CompleteWith, Ready, Goto, Alone, Lasting, TypeOK
  <2> QED
    BY <1>1, <2>1, MainFree
<1>4. CASE SetEvent(th) \/ RunUser(th)
  <2>1. pc[th] # "off" /\ Alone(th) /\ pc'[th] = Home(th)
    BY <1>4 DEF SetEvent, RunUser, Continuing, Ready, Goto, Alone, Lasting, TypeOK
  <2> QED
    BY <1>0, <1>1, <2>1, MainFree
<1>5. CASE Complete(th)
  <2>1. pc[th] = "complete" /\ task[th] \in Tasks /\ Alone(th) /\ task'[th] = task[th]
    BY <1>5 DEF Complete, Ready, Goto, Alone, Lasting, PlaceInv, TypeOK
  <2>2. CASE pc'[th] # "continue"
    <3>1. pc'[th] \in {"raised", Home(th)}
      BY <1>5, <2>2 DEF Complete, Goto, Lasting, TypeOK
    <3> QED
      BY <1>0, <1>1, <2>1, <3>1, MainFree
  <2>3. CASE pc'[th] = "continue"
    <3> DEFINE t == task[th]
               c == continuation[t]
    <3>1. ~completed[t]
      BY <1>5, <2>3 DEF Complete, Goto, Lasting, TypeOK
    <3>2. cont'[th] = c /\ completed'[t] /\ c # None /\ c \in Continuations
      BY <1>0, <1>5, <2>1, <2>3, <3>1 DEF Complete, Goto, Lasting, TypeOK
    <3>3. c.kind # "none" /\ (c.kind # "set" => c.by = Main) /\ (c.kind = "count" => t \in Started)
      BY <2>1, <3>2, OwnKinds DEF HandedInv, TaskHanded
    <3>4. th \in scenario.workers \cup {Main}
      BY <2>1 DEF HandedInv, ThreadHanded
    <3>5. ThreadHanded(th)'
      BY <2>1, <2>3, <3>2, <3>3, <3>4, OutcomeStays DEF ThreadHanded
    <3>6. th = Main => MainHanded'
      <4>1. th = Main => c.kind # "count"
        BY <2>1, <3>3, StartedJobs DEF HandedInv, MainHanded
      <4> QED
        BY <2>3, <3>2, <4>1 DEF MainHanded
    <3> QED
      BY <2>1, <3>5, <3>6, HoldingStep
  <2> QED
    BY <2>2, <2>3
<1>6. CASE CountRead(th) \/ CountStore(th)
  <2>1. /\ Alone(th) /\ task'[th] = task[th] /\ pc'[th] \in {"countStore", "countDown"}
        /\ pc[th] \in {"continue", "countStore"} /\ (pc[th] = "continue" => cont[th].kind = "count")
    BY <1>6 DEF CountRead, CountStore, Continuing, Ready, Goto, Alone, Lasting, TypeOK
  <2>2. th # Main
    BY <2>1 DEF HandedInv, MainHanded
  <2>3. ThreadHanded(th)'
    BY <2>1, OutcomeStays DEF HandedInv, ThreadHanded
  <2> QED
    BY <2>1, <2>2, <2>3, HoldingStep
<1>7. CASE CountDown(th) \/ CountTest(th)
  <2>1. /\ Alone(th) /\ pc'[th] \in {"countTest", "complete", Home(th)} /\ pc[th] \in {"countDown", "countTest"}
    BY <1>7 DEF CountDown, CountTest, CompleteWith, Ready, Goto, Alone, Lasting, TypeOK
  <2>2. th # Main
    BY <2>1 DEF HandedInv, MainHanded
  <2> QED
    BY <1>0, <1>1, <2>1, <2>2
<1>8. CASE Proceed(th) \/ AsyncNext(th) \/ AsyncAwait(th)
  <2>1. /\ Alone(th) /\ pc'[th] \in {"next", "complete", "await", Home(th)} /\ pc[th] \in {"continue", "next", "await"}
        /\ pc'[th] = "complete" => task'[th] = Async
    <3>1. CASE Proceed(th)
      BY <3>1 DEF Proceed, Continuing, Ready, Goto, Alone, Lasting, TypeOK
    <3>2. CASE AsyncNext(th)
      BY <3>2 DEF AsyncNext, CompleteWith, Ready, Goto, Alone, Lasting, TypeOK
    <3>3. CASE AsyncAwait(th)
      BY <3>3, <1>0 DEF AsyncAwait, ContinueWith, Ready, Goto, Alone, Lasting, TypeOK
    <3> QED
      BY <1>8, <3>1, <3>2, <3>3
  <2>2. th = Main => MainHanded'
    BY <1>0, <2>1 DEF MainHanded
  <2> QED
    BY <1>0, <1>1, <2>1, <2>2
<1>9. CASE Dispatch(th)
  <2>1. /\ top # tale /\ got' = [got EXCEPT ![th] = array[top + 1]] /\ at'[th] # "raised"
        /\ top \in Nat /\ tale \in Nat /\ top <= tale
    BY <1>9 DEF Dispatch, ListPop, Moves, PopFindsElement, Lasting, QueueInv, QueueTypeOK
  <2>2. PICK i : i = top + 1
    OBVIOUS
  <2>3. i \in DOMAIN array /\ got'[th] = array[i]
    BY <2>1, <2>2, CellsTyped DEF Lasting, QueueInv, QueueTypeOK
  <2>4. /\ pc[th] = "pop" /\ Alone(th) /\ pc'[th] \in {"job", "continue"}
        /\ pc'[th] = "continue" => array[i].cont # None /\ cont'[th] = array[i].cont /\ task'[th] = array[i].task
    BY <1>9, <2>1, <2>3 DEF Dispatch, Goto, Alone, Lasting, TypeOK
  <2>5. ThreadHanded(th)'
    <3>1. th \in scenario.workers \cup {Main}
      BY <2>4 DEF HandedInv, ThreadHanded
    <3>2. array[i].cont \in Continuations /\ CellHanded(i) /\ array[i].task \in Tasks
      BY <2>3, CellsTyped DEF HandedInv
    <3> QED
      BY <2>4, <3>1, <3>2, OutcomeStays, OwnKinds DEF CellHanded, ThreadHanded
  <2> QED
    BY <1>0, <1>9, <2>4, <2>5, HoldingStep
<1>10. CASE JobRunsJob(th) \/ \E raises \in BOOLEAN : JobEnds(th, raises)
  <2>1. Alone(th) /\ pc[th] = "job" /\ pc'[th] \in {"wait", "complete"}
    BY <1>10 DEF JobRunsJob, JobEnds, CompleteWith, Ready, Goto, Alone, Lasting, TypeOK
  <2> QED
    BY <1>0, <1>1, <1>10, <2>1
<1> QED
  BY <1>2, <1>3, <1>4, <1>5, <1>6, <1>7, <1>8, <1>9, <1>10 DEF Step

LEMMA HandedStep ==
  ASSUME Lasting, HandedInv, [Next]_vars
  PROVE  HandedInv'
<1>1. PopFindsElement'
  BY GoodStep DEF Lasting, QueueInv
<1>2. CASE UNCHANGED vars
  <2>1. \A th \in Threads : ThreadHanded(th)'
    BY <1>2, OthersHanded DEF HandedInv, vars, frameVars
  <2>2. MainHanded' /\ unregistered' \subseteq Started'
    BY <1>2, OutcomeStays DEF HandedInv, MainHanded, vars, frameVars, allVars
  <2>3. \A t \in Tasks : TaskHanded(t)'
    BY <1>2, SameTasks DEF vars, taskVars
  <2>4. \A i \in DOMAIN array' : CellHanded(i)'
    BY <1>2, SameCells DEF vars, queueVars
  <2> QED
    BY <2>1, <2>2, <2>3, <2>4, HandedParts
<1>3. CASE NewCall \/ Registered \/ \E j \in Jobs : Register(j)
  BY <1>3, CallsHanded
<1>4. ASSUME NEW th \in Threads, Step(th), ~(th = Main /\ (Registered \/ \E j \in Jobs : Register(j)))
      PROVE  HandedInv'
  <2>1. unregistered' = unregistered
    BY <1>4 DEF Step, Pushed, WaitCheck, WaitRegister, WaitEnd, WaitReturns, Complete, SetEvent, RunUser, CountRead, CountStore,
           CountDown, CountTest, Proceed, AsyncNext, AsyncAwait, Fetch, Dispatch, JobRunsJob, JobEnds, allVars
  <2>2. unregistered' \subseteq Started'
    BY <2>1, OutcomeStays DEF HandedInv
  <2>3. (\A t \in Tasks : TaskHanded(t)') /\ (\A i \in DOMAIN array' : CellHanded(i)')
    BY <1>4, StepsTasks
  <2>4. (\A u \in Threads : ThreadHanded(u)') /\ MainHanded'
    BY <1>1, <1>4, StepsThreads
  <2> QED
    BY <2>2, <2>3, <2>4, HandedParts
<1> QED
  BY <1>2, <1>3, <1>4 DEF Next

-----------------------------------------------------------------------------
(* The continuation of a client runs once *)

\* The elements that are no places of an action.
Tagged(S, tags) == \A p \in S : p[1] \in tags

LEMMA HolderTags == \A v : Tagged(Holders(v), {"task", "cell", "thread"})
  BY DEF Holders, Tagged

\* The places A next to those of an action v stay at most one in all: v is kept,
\* v is made by a call that goes, a thread has done v, or v is not touched.
LEMMA PlacesStep ==
  ASSUME NEW v, NEW A, NEW A1, Once(A \cup Holders(v)),
         Tagged(A, {"call", "ran", "inside", "done", "body", "end", "loop", "counting"}),
         \/ Kept(v) /\ A1 \subseteq A
         \/ Made(v) /\ \E c \in A : A1 \subseteq A \ {c}
         \/ \E o \in Holders(v) : \E n : Holders(v)' \subseteq Holders(v) \ {o} /\ A1 \subseteq A \cup {n}
         \/ Holders(v)' \subseteq Holders(v) /\ \E c \in A : \E n : A1 \subseteq (A \ {c}) \cup {n}
  PROVE  Once(A1 \cup Holders(v)')
<1>1. PICK H, H1 : H = Holders(v) /\ H1 = Holders(v)'
  OBVIOUS
<1>2. A \cap H = {} /\ Once(A \cup H)
  <2>1. Tagged(H, {"task", "cell", "thread"})
    BY <1>1, HolderTags
  <2> QED
    BY <1>1, <2>1 DEF Tagged
<1>3. PICK S, T : S = A \cup H /\ T = A1 \cup H1
  OBVIOUS
<1>4. T \subseteq S \/ \E o \in S : \E n : T \subseteq (S \ {o}) \cup {n}
  <2>1. CASE Kept(v) /\ A1 \subseteq A
    BY <1>1, <1>2, <1>3, <2>1 DEF Kept
  <2>2. CASE Made(v) /\ \E c \in A : A1 \subseteq A \ {c}
    <3>1. PICK c \in A : A1 \subseteq A \ {c}
      BY <2>2
    <3>2. PICK n : H1 \subseteq H \cup {n}
      BY <1>1, <2>2 DEF Made
    <3> QED
      BY <1>2, <1>3, <3>1, <3>2
  <2>3. CASE \E o \in H : \E n : H1 \subseteq H \ {o} /\ A1 \subseteq A \cup {n}
    BY <1>2, <1>3, <2>3
  <2>4. CASE H1 \subseteq H /\ \E c \in A : \E n : A1 \subseteq (A \ {c}) \cup {n}
    BY <1>2, <1>3, <2>4
  <2> QED
    BY <1>1, <2>1, <2>2, <2>3, <2>4
<1>5. Once(T)
  BY <1>2, <1>3, <1>4, OnceShrinks, OnceMoves
<1> QED
  BY <1>1, <1>3, <1>5

LEMMA RanStays ==
  ASSUME Lasting, [Next]_vars, NEW t \in Tasks
  PROVE  ran'[t] = ran[t] \/ \E th \in Threads : RunUser(th) /\ task[th] = t
<1>1. UNCHANGED ran \/ \E th \in Threads : RunUser(th)
  BY DEF Next, NewCall, Step, CallRun, CallThen, CallWait, CallAll, CallAsync, Pushed, WaitCheck, WaitRegister, WaitEnd,
         WaitReturns, Complete, SetEvent, CountRead, CountStore, CountDown, CountTest, Proceed,
         AsyncNext, AsyncAwait, Fetch, Dispatch, JobRunsJob, JobEnds, Registered, Register, vars
<1> QED
  BY <1>1 DEF RunUser, Lasting, TypeOK

LEMMA OwnActions ==
  ASSUME NEW t \in Tasks
  PROVE  /\ Call(User, t) \in PoolActions /\ Call(User, t).cont = User /\ Call(User, t).task = t
         /\ Call(Counter, t) \in PoolActions /\ Call(Counter, t).cont = Counter /\ Call(Counter, t).task = t
         /\ Call(Proceeding, t) \in PoolActions /\ Call(Proceeding, t).cont = Proceeding /\ Call(Proceeding, t).task = t
         /\ RunJob(t) \in PoolActions /\ RunJob(t).cont = None /\ RunJob(t).task = t
  BY OwnTyped, NoneTyped DEF PoolActions, Call, RunJob

\* Each kind of action is made by one step.
LEMMA OwnCreated ==
  ASSUME NEW v \in PoolActions, Creates(v)
  PROVE  /\ v.cont = User => CallThen(v.task)
         /\ v.cont = Counter => Register(v.task)
         /\ v.cont = Proceeding => \E th \in Threads : AsyncAwait(th) /\ scenario.awaited[position] = v.task
         /\ v.cont = None => \/ CallRun(v.task)
                             \/ \E w \in Threads : JobRunsJob(w) /\ scenario.nested[task[w]] = v.task
  BY OwnTyped, OwnKinds, SetTyped DEF Creates

LEMMA UserStep ==
  ASSUME Lasting, HandedInv, UserInv, [Next]_vars
  PROVE  UserInv'
<1> SUFFICES ASSUME NEW t \in Tasks PROVE Once(UserPlaces(t))' /\ (ran'[t] > 0 => completed'[t])
  BY DEF UserInv
<1> DEFINE v == Call(User, t)
           c == [what |-> "then", on |-> t]
           R == {<<"call", d>> : d \in todo \cap {c}} \cup {<<"ran", n>> : n \in 1 .. ran[t]}
<1>1. v \in PoolActions /\ v.cont = User /\ v.task = t
  BY OwnActions
<1>2. UserPlaces(t) = R \cup Holders(v) /\ UserPlaces(t)' = R' \cup Holders(v)'
  BY DEF UserPlaces
<1>3. Once(R \cup Holders(v)) /\ (ran[t] > 0 => completed[t]) /\ ran[t] \in Nat
  BY <1>2 DEF UserInv, Lasting, TypeOK
<1> HIDE DEF v
<1>4. PICK A, A1 : A = R /\ A1 = R'
  OBVIOUS
<1>5. /\ Tagged(A, {"call", "ran", "inside", "done", "body", "end", "loop", "counting"})
      /\ Once(A \cup Holders(v))
  BY <1>3, <1>4 DEF Tagged
<1>6. ASSUME NEW th \in Threads, RunUser(th), task[th] = t
      PROVE  Once(A1 \cup Holders(v)') /\ completed'[t]
  <2>1. pc[th] = "continue" /\ cont[th] = User
    BY <1>6, OwnKinds DEF RunUser, Continuing, Ready, HandedInv, ThreadHanded, Lasting, TypeOK
  <2>2. th \in Hands(v)
    BY <1>1, <1>6, <2>1, OwnTyped DEF Hands
  <2>3. PICK o, n : o = <<"thread", th>> /\ n = <<"ran", ran[t] + 1>>
    OBVIOUS
  <2>4. o \in Holders(v) /\ Holders(v)' \subseteq Holders(v) \ {o}
    BY <1>6, <2>2, <2>3, HolderIs, Dropping, DropKeeps
  <2>5. ran'[t] = ran[t] + 1 /\ todo' = todo
    BY <1>6 DEF RunUser, Lasting, TypeOK
  <2>6. A1 \subseteq A \cup {n}
    BY <1>3, <1>4, <2>3, <2>5
  <2>7. completed'[t]
    BY <1>6, <2>1, OutcomeStays DEF HandedInv, ThreadHanded
  <2> QED
    BY <1>5, <2>4, <2>6, <2>7, PlacesStep
<1>7. ASSUME ran'[t] = ran[t]
      PROVE  Once(A1 \cup Holders(v)')
  <2>1. A1 \subseteq A
    BY <1>4, <1>7, OutcomeStays
  <2>2. CASE Kept(v)
    BY <1>5, <2>1, <2>2, PlacesStep
  <2>3. CASE CallThen(t) /\ Made(v)
    <3>1. PICK o : o = <<"call", c>>
      OBVIOUS
    <3>2. o \in A /\ o \notin A1
      BY <1>4, <2>3, <3>1 DEF CallThen, Calling
    <3>3. \E d \in A : A1 \subseteq A \ {d}
      BY <2>1, <3>2
    <3> QED
      BY <1>5, <2>3, <3>3, PlacesStep
  <2> QED
    BY <1>1, <2>2, <2>3, HolderStep, OwnCreated
<1>8. Once(R' \cup Holders(v)')
  BY <1>4, <1>6, <1>7, RanStays
<1>9. ran'[t] > 0 => completed'[t]
  BY <1>3, <1>6, RanStays, OutcomeStays
<1> QED
  BY <1>2, <1>8, <1>9

LEMMA UserOnce == UserInv /\ TypeOK => ContinuedOnce
<1> SUFFICES ASSUME UserInv, TypeOK, NEW t \in Tasks PROVE ran[t] <= 1 /\ (ran[t] = 1 => completed[t])
  BY DEF ContinuedOnce
<1>1. ran[t] \in Nat
  BY DEF TypeOK
<1>2. ASSUME ran[t] > 1 PROVE FALSE
  <2>1. PICK p, q : p = <<"ran", 1>> /\ q = <<"ran", 2>>
    OBVIOUS
  <2>2. p \in UserPlaces(t) /\ q \in UserPlaces(t)
    BY <1>1, <1>2, <2>1 DEF UserPlaces
  <2> QED
    BY <2>1, <2>2 DEF UserInv, Once
<1> QED
  BY <1>1, <1>2 DEF UserInv

-----------------------------------------------------------------------------
(* A job runs once *)

\* A step is one thread's.
LEMMA CallAlone ==
  ASSUME Lasting, NewCall \/ Registered \/ \E i \in Jobs : Register(i)
  PROVE  Alone(Main)
<1>1. ASSUME NEW i \in Jobs, Register(i) PROVE Alone(Main)
  BY <1>1 DEF Register, ContinueWith, Goto, Alone, Lasting, TypeOK
<1>2. ASSUME NEW t \in Tasks, CallThen(t) PROVE Alone(Main)
  BY <1>2 DEF CallThen, ContinueWith, Goto, Alone, Lasting, TypeOK
<1> QED
  BY <1>1, <1>2 DEF NewCall, CallRun, CallWait, CallAll, CallAsync, Registered, Goto, Alone, frameVars, Lasting, TypeOK

LEMMA StepAlone ==
  ASSUME Lasting, NEW th \in Threads, Step(th), ~(th = Main /\ (Registered \/ \E i \in Jobs : Register(i)))
  PROVE  Alone(th)
<1>1. CASE AsyncAwait(th)
  BY <1>1 DEF AsyncAwait, ContinueWith, Goto, Alone, Lasting, TypeOK
<1>2. CASE Pushed(th) \/ Fetch(th) \/ Dispatch(th) \/ JobRunsJob(th)
  BY <1>2 DEF Pushed, Fetch, Dispatch, JobRunsJob, Goto, Alone, frameVars, Lasting, TypeOK
<1>3. CASE WaitCheck(th) \/ WaitRegister(th) \/ WaitEnd(th)
  BY <1>3 DEF WaitCheck, WaitRegister, WaitEnd, WaitReturns, CompleteWith, Goto, Alone, Lasting, TypeOK
<1> QED
  BY <1>1, <1>2, <1>3 DEF Step, Complete, SetEvent, RunUser, CountRead, CountStore, CountDown, CountTest,
         Proceed, AsyncNext, JobEnds, CompleteWith, Goto, Alone, Lasting, TypeOK

\* Who enters or leaves the inside of job j.
LEMMA InsideStep ==
  ASSUME Lasting, HandedInv, [Next]_vars, NEW j \in Jobs, NEW th \in Threads \ {Main}
  PROVE  /\ th \in Inside(j)' => \/ th \in Inside(j)
                                 \/ task[th] = j /\ (JobRunsJob(th) \/ \E raises \in BOOLEAN : JobEnds(th, raises))
         /\ th \in Inside(j) => th \in Inside(j)' \/ (Complete(th) /\ task[th] = j)
<1> DEFINE Goal == /\ th \in Inside(j)' => \/ th \in Inside(j)
                                           \/ task[th] = j /\ (JobRunsJob(th) \/ \E raises \in BOOLEAN : JobEnds(th, raises))
                   /\ th \in Inside(j) => th \in Inside(j)' \/ (Complete(th) /\ task[th] = j)
<1> USE MainAssumption, TaskAssumption
<1>0. j # All /\ j # Async /\ Home(th) = "pop"
  BY DEF Home
<1>1. CASE pc'[th] = pc[th] /\ task'[th] = task[th]
  BY <1>1 DEF Inside
<1>2. CASE NewCall \/ Registered \/ (\E i \in Jobs : Register(i)) \/ UNCHANGED vars
  BY <1>1, <1>2, CallAlone DEF Alone, vars, frameVars
<1>3. ASSUME NEW u \in Threads \ {th}, Step(u), ~(u = Main /\ (Registered \/ \E i \in Jobs : Register(i)))
      PROVE  pc'[th] = pc[th] /\ task'[th] = task[th]
  BY <1>3, StepAlone DEF Alone
<1>4. CASE WaitCheck(th) \/ WaitRegister(th) \/ WaitEnd(th)
  BY <1>4 DEF WaitCheck, WaitRegister, WaitEnd, WaitReturns, CompleteWith, Ready, Goto, Inside, Lasting, TypeOK
<1>5. CASE Complete(th)
  BY <1>0, <1>5 DEF Complete, Ready, Goto, Inside, Lasting, TypeOK
<1>6. CASE SetEvent(th) \/ RunUser(th) \/ CountRead(th) \/ CountStore(th) \/ CountDown(th) \/ Proceed(th)
  BY <1>0, <1>6 DEF SetEvent, RunUser, CountRead, CountStore, CountDown, Proceed, Continuing, Ready, Goto, Inside, Lasting, TypeOK
<1>7. CASE CountTest(th) \/ AsyncNext(th)
  BY <1>0, <1>7 DEF CountTest, AsyncNext, CompleteWith, Ready, Goto, Inside, Lasting, TypeOK
<1>8. CASE AsyncAwait(th)
  BY <1>0, <1>8 DEF AsyncAwait, ContinueWith, Ready, Goto, Inside, Lasting, TypeOK
<1>9. CASE Pushed(th) \/ Fetch(th)
  BY <1>1, <1>9 DEF Pushed, Fetch, frameVars
<1>10. CASE Dispatch(th)
  BY <1>10 DEF Dispatch, Goto, Inside, Lasting, TypeOK
<1>11. CASE JobRunsJob(th) \/ \E raises \in BOOLEAN : JobEnds(th, raises)
  BY <1>11 DEF JobRunsJob, JobEnds, CompleteWith, Ready, Goto, Inside, Lasting, TypeOK
<1> QED
  <2>1. ASSUME NEW u \in Threads, Step(u), ~(u = Main /\ (Registered \/ \E i \in Jobs : Register(i))) PROVE Goal
    BY <1>1, <1>3, <1>4, <1>5, <1>6, <1>7, <1>8, <1>9, <1>10, <1>11, <2>1 DEF Step
  <2> QED
    BY <1>2, <2>1 DEF Next

\* Every job is made by one step: by a call of the program, or by one other job.
CreatedBy(j) == \A i, k \in Jobs :
  scenario.nested[i] = j => [what |-> "run", on |-> j] \notin todo /\ (scenario.nested[k] = j => i = k)

\* A thread that has taken job i, and no other, is about to run it.
LEMMA JobInHand ==
  ASSUME Lasting, NEW i \in Jobs, NEW w \in Threads, pc[w] = "job", task[w] = i, Once(JobPlaces(i))
  PROVE  /\ <<"thread", w>> \in Holders(RunJob(i)) /\ i \in Tasks
         /\ ~completed[i] /\ Inside(i) = {}
<1>1. i \in Tasks
  BY DEF Tasks
<1>2. PICK o, v : o = <<"thread", w>> /\ v = RunJob(i)
  OBVIOUS
<1>3. w \in Hands(v)
  BY <1>1, <1>2, OwnActions DEF Hands
<1>4. o \in Holders(v) /\ o \in JobPlaces(i)
  BY <1>2, <1>3, HolderIs DEF JobPlaces
<1>5. ~completed[i]
  <2>1. ASSUME completed[i] PROVE FALSE
    <3>1. PICK p : p = <<"done", i>>
      OBVIOUS
    <3>2. p \in JobPlaces(i)
      BY <2>1, <3>1 DEF JobPlaces
    <3> QED
      BY <1>2, <1>4, <3>1, <3>2 DEF Once
  <2> QED
    BY <2>1
<1>6. Inside(i) = {}
  <2>1. ASSUME NEW u \in Inside(i) PROVE FALSE
    <3>1. PICK p : p = <<"inside", u>>
      OBVIOUS
    <3>2. p \in JobPlaces(i)
      BY <3>1 DEF JobPlaces
    <3> QED
      BY <1>2, <1>4, <3>1, <3>2 DEF Once
  <2> QED
    BY <2>1
<1> QED
  BY <1>1, <1>2, <1>4, <1>5, <1>6

LEMMA JobStep ==
  ASSUME Lasting, HandedInv, JobInv, [Next]_vars, NEW j \in Jobs, CreatedBy(j)
  PROVE  /\ Once(JobPlaces(j))'
         /\ JobPlaces(j)' # {} => \/ JobPlaces(j) # {}
                                  \/ \E w \in Threads : JobRunsJob(w) /\ scenario.nested[task[w]] = j
<1> DEFINE v == RunJob(j)
           c == [what |-> "run", on |-> j]
           R == {<<"call", d>> : d \in todo \cap {c}} \cup {<<"inside", th>> : th \in Inside(j)}
                  \cup {<<"done", t>> : t \in {u \in {j} : completed[u]}}
           made == \E w \in Threads : JobRunsJob(w) /\ scenario.nested[task[w]] = j
<1>1. j \in Tasks /\ v \in PoolActions /\ v.cont = None /\ v.task = j
  BY OwnActions DEF Tasks
<1>2. JobPlaces(j) = R \cup Holders(v) /\ JobPlaces(j)' = R' \cup Holders(v)'
  BY DEF JobPlaces
<1> HIDE DEF v
<1>3. PICK A, A1 : A = R /\ A1 = R'
  OBVIOUS
<1>4. /\ Tagged(A, {"call", "ran", "inside", "done", "body", "end", "loop", "counting"})
      /\ Once(A \cup Holders(v))
  <2>1. Once(JobPlaces(j))
    BY DEF JobInv
  <2>2. \A p \in R : p[1] \in {"call", "inside", "done"}
    OBVIOUS
  <2> QED
    BY <1>2, <1>3, <2>1, <2>2 DEF Tagged
<1> DEFINE Enters == \E w \in Threads : task[w] = j /\ (JobRunsJob(w) \/ \E raises \in BOOLEAN : JobEnds(w, raises))
           Goal == Once(A1 \cup Holders(v)') /\ (A \cup Holders(v) # {} \/ made \/ A1 \cup Holders(v)' = {})
<1>5. ASSUME ~Enters, completed'[j] => completed[j] PROVE A1 \subseteq A
  <2>1. Inside(j)' \subseteq Inside(j)
    BY <1>5, InsideStep DEF Inside
  <2> QED
    BY <1>3, <1>5, <2>1, OutcomeStays
<1>6. ASSUME NEW w \in Threads, task[w] = j, JobRunsJob(w) \/ \E raises \in BOOLEAN : JobEnds(w, raises)
      PROVE  Goal
  <2>1. PICK o, n : o = <<"thread", w>> /\ n = <<"inside", w>>
    OBVIOUS
  <2>2. pc[w] = "job" /\ pc'[w] \in {"wait", "complete"} /\ w # Main
    BY <1>6 DEF JobRunsJob, JobEnds, CompleteWith, Ready, Goto, Lasting, PlaceInv, TypeOK
  <2>3. o \in Holders(v) /\ Inside(j) = {} /\ ~completed[j]
    BY <1>6, <2>1, <2>2, JobInHand DEF JobInv, v
  <2>4. Holders(v)' \subseteq Holders(v) \ {o}
    <3>1. CASE JobRunsJob(w)
      <4>1. PICK i : i = scenario.nested[j]
        OBVIOUS
      <4>2. i \in Jobs /\ ListPush(w, RunJob(i)) /\ UNCHANGED <<completed, continuation>>
        BY <1>6, <3>1, <4>1, ScenarioTyped DEF JobRunsJob, Lasting, taskVars
      <4>3. Hands(v)' \subseteq Hands(v) \ {w}
        BY <2>2, <3>1, HandsDrop DEF JobRunsJob, Goto, Lasting, TypeOK
      <4>4. i # j
        BY <1>1, <2>3, <4>1, <4>2 DEF JobInv, JobPlaces, v
      <4>5. Holders(v)' \subseteq Holders(v)
        BY <1>1, <4>2, <4>3, <4>4, JobMade
      <4> QED
        BY <2>1, <4>3, <4>5, HolderIsThen
    <3>2. CASE \E raises \in BOOLEAN : JobEnds(w, raises)
      BY <2>1, <3>2, Dropping, DropKeeps
    <3> QED
      BY <1>6, <3>1, <3>2
  <2>5. A1 \subseteq A \cup {n}
    <3>1. Alone(w)
      BY <1>6, <2>2, StepAlone DEF Step
    <3>2. \A th \in Inside(j)' : th = w
      BY <2>3, <3>1 DEF Alone, Inside
    <3>3. completed'[j] => completed[j]
      BY <1>6 DEF JobRunsJob, JobEnds, taskVars
    <3> QED
      BY <1>3, <2>1, <3>2, <3>3, OutcomeStays
  <2>6. Holders(v)' \subseteq Holders(v) \ {o} /\ A1 \subseteq A \cup {n} => Once(A1 \cup Holders(v)')
    BY <1>4, <2>3, PlacesStep
  <2> QED
    BY <2>3, <2>4, <2>5, <2>6
<1>7. ASSUME ~Enters, made PROVE Goal
  <2>1. PICK w \in Threads : JobRunsJob(w) /\ scenario.nested[task[w]] = j
    BY <1>7
  <2>2. PICK i : i = task[w]
    OBVIOUS
  <2>3. pc[w] = "job" /\ i \in Jobs /\ completed' = completed
    BY <2>1, <2>2 DEF JobRunsJob, Ready, Lasting, PlaceInv, taskVars
  <2>4. ~completed[i] /\ Inside(i) = {}
    BY <2>2, <2>3, JobInHand DEF JobInv
  <2>5. A = {} /\ Holders(v) = {}
    BY <1>2, <1>3, <2>1, <2>2, <2>3, <2>4 DEF JobInv
  <2>6. A1 = {}
    BY <1>5, <1>7, <2>3, <2>5
  <2>7. \E n : Holders(v)' \subseteq {n}
    BY <1>1, <2>5, HolderStep DEF Kept, Made
  <2> QED
    BY <1>7, <2>6, <2>7 DEF Once
<1>8. ASSUME ~Enters, ~made, completed'[j] => completed[j] PROVE Goal
  <2>1. A1 \subseteq A
    BY <1>5, <1>8
  <2>2. CASE Kept(v)
    <3>1. Once(A1 \cup Holders(v)')
      BY <1>4, <2>1, <2>2, PlacesStep
    <3> QED
      BY <2>1, <2>2, <3>1 DEF Kept
  <2>3. CASE CallRun(j) /\ Made(v)
    <3>1. PICK o : o = <<"call", c>>
      OBVIOUS
    <3>2. o \in A /\ o \notin A1
      BY <1>3, <2>3, <3>1 DEF CallRun, Calling
    <3>3. \E d \in A : A1 \subseteq A \ {d}
      BY <2>1, <3>2
    <3>4. Once(A1 \cup Holders(v)')
      BY <1>4, <2>3, <3>3, PlacesStep
    <3> QED
      BY <3>2, <3>4
  <2> QED
    BY <1>1, <1>8, <2>2, <2>3, HolderStep, OwnCreated
<1>9. ASSUME NEW th \in Threads, Complete(th), task[th] = j, ~completed[j] PROVE Goal
  <2>1. PICK o, n : o = <<"inside", th>> /\ n = <<"done", j>>
    OBVIOUS
  <2>2. pc[th] = "complete" /\ th # Main /\ pc'[th] \notin {"complete", "wait", "waitLock", "waiting"} /\ todo' = todo
    BY <1>9, TaskAssumption, <1>1 DEF Complete, Ready, Goto, Home, HandedInv, MainHanded, Lasting, TypeOK
  <2>3. o \in A
    BY <1>3, <1>9, <2>1, <2>2 DEF Inside
  <2>4. Holders(v)' \subseteq Holders(v)
    BY <1>1, <1>9, CompleteHands
  <2>5. ~Enters
    BY <2>2 DEF JobRunsJob, JobEnds, CompleteWith, Ready, Goto, Complete, Lasting, TypeOK
  <2>6. Inside(j)' \subseteq Inside(j) \ {th}
    BY <2>2, <2>5, InsideStep DEF Inside
  <2>7. A1 \subseteq (A \ {o}) \cup {n}
    BY <1>3, <1>9, <2>1, <2>2, <2>6
  <2>8. Once(A1 \cup Holders(v)')
    BY <1>4, <2>3, <2>4, <2>7, PlacesStep
  <2> QED
    BY <2>3, <2>8
<1>10. Goal
  BY <1>1, <1>6, <1>7, <1>8, <1>9, OutcomeStays
<1> QED
  BY <1>2, <1>3, <1>10

LEMMA OneCreator ==
  ASSUME TypeOK, NEW j \in Jobs
  PROVE  CreatedBy(j)
<1>1. scenario \in Scenarios /\ todo \subseteq scenario.calls
  BY DEF TypeOK
<1> QED
  BY <1>1, CreationAssumption DEF CreatedBy

\* Job i is run or over.
Begun(i) == Inside(i) # {} \/ completed[i]

LEMMA BegunStays ==
  ASSUME Lasting, HandedInv, [Next]_vars, NEW i \in Jobs, Begun(i)
  PROVE  Begun(i)'
<1>1. CASE completed[i]
  BY <1>1, OutcomeStays DEF Begun, Tasks
<1>2. ASSUME NEW th \in Inside(i) PROVE Begun(i)'
  <2>1. th \in Threads \ {Main} /\ i \in Tasks
    BY DEF Inside, Tasks
  <2>2. CASE th \in Inside(i)'
    BY <2>2 DEF Begun
  <2>3. CASE Complete(th) /\ task[th] = i
    <3>1. CASE completed[i]
      BY <2>1, <3>1, OutcomeStays DEF Begun
    <3>2. CASE ~completed[i]
      BY <2>1, <2>3, <3>2 DEF Complete, Begun, Lasting, TypeOK
    <3> QED
      BY <3>1, <3>2
  <2> QED
    BY <2>1, <2>2, <2>3, InsideStep
<1> QED
  BY <1>1, <1>2 DEF Begun

LEMMA JobInvStep ==
  ASSUME Lasting, HandedInv, JobInv, [Next]_vars
  PROVE  JobInv'
<1> SUFFICES ASSUME NEW j \in Jobs
             PROVE  /\ Once(JobPlaces(j))'
                    /\ \A i \in Jobs : scenario.nested[i] = j /\ JobPlaces(j)' # {} => Begun(i)'
  BY OutcomeStays DEF JobInv, Begun
<1>1. CreatedBy(j)
  BY OneCreator DEF Lasting
<1>2. ASSUME NEW i \in Jobs, scenario.nested[i] = j, JobPlaces(j)' # {} PROVE Begun(i)'
  <2>1. CASE JobPlaces(j) # {}
    BY <1>2, <2>1, BegunStays DEF JobInv, Begun
  <2>2. ASSUME NEW w \in Threads, JobRunsJob(w), scenario.nested[task[w]] = j PROVE Begun(i)'
    <3>1. /\ pc[w] = "job" /\ task[w] \in Jobs /\ w # Main /\ pc'[w] = "wait" /\ task'[w] = task[w]
      BY <2>2 DEF JobRunsJob, Ready, Goto, Lasting, PlaceInv, TypeOK
    <3>2. task[w] = i
      BY <1>1, <1>2, <2>2, <3>1 DEF CreatedBy
    <3>3. w \in Inside(i)'
      BY <3>1, <3>2 DEF Inside
    <3> QED
      BY <3>3 DEF Begun
  <2> QED
    BY <1>1, <1>2, <2>1, <2>2, JobStep
<1> QED
  BY <1>1, <1>2, JobStep

LEMMA JobOnce ==
  ASSUME HandedInv, JobInv, NEW th \in Threads, pc[th] = "complete", task[th] \in Jobs
  PROVE  ~completed[task[th]]
<1> DEFINE j == task[th]
<1>1. th \in Inside(j)
  BY TaskAssumption DEF Inside, HandedInv, MainHanded
<1>2. PICK p, q : p = <<"inside", th>> /\ q = <<"done", j>>
  OBVIOUS
<1>3. p \in JobPlaces(j) /\ (completed[j] => q \in JobPlaces(j))
  BY <1>1, <1>2 DEF JobPlaces
<1> QED
  BY <1>2, <1>3 DEF JobInv, Once

-----------------------------------------------------------------------------
(* The body of an async method is run by one thread *)

LEMMA ExStays ==
  ASSUME Lasting, NEW th \in Threads, Step(th), NEW u \in Threads \ {th}
  PROVE  ex'[u] = ex[u]
<1>1. CASE AsyncAwait(th)
  BY <1>1 DEF AsyncAwait, Lasting, TypeOK
<1>2. CASE WaitCheck(th) \/ WaitRegister(th) \/ WaitEnd(th)
  BY <1>2 DEF WaitCheck, WaitRegister, WaitEnd, WaitReturns, CompleteWith, Lasting, TypeOK
<1>3. CASE CountTest(th) \/ AsyncNext(th) \/ CountRead(th) \/ \E raises \in BOOLEAN : JobEnds(th, raises)
  BY <1>3 DEF CountTest, AsyncNext, CountRead, JobEnds, CompleteWith, Lasting, TypeOK
<1> QED
  BY <1>1, <1>2, <1>3 DEF Step, Pushed, Complete, SetEvent, RunUser, CountStore, CountDown, Proceed, Fetch, Dispatch,
                          JobRunsJob, Registered, Register, frameVars

\* Who comes to run the body, and who comes to its end.
LEMMA BodyStep ==
  ASSUME Lasting, HandedInv, [Next]_vars, NEW th \in Threads
  PROVE  /\ th \in Bodies' => th \in Bodies \/ (th = Main /\ CallAsync) \/ Proceed(th)
         /\ pc'[th] = "next" => pc[th] = "next" \/ (th = Main /\ CallAsync) \/ Proceed(th)
         /\ th \in Ends' => \/ th \in Ends /\ ex'[th] = ex[th]
                            \/ AsyncNext(th) \/ AsyncAwait(th)
<1> DEFINE Goal == /\ th \in Bodies' => th \in Bodies \/ (th = Main /\ CallAsync) \/ Proceed(th)
                   /\ pc'[th] = "next" => pc[th] = "next" \/ (th = Main /\ CallAsync) \/ Proceed(th)
                   /\ th \in Ends' => \/ th \in Ends /\ ex'[th] = ex[th]
                                      \/ AsyncNext(th) \/ AsyncAwait(th)
<1> USE MainAssumption, TaskAssumption DEF Bodies, Ends
<1>0. Home(th) \in {"pop", "idle"} /\ \A j \in Jobs : j # Async
  BY DEF Home, Tasks
<1>1. CASE pc'[th] = pc[th] /\ task'[th] = task[th] /\ ex'[th] = ex[th]
  BY <1>1
<1>2. CASE NewCall \/ Registered \/ (\E i \in Jobs : Register(i)) \/ UNCHANGED vars
  <2>1. UNCHANGED ex
    BY <1>2 DEF NewCall, CallRun, CallThen, CallWait, CallAll, CallAsync, Registered, Register, vars, frameVars
  <2>2. CASE th # Main \/ UNCHANGED vars
    BY <1>1, <1>2, <2>1, <2>2, CallAlone DEF Alone, vars, frameVars
  <2>3. CASE th = Main /\ ~CallAsync /\ ~UNCHANGED vars
    <3>1. ASSUME NEW j \in Jobs, Register(j) PROVE pc'[Main] \in {"register", "idle"}
      BY <3>1 DEF Register, ContinueWith, Goto, Lasting, TypeOK
    <3>2. ASSUME NEW t \in Tasks, CallThen(t) PROVE pc'[Main] = "idle"
      BY <3>2 DEF CallThen, ContinueWith, Goto, Lasting, TypeOK
    <3>3. pc'[Main] \in {"idle", "wait", "register"}
      BY <1>2, <2>3, <3>1, <3>2
         DEF NewCall, CallRun, CallWait, CallAll, Calling, Ready, Registered, Goto, frameVars, Lasting, TypeOK
    <3> QED
      BY <2>3, <3>3
  <2>4. CASE th = Main /\ CallAsync
    BY <2>4 DEF CallAsync, Goto, Lasting, TypeOK
  <2> QED
    BY <2>2, <2>3, <2>4
<1>3. ASSUME NEW u \in Threads \ {th}, Step(u), ~(u = Main /\ (Registered \/ \E i \in Jobs : Register(i)))
      PROVE  Goal
  BY <1>1, <1>3, StepAlone, ExStays DEF Alone
<1>4. CASE WaitCheck(th) \/ WaitRegister(th) \/ WaitEnd(th)
  <2>1. /\ pc[th] \in {"wait", "waitLock", "waiting"} /\ task'[th] = task[th]
        /\ pc'[th] \in {"waitLock", "waiting", "idle"} \/ (th # Main /\ pc'[th] = "complete")
    BY <1>4 DEF WaitCheck, WaitRegister, WaitEnd, WaitReturns, CompleteWith, Ready, Goto, Lasting, TypeOK
  <2> QED
    BY <1>0, <2>1 DEF Lasting, PlaceInv
<1>5. CASE Complete(th)
  BY <1>0, <1>5 DEF Complete, Ready, Goto, Lasting, TypeOK
<1>6. CASE SetEvent(th) \/ RunUser(th) \/ CountRead(th) \/ CountStore(th) \/ CountDown(th)
  BY <1>0, <1>6 DEF SetEvent, RunUser, CountRead, CountStore, CountDown, Continuing, Ready, Goto, Lasting, TypeOK
<1>7. CASE CountTest(th)
  BY <1>0, <1>7 DEF CountTest, CompleteWith, Ready, Goto, Lasting, TypeOK
<1>8. CASE AsyncNext(th) \/ Proceed(th)
  BY <1>0, <1>8 DEF AsyncNext, Proceed, Continuing, CompleteWith, Ready, Goto, Lasting, TypeOK
<1>9. CASE AsyncAwait(th)
  BY <1>0, <1>9 DEF AsyncAwait, ContinueWith, Ready, Goto, Lasting, TypeOK
<1>10. CASE Pushed(th) \/ Fetch(th)
  BY <1>1, <1>10 DEF Pushed, Fetch, frameVars
<1>11. CASE Dispatch(th)
  BY <1>11 DEF Dispatch, Goto, Lasting, TypeOK
<1>12. CASE JobRunsJob(th) \/ \E raises \in BOOLEAN : JobEnds(th, raises)
  <2>1. pc[th] = "job" /\ task'[th] = task[th] /\ pc'[th] \in {"wait", "complete"}
    BY <1>12 DEF JobRunsJob, JobEnds, CompleteWith, Ready, Goto, Lasting, TypeOK
  <2> QED
    BY <1>0, <2>1 DEF Lasting, PlaceInv
<1> QED
  <2>1. ASSUME NEW u \in Threads, Step(u), ~(u = Main /\ (Registered \/ \E i \in Jobs : Register(i))) PROVE Goal
    BY <1>3, <1>4, <1>5, <1>6, <1>7, <1>8, <1>9, <1>10, <1>11, <1>12, <2>1 DEF Step
  <2> QED
    BY <1>2, <2>1 DEF Next

\* A continuation of the async method can be that of one task only.
LEMMA OneProceeding ==
  ASSUME Lasting, AsyncInv, [Next]_vars
  PROVE  \E v \in PoolActions :
           /\ v.cont = Proceeding /\ v.task \in Tasks
           /\ \A t \in Tasks : t # v.task => Holders(Call(Proceeding, t)) = {} /\ Holders(Call(Proceeding, t))' = {}
           /\ BodyPlaces = BodyRest \cup Holders(v) /\ BodyPlaces' = BodyRest' \cup Holders(v)'
           /\ Holders(v) # {} => position > 0 /\ v.task = scenario.awaited[position]
           /\ position > 0 => v.task = scenario.awaited[position]
           /\ v = Call(Proceeding, v.task)
<1>1. PICK t0 \in Tasks : position > 0 => t0 = scenario.awaited[position]
  <2>1. position \in Nat /\ (position > 0 => position \in 1 .. Len(scenario.awaited))
    BY ScenarioTyped DEF Lasting, TypeOK
  <2>2. position > 0 => scenario.awaited[position] \in Tasks
    BY <2>1, ScenarioTyped DEF Lasting
  <2>3. All \in Tasks
    BY DEF Tasks
  <2> QED
    BY <2>1, <2>2, <2>3
<1>2. PICK v : v = Call(Proceeding, t0)
  OBVIOUS
<1>3. v \in PoolActions /\ v.cont = Proceeding /\ v.task = t0
  BY <1>2, OwnActions
<1>4. ASSUME NEW t \in Tasks, t # t0 PROVE Holders(Call(Proceeding, t)) = {} /\ Holders(Call(Proceeding, t))' = {}
  <2>1. PICK w : w = Call(Proceeding, t)
    OBVIOUS
  <2>2. w \in PoolActions /\ w.cont = Proceeding /\ w.task = t
    BY <2>1, OwnActions
  <2>3. Holders(w) = {}
    BY <1>1, <1>4, <2>1 DEF AsyncInv
  <2>4. ~Creates(w)
    <3>1. ASSUME NEW th \in Threads, AsyncAwait(th), scenario.awaited[position] = t PROVE FALSE
      BY <1>1, <1>4, <3>1 DEF AsyncAwait, Ready, Lasting, PlaceInv, TypeOK
    <3> QED
      BY <2>2, <3>1, OwnCreated
  <2>5. Holders(w)' = {}
    BY <2>2, <2>3, <2>4, HolderStep DEF Kept
  <2> QED
    BY <2>1, <2>3, <2>5
<1>5. PICK f : f = [t \in Tasks |-> Holders(Call(Proceeding, t))]
  OBVIOUS
<1>6. PICK g : g = [t \in Tasks |-> Holders(Call(Proceeding, t))']
  OBVIOUS
<1>7. BodyPlaces = BodyRest \cup UNION {f[t] : t \in Tasks} /\ BodyPlaces' = BodyRest' \cup UNION {g[t] : t \in Tasks}
  BY <1>5, <1>6 DEF BodyPlaces
<1>8. UNION {f[t] : t \in Tasks} = f[t0] /\ UNION {g[t] : t \in Tasks} = g[t0]
  BY <1>4, <1>5, <1>6
<1>9. BodyPlaces = BodyRest \cup Holders(v) /\ BodyPlaces' = BodyRest' \cup Holders(v)'
  BY <1>2, <1>5, <1>6, <1>7, <1>8
<1>10. Holders(v) # {} => position > 0 /\ t0 = scenario.awaited[position]
  BY <1>2 DEF AsyncInv
<1> QED
  BY <1>1, <1>2, <1>3, <1>4, <1>9, <1>10

LEMMA BodyOnce ==
  ASSUME Lasting, HandedInv, AsyncInv, [Next]_vars
  PROVE  Once(BodyPlaces)'
<1> USE MainAssumption
<1>1. PICK v \in PoolActions :
        /\ v.cont = Proceeding /\ v.task \in Tasks
        /\ \A t \in Tasks : t # v.task => Holders(Call(Proceeding, t)) = {} /\ Holders(Call(Proceeding, t))' = {}
        /\ BodyPlaces = BodyRest \cup Holders(v) /\ BodyPlaces' = BodyRest' \cup Holders(v)'
        /\ position > 0 => v.task = scenario.awaited[position]
        /\ v = Call(Proceeding, v.task)
  BY OneProceeding
<1>2. PICK A, A1 : A = BodyRest /\ A1 = BodyRest'
  OBVIOUS
<1>3. Tagged(A, {"call", "ran", "inside", "done", "body", "end", "loop", "counting"}) /\ Once(A \cup Holders(v))
  <2>1. \A p \in BodyRest : p[1] \in {"call", "body", "end", "done"}
    BY DEF BodyRest
  <2> QED
    BY <1>1, <1>2, <2>1 DEF Tagged, AsyncInv
<1>4. ASSUME Bodies' \subseteq Bodies, Ends' \subseteq Ends, completed'[Async] => completed[Async]
      PROVE  A1 \subseteq A
  BY <1>2, <1>4, OutcomeStays DEF BodyRest
<1>5. CASE CallAsync
  <2>1. PICK o, n : o = <<"call", [what |-> "async", on |-> Async]>> /\ n = <<"body", Main>>
    OBVIOUS
  <2>2. Bodies' \subseteq Bodies \cup {Main} /\ Ends' \subseteq Ends /\ completed' = completed
    BY <1>5, CallAlone DEF NewCall, Alone, Bodies, Ends, CallAsync, Goto, taskVars, Lasting, TypeOK
  <2>3. o \in A /\ todo' = todo \ {[what |-> "async", on |-> Async]}
    BY <1>2, <1>5, <2>1 DEF BodyRest, CallAsync, Calling
  <2>4. A1 \subseteq (A \ {o}) \cup {n}
    BY <1>2, <2>1, <2>2, <2>3 DEF BodyRest
  <2>5. Holders(v)' \subseteq Holders(v)
    BY <1>5, CallDropping, DropKeeps
  <2>6. Once(A1 \cup Holders(v)')
    BY <1>3, <2>3, <2>4, <2>5, PlacesStep
  <2> QED
    BY <1>1, <1>2, <2>6
<1>6. ASSUME NEW th \in Threads, Proceed(th) PROVE Once(BodyPlaces)'
  <2>1. PICK o, n : o = <<"thread", th>> /\ n = <<"body", th>>
    OBVIOUS
  <2>2. Bodies' \subseteq Bodies \cup {th} /\ Ends' \subseteq Ends /\ UNCHANGED <<completed, todo>>
    BY <1>6 DEF Bodies, Ends, Proceed, Continuing, Goto, taskVars, Lasting, TypeOK
  <2>3. pc[th] = "continue" /\ cont[th] = Proceeding /\ task[th] \in Tasks
    BY <1>6, OwnKinds DEF Proceed, Continuing, Ready, HandedInv, ThreadHanded, Lasting, TypeOK
  <2>4. PICK w : w = Call(Proceeding, task[th])
    OBVIOUS
  <2>5. th \in Hands(w)
    BY <2>3, <2>4, OwnActions, OwnTyped DEF Hands
  <2>6. <<"thread", th>> \in Holders(w)
    BY <2>5, HolderIs
  <2>7. w = v
    BY <1>1, <2>3, <2>4, <2>6
  <2>8. o \in Holders(v) /\ Holders(v)' \subseteq Holders(v) \ {o}
    BY <1>6, <2>1, <2>6, <2>7, Dropping, DropKeeps
  <2>9. A1 \subseteq A \cup {n}
    BY <1>2, <2>1, <2>2 DEF BodyRest
  <2>10. Once(A1 \cup Holders(v)')
    BY <1>3, <2>8, <2>9, PlacesStep
  <2> QED
    BY <1>1, <1>2, <2>10
<1>7. ASSUME NEW th \in Threads, AsyncNext(th) PROVE Once(BodyPlaces)'
  <2>1. PICK o, n : o = <<"body", th>> /\ n = IF pc'[th] = "await" THEN <<"body", th>> ELSE <<"end", th>>
    OBVIOUS
  <2>2. /\ UNCHANGED <<completed, todo>> /\ pc[th] = "next" /\ pc'[th] \in {"await", "complete"}
        /\ Bodies' \ {th} \subseteq Bodies /\ Ends' \ {th} \subseteq Ends
    BY <1>7 DEF Bodies, Ends, AsyncNext, CompleteWith, Ready, Goto, taskVars, Lasting, TypeOK
  <2>3. o \in A
    BY <1>2, <2>1, <2>2 DEF BodyRest, Bodies
  <2>4. th \in Bodies' => pc'[th] = "await"
    BY <2>2 DEF Bodies
  <2>5. th \in Ends' => pc'[th] # "await"
    BY DEF Ends
  <2>6. A1 \subseteq (A \ {o}) \cup {n}
    BY <1>2, <2>1, <2>2, <2>4, <2>5 DEF BodyRest
  <2>7. Holders(v)' \subseteq Holders(v)
    BY <1>7, Dropping, DropKeeps
  <2>8. Once(A1 \cup Holders(v)')
    BY <1>3, <2>3, <2>6, <2>7, PlacesStep
  <2> QED
    BY <1>1, <1>2, <2>8
<1>8. ASSUME NEW th \in Threads, AsyncAwait(th) PROVE Once(BodyPlaces)'
  <2>1. PICK o, n : o = <<"body", th>> /\ n = <<"end", th>>
    OBVIOUS
  <2>2. /\ UNCHANGED <<completed, todo>> /\ pc[th] = "await" /\ Alone(th)
        /\ pc'[th] \in {Home(th), "complete"}
    BY <1>8, StepAlone DEF Step, AsyncAwait, ContinueWith, Ready, Goto, Registered, Register, taskVars, Lasting, TypeOK
  <2>3. pc'[th] \in {"idle", "pop", "complete"} /\ (Bodies' \subseteq Bodies \ {th}) /\ Ends' \ {th} \subseteq Ends
    BY <2>2 DEF Home, Bodies, Ends, Alone
  <2>4. o \in A
    BY <1>2, <2>1, <2>2 DEF BodyRest, Bodies
  <2>5. CASE pc'[th] = "complete"
    <3>1. UNCHANGED <<continuation, queueVars>>
      BY <1>8, <2>5 DEF AsyncAwait, ContinueWith, Goto, Home, Lasting, TypeOK
    <3>2. Drops(th)
      BY <2>2, <2>5, <3>1 DEF Drops, Alone, queueVars
    <3>3. Holders(v)' \subseteq Holders(v)
      BY <3>2, DropKeeps
    <3>4. A1 \subseteq (A \ {o}) \cup {n}
      BY <1>2, <2>1, <2>2, <2>3 DEF BodyRest
    <3>5. Once(A1 \cup Holders(v)')
      BY <1>3, <2>4, <3>3, <3>4, PlacesStep
    <3> QED
      BY <1>1, <1>2, <3>5
  <2>6. CASE pc'[th] # "complete"
    <3>1. Ends' \subseteq Ends
      BY <2>3, <2>6 DEF Ends
    <3>2. A1 \subseteq A \ {o}
      BY <1>2, <2>1, <2>2, <2>3, <3>1 DEF BodyRest
    <3>3. \E d \in A : A1 \subseteq A \ {d}
      BY <2>4, <3>2
    <3>4. Kept(v) \/ Made(v)
      BY HolderStep
    <3>5. CASE Kept(v)
      <4>1. A1 \subseteq A
        BY <3>2
      <4>2. Once(A1 \cup Holders(v)')
        BY <1>3, <3>5, <4>1, PlacesStep
      <4> QED
        BY <1>1, <1>2, <4>2
    <3>6. CASE Made(v)
      <4>1. Once(A1 \cup Holders(v)')
        BY <1>3, <3>3, <3>6, PlacesStep
      <4> QED
        BY <1>1, <1>2, <4>1
    <3> QED
      BY <3>4, <3>5, <3>6
  <2> QED
    BY <2>5, <2>6
<1>9. ASSUME NEW th \in Threads, Complete(th), task[th] = Async, ~completed[Async] PROVE Once(BodyPlaces)'
  <2>1. PICK o, n : o = <<"end", th>> /\ n = <<"done", Async>>
    OBVIOUS
  <2>2. /\ todo' = todo /\ pc[th] = "complete" /\ Alone(th) /\ pc'[th] \in {Home(th), "continue"}
    BY <1>9, StepAlone DEF Step, Complete, Ready, Goto, Registered, Register, Lasting, TypeOK
  <2>3. Bodies' \subseteq Bodies /\ Ends' \subseteq Ends \ {th}
    BY <2>2 DEF Home, Bodies, Ends, Alone
  <2>4. o \in A /\ o \notin Holders(v)
    <3>1. o \in A
      BY <1>2, <1>9, <2>1, <2>2 DEF BodyRest, Ends
    <3> QED
      BY <2>1, <3>1, HolderIs
  <2>5. Holders(v) = {}
    BY <1>3, <2>4 DEF Once
  <2>6. Holders(v)' \subseteq Holders(v)
    BY <1>9, <2>5, CompleteHands
  <2>7. A1 \subseteq (A \ {o}) \cup {n}
    BY <1>2, <2>1, <2>2, <2>3 DEF BodyRest
  <2>8. Once(A1 \cup Holders(v)')
    BY <1>3, <2>4, <2>6, <2>7, PlacesStep
  <2> QED
    BY <1>1, <1>2, <2>8
<1>10. ASSUME ~CallAsync, \A th \in Threads : ~Proceed(th) /\ ~AsyncNext(th) /\ ~AsyncAwait(th),
              completed'[Async] => completed[Async]
       PROVE  Once(BodyPlaces)'
  <2>1. Bodies' \subseteq Bodies /\ Ends' \subseteq Ends
    <3>1. \A th \in Threads : (th \in Bodies' => th \in Bodies) /\ (th \in Ends' => th \in Ends)
      BY <1>10, BodyStep
    <3> QED
      BY <3>1 DEF Bodies, Ends
  <2>2. A1 \subseteq A
    BY <1>4, <1>10, <2>1
  <2>3. ~Creates(v)
    BY <1>1, <1>10, OwnCreated
  <2>4. Kept(v)
    BY <2>3, HolderStep
  <2>5. Once(A1 \cup Holders(v)')
    BY <1>3, <2>2, <2>4, PlacesStep
  <2> QED
    BY <1>1, <1>2, <2>5
<1>11. Async \in Tasks
  BY DEF Tasks
<1> QED
  BY <1>5, <1>6, <1>7, <1>8, <1>9, <1>10, <1>11, OutcomeStays

\* The position of the body changes by its own step only.
LEMMA PositionStays ==
  ASSUME [Next]_vars
  PROVE  position' = position \/ \E th \in Threads : AsyncNext(th)
  BY DEF Next, NewCall, Step, CallRun, CallThen, CallWait, CallAll, CallAsync, Pushed, WaitCheck, WaitRegister, WaitEnd,
         WaitReturns, Complete, SetEvent, RunUser, CountRead, CountStore, CountDown, CountTest, Proceed,
         AsyncAwait, Fetch, Dispatch, JobRunsJob, JobEnds, Registered, Register, vars

\* Who runs the body is alone with it.
LEMMA InBody ==
  ASSUME AsyncInv, NEW th \in Bodies
  PROVE  /\ [what |-> "async", on |-> Async] \notin todo
         /\ \A u \in Bodies : u = th
         /\ Ends = {}
         /\ \A t \in Tasks : Holders(Call(Proceeding, t)) = {}
         /\ ~completed[Async]
<1>1. PICK o : o = <<"body", th>>
  OBVIOUS
<1>2. o \in BodyPlaces
  BY <1>1 DEF BodyPlaces, BodyRest
<1>3. \A p \in BodyPlaces : p = <<"body", th>>
  BY <1>1, <1>2 DEF AsyncInv, Once
<1>4. \A u \in Bodies : u = th
  <2>1. \A u \in Bodies : <<"body", u>> \in BodyPlaces
    BY DEF BodyPlaces, BodyRest
  <2> QED
    BY <1>3, <2>1
<1>5. Ends = {}
  <2>1. \A u \in Ends : <<"end", u>> \in BodyPlaces
    BY DEF BodyPlaces, BodyRest
  <2> QED
    BY <1>3, <2>1
<1>6. \A t \in Tasks : Holders(Call(Proceeding, t)) = {}
  <2>1. SUFFICES ASSUME NEW t \in Tasks, NEW p \in Holders(Call(Proceeding, t)) PROVE FALSE
    OBVIOUS
  <2>2. p \in BodyPlaces
    BY DEF BodyPlaces
  <2>3. p[1] \in {"task", "cell", "thread"}
    BY HolderTags DEF Tagged
  <2> QED
    BY <1>3, <2>2, <2>3
<1>7. [what |-> "async", on |-> Async] \notin todo
  <2>1. PICK c, p : c = [what |-> "async", on |-> Async] /\ p = <<"call", c>>
    OBVIOUS
  <2>2. c \in todo => p \in BodyPlaces
    BY <2>1 DEF BodyPlaces, BodyRest
  <2>3. p # <<"body", th>>
    BY <2>1
  <2> QED
    BY <1>3, <2>1, <2>2, <2>3
<1>8. ~completed[Async]
  <2>1. completed[Async] => <<"done", Async>> \in BodyPlaces
    BY DEF BodyPlaces, BodyRest
  <2> QED
    BY <1>3, <2>1
<1> QED
  BY <1>4, <1>5, <1>6, <1>7, <1>8

LEMMA FineStays ==
  ASSUME Lasting, [Next]_vars, NEW i \in DOMAIN scenario.awaited
  PROVE  /\ scenario.awaited[i] \in Tasks
         /\ completed[scenario.awaited[i]] => completed'[scenario.awaited[i]]
         /\ Fine(i) => Fine(i)'
<1>1. scenario.awaited[i] \in Tasks
  BY ScenarioTyped DEF Lasting
<1> QED
  BY <1>1, OutcomeStays DEF Fine

\* The body goes on after an awaited task that has completed without an exception.
LEMMA NextStep ==
  ASSUME Lasting, HandedInv, AsyncInv, [Next]_vars, NEW th \in Threads, AsyncNext(th)
  PROVE  /\ th \in Bodies /\ Bodies' \subseteq {th} /\ Ends' \subseteq {th} /\ completed'[Async] = completed[Async]
         /\ pc'[th] # "next"
         /\ \A i \in 1 .. position' - 1 : Fine(i)'
         /\ th \in Ends' /\ ~ex'[th] => \A i \in DOMAIN scenario.awaited : Fine(i)'
         /\ \A t \in Tasks : Holders(Call(Proceeding, t))' = {}
<1> DEFINE s == scenario.awaited
<1>1. /\ pc[th] = "next" /\ pc'[th] \in {"await", "complete"} /\ completed' = completed
      /\ Alone(th) /\ s \in Seq(Jobs) /\ position \in 0 .. Len(s)
  BY ScenarioTyped DEF AsyncNext, CompleteWith, Ready, Goto, Alone, taskVars, Lasting, TypeOK
<1>2. th \in Bodies
  BY <1>1 DEF Bodies
<1>3. Bodies' \subseteq {th} /\ Ends' \subseteq {th}
  BY <1>1, <1>2, InBody DEF Alone, Bodies, Ends
<1>4. \A t \in Tasks : Holders(Call(Proceeding, t))' = {}
  BY <1>2, InBody, Dropping, DropKeeps
<1>5. position > 0 => completed[s[position]]
  BY <1>1 DEF AsyncInv
<1>6. ~ResultRaises(s) => \A i \in 1 .. position : Fine(i)
  BY <1>1, <1>5 DEF ResultRaises, Fine, AsyncInv
<1>7. CASE ResultRaises(s) \/ position = Len(s)
  <2>1. position' = position /\ ex' = [ex EXCEPT ![th] = ResultRaises(s)]
    BY <1>7 DEF AsyncNext, CompleteWith
  <2>2. ex'[th] = ResultRaises(s)
    BY <2>1 DEF Lasting, TypeOK
  <2>3. ~ex'[th] => \A i \in DOMAIN s : Fine(i)
    BY <1>1, <1>6, <1>7, <2>2
  <2>4. \A i \in 1 .. position - 1 : i \in DOMAIN s /\ Fine(i)
    BY <1>1 DEF AsyncInv
  <2> QED
    BY <1>1, <1>2, <1>3, <1>4, <2>1, <2>3, <2>4, FineStays
<1>8. CASE ~(ResultRaises(s) \/ position = Len(s))
  <2>1. position' = position + 1 /\ pc'[th] = "await"
    BY <1>1, <1>8 DEF AsyncNext, Goto, Lasting, TypeOK
  <2>2. \A i \in 1 .. position : i \in DOMAIN s /\ Fine(i)
    BY <1>1, <1>6, <1>8
  <2>3. th \notin Ends'
    BY <2>1 DEF Ends
  <2>4. \A i \in 1 .. position' - 1 : Fine(i)'
    BY <1>1, <2>1, <2>2, FineStays
  <2> QED
    BY <1>1, <1>2, <1>3, <1>4, <2>1, <2>3, <2>4
<1> QED
  BY <1>7, <1>8

LEMMA AsyncStep ==
  ASSUME Lasting, HandedInv, AsyncInv, [Next]_vars
  PROVE  AsyncInv'
<1> DEFINE s == scenario.awaited
           c == [what |-> "async", on |-> Async]
<1>1. Once(BodyPlaces)' /\ scenario' = scenario /\ todo' \subseteq todo /\ position \in 0 .. Len(s) /\ s \in Seq(Jobs)
  BY BodyOnce, OutcomeStays, ScenarioTyped DEF Lasting, TypeOK
<1>2. ASSUME NEW th \in Threads, AsyncNext(th) PROVE AsyncInv'
  <2>1. /\ th \in Bodies /\ Bodies' \subseteq {th} /\ Ends' \subseteq {th} /\ completed'[Async] = completed[Async]
        /\ pc'[th] # "next"
        /\ \A i \in 1 .. position' - 1 : Fine(i)'
        /\ th \in Ends' /\ ~ex'[th] => \A i \in DOMAIN s : Fine(i)'
        /\ \A t \in Tasks : Holders(Call(Proceeding, t))' = {}
    BY <1>2, NextStep
  <2>2. c \notin todo' /\ ~completed'[Async]
    BY <1>1, <2>1, InBody
  <2>3. ASSUME NEW u \in Threads PROVE pc'[u] # "next"
    BY <2>1 DEF Bodies
  <2>4. \A u \in Threads : u \in Ends' /\ ~ex'[u] => \A i \in DOMAIN s : Fine(i)'
    BY <2>1
  <2> QED
    BY <1>1, <2>1, <2>2, <2>3, <2>4 DEF AsyncInv
<1>3. ASSUME \A th \in Threads : ~AsyncNext(th) PROVE AsyncInv'
  <2>1. position' = position
    BY <1>3, PositionStays
  <2>2. c \in todo' => position' = 0
    BY <1>1, <2>1 DEF AsyncInv
  <2>3. ASSUME NEW t \in Tasks, Holders(Call(Proceeding, t))' # {}
        PROVE  position' > 0 /\ t = scenario'.awaited[position']
    <3>1. PICK v : v = Call(Proceeding, t)
      OBVIOUS
    <3>2. v \in PoolActions /\ v.cont = Proceeding /\ v.task = t
      BY <3>1, OwnActions
    <3>3. CASE Holders(v) # {}
      BY <1>1, <2>1, <3>1, <3>3 DEF AsyncInv
    <3>4. ASSUME NEW th \in Threads, AsyncAwait(th), scenario.awaited[position] = t
          PROVE  position' > 0 /\ t = scenario'.awaited[position']
      BY <1>1, <2>1, <3>4 DEF AsyncAwait, Ready, Lasting, PlaceInv
    <3> QED
      BY <2>3, <3>1, <3>2, <3>3, <3>4, HolderStep, OwnCreated DEF Kept
  <2>4. \A i \in 1 .. position' - 1 : Fine(i)'
    BY <1>1, <2>1, FineStays DEF AsyncInv
  <2>5. ASSUME NEW th \in Threads, pc'[th] = "next"
        PROVE  position' = 0 \/ completed'[scenario'.awaited[position']]
    <3>1. CASE pc[th] = "next"
      BY <1>1, <2>1, <3>1, FineStays DEF AsyncInv
    <3>2. CASE CallAsync
      BY <2>1, <3>2 DEF CallAsync, Calling, AsyncInv
    <3>3. CASE Proceed(th)
      <4>1. pc[th] = "continue" /\ cont[th] = Proceeding /\ task[th] \in Tasks /\ completed[task[th]]
        BY <3>3, OwnKinds DEF Proceed, Continuing, Ready, HandedInv, ThreadHanded, Lasting, TypeOK
      <4>2. PICK v : v = Call(Proceeding, task[th])
        OBVIOUS
      <4>3. th \in Hands(v)
        BY <4>1, <4>2, OwnActions, OwnTyped DEF Hands
      <4>4. <<"thread", th>> \in Holders(v)
        BY <4>3, HolderIs
      <4>5. position > 0 /\ task[th] = scenario.awaited[position]
        BY <4>1, <4>2, <4>4 DEF AsyncInv
      <4> QED
        BY <1>1, <2>1, <4>1, <4>5, FineStays
    <3> QED
      BY <2>5, <3>1, <3>2, <3>3, BodyStep
  <2>6. ASSUME NEW th \in Threads, th \in Ends', ~ex'[th]
        PROVE  \A i \in DOMAIN s : Fine(i)'
    <3>1. CASE th \in Ends /\ ex'[th] = ex[th]
      BY <2>6, <3>1, FineStays DEF AsyncInv
    <3>2. CASE AsyncAwait(th)
      BY <2>6, <3>2 DEF AsyncAwait, Lasting, TypeOK, Ends
    <3> QED
      BY <1>3, <2>6, <3>1, <3>2, BodyStep
  <2>7. completed'[Async] /\ ~failed'[Async] => \A i \in DOMAIN s : Fine(i)'
    <3>1. Async \in Tasks
      BY DEF Tasks
    <3>2. CASE completed[Async]
      BY <3>1, <3>2, OutcomeStays, FineStays DEF AsyncInv
    <3>3. ASSUME NEW th \in Threads, Complete(th), task[th] = Async, ~completed[Async], ~failed'[Async]
          PROVE  \A i \in DOMAIN s : Fine(i)'
      <4>1. th \in Ends /\ ~ex[th]
        BY <3>1, <3>3 DEF Complete, Ready, Ends, Lasting, TypeOK
      <4> QED
        BY <4>1, FineStays DEF AsyncInv
    <3> QED
      BY <3>1, <3>2, <3>3, OutcomeStays
  <2> QED
    BY <1>1, <2>2, <2>3, <2>4, <2>5, <2>6, <2>7 DEF AsyncInv
<1> QED
  BY <1>2, <1>3

LEMMA AsyncOnce == AsyncInv => AsyncInOrder
<1> SUFFICES ASSUME AsyncInv PROVE AsyncInOrder
  OBVIOUS
<1>1. completed[Async] /\ ~failed[Async] => \A i \in DOMAIN scenario.awaited : Fine(i)
  BY DEF AsyncInv
<1>2. \A th, u \in Threads : pc[th] \in {"next", "await"} /\ pc[u] \in {"next", "await"} => th = u
  BY InBody DEF Bodies
<1> QED
  BY <1>1, <1>2 DEF AsyncInOrder, Fine

-----------------------------------------------------------------------------
(* whenAll counts every task once *)

LEMMA CountFrame ==
  ASSUME Lasting, HandedInv, [Next]_vars, NEW th \in Threads
  PROVE  /\ \A j \in Jobs : th \in Counting(j)' => th \in Counting(j) \/ (CountRead(th) /\ task[th] = j)
         /\ pc'[th] = "countStore" => \/ pc[th] = "countStore" /\ task'[th] = task[th] /\ ex'[th] = ex[th]
                                      \/ CountRead(th)
         /\ pc'[th] = "countDown" => task'[th] = task[th] /\ (pc[th] = "countDown" \/ CountStore(th))
         /\ pc'[th] = "countTest" => pc[th] = "countTest" \/ CountDown(th)
         /\ th \in Lasts' => \/ th \in Lasts /\ ex'[th] = ex[th]
                             \/ CountTest(th) /\ Last
<1> DEFINE Goal == /\ \A j \in Jobs : th \in Counting(j)' => th \in Counting(j) \/ (CountRead(th) /\ task[th] = j)
                   /\ pc'[th] = "countStore" => \/ pc[th] = "countStore" /\ task'[th] = task[th] /\ ex'[th] = ex[th]
                                                \/ CountRead(th)
                   /\ pc'[th] = "countDown" => task'[th] = task[th] /\ (pc[th] = "countDown" \/ CountStore(th))
                   /\ pc'[th] = "countTest" => pc[th] = "countTest" \/ CountDown(th)
                   /\ th \in Lasts' => \/ th \in Lasts /\ ex'[th] = ex[th]
                                       \/ CountTest(th) /\ Last
<1> USE MainAssumption, TaskAssumption DEF Counting, Lasts
<1>0. Home(th) \in {"pop", "idle"} /\ \A j \in Jobs : j # All
  BY DEF Home, Tasks
<1>1. CASE pc'[th] = pc[th] /\ task'[th] = task[th] /\ ex'[th] = ex[th]
  BY <1>1
<1>2. CASE NewCall \/ Registered \/ (\E i \in Jobs : Register(i)) \/ UNCHANGED vars
  <2>1. UNCHANGED ex
    BY <1>2 DEF NewCall, CallRun, CallThen, CallWait, CallAll, CallAsync, Registered, Register, vars, frameVars
  <2>2. CASE th # Main \/ UNCHANGED vars
    BY <1>1, <1>2, <2>1, <2>2, CallAlone DEF Alone, vars, frameVars
  <2>3. CASE th = Main /\ ~UNCHANGED vars
    <3>1. ASSUME NEW j \in Jobs, Register(j) PROVE pc'[Main] \in {"register", "idle"}
      BY <3>1 DEF Register, ContinueWith, Goto, Lasting, TypeOK
    <3>2. ASSUME NEW t \in Tasks, CallThen(t) PROVE pc'[Main] = "idle"
      BY <3>2 DEF CallThen, ContinueWith, Goto, Lasting, TypeOK
    <3>3. pc'[Main] \in {"idle", "wait", "register", "next"}
      BY <1>2, <2>3, <3>1, <3>2 DEF NewCall, CallRun, CallWait, CallAll, CallAsync, Calling, Ready, Registered, Goto, frameVars,
                                    Lasting, TypeOK
    <3> QED
      BY <2>3, <3>3
  <2> QED
    BY <2>2, <2>3
<1>3. ASSUME NEW u \in Threads \ {th}, Step(u), ~(u = Main /\ (Registered \/ \E i \in Jobs : Register(i)))
      PROVE  Goal
  BY <1>1, <1>3, StepAlone, ExStays DEF Alone
<1>4. CASE WaitCheck(th) \/ WaitRegister(th) \/ WaitEnd(th)
  <2>1. /\ pc[th] \in {"wait", "waitLock", "waiting"} /\ task'[th] = task[th]
        /\ pc'[th] \in {"waitLock", "waiting", "idle"} \/ (th # Main /\ pc'[th] = "complete")
    BY <1>4 DEF WaitCheck, WaitRegister, WaitEnd, WaitReturns, CompleteWith, Ready, Goto, Lasting, TypeOK
  <2> QED
    BY <1>0, <2>1 DEF Lasting, PlaceInv
<1>5. CASE Complete(th)
  BY <1>0, <1>5 DEF Complete, Ready, Goto, Lasting, TypeOK
<1>6. CASE SetEvent(th) \/ RunUser(th) \/ CountRead(th) \/ CountStore(th) \/ CountDown(th)
  BY <1>0, <1>6 DEF SetEvent, RunUser, CountRead, CountStore, CountDown, Continuing, Ready, Goto, Lasting, TypeOK
<1>7. CASE CountTest(th)
  BY <1>0, <1>7 DEF CountTest, CompleteWith, Ready, Goto, Lasting, TypeOK
<1>8. CASE AsyncNext(th) \/ Proceed(th)
  BY <1>0, <1>8 DEF AsyncNext, Proceed, Continuing, CompleteWith, Ready, Goto, Lasting, TypeOK
<1>9. CASE AsyncAwait(th)
  BY <1>0, <1>9 DEF AsyncAwait, ContinueWith, Ready, Goto, Lasting, TypeOK
<1>10. CASE Pushed(th) \/ Fetch(th)
  BY <1>1, <1>10 DEF Pushed, Fetch, frameVars
<1>11. CASE Dispatch(th)
  BY <1>11 DEF Dispatch, Goto, Lasting, TypeOK
<1>12. CASE JobRunsJob(th) \/ \E raises \in BOOLEAN : JobEnds(th, raises)
  <2>1. pc[th] = "job" /\ task'[th] = task[th] /\ pc'[th] \in {"wait", "complete"}
    BY <1>12 DEF JobRunsJob, JobEnds, CompleteWith, Ready, Goto, Lasting, TypeOK
  <2> QED
    BY <1>0, <2>1 DEF Lasting, PlaceInv
<1> QED
  <2>1. ASSUME NEW u \in Threads, Step(u), ~(u = Main /\ (Registered \/ \E i \in Jobs : Register(i))) PROVE Goal
    BY <1>3, <1>4, <1>5, <1>6, <1>7, <1>8, <1>9, <1>10, <1>11, <1>12, <2>1 DEF Step
  <2> QED
    BY <1>2, <2>1 DEF Next

\* The state of whenAll outside the counting threads.
LEMMA LoopFrame ==
  ASSUME [Next]_vars
  PROVE  /\ unregistered' \subseteq unregistered \/ CallAll
         /\ remaining' = remaining \/ CallAll \/ \E th \in Threads : CountDown(th)
         /\ anyFailed' = anyFailed \/ \E th \in Threads : CountStore(th)
<1> USE DEF allVars
<1>1. CASE UNCHANGED vars
  BY <1>1 DEF vars
<1>2. CASE NewCall
  BY <1>2 DEF NewCall, CallRun, CallThen, CallWait, CallAll, CallAsync
<1>3. CASE \E th \in Threads : Step(th)
  BY <1>3 DEF Step, Pushed, WaitCheck, WaitRegister, WaitEnd, WaitReturns, Complete, SetEvent, RunUser, CountRead, CountStore,
         CountDown, CountTest, Proceed, AsyncNext, AsyncAwait, Fetch, Dispatch, JobRunsJob, JobEnds, Registered, Register
<1> QED
  BY <1>1, <1>2, <1>3 DEF Next

\* The counting of one job: it begins with whenAll, is in one place and ends with
\* the step that counts it.
LEMMA CountOnce ==
  ASSUME Lasting, HandedInv, AllInv, [Next]_vars, NEW j \in Jobs
  PROVE  /\ Once(CountPlaces(j))'
         /\ CountPlaces(j)' # {} => CountPlaces(j) # {} \/ (CallAll /\ j \in Started)
         /\ \A th \in Threads : CountDown(th) /\ task[th] = j => CountPlaces(j) # {} /\ CountPlaces(j)' = {}
<1> USE MainAssumption
<1>1. PICK v : v = Call(Counter, j)
  OBVIOUS
<1>2. /\ v \in PoolActions /\ v.cont = Counter /\ v.task = j /\ j \in Tasks
      /\ CountPlaces(j) = CountRest(j) \cup Holders(v) /\ CountPlaces(j)' = CountRest(j)' \cup Holders(v)'
  <2>1. j \in Tasks
    BY DEF Tasks
  <2> QED
    BY <1>1, <2>1, OwnActions DEF CountPlaces
<1>3. PICK A, A1 : A = CountRest(j) /\ A1 = CountRest(j)'
  OBVIOUS
<1>4. Tagged(A, {"call", "ran", "inside", "done", "body", "end", "loop", "counting"}) /\ Once(A \cup Holders(v))
  <2>1. \A p \in CountRest(j) : p[1] \in {"loop", "counting"}
    BY DEF CountRest
  <2> QED
    BY <1>2, <1>3, <2>1 DEF Tagged, AllInv
<1> DEFINE Goal == /\ Once(A1 \cup Holders(v)')
                   /\ A1 \cup Holders(v)' # {} => A \cup Holders(v) # {} \/ (CallAll /\ j \in Started)
           Reads == \E th \in Threads : CountRead(th) /\ task[th] = j
<1>5. ASSUME ~CallAll, ~Reads PROVE A1 \subseteq A
  <2>1. unregistered' \subseteq unregistered
    BY <1>5, LoopFrame
  <2>2. Counting(j)' \subseteq Counting(j)
    BY <1>5, CountFrame DEF Counting
  <2> QED
    BY <1>3, <2>1, <2>2 DEF CountRest
<1>6. ASSUME CallAll PROVE Goal
  <2>1. UNCHANGED <<completed, continuation>> /\ unregistered' = Started /\ Drops(Main)
    BY <1>6, CallDropping DEF CallAll, taskVars
  <2>2. ~AllCalled
    BY <1>6 DEF CallAll, Calling, AllCalled
  <2>3. Live = {}
    BY <2>2 DEF AllInv
  <2>4. CASE j \in Started
    <3>1. A = {} /\ Holders(v) = {}
      BY <1>2, <1>3, <2>3, <2>4 DEF Live
    <3>2. Counting(j)' \subseteq Counting(j)
      BY <1>6, CountFrame, CallAlone DEF NewCall, Counting, Alone, CallAll, Goto, Lasting, TypeOK
    <3>3. Counting(j) = {}
      BY <1>3, <3>1 DEF CountRest
    <3>4. A1 \subseteq {<<"loop", j>>}
      BY <1>3, <3>2, <3>3 DEF CountRest
    <3>5. Holders(v)' = {}
      BY <2>1, <3>1, DropKeeps
    <3>6. \A p \in A1 \cup Holders(v)' : p = <<"loop", j>>
      BY <3>4, <3>5
    <3>7. Once(A1 \cup Holders(v)')
      BY <3>6 DEF Once
    <3> QED
      BY <1>6, <2>4, <3>7
  <2>5. CASE j \notin Started
    <3>1. Counting(j)' \subseteq Counting(j)
      BY <1>6, CallAlone DEF NewCall, Counting, Alone, CallAll, Goto, Lasting, TypeOK
    <3>2. A1 \subseteq A
      BY <1>3, <2>1, <2>5, <3>1 DEF CountRest
    <3>3. Holders(v)' \subseteq Holders(v)
      BY <2>1, DropKeeps
    <3>4. A1 \cup Holders(v)' \subseteq A \cup Holders(v)
      BY <3>2, <3>3
    <3>5. Once(A1 \cup Holders(v)')
      BY <1>4, <3>4 DEF Once
    <3> QED
      BY <3>4, <3>5
  <2> QED
    BY <2>4, <2>5
<1>7. ASSUME NEW th \in Threads, CountRead(th), task[th] = j PROVE Goal
  <2>1. PICK o, n : o = <<"thread", th>> /\ n = <<"counting", th>>
    OBVIOUS
  <2>2. pc[th] = "continue" /\ cont[th] = Counter /\ unregistered' = unregistered /\ Alone(th)
    BY <1>7, OwnKinds, StepAlone DEF CountRead, Continuing, Ready, HandedInv, ThreadHanded, Lasting, TypeOK, allVars,
       Step, Registered, Register
  <2>3. th \in Hands(v)
    BY <1>2, <1>7, <2>2, OwnTyped DEF Hands
  <2>4. o \in Holders(v) /\ Holders(v)' \subseteq Holders(v) \ {o}
    BY <1>7, <2>1, <2>3, HolderIs, Dropping, DropKeeps
  <2>5. Counting(j)' \subseteq Counting(j) \cup {th}
    BY <2>2 DEF Counting, Alone
  <2>6. A1 \subseteq A \cup {n}
    BY <1>3, <2>1, <2>2, <2>5 DEF CountRest
  <2>7. Once(A1 \cup Holders(v)')
    BY <1>4, <2>4, <2>6, PlacesStep
  <2> QED
    BY <2>4, <2>7
<1>8. ASSUME ~CallAll, ~Reads PROVE Goal
  <2>1. A1 \subseteq A
    BY <1>5, <1>8
  <2>2. CASE Kept(v)
    <3>1. Once(A1 \cup Holders(v)')
      BY <1>4, <2>1, <2>2, PlacesStep
    <3> QED
      BY <2>1, <2>2, <3>1 DEF Kept
  <2>3. CASE Register(j) /\ Made(v)
    <3>1. PICK o : o = <<"loop", j>>
      OBVIOUS
    <3>2. o \in A /\ j \notin unregistered'
      BY <1>3, <2>3, <3>1 DEF Register, CountRest
    <3>3. o \notin A1
      BY <1>3, <3>1, <3>2 DEF CountRest
    <3>4. \E d \in A : A1 \subseteq A \ {d}
      BY <2>1, <3>2, <3>3
    <3>5. Once(A1 \cup Holders(v)')
      BY <1>4, <2>3, <3>4, PlacesStep
    <3> QED
      BY <3>2, <3>5
  <2> QED
    BY <1>2, <2>2, <2>3, HolderStep, OwnCreated
<1>9. ASSUME NEW th \in Threads, CountDown(th), task[th] = j PROVE CountPlaces(j) # {} /\ CountPlaces(j)' = {}
  <2>1. PICK o : o = <<"counting", th>>
    OBVIOUS
  <2>2. pc[th] = "countDown" /\ pc'[th] = "countTest" /\ unregistered' = unregistered /\ Alone(th)
    BY <1>9, StepAlone DEF CountDown, Ready, Goto, Lasting, TypeOK, Step, Registered, Register
  <2>3. o \in A
    BY <1>3, <1>9, <2>1, <2>2 DEF CountRest, Counting
  <2>4. A \subseteq {o} /\ Holders(v) = {}
    <3>1. o \notin Holders(v)
      BY <2>1, HolderIs
    <3> QED
      BY <1>4, <2>3, <3>1 DEF Once
  <2>5. Holders(v)' = {}
    BY <1>9, <2>4, Dropping, DropKeeps
  <2>6. Counting(j) \subseteq {th} /\ unregistered \cap {j} = {}
    <3>1. \A u \in Counting(j) : <<"counting", u>> \in A
      BY <1>3 DEF CountRest
    <3>2. \A t \in unregistered \cap {j} : <<"loop", t>> \in A
      BY <1>3 DEF CountRest
    <3> QED
      BY <2>1, <2>4, <3>1, <3>2
  <2>7. Counting(j)' = {}
    BY <2>2, <2>6 DEF Counting, Alone
  <2>8. A1 = {}
    BY <1>3, <2>2, <2>6, <2>7 DEF CountRest
  <2> QED
    BY <1>2, <1>3, <2>3, <2>5, <2>8
<1>10. Goal
  BY <1>6, <1>7, <1>8
<1> QED
  BY <1>2, <1>3, <1>9, <1>10

LEMMA AllCalledStep ==
  ASSUME Lasting, HandedInv, AllInv, [Next]_vars, AllCalled'
  PROVE  AllCalled \/ CallAll
<1> DEFINE c == [what |-> "all", on |-> All]
<1>1. scenario' = scenario
  BY OutcomeStays
<1>2. ASSUME NEW j \in Jobs, Register(j) PROVE AllCalled
  <2>1. PICK o : o = <<"loop", j>>
    OBVIOUS
  <2>2. o \in CountPlaces(j)
    BY <1>2, <2>1 DEF Register, CountPlaces, CountRest
  <2>3. j \in Live
    BY <1>2, <2>2 DEF Live, Register, HandedInv
  <2> QED
    BY <2>3 DEF AllInv
<1>3. ASSUME ~CallAll, \A j \in Jobs : ~Register(j) PROVE c \in todo => c \in todo'
  <2>1. CASE UNCHANGED vars
    BY <2>1 DEF vars
  <2>2. CASE NewCall
    BY <1>3, <2>2 DEF NewCall, CallRun, CallThen, CallWait, CallAsync, Calling
  <2>3. CASE \E th \in Threads : Step(th)
    BY <1>3, <2>3 DEF Step, Pushed, WaitCheck, WaitRegister, WaitEnd, WaitReturns, Complete, SetEvent, RunUser, CountRead,
         CountStore, CountDown, CountTest, Proceed, AsyncNext, AsyncAwait, Fetch, Dispatch, JobRunsJob, JobEnds, Registered
  <2> QED
    BY <2>1, <2>2, <2>3 DEF Next
<1> QED
  BY <1>1, <1>2, <1>3 DEF AllCalled

LEMMA LiveStep ==
  ASSUME Lasting, HandedInv, AllInv, [Next]_vars
  PROVE  /\ Live' \subseteq Started /\ Started' = Started /\ Live \subseteq Started /\ IsFiniteSet(Started)
         /\ ~CallAll => Live' \subseteq Live
         /\ CallAll => remaining' = Cardinality(Started) /\ ~AllCalled /\ AllCalled'
         /\ AllCalled => AllCalled'
         /\ \A th \in Threads : CountDown(th) =>
              /\ task[th] \in Live /\ Live' \subseteq Live \ {task[th]} /\ completed[task[th]]
              /\ remaining' = remaining - 1 /\ AllCalled
<1>1. Live' \subseteq Started /\ Started' = Started /\ Live \subseteq Started /\ IsFiniteSet(Started) /\ Started \subseteq Jobs
  BY OutcomeStays, StartedJobs, JobsAssumption, FS_Subset DEF Live
<1>2. AllCalled => AllCalled'
  BY OutcomeStays DEF AllCalled
<1>3. CallAll => remaining' = Cardinality(Started) /\ ~AllCalled /\ AllCalled'
  BY OutcomeStays DEF CallAll, Calling, AllCalled, Lasting, TypeOK
<1>4. ASSUME ~CallAll PROVE Live' \subseteq Live
  <2>1. \A j \in Live' : j \in Started /\ j \in Jobs /\ CountPlaces(j)' # {}
    BY <1>1 DEF Live
  <2> QED
    BY <1>4, <2>1, CountOnce DEF Live
<1>5. ASSUME NEW th \in Threads, CountDown(th)
      PROVE  /\ task[th] \in Live /\ Live' \subseteq Live \ {task[th]} /\ completed[task[th]]
             /\ remaining' = remaining - 1 /\ AllCalled
  <2>1. pc[th] = "countDown" /\ pc'[th] = "countTest" /\ remaining' = remaining - 1 /\ todo' = todo
    BY <1>5 DEF CountDown, Ready, Goto, Lasting, TypeOK
  <2>2. task[th] \in Started /\ completed[task[th]] /\ task[th] \in Jobs
    BY <1>1, <2>1 DEF HandedInv, ThreadHanded
  <2>3. PICK j \in Jobs : j = task[th]
    BY <2>2
  <2>4. task[th] \in Live /\ j \notin Live'
    BY <1>5, <2>2, <2>3, CountOnce DEF Live
  <2>5. ~CallAll
    BY <2>1 DEF CallAll, Calling
  <2>6. AllCalled
    BY <2>4 DEF AllInv
  <2> QED
    BY <1>4, <2>1, <2>2, <2>3, <2>4, <2>5, <2>6
<1> QED
  BY <1>1, <1>2, <1>3, <1>4, <1>5

\* As long as remaining is not behind, it is level only if the jobs that are
\* no longer live have completed.
LEMMA RemainingStep ==
  ASSUME Lasting, HandedInv, AllInv, [Next]_vars, AllCalled'
  PROVE  /\ remaining' >= Cardinality(Live')
         /\ remaining' = Cardinality(Live') =>
              \/ CallAll /\ Live' = Started
              \/ AllCalled /\ remaining = Cardinality(Live) /\ remaining' = remaining /\ Live' = Live
              \/ \E th \in Threads : CountDown(th) /\ remaining = Cardinality(Live) /\ Live' = Live \ {task[th]}
<1>1. PICK L, L1, S : L = Live /\ L1 = Live' /\ S = Started
  OBVIOUS
<1>2. /\ L \subseteq S /\ L1 \subseteq S /\ IsFiniteSet(S) /\ (~CallAll => L1 \subseteq L)
      /\ CallAll => remaining' = Cardinality(S)
  BY <1>1, LiveStep
<1>3. IsFiniteSet(L) /\ Cardinality(L) \in Nat /\ IsFiniteSet(L1) /\ Cardinality(L1) \in Nat
  BY <1>2, FS_Subset, FS_CardinalityType
<1>4. remaining \in Int
  BY DEF Lasting, TypeOK
<1>5. CASE CallAll
  BY <1>1, <1>2, <1>3, <1>5, FS_Subset
<1>6. ASSUME NEW th \in Threads, CountDown(th)
      PROVE  /\ remaining' >= Cardinality(L1)
             /\ remaining' = Cardinality(L1) => remaining = Cardinality(L) /\ L1 = L \ {task[th]}
  <2>1. /\ task[th] \in L /\ L1 \subseteq L \ {task[th]} /\ AllCalled /\ remaining' = remaining - 1
    BY <1>1, <1>6, LiveStep
  <2>2. remaining >= Cardinality(L)
    BY <1>1, <2>1 DEF AllInv
  <2>3. IsFiniteSet(L \ {task[th]}) /\ Cardinality(L \ {task[th]}) = Cardinality(L) - 1
    BY <1>3, <2>1, FS_RemoveElement
  <2>4. Cardinality(L1) <= Cardinality(L) - 1 /\ (Cardinality(L) - 1 = Cardinality(L1) => L1 = L \ {task[th]})
    BY <2>1, <2>3, FS_Subset
  <2> QED
    BY <1>3, <1>4, <2>1, <2>2, <2>4
<1>7. CASE ~CallAll /\ \A th \in Threads : ~CountDown(th)
  <2>1. remaining' = remaining /\ L1 \subseteq L
    BY <1>2, <1>7, LoopFrame
  <2>2. AllCalled
    BY <1>7, AllCalledStep
  <2>3. remaining >= Cardinality(L)
    BY <1>1, <2>2 DEF AllInv
  <2>4. Cardinality(L1) <= Cardinality(L) /\ (Cardinality(L) = Cardinality(L1) => L1 = L)
    BY <1>3, <2>1, FS_Subset
  <2> QED
    BY <1>1, <1>3, <1>4, <2>1, <2>2, <2>3, <2>4
<1> QED
  BY <1>1, <1>5, <1>6, <1>7

LEMMA AllStep ==
  ASSUME Lasting, HandedInv, AllInv, [Next]_vars
  PROVE  AllInv'
<1>1. \A j \in Jobs : Once(CountPlaces(j))'
  BY CountOnce
<1>2. ASSUME ~AllCalled' PROVE Live' = {} /\ Lasts' = {} /\ ~completed'[All] /\ \A th \in Threads : pc'[th] # "countTest"
  <2>1. ~CallAll /\ ~AllCalled /\ \A th \in Threads : ~CountDown(th)
    BY <1>2, LiveStep
  <2>2. Live = {} /\ Lasts = {} /\ ~completed[All] /\ \A th \in Threads : pc[th] # "countTest"
    BY <2>1 DEF AllInv
  <2>3. Live' = {} /\ \A th \in Threads : pc'[th] # "countTest"
    BY <2>1, <2>2, LiveStep, CountFrame
  <2>4. \A th \in Threads : th \notin Lasts'
    BY <2>2, CountFrame DEF CountTest, Ready
  <2>5. All \in Tasks
    BY DEF Tasks
  <2>6. ~completed'[All]
    BY <2>2, <2>5, OutcomeStays DEF Complete, Ready, Lasts
  <2> QED
    BY <2>3, <2>4, <2>6 DEF Lasts
<1>3. ASSUME AllCalled', remaining' = Cardinality(Live') PROVE \A j \in Started' \ Live' : completed'[j]
  <2>1. \A j \in Started : completed[j] => completed'[j]
    BY OutcomeStays, StartedJobs
  <2>2. CASE AllCalled /\ remaining = Cardinality(Live)
    <3>1. \A j \in Started \ Live : completed[j]
      BY <2>2 DEF AllInv
    <3>2. \A j \in Started \ Live' : j \in Started \ Live \/ \E th \in Threads : CountDown(th) /\ j = task[th]
      BY <1>3, <2>2, RemainingStep
    <3> QED
      BY <2>1, <3>1, <3>2, LiveStep
  <2>3. CASE Live' = Started
    BY <2>3, LiveStep
  <2>4. (AllCalled /\ remaining = Cardinality(Live)) \/ Live' = Started
    BY <1>3, RemainingStep, LiveStep
  <2> QED
    BY <2>2, <2>3, <2>4
<1>4. ASSUME Lasts' # {} \/ completed'[All] PROVE \A j \in Started' : completed'[j]
  <2>1. (\A j \in Started : completed[j]) => \A j \in Started' : completed'[j]
    BY OutcomeStays, StartedJobs
  <2>2. ASSUME NEW th \in Threads, CountTest(th), Last PROVE \A j \in Started : completed[j]
    <3>1. pc[th] = "countTest"
      BY <2>2 DEF CountTest, Ready
    <3>2. AllCalled /\ remaining = 0
      BY <2>2, <3>1 DEF AllInv, Last
    <3>3. Cardinality(Live) <= 0 /\ Live \subseteq Started /\ IsFiniteSet(Started)
      BY <3>2, LiveStep DEF AllInv
    <3>4. Live = {} /\ Cardinality(Live) = 0
      BY <3>3, FS_Subset, FS_CardinalityType, FS_EmptySet
    <3> QED
      BY <3>2, <3>4 DEF AllInv
  <2>3. ASSUME NEW th \in Lasts' PROVE Lasts # {} \/ \A j \in Started : completed[j]
    <3>1. th \in Threads
      BY DEF Lasts
    <3> QED
      BY <2>2, <3>1, CountFrame
  <2>4. completed'[All] => completed[All] \/ Lasts # {}
    <3>1. All \in Tasks
      BY DEF Tasks
    <3> QED
      BY <3>1, OutcomeStays DEF Complete, Ready, Lasts
  <2> QED
    BY <1>4, <2>1, <2>3, <2>4 DEF AllInv
<1> QED
  BY <1>1, <1>2, <1>3, <1>4, RemainingStep DEF AllInv

-----------------------------------------------------------------------------
(* The theorems *)

OnceInv == HandedInv /\ UserInv /\ JobInv /\ AsyncInv /\ AllInv

LEMMA InitHolders ==
  ASSUME Init, NEW v \in PoolActions
  PROVE  Holders(v) = {}
<1>1. ~Stored(v)
  <2>1. v.task \in Tasks /\ v.cont # None => continuation[v.task] = None
    BY DEF Init
  <2> QED
    BY <2>1 DEF Stored, PoolActions
<1>2. Cells(v) = {}
  BY DEF Init, QueueInit, Cells
<1>3. Hands(v) = {}
  BY DEF Init, Hands
<1> QED
  BY <1>1, <1>2, <1>3 DEF Holders

LEMMA OnceInit ==
  ASSUME Init, Lasting
  PROVE  OnceInv
<1> USE MainAssumption
<1>0. /\ todo = scenario.calls /\ remaining = 0 /\ unregistered = {} /\ position = 0 /\ array = <<>>
      /\ \A th \in Threads : pc[th] \in {"idle", "pop", "off"}
      /\ \A th \in Threads : th \notin scenario.workers \cup {Main} => pc[th] = "off"
      /\ \A t \in Tasks : ~completed[t] /\ ran[t] = 0 /\ continuation[t] = None
      /\ All \in Tasks /\ Async \in Tasks /\ scenario \in Scenarios
  BY DEF Init, QueueInit, Tasks
<1>1. HandedInv
  <2>1. \A t \in Tasks : TaskHanded(t)
    BY <1>0, OwnKinds, NoneTyped DEF TaskHanded
  <2> QED
    BY <1>0, <2>1 DEF HandedInv, ThreadHanded, MainHanded
<1>2. UserInv
  <2> SUFFICES ASSUME NEW t \in Tasks PROVE Once(UserPlaces(t))
    BY <1>0 DEF UserInv
  <2>1. Holders(Call(User, t)) = {}
    BY OwnActions, InitHolders
  <2>2. \A n \in 1 .. ran[t] : FALSE
    BY <1>0
  <2> QED
    BY <2>1, <2>2 DEF UserPlaces, Once
<1>3. ASSUME NEW j \in Jobs
      PROVE  JobPlaces(j) = {<<"call", c>> : c \in todo \cap {[what |-> "run", on |-> j]}}
  <2>1. j \in Tasks /\ Holders(RunJob(j)) = {}
    BY OwnActions, InitHolders DEF Tasks
  <2>2. Inside(j) = {} /\ ~completed[j]
    BY <1>0, <2>1 DEF Inside
  <2> QED
    BY <2>1, <2>2 DEF JobPlaces
<1>4. JobInv
  <2>1. \A j \in Jobs : Once(JobPlaces(j))
    BY <1>3 DEF Once
  <2>2. \A i, j \in Jobs : scenario.nested[i] = j => [what |-> "run", on |-> j] \notin todo
    BY <1>0, CreationAssumption
  <2> QED
    BY <1>3, <2>1, <2>2 DEF JobInv
<1>5. AsyncInv
  <2>1. \A t \in Tasks : Holders(Call(Proceeding, t)) = {}
    BY OwnActions, InitHolders
  <2>2. Bodies = {} /\ Ends = {} /\ ~completed[Async]
    BY <1>0 DEF Bodies, Ends
  <2>3. BodyRest = {<<"call", c>> : c \in todo \cap {[what |-> "async", on |-> Async]}}
    BY <2>2 DEF BodyRest
  <2>4. Once(BodyPlaces)
    BY <2>1, <2>3 DEF BodyPlaces, Once
  <2> QED
    BY <1>0, <2>1, <2>2, <2>4 DEF AsyncInv
<1>6. ASSUME NEW j \in Jobs PROVE CountPlaces(j) = {}
  <2>1. j \in Tasks /\ Holders(Call(Counter, j)) = {}
    BY OwnActions, InitHolders DEF Tasks
  <2>2. Counting(j) = {}
    BY <1>0 DEF Counting
  <2> QED
    BY <1>0, <2>1, <2>2 DEF CountPlaces, CountRest
<1>7. Live = {} /\ Lasts = {} /\ ~AllCalled /\ ~completed[All]
  BY <1>0, <1>6, StartedJobs DEF Live, Lasts, AllCalled
<1>8. AllInv
  BY <1>0, <1>6, <1>7 DEF AllInv, Once
<1> QED
  BY <1>1, <1>2, <1>4, <1>5, <1>8 DEF OnceInv

LEMMA OnceStep ==
  ASSUME Lasting, OnceInv, [Next]_vars
  PROVE  OnceInv'
  BY HandedStep, UserStep, JobInvStep, AsyncStep, AllStep DEF OnceInv

\* Every continuation, job and async method is in one place, and whenAll's count
\* covers the tasks to come, for every program, pool and set of jobs.
THEOREM OnceInvariant == Spec => []OnceInv
<1>1. Init /\ TasksInv => OnceInv
  BY OnceInit DEF TasksInv, Lasting
<1>2. TasksInv /\ OnceInv /\ [Next]_vars => OnceInv'
  BY OnceStep DEF TasksInv, Lasting
<1> QED
  BY <1>1, <1>2, TasksInvariant, PTL DEF Spec

\* A client's continuation runs once, and after its task (tasks.l:40, :76): also
\* when it is registered while the task completes.
THEOREM ContinuedOnceSafety == Spec => []ContinuedOnce
<1>1. TasksInv /\ OnceInv => ContinuedOnce
  BY UserOnce DEF TasksInv, OnceInv
<1> QED
  BY <1>1, TasksInvariant, OnceInvariant, PTL

\* The body of an async method (templates.l) is run by one thread at a time, and
\* succeeds only after every task it awaited has.
THEOREM AsyncSafety == Spec => []AsyncInOrder
<1>1. OnceInv => AsyncInOrder
  BY AsyncOnce DEF OnceInv
<1> QED
  BY <1>1, OnceInvariant, PTL

\* whenAll (tasks.l:161) completes its task after all tasks of the program,
\* whatever the pool: the count is never ahead of the tasks to come.
THEOREM AllAfterAllSafety == Spec => []AllAfterAll
<1>1. OnceInv => AllAfterAll
  BY DEF OnceInv, AllInv, AllAfterAll
<1> QED
  BY <1>1, OnceInvariant, PTL

\* complete (tasks.l:62) never raises for a job or an async method: one thread
\* only comes to complete it, however the jobs are nested.
THEOREM OwnerSafety == Spec => []CompletedByOwner
<1>1. TasksInv /\ OnceInv => CompletedByOwner
  <2> SUFFICES ASSUME TasksInv, OnceInv, NEW th \in Threads, pc[th] = "complete", task[th] # All
               PROVE  ~completed[task[th]]
    BY DEF CompletedByOwner
  <2>1. task[th] \in Tasks
    BY DEF TasksInv, PlaceInv
  <2>2. CASE task[th] \in Jobs
    BY <2>2, JobOnce DEF OnceInv
  <2>3. CASE task[th] = Async
    <3>1. PICK p, q : p = <<"end", th>> /\ q = <<"done", Async>>
      OBVIOUS
    <3>2. p \in BodyPlaces /\ (completed[Async] => q \in BodyPlaces)
      BY <2>3, <3>1 DEF BodyPlaces, BodyRest, Ends
    <3> QED
      BY <2>3, <3>1, <3>2 DEF OnceInv, AsyncInv, Once
  <2> QED
    BY <2>1, <2>2, <2>3 DEF Tasks
<1> QED
  BY <1>1, TasksInvariant, OnceInvariant, PTL

\* The outcome of a completed task is final: wait and Result read the outcome
\* (tasks.l:92, :111) without the lock.
OutcomeKept ==
  [][\A t \in Tasks : completed[t] => completed'[t] /\ failed'[t] = failed[t]]_vars

\* complete (tasks.l:62) sets an outcome once, in every program and pool.
THEOREM OutcomeSafety == Spec => OutcomeKept
<1>1. TasksInv /\ [Next]_vars => \A t \in Tasks : completed[t] => completed'[t] /\ failed'[t] = failed[t]
  BY OutcomeStays DEF TasksInv, Lasting
<1> QED
  BY <1>1, TasksInvariant, PTL DEF Spec, OutcomeKept
=============================================================================
