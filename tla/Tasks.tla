-------------------------------- MODULE Tasks --------------------------------
(***************************************************************************)
(* Tasks on the thread pool: src/src60/system/threading/tasks.l,           *)
(* threadpool.l and templates.l over the queue of BlockingQueue.           *)
(*                                                                         *)
(* The main thread runs a program of calls; the pool's workers pop         *)
(* actions and call them.  A task is completed once, by the thread that    *)
(* ran its action, and that thread then calls the continuation.  A block   *)
(* under a task's lock is one step; what the code reads or writes outside  *)
(* the lock is a step of its own.  An exception is abstracted to the fact  *)
(* that there is one.                                                      *)
(***************************************************************************)
EXTENDS BlockingQueue

CONSTANTS
  Main,      \* the thread that runs the program
  Jobs,      \* tasks of Task.run
  All,       \* the task whenAll returns
  Async,     \* the task of an async method (AsyncStateEnumerator.proceed)
  NoTask,
  Scenarios  \* the programs and pools a behaviour may start with

Tasks == Jobs \cup {All, Async}

\* A continuation: "set" the event thread "by" waits for, "user" of a client,
\* "count" of whenAll, "proceed" of an async method; "none"
Continuations == [kind : {"none", "set", "user", "count", "proceed"}, by : Threads]
Continuation(kind, by) == [kind |-> kind, by |-> by]
None == Continuation("none", Main)

\* What the pool's queue holds: run a job's action, or call a continuation
PoolActions == [cont : Continuations, task : Tasks]
Call(c, t) == [cont |-> c, task |-> t]
RunJob(j) == Call(None, j)

\* A program is a set of calls, made in any order that creates a task before it
\* is used.  The action of job j first runs job nested[j] and waits for it.
Calls == [what : {"run", "then", "wait", "all", "async"}, on : Tasks]
ScenarioType == [workers : SUBSET (Threads \ {Main}), calls : SUBSET Calls,
                 nested : [Jobs -> Jobs \cup {NoTask}], awaited : Seq(Jobs)]

ASSUME MainAssumption == Main \in Threads
ASSUME JobsAssumption == IsFiniteSet(Jobs)
ASSUME TaskAssumption == All \notin Jobs /\ Async \notin Jobs /\ All # Async /\ NoTask \notin Tasks
ASSUME ValuesAssumption == Values = PoolActions
ASSUME ScenarioAssumption == Scenarios \subseteq ScenarioType
\* A task is started once, by the program or by one job: Task.run makes a new
\* task, and a client that calls start twice would complete its task twice
ASSUME CreationAssumption == \A s \in Scenarios : \A i, j, k \in Jobs :
  s.nested[i] = j => [what |-> "run", on |-> j] \notin s.calls /\ (s.nested[k] = j => i = k)

VARIABLES
  scenario,
  todo,          \* the calls the program has not made yet
  completed,     \* Task._completed
  failed,        \* Task._exception is not nil
  continuation,  \* Task._continuation
  remaining,     \* whenAll: the captured variable remaining
  unregistered,  \* whenAll: the tasks the loop has not come to
  anyFailed,     \* whenAll: the captured variable e is not nil
  position,      \* async method: the awaits its body has come to
  pc, task, cont, ex,  \* each thread: place, task, continuation, exception
  signalled,     \* each thread: the event of its wait is set
  ran            \* how often the user's continuation of a task has run

taskVars == <<completed, failed, continuation>>
allVars == <<remaining, unregistered, anyFailed>>
frameVars == <<pc, task, cont, ex>>
vars == <<scenario, todo, taskVars, allVars, position, frameVars, signalled, ran, queueVars>>

Init ==
  /\ scenario \in Scenarios
  /\ todo = scenario.calls
  /\ completed = [t \in Tasks |-> FALSE]
  /\ failed = [t \in Tasks |-> FALSE]
  /\ continuation = [t \in Tasks |-> None]
  /\ remaining = 0
  /\ unregistered = {}
  /\ anyFailed = FALSE
  /\ position = 0
  /\ pc = [th \in Threads |-> IF th = Main THEN "idle"
                              ELSE IF th \in scenario.workers THEN "pop" ELSE "off"]
  /\ task = [th \in Threads |-> NoTask]
  /\ cont = [th \in Threads |-> None]
  /\ ex = [th \in Threads |-> FALSE]
  /\ signalled = [th \in Threads |-> FALSE]
  /\ ran = [t \in Tasks |-> 0]
  /\ QueueInit

Ready(th, l) == at[th] = "idle" /\ pc[th] = l
Goto(th, l) == pc' = [pc EXCEPT ![th] = l]

\* Where a thread goes on after its call: the program, or the worker's loop
Home(th) == IF th = Main THEN "idle" ELSE "pop"

\* th is about to complete t, with an exception or not
CompleteWith(th, t, e) ==
  /\ Goto(th, "complete")
  /\ task' = [task EXCEPT ![th] = t]
  /\ ex' = [ex EXCEPT ![th] = e]

Created(t) == \A c \in todo : c.on = t => c.what \in {"then", "wait"}

-----------------------------------------------------------------------------
(* continueWith *)

\* Mutant: a continuation is given to the pool and stored as well
ContinueWithBoth(th, t, c, next, conflict) ==
  /\ ListPush(th, Call(c, t))
  /\ continuation' = IF completed[t] THEN continuation ELSE [continuation EXCEPT ![t] = c]
  /\ Goto(th, next)

\* continueWith, under the lock of t: a completed task gives the continuation
\* to the pool, a second continuation raises
ContinueWith(th, t, c, next, conflict) ==
  \/ /\ completed[t]
     /\ ListPush(th, Call(c, t))
     /\ Goto(th, next)
     /\ UNCHANGED continuation
  \/ /\ ~completed[t] /\ continuation[t] = None
     /\ continuation' = [continuation EXCEPT ![t] = c]
     /\ Goto(th, next)
     /\ UNCHANGED queueVars
  \/ /\ ~completed[t] /\ continuation[t] # None
     /\ Goto(th, conflict)
     /\ UNCHANGED <<continuation, queueVars>>

-----------------------------------------------------------------------------
(* The program *)

\* The main thread makes a call of its program on an existing task
Calling(what, t) ==
  LET c == [what |-> what, on |-> t]
  IN Ready(Main, "idle") /\ c \in todo /\ todo' = todo \ {c}

\* Task.run
CallRun(j) ==
  /\ Calling("run", j)
  /\ ListPush(Main, RunJob(j))
  /\ UNCHANGED <<scenario, taskVars, allVars, position, frameVars, signalled, ran>>

\* continueWith; a conflict is left to the program's handler
CallThen(t) ==
  /\ Calling("then", t) /\ Created(t)
  /\ ContinueWith(Main, t, Continuation("user", Main), "idle", "idle")
  /\ UNCHANGED <<scenario, completed, failed, allVars, position, task, cont, ex, signalled, ran>>

CallWait(t) ==
  /\ Calling("wait", t) /\ Created(t)
  /\ Goto(Main, "wait")
  /\ task' = [task EXCEPT ![Main] = t]
  /\ UNCHANGED <<scenario, taskVars, allVars, position, cont, ex, signalled, ran, queueVars>>

\* The program's own jobs
Started == {j \in Jobs : [what |-> "run", on |-> j] \in scenario.calls}

\* whenAll, up to its loop
CallAll ==
  /\ Calling("all", All)
  /\ \A j \in Started : Created(j)
  /\ remaining' = Cardinality(Started)
  /\ unregistered' = Started
  /\ Goto(Main, "register")
  /\ UNCHANGED <<scenario, taskVars, anyFailed, position, task, cont, ex, signalled, ran, queueVars>>

\* The loop of whenAll.  If continueWith raises, the program has no task All.
Register(j) ==
  /\ Ready(Main, "register")
  /\ j \in unregistered
  /\ ContinueWith(Main, j, Continuation("count", Main), "register", "idle")
  /\ IF pc'[Main] = "register"
       THEN unregistered' = unregistered \ {j} /\ UNCHANGED todo
       ELSE unregistered' = {} /\ todo' = {c \in todo : c.on # All}
  /\ UNCHANGED <<scenario, completed, failed, remaining, anyFailed, position, task, cont, ex, signalled, ran>>

Registered ==
  /\ Ready(Main, "register")
  /\ unregistered = {}
  /\ Goto(Main, "idle")
  /\ UNCHANGED <<scenario, todo, taskVars, allVars, position, task, cont, ex, signalled, ran, queueVars>>

\* An async method: its body runs on the caller's thread up to the first await
CallAsync ==
  /\ Calling("async", Async)
  /\ \A i \in DOMAIN scenario.awaited : Created(scenario.awaited[i])
  /\ Goto(Main, "next")
  /\ UNCHANGED <<scenario, taskVars, allVars, position, task, cont, ex, signalled, ran, queueVars>>

-----------------------------------------------------------------------------
(* wait *)

\* The task a thread waits for: the program names it, a job waits for the one it ran
Target(th) == IF th = Main THEN task[th] ELSE scenario.nested[task[th]]

\* wait has come to its end.  The program handles an exception, a job fails by it.
WaitReturns(th, raises) ==
  /\ IF th = Main THEN Goto(th, "idle") /\ UNCHANGED <<task, ex>>
                  ELSE CompleteWith(th, task[th], raises)
  /\ UNCHANGED <<scenario, todo, taskVars, allVars, position, cont, ran, queueVars>>

\* wait reads _completed without the lock
WaitCheck(th) ==
  /\ Ready(th, "wait")
  /\ IF completed[Target(th)]
       THEN WaitReturns(th, failed[Target(th)]) /\ UNCHANGED signalled
       ELSE /\ Goto(th, "waitLock")
            /\ UNCHANGED <<scenario, todo, taskVars, allVars, position, task, cont, ex, signalled, ran, queueVars>>

\* Mutant: wait does not look at _completed again under the lock
StillOpenUnchecked(t) == TRUE

StillOpen(t) == ~completed[t]

\* Mutant: the event of an earlier wait is used again
OldEvent(th) == UNCHANGED signalled

NewEvent(th) == signalled' = [signalled EXCEPT ![th] = FALSE]

\* Under the lock: register the setting of a new event, unless t has completed;
\* a second continuation raises
WaitRegister(th) ==
  LET t == Target(th)
  IN /\ Ready(th, "waitLock")
     /\ IF StillOpen(t) /\ continuation[t] = None
          THEN /\ continuation' = [continuation EXCEPT ![t] = Continuation("set", th)]
               /\ NewEvent(th)
               /\ Goto(th, "waiting")
               /\ UNCHANGED <<scenario, todo, completed, failed, allVars, position, task, cont, ex, ran, queueVars>>
          ELSE WaitReturns(th, StillOpen(t) \/ failed[t]) /\ UNCHANGED signalled

\* mres.wait() and the end of wait
WaitEnd(th) ==
  /\ Ready(th, "waiting")
  /\ signalled[th]
  /\ WaitReturns(th, failed[Target(th)])
  /\ UNCHANGED signalled

-----------------------------------------------------------------------------
(* complete, and the continuations it calls *)

\* The lock is held: set the outcome, copy the continuation.  A completed task
\* raises; nothing up to the thread's start handles that, and the program ends.
Complete(th) ==
  LET t == task[th]
  IN /\ Ready(th, "complete")
     /\ IF completed[t]
          THEN Goto(th, "raised") /\ UNCHANGED <<completed, failed, cont>>
          ELSE /\ completed' = [completed EXCEPT ![t] = TRUE]
               /\ failed' = [failed EXCEPT ![t] = ex[th]]
               /\ cont' = [cont EXCEPT ![th] = continuation[t]]
               /\ Goto(th, IF continuation[t] = None THEN Home(th) ELSE "continue")
     /\ UNCHANGED <<scenario, todo, continuation, allVars, position, task, ex, signalled, ran, queueVars>>

\* th calls a continuation of some kind
Continuing(th, kind) == Ready(th, "continue") /\ cont[th].kind = kind

\* The continuation of wait: set the event
SetEvent(th) ==
  /\ Continuing(th, "set")
  /\ signalled' = [signalled EXCEPT ![cont[th].by] = TRUE]
  /\ Goto(th, Home(th))
  /\ UNCHANGED <<scenario, todo, taskVars, allVars, position, task, cont, ex, ran, queueVars>>

\* The continuation of a client returns
RunUser(th) ==
  /\ Continuing(th, "user")
  /\ ran' = [ran EXCEPT ![task[th]] = @ + 1]
  /\ Goto(th, Home(th))
  /\ UNCHANGED <<scenario, todo, taskVars, allVars, position, task, cont, ex, signalled, queueVars>>

\* e ?? completed.Exception
FirstFailure(t) == anyFailed \/ failed[t]

\* whenAll: e := e ?? completed.Exception, a read and a write without a lock
CountRead(th) ==
  /\ Continuing(th, "count")
  /\ ex' = [ex EXCEPT ![th] = FirstFailure(task[th])]
  /\ Goto(th, "countStore")
  /\ UNCHANGED <<scenario, todo, taskVars, allVars, position, task, cont, signalled, ran, queueVars>>

CountStore(th) ==
  /\ Ready(th, "countStore")
  /\ anyFailed' = ex[th]
  /\ Goto(th, "countDown")
  /\ UNCHANGED <<scenario, todo, taskVars, remaining, unregistered, position, task, cont, ex, signalled, ran, queueVars>>

\* whenAll: remaining := remaining - 1 under the lock of All
CountDown(th) ==
  /\ Ready(th, "countDown")
  /\ remaining' = remaining - 1
  /\ Goto(th, "countTest")
  /\ UNCHANGED <<scenario, todo, taskVars, unregistered, anyFailed, position, task, cont, ex, signalled, ran, queueVars>>

\* Mutant: off by one
AlmostLast == remaining <= 1

Last == remaining = 0

\* whenAll: remaining == 0 without the lock; the last one completes All
CountTest(th) ==
  /\ Ready(th, "countTest")
  /\ IF Last THEN CompleteWith(th, All, anyFailed)
                     ELSE Goto(th, Home(th)) /\ UNCHANGED <<task, ex>>
  /\ UNCHANGED <<scenario, todo, taskVars, allVars, position, cont, signalled, ran, queueVars>>

\* The continuation of an async method: its body goes on
Proceed(th) ==
  /\ Continuing(th, "proceed")
  /\ Goto(th, "next")
  /\ UNCHANGED <<scenario, todo, taskVars, allVars, position, task, cont, ex, signalled, ran, queueVars>>

\* Mutant: the exception of an awaited task is not looked at
NeverRaises(s) == FALSE

\* The Result of the task awaited last raises
ResultRaises(s) == position > 0 /\ failed[s[position]]

\* e.next(): the body reads the Result of the task it awaited, which raises if
\* that task failed, and comes to its next await or to its end
AsyncNext(th) ==
  /\ Ready(th, "next")
  /\ LET s == scenario.awaited
     IN IF ResultRaises(s) \/ position = Len(s)
          THEN CompleteWith(th, Async, ResultRaises(s)) /\ UNCHANGED position
          ELSE /\ position' = position + 1
               /\ Goto(th, "await")
               /\ UNCHANGED <<task, ex>>
  /\ UNCHANGED <<scenario, todo, taskVars, allVars, cont, signalled, ran, queueVars>>

\* (*e).continueWith(self); if it raises, the async method fails
AsyncAwait(th) ==
  /\ Ready(th, "await")
  /\ ContinueWith(th, scenario.awaited[position], Continuation("proceed", Main), Home(th), "complete")
  /\ IF pc'[th] = "complete"
       THEN task' = [task EXCEPT ![th] = Async] /\ ex' = [ex EXCEPT ![th] = TRUE]
       ELSE UNCHANGED <<task, ex>>
  /\ UNCHANGED <<scenario, todo, completed, failed, allVars, position, cont, signalled, ran>>

-----------------------------------------------------------------------------
(* The pool *)

\* A worker waits for an action
Fetch(w) ==
  /\ pc[w] = "pop"
  /\ SemaphoreWait(w)
  /\ UNCHANGED <<scenario, todo, taskVars, allVars, position, frameVars, signalled, ran>>

\* A worker takes the action it has been let through for, and calls it
Dispatch(w) ==
  /\ pc[w] = "pop"
  /\ ListPop(w)
  /\ IF at'[w] = "raised"
       THEN Goto(w, "raised") /\ UNCHANGED <<task, cont>>
       ELSE /\ task' = [task EXCEPT ![w] = got'[w].task]
            /\ cont' = [cont EXCEPT ![w] = got'[w].cont]
            /\ Goto(w, IF got'[w].cont = None THEN "job" ELSE "continue")
  /\ UNCHANGED <<scenario, todo, taskVars, allVars, position, ex, signalled, ran>>

\* A job's own action returns or raises
JobEnds(w, raises) ==
  /\ Ready(w, "job")
  /\ scenario.nested[task[w]] = NoTask
  /\ CompleteWith(w, task[w], raises)
  /\ UNCHANGED <<scenario, todo, taskVars, allVars, position, cont, signalled, ran, queueVars>>

\* A job runs another one and waits for it
JobRunsJob(w) ==
  /\ Ready(w, "job")
  /\ scenario.nested[task[w]] # NoTask
  /\ ListPush(w, RunJob(scenario.nested[task[w]]))
  /\ Goto(w, "wait")
  /\ UNCHANGED <<scenario, todo, taskVars, allVars, position, task, cont, ex, signalled, ran>>

\* The second half of a push
Pushed(th) ==
  /\ Release(th)
  /\ UNCHANGED <<scenario, todo, taskVars, allVars, position, frameVars, signalled, ran>>

-----------------------------------------------------------------------------
\* An exception nobody handles ends the program with all its threads
Alive == \A th \in Threads : pc[th] # "raised"

NewCall == \/ \E j \in Jobs : CallRun(j)
           \/ \E t \in Tasks : CallThen(t) \/ CallWait(t)
           \/ CallAll \/ CallAsync

\* What th does once it is in a call, or in the worker's loop
Step(th) ==
  \/ Pushed(th) \/ WaitCheck(th) \/ WaitRegister(th) \/ WaitEnd(th)
  \/ Complete(th) \/ SetEvent(th) \/ RunUser(th)
  \/ CountRead(th) \/ CountStore(th) \/ CountDown(th) \/ CountTest(th)
  \/ Proceed(th) \/ AsyncNext(th) \/ AsyncAwait(th)
  \/ Fetch(th) \/ Dispatch(th) \/ JobRunsJob(th)
  \/ \E raises \in BOOLEAN : JobEnds(th, raises)
  \/ th = Main /\ (Registered \/ \E j \in Jobs : Register(j))

Next == Alive /\ (NewCall \/ \E th \in Threads : Step(th))

Spec == Init /\ [][Next]_vars

\* Every thread that can go on does, and the actions of jobs end.
Fairness == \A th \in Threads : WF_vars(Alive /\ Step(th))

FairSpec == Spec /\ Fairness

-----------------------------------------------------------------------------
Places == {"idle", "register", "off", "pop", "job", "wait", "waitLock", "waiting", "complete",
           "continue", "countStore", "countDown", "countTest", "next", "await", "raised"}

\* Type invariant.
TypeOK ==
  /\ scenario \in Scenarios
  /\ todo \subseteq scenario.calls
  /\ completed \in [Tasks -> BOOLEAN] /\ failed \in [Tasks -> BOOLEAN]
  /\ continuation \in [Tasks -> Continuations]
  /\ remaining \in Int /\ unregistered \subseteq Jobs /\ anyFailed \in BOOLEAN
  /\ position \in 0 .. Len(scenario.awaited)
  /\ pc \in [Threads -> Places]
  /\ task \in [Threads -> Tasks \cup {NoTask}]
  /\ cont \in [Threads -> Continuations]
  /\ ex \in [Threads -> BOOLEAN] /\ signalled \in [Threads -> BOOLEAN]
  /\ ran \in [Tasks -> Nat]
  /\ QueueTypeOK

\* A thread is let out of a wait only by a completed task: nobody goes on
\* before the outcome it then reads is there.
SignalledIsCompleted ==
  \A th \in Threads : pc[th] = "waiting" /\ signalled[th] => completed[Target(th)]

\* No wakeup is lost: a thread whose event is not set is still the continuation
\* of an incomplete task, or some thread is about to set its event.
WaiterIsRemembered ==
  \A th \in Threads :
    pc[th] = "waiting" /\ ~signalled[th] =>
      \/ ~completed[Target(th)] /\ continuation[Target(th)] = Continuation("set", th)
      \/ \E u \in Threads : pc[u] = "continue" /\ cont[u] = Continuation("set", th)

\* A client's continuation runs once, after its task has completed, although it
\* may be registered while the task completes.
ContinuedOnce == \A t \in Tasks : ran[t] <= 1 /\ (ran[t] = 1 => completed[t])

\* The task of whenAll completes after all its tasks, on any number of workers.
AllAfterAll == completed[All] => \A j \in Started : completed[j]

\* An async method succeeds only if every task it awaited did, and one thread at
\* a time runs its body.
AsyncInOrder ==
  /\ completed[Async] /\ ~failed[Async] =>
       \A i \in DOMAIN scenario.awaited :
         completed[scenario.awaited[i]] /\ ~failed[scenario.awaited[i]]
  /\ \A th, u \in Threads : pc[th] \in {"next", "await"} /\ pc[u] \in {"next", "await"} => th = u

\* A job or an async method is completed by one thread only, however the jobs are
\* nested and awaited: "The task is already completed" is never raised for it.
CompletedByOwner ==
  \A th \in Threads : pc[th] = "complete" /\ task[th] # All => ~completed[task[th]]

\* That holds for every task, the one whenAll returns included.
CompletedByOne == \A th \in Threads : pc[th] = "complete" => ~completed[task[th]]

\* All workers of the pool wait for tasks that no worker is left to run
Starved == \A w \in scenario.workers : pc[w] = "waiting" /\ ~signalled[w]

\* A program that waits goes on, unless the pool is starved or an exception
\* nobody handles has ended the program.
WaitEnds == pc[Main] = "waiting" ~> pc[Main] # "waiting" \/ Starved \/ ~Alive
=============================================================================
