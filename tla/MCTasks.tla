------------------------------ MODULE MCTasks ------------------------------
(***************************************************************************)
(* Instances of Tasks for TLC: pools of one and of two workers and the     *)
(* programs that run on them.                                              *)
(***************************************************************************)
EXTENDS Tasks

CONSTANTS a, b, inner, w1, w2

MCThreads == {Main, w1, w2}
MCJobs == {a, b, inner}

Do(what, t) == [what |-> what, on |-> t]
Runs == {Do("run", a), Do("run", b)}
NoNesting == [j \in MCJobs |-> NoTask]
ARunsInner == [NoNesting EXCEPT ![a] = inner]

Scenario(workers, calls, nested, awaited) ==
  [workers |-> workers, calls |-> calls, nested |-> nested, awaited |-> awaited]

\* whenAll on one worker; a continuation of the client may be in its way
AllOnOne == Scenario({w1}, Runs \cup {Do("all", All), Do("wait", All), Do("then", a)}, NoNesting, <<>>)
\* Two workers: waits and continuations on the same task, and a job inside a job
WaitsOnTwo == Scenario({w1, w2}, Runs \cup {Do("wait", a), Do("then", a), Do("wait", b)}, ARunsInner, <<>>)
\* A job that waits for a job, on a single worker
NestedOnOne == Scenario({w1}, {Do("run", a), Do("wait", a)}, ARunsInner, <<>>)
\* An async method that awaits two tasks another continuation may be set on
AsyncOnTwo == Scenario({w1, w2}, Runs \cup {Do("async", Async), Do("wait", Async), Do("then", b)}, NoNesting, <<a, b>>)

\* whenAll on two workers, waited for
AllOnTwo == Scenario({w1, w2}, Runs \cup {Do("all", All), Do("wait", All)}, NoNesting, <<>>)

Programs == {AllOnOne, AllOnTwo, WaitsOnTwo, NestedOnOne, AsyncOnTwo}
WhenAll == {AllOnTwo}
=============================================================================
