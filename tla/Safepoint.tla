------------------------------ MODULE Safepoint ------------------------------
(***************************************************************************)
(* What the stop-the-world protocol promises, without locks, events or a   *)
(* thread table: threads work on the heap, at most one of them becomes the *)
(* collecting thread, it moves objects only once it is the only one at     *)
(* work, and nobody goes back to work before it has finished.              *)
(***************************************************************************)
CONSTANTS
  Threads,
  NoThread    \* not a member of Threads

VARIABLES
  working,    \* the threads that may touch the heap
  owner,      \* the collecting thread, or NoThread
  phase       \* "running", "stopping" or "stopped"

vars == <<working, owner, phase>>

Init ==
  /\ working \in SUBSET Threads
  /\ owner = NoThread
  /\ phase = "running"

\* A working thread becomes the collecting thread.
Begin(c) ==
  /\ phase = "running"
  /\ c \in working
  /\ owner' = c
  /\ phase' = "stopping"
  /\ UNCHANGED working

\* A thread other than the collecting one stops.
Pause(t) ==
  /\ t \in working \ {owner}
  /\ working' = working \ {t}
  /\ UNCHANGED <<owner, phase>>

\* The world has stopped: objects move from here to Finish.
Freeze ==
  /\ phase = "stopping"
  /\ working = {owner}
  /\ phase' = "stopped"
  /\ UNCHANGED <<working, owner>>

Finish ==
  /\ phase = "stopped"
  /\ phase' = "running"
  /\ owner' = NoThread
  /\ UNCHANGED working

\* A thread goes (back) to work, but not into a stopped world.
Continue(t) ==
  /\ phase # "stopped"
  /\ t \in Threads \ working
  /\ working' = working \cup {t}
  /\ UNCHANGED <<owner, phase>>

Next == \/ \E t \in Threads : Begin(t) \/ Pause(t) \/ Continue(t)
        \/ Freeze
        \/ Finish

Spec == Init /\ [][Next]_vars
=============================================================================
