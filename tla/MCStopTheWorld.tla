--------------------------- MODULE MCStopTheWorld ---------------------------
(***************************************************************************)
(* Instances of StopTheWorld for TLC: the services the threads use.        *)
(***************************************************************************)
EXTENDS StopTheWorld

AllUse(services) == [t \in Threads |-> services]

\* Slot 0 is the main thread: it never ends by thread_start.
MainAndOthers(main, others) ==
  [t \in Threads |-> IF t = 0 THEN main ELSE others]

NoJoins == [t \in Threads |-> NoThread]

LoopingAllocators == AllUse({"alloc", "loop"})
LoopingPermAllocators == AllUse({"alloc", "perm", "loop"})
\* One thread collects, of itself too, and creates the others
OneCollectorServices ==
  MainAndOthers(Services \ {"exit"}, Services \ {"create", "gc", "alloc", "perm"})
OneExternalCaller == MainAndOthers({"alloc"}, {"extern"})
=============================================================================
