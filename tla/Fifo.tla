-------------------------------- MODULE Fifo --------------------------------
(***************************************************************************)
(* What a queue between threads promises: every value pushed is taken by   *)
(* one pop, in the order of the pushes, and nobody takes a value that is   *)
(* not there.                                                              *)
(***************************************************************************)
EXTENDS Sequences

CONSTANTS Threads, Values, NoValue

VARIABLES
  items,  \* the values pushed and not taken, the oldest first
  got     \* the value each thread took last

Init == items = <<>> /\ got = [t \in Threads |-> NoValue]

Push(v) == items' = Append(items, v) /\ UNCHANGED got

Pop(t) == /\ items # <<>>
          /\ got' = [got EXCEPT ![t] = Head(items)]
          /\ items' = Tail(items)

Next == \/ \E v \in Values : Push(v)
        \/ \E t \in Threads : Pop(t)

Spec == Init /\ [][Next]_<<items, got>>
=============================================================================
