----------------------------- MODULE ObjectGraph -----------------------------
(***************************************************************************)
(* What a program relies on when it uses the memory manager: a graph of    *)
(* objects, reached from its roots and from its permanent objects, which   *)
(* changes only by the program's own operations.  There are no addresses,  *)
(* generations or collections here: a collection is a stuttering step, and *)
(* an object is forgotten as soon as it cannot be reached.                 *)
(***************************************************************************)
EXTENDS Integers, Sequences, SequencesExt

CONSTANTS
  RootCount,  \* the roots are numbered 1 to RootCount
  Objects,    \* the identities objects have
  Shapes,     \* the objects a program creates: [pages, fields]
  NoObject,   \* what a nil reference refers to
  Forgotten   \* the content of an identity that is free

VARIABLES
  refers,     \* the object each root refers to
  content,    \* for each object, its size and the objects its fields refer to
  permanent   \* the objects that are never forgotten

vars == <<refers, content, permanent>>

Roots == 1 .. RootCount

Successors(cont, o) ==
  IF cont[o] = Forgotten THEN {}
  ELSE ToSet(cont[o].fields) \ {NoObject}

\* The smallest set with the objects of `from' and all their successors.
ReachableFrom(cont, from) ==
  LET Closed(S) == from \subseteq S /\ \A o \in S : Successors(cont, o) \subseteq S
      closed == {S \in SUBSET Objects : Closed(S)}
  IN  {o \in Objects : \A S \in closed : o \in S}

\* The program's next roots, contents and permanent objects, without what
\* they no longer reach.
Becomes(refs, cont, perm) ==
  LET reachable == ReachableFrom(cont, (ToSet(refs) \cup perm) \ {NoObject})
  IN  /\ refers' = refs
      /\ permanent' = perm
      /\ content' = [o \in Objects |-> IF o \in reachable THEN cont[o] ELSE Forgotten]

Empty(shape) == [pages |-> shape.pages, fields |-> [i \in 1 .. shape.fields |-> NoObject]]

Free == {o \in Objects : content[o] = Forgotten}

Init ==
  /\ refers = [r \in Roots |-> NoObject]
  /\ content = [o \in Objects |-> Forgotten]
  /\ permanent = {}

New(r, shape) ==
  \E o \in Free :
    Becomes([refers EXCEPT ![r] = o], [content EXCEPT ![o] = Empty(shape)], permanent)

NewPermanent(r, shape) ==
  \E o \in Free :
    Becomes([refers EXCEPT ![r] = o], [content EXCEPT ![o] = Empty(shape)], permanent \cup {o})

Store(r, i, v) ==
  /\ refers[r] # NoObject
  /\ i \in DOMAIN content[refers[r]].fields
  /\ Becomes(refers, [content EXCEPT ![refers[r]].fields[i] = refers[v]], permanent)

Load(r, i, v) ==
  /\ refers[r] # NoObject
  /\ i \in DOMAIN content[refers[r]].fields
  /\ Becomes([refers EXCEPT ![v] = content[refers[r]].fields[i]], content, permanent)

Drop(r) == Becomes([refers EXCEPT ![r] = NoObject], content, permanent)

Next ==
  \E r \in Roots :
    \/ Drop(r)
    \/ \E shape \in Shapes :
         \/ New(r, shape)
         \/ NewPermanent(r, shape)
         \/ \E i \in 1 .. shape.fields, v \in Roots : Store(r, i, v) \/ Load(r, i, v)

Spec == Init /\ [][Next]_vars
=============================================================================
