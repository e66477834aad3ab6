---------------------------- MODULE LinearHistory ----------------------------
(***************************************************************************)
(* What the undo and redo of an editor promise: the edits that led to the  *)
(* text and the edits that were taken back lie on one line, undo and redo  *)
(* move along it, and a new edit ends it.  The history may forget: its     *)
(* oldest edits when there is a new one, its newest when one is taken      *)
(* back.  An edit inserts or erases one character.                         *)
(***************************************************************************)
EXTENDS Integers, Sequences, SequencesExt

CONSTANTS Letters, MaxText, Misfit

VARIABLES text, past, future

historyVars == <<text, past, future>>

EditOf(op, p, ch) == [op |-> op, at |-> p, ch |-> ch]
Inverse1(e) == [e EXCEPT !.op = IF @ = "insert" THEN "erase" ELSE "insert"]

\* An edit done to a text; an erased character must be the one that is there
Do(t, e) ==
  IF t = Misfit \/ e.at > Len(t) THEN Misfit
  ELSE IF e.op = "insert" THEN InsertAt(t, e.at + 1, e.ch)
  ELSE IF e.at < Len(t) /\ t[e.at + 1] = e.ch THEN RemoveAt(t, e.at + 1) ELSE Misfit

DoAll(t, edits) ==
  LET done[n \in 0 .. Len(edits)] == IF n = 0 THEN t ELSE Do(done[n - 1], edits[n])
  IN done[Len(edits)]
TakenBack(edits) == Reverse([i \in DOMAIN edits |-> Inverse1(edits[i])])

\* A line typed or pasted at a position; characters erased from there on
Typed(p, line) == [i \in DOMAIN line |-> EditOf("insert", p + i - 1, line[i])]
Erased(p, line) == [i \in DOMAIN line |-> EditOf("erase", p, line[i])]

Init == text = <<>> /\ past = <<>> /\ future = <<>>

Lines == UNION {[1 .. n -> Letters] : n \in 1 .. MaxText}

Change == \E p \in 0 .. MaxText, line \in Lines : \E edits \in {Typed(p, line), Erased(p, line)} :
  /\ text' = DoAll(text, edits) /\ text' # Misfit
  /\ IsSuffix(past', past \o edits)
  /\ future' = <<>>

Undo == \E k \in 0 .. Len(past) :
  LET moved == SubSeq(past, k + 1, Len(past))
  IN /\ text' = DoAll(text, TakenBack(moved))
     /\ past' = SubSeq(past, 1, k)
     /\ IsPrefix(future', moved \o future)

Redo == \E k \in 0 .. Len(future) :
  /\ text' = DoAll(text, SubSeq(future, 1, k))
  /\ past' = past \o SubSeq(future, 1, k)
  /\ future' = SubSeq(future, k + 1, Len(future))

Next == (Change \/ Undo \/ Redo) /\ text' # Misfit

Spec == Init /\ [][Next]_historyVars
=============================================================================
