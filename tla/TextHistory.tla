---------------------------- MODULE TextHistory ----------------------------
(***************************************************************************)
(* The undo history of the editor, src/elenasrc3/gui/text.cpp: two buffers *)
(* of fixed capacity that take turns, records that are extended while they *)
(* are open, and an edit that does not fit and is split over the buffers.  *)
(*                                                                         *)
(* A buffer is the sequence of its records and _offset a number of         *)
(* records; what they take of the capacity is counted as in the code.      *)
(***************************************************************************)
EXTENDS Integers, Sequences, SequencesExt, FiniteSetsExt

CONSTANTS
  Capacity,  \* the size of a buffer
  PosSize,   \* sizeof(pos_t)
  CharSize,  \* sizeof(text_c)
  Letters,
  MaxText,   \* bound: the length of the text
  Misfit

START_RECORD_SIZE == PosSize * 2 + CharSize
END_RECORD_SIZE == PosSize + CharSize

ASSUME SizeAssumption ==
  /\ PosSize \in Nat /\ CharSize \in Nat \ {0} /\ Capacity \in Nat /\ MaxText \in Nat
  /\ PosSize % CharSize = 0 /\ Capacity % CharSize = 0
  /\ Capacity > START_RECORD_SIZE

ASSUME MisfitAssumption == Misfit \notin Seq(Letters)

VARIABLES
  text,     \* the text, as the history's watcher sees it change
  buffers,  \* _buffer1 and _buffer2
  active,   \* which of them is _buffer
  previous, \* which is _previous, or 0
  offset,   \* _offset
  writer    \* _writer.lastOperation, lastPosition, lastLength

vars == <<text, buffers, active, previous, offset, writer>>

Lines == UNION {[1 .. n -> Letters] : n \in 0 .. MaxText}
Unknown == -1
Records == [op : {"insert", "erase"}, pos : 0 .. MaxText, line : Lines, length : {Unknown} \cup 0 .. MaxText]

Init ==
  /\ text = <<>>
  /\ buffers = [b \in 1 .. 2 |-> <<>>]
  /\ active = 1
  /\ previous = 0
  /\ offset = 0
  /\ writer = [op |-> "none", pos |-> 0, length |-> 0]

-----------------------------------------------------------------------------
(* Writing.  The history while it is written is a record of its variables. *)

history == [buffers |-> buffers, active |-> active, previous |-> previous,
            offset |-> offset, writer |-> writer]

Becomes(h) ==
  /\ buffers' = h.buffers /\ active' = h.active /\ previous' = h.previous
  /\ offset' = h.offset /\ writer' = h.writer

Bytes(line) == Len(line) * CharSize
RecordSize(r) == PosSize + Bytes(r.line) + IF r.length = Unknown THEN 0 ELSE END_RECORD_SIZE
Sizes(b) == LET sum[n \in 0 .. Len(b)] == IF n = 0 THEN 0 ELSE sum[n - 1] + RecordSize(b[n]) IN sum
Used(b) == Sizes(b)[Len(b)]
FreeSpace(h) == Capacity - Used(h.buffers[h.active])

\* Mutant: the writer goes on as if the record were open
EndRecordOpen(h) ==
  LET b == h.buffers[h.active]
  IN [h EXCEPT !.buffers[h.active] = [b EXCEPT ![Len(b)].length = h.writer.length], !.offset = Len(b)]

\* writeEndRecord and no more lastOperation
EndRecord(h) ==
  LET b == h.buffers[h.active]
  IN [h EXCEPT !.buffers[h.active] = [b EXCEPT ![Len(b)].length = h.writer.length],
               !.writer.op = "none",
               !.offset = Len(b)]

\* Go on with the record written last
Extend(h, line) ==
  LET b == h.buffers[h.active]
  IN [h EXCEPT !.buffers[h.active] = [b EXCEPT ![Len(b)].line = @ \o line],
               !.writer.length = @ + Len(line),
               !.offset = Len(b)]

\* Start a record
Begin(h, op, pos, line) ==
  LET b == h.buffers[h.active]
  IN [h EXCEPT !.buffers[h.active] = Append(b, [op |-> op, pos |-> pos, line |-> line, length |-> Unknown]),
               !.writer = [op |-> op, pos |-> pos, length |-> Len(line)],
               !.offset = Len(b) + 1]

\* The buffer in use becomes the previous one, the other one is used from its start
SwitchBuffer(h) ==
  [h EXCEPT !.previous = h.active, !.active = 3 - h.active,
            !.buffers[3 - h.active] = <<>>, !.offset = 0]

\* Mutant: no room is left for the end of the record
MayExtendFully(h, line) == FreeSpace(h) >= Bytes(line)

MayExtend(h, line) == FreeSpace(h) > Bytes(line) + END_RECORD_SIZE

\* The line follows the one written last
Continues(h, op, pos) ==
  /\ h.writer.op = op
  /\ h.writer.pos + (IF op = "insert" THEN h.writer.length ELSE 0) = pos

\* How much of a line is written when it does not fit
Part(space, needed) == IF space > needed THEN (space - needed) \div CharSize ELSE 0

\* Where the rest of a split line goes: an erased one is gone from there
RestAt(op, pos, n) == IF op = "insert" THEN pos + n ELSE pos

\* A call of write for a line that is then written
Written(h, pos) == [history |-> h, pos |-> pos, line |-> <<>>, done |-> TRUE]

\* A call that wrote n characters: the rest goes to the other buffer
RestOf(h, op, pos, line, n) ==
  [history |-> SwitchBuffer(h), pos |-> RestAt(op, pos, n), line |-> SubSeq(line, n + 1, Len(line)), done |-> FALSE]

\* write: extend the last record, or end it and start a new one
Write(h, op, pos, line) ==
  IF Continues(h, op, pos)
    THEN LET n == Part(FreeSpace(h), END_RECORD_SIZE)
         IN IF MayExtend(h, line) THEN Written(Extend(h, line), pos)
            ELSE RestOf(EndRecord(Extend(h, SubSeq(line, 1, n))), op, pos, line, n)
    ELSE LET c == IF h.writer.op = "none" THEN h ELSE EndRecord(h)
             n == Part(FreeSpace(c), START_RECORD_SIZE)
         IN IF FreeSpace(c) >= Bytes(line) + START_RECORD_SIZE THEN Written(Begin(c, op, pos, line), pos)
            ELSE RestOf(IF n = 0 THEN c ELSE EndRecord(Begin(c, op, pos, SubSeq(line, 1, n))), op, pos, line, n)

\* writeOperation calls write until the line is written.  Every call but the
\* first has a buffer of its own and writes a character, if there is one left.
Writes(h, op, pos, line) ==
  LET write[n \in 0 .. Len(line) + 1] ==
        IF n = 0 THEN [history |-> h, pos |-> pos, line |-> line, done |-> FALSE]
        ELSE LET w == write[n - 1]
             IN IF w.done THEN w ELSE Write(w.history, op, w.pos, w.line)
  IN write

WriteOperation(h, op, pos, line) == Writes(h, op, pos, line)[Len(line) + 1].history

\* Mutant: what was undone stays in the buffer
TrimNothing(h) == h

\* _buffer->trim(_offset)
Trim(h) == [h EXCEPT !.buffers[h.active] = SubSeq(@, 1, h.offset)]

-----------------------------------------------------------------------------
(* Edits *)

Inserted(t, p, line) == SubSeq(t, 1, p) \o line \o SubSeq(t, p + 1, Len(t))
Removed(t, p, n) == SubSeq(t, 1, p) \o SubSeq(t, p + n + 1, Len(t))

OnInsert == \E p \in 0 .. Len(text), line \in Lines \ {<<>>} :
  /\ Len(text) + Len(line) <= MaxText
  /\ Becomes(WriteOperation(Trim(history), "insert", p, line))
  /\ text' = Inserted(text, p, line)

OnErase == \E p \in 0 .. Len(text) - 1 : \E n \in 1 .. Len(text) - p :
  /\ Becomes(WriteOperation(Trim(history), "erase", p, SubSeq(text, p + 1, p + n)))
  /\ text' = Removed(text, p, n)

-----------------------------------------------------------------------------
(* Undo and redo.  What they do to the text is not recorded (_locking). *)

bof == offset = 0 /\ previous = 0
eof == Len(buffers[active]) = offset

\* Mutant: _previous is not reset
StepBackKeeps(h) ==
  IF h.offset = 0 /\ h.previous # 0
    THEN [h EXCEPT !.active = h.previous, !.offset = Len(h.buffers[h.previous])]
    ELSE h

\* At the start of a buffer undo goes on at the end of the previous one
StepBack(h) ==
  IF h.offset = 0 /\ h.previous # 0
    THEN [h EXCEPT !.active = h.previous, !.previous = 0, !.offset = Len(h.buffers[h.previous])]
    ELSE h

Undo ==
  /\ ~bof
  /\ LET closed == IF writer.op = "none" THEN history ELSE EndRecord(history)
         h == StepBack(closed)
         r == h.buffers[h.active][h.offset]
     IN /\ text' = IF r.op = "erase" THEN Inserted(text, r.pos, r.line)
                                     ELSE Removed(text, r.pos, r.length)
        /\ Becomes([h EXCEPT !.offset = @ - 1])

\* Redo has come to the end of a buffer that has no previous one
AtEnd(h) == h.offset = Len(h.buffers[h.active]) /\ h.previous = 0

Redo ==
  /\ ~eof
  /\ LET r == buffers[active][offset + 1]
         h == [history EXCEPT !.offset = @ + 1]
     IN /\ text' = IF r.op = "erase" THEN Removed(text, r.pos, r.length)
                                     ELSE Inserted(text, r.pos, r.line)
        /\ Becomes(IF AtEnd(h) THEN SwitchBuffer(h) ELSE h)

Next == OnInsert \/ OnErase \/ Undo \/ Redo

Spec == Init /\ [][Next]_vars

-----------------------------------------------------------------------------
\* Type invariant.
TypeOK ==
  /\ text \in Lines
  /\ buffers \in [1 .. 2 -> Seq(Records)]
  /\ active \in 1 .. 2
  /\ previous \in {0, 3 - active}
  /\ offset \in 0 .. Len(buffers[active])
  /\ writer.op \in {"none", "insert", "erase"}

\* The buffers keep their capacity: a record that is still open leaves room to
\* be closed, however undo, redo and edits alternate.
CapacityKept ==
  /\ \A b \in 1 .. 2 : Used(buffers[b]) <= Capacity
  /\ writer.op # "none" => FreeSpace(history) >= END_RECORD_SIZE

\* Only the last record of the buffer in use may be open, when the writer says
\* so and nothing is undone; every other record is closed with its length.
OneOpenRecord ==
  \A b \in 1 .. 2 : \A i \in DOMAIN buffers[b] :
    LET r == buffers[b][i]
    IN IF b = active /\ i = Len(buffers[b]) /\ writer.op # "none"
         THEN r.length = Unknown /\ offset = i /\ writer = [op |-> r.op, pos |-> r.pos, length |-> Len(r.line)]
         ELSE r.length = Len(r.line)

Lined == INSTANCE LinearHistory WITH past <- <<>>, future <- <<>>

\* The edits of some records, in their order
EditsOfRecord(r) == IF r.op = "insert" THEN Lined!Typed(r.pos, r.line) ELSE Lined!Erased(r.pos, r.line)
EditsOf(b) == FlattenSeq([i \in DOMAIN b |-> EditsOfRecord(b[i])])

past == (IF previous = 0 THEN <<>> ELSE EditsOf(buffers[previous]))
        \o EditsOf(SubSeq(buffers[active], 1, offset))
future == EditsOf(SubSeq(buffers[active], offset + 1, Len(buffers[active])))

Abstract == INSTANCE LinearHistory

\* The two buffers keep one line of edits: an undo takes back exactly what the
\* records say was done, a redo does it again, in the right order and at the
\* right place, whatever was split, extended or forgotten.
ImplementsHistory == Abstract!Spec
=============================================================================
