------------------------- MODULE TextHistory_proofs -------------------------
(***************************************************************************)
(* The undo history keeps its invariant and implements LinearHistory,      *)
(* whatever the capacity of the buffers, the sizes of their entries, the   *)
(* letters and the bound on the text.                                      *)
(*                                                                         *)
(* The invariant says where the records come from: the texts between the   *)
(* records of a buffer (Versions) are texts of the editor, every record    *)
(* fits the one before it, and the records of the previous buffer and of   *)
(* the one in use lead to the text that is shown (Leads). An edit keeps it *)
(* since a line that is split goes on where its first part ends            *)
(* (SplitEdit), a record that is extended is one record of both edits      *)
(* (JoinEdit), and every call of write but the first finds an empty        *)
(* buffer, which takes at least one character (Roomy): the loop of         *)
(* writeOperation ends. Undo and redo move along the texts.                *)
(*                                                                         *)
(* The abstract past and future are the edits of the records, so the       *)
(* refinement needs that the edits of a split or an extended record are    *)
(* those of its parts, and that the edits taken back give the text before  *)
(* them. These are inductions over lines and over records;                 *)
(* NatSetInduction, which follows from the order of the finite sets, takes *)
(* the place of the library's induction theorems about operators.          *)
(***************************************************************************)
EXTENDS TextHistory, FiniteSetTheorems, SequenceTheorems, TLAPS

-----------------------------------------------------------------------------
(* Induction and recursion.  The induction theorems of the library are     *)
(* about operators; this one is about a set of numbers and follows from    *)
(* the order of the finite sets.                                           *)

\* A set of numbers with zero and with the successors of its members is Nat.
LEMMA NatSetInduction ==
  ASSUME NEW T \in SUBSET Nat, 0 \in T, \A n \in T : n + 1 \in T
  PROVE  T = Nat
<1> DEFINE U == Nat \ T
           I == {0 .. n : n \in U}
           R == StrictSubsetOrdering(Nat)
           F == FiniteSubsetsOf(Nat)
<1>1. IsWellFoundedOn(R, F)
  BY FS_StrictSubsetOrderingWellFounded
<1>2. I \subseteq F
  <2> SUFFICES ASSUME NEW n \in U PROVE 0 .. n \in F
    OBVIOUS
  <2>1. IsFiniteSet(0 .. n)
    BY FS_Interval
  <2> QED BY <2>1 DEF FiniteSubsetsOf
<1>3. ASSUME U # {} PROVE FALSE
  <2>0. I # {}
    BY <1>3
  <2>1. PICK i \in I : \A j \in I : ~ (<<j, i>> \in R)
    <3> HIDE DEF U, I, R, F
    <3> QED BY WFMin, <1>1, <1>2, <2>0
  <2>2. PICK x \in U : i = 0 .. x
    OBVIOUS
  <2>3. x \in Nat /\ x # 0
    OBVIOUS
  <2>4. x - 1 \in U
    BY <2>3
  <2>5. (0 .. x - 1) \subseteq 0 .. x /\ x \in 0 .. x /\ x \notin 0 .. x - 1 /\ 0 .. x \subseteq Nat
    BY <2>3
  <2>6. <<0 .. x - 1, i>> \in R
    BY <2>5, <2>2 DEF StrictSubsetOrdering
  <2> QED BY <2>1, <2>4, <2>6
<1> QED BY <1>3

\* Induction up to a bound.
LEMMA UpTo ==
  ASSUME NEW m \in Nat, NEW T, 0 \in T, \A n \in 0 .. m - 1 : n \in T => n + 1 \in T
  PROVE  \A n \in 0 .. m : n \in T
<1> DEFINE U == {n \in Nat : n <= m => n \in T}
<1>1. U \in SUBSET Nat /\ 0 \in U
  OBVIOUS
<1>2. \A n \in U : n + 1 \in U
  OBVIOUS
<1>3. U = Nat
  <2> HIDE DEF U
  <2> QED BY <1>1, <1>2, NatSetInduction
<1> QED BY <1>3

-----------------------------------------------------------------------------
(* What the records of a buffer take.                                      *)

\* Sizes is the function its recursive definition describes.
LEMMA SizesDef ==
  ASSUME NEW b, Len(b) \in Nat
  PROVE  Sizes(b) = [n \in 0 .. Len(b) |-> IF n = 0 THEN 0 ELSE Sizes(b)[n - 1] + RecordSize(b[n])]
<1> DEFINE Rec(f, m) == f = [n \in 0 .. m |-> IF n = 0 THEN 0 ELSE f[n - 1] + RecordSize(b[n])]
           T == {m \in Nat : \E f : Rec(f, m)}
<1>1. 0 \in T
  <2>1. Rec([n \in 0 .. 0 |-> 0], 0)
    OBVIOUS
  <2> QED BY <2>1
<1>2. ASSUME NEW m \in T PROVE m + 1 \in T
  <2>1. PICK f : Rec(f, m)
    OBVIOUS
  <2> DEFINE g == [n \in 0 .. m + 1 |-> IF n <= m THEN f[n] ELSE f[m] + RecordSize(b[m + 1])]
  <2>2. ASSUME NEW n \in 0 .. m + 1
        PROVE  g[n] = IF n = 0 THEN 0 ELSE g[n - 1] + RecordSize(b[n])
    <3>1. CASE n = 0
      BY <2>1, <3>1
    <3>2. CASE n \in 1 .. m
      <4>1. n \in 0 .. m /\ n - 1 \in 0 .. m /\ n # 0 /\ n - 1 \in 0 .. m + 1
        BY <3>2
      <4>2. g[n] = f[n] /\ g[n - 1] = f[n - 1]
        BY <4>1
      <4>3. f[n] = f[n - 1] + RecordSize(b[n])
        BY <2>1, <4>1
      <4> QED BY <4>1, <4>2, <4>3
    <3>3. CASE n = m + 1
      BY <3>3
    <3> QED BY <3>1, <3>2, <3>3
  <2>3. Rec(g, m + 1)
    BY <2>2
  <2> HIDE DEF g, Rec
  <2> QED BY <2>3
<1>3. T = Nat
  <2> HIDE DEF T
  <2>1. T \in SUBSET Nat
    BY DEF T
  <2> QED BY <1>1, <1>2, <2>1, NatSetInduction
<1>4. \E f : Rec(f, Len(b))
  <2> HIDE DEF Rec
  <2> QED BY <1>3
<1> QED BY <1>4 DEF Sizes

\* A record whose fields have the right kind, whatever their bounds.
AnyRecord == [op : {"insert", "erase"}, pos : Nat, line : Seq(Letters), length : {Unknown} \cup Nat]

LEMMA Multiples ==
  ASSUME NEW m \in Nat, NEW n \in Nat, NEW c \in Nat \ {0}
  PROVE  /\ (m + n) * c = m * c + n * c
         /\ m * c \in Nat
         /\ m <= n => m * c <= n * c
         /\ m * c <= n * c => m <= n
         /\ m < n => m * c + c <= n * c
  OBVIOUS

LEMMA Quotient ==
  ASSUME NEW x \in Nat, NEW c \in Nat \ {0}
  PROVE  /\ x \div c \in Nat
         /\ (x \div c) * c <= x
         /\ x < (x \div c) * c + c
         /\ x % c = 0 => (x \div c) * c = x
  OBVIOUS

LEMMA RecordSizeType ==
  ASSUME NEW r \in AnyRecord
  PROVE  RecordSize(r) \in Nat /\ Bytes(r.line) \in Nat
<1>1. Len(r.line) \in Nat
  BY LenProperties DEF AnyRecord
<1>2. Bytes(r.line) \in Nat /\ PosSize \in Nat /\ CharSize \in Nat
  BY <1>1, SizeAssumption, Multiples DEF Bytes
<1> QED BY <1>2 DEF RecordSize, END_RECORD_SIZE

\* What a record adds to the size of the records before it.
LEMMA SizesStep ==
  ASSUME NEW b \in Seq(AnyRecord)
  PROVE  /\ Sizes(b)[0] = 0
         /\ \A n \in 1 .. Len(b) : Sizes(b)[n] = Sizes(b)[n - 1] + RecordSize(b[n])
         /\ \A n \in 0 .. Len(b) : Sizes(b)[n] \in Nat
<1>0. Len(b) \in Nat
  BY LenProperties
<1>1. Sizes(b) = [n \in 0 .. Len(b) |-> IF n = 0 THEN 0 ELSE Sizes(b)[n - 1] + RecordSize(b[n])]
  BY <1>0, SizesDef
<1>2. Sizes(b)[0] = 0
  BY <1>0, <1>1
<1>3. \A n \in 1 .. Len(b) : Sizes(b)[n] = Sizes(b)[n - 1] + RecordSize(b[n])
  BY <1>0, <1>1
<1> DEFINE T == {n \in Nat : Sizes(b)[n] \in Nat}
<1>4. \A n \in 0 .. Len(b) - 1 : n \in T => n + 1 \in T
  <2> SUFFICES ASSUME NEW n \in 0 .. Len(b) - 1, n \in T PROVE n + 1 \in T
    OBVIOUS
  <2>1. n + 1 \in 1 .. Len(b) /\ (n + 1) - 1 = n
    BY <1>0
  <2>2. RecordSize(b[n + 1]) \in Nat
    BY <2>1, ElementOfSeq, RecordSizeType
  <2> QED BY <2>1, <2>2, <1>3
<1>5. \A n \in 0 .. Len(b) : n \in T
  <2>1. 0 \in T
    BY <1>2
  <2> HIDE DEF T
  <2> QED BY <2>1, <1>0, <1>4, UpTo
<1> QED BY <1>2, <1>3, <1>5

\* The size of the first records depends on them only.
LEMMA SizesAgree ==
  ASSUME NEW a \in Seq(AnyRecord), NEW b \in Seq(AnyRecord), NEW m \in Nat,
         m <= Len(a), m <= Len(b), \A i \in 1 .. m : a[i] = b[i]
  PROVE  Sizes(a)[m] = Sizes(b)[m]
<1>0. Len(a) \in Nat /\ Len(b) \in Nat
  BY LenProperties
<1> DEFINE T == {n \in Nat : Sizes(a)[n] = Sizes(b)[n]}
<1>1. 0 \in T
  BY SizesStep
<1>2. \A n \in 0 .. m - 1 : n \in T => n + 1 \in T
  <2> SUFFICES ASSUME NEW n \in 0 .. m - 1, n \in T PROVE n + 1 \in T
    OBVIOUS
  <2>1. n + 1 \in 1 .. Len(a) /\ n + 1 \in 1 .. Len(b) /\ (n + 1) - 1 = n /\ n + 1 \in 1 .. m
    BY <1>0
  <2>2. Sizes(a)[n + 1] = Sizes(a)[n] + RecordSize(a[n + 1])
    BY <2>1, SizesStep
  <2>3. Sizes(b)[n + 1] = Sizes(b)[n] + RecordSize(b[n + 1])
    BY <2>1, SizesStep
  <2> QED BY <2>1, <2>2, <2>3
<1>3. \A n \in 0 .. m : n \in T
  <2> HIDE DEF T
  <2> QED BY <1>1, <1>2, UpTo
<1> QED BY <1>3

LEMMA UsedType ==
  ASSUME NEW b \in Seq(AnyRecord)
  PROVE  Used(b) \in Nat
<1>1. Len(b) \in 0 .. Len(b)
  BY LenProperties
<1> QED BY <1>1, SizesStep DEF Used

LEMMA UsedEmpty == Used(<<>>) = 0
<1>1. <<>> \in Seq(AnyRecord) /\ Len(<<>>) = 0
  BY EmptySeq
<1> QED BY <1>1, SizesStep DEF Used

\* A new record adds what it takes.
LEMMA UsedAppend ==
  ASSUME NEW b \in Seq(AnyRecord), NEW r \in AnyRecord
  PROVE  Used(Append(b, r)) = Used(b) + RecordSize(r)
<1> DEFINE a == Append(b, r)
<1>0. Len(b) \in Nat
  BY LenProperties
<1>1. /\ a \in Seq(AnyRecord) /\ Len(a) = Len(b) + 1
      /\ \A i \in 1 .. Len(b) : a[i] = b[i]
      /\ a[Len(b) + 1] = r
  BY AppendProperties
<1> HIDE DEF a
<1>2. Sizes(a)[Len(b)] = Sizes(b)[Len(b)]
  BY <1>0, <1>1, SizesAgree
<1>3. Len(b) + 1 \in 1 .. Len(a) /\ (Len(b) + 1) - 1 = Len(b)
  BY <1>0, <1>1
<1>4. Sizes(a)[Len(b) + 1] = Sizes(a)[Len(b)] + RecordSize(r)
  BY <1>1, <1>3, SizesStep
<1> QED BY <1>1, <1>2, <1>4 DEF Used, a

\* Replacing the last record changes the size by what it takes.
LEMMA UsedReplace ==
  ASSUME NEW b \in Seq(AnyRecord), NEW r \in AnyRecord, Len(b) # 0
  PROVE  Used([b EXCEPT ![Len(b)] = r]) = Used(b) - RecordSize(b[Len(b)]) + RecordSize(r)
<1> DEFINE a == [b EXCEPT ![Len(b)] = r]
<1>0. Len(b) \in Nat /\ Len(b) \in 1 .. Len(b) /\ Len(b) - 1 \in Nat /\ Len(b) - 1 \in 0 .. Len(b)
  BY LenProperties
<1>1. /\ a \in Seq(AnyRecord) /\ Len(a) = Len(b)
      /\ \A i \in 1 .. Len(b) : a[i] = IF i = Len(b) THEN r ELSE b[i]
  BY <1>0, ExceptSeq
<1>2. b[Len(b)] \in AnyRecord
  BY <1>0, ElementOfSeq
<1> HIDE DEF a
<1>3. Sizes(a)[Len(b) - 1] = Sizes(b)[Len(b) - 1]
  <2>1. \A i \in 1 .. Len(b) - 1 : a[i] = b[i]
    BY <1>0, <1>1
  <2> QED BY <1>0, <1>1, <2>1, SizesAgree
<1>4. Sizes(a)[Len(b)] = Sizes(a)[Len(b) - 1] + RecordSize(r)
  BY <1>0, <1>1, SizesStep
<1>5. Sizes(b)[Len(b)] = Sizes(b)[Len(b) - 1] + RecordSize(b[Len(b)])
  BY <1>0, SizesStep
<1>6. Sizes(b)[Len(b) - 1] \in Nat /\ RecordSize(r) \in Nat /\ RecordSize(b[Len(b)]) \in Nat
  BY <1>0, <1>2, SizesStep, RecordSizeType
<1> QED BY <1>1, <1>3, <1>4, <1>5, <1>6 DEF Used, a

\* More records take no less.
LEMMA SizesGrow ==
  ASSUME NEW b \in Seq(AnyRecord), NEW n \in 0 .. Len(b)
  PROVE  Sizes(b)[n] <= Used(b)
<1>0. Len(b) \in Nat /\ n \in Nat /\ Len(b) - n \in Nat /\ n + (Len(b) - n) = Len(b)
  BY LenProperties
<1> DEFINE T == {k \in Nat : Sizes(b)[n] <= Sizes(b)[n + k]}
<1>1. 0 \in T
  <2>1. n + 0 = n /\ Sizes(b)[n] \in Nat
    BY <1>0, SizesStep
  <2> QED BY <2>1
<1>2. \A k \in 0 .. (Len(b) - n) - 1 : k \in T => k + 1 \in T
  <2> SUFFICES ASSUME NEW k \in 0 .. (Len(b) - n) - 1, k \in T PROVE k + 1 \in T
    OBVIOUS
  <2>1. /\ n + (k + 1) \in 1 .. Len(b) /\ (n + (k + 1)) - 1 = n + k /\ n + k \in 0 .. Len(b)
    BY <1>0
  <2>2. RecordSize(b[n + (k + 1)]) \in Nat
    BY <2>1, ElementOfSeq, RecordSizeType
  <2>3. Sizes(b)[n + (k + 1)] = Sizes(b)[n + k] + RecordSize(b[n + (k + 1)])
    BY <2>1, SizesStep
  <2>4. Sizes(b)[n + k] \in Nat /\ Sizes(b)[n] \in Nat
    BY <2>1, SizesStep
  <2> QED BY <2>2, <2>3, <2>4
<1>3. \A k \in 0 .. Len(b) - n : k \in T
  <2> HIDE DEF T
  <2> QED BY <1>0, <1>1, <1>2, UpTo
<1>4. Len(b) - n \in T
  <2> HIDE DEF T
  <2> QED BY <1>0, <1>3
<1> QED BY <1>0, <1>4 DEF Used

\* What is undone is cut off, and what is left takes no more.
LEMMA UsedPrefix ==
  ASSUME NEW b \in Seq(AnyRecord), NEW n \in 0 .. Len(b)
  PROVE  /\ SubSeq(b, 1, n) \in Seq(AnyRecord) /\ Len(SubSeq(b, 1, n)) = n
         /\ \A i \in 1 .. n : SubSeq(b, 1, n)[i] = b[i]
         /\ Used(SubSeq(b, 1, n)) <= Used(b)
<1> DEFINE a == SubSeq(b, 1, n)
<1>0. Len(b) \in Nat /\ n \in Nat
  BY LenProperties
<1>1. a \in Seq(AnyRecord) /\ Len(a) = n /\ \A i \in 1 .. n : a[i] = b[i]
  <2>1. \A i \in 1 .. n : b[i] \in AnyRecord
    BY <1>0, ElementOfSeq
  <2> QED BY <2>1, <1>0, SubSeqProperties
<1> HIDE DEF a
<1>2. Sizes(a)[n] = Sizes(b)[n]
  BY <1>0, <1>1, SizesAgree
<1>3. Used(a) <= Used(b)
  BY <1>1, <1>2, SizesGrow DEF Used
<1> QED BY <1>1, <1>3 DEF a

-----------------------------------------------------------------------------
(* Texts.                                                                  *)

\* Part of a sequence.
LEMMA PartOf ==
  ASSUME NEW S, NEW t \in Seq(S), NEW m \in 1 .. Len(t) + 1, NEW n \in m - 1 .. Len(t)
  PROVE  /\ SubSeq(t, m, n) \in Seq(S)
         /\ Len(SubSeq(t, m, n)) = n - m + 1
         /\ \A i \in 1 .. n - m + 1 : SubSeq(t, m, n)[i] = t[m + i - 1]
<1>1. Len(t) \in Nat /\ m \in Int /\ n \in Int
  BY LenProperties
<1>2. \A i \in m .. n : t[i] \in S
  BY <1>1, ElementOfSeq
<1> QED BY <1>1, <1>2, SubSeqProperties

\* The text with a line in it, character by character.
LEMMA InsertedForm ==
  ASSUME NEW t \in Seq(Letters), NEW line \in Seq(Letters), NEW p \in 0 .. Len(t)
  PROVE  /\ Inserted(t, p, line) \in Seq(Letters)
         /\ Len(Inserted(t, p, line)) = Len(t) + Len(line)
         /\ \A i \in 1 .. Len(t) + Len(line) :
              Inserted(t, p, line)[i] = IF i <= p THEN t[i]
                                        ELSE IF i <= p + Len(line) THEN line[i - p] ELSE t[i - Len(line)]
<1> DEFINE a == SubSeq(t, 1, p)
           b == SubSeq(t, p + 1, Len(t))
<1>0. Len(t) \in Nat /\ Len(line) \in Nat /\ p \in Nat
  BY LenProperties
<1>1. a \in Seq(Letters) /\ Len(a) = p /\ \A i \in 1 .. p : a[i] = t[i]
  <2>1. 1 \in 1 .. Len(t) + 1 /\ p \in 1 - 1 .. Len(t)
    BY <1>0
  <2> QED BY <1>0, <2>1, PartOf
<1>2. b \in Seq(Letters) /\ Len(b) = Len(t) - p /\ \A i \in 1 .. Len(t) - p : b[i] = t[p + i]
  <2>1. p + 1 \in 1 .. Len(t) + 1 /\ Len(t) \in (p + 1) - 1 .. Len(t)
    BY <1>0
  <2> QED BY <1>0, <2>1, PartOf
<1> HIDE DEF a, b
<1>3. /\ a \o line \in Seq(Letters) /\ Len(a \o line) = p + Len(line)
      /\ \A i \in 1 .. p + Len(line) : (a \o line)[i] = IF i <= p THEN a[i] ELSE line[i - p]
  BY <1>1, ConcatProperties
<1>4. /\ (a \o line) \o b \in Seq(Letters) /\ Len((a \o line) \o b) = Len(t) + Len(line)
      /\ \A i \in 1 .. Len(t) + Len(line) :
            ((a \o line) \o b)[i] = IF i <= p + Len(line) THEN (a \o line)[i] ELSE b[i - (p + Len(line))]
  <2>1. Len(a \o line) + Len(b) = Len(t) + Len(line)
    BY <1>0, <1>2, <1>3
  <2>2. /\ (a \o line) \o b \in Seq(Letters) /\ Len((a \o line) \o b) = Len(a \o line) + Len(b)
        /\ \A i \in 1 .. Len(a \o line) + Len(b) :
              ((a \o line) \o b)[i] = IF i <= Len(a \o line) THEN (a \o line)[i] ELSE b[i - Len(a \o line)]
    <3> HIDE <1>3
    <3>1. a \o line \in Seq(Letters)
      BY <1>3
    <3> QED BY <1>2, <3>1, ConcatProperties
  <2> QED BY <1>3, <2>1, <2>2
<1>5. Inserted(t, p, line) = (a \o line) \o b
  BY DEF Inserted, a, b
<1>6. ASSUME NEW i \in 1 .. Len(t) + Len(line)
      PROVE  ((a \o line) \o b)[i] = IF i <= p THEN t[i]
                                     ELSE IF i <= p + Len(line) THEN line[i - p] ELSE t[i - Len(line)]
  <2>1. CASE i <= p
    BY <2>1, <1>0, <1>1, <1>3, <1>4
  <2>2. CASE p < i /\ i <= p + Len(line)
    BY <2>2, <1>0, <1>3, <1>4
  <2>3. CASE p + Len(line) < i
    <3>1. i - (p + Len(line)) \in 1 .. Len(t) - p /\ p + (i - (p + Len(line))) = i - Len(line)
      BY <2>3, <1>0
    <3>2. ~ (i <= p + Len(line)) /\ ~ (i <= p)
      BY <2>3, <1>0
    <3>3. ((a \o line) \o b)[i] = b[i - (p + Len(line))]
      BY <3>2, <1>4
    <3>4. b[i - (p + Len(line))] = t[i - Len(line)]
      BY <3>1, <1>2
    <3> QED BY <3>2, <3>3, <3>4
  <2>4. i <= p \/ (p < i /\ i <= p + Len(line)) \/ p + Len(line) < i
    BY <1>0
  <2> QED BY <2>1, <2>2, <2>3, <2>4
<1> QED BY <1>4, <1>5, <1>6

\* The text without some characters, character by character.
LEMMA RemovedForm ==
  ASSUME NEW t \in Seq(Letters), NEW p \in Nat, NEW n \in Nat, p + n <= Len(t)
  PROVE  /\ Removed(t, p, n) \in Seq(Letters)
         /\ Len(Removed(t, p, n)) = Len(t) - n
         /\ \A i \in 1 .. Len(t) - n : Removed(t, p, n)[i] = IF i <= p THEN t[i] ELSE t[i + n]
<1> DEFINE a == SubSeq(t, 1, p)
           b == SubSeq(t, p + n + 1, Len(t))
<1>0. Len(t) \in Nat
  BY LenProperties
<1>1. a \in Seq(Letters) /\ Len(a) = p /\ \A i \in 1 .. p : a[i] = t[i]
  <2>1. 1 \in 1 .. Len(t) + 1 /\ p \in 1 - 1 .. Len(t)
    BY <1>0
  <2> QED BY <1>0, <2>1, PartOf
<1>2. b \in Seq(Letters) /\ Len(b) = Len(t) - p - n /\ \A i \in 1 .. Len(t) - p - n : b[i] = t[p + n + i]
  <2>1. p + n + 1 \in 1 .. Len(t) + 1 /\ Len(t) \in (p + n + 1) - 1 .. Len(t)
    BY <1>0
  <2> QED BY <1>0, <2>1, PartOf
<1> HIDE DEF a, b
<1>3. /\ a \o b \in Seq(Letters) /\ Len(a \o b) = Len(t) - n
      /\ \A i \in 1 .. Len(t) - n : (a \o b)[i] = IF i <= p THEN a[i] ELSE b[i - p]
  <2>1. a \in Seq(Letters) /\ b \in Seq(Letters)
    BY <1>1, <1>2
  <2>2. /\ a \o b \in Seq(Letters) /\ Len(a \o b) = Len(a) + Len(b)
        /\ \A i \in 1 .. Len(a) + Len(b) : (a \o b)[i] = IF i <= Len(a) THEN a[i] ELSE b[i - Len(a)]
    BY ONLY <2>1, ConcatProperties
  <2>3. Len(a) = p /\ Len(a) + Len(b) = Len(t) - n
    BY <1>0, <1>1, <1>2
  <2> QED BY <2>2, <2>3
<1>4. Removed(t, p, n) = a \o b
  BY DEF Removed, a, b
<1>5. ASSUME NEW i \in 1 .. Len(t) - n
      PROVE  (a \o b)[i] = IF i <= p THEN t[i] ELSE t[i + n]
  <2>1. CASE i <= p
    BY <2>1, <1>0, <1>1, <1>3
  <2>2. CASE p < i
    <3>1. i - p \in 1 .. Len(t) - p - n /\ p + n + (i - p) = i + n
      BY <2>2, <1>0
    <3>2. ~ (i <= p)
      BY <2>2, <1>0
    <3>3. (a \o b)[i] = b[i - p]
      BY <3>2, <1>3
    <3>4. b[i - p] = t[i + n]
      BY <3>1, <1>2
    <3> QED BY <3>2, <3>3, <3>4
  <2>3. i <= p \/ p < i
    BY <1>0
  <2> QED BY <2>1, <2>2, <2>3
<1> QED BY <1>3, <1>4, <1>5

\* The line stands in the text from a position on.
Has(t, p, line) == p + Len(line) <= Len(t) /\ \A i \in 1 .. Len(line) : t[p + i] = line[i]

\* A line that goes on where another one ends.
LEMMA InsertedTwice ==
  ASSUME NEW t \in Seq(Letters), NEW l \in Seq(Letters), NEW m \in Seq(Letters), NEW p \in 0 .. Len(t)
  PROVE  Inserted(Inserted(t, p, l), p + Len(l), m) = Inserted(t, p, l \o m)
<1> DEFINE u == Inserted(t, p, l)
           x == Inserted(u, p + Len(l), m)
           y == Inserted(t, p, l \o m)
<1>0. Len(t) \in Nat /\ Len(l) \in Nat /\ Len(m) \in Nat /\ p \in Nat
  BY LenProperties
<1>1. /\ u \in Seq(Letters) /\ Len(u) = Len(t) + Len(l)
      /\ \A i \in 1 .. Len(t) + Len(l) :
           u[i] = IF i <= p THEN t[i] ELSE IF i <= p + Len(l) THEN l[i - p] ELSE t[i - Len(l)]
  BY InsertedForm
<1>2. /\ l \o m \in Seq(Letters) /\ Len(l \o m) = Len(l) + Len(m)
      /\ \A i \in 1 .. Len(l) + Len(m) : (l \o m)[i] = IF i <= Len(l) THEN l[i] ELSE m[i - Len(l)]
  BY ConcatProperties
<1> HIDE DEF u
<1>3. /\ x \in Seq(Letters) /\ Len(x) = Len(u) + Len(m)
      /\ \A i \in 1 .. Len(u) + Len(m) :
           x[i] = IF i <= p + Len(l) THEN u[i] ELSE IF i <= p + Len(l) + Len(m) THEN m[i - (p + Len(l))] ELSE u[i - Len(m)]
  <2>1. p + Len(l) \in 0 .. Len(u)
    BY <1>0, <1>1
  <2> QED BY <1>1, <2>1, InsertedForm
<1>4. /\ y \in Seq(Letters) /\ Len(y) = Len(t) + Len(l \o m)
      /\ \A i \in 1 .. Len(t) + Len(l \o m) :
           y[i] = IF i <= p THEN t[i] ELSE IF i <= p + Len(l \o m) THEN (l \o m)[i - p] ELSE t[i - Len(l \o m)]
  BY <1>2, InsertedForm
<1> HIDE DEF x, y
<1>5. Len(x) = Len(t) + Len(l) + Len(m) /\ Len(y) = Len(t) + Len(l) + Len(m)
  BY <1>0, <1>1, <1>2, <1>3, <1>4
<1>6. ASSUME NEW i \in 1 .. Len(t) + Len(l) + Len(m) PROVE x[i] = y[i]
  <2>0. i \in 1 .. Len(u) + Len(m) /\ i \in 1 .. Len(t) + Len(l \o m) /\ i \in Int
    BY <1>0, <1>1, <1>2
  <2>1. CASE i <= p
    <3>1. i \in 1 .. Len(t) + Len(l) /\ i <= p + Len(l)
      BY <2>0, <2>1, <1>0
    <3>2. x[i] = u[i] /\ u[i] = t[i] /\ y[i] = t[i]
      BY <2>0, <2>1, <3>1, <1>1, <1>3, <1>4
    <3> QED BY <3>2
  <2>2. CASE p < i /\ i <= p + Len(l)
    <3>1. i \in 1 .. Len(u) /\ i - p \in 1 .. Len(l) /\ i <= p + Len(l \o m) /\ ~ (i <= p)
      BY <2>0, <2>2, <1>0, <1>1, <1>2
    <3>2. x[i] = l[i - p]
      BY <2>0, <2>2, <3>1, <1>1, <1>3
    <3>3. (l \o m)[i - p] = l[i - p]
      BY <3>1, <1>0, <1>2
    <3> QED BY <2>0, <3>1, <3>2, <3>3, <1>4
  <2>3. CASE p + Len(l) < i /\ i <= p + Len(l) + Len(m)
    <3>1. /\ ~ (i <= p) /\ ~ (i <= p + Len(l)) /\ i <= p + Len(l \o m) /\ i - p \in 1 .. Len(l) + Len(m)
          /\ ~ (i - p <= Len(l)) /\ i - p - Len(l) = i - (p + Len(l))
      BY <2>0, <2>3, <1>0, <1>2
    <3>2. x[i] = m[i - (p + Len(l))]
      BY <2>0, <2>3, <3>1, <1>3
    <3>3. (l \o m)[i - p] = m[i - p - Len(l)]
      BY <3>1, <1>2
    <3> QED BY <2>0, <3>1, <3>2, <3>3, <1>4
  <2>4. CASE p + Len(l) + Len(m) < i
    <3>1. /\ ~ (i <= p) /\ ~ (i <= p + Len(l)) /\ ~ (i <= p + Len(l) + Len(m)) /\ ~ (i <= p + Len(l \o m))
          /\ i - Len(m) \in 1 .. Len(t) + Len(l) /\ ~ (i - Len(m) <= p) /\ ~ (i - Len(m) <= p + Len(l))
          /\ i - Len(m) - Len(l) = i - Len(l \o m)
      BY <2>0, <2>4, <1>0, <1>2
    <3>2. x[i] = u[i - Len(m)]
      BY <2>0, <3>1, <1>3
    <3>3. u[i - Len(m)] = t[i - Len(m) - Len(l)]
      BY <3>1, <1>1
    <3> QED BY <2>0, <3>1, <3>2, <3>3, <1>4
  <2>5. i <= p \/ (p < i /\ i <= p + Len(l)) \/ (p + Len(l) < i /\ i <= p + Len(l) + Len(m)) \/ p + Len(l) + Len(m) < i
    BY <2>0, <1>0
  <2> QED BY <2>1, <2>2, <2>3, <2>4, <2>5
<1>7. x = y
  BY <1>3, <1>4, <1>5, <1>6, SeqEqual
<1> QED BY <1>7 DEF x, y, u

\* More characters erased at the same position.
LEMMA RemovedTwice ==
  ASSUME NEW t \in Seq(Letters), NEW p \in Nat, NEW n \in Nat, NEW m \in Nat, p + n + m <= Len(t)
  PROVE  Removed(Removed(t, p, n), p, m) = Removed(t, p, n + m)
<1> DEFINE u == Removed(t, p, n)
           x == Removed(u, p, m)
           y == Removed(t, p, n + m)
<1>0. Len(t) \in Nat /\ p + n <= Len(t) /\ n + m \in Nat /\ p + (n + m) <= Len(t)
  BY LenProperties
<1>1. u \in Seq(Letters) /\ Len(u) = Len(t) - n /\ \A i \in 1 .. Len(t) - n : u[i] = IF i <= p THEN t[i] ELSE t[i + n]
  BY <1>0, RemovedForm
<1> HIDE DEF u
<1>2. x \in Seq(Letters) /\ Len(x) = Len(u) - m /\ \A i \in 1 .. Len(u) - m : x[i] = IF i <= p THEN u[i] ELSE u[i + m]
  <2>1. u \in Seq(Letters) /\ p \in Nat /\ m \in Nat /\ p + m <= Len(u)
    BY <1>0, <1>1
  <2> QED BY ONLY <2>1, RemovedForm DEF x
<1>3. /\ y \in Seq(Letters) /\ Len(y) = Len(t) - (n + m)
      /\ \A i \in 1 .. Len(t) - (n + m) : y[i] = IF i <= p THEN t[i] ELSE t[i + (n + m)]
  BY <1>0, RemovedForm
<1> HIDE DEF x, y
<1>4. Len(x) = Len(y)
  BY <1>0, <1>1, <1>2, <1>3
<1>5. ASSUME NEW i \in 1 .. Len(x) PROVE x[i] = y[i]
  <2>1. /\ i \in 1 .. Len(u) - m /\ i \in 1 .. Len(t) - (n + m) /\ i \in 1 .. Len(t) - n /\ i + m \in 1 .. Len(t) - n
        /\ (i + m) + n = i + (n + m) /\ (~ (i <= p) => ~ (i + m <= p))
    BY <1>0, <1>1, <1>2, <1>4
  <2> QED BY <2>1, <1>1, <1>2, <1>3
<1>6. x = y
  BY <1>2, <1>3, <1>4, <1>5, SeqEqual
<1> QED BY <1>6 DEF x, y, u

\* Erasing what was inserted gives the text back.
LEMMA InsertedRemoved ==
  ASSUME NEW t \in Seq(Letters), NEW l \in Seq(Letters), NEW p \in 0 .. Len(t)
  PROVE  /\ Removed(Inserted(t, p, l), p, Len(l)) = t
         /\ Has(Inserted(t, p, l), p, l)
<1> DEFINE u == Inserted(t, p, l)
           x == Removed(u, p, Len(l))
<1>0. Len(t) \in Nat /\ Len(l) \in Nat /\ p \in Nat
  BY LenProperties
<1>1. /\ u \in Seq(Letters) /\ Len(u) = Len(t) + Len(l)
      /\ \A i \in 1 .. Len(t) + Len(l) :
           u[i] = IF i <= p THEN t[i] ELSE IF i <= p + Len(l) THEN l[i - p] ELSE t[i - Len(l)]
  BY InsertedForm
<1> HIDE DEF u
<1>2. x \in Seq(Letters) /\ Len(x) = Len(u) - Len(l) /\ \A i \in 1 .. Len(u) - Len(l) : x[i] = IF i <= p THEN u[i] ELSE u[i + Len(l)]
  <2>1. u \in Seq(Letters) /\ p \in Nat /\ Len(l) \in Nat /\ p + Len(l) <= Len(u)
    BY <1>0, <1>1
  <2> QED BY ONLY <2>1, RemovedForm DEF x
<1> HIDE DEF x
<1>3. ASSUME NEW i \in 1 .. Len(x) PROVE x[i] = t[i]
  <2>1. /\ i \in 1 .. Len(u) - Len(l) /\ i \in 1 .. Len(t) + Len(l) /\ i + Len(l) \in 1 .. Len(t) + Len(l)
        /\ (~ (i <= p) => ~ (i + Len(l) <= p) /\ ~ (i + Len(l) <= p + Len(l))) /\ (i + Len(l)) - Len(l) = i
    BY <1>0, <1>1, <1>2
  <2> QED BY <2>1, <1>1, <1>2
<1>4. x = t
  <2>1. Len(x) = Len(t)
    BY <1>0, <1>1, <1>2
  <2> QED BY <1>2, <1>3, <2>1, SeqEqual
<1>5. ASSUME NEW i \in 1 .. Len(l) PROVE u[p + i] = l[i]
  <2>1. p + i \in 1 .. Len(t) + Len(l) /\ ~ (p + i <= p) /\ p + i <= p + Len(l) /\ (p + i) - p = i
    BY <1>0
  <2> QED BY <2>1, <1>1
<1>6. Has(u, p, l)
  BY <1>0, <1>1, <1>5 DEF Has
<1> QED BY <1>4, <1>6 DEF x, u

\* Inserting what was erased gives the text back.
LEMMA RemovedInserted ==
  ASSUME NEW t \in Seq(Letters), NEW l \in Seq(Letters), NEW p \in Nat, Has(t, p, l)
  PROVE  Inserted(Removed(t, p, Len(l)), p, l) = t
<1> DEFINE u == Removed(t, p, Len(l))
           x == Inserted(u, p, l)
<1>0. Len(t) \in Nat /\ Len(l) \in Nat /\ p + Len(l) <= Len(t) /\ \A i \in 1 .. Len(l) : t[p + i] = l[i]
  BY LenProperties DEF Has
<1>1. u \in Seq(Letters) /\ Len(u) = Len(t) - Len(l) /\ \A i \in 1 .. Len(t) - Len(l) : u[i] = IF i <= p THEN t[i] ELSE t[i + Len(l)]
  BY <1>0, RemovedForm
<1> HIDE DEF u
<1>2. /\ x \in Seq(Letters) /\ Len(x) = Len(u) + Len(l)
      /\ \A i \in 1 .. Len(u) + Len(l) :
           x[i] = IF i <= p THEN u[i] ELSE IF i <= p + Len(l) THEN l[i - p] ELSE u[i - Len(l)]
  <2>1. p \in 0 .. Len(u)
    BY <1>0, <1>1
  <2> QED BY <1>1, <2>1, InsertedForm
<1> HIDE DEF x
<1>3. ASSUME NEW i \in 1 .. Len(x) PROVE x[i] = t[i]
  <2>0. i \in 1 .. Len(u) + Len(l) /\ i \in Int
    BY <1>0, <1>1, <1>2
  <2>1. CASE i <= p
    BY <2>0, <2>1, <1>0, <1>1, <1>2
  <2>2. CASE ~ (i <= p) /\ i <= p + Len(l)
    <3>1. i - p \in 1 .. Len(l) /\ p + (i - p) = i
      BY <2>0, <2>2, <1>0
    <3>2. t[p + (i - p)] = l[i - p]
      BY <3>1, <1>0
    <3> QED BY <2>0, <2>2, <3>1, <3>2, <1>2
  <2>3. CASE ~ (i <= p) /\ ~ (i <= p + Len(l))
    <3>1. i - Len(l) \in 1 .. Len(t) - Len(l) /\ ~ (i - Len(l) <= p) /\ (i - Len(l)) + Len(l) = i
      BY <2>0, <2>3, <1>0, <1>1
    <3> QED BY <2>0, <2>3, <3>1, <1>1, <1>2
  <2> QED BY <2>1, <2>2, <2>3
<1>4. x = t
  <2>1. Len(x) = Len(t)
    BY <1>0, <1>1, <1>2
  <2> QED BY <1>2, <1>3, <2>1, SeqEqual
<1> QED BY <1>4 DEF x, u

-----------------------------------------------------------------------------
(* The edits of a record, done and taken back one character at a time.     *)

\* DoAll gives the last of the texts that the edits make, one after another.
LEMMA DoAllIs ==
  ASSUME NEW t, NEW e, Len(e) \in Nat,
         NEW v, v[0] = t, \A i \in 1 .. Len(e) : v[i] = Abstract!Do(v[i - 1], e[i])
  PROVE  Abstract!DoAll(t, e) = v[Len(e)]
<1> DEFINE Rec(f) == f = [i \in 0 .. Len(e) |-> IF i = 0 THEN t ELSE Abstract!Do(f[i - 1], e[i])]
           d == CHOOSE f : Rec(f)
<1>1. Rec(d)
  <2> DEFINE w == [i \in 0 .. Len(e) |-> v[i]]
  <2>1. ASSUME NEW i \in 0 .. Len(e)
        PROVE  w[i] = IF i = 0 THEN t ELSE Abstract!Do(w[i - 1], e[i])
    <3>1. CASE i = 0
      BY <3>1
    <3>2. CASE i # 0
      <4>1. i \in 1 .. Len(e) /\ i - 1 \in 0 .. Len(e)
        BY <3>2
      <4> QED BY <3>2, <4>1
    <3> QED BY <3>1, <3>2
  <2>2. Rec(w)
    BY <2>1
  <2> HIDE DEF w
  <2> HIDE DEF Rec
  <2> QED BY <2>2
<1>2. Abstract!DoAll(t, e) = d[Len(e)]
  BY DEF Abstract!DoAll
<1> DEFINE T == {i \in Nat : d[i] = v[i]}
<1> HIDE DEF d
<1>3. 0 \in T
  BY <1>1
<1>4. \A i \in 0 .. Len(e) - 1 : i \in T => i + 1 \in T
  <2> SUFFICES ASSUME NEW i \in 0 .. Len(e) - 1, i \in T PROVE i + 1 \in T
    OBVIOUS
  <2>1. i + 1 \in 0 .. Len(e) /\ i + 1 # 0 /\ (i + 1) - 1 = i
    OBVIOUS
  <2>2. d[i + 1] = Abstract!Do(d[i], e[i + 1])
    BY <2>1, <1>1
  <2>3. v[i + 1] = Abstract!Do(v[i], e[i + 1])
    BY <2>1
  <2> QED BY <2>2, <2>3
<1>5. \A i \in 0 .. Len(e) : i \in T
  <2> HIDE DEF T
  <2> QED BY <1>3, <1>4, UpTo
<1>6. Len(e) \in T
  <2> HIDE DEF T
  <2> QED BY <1>5
<1> QED BY <1>2, <1>6

\* One character inserted; one erased.
LEMMA DoInsert ==
  ASSUME NEW t \in Seq(Letters), NEW p \in 0 .. Len(t), NEW ch \in Letters
  PROVE  Abstract!Do(t, Abstract!EditOf("insert", p, ch)) = Inserted(t, p, <<ch>>)
<1>1. t # Misfit /\ Len(t) \in Nat
  BY MisfitAssumption, LenProperties
<1>2. (p + 1) - 1 = p /\ ~ (p > Len(t))
  BY <1>1
<1> QED BY <1>1, <1>2 DEF Abstract!Do, Abstract!EditOf, Inserted, Abstract!InsertAt

LEMMA DoErase ==
  ASSUME NEW t \in Seq(Letters), NEW p \in 0 .. Len(t) - 1
  PROVE  Abstract!Do(t, Abstract!EditOf("erase", p, t[p + 1])) = Removed(t, p, 1)
<1>1. t # Misfit /\ Len(t) \in Nat
  BY MisfitAssumption, LenProperties
<1>2. (p + 1) - 1 = p /\ ~ (p > Len(t)) /\ p < Len(t)
  BY <1>1
<1> QED BY <1>1, <1>2 DEF Abstract!Do, Abstract!EditOf, Removed, Abstract!RemoveAt

LEMMA Nothing ==
  ASSUME NEW t \in Seq(Letters), NEW p \in 0 .. Len(t)
  PROVE  Inserted(t, p, <<>>) = t /\ Removed(t, p, 0) = t
<1>0. <<>> \in Seq(Letters) /\ Len(<<>>) = 0 /\ Len(t) \in Nat /\ p \in Nat
  BY EmptySeq, LenProperties
<1>1. Inserted(t, p, <<>>) = t
  <2> DEFINE x == Inserted(t, p, <<>>)
  <2>1. /\ x \in Seq(Letters) /\ Len(x) = Len(t) + Len(<<>>)
        /\ \A i \in 1 .. Len(t) + Len(<<>>) :
             x[i] = IF i <= p THEN t[i] ELSE IF i <= p + Len(<<>>) THEN <<>>[i - p] ELSE t[i - Len(<<>>)]
    BY <1>0, InsertedForm
  <2> HIDE DEF x
  <2>2. Len(x) = Len(t) /\ \A i \in 1 .. Len(x) : x[i] = t[i]
    BY <1>0, <2>1
  <2>3. x = t
    BY <2>1, <2>2, SeqEqual
  <2> QED BY <2>3 DEF x
<1>2. Removed(t, p, 0) = t
  <2> DEFINE x == Removed(t, p, 0)
  <2>1. p + 0 <= Len(t)
    BY <1>0
  <2>2. x \in Seq(Letters) /\ Len(x) = Len(t) - 0 /\ \A i \in 1 .. Len(t) - 0 : x[i] = IF i <= p THEN t[i] ELSE t[i + 0]
    BY <1>0, <2>1, RemovedForm
  <2> HIDE DEF x
  <2>3. Len(x) = Len(t) /\ \A i \in 1 .. Len(x) : x[i] = t[i]
    BY <1>0, <2>2
  <2>4. x = t
    BY <2>2, <2>3, SeqEqual
  <2> QED BY <2>4 DEF x
<1> QED BY <1>1, <1>2

\* The edits of a typed line insert it.
LEMMA TypedDone ==
  ASSUME NEW t \in Seq(Letters), NEW line \in Seq(Letters), NEW p \in 0 .. Len(t)
  PROVE  Abstract!DoAll(t, Abstract!Typed(p, line)) = Inserted(t, p, line)
<1> DEFINE e == Abstract!Typed(p, line)
           v == [i \in 0 .. Len(line) |-> Inserted(t, p, SubSeq(line, 1, i))]
<1>0. Len(t) \in Nat /\ Len(line) \in Nat /\ p \in Nat /\ DOMAIN line = 1 .. Len(line)
  BY LenProperties
<1>1. e = [i \in 1 .. Len(line) |-> Abstract!EditOf("insert", p + i - 1, line[i])]
  BY <1>0 DEF Abstract!Typed
<1>2. Len(e) = Len(line)
  BY <1>0, <1>1
<1>3. v[0] = t
  <2>1. SubSeq(line, 1, 0) = <<>>
    BY SubSeqEmpty
  <2>2. v[0] = Inserted(t, p, SubSeq(line, 1, 0))
    BY <1>0
  <2> QED BY <2>1, <2>2, Nothing
<1>4. ASSUME NEW i \in 1 .. Len(line) PROVE v[i] = Abstract!Do(v[i - 1], e[i])
  <2> DEFINE l == SubSeq(line, 1, i - 1)
  <2>1. l \in Seq(Letters) /\ Len(l) = i - 1 /\ line[i] \in Letters /\ <<line[i]>> \in Seq(Letters)
    <3>1. 1 \in 1 .. Len(line) + 1 /\ i - 1 \in 1 - 1 .. Len(line)
      BY <1>0
    <3>2. l \in Seq(Letters) /\ Len(l) = i - 1
      BY <1>0, <3>1, PartOf
    <3>3. line[i] \in Letters
      BY ElementOfSeq
    <3> QED BY <3>2, <3>3
  <2>2. l \o <<line[i]>> = SubSeq(line, 1, i)
    <3>1. 1 \in 1 .. Len(line) /\ i \in 1 .. Len(line)
      BY <1>0
    <3> QED BY <3>1, SubSeqRecursiveSecond
  <2>3. v[i - 1] = Inserted(t, p, l) /\ v[i] = Inserted(t, p, SubSeq(line, 1, i))
    BY <1>0
  <2> HIDE DEF l, v
  <2>4. Inserted(t, p, l) \in Seq(Letters) /\ Len(Inserted(t, p, l)) = Len(t) + (i - 1)
    <3>1. l \in Seq(Letters)
      BY <2>1
    <3>2. Inserted(t, p, l) \in Seq(Letters) /\ Len(Inserted(t, p, l)) = Len(t) + Len(l)
      BY <3>1, InsertedForm
    <3> QED BY <2>1, <3>2
  <2>5. e[i] = Abstract!EditOf("insert", p + (i - 1), line[i])
    BY <1>0, <1>1
  <2>6. Abstract!Do(Inserted(t, p, l), e[i]) = Inserted(Inserted(t, p, l), p + (i - 1), <<line[i]>>)
    <3>1. p + (i - 1) \in 0 .. Len(Inserted(t, p, l))
      BY <1>0, <2>4
    <3> HIDE DEF e
    <3> QED BY <2>1, <2>4, <2>5, <3>1, DoInsert
  <2>7. Inserted(Inserted(t, p, l), p + (i - 1), <<line[i]>>) = Inserted(t, p, l \o <<line[i]>>)
    <3>1. l \in Seq(Letters) /\ <<line[i]>> \in Seq(Letters)
      BY <2>1
    <3>2. Inserted(Inserted(t, p, l), p + Len(l), <<line[i]>>) = Inserted(t, p, l \o <<line[i]>>)
      <4>1. t \in Seq(Letters) /\ p \in 0 .. Len(t)
        OBVIOUS
      <4> QED BY ONLY <3>1, <4>1, InsertedTwice
    <3> QED BY <2>1, <3>2
  <2> QED BY <2>2, <2>3, <2>6, <2>7
<1>6. v[Len(e)] = Inserted(t, p, line)
  <2>1. SubSeq(line, 1, Len(line)) = line
    BY SubSeqFull
  <2>2. v[Len(line)] = Inserted(t, p, SubSeq(line, 1, Len(line)))
    BY <1>0
  <2> HIDE DEF e, v
  <2> QED BY <1>2, <2>1, <2>2
<1>7. Abstract!DoAll(t, e) = v[Len(e)]
  <2>1. Len(e) \in Nat
    BY <1>0, <1>2
  <2> HIDE DEF e, v
  <2> QED BY <2>1, <1>2, <1>3, <1>4, DoAllIs
<1> QED BY <1>6, <1>7

\* The edits of an erased line remove it.
LEMMA ErasedDone ==
  ASSUME NEW t \in Seq(Letters), NEW line \in Seq(Letters), NEW p \in Nat, Has(t, p, line)
  PROVE  Abstract!DoAll(t, Abstract!Erased(p, line)) = Removed(t, p, Len(line))
<1> DEFINE e == Abstract!Erased(p, line)
           v == [i \in 0 .. Len(line) |-> Removed(t, p, i)]
<1>0. Len(t) \in Nat /\ Len(line) \in Nat /\ DOMAIN line = 1 .. Len(line)
  BY LenProperties
<1>h. p + Len(line) <= Len(t) /\ \A i \in 1 .. Len(line) : t[p + i] = line[i]
  BY DEF Has
<1>1. e = [i \in 1 .. Len(line) |-> Abstract!EditOf("erase", p, line[i])]
  BY <1>0 DEF Abstract!Erased
<1>2. Len(e) = Len(line)
  BY <1>0, <1>1
<1>3. v[0] = t
  <2>1. v[0] = Removed(t, p, 0) /\ p \in 0 .. Len(t)
    BY <1>0, <1>h
  <2> QED BY <2>1, Nothing
<1>4. ASSUME NEW i \in 1 .. Len(line) PROVE v[i] = Abstract!Do(v[i - 1], e[i])
  <2> DEFINE u == Removed(t, p, i - 1)
  <2>1. i - 1 \in Nat /\ p + (i - 1) <= Len(t) /\ p + (i - 1) + 1 <= Len(t) /\ (i - 1) + 1 = i
    BY <1>0, <1>h
  <2>2. v[i - 1] = u /\ v[i] = Removed(t, p, i)
    BY <1>0
  <2>3. /\ u \in Seq(Letters) /\ Len(u) = Len(t) - (i - 1)
        /\ \A k \in 1 .. Len(t) - (i - 1) : u[k] = IF k <= p THEN t[k] ELSE t[k + (i - 1)]
    <3> DEFINE k == i - 1
    <3>1. t \in Seq(Letters) /\ p \in Nat /\ k \in Nat /\ p + k <= Len(t)
      BY <2>1
    <3> HIDE DEF k
    <3>2. /\ Removed(t, p, k) \in Seq(Letters) /\ Len(Removed(t, p, k)) = Len(t) - k
          /\ \A j \in 1 .. Len(t) - k : Removed(t, p, k)[j] = IF j <= p THEN t[j] ELSE t[j + k]
      BY ONLY <3>1, RemovedForm
    <3> QED BY <3>2 DEF k
  <2> HIDE DEF u, v
  <2>4. u[p + 1] = line[i]
    <3>1. p + 1 \in 1 .. Len(t) - (i - 1) /\ ~ (p + 1 <= p) /\ (p + 1) + (i - 1) = p + i
      BY <1>0, <2>1
    <3>2. u[p + 1] = t[p + i]
      BY <2>3, <3>1
    <3> QED BY <1>h, <3>2
  <2>5. e[i] = Abstract!EditOf("erase", p, u[p + 1])
    BY <1>1, <2>4
  <2>6. Abstract!Do(u, e[i]) = Removed(u, p, 1)
    <3>1. p \in 0 .. Len(u) - 1
      BY <1>0, <2>1, <2>3
    <3> HIDE DEF e
    <3> QED BY <2>3, <2>5, <3>1, DoErase
  <2>7. Removed(u, p, 1) = Removed(t, p, i)
    <3>1. Removed(Removed(t, p, i - 1), p, 1) = Removed(t, p, (i - 1) + 1)
      BY <2>1, RemovedTwice
    <3> QED BY <2>1, <3>1 DEF u
  <2> QED BY <2>2, <2>6, <2>7
<1>6. v[Len(e)] = Removed(t, p, Len(line))
  <2>1. v[Len(line)] = Removed(t, p, Len(line))
    BY <1>0
  <2> HIDE DEF e, v
  <2> QED BY <1>2, <2>1
<1>7. Abstract!DoAll(t, e) = v[Len(e)]
  <2>1. Len(e) \in Nat
    BY <1>0, <1>2
  <2> HIDE DEF e, v
  <2> QED BY <2>1, <1>2, <1>3, <1>4, DoAllIs
<1> QED BY <1>6, <1>7

\* What was typed is taken back from its end.
LEMMA TypedTakenBack ==
  ASSUME NEW t \in Seq(Letters), NEW line \in Seq(Letters), NEW p \in Nat, Has(t, p, line)
  PROVE  Abstract!DoAll(t, Abstract!TakenBack(Abstract!Typed(p, line))) = Removed(t, p, Len(line))
<1> DEFINE n == Len(line)
           f == Abstract!Typed(p, line)
           e == Abstract!TakenBack(f)
           v == [i \in 0 .. n |-> Removed(t, p + n - i, i)]
<1>0. Len(t) \in Nat /\ n \in Nat /\ DOMAIN line = 1 .. n
  BY LenProperties
<1>h. p + n <= Len(t) /\ \A i \in 1 .. n : t[p + i] = line[i]
  BY DEF Has
<1>1. f = [i \in 1 .. n |-> Abstract!EditOf("insert", p + i - 1, line[i])]
  BY <1>0 DEF Abstract!Typed
<1> HIDE DEF n, f
<1>2. Len(f) = n /\ DOMAIN f = 1 .. n
  BY <1>0, <1>1
<1>3. Len([i \in DOMAIN f |-> Abstract!Inverse1(f[i])]) = n
  BY <1>0, <1>2
<1>4. e = [i \in 1 .. n |-> Abstract!Inverse1(f[n - i + 1])]
  <2> DEFINE g == [i \in DOMAIN f |-> Abstract!Inverse1(f[i])]
  <2>1. e = [i \in 1 .. n |-> g[n - i + 1]]
    BY <1>3 DEF Abstract!TakenBack, Abstract!Reverse
  <2>2. \A i \in 1 .. n : g[n - i + 1] = Abstract!Inverse1(f[n - i + 1])
    BY <1>0, <1>2
  <2> HIDE DEF g, e
  <2> QED BY <2>1, <2>2
<1>5. Len(e) = n
  BY <1>0, <1>4
<1>6. ASSUME NEW i \in 1 .. n PROVE e[i] = Abstract!EditOf("erase", p + n - i, line[n - i + 1])
  <2>1. n - i + 1 \in 1 .. n /\ p + (n - i + 1) - 1 = p + n - i
    BY <1>0
  <2>2. f[n - i + 1] = Abstract!EditOf("insert", p + n - i, line[n - i + 1])
    BY <1>1, <2>1
  <2>3. e[i] = Abstract!Inverse1(f[n - i + 1])
    BY <1>4
  <2> QED BY <2>2, <2>3 DEF Abstract!Inverse1, Abstract!EditOf
<1> HIDE DEF e
<1>7. v[0] = t
  <2>1. v[0] = Removed(t, p + n, 0) /\ p + n \in 0 .. Len(t)
    BY <1>0, <1>h
  <2> QED BY <2>1, Nothing
<1>8. ASSUME NEW i \in 1 .. n PROVE v[i] = Abstract!Do(v[i - 1], e[i])
  <2> DEFINE q == p + n - i
             u == Removed(t, q + 1, i - 1)
  <2>1. /\ q \in Nat /\ i - 1 \in Nat /\ (q + 1) + (i - 1) <= Len(t) /\ p + n - (i - 1) = q + 1
        /\ q + 1 = p + (n - i + 1) /\ n - i + 1 \in 1 .. n /\ q + i <= Len(t)
    BY <1>0, <1>h
  <2>2. v[i - 1] = u /\ v[i] = Removed(t, q, i)
    BY <1>0, <2>1
  <2> HIDE DEF q
  <2>3. /\ u \in Seq(Letters) /\ Len(u) = Len(t) - (i - 1)
        /\ \A k \in 1 .. Len(t) - (i - 1) : u[k] = IF k <= q + 1 THEN t[k] ELSE t[k + (i - 1)]
    <3> DEFINE k == i - 1
               j == q + 1
    <3>1. t \in Seq(Letters) /\ j \in Nat /\ k \in Nat /\ j + k <= Len(t)
      BY <2>1
    <3> HIDE DEF k, j
    <3>2. /\ Removed(t, j, k) \in Seq(Letters) /\ Len(Removed(t, j, k)) = Len(t) - k
          /\ \A m \in 1 .. Len(t) - k : Removed(t, j, k)[m] = IF m <= j THEN t[m] ELSE t[m + k]
      BY ONLY <3>1, RemovedForm
    <3> QED BY <3>2 DEF k, j
  <2> HIDE DEF u, v
  <2>4. u[q + 1] = line[n - i + 1]
    <3>1. q + 1 \in 1 .. Len(t) - (i - 1)
      BY <1>0, <2>1
    <3>2. u[q + 1] = t[q + 1]
      BY <2>1, <2>3, <3>1
    <3> QED BY <1>h, <2>1, <3>2
  <2>5. e[i] = Abstract!EditOf("erase", q, u[q + 1])
    BY <1>6, <2>4 DEF q
  <2>6. Abstract!Do(u, e[i]) = Removed(u, q, 1)
    <3>1. q \in 0 .. Len(u) - 1
      BY <1>0, <2>1, <2>3
    <3> QED BY <2>3, <2>5, <3>1, DoErase
  <2>7. Removed(u, q, 1) = Removed(t, q, i)
    <3> DEFINE x == Removed(u, q, 1)
               y == Removed(t, q, i)
    <3>1. /\ x \in Seq(Letters) /\ Len(x) = Len(u) - 1
          /\ \A k \in 1 .. Len(u) - 1 : x[k] = IF k <= q THEN u[k] ELSE u[k + 1]
      <4> DEFINE k == 1
      <4>1. q \in Nat /\ k \in Nat /\ q + k <= Len(u) /\ u \in Seq(Letters)
        BY <1>0, <2>1, <2>3
      <4> HIDE DEF k
      <4>2. /\ Removed(u, q, k) \in Seq(Letters) /\ Len(Removed(u, q, k)) = Len(u) - k
            /\ \A j \in 1 .. Len(u) - k : Removed(u, q, k)[j] = IF j <= q THEN u[j] ELSE u[j + k]
        BY <4>1, RemovedForm
      <4> QED BY <4>2 DEF k
    <3>2. /\ y \in Seq(Letters) /\ Len(y) = Len(t) - i
          /\ \A k \in 1 .. Len(t) - i : y[k] = IF k <= q THEN t[k] ELSE t[k + i]
      <4>1. t \in Seq(Letters) /\ i \in Nat /\ q \in Nat /\ q + i <= Len(t)
        BY <1>0, <2>1
      <4> QED BY ONLY <4>1, RemovedForm DEF y
    <3> HIDE DEF x, y
    <3>3. Len(x) = Len(y)
      BY <1>0, <2>3, <3>1, <3>2
    <3>4. ASSUME NEW k \in 1 .. Len(x) PROVE x[k] = y[k]
      <4>1. /\ k \in 1 .. Len(u) - 1 /\ k \in 1 .. Len(t) - i /\ k \in 1 .. Len(t) - (i - 1) /\ k + 1 \in 1 .. Len(t) - (i - 1)
            /\ (~ (k <= q) => ~ (k + 1 <= q + 1)) /\ (k <= q => k <= q + 1) /\ (k + 1) + (i - 1) = k + i
        BY <1>0, <2>1, <2>3, <3>1, <3>2, <3>3
      <4> QED BY <4>1, <2>3, <3>1, <3>2
    <3>5. x = y
      BY <3>1, <3>2, <3>3, <3>4, SeqEqual
    <3> QED BY <3>5 DEF x, y
  <2> QED BY <2>2, <2>6, <2>7
<1>10. v[Len(e)] = Removed(t, p, n)
  <2>1. v[n] = Removed(t, p, n)
    <3>1. p + n - n = p /\ n \in 0 .. n
      BY <1>0
    <3> QED BY <3>1
  <2> HIDE DEF v
  <2> QED BY <1>5, <2>1
<1>11. Abstract!DoAll(t, e) = v[Len(e)]
  <2>1. Len(e) \in Nat
    BY <1>0, <1>5
  <2> HIDE DEF v
  <2> QED BY <2>1, <1>5, <1>7, <1>8, DoAllIs
<1> QED BY <1>10, <1>11 DEF e, f, n

\* A line put before another one that was put at the same position.
LEMMA InsertedBefore ==
  ASSUME NEW t \in Seq(Letters), NEW l \in Seq(Letters), NEW m \in Seq(Letters), NEW p \in 0 .. Len(t)
  PROVE  Inserted(Inserted(t, p, l), p, m) = Inserted(t, p, m \o l)
<1> DEFINE u == Inserted(t, p, l)
           x == Inserted(u, p, m)
           y == Inserted(t, p, m \o l)
<1>0. Len(t) \in Nat /\ Len(l) \in Nat /\ Len(m) \in Nat /\ p \in Nat
  BY LenProperties
<1>1. /\ u \in Seq(Letters) /\ Len(u) = Len(t) + Len(l)
      /\ \A i \in 1 .. Len(t) + Len(l) :
           u[i] = IF i <= p THEN t[i] ELSE IF i <= p + Len(l) THEN l[i - p] ELSE t[i - Len(l)]
  BY InsertedForm
<1>2. /\ m \o l \in Seq(Letters) /\ Len(m \o l) = Len(m) + Len(l)
      /\ \A i \in 1 .. Len(m) + Len(l) : (m \o l)[i] = IF i <= Len(m) THEN m[i] ELSE l[i - Len(m)]
  BY ConcatProperties
<1> HIDE DEF u
<1>3. /\ x \in Seq(Letters) /\ Len(x) = Len(u) + Len(m)
      /\ \A i \in 1 .. Len(u) + Len(m) :
           x[i] = IF i <= p THEN u[i] ELSE IF i <= p + Len(m) THEN m[i - p] ELSE u[i - Len(m)]
  <2>1. p \in 0 .. Len(u)
    BY <1>0, <1>1
  <2> QED BY <1>1, <2>1, InsertedForm
<1>4. /\ y \in Seq(Letters) /\ Len(y) = Len(t) + Len(m \o l)
      /\ \A i \in 1 .. Len(t) + Len(m \o l) :
           y[i] = IF i <= p THEN t[i] ELSE IF i <= p + Len(m \o l) THEN (m \o l)[i - p] ELSE t[i - Len(m \o l)]
  BY <1>2, InsertedForm
<1> HIDE DEF x, y
<1>5. Len(x) = Len(t) + Len(l) + Len(m) /\ Len(y) = Len(t) + Len(l) + Len(m)
  BY <1>0, <1>1, <1>2, <1>3, <1>4
<1>6. ASSUME NEW i \in 1 .. Len(t) + Len(l) + Len(m) PROVE x[i] = y[i]
  <2>0. i \in 1 .. Len(u) + Len(m) /\ i \in 1 .. Len(t) + Len(m \o l) /\ i \in Int
    BY <1>0, <1>1, <1>2
  <2>1. CASE i <= p
    <3>1. i \in 1 .. Len(t) + Len(l)
      BY <2>0, <2>1, <1>0
    <3>2. x[i] = u[i] /\ u[i] = t[i] /\ y[i] = t[i]
      BY <2>0, <2>1, <3>1, <1>1, <1>3, <1>4
    <3> QED BY <3>2
  <2>2. CASE p < i /\ i <= p + Len(m)
    <3>1. i - p \in 1 .. Len(m) + Len(l) /\ i - p <= Len(m) /\ i <= p + Len(m \o l) /\ ~ (i <= p)
      BY <2>0, <2>2, <1>0, <1>2
    <3>2. x[i] = m[i - p]
      BY <2>0, <2>2, <3>1, <1>3
    <3>3. (m \o l)[i - p] = m[i - p]
      BY <3>1, <1>2
    <3> QED BY <2>0, <3>1, <3>2, <3>3, <1>4
  <2>3. CASE p + Len(m) < i /\ i <= p + Len(m) + Len(l)
    <3>1. /\ ~ (i <= p) /\ ~ (i <= p + Len(m)) /\ i <= p + Len(m \o l) /\ i - p \in 1 .. Len(m) + Len(l)
          /\ ~ (i - p <= Len(m)) /\ i - p - Len(m) = i - Len(m) - p
          /\ i - Len(m) \in 1 .. Len(t) + Len(l) /\ ~ (i - Len(m) <= p) /\ i - Len(m) <= p + Len(l)
      BY <2>0, <2>3, <1>0, <1>2
    <3>2. x[i] = u[i - Len(m)]
      BY <2>0, <3>1, <1>3
    <3>3. u[i - Len(m)] = l[i - Len(m) - p]
      BY <3>1, <1>1
    <3>4. (m \o l)[i - p] = l[i - p - Len(m)]
      BY <3>1, <1>2
    <3>5. y[i] = (m \o l)[i - p]
      BY <2>0, <3>1, <1>4
    <3> QED BY <3>1, <3>2, <3>3, <3>4, <3>5
  <2>4. CASE p + Len(m) + Len(l) < i
    <3>1. /\ ~ (i <= p) /\ ~ (i <= p + Len(m)) /\ ~ (i <= p + Len(m \o l))
          /\ i - Len(m) \in 1 .. Len(t) + Len(l) /\ ~ (i - Len(m) <= p) /\ ~ (i - Len(m) <= p + Len(l))
          /\ i - Len(m) - Len(l) = i - Len(m \o l)
      BY <2>0, <2>4, <1>0, <1>2
    <3>2. x[i] = u[i - Len(m)]
      BY <2>0, <3>1, <1>3
    <3>3. u[i - Len(m)] = t[i - Len(m) - Len(l)]
      BY <3>1, <1>1
    <3> QED BY <2>0, <3>1, <3>2, <3>3, <1>4
  <2>5. i <= p \/ (p < i /\ i <= p + Len(m)) \/ (p + Len(m) < i /\ i <= p + Len(m) + Len(l)) \/ p + Len(m) + Len(l) < i
    BY <2>0, <1>0
  <2> QED BY <2>1, <2>2, <2>3, <2>4, <2>5
<1>7. x = y
  BY <1>3, <1>4, <1>5, <1>6, SeqEqual
<1> QED BY <1>7 DEF x, y, u

\* What was erased is put back from its end, always at the same position.
LEMMA ErasedTakenBack ==
  ASSUME NEW t \in Seq(Letters), NEW line \in Seq(Letters), NEW p \in 0 .. Len(t)
  PROVE  Abstract!DoAll(t, Abstract!TakenBack(Abstract!Erased(p, line))) = Inserted(t, p, line)
<1> DEFINE n == Len(line)
           f == Abstract!Erased(p, line)
           e == Abstract!TakenBack(f)
           v == [i \in 0 .. n |-> Inserted(t, p, SubSeq(line, n - i + 1, n))]
<1>0. Len(t) \in Nat /\ n \in Nat /\ DOMAIN line = 1 .. n /\ p \in Nat
  BY LenProperties
<1>1. f = [i \in 1 .. n |-> Abstract!EditOf("erase", p, line[i])]
  BY <1>0 DEF Abstract!Erased
<1>a. n = Len(line)
  OBVIOUS
<1> HIDE DEF n, f
<1>2. Len(f) = n /\ DOMAIN f = 1 .. n
  BY <1>0, <1>1
<1>3. Len([i \in DOMAIN f |-> Abstract!Inverse1(f[i])]) = n
  BY <1>0, <1>2
<1>4. e = [i \in 1 .. n |-> Abstract!Inverse1(f[n - i + 1])]
  <2> DEFINE g == [i \in DOMAIN f |-> Abstract!Inverse1(f[i])]
  <2>1. e = [i \in 1 .. n |-> g[n - i + 1]]
    BY <1>3 DEF Abstract!TakenBack, Abstract!Reverse
  <2>2. \A i \in 1 .. n : g[n - i + 1] = Abstract!Inverse1(f[n - i + 1])
    BY <1>0, <1>2
  <2> HIDE DEF g, e
  <2> QED BY <2>1, <2>2
<1>5. Len(e) = n
  BY <1>0, <1>4
<1>6. ASSUME NEW i \in 1 .. n PROVE e[i] = Abstract!EditOf("insert", p, line[n - i + 1])
  <2>1. n - i + 1 \in 1 .. n
    BY <1>0
  <2>2. f[n - i + 1] = Abstract!EditOf("erase", p, line[n - i + 1])
    BY <1>1, <2>1
  <2>3. e[i] = Abstract!Inverse1(f[n - i + 1])
    BY <1>4
  <2> QED BY <2>2, <2>3 DEF Abstract!Inverse1, Abstract!EditOf
<1> HIDE DEF e
<1>7. v[0] = t
  <2>1. v[0] = Inserted(t, p, SubSeq(line, n - 0 + 1, n))
    BY <1>0
  <2>2. SubSeq(line, n - 0 + 1, n) = <<>>
    BY <1>0, SubSeqEmpty
  <2> QED BY <2>1, <2>2, Nothing
<1>8. ASSUME NEW i \in 1 .. n PROVE v[i] = Abstract!Do(v[i - 1], e[i])
  <2> DEFINE q == n - i + 1
             l == SubSeq(line, q + 1, n)
             u == Inserted(t, p, l)
  <2>1. q \in 1 .. n /\ n - (i - 1) + 1 = q + 1 /\ q + 1 \in 1 .. n + 1 /\ n \in (q + 1) - 1 .. n
    BY <1>0
  <2>2. v[i - 1] = u /\ v[i] = Inserted(t, p, SubSeq(line, q, n))
    BY <1>0, <2>1
  <2>3. l \in Seq(Letters) /\ line[q] \in Letters /\ <<line[q]>> \in Seq(Letters)
    <3>1. l \in Seq(Letters)
      BY <2>1, <1>a, PartOf
    <3>2. line[q] \in Letters
      BY <2>1, <1>a, ElementOfSeq
    <3> QED BY <3>1, <3>2
  <2>4. <<line[q]>> \o l = SubSeq(line, q, n)
    <3>1. q \in 1 .. Len(line) /\ n \in q .. Len(line)
      BY <2>1, <1>0, <1>a
    <3> HIDE DEF q
    <3> QED BY <3>1, SubSeqRecursiveFirst
  <2>5. e[i] = Abstract!EditOf("insert", p, line[q])
    BY <1>6
  <2> HIDE DEF q, l, v
  <2>6. u \in Seq(Letters) /\ Len(u) = Len(t) + Len(l) /\ Len(l) \in Nat
    BY <2>3, InsertedForm, LenProperties
  <2> HIDE DEF u
  <2>7. Abstract!Do(u, e[i]) = Inserted(u, p, <<line[q]>>)
    <3>1. p \in 0 .. Len(u)
      BY <1>0, <2>6
    <3> QED BY <2>3, <2>5, <2>6, <3>1, DoInsert
  <2>8. Inserted(u, p, <<line[q]>>) = Inserted(t, p, <<line[q]>> \o l)
    BY <2>3, InsertedBefore DEF u
  <2> QED BY <2>2, <2>4, <2>7, <2>8
<1>10. v[Len(e)] = Inserted(t, p, line)
  <2>1. v[n] = Inserted(t, p, SubSeq(line, n - n + 1, n))
    BY <1>0
  <2>2. SubSeq(line, n - n + 1, n) = line
    <3>1. n - n + 1 = 1
      BY <1>0
    <3> QED BY <3>1, <1>a, SubSeqFull
  <2> HIDE DEF v
  <2> QED BY <1>5, <2>1, <2>2
<1>11. Abstract!DoAll(t, e) = v[Len(e)]
  <2>1. Len(e) \in Nat
    BY <1>0, <1>5
  <2> HIDE DEF v
  <2> QED BY <2>1, <1>5, <1>7, <1>8, DoAllIs
<1> QED BY <1>10, <1>11 DEF e, f

-----------------------------------------------------------------------------
(* The edits of records one after another.                                 *)

\* v joins the sequences of s from the first on.
Joins(v, s, E) ==
  /\ v \in [0 .. Len(s) -> Seq(E)]
  /\ v[0] = <<>>
  /\ \A i \in 1 .. Len(s) : v[i] = v[i - 1] \o s[i]

\* FlattenSeq gives the last of the sequences that grow by one member each.
LEMMA FlattenIs ==
  ASSUME NEW E, NEW s \in Seq(Seq(E)), NEW v, Joins(v, s, E)
  PROVE  FlattenSeq(s) = v[Len(s)]
<1>0. Len(s) \in Nat
  BY LenProperties
<1>1. CASE Len(s) = 0
  <2>1. s = <<>>
    BY <1>1, EmptySeq
  <2> QED BY <1>1, <2>1 DEF FlattenSeq, Joins
<1>2. CASE Len(s) # 0
  <2> DEFINE Rec(f) == f = [i \in 1 .. Len(s) |-> IF i = 1 THEN s[i] ELSE f[i - 1] \o s[i]]
             d == CHOOSE f : Rec(f)
             w == [i \in 1 .. Len(s) |-> v[i]]
  <2>1. ASSUME NEW i \in 1 .. Len(s) PROVE w[i] = IF i = 1 THEN s[i] ELSE w[i - 1] \o s[i]
    <3>1. CASE i = 1
      <4>1. v[1] = <<>> \o s[1] /\ s[1] \in Seq(E)
        <5>1. 1 \in 1 .. Len(s) /\ 1 - 1 = 0
          BY <3>1
        <5>2. s[1] \in Seq(E)
          BY <5>1, ElementOfSeq
        <5>3. v[1] = v[1 - 1] \o s[1] /\ v[0] = <<>>
          BY <5>1 DEF Joins
        <5> QED BY <5>1, <5>2, <5>3
      <4>2. v[1] = s[1]
        BY <4>1, ConcatEmptySeq
      <4> QED BY <3>1, <4>2
    <3>2. CASE i # 1
      <4>1. i - 1 \in 1 .. Len(s)
        BY <3>2
      <4> QED BY <3>2, <4>1 DEF Joins
    <3> QED BY <3>1, <3>2
  <2>2. Rec(w)
    BY <2>1
  <2>3. Rec(d)
    <3> HIDE DEF Rec, w
    <3> QED BY <2>2
  <2>4. FlattenSeq(s) = d[Len(s)]
    BY <1>2 DEF FlattenSeq
  <2> DEFINE T == {i \in Nat : i \in 1 .. Len(s) => d[i] = w[i]}
  <2>5. \A i \in 0 .. Len(s) : i \in T
    <3> HIDE DEF d, w
    <3>1. 0 \in T
      OBVIOUS
    <3>2. \A i \in 0 .. Len(s) - 1 : i \in T => i + 1 \in T
      <4> SUFFICES ASSUME NEW i \in 0 .. Len(s) - 1, i \in T PROVE i + 1 \in T
        OBVIOUS
      <4>1. i + 1 \in 1 .. Len(s) /\ (i + 1) - 1 = i /\ (i + 1 # 1 => i \in 1 .. Len(s))
        BY <1>0
      <4>2. d[i + 1] = IF i + 1 = 1 THEN s[i + 1] ELSE d[i] \o s[i + 1]
        BY <2>3, <4>1
      <4>3. w[i + 1] = IF i + 1 = 1 THEN s[i + 1] ELSE w[i] \o s[i + 1]
        BY <2>1, <4>1
      <4>4. i + 1 # 1 => d[i] = w[i]
        BY <4>1
      <4> QED BY <4>2, <4>3, <4>4
    <3> HIDE DEF T
    <3> QED BY <1>0, <3>1, <3>2, UpTo
  <2>6. d[Len(s)] = w[Len(s)]
    <3>1. Len(s) \in T /\ Len(s) \in 1 .. Len(s)
      <4> HIDE DEF T
      <4> QED BY <1>0, <1>2, <2>5
    <3> HIDE DEF d, w
    <3> QED BY <3>1
  <2>7. w[Len(s)] = v[Len(s)]
    BY <1>0, <1>2
  <2> QED BY <2>4, <2>6, <2>7
<1> QED BY <1>1, <1>2

\* There are such sequences for every sequence of sequences.
LEMMA JoinsExist ==
  ASSUME NEW E, NEW s \in Seq(Seq(E))
  PROVE  \E v : Joins(v, s, E)
<1>0. Len(s) \in Nat
  BY LenProperties
<1> DEFINE P(v, m) == /\ v \in [0 .. m -> Seq(E)] /\ v[0] = <<>>
                      /\ \A i \in 1 .. m : v[i] = v[i - 1] \o s[i]
           T == {m \in Nat : \E v : P(v, m)}
<1>1. 0 \in T
  <2>1. P([i \in 0 .. 0 |-> <<>>], 0)
    <3>1. <<>> \in Seq(E)
      BY EmptySeq
    <3> QED BY <3>1
  <2> QED BY <2>1
<1>2. \A m \in 0 .. Len(s) - 1 : m \in T => m + 1 \in T
  <2> SUFFICES ASSUME NEW m \in 0 .. Len(s) - 1, m \in T PROVE m + 1 \in T
    OBVIOUS
  <2>1. PICK v : P(v, m)
    OBVIOUS
  <2> DEFINE w == [i \in 0 .. m + 1 |-> IF i <= m THEN v[i] ELSE v[m] \o s[m + 1]]
  <2>2. v[m] \o s[m + 1] \in Seq(E)
    <3>1. v[m] \in Seq(E)
      BY <2>1, <1>0
    <3>2. m + 1 \in 1 .. Len(s)
      BY <1>0
    <3>3. s[m + 1] \in Seq(E)
      BY <3>2, ElementOfSeq
    <3> QED BY <3>1, <3>3, ConcatProperties
  <2>3. w \in [0 .. m + 1 -> Seq(E)] /\ w[0] = <<>>
    BY <1>0, <2>1, <2>2
  <2>4. ASSUME NEW i \in 1 .. m + 1 PROVE w[i] = w[i - 1] \o s[i]
    <3>1. CASE i = m + 1
      <4>1. i - 1 = m /\ i \in 0 .. m + 1 /\ m \in 0 .. m + 1 /\ ~ (i <= m) /\ m <= m
        BY <3>1, <1>0
      <4>2. w[i] = v[m] \o s[m + 1] /\ w[m] = v[m]
        BY <4>1
      <4> HIDE DEF w
      <4> QED BY <3>1, <4>1, <4>2
    <3>2. CASE i # m + 1
      <4>1. i \in 1 .. m /\ i - 1 \in 0 .. m /\ i <= m /\ i - 1 <= m /\ i \in 0 .. m + 1 /\ i - 1 \in 0 .. m + 1
        BY <3>2, <1>0
      <4>2. w[i] = v[i] /\ w[i - 1] = v[i - 1]
        BY <4>1
      <4>3. v[i] = v[i - 1] \o s[i]
        BY <2>1, <4>1
      <4> QED BY <4>2, <4>3
    <3> QED BY <3>1, <3>2
  <2>5. P(w, m + 1)
    <3> HIDE DEF w
    <3> QED BY <2>3, <2>4
  <2> HIDE DEF P, w
  <2> QED BY <2>5
<1>3. \A m \in 0 .. Len(s) : m \in T
  <2> HIDE DEF T
  <2> QED BY <1>0, <1>1, <1>2, UpTo
<1>4. PICK v : P(v, Len(s))
  <2>1. Len(s) \in T
    <3> HIDE DEF T
    <3> QED BY <1>0, <1>3
  <2> QED BY <2>1
<1> QED BY <1>4 DEF Joins

\* The members of two sequences, one after the other.
LEMMA FlattenConcat ==
  ASSUME NEW E, NEW a \in Seq(Seq(E)), NEW b \in Seq(Seq(E))
  PROVE  /\ FlattenSeq(a \o b) = FlattenSeq(a) \o FlattenSeq(b)
         /\ FlattenSeq(a) \in Seq(E)
<1>0. Len(a) \in Nat /\ Len(b) \in Nat
  BY LenProperties
<1>1. PICK v : Joins(v, a, E)
  BY JoinsExist
<1>2. PICK u : Joins(u, b, E)
  BY JoinsExist
<1>3. FlattenSeq(a) = v[Len(a)] /\ FlattenSeq(b) = u[Len(b)]
  BY <1>1, <1>2, FlattenIs
<1>v. v \in [0 .. Len(a) -> Seq(E)] /\ v[0] = <<>> /\ \A i \in 1 .. Len(a) : v[i] = v[i - 1] \o a[i]
  BY <1>1 DEF Joins
<1>u. u \in [0 .. Len(b) -> Seq(E)] /\ u[0] = <<>> /\ \A i \in 1 .. Len(b) : u[i] = u[i - 1] \o b[i]
  BY <1>2 DEF Joins
<1> DEFINE s == a \o b
           w == [i \in 0 .. Len(s) |-> IF i <= Len(a) THEN v[i] ELSE v[Len(a)] \o u[i - Len(a)]]
<1>4. /\ s \in Seq(Seq(E)) /\ Len(s) = Len(a) + Len(b)
      /\ \A i \in 1 .. Len(a) + Len(b) : s[i] = IF i <= Len(a) THEN a[i] ELSE b[i - Len(a)]
  BY ConcatProperties
<1> HIDE DEF s
<1>5. v[Len(a)] \in Seq(E)
  <2>1. Len(a) \in 0 .. Len(a)
    BY <1>0
  <2> QED BY <2>1, <1>v
<1>6. w \in [0 .. Len(s) -> Seq(E)]
  <2> SUFFICES ASSUME NEW i \in 0 .. Len(s) PROVE w[i] \in Seq(E)
    OBVIOUS
  <2>1. CASE i <= Len(a)
    <3>1. i \in 0 .. Len(a) /\ w[i] = v[i]
      BY <2>1, <1>0
    <3> QED BY <3>1, <1>v
  <2>2. CASE ~ (i <= Len(a))
    <3>1. i - Len(a) \in 0 .. Len(b)
      BY <2>2, <1>0, <1>4
    <3>2. u[i - Len(a)] \in Seq(E)
      BY <3>1, <1>u
    <3> QED BY <2>2, <3>2, <1>5, ConcatProperties
  <2> QED BY <2>1, <2>2
<1>7. w[0] = <<>>
  BY <1>0, <1>4, <1>v
<1>8. ASSUME NEW i \in 1 .. Len(s) PROVE w[i] = w[i - 1] \o s[i]
  <2>1. i \in 0 .. Len(s) /\ i - 1 \in 0 .. Len(s) /\ i \in 1 .. Len(a) + Len(b)
    BY <1>0, <1>4
  <2>2. CASE i <= Len(a)
    <3>1. i \in 1 .. Len(a) /\ i - 1 <= Len(a)
      BY <2>1, <2>2, <1>0
    <3>2. w[i] = v[i] /\ w[i - 1] = v[i - 1] /\ s[i] = a[i]
      BY <2>1, <2>2, <3>1, <1>4
    <3> QED BY <3>1, <3>2, <1>v
  <2>3. CASE i = Len(a) + 1
    <3>1. ~ (i <= Len(a)) /\ i - Len(a) = 1 /\ i - 1 = Len(a) /\ i - 1 <= Len(a) /\ 1 \in 1 .. Len(b)
      BY <2>1, <2>3, <1>0
    <3>2. w[i] = v[Len(a)] \o u[1] /\ w[i - 1] = v[Len(a)] /\ s[i] = b[1]
      BY <2>1, <3>1, <1>4
    <3>3. b[1] \in Seq(E)
      BY <3>1, ElementOfSeq
    <3>4. u[1] = b[1]
      <4> DEFINE j == 1
      <4>0. j \in 1 .. Len(b) /\ j - 1 = 0
        BY <3>1
      <4> HIDE DEF j
      <4>1. u[j] = u[j - 1] \o b[j]
        BY <4>0, <1>u
      <4>2. u[1] = <<>> \o b[1]
        BY <4>0, <4>1, <1>u DEF j
      <4> QED BY <3>3, <4>2, ConcatEmptySeq
    <3> QED BY <3>2, <3>4
  <2>4. CASE i > Len(a) + 1
    <3> DEFINE k == i - Len(a)
    <3>1. /\ ~ (i <= Len(a)) /\ ~ (i - 1 <= Len(a)) /\ k \in 1 .. Len(b) /\ (i - 1) - Len(a) = k - 1
          /\ k - 1 \in 0 .. Len(b)
      BY <2>1, <2>4, <1>0
    <3>2. w[i] = v[Len(a)] \o u[k] /\ w[i - 1] = v[Len(a)] \o u[k - 1] /\ s[i] = b[k]
      BY <2>1, <3>1, <1>4
    <3> HIDE DEF k
    <3>3. u[k] = u[k - 1] \o b[k] /\ u[k - 1] \in Seq(E) /\ b[k] \in Seq(E)
      BY <3>1, <1>u, ElementOfSeq
    <3>4. (v[Len(a)] \o u[k - 1]) \o b[k] = v[Len(a)] \o (u[k - 1] \o b[k])
      <4> DEFINE x == v[Len(a)]
                 y == u[k - 1]
                 z == b[k]
      <4>1. x \in Seq(E) /\ y \in Seq(E) /\ z \in Seq(E)
        BY <3>3, <1>5
      <4> HIDE DEF x, y, z
      <4>2. (x \o y) \o z = x \o (y \o z)
        BY <4>1, ConcatAssociative
      <4> QED BY <4>2 DEF x, y, z
    <3> QED BY <3>2, <3>3, <3>4
  <2>5. i <= Len(a) \/ i = Len(a) + 1 \/ i > Len(a) + 1
    BY <2>1, <1>0
  <2> QED BY <2>2, <2>3, <2>4, <2>5
<1>9. FlattenSeq(s) = w[Len(s)]
  <2>1. Joins(w, s, E)
    <3> HIDE DEF w
    <3> QED BY <1>6, <1>7, <1>8 DEF Joins
  <2> HIDE DEF w
  <2> QED BY <1>4, <2>1, FlattenIs
<1>10. w[Len(s)] = v[Len(a)] \o u[Len(b)]
  <2>1. CASE Len(b) = 0
    <3>1. w[Len(s)] = v[Len(a)] /\ u[Len(b)] = <<>>
      BY <2>1, <1>0, <1>4, <1>u
    <3> QED BY <3>1, <1>5, ConcatEmptySeq
  <2>2. CASE Len(b) # 0
    <3>1. ~ (Len(s) <= Len(a)) /\ Len(s) - Len(a) = Len(b) /\ Len(s) \in 0 .. Len(s)
      BY <2>2, <1>0, <1>4
    <3> QED BY <3>1
  <2> QED BY <2>1, <2>2
<1>11. FlattenSeq(a \o b) = FlattenSeq(a) \o FlattenSeq(b)
  BY <1>3, <1>9, <1>10 DEF s
<1> QED BY <1>3, <1>5, <1>11

Edit == [op : {"insert", "erase"}, at : Nat, ch : Letters]

\* The edits of a line typed at a position or erased from there on.
LineEdits(op, pos, line) == IF op = "insert" THEN Abstract!Typed(pos, line) ELSE Abstract!Erased(pos, line)

\* The edits of a line are one for each of its characters.
LEMMA LineEditsForm ==
  ASSUME NEW op \in {"insert", "erase"}, NEW pos \in Nat, NEW line \in Seq(Letters)
  PROVE  /\ LineEdits(op, pos, line) \in Seq(Edit)
         /\ Len(LineEdits(op, pos, line)) = Len(line)
         /\ \A i \in 1 .. Len(line) :
              LineEdits(op, pos, line)[i] =
                [op |-> op, at |-> IF op = "insert" THEN pos + i - 1 ELSE pos, ch |-> line[i]]
<1> DEFINE g == [i \in 1 .. Len(line) |-> [op |-> op, at |-> IF op = "insert" THEN pos + i - 1 ELSE pos, ch |-> line[i]]]
<1>0. Len(line) \in Nat /\ DOMAIN line = 1 .. Len(line)
  BY LenProperties
<1>1. LineEdits(op, pos, line) = g
  BY <1>0 DEF LineEdits, Abstract!Typed, Abstract!Erased, Abstract!EditOf
<1>2. \A i \in 1 .. Len(line) : g[i] \in Edit
  <2> SUFFICES ASSUME NEW i \in 1 .. Len(line)
               PROVE  [op |-> op, at |-> IF op = "insert" THEN pos + i - 1 ELSE pos, ch |-> line[i]] \in Edit
    OBVIOUS
  <2>1. line[i] \in Letters
    BY ElementOfSeq
  <2> QED BY <1>0, <2>1 DEF Edit
<1>3. g \in [1 .. Len(line) -> Edit]
  BY <1>2
<1>4. g \in Seq(Edit) /\ Len(g) = Len(line)
  BY <1>0, <1>3
<1> QED BY <1>1, <1>4

\* The edits of a line in two parts are those of the parts.
LEMMA LineEditsSplit ==
  ASSUME NEW op \in {"insert", "erase"}, NEW pos \in Nat, NEW l \in Seq(Letters), NEW m \in Seq(Letters)
  PROVE  /\ LineEdits(op, pos, l \o m) = LineEdits(op, pos, l) \o LineEdits(op, RestAt(op, pos, Len(l)), m)
         /\ RestAt(op, pos, Len(l)) \in Nat
<1> DEFINE q == RestAt(op, pos, Len(l))
           x == LineEdits(op, pos, l \o m)
           a == LineEdits(op, pos, l)
           b == LineEdits(op, q, m)
<1>0. Len(l) \in Nat /\ Len(m) \in Nat
  BY LenProperties
<1>1. q \in Nat /\ q = IF op = "insert" THEN pos + Len(l) ELSE pos
  BY <1>0 DEF RestAt
<1>2. /\ l \o m \in Seq(Letters) /\ Len(l \o m) = Len(l) + Len(m)
      /\ \A i \in 1 .. Len(l) + Len(m) : (l \o m)[i] = IF i <= Len(l) THEN l[i] ELSE m[i - Len(l)]
  BY ConcatProperties
<1> HIDE DEF q
<1>3. /\ x \in Seq(Edit) /\ Len(x) = Len(l \o m)
      /\ \A i \in 1 .. Len(l \o m) :
           x[i] = [op |-> op, at |-> IF op = "insert" THEN pos + i - 1 ELSE pos, ch |-> (l \o m)[i]]
  BY <1>2, LineEditsForm
<1>4. /\ a \in Seq(Edit) /\ Len(a) = Len(l)
      /\ \A i \in 1 .. Len(l) : a[i] = [op |-> op, at |-> IF op = "insert" THEN pos + i - 1 ELSE pos, ch |-> l[i]]
  BY LineEditsForm
<1>5. /\ b \in Seq(Edit) /\ Len(b) = Len(m)
      /\ \A i \in 1 .. Len(m) : b[i] = [op |-> op, at |-> IF op = "insert" THEN q + i - 1 ELSE q, ch |-> m[i]]
  BY <1>1, LineEditsForm
<1> HIDE DEF x, a, b
<1>6. /\ a \o b \in Seq(Edit) /\ Len(a \o b) = Len(a) + Len(b)
      /\ \A i \in 1 .. Len(a) + Len(b) : (a \o b)[i] = IF i <= Len(a) THEN a[i] ELSE b[i - Len(a)]
  <2>1. a \in Seq(Edit) /\ b \in Seq(Edit)
    BY <1>4, <1>5
  <2> QED BY <2>1, ConcatProperties
<1>7. ASSUME NEW i \in 1 .. Len(x) PROVE x[i] = (a \o b)[i]
  <2>0. i \in 1 .. Len(l \o m) /\ i \in 1 .. Len(l) + Len(m) /\ i \in 1 .. Len(a) + Len(b)
    BY <1>2, <1>3, <1>4, <1>5
  <2>1. CASE i <= Len(l)
    <3>1. i \in 1 .. Len(l)
      BY <2>1, <1>0
    <3>2. (a \o b)[i] = a[i] /\ (l \o m)[i] = l[i]
      BY <2>0, <2>1, <1>2, <1>4, <1>6
    <3> QED BY <2>0, <3>1, <3>2, <1>3, <1>4
  <2>2. CASE ~ (i <= Len(l))
    <3>1. i - Len(l) \in 1 .. Len(m) /\ (op = "insert" => q + (i - Len(l)) - 1 = pos + i - 1) /\ (op # "insert" => q = pos)
      BY <2>0, <2>2, <1>0, <1>1
    <3>2. (a \o b)[i] = b[i - Len(l)] /\ (l \o m)[i] = m[i - Len(l)]
      BY <2>0, <2>2, <1>2, <1>4, <1>6
    <3>3. b[i - Len(l)] = [op |-> op, at |-> IF op = "insert" THEN q + (i - Len(l)) - 1 ELSE q, ch |-> m[i - Len(l)]]
      BY <3>1, <1>5
    <3>4. x[i] = [op |-> op, at |-> IF op = "insert" THEN pos + i - 1 ELSE pos, ch |-> m[i - Len(l)]]
      BY <2>0, <3>2, <1>3
    <3> QED BY <3>1, <3>2, <3>3, <3>4
  <2> QED BY <2>1, <2>2
<1>8. x = a \o b
  <2>1. Len(x) = Len(a \o b)
    BY <1>2, <1>3, <1>4, <1>5, <1>6
  <2> QED BY <1>3, <1>6, <1>7, <2>1, SeqEqual
<1> QED BY <1>1, <1>8 DEF x, a, b, q

LEMMA EditsOfRecordIs ==
  ASSUME NEW r \in AnyRecord
  PROVE  /\ EditsOfRecord(r) = LineEdits(r.op, r.pos, r.line)
         /\ EditsOfRecord(r) \in Seq(Edit)
<1>1. r.op \in {"insert", "erase"} /\ r.pos \in Nat /\ r.line \in Seq(Letters)
  BY DEF AnyRecord
<1>2. EditsOfRecord(r) = LineEdits(r.op, r.pos, r.line)
  BY DEF EditsOfRecord, LineEdits, Abstract!Typed, Abstract!Erased, Abstract!EditOf,
         Lined!Typed, Lined!Erased, Lined!EditOf
<1> QED BY <1>1, <1>2, LineEditsForm

\* The edits of records one after the other.
LEMMA EditsOfConcat ==
  ASSUME NEW a \in Seq(AnyRecord), NEW b \in Seq(AnyRecord)
  PROVE  /\ EditsOf(a \o b) = EditsOf(a) \o EditsOf(b)
         /\ EditsOf(a) \in Seq(Edit)
<1> DEFINE f == [i \in DOMAIN a |-> EditsOfRecord(a[i])]
           g == [i \in DOMAIN b |-> EditsOfRecord(b[i])]
           h == [i \in DOMAIN (a \o b) |-> EditsOfRecord((a \o b)[i])]
<1>0. Len(a) \in Nat /\ DOMAIN a = 1 .. Len(a) /\ Len(b) \in Nat /\ DOMAIN b = 1 .. Len(b)
  BY LenProperties
<1>1. /\ a \o b \in Seq(AnyRecord) /\ Len(a \o b) = Len(a) + Len(b)
      /\ \A i \in 1 .. Len(a) + Len(b) : (a \o b)[i] = IF i <= Len(a) THEN a[i] ELSE b[i - Len(a)]
  BY ConcatProperties
<1>2. DOMAIN (a \o b) = 1 .. Len(a) + Len(b)
  BY <1>1, LenProperties
<1>3. f \in Seq(Seq(Edit)) /\ Len(f) = Len(a)
  <2>1. \A i \in 1 .. Len(a) : EditsOfRecord(a[i]) \in Seq(Edit)
    BY <1>0, ElementOfSeq, EditsOfRecordIs
  <2>2. f \in [1 .. Len(a) -> Seq(Edit)]
    BY <1>0, <2>1
  <2> HIDE DEF f
  <2> QED BY <1>0, <2>2
<1>4. g \in Seq(Seq(Edit)) /\ Len(g) = Len(b)
  <2>1. \A i \in 1 .. Len(b) : EditsOfRecord(b[i]) \in Seq(Edit)
    BY <1>0, ElementOfSeq, EditsOfRecordIs
  <2>2. g \in [1 .. Len(b) -> Seq(Edit)]
    BY <1>0, <2>1
  <2> HIDE DEF g
  <2> QED BY <1>0, <2>2
<1>5. /\ f \o g \in Seq(Seq(Edit)) /\ Len(f \o g) = Len(f) + Len(g)
      /\ \A i \in 1 .. Len(f) + Len(g) : (f \o g)[i] = IF i <= Len(f) THEN f[i] ELSE g[i - Len(f)]
  <2> HIDE DEF f, g
  <2> QED BY <1>3, <1>4, ConcatProperties
<1>6. ASSUME NEW i \in 1 .. Len(a) + Len(b) PROVE (f \o g)[i] = EditsOfRecord((a \o b)[i])
  <2>1. CASE i <= Len(a)
    <3>1. i \in 1 .. Len(a)
      BY <2>1, <1>0
    <3>2. f[i] = EditsOfRecord(a[i])
      BY <3>1, <1>0
    <3> HIDE DEF f, g
    <3> QED BY <2>1, <3>2, <1>1, <1>3, <1>4, <1>5
  <2>2. CASE ~ (i <= Len(a))
    <3>1. i - Len(a) \in 1 .. Len(b)
      BY <2>2, <1>0
    <3>2. g[i - Len(a)] = EditsOfRecord(b[i - Len(a)])
      BY <3>1, <1>0
    <3> HIDE DEF f, g
    <3> QED BY <2>2, <3>2, <1>1, <1>3, <1>4, <1>5
  <2> QED BY <2>1, <2>2
<1>7. f \o g = h
  <2> HIDE DEF f, g
  <2>1. DOMAIN (f \o g) = 1 .. Len(a) + Len(b)
    BY <1>3, <1>4, <1>5, LenProperties
  <2>2. f \o g = [i \in 1 .. Len(a) + Len(b) |-> (f \o g)[i]]
    BY <2>1, <1>5, <1>3, <1>4, LenProperties
  <2> QED BY <2>2, <1>2, <1>6
<1>8. FlattenSeq(f \o g) = FlattenSeq(f) \o FlattenSeq(g) /\ FlattenSeq(f) \in Seq(Edit)
  <2> HIDE DEF f, g
  <2> QED BY <1>3, <1>4, FlattenConcat
<1>9. EditsOf(a) = FlattenSeq(f) /\ EditsOf(b) = FlattenSeq(g) /\ EditsOf(a \o b) = FlattenSeq(h)
  BY DEF EditsOf
<1> QED BY <1>7, <1>8, <1>9

LEMMA EditsOfEmpty == EditsOf(<<>>) = <<>>
<1> DEFINE f == [i \in DOMAIN <<>> |-> EditsOfRecord(<<>>[i])]
<1>1. f = <<>>
  OBVIOUS
<1>2. EditsOf(<<>>) = FlattenSeq(f)
  BY DEF EditsOf
<1>3. FlattenSeq(<<>>) = <<>>
  BY EmptySeq DEF FlattenSeq
<1> HIDE DEF f
<1> QED BY <1>1, <1>2, <1>3

LEMMA EditsOfOne ==
  ASSUME NEW r \in AnyRecord
  PROVE  EditsOf(<<r>>) = EditsOfRecord(r)
<1> DEFINE e == EditsOfRecord(r)
           f == [i \in DOMAIN <<r>> |-> EditsOfRecord(<<r>>[i])]
           v == [i \in 0 .. 1 |-> IF i = 0 THEN <<>> ELSE e]
<1>0. e \in Seq(Edit)
  BY EditsOfRecordIs
<1>1. f = <<e>>
  OBVIOUS
<1>2. EditsOf(<<r>>) = FlattenSeq(f)
  BY DEF EditsOf
<1> HIDE DEF e, f
<1> DEFINE s == <<e>>
<1>3. s \in Seq(Seq(Edit)) /\ Len(s) = 1 /\ s[1] = e
  BY <1>0
<1> HIDE DEF s
<1>4. Joins(v, s, Edit)
  <2>1. <<>> \in Seq(Edit)
    BY EmptySeq
  <2>2. v \in [0 .. 1 -> Seq(Edit)] /\ v[0] = <<>> /\ v[1] = e
    BY <2>1, <1>0
  <2>3. e = <<>> \o e
    BY <1>0, ConcatEmptySeq
  <2> HIDE DEF v
  <2>4. \A i \in 1 .. 1 : v[i] = v[i - 1] \o s[i]
    <3> SUFFICES ASSUME NEW i \in 1 .. 1 PROVE v[i] = v[i - 1] \o s[i]
      OBVIOUS
    <3>1. i = 1 /\ i - 1 = 0
      OBVIOUS
    <3> QED BY <3>1, <2>2, <2>3, <1>3
  <2> QED BY <2>2, <2>4, <1>3 DEF Joins
<1>5. FlattenSeq(s) = v[Len(s)]
  <2> HIDE DEF v
  <2> QED BY <1>3, <1>4, FlattenIs
<1> QED BY <1>1, <1>2, <1>3, <1>5 DEF s, e

\* A new record adds its edits.
LEMMA EditsOfAppend ==
  ASSUME NEW b \in Seq(AnyRecord), NEW r \in AnyRecord
  PROVE  EditsOf(Append(b, r)) = EditsOf(b) \o EditsOfRecord(r)
<1>1. Append(b, r) = b \o <<r>>
  BY AppendIsConcat
<1>2. <<r>> \in Seq(AnyRecord)
  OBVIOUS
<1>3. EditsOf(b \o <<r>>) = EditsOf(b) \o EditsOf(<<r>>)
  BY <1>2, EditsOfConcat
<1> QED BY <1>1, <1>3, EditsOfOne

\* The edits do not depend on whether a record is closed.
LEMMA EditsOfSame ==
  ASSUME NEW a \in Seq(AnyRecord), NEW b \in Seq(AnyRecord), Len(a) = Len(b),
         \A i \in 1 .. Len(a) : a[i].op = b[i].op /\ a[i].pos = b[i].pos /\ a[i].line = b[i].line
  PROVE  EditsOf(a) = EditsOf(b)
<1>0. DOMAIN a = 1 .. Len(a) /\ DOMAIN b = 1 .. Len(a)
  BY LenProperties
<1>1. ASSUME NEW i \in 1 .. Len(a) PROVE EditsOfRecord(a[i]) = EditsOfRecord(b[i])
  BY <1>1 DEF EditsOfRecord
<1>2. [i \in DOMAIN a |-> EditsOfRecord(a[i])] = [i \in DOMAIN b |-> EditsOfRecord(b[i])]
  BY <1>0, <1>1
<1> QED BY <1>2 DEF EditsOf

\* A buffer whose last record is replaced.
LEMMA LastReplaced ==
  ASSUME NEW b \in Seq(AnyRecord), NEW r \in AnyRecord, Len(b) # 0
  PROVE  /\ [b EXCEPT ![Len(b)] = r] \in Seq(AnyRecord)
         /\ Len([b EXCEPT ![Len(b)] = r]) = Len(b)
         /\ \A i \in 1 .. Len(b) : [b EXCEPT ![Len(b)] = r][i] = IF i = Len(b) THEN r ELSE b[i]
         /\ [b EXCEPT ![Len(b)] = r] = Append(SubSeq(b, 1, Len(b) - 1), r)
         /\ b = Append(SubSeq(b, 1, Len(b) - 1), b[Len(b)])
         /\ SubSeq(b, 1, Len(b) - 1) \in Seq(AnyRecord)
<1> DEFINE n == Len(b)
           a == [b EXCEPT ![Len(b)] = r]
           c == SubSeq(b, 1, n - 1)
<1>0. n \in Nat /\ n \in 1 .. n /\ n - 1 \in 0 .. n
  BY LenProperties
<1>1. a \in Seq(AnyRecord) /\ Len(a) = n /\ \A i \in 1 .. n : a[i] = IF i = n THEN r ELSE b[i]
  BY <1>0, ExceptSeq
<1>2. c \in Seq(AnyRecord) /\ Len(c) = n - 1 /\ \A i \in 1 .. n - 1 : c[i] = b[i]
  BY <1>0, UsedPrefix
<1>3. b[n] \in AnyRecord
  BY <1>0, ElementOfSeq
<1> HIDE DEF c, a
<1>4. /\ Append(c, r) \in Seq(AnyRecord) /\ Len(Append(c, r)) = Len(c) + 1
      /\ \A i \in 1 .. Len(c) : Append(c, r)[i] = c[i]
      /\ Append(c, r)[Len(c) + 1] = r
  BY <1>2, AppendProperties
<1>5. /\ Append(c, b[n]) \in Seq(AnyRecord) /\ Len(Append(c, b[n])) = Len(c) + 1
      /\ \A i \in 1 .. Len(c) : Append(c, b[n])[i] = c[i]
      /\ Append(c, b[n])[Len(c) + 1] = b[n]
  BY <1>2, <1>3, AppendProperties
<1>6. \A i \in 1 .. n : i = n \/ i \in 1 .. n - 1
  BY <1>0
<1>7. a = Append(c, r)
  <2>1. \A i \in 1 .. Len(a) : a[i] = Append(c, r)[i]
    BY <1>0, <1>1, <1>2, <1>4, <1>6
  <2>2. Len(a) = Len(Append(c, r))
    BY <1>0, <1>1, <1>2, <1>4
  <2> QED BY <1>1, <1>4, <2>1, <2>2, SeqEqual
<1>8. b = Append(c, b[n])
  <2>1. \A i \in 1 .. Len(b) : b[i] = Append(c, b[n])[i]
    BY <1>0, <1>2, <1>5, <1>6
  <2>2. Len(b) = Len(Append(c, b[n]))
    BY <1>0, <1>2, <1>5
  <2> QED BY <1>5, <2>1, <2>2, SeqEqual
<1> QED BY <1>1, <1>2, <1>7, <1>8 DEF a, c

-----------------------------------------------------------------------------
(* The invariant.                                                          *)

\* A line that can be inserted into a text, or stands in it to be erased.
Fits(t, op, pos, line) ==
  /\ pos \in 0 .. Len(t)
  /\ op = "insert" => Len(t) + Len(line) <= MaxText
  /\ op # "insert" => Has(t, pos, line)

Applied(t, op, pos, line) == IF op = "insert" THEN Inserted(t, pos, line) ELSE Removed(t, pos, Len(line))

\* The texts between the records of a buffer.
Versions(b, v) ==
  /\ v \in [0 .. Len(b) -> Lines]
  /\ \A i \in 1 .. Len(b) : /\ Fits(v[i - 1], b[i].op, b[i].pos, b[i].line)
                            /\ v[i] = Applied(v[i - 1], b[i].op, b[i].pos, b[i].line)

InUse(h) == h.buffers[h.active]

\* The records of the previous buffer lead to t, the text at the start of the one in use.
Starts(h, t) ==
  h.previous # 0 => \E u : Versions(h.buffers[h.previous], u) /\ u[Len(h.buffers[h.previous])] = t

\* The records of the previous buffer and of the one in use lead to t.
Leads(h, t) == \E v : Versions(InUse(h), v) /\ v[h.offset] = t /\ Starts(h, v[0])

Writers == [op : {"none", "insert", "erase"}, pos : Nat, length : Nat]

Histories ==
  [buffers : [1 .. 2 -> Seq(Records)], active : 1 .. 2, previous : 0 .. 2, offset : Nat, writer : Writers]

\* A record is closed, unless it is the last one and the writer goes on with it.
Closed(b, writing) ==
  \A i \in 1 .. Len(b) :
    IF i = Len(b) /\ writing.op # "none"
      THEN b[i].length = Unknown /\ writing = [op |-> b[i].op, pos |-> b[i].pos, length |-> Len(b[i].line)]
      ELSE b[i].length = Len(b[i].line)

AllClosed(b) == \A i \in 1 .. Len(b) : b[i].length = Len(b[i].line)

\* A buffer with the writer that goes on with it and the place undo has come to.
BufferOK(b, at, writing) ==
  /\ b \in Seq(Records) /\ at \in 0 .. Len(b) /\ writing \in Writers
  /\ Used(b) <= Capacity
  /\ writing.op # "none" => at = Len(b) /\ at # 0 /\ Used(b) + END_RECORD_SIZE <= Capacity
  /\ Closed(b, writing)

HistoryOK(h) ==
  /\ h \in Histories
  /\ BufferOK(InUse(h), h.offset, h.writer)
  /\ Used(h.buffers[3 - h.active]) <= Capacity /\ AllClosed(h.buffers[3 - h.active])
  /\ h.previous \in {0, 3 - h.active}
  /\ h.previous # 0 => Len(h.buffers[h.previous]) # 0

HistoryInv == HistoryOK(history) /\ Leads(history, text)

\* Everything was redone, or nothing undone.
Stands(h, t) == HistoryOK(h) /\ Leads(h, t) /\ h.offset = Len(InUse(h))

Before(h) == IF h.previous = 0 THEN <<>> ELSE EditsOf(h.buffers[h.previous])
PastOf(h) == Before(h) \o EditsOf(SubSeq(InUse(h), 1, h.offset))
FutureOf(h) == EditsOf(SubSeq(InUse(h), h.offset + 1, Len(InUse(h))))

-----------------------------------------------------------------------------
(* Lines and records.                                                      *)

\* A line is a sequence of letters that is not too long.
LEMMA LinesForm ==
  ASSUME NEW t
  PROVE  t \in Lines <=> t \in Seq(Letters) /\ Len(t) <= MaxText
<1>1. ASSUME t \in Lines PROVE t \in Seq(Letters) /\ Len(t) <= MaxText
  <2>1. PICK n \in 0 .. MaxText : t \in [1 .. n -> Letters]
    BY <1>1 DEF Lines
  <2>2. n \in Nat /\ n <= MaxText
    BY <2>1, SizeAssumption
  <2>3. t \in Seq(Letters) /\ Len(t) = n
    BY <2>1, <2>2, SeqDef, LenProperties
  <2> QED BY <2>2, <2>3
<1>2. ASSUME t \in Seq(Letters), Len(t) <= MaxText PROVE t \in Lines
  <2>1. t \in [1 .. Len(t) -> Letters] /\ Len(t) \in Nat
    BY <1>2, LenProperties
  <2>2. Len(t) \in 0 .. MaxText
    BY <1>2, <2>1, SizeAssumption
  <2> QED BY <2>1, <2>2 DEF Lines
<1> QED BY <1>1, <1>2

LEMMA RecordForm ==
  ASSUME NEW r
  PROVE  r \in Records <=> /\ r \in AnyRecord
                           /\ r.pos <= MaxText /\ Len(r.line) <= MaxText
                           /\ r.length # Unknown => r.length <= MaxText
<1>1. MaxText \in Nat
  BY SizeAssumption
<1>2. \A l : l \in Lines <=> l \in Seq(Letters) /\ Len(l) <= MaxText
  BY LinesForm
<1> HIDE DEF Lines
<1>3. r \in Records => r \in AnyRecord /\ r.pos <= MaxText /\ Len(r.line) <= MaxText /\ (r.length # Unknown => r.length <= MaxText)
  BY <1>1, <1>2 DEF Records, AnyRecord, Unknown
<1>4. r \in AnyRecord /\ r.pos <= MaxText /\ Len(r.line) <= MaxText /\ (r.length # Unknown => r.length <= MaxText) => r \in Records
  BY <1>1, <1>2 DEF Records, AnyRecord, Unknown
<1> QED BY <1>3, <1>4

LEMMA BufferForm ==
  ASSUME NEW b \in Seq(Records)
  PROVE  /\ b \in Seq(AnyRecord) /\ Len(b) \in Nat
         /\ \A i \in 1 .. Len(b) : b[i] \in Records /\ b[i] \in AnyRecord
<1>1. \A r \in Records : r \in AnyRecord
  BY RecordForm
<1>2. Records \subseteq AnyRecord
  BY <1>1
<1>3. b \in Seq(AnyRecord)
  BY <1>2, SeqMonotonic
<1>4. \A i \in 1 .. Len(b) : b[i] \in Records
  BY ElementOfSeq
<1> QED BY <1>1, <1>3, <1>4, LenProperties

-----------------------------------------------------------------------------
(* Edits that fit.                                                         *)

\* An edit that fits leaves a text.
LEMMA AppliedIsText ==
  ASSUME NEW t \in Lines, NEW op \in {"insert", "erase"}, NEW pos, NEW line \in Seq(Letters), Fits(t, op, pos, line)
  PROVE  /\ Applied(t, op, pos, line) \in Lines
         /\ pos \in Nat /\ pos <= MaxText /\ Len(line) <= MaxText
<1>1. t \in Seq(Letters) /\ Len(t) <= MaxText /\ Len(t) \in Nat /\ Len(line) \in Nat /\ MaxText \in Nat
  BY LinesForm, LenProperties, SizeAssumption
<1>2. pos \in 0 .. Len(t) /\ pos \in Nat /\ pos <= MaxText
  BY <1>1 DEF Fits
<1>3. CASE op = "insert"
  <2>1. Len(t) + Len(line) <= MaxText
    BY <1>3 DEF Fits
  <2>2. Inserted(t, pos, line) \in Seq(Letters) /\ Len(Inserted(t, pos, line)) = Len(t) + Len(line)
    BY <1>1, <1>2, InsertedForm
  <2> QED BY <1>1, <1>2, <1>3, <2>1, <2>2, LinesForm DEF Applied
<1>4. CASE op = "erase"
  <2>1. pos + Len(line) <= Len(t)
    BY <1>4 DEF Fits, Has
  <2>2. Removed(t, pos, Len(line)) \in Seq(Letters) /\ Len(Removed(t, pos, Len(line))) = Len(t) - Len(line)
    BY <1>1, <1>2, <2>1, RemovedForm
  <2>3. Len(t) - Len(line) <= MaxText /\ Len(line) <= MaxText
    BY <1>1, <1>2, <2>1
  <2> QED BY <1>1, <1>2, <1>4, <2>2, <2>3, LinesForm DEF Applied
<1> QED BY <1>3, <1>4

\* An edit in two parts: what is left of a split line goes where RestAt says.
LEMMA SplitEdit ==
  ASSUME NEW t \in Lines, NEW op \in {"insert", "erase"}, NEW pos,
         NEW l \in Seq(Letters), NEW m \in Seq(Letters), Fits(t, op, pos, l \o m)
  PROVE  /\ Fits(t, op, pos, l)
         /\ Fits(Applied(t, op, pos, l), op, RestAt(op, pos, Len(l)), m)
         /\ Applied(Applied(t, op, pos, l), op, RestAt(op, pos, Len(l)), m) = Applied(t, op, pos, l \o m)
<1>1. t \in Seq(Letters) /\ Len(t) \in Nat /\ Len(l) \in Nat /\ Len(m) \in Nat /\ MaxText \in Nat
  BY LinesForm, LenProperties, SizeAssumption
<1>2. pos \in 0 .. Len(t) /\ pos \in Nat
  BY <1>1 DEF Fits
<1>3. /\ l \o m \in Seq(Letters) /\ Len(l \o m) = Len(l) + Len(m)
      /\ \A i \in 1 .. Len(l) + Len(m) : (l \o m)[i] = IF i <= Len(l) THEN l[i] ELSE m[i - Len(l)]
  BY ConcatProperties
<1>4. CASE op = "insert"
  <2>1. Len(t) + Len(l) + Len(m) <= MaxText
    BY <1>1, <1>3, <1>4 DEF Fits
  <2>2. Inserted(t, pos, l) \in Seq(Letters) /\ Len(Inserted(t, pos, l)) = Len(t) + Len(l)
    BY <1>1, <1>2, InsertedForm
  <2>3. Inserted(Inserted(t, pos, l), pos + Len(l), m) = Inserted(t, pos, l \o m)
    BY <1>1, <1>2, InsertedTwice
  <2>4. Fits(t, op, pos, l)
    BY <1>1, <1>2, <1>4, <2>1 DEF Fits
  <2>5. Fits(Inserted(t, pos, l), op, pos + Len(l), m)
    BY <1>1, <1>2, <1>4, <2>1, <2>2 DEF Fits
  <2> QED BY <1>4, <2>3, <2>4, <2>5 DEF Applied, RestAt
<1>5. CASE op = "erase"
  <2>1. Has(t, pos, l \o m)
    BY <1>5 DEF Fits
  <2>2. pos + Len(l) + Len(m) <= Len(t)
    BY <1>1, <1>2, <1>3, <2>1 DEF Has
  <2>3. \A i \in 1 .. Len(l) + Len(m) : t[pos + i] = IF i <= Len(l) THEN l[i] ELSE m[i - Len(l)]
    BY <1>3, <2>1 DEF Has
  <2>4. Has(t, pos, l)
    <3>1. \A i \in 1 .. Len(l) : i \in 1 .. Len(l) + Len(m) /\ i <= Len(l)
      BY <1>1
    <3>2. pos + Len(l) <= Len(t)
      BY <1>1, <1>2, <2>2
    <3> QED BY <2>3, <3>1, <3>2 DEF Has
  <2>5. /\ Removed(t, pos, Len(l)) \in Seq(Letters)
        /\ Len(Removed(t, pos, Len(l))) = Len(t) - Len(l)
        /\ \A i \in 1 .. Len(t) - Len(l) : Removed(t, pos, Len(l))[i] = IF i <= pos THEN t[i] ELSE t[i + Len(l)]
    <3> DEFINE k == Len(l)
    <3>1. t \in Seq(Letters) /\ pos \in Nat /\ k \in Nat /\ pos + k <= Len(t)
      BY <1>1, <1>2, <2>2
    <3> HIDE DEF k
    <3>2. /\ Removed(t, pos, k) \in Seq(Letters) /\ Len(Removed(t, pos, k)) = Len(t) - k
          /\ \A i \in 1 .. Len(t) - k : Removed(t, pos, k)[i] = IF i <= pos THEN t[i] ELSE t[i + k]
      BY ONLY <3>1, RemovedForm
    <3> QED BY <3>2 DEF k
  <2>6. Has(Removed(t, pos, Len(l)), pos, m)
    <3>1. pos + Len(m) <= Len(t) - Len(l)
      BY <1>1, <1>2, <2>2
    <3>2. ASSUME NEW i \in 1 .. Len(m) PROVE Removed(t, pos, Len(l))[pos + i] = m[i]
      <4>1. pos + i \in 1 .. Len(t) - Len(l) /\ ~(pos + i <= pos) /\ pos + i + Len(l) = pos + (Len(l) + i)
        BY <1>1, <1>2, <3>1
      <4>2. Removed(t, pos, Len(l))[pos + i] = t[pos + (Len(l) + i)]
        BY <2>5, <4>1
      <4>3. Len(l) + i \in 1 .. Len(l) + Len(m) /\ ~(Len(l) + i <= Len(l)) /\ Len(l) + i - Len(l) = i
        BY <1>1
      <4> QED BY <2>3, <4>2, <4>3
    <3> QED BY <2>5, <3>1, <3>2 DEF Has
  <2>7. Removed(Removed(t, pos, Len(l)), pos, Len(m)) = Removed(t, pos, Len(l) + Len(m))
    BY <1>1, <1>2, <2>2, RemovedTwice
  <2>8. Fits(t, op, pos, l)
    BY <1>2, <1>5, <2>4 DEF Fits
  <2>9. Fits(Removed(t, pos, Len(l)), op, pos, m)
    <3>1. pos \in 0 .. Len(t) - Len(l)
      BY <1>1, <1>2, <2>2
    <3> QED BY <1>5, <2>5, <2>6, <3>1 DEF Fits
  <2> QED BY <1>3, <1>5, <2>7, <2>8, <2>9 DEF Applied, RestAt
<1> QED BY <1>4, <1>5

\* An edit that goes on with one that was done is one with it.
LEMMA JoinEdit ==
  ASSUME NEW t \in Lines, NEW op \in {"insert", "erase"}, NEW pos,
         NEW l \in Seq(Letters), NEW m \in Seq(Letters), Fits(t, op, pos, l),
         Fits(Applied(t, op, pos, l), op, RestAt(op, pos, Len(l)), m)
  PROVE  Fits(t, op, pos, l \o m)
<1>1. t \in Seq(Letters) /\ Len(t) \in Nat /\ Len(l) \in Nat /\ Len(m) \in Nat /\ MaxText \in Nat
  BY LinesForm, LenProperties, SizeAssumption
<1>2. pos \in 0 .. Len(t) /\ pos \in Nat
  BY <1>1 DEF Fits
<1>3. /\ l \o m \in Seq(Letters) /\ Len(l \o m) = Len(l) + Len(m)
      /\ \A i \in 1 .. Len(l) + Len(m) : (l \o m)[i] = IF i <= Len(l) THEN l[i] ELSE m[i - Len(l)]
  BY ConcatProperties
<1>4. CASE op = "insert"
  <2>1. Len(Inserted(t, pos, l)) = Len(t) + Len(l)
    BY <1>1, <1>2, InsertedForm
  <2>2. Len(Inserted(t, pos, l)) + Len(m) <= MaxText
    BY <1>4 DEF Fits, Applied
  <2> QED BY <1>1, <1>2, <1>3, <1>4, <2>1, <2>2 DEF Fits
<1>5. CASE op = "erase"
  <2>1. Has(t, pos, l) /\ Has(Removed(t, pos, Len(l)), pos, m)
    BY <1>5 DEF Fits, Applied, RestAt
  <2>2. pos + Len(l) <= Len(t)
    BY <2>1 DEF Has
  <2>3. /\ Len(Removed(t, pos, Len(l))) = Len(t) - Len(l)
        /\ \A i \in 1 .. Len(t) - Len(l) : Removed(t, pos, Len(l))[i] = IF i <= pos THEN t[i] ELSE t[i + Len(l)]
    BY <1>1, <1>2, <2>2, RemovedForm
  <2>4. pos + Len(m) <= Len(t) - Len(l)
    BY <2>1, <2>3 DEF Has
  <2>5. ASSUME NEW i \in 1 .. Len(l) + Len(m) PROVE t[pos + i] = (l \o m)[i]
    <3>1. CASE i <= Len(l)
      <4>1. i \in 1 .. Len(l)
        BY <1>1, <3>1
      <4> QED BY <1>3, <2>1, <3>1, <4>1 DEF Has
    <3>2. CASE ~(i <= Len(l))
      <4>1. /\ i - Len(l) \in 1 .. Len(m) /\ pos + (i - Len(l)) \in 1 .. Len(t) - Len(l)
            /\ ~(pos + (i - Len(l)) <= pos) /\ pos + (i - Len(l)) + Len(l) = pos + i
        BY <1>1, <1>2, <2>4, <3>2
      <4>2. Removed(t, pos, Len(l))[pos + (i - Len(l))] = t[pos + i]
        BY <2>3, <4>1
      <4>3. Removed(t, pos, Len(l))[pos + (i - Len(l))] = m[i - Len(l)]
        BY <2>1, <4>1 DEF Has
      <4> QED BY <1>3, <3>2, <4>2, <4>3
    <3> QED BY <3>1, <3>2
  <2>6. pos + Len(l \o m) <= Len(t)
    BY <1>1, <1>2, <1>3, <2>4
  <2>7. Has(t, pos, l \o m)
    BY <1>3, <2>5, <2>6 DEF Has
  <2> QED BY <1>2, <1>5, <2>7 DEF Fits
<1> QED BY <1>4, <1>5

\* The other way round: what undo does with a record.
LEMMA AppliedBack ==
  ASSUME NEW t \in Lines, NEW op \in {"insert", "erase"}, NEW pos, NEW line \in Seq(Letters), Fits(t, op, pos, line)
  PROVE  /\ op = "insert" => Removed(Applied(t, op, pos, line), pos, Len(line)) = t
         /\ op = "erase" => Inserted(Applied(t, op, pos, line), pos, line) = t
         /\ Abstract!DoAll(t, LineEdits(op, pos, line)) = Applied(t, op, pos, line)
         /\ Abstract!DoAll(Applied(t, op, pos, line), Abstract!TakenBack(LineEdits(op, pos, line))) = t
<1>1. t \in Seq(Letters) /\ Len(t) \in Nat /\ Len(line) \in Nat
  BY LinesForm, LenProperties
<1>2. pos \in 0 .. Len(t) /\ pos \in Nat
  BY <1>1 DEF Fits
<1>3. CASE op = "insert"
  <2>1. Removed(Inserted(t, pos, line), pos, Len(line)) = t /\ Has(Inserted(t, pos, line), pos, line)
    BY <1>1, <1>2, InsertedRemoved
  <2>2. Inserted(t, pos, line) \in Seq(Letters)
    BY <1>1, <1>2, InsertedForm
  <2>3. Abstract!DoAll(Inserted(t, pos, line), Abstract!TakenBack(Abstract!Typed(pos, line))) = t
    BY <1>2, <2>1, <2>2, TypedTakenBack
  <2>4. Abstract!DoAll(t, Abstract!Typed(pos, line)) = Inserted(t, pos, line)
    BY <1>1, <1>2, TypedDone
  <2> QED BY <1>3, <2>1, <2>3, <2>4 DEF Applied, LineEdits
<1>4. CASE op = "erase"
  <2>1. Has(t, pos, line)
    BY <1>4 DEF Fits
  <2>2. pos + Len(line) <= Len(t)
    BY <2>1 DEF Has
  <2>3. Removed(t, pos, Len(line)) \in Seq(Letters) /\ Len(Removed(t, pos, Len(line))) = Len(t) - Len(line)
    BY <1>1, <1>2, <2>2, RemovedForm
  <2>4. Inserted(Removed(t, pos, Len(line)), pos, line) = t
    BY <1>1, <1>2, <2>1, RemovedInserted
  <2>5. pos \in 0 .. Len(Removed(t, pos, Len(line)))
    BY <1>1, <1>2, <2>2, <2>3
  <2>6. Abstract!DoAll(Removed(t, pos, Len(line)), Abstract!TakenBack(Abstract!Erased(pos, line))) = t
    BY <2>3, <2>4, <2>5, ErasedTakenBack
  <2>7. Abstract!DoAll(t, Abstract!Erased(pos, line)) = Removed(t, pos, Len(line))
    BY <1>1, <1>2, <2>1, ErasedDone
  <2> QED BY <1>4, <2>4, <2>6, <2>7 DEF Applied, LineEdits
<1> QED BY <1>3, <1>4

-----------------------------------------------------------------------------
(* The texts between records.                                              *)

\* No records lead from a text to itself.
LEMMA VersionsEmpty ==
  ASSUME NEW t \in Lines
  PROVE  \E v : Versions(<<>>, v) /\ v[0] = t
<1> DEFINE v == [i \in 0 .. Len(<<>>) |-> t]
<1>1. Len(<<>>) = 0
  BY EmptySeq
<1>2. v[0] = t
  BY <1>1
<1>3. Versions(<<>>, v)
  BY <1>1 DEF Versions
<1> HIDE DEF v
<1> QED BY <1>2, <1>3

\* The first records of a buffer lead to a text between.
LEMMA VersionsPrefix ==
  ASSUME NEW b \in Seq(AnyRecord), NEW v, Versions(b, v), NEW n \in 0 .. Len(b)
  PROVE  \E w : /\ Versions(SubSeq(b, 1, n), w)
                /\ \A i \in 0 .. n : w[i] = v[i]
<1> DEFINE c == SubSeq(b, 1, n)
           w == [i \in 0 .. n |-> v[i]]
<1>1. Len(b) \in Nat /\ n \in Nat /\ n <= Len(b)
  BY LenProperties
<1>2. Len(c) = n /\ \A i \in 1 .. n : c[i] = b[i]
  BY UsedPrefix
<1>3. v \in [0 .. Len(b) -> Lines]
  BY DEF Versions
<1>4. \A i \in 0 .. n : w[i] = v[i] /\ w[i] \in Lines
  BY <1>1, <1>3
<1>5. w \in [0 .. n -> Lines]
  BY <1>4
<1> HIDE DEF w, c
<1>6. ASSUME NEW i \in 1 .. n
      PROVE  /\ Fits(w[i - 1], c[i].op, c[i].pos, c[i].line)
             /\ w[i] = Applied(w[i - 1], c[i].op, c[i].pos, c[i].line)
  <2>1. i \in 1 .. Len(b) /\ i \in 0 .. n /\ i - 1 \in 0 .. n
    BY <1>1
  <2>2. /\ Fits(v[i - 1], b[i].op, b[i].pos, b[i].line)
        /\ v[i] = Applied(v[i - 1], b[i].op, b[i].pos, b[i].line)
    BY <2>1 DEF Versions
  <2> QED BY <1>2, <1>4, <2>1, <2>2
<1>7. Versions(c, w)
  BY <1>2, <1>5, <1>6 DEF Versions
<1> QED BY <1>4, <1>7 DEF c

\* A new record leads on to the text with its edit.
LEMMA VersionsAppend ==
  ASSUME NEW b \in Seq(AnyRecord), NEW v, Versions(b, v), NEW r \in AnyRecord, NEW t,
         v[Len(b)] = t, Fits(t, r.op, r.pos, r.line)
  PROVE  \E w : /\ Versions(Append(b, r), w)
                /\ w[0] = v[0]
                /\ w[Len(Append(b, r))] = Applied(t, r.op, r.pos, r.line)
<1> DEFINE c == Append(b, r)
           N == Len(b) + 1
           w == [i \in 0 .. N |-> IF i = N THEN Applied(t, r.op, r.pos, r.line) ELSE v[i]]
<1>1. Len(b) \in Nat
  BY LenProperties
<1>2. Len(c) = N /\ c[N] = r /\ \A i \in 1 .. Len(b) : c[i] = b[i]
  BY AppendProperties
<1>3. v \in [0 .. Len(b) -> Lines]
  BY DEF Versions
<1>4. t \in Lines
  BY <1>1, <1>3
<1>5. r.op \in {"insert", "erase"} /\ r.line \in Seq(Letters)
  BY DEF AnyRecord
<1>6. Applied(t, r.op, r.pos, r.line) \in Lines
  BY <1>4, <1>5, AppliedIsText
<1>7. N \in 0 .. N /\ \A i \in 0 .. Len(b) : i \in 0 .. N /\ i # N
  BY <1>1
<1>8. w[N] = Applied(t, r.op, r.pos, r.line) /\ \A i \in 0 .. Len(b) : w[i] = v[i]
  BY <1>7
<1>9. \A i \in 0 .. N : i = N \/ i \in 0 .. Len(b)
  BY <1>1
<1>10. w \in [0 .. N -> Lines]
  <2>1. \A i \in 0 .. N : w[i] \in Lines
    BY <1>3, <1>6, <1>8, <1>9
  <2> QED BY <2>1
<1> HIDE DEF w, c
<1>11. ASSUME NEW i \in 1 .. N
       PROVE  /\ Fits(w[i - 1], c[i].op, c[i].pos, c[i].line)
              /\ w[i] = Applied(w[i - 1], c[i].op, c[i].pos, c[i].line)
  <2>1. i - 1 \in 0 .. Len(b)
    BY <1>1
  <2>2. CASE i = N
    <3>1. i - 1 = Len(b)
      BY <1>1, <2>2
    <3> QED BY <1>2, <1>8, <2>1, <2>2, <3>1
  <2>3. CASE i # N
    <3>1. i \in 1 .. Len(b) /\ i \in 0 .. Len(b)
      BY <1>1, <2>3
    <3>2. /\ Fits(v[i - 1], b[i].op, b[i].pos, b[i].line)
          /\ v[i] = Applied(v[i - 1], b[i].op, b[i].pos, b[i].line)
      BY <3>1 DEF Versions
    <3> QED BY <1>2, <1>8, <2>1, <3>1, <3>2
  <2> QED BY <2>2, <2>3
<1>12. Versions(c, w)
  BY <1>2, <1>10, <1>11 DEF Versions
<1>13. w[0] = v[0]
  <2>1. 0 \in 0 .. Len(b)
    BY <1>1
  <2> QED BY <1>8, <2>1
<1>14. w[Len(c)] = Applied(t, r.op, r.pos, r.line)
  BY <1>2, <1>8
<1> QED BY <1>12, <1>13, <1>14 DEF c

\* The texts do not depend on the lengths that end the records.
LEMMA VersionsSame ==
  ASSUME NEW a \in Seq(AnyRecord), NEW b \in Seq(AnyRecord), Len(a) = Len(b),
         \A i \in 1 .. Len(a) : a[i].op = b[i].op /\ a[i].pos = b[i].pos /\ a[i].line = b[i].line,
         NEW v, Versions(a, v)
  PROVE  Versions(b, v)
BY DEF Versions

-----------------------------------------------------------------------------
(* A history with another buffer in use.                                   *)

With(h, b, at, writing) ==
  [buffers |-> [h.buffers EXCEPT ![h.active] = b], active |-> h.active, previous |-> h.previous,
   offset |-> at, writer |-> writing]

LEMMA HistoryForm ==
  ASSUME NEW h \in Histories
  PROVE  /\ h.active \in 1 .. 2 /\ 3 - h.active \in 1 .. 2 /\ 3 - h.active # h.active
         /\ h.previous \in 0 .. 2 /\ h.offset \in Nat /\ h.writer \in Writers
         /\ h.buffers \in [1 .. 2 -> Seq(Records)]
         /\ InUse(h) \in Seq(Records) /\ h.buffers[3 - h.active] \in Seq(Records)
         /\ InUse(h) \in Seq(AnyRecord) /\ h.buffers[3 - h.active] \in Seq(AnyRecord)
         /\ Len(InUse(h)) \in Nat /\ Used(InUse(h)) \in Nat
<1>1. /\ h.active \in 1 .. 2 /\ h.previous \in 0 .. 2 /\ h.offset \in Nat /\ h.writer \in Writers
      /\ h.buffers \in [1 .. 2 -> Seq(Records)]
  BY DEF Histories
<1>2. 3 - h.active \in 1 .. 2 /\ 3 - h.active # h.active
  BY <1>1
<1>3. InUse(h) \in Seq(Records) /\ h.buffers[3 - h.active] \in Seq(Records)
  BY <1>1, <1>2 DEF InUse
<1> QED BY <1>1, <1>2, <1>3, BufferForm, UsedType

\* A history is in order with another buffer that is.
LEMMA WithIs ==
  ASSUME NEW h, HistoryOK(h), NEW b, NEW at, NEW writing, BufferOK(b, at, writing)
  PROVE  LET g == With(h, b, at, writing)
         IN /\ HistoryOK(g)
            /\ InUse(g) = b /\ g.offset = at /\ g.writer = writing
            /\ g.active = h.active /\ g.previous = h.previous
            /\ Before(g) = Before(h)
            /\ \A x : Starts(h, x) => Starts(g, x)
            /\ FreeSpace(g) = Capacity - Used(b)
<1> DEFINE g == With(h, b, at, writing)
           o == 3 - h.active
<1>1. h \in Histories
  BY DEF HistoryOK
<1>2. /\ h.active \in 1 .. 2 /\ o \in 1 .. 2 /\ o # h.active
      /\ h.previous \in 0 .. 2 /\ h.buffers \in [1 .. 2 -> Seq(Records)]
  BY <1>1, HistoryForm
<1>3. b \in Seq(Records) /\ at \in Nat /\ writing \in Writers
  <2>1. b \in Seq(Records) /\ at \in 0 .. Len(b) /\ writing \in Writers
    BY DEF BufferOK
  <2> QED BY <2>1, LenProperties
<1>4. /\ g.buffers = [h.buffers EXCEPT ![h.active] = b]
      /\ g.active = h.active /\ g.previous = h.previous /\ g.offset = at /\ g.writer = writing
  BY DEF With
<1>5. g.buffers[h.active] = b /\ g.buffers[o] = h.buffers[o] /\ g.buffers \in [1 .. 2 -> Seq(Records)]
  BY <1>2, <1>3, <1>4
<1>6. InUse(g) = b
  BY <1>4, <1>5 DEF InUse
<1>7. g \in Histories
  <2>1. g = [buffers |-> g.buffers, active |-> g.active, previous |-> g.previous, offset |-> g.offset, writer |-> g.writer]
    BY DEF With
  <2> HIDE DEF g
  <2> QED BY <1>2, <1>3, <1>4, <1>5, <2>1 DEF Histories
<1> HIDE DEF g
<1>8. h.previous \in {0, o} /\ (h.previous # 0 => Len(h.buffers[h.previous]) # 0 /\ g.buffers[h.previous] = h.buffers[h.previous])
  BY <1>5 DEF HistoryOK
<1>9. Used(h.buffers[o]) <= Capacity /\ AllClosed(h.buffers[o])
  BY DEF HistoryOK
<1>10. HistoryOK(g)
  <2>1. BufferOK(InUse(g), g.offset, g.writer)
    BY <1>4, <1>6
  <2>2. Used(g.buffers[3 - g.active]) <= Capacity /\ AllClosed(g.buffers[3 - g.active])
    BY <1>4, <1>5, <1>9
  <2>3. g.previous \in {0, 3 - g.active} /\ (g.previous # 0 => Len(g.buffers[g.previous]) # 0)
    BY <1>4, <1>8
  <2> QED BY <1>7, <2>1, <2>2, <2>3 DEF HistoryOK
<1>11. Before(g) = Before(h)
  BY <1>4, <1>8 DEF Before
<1>12. \A x : Starts(h, x) => Starts(g, x)
  BY <1>4, <1>8 DEF Starts
<1>13. FreeSpace(g) = Capacity - Used(b)
  BY <1>6 DEF FreeSpace, InUse
<1> QED BY <1>4, <1>6, <1>10, <1>11, <1>12, <1>13 DEF g

\* A record of the fields of a history.
LEMMA HistoryFields ==
  ASSUME NEW g, g = [i \in DOMAIN g |-> g[i]], DOMAIN g = {"buffers", "active", "previous", "offset", "writer"}
  PROVE  g = [buffers |-> g.buffers, active |-> g.active, previous |-> g.previous, offset |-> g.offset, writer |-> g.writer]
OBVIOUS

LEMMA WriterWith ==
  ASSUME NEW w \in Writers, NEW x
  PROVE  /\ [w EXCEPT !.op = x] = [op |-> x, pos |-> w.pos, length |-> w.length]
         /\ [w EXCEPT !.length = x] = [op |-> w.op, pos |-> w.pos, length |-> x]
<1>1. [w EXCEPT !.op = x] \in [op : {x}, pos : {w.pos}, length : {w.length}]
  BY DEF Writers
<1>2. [w EXCEPT !.length = x] \in [op : {w.op}, pos : {w.pos}, length : {x}]
  BY DEF Writers
<1> QED BY <1>1, <1>2

\* The steps of the writer replace the buffer in use, its offset and the writer.
LEMMA EndRecordIs ==
  ASSUME NEW h \in Histories
  PROVE  EndRecord(h) = With(h, [InUse(h) EXCEPT ![Len(InUse(h))] =
                                   [InUse(h)[Len(InUse(h))] EXCEPT !.length = h.writer.length]],
                             Len(InUse(h)), [op |-> "none", pos |-> h.writer.pos, length |-> h.writer.length])
<1> DEFINE b == [InUse(h) EXCEPT ![Len(InUse(h))].length = h.writer.length]
           w == [h.writer EXCEPT !.op = "none"]
           g == EndRecord(h)
<1>1. h.writer \in Writers
  BY HistoryForm
<1>2. w = [op |-> "none", pos |-> h.writer.pos, length |-> h.writer.length]
  BY <1>1, WriterWith
<1>3. /\ g = [i \in DOMAIN g |-> g[i]]
      /\ DOMAIN g = {"buffers", "active", "previous", "offset", "writer"}
  BY DEF EndRecord, InUse, Histories
<1>4. /\ g.buffers = [h.buffers EXCEPT ![h.active] = b]
      /\ g.active = h.active /\ g.previous = h.previous /\ g.offset = Len(InUse(h)) /\ g.writer = w
  BY DEF EndRecord, InUse, Histories
<1> HIDE DEF b, w, g
<1>5. g = With(h, b, Len(InUse(h)), w)
  <2>1. g = [buffers |-> g.buffers, active |-> g.active, previous |-> g.previous, offset |-> g.offset, writer |-> g.writer]
    BY <1>3, HistoryFields
  <2> QED BY <1>4, <2>1 DEF With
<1> QED BY <1>2, <1>5 DEF g, b

LEMMA ExtendIs ==
  ASSUME NEW h \in Histories, NEW line
  PROVE  Extend(h, line) = With(h, [InUse(h) EXCEPT ![Len(InUse(h))] =
                                      [InUse(h)[Len(InUse(h))] EXCEPT !.line = InUse(h)[Len(InUse(h))].line \o line]],
                                Len(InUse(h)),
                                [op |-> h.writer.op, pos |-> h.writer.pos, length |-> h.writer.length + Len(line)])
<1> DEFINE b == [InUse(h) EXCEPT ![Len(InUse(h))].line = @ \o line]
           w == [h.writer EXCEPT !.length = @ + Len(line)]
           g == Extend(h, line)
<1>1. h.writer \in Writers
  BY HistoryForm
<1>2. w = [op |-> h.writer.op, pos |-> h.writer.pos, length |-> h.writer.length + Len(line)]
  BY <1>1, WriterWith
<1>3. /\ g = [i \in DOMAIN g |-> g[i]]
      /\ DOMAIN g = {"buffers", "active", "previous", "offset", "writer"}
  BY DEF Extend, InUse, Histories
<1>4. /\ g.buffers = [h.buffers EXCEPT ![h.active] = b]
      /\ g.active = h.active /\ g.previous = h.previous /\ g.offset = Len(InUse(h)) /\ g.writer = w
  BY DEF Extend, InUse, Histories
<1> HIDE DEF b, w, g
<1>5. g = With(h, b, Len(InUse(h)), w)
  <2>1. g = [buffers |-> g.buffers, active |-> g.active, previous |-> g.previous, offset |-> g.offset, writer |-> g.writer]
    BY <1>3, HistoryFields
  <2> QED BY <1>4, <2>1 DEF With
<1> QED BY <1>2, <1>5 DEF g, b

LEMMA BeginIs ==
  ASSUME NEW h \in Histories, NEW op, NEW pos, NEW line
  PROVE  Begin(h, op, pos, line)
         = With(h, Append(InUse(h), [op |-> op, pos |-> pos, line |-> line, length |-> Unknown]),
                Len(InUse(h)) + 1, [op |-> op, pos |-> pos, length |-> Len(line)])
<1> DEFINE b == Append(InUse(h), [op |-> op, pos |-> pos, line |-> line, length |-> Unknown])
           w == [op |-> op, pos |-> pos, length |-> Len(line)]
           g == Begin(h, op, pos, line)
<1>3. /\ g = [i \in DOMAIN g |-> g[i]]
      /\ DOMAIN g = {"buffers", "active", "previous", "offset", "writer"}
  BY DEF Begin, InUse, Histories
<1>4. /\ g.buffers = [h.buffers EXCEPT ![h.active] = b]
      /\ g.active = h.active /\ g.previous = h.previous /\ g.offset = Len(InUse(h)) + 1 /\ g.writer = w
  BY DEF Begin, InUse, Histories
<1> HIDE DEF b, w, g
<1>5. g = With(h, b, Len(InUse(h)) + 1, w)
  <2>1. g = [buffers |-> g.buffers, active |-> g.active, previous |-> g.previous, offset |-> g.offset, writer |-> g.writer]
    BY <1>3, HistoryFields
  <2> QED BY <1>4, <2>1 DEF With
<1> QED BY <1>5 DEF g, b, w

LEMMA TrimIs ==
  ASSUME NEW h \in Histories
  PROVE  Trim(h) = With(h, SubSeq(InUse(h), 1, h.offset), h.offset, h.writer)
<1> DEFINE b == SubSeq(InUse(h), 1, h.offset)
           g == Trim(h)
<1>3. /\ g = [i \in DOMAIN g |-> g[i]]
      /\ DOMAIN g = {"buffers", "active", "previous", "offset", "writer"}
  BY DEF Trim, InUse, Histories
<1>4. /\ g.buffers = [h.buffers EXCEPT ![h.active] = b]
      /\ g.active = h.active /\ g.previous = h.previous /\ g.offset = h.offset /\ g.writer = h.writer
  BY DEF Trim, InUse, Histories
<1> HIDE DEF b, g
<1>5. g = With(h, b, h.offset, h.writer)
  <2>1. g = [buffers |-> g.buffers, active |-> g.active, previous |-> g.previous, offset |-> g.offset, writer |-> g.writer]
    BY <1>3, HistoryFields
  <2> QED BY <1>4, <2>1 DEF With
<1> QED BY <1>5 DEF g, b

-----------------------------------------------------------------------------
(* What the steps of the writer keep.                                      *)

LEMMA RecordSizeIs ==
  ASSUME NEW r \in AnyRecord
  PROVE  /\ r.length = Unknown => RecordSize(r) = PosSize + Bytes(r.line)
         /\ r.length # Unknown => RecordSize(r) = PosSize + Bytes(r.line) + END_RECORD_SIZE
         /\ Bytes(r.line) \in Nat /\ END_RECORD_SIZE \in Nat /\ PosSize \in Nat
         /\ START_RECORD_SIZE = PosSize + END_RECORD_SIZE
<1>1. Bytes(r.line) \in Nat /\ RecordSize(r) \in Nat
  BY RecordSizeType
<1>2. PosSize \in Nat /\ CharSize \in Nat
  BY SizeAssumption
<1>3. END_RECORD_SIZE \in Nat /\ START_RECORD_SIZE = PosSize + END_RECORD_SIZE
  BY <1>2 DEF END_RECORD_SIZE, START_RECORD_SIZE
<1>4. r.length = Unknown => RecordSize(r) = PosSize + Bytes(r.line)
  BY <1>1, <1>2 DEF RecordSize
<1>5. r.length # Unknown => RecordSize(r) = PosSize + Bytes(r.line) + END_RECORD_SIZE
  BY DEF RecordSize
<1> QED BY <1>1, <1>2, <1>3, <1>4, <1>5

\* With nothing undone the whole buffer in use is past.
LEMMA StandsForm ==
  ASSUME NEW h, NEW t, Stands(h, t)
  PROVE  /\ h \in Histories /\ t \in Lines
         /\ FutureOf(h) = <<>> /\ PastOf(h) = Before(h) \o EditsOf(InUse(h))
         /\ \E v : Versions(InUse(h), v) /\ v[Len(InUse(h))] = t /\ Starts(h, v[0])
<1>1. h \in Histories
  BY DEF Stands, HistoryOK
<1>2. h.offset = Len(InUse(h)) /\ InUse(h) \in Seq(AnyRecord) /\ Len(InUse(h)) \in Nat
  BY <1>1, HistoryForm DEF Stands
<1>3. SubSeq(InUse(h), 1, h.offset) = InUse(h)
  BY <1>2, SubSeqFull
<1>4. SubSeq(InUse(h), h.offset + 1, Len(InUse(h))) = <<>>
  BY <1>2, SubSeqEmpty
<1>5. \E v : Versions(InUse(h), v) /\ v[Len(InUse(h))] = t /\ Starts(h, v[0])
  BY <1>2 DEF Stands, Leads
<1>6. t \in Lines
  BY <1>2, <1>5 DEF Versions
<1> QED BY <1>1, <1>3, <1>4, <1>5, <1>6, EditsOfEmpty DEF FutureOf, PastOf

\* A history whose buffer in use was replaced leads to the text its versions lead to.
LEMMA StandsWith ==
  ASSUME NEW h, NEW b, NEW writing, NEW v,
         HistoryOK(h), BufferOK(b, Len(b), writing), Versions(b, v), Starts(h, v[0])
  PROVE  LET g == With(h, b, Len(b), writing)
         IN /\ Stands(g, v[Len(b)])
            /\ PastOf(g) = Before(h) \o EditsOf(b)
            /\ InUse(g) = b /\ g.writer = writing
            /\ g.active = h.active /\ g.previous = h.previous /\ FreeSpace(g) = Capacity - Used(b)
<1> DEFINE g == With(h, b, Len(b), writing)
<1>1. /\ HistoryOK(g)
      /\ InUse(g) = b /\ g.offset = Len(b) /\ g.writer = writing
      /\ g.active = h.active /\ g.previous = h.previous
      /\ Before(g) = Before(h)
      /\ \A x : Starts(h, x) => Starts(g, x)
      /\ FreeSpace(g) = Capacity - Used(b)
  BY WithIs
<1> HIDE DEF g
<1>2. Leads(g, v[Len(b)])
  BY <1>1 DEF Leads
<1>3. Stands(g, v[Len(b)])
  BY <1>1, <1>2 DEF Stands
<1>4. PastOf(g) = Before(h) \o EditsOf(b)
  BY <1>1, <1>3, StandsForm
<1> QED BY <1>1, <1>3, <1>4 DEF g

\* The edits of the previous buffer.
LEMMA BeforeType ==
  ASSUME NEW h, HistoryOK(h)
  PROVE  Before(h) \in Seq(Edit)
<1>1. h \in Histories /\ h.previous \in {0, 3 - h.active}
  BY DEF HistoryOK
<1>2. h.buffers[3 - h.active] \in Seq(AnyRecord)
  BY <1>1, HistoryForm
<1>3. EditsOf(h.buffers[3 - h.active]) \in Seq(Edit)
  BY <1>2, EditsOfConcat
<1>4. <<>> \in Seq(Edit)
  BY EmptySeq
<1> QED BY <1>1, <1>3, <1>4 DEF Before

\* Closing a record changes neither the text nor the past.
LEMMA EndRecordKeeps ==
  ASSUME NEW h, NEW t, Stands(h, t), h.writer.op # "none"
  PROVE  LET g == EndRecord(h)
         IN /\ Stands(g, t) /\ PastOf(g) = PastOf(h) /\ g.writer.op = "none"
            /\ g.active = h.active /\ g.previous = h.previous
            /\ Len(InUse(g)) = Len(InUse(h)) /\ Len(InUse(g)) # 0
<1> DEFINE b == InUse(h)
           n == Len(b)
           r == [b[n] EXCEPT !.length = h.writer.length]
           c == [b EXCEPT ![n] = r]
           w == [op |-> "none", pos |-> h.writer.pos, length |-> h.writer.length]
           g == EndRecord(h)
<1>1. h \in Histories /\ BufferOK(b, h.offset, h.writer) /\ h.offset = n
  BY DEF Stands, HistoryOK
<1>2. b \in Seq(Records) /\ b \in Seq(AnyRecord) /\ n \in Nat /\ Used(b) \in Nat /\ h.writer \in Writers
  BY <1>1, HistoryForm
<1>3. n # 0 /\ Used(b) + END_RECORD_SIZE <= Capacity /\ Closed(b, h.writer)
  BY <1>1 DEF BufferOK
<1>4. n \in 1 .. n /\ b[n] \in Records /\ b[n] \in AnyRecord
  BY <1>2, <1>3, BufferForm
<1>5. b[n].length = Unknown /\ h.writer.length = Len(b[n].line) /\ \A i \in 1 .. n : i # n => b[i].length = Len(b[i].line)
  <2>1. h.writer.op # "none" /\ Len(b) = n
    OBVIOUS
  <2>2. \A i \in 1 .. n : IF i = n
          THEN b[i].length = Unknown /\ h.writer = [op |-> b[i].op, pos |-> b[i].pos, length |-> Len(b[i].line)]
          ELSE b[i].length = Len(b[i].line)
    BY <1>3, <2>1 DEF Closed
  <2> HIDE DEF b, n
  <2>3. b[n].length = Unknown /\ h.writer = [op |-> b[n].op, pos |-> b[n].pos, length |-> Len(b[n].line)]
    BY <1>4, <2>2
  <2>4. h.writer.length = Len(b[n].line)
    BY <2>3
  <2>5. \A i \in 1 .. n : i # n => b[i].length = Len(b[i].line)
    BY <2>2
  <2> QED BY <2>3, <2>4, <2>5
<1>6. h.writer.length \in Nat /\ h.writer.length # Unknown /\ h.writer.length <= MaxText
  <2>1. h.writer.length \in Nat
    BY <1>2 DEF Writers
  <2>2. Len(b[n].line) <= MaxText
    BY <1>4, RecordForm
  <2> QED BY <1>5, <2>1, <2>2 DEF Unknown
<1>7. /\ r.op = b[n].op /\ r.pos = b[n].pos /\ r.line = b[n].line /\ r.length = h.writer.length
      /\ r \in AnyRecord
  BY <1>4, <1>6 DEF AnyRecord
<1> HIDE DEF r
<1>8. r \in Records
  <2>1. b[n].pos <= MaxText /\ Len(b[n].line) <= MaxText
    BY <1>4, RecordForm
  <2> QED BY <1>6, <1>7, <2>1, RecordForm
<1>9. c \in Seq(Records)
  BY <1>2, <1>4, <1>8, ExceptSeq
<1>10. /\ c \in Seq(AnyRecord) /\ Len(c) = n
       /\ \A i \in 1 .. n : c[i] = IF i = n THEN r ELSE b[i]
  BY <1>2, <1>3, <1>7, LastReplaced
<1>11. Used(c) = Used(b) - RecordSize(b[n]) + RecordSize(r)
  BY <1>2, <1>3, <1>7, UsedReplace
<1>12. Used(c) <= Capacity
  <2>1. RecordSize(b[n]) = PosSize + Bytes(b[n].line) /\ RecordSize(r) = PosSize + Bytes(b[n].line) + END_RECORD_SIZE
    BY <1>4, <1>5, <1>6, <1>7, RecordSizeIs
  <2>2. Bytes(b[n].line) \in Nat /\ END_RECORD_SIZE \in Nat /\ PosSize \in Nat /\ Capacity \in Nat
    BY <1>4, RecordSizeIs, SizeAssumption
  <2> QED BY <1>2, <1>3, <1>11, <2>1, <2>2
<1>13. Closed(c, w)
  <2>1. w.op = "none"
    OBVIOUS
  <2> HIDE DEF c, w, b, n
  <2>2. \A i \in 1 .. n : c[i].length = Len(c[i].line)
    BY <1>5, <1>7, <1>10
  <2> QED BY <1>10, <2>1, <2>2 DEF Closed
<1>14. w \in Writers /\ w.op = "none"
  BY <1>2 DEF Writers
<1>15. g = With(h, c, Len(c), w)
  BY <1>1, <1>10, EndRecordIs DEF r
<1> HIDE DEF c, b, w
<1>16. BufferOK(c, Len(c), w)
  BY <1>2, <1>9, <1>10, <1>12, <1>13, <1>14 DEF BufferOK
<1>17. PICK v : Versions(b, v) /\ v[n] = t /\ Starts(h, v[0])
  BY StandsForm DEF b
<1>18. \A i \in 1 .. Len(b) : b[i].op = c[i].op /\ b[i].pos = c[i].pos /\ b[i].line = c[i].line
  BY <1>7, <1>10
<1>19. Versions(c, v)
  BY <1>2, <1>10, <1>17, <1>18, VersionsSame
<1>20. EditsOf(b) = EditsOf(c)
  BY <1>2, <1>10, <1>18, EditsOfSame
<1>21. HistoryOK(h)
  BY DEF Stands
<1> HIDE DEF g
<1>22. /\ Stands(g, v[Len(c)]) /\ PastOf(g) = Before(h) \o EditsOf(c) /\ InUse(g) = c /\ g.writer = w
       /\ g.active = h.active /\ g.previous = h.previous
  BY <1>15, <1>16, <1>17, <1>19, <1>21, StandsWith
<1>23. PastOf(h) = Before(h) \o EditsOf(b)
  BY StandsForm DEF b
<1> QED BY <1>3, <1>10, <1>14, <1>17, <1>20, <1>22, <1>23 DEF g, b

\* A record that fits with its start leads to the text with its edit.
LEMMA BeginKeeps ==
  ASSUME NEW h, NEW t, Stands(h, t), h.writer.op = "none",
         NEW op \in {"insert", "erase"}, NEW pos, NEW line \in Seq(Letters), Fits(t, op, pos, line),
         FreeSpace(h) >= Bytes(line) + START_RECORD_SIZE
  PROVE  LET g == Begin(h, op, pos, line)
         IN /\ Stands(g, Applied(t, op, pos, line)) /\ PastOf(g) = PastOf(h) \o LineEdits(op, pos, line)
            /\ g.writer.op # "none"
            /\ g.active = h.active /\ g.previous = h.previous /\ Len(InUse(g)) # 0
<1> DEFINE b == InUse(h)
           n == Len(b)
           r == [op |-> op, pos |-> pos, line |-> line, length |-> Unknown]
           c == Append(b, r)
           w == [op |-> op, pos |-> pos, length |-> Len(line)]
           g == Begin(h, op, pos, line)
<1>1. h \in Histories /\ BufferOK(b, h.offset, h.writer) /\ h.offset = n /\ HistoryOK(h) /\ t \in Lines
  BY StandsForm DEF Stands, HistoryOK
<1>2. b \in Seq(Records) /\ b \in Seq(AnyRecord) /\ n \in Nat /\ Used(b) \in Nat
  BY <1>1, HistoryForm
<1>3. Closed(b, h.writer)
  BY <1>1 DEF BufferOK
<1>4. pos \in Nat /\ pos <= MaxText /\ Len(line) <= MaxText /\ Len(line) \in Nat
  BY <1>1, AppliedIsText, LenProperties
<1>5. r.op = op /\ r.pos = pos /\ r.line = line /\ r.length = Unknown /\ r \in AnyRecord
  BY <1>4 DEF AnyRecord
<1>6. w \in Writers /\ w.op = op /\ op # "none"
  BY <1>4 DEF Writers
<1>7. g = With(h, c, n + 1, w)
  BY <1>1, BeginIs
<1>8. w = [op |-> r.op, pos |-> r.pos, length |-> Len(r.line)]
  BY <1>5
<1> HIDE DEF r, w, g
<1>9. r \in Records
  BY <1>4, <1>5, RecordForm
<1>10. c \in Seq(Records) /\ c \in Seq(AnyRecord) /\ Len(c) = n + 1 /\ c[n + 1] = r /\ \A i \in 1 .. n : c[i] = b[i]
  <2>1. c \in Seq(Records) /\ Len(c) = n + 1 /\ c[n + 1] = r /\ \A i \in 1 .. n : c[i] = b[i]
    BY <1>2, <1>9, AppendProperties
  <2> QED BY <2>1, BufferForm
<1>11. Used(c) + END_RECORD_SIZE <= Capacity /\ Used(c) <= Capacity
  <2>1. Used(c) = Used(b) + RecordSize(r)
    BY <1>2, <1>5, UsedAppend
  <2>2. /\ RecordSize(r) = PosSize + Bytes(line) /\ Bytes(line) \in Nat
        /\ END_RECORD_SIZE \in Nat /\ PosSize \in Nat /\ START_RECORD_SIZE = PosSize + END_RECORD_SIZE
    BY <1>5, RecordSizeIs
  <2>3. Capacity - Used(b) >= Bytes(line) + START_RECORD_SIZE /\ Capacity \in Nat
    BY SizeAssumption DEF FreeSpace, InUse
  <2> QED BY <1>2, <2>1, <2>2, <2>3
<1>12. Closed(c, w)
  <2>1. \A i \in 1 .. n : b[i].length = Len(b[i].line)
    BY <1>3 DEF Closed
  <2>2. \A i \in 1 .. n + 1 : i = n + 1 \/ (i \in 1 .. n /\ i # n + 1)
    BY <1>2
  <2> HIDE DEF c, b, n
  <2>3. ASSUME NEW i \in 1 .. n + 1
        PROVE  IF i = n + 1 THEN c[i].length = Unknown /\ w = [op |-> c[i].op, pos |-> c[i].pos, length |-> Len(c[i].line)]
                            ELSE c[i].length = Len(c[i].line)
    <3>1. CASE i = n + 1
      BY <1>5, <1>8, <1>10, <3>1
    <3>2. CASE i # n + 1
      BY <1>10, <2>1, <2>2, <3>2
    <3> QED BY <3>1, <3>2
  <2> QED BY <1>6, <1>10, <2>3 DEF Closed
<1> HIDE DEF c, b, n
<1>13. BufferOK(c, Len(c), w)
  BY <1>2, <1>6, <1>10, <1>11, <1>12 DEF BufferOK
<1>14. PICK v : Versions(b, v) /\ v[n] = t /\ Starts(h, v[0])
  BY StandsForm DEF b, n
<1>15. PICK u : Versions(c, u) /\ u[0] = v[0] /\ u[Len(c)] = Applied(t, op, pos, line)
  BY <1>2, <1>5, <1>14, VersionsAppend DEF c, n
<1>16. /\ Stands(g, u[Len(c)]) /\ PastOf(g) = Before(h) \o EditsOf(c) /\ InUse(g) = c /\ g.writer = w
       /\ g.active = h.active /\ g.previous = h.previous
  BY <1>1, <1>7, <1>10, <1>13, <1>14, <1>15, StandsWith
<1>17. PastOf(g) = PastOf(h) \o LineEdits(op, pos, line)
  <2>1. PastOf(h) = Before(h) \o EditsOf(b)
    BY StandsForm DEF b
  <2>2. EditsOf(c) = EditsOf(b) \o LineEdits(op, pos, line)
    BY <1>2, <1>5, EditsOfAppend, EditsOfRecordIs DEF c
  <2>3. EditsOf(b) \in Seq(Edit) /\ LineEdits(op, pos, line) \in Seq(Edit)
    BY <1>2, <1>4, EditsOfConcat, LineEditsForm
  <2>4. Before(h) \in Seq(Edit)
    BY <1>1, BeforeType
  <2>5. (Before(h) \o EditsOf(b)) \o LineEdits(op, pos, line) = Before(h) \o (EditsOf(b) \o LineEdits(op, pos, line))
    BY ONLY <2>3, <2>4, ConcatAssociative
  <2> QED BY <1>16, <2>1, <2>2, <2>5
<1>18. Len(c) # 0
  BY <1>2, <1>10
<1> QED BY <1>6, <1>15, <1>16, <1>17, <1>18 DEF g

\* A record that is extended is one record of both edits.
LEMMA ExtendKeeps ==
  ASSUME NEW h, NEW t, Stands(h, t),
         NEW op \in {"insert", "erase"}, NEW pos, Continues(h, op, pos),
         NEW line \in Seq(Letters), Fits(t, op, pos, line),
         FreeSpace(h) >= Bytes(line) + END_RECORD_SIZE
  PROVE  LET g == Extend(h, line)
         IN /\ Stands(g, Applied(t, op, pos, line)) /\ PastOf(g) = PastOf(h) \o LineEdits(op, pos, line)
            /\ g.writer.op # "none"
            /\ g.active = h.active /\ g.previous = h.previous /\ Len(InUse(g)) # 0
<1> DEFINE b == InUse(h)
           n == Len(b)
           r == b[n]
           l == r.line
           q == [b[n] EXCEPT !.line = l \o line]
           c == [b EXCEPT ![n] = q]
           w == [op |-> h.writer.op, pos |-> h.writer.pos, length |-> h.writer.length + Len(line)]
           g == Extend(h, line)
           a == SubSeq(b, 1, n - 1)
<1>1. h \in Histories /\ BufferOK(b, h.offset, h.writer) /\ h.offset = n /\ HistoryOK(h) /\ t \in Lines
  BY StandsForm DEF Stands, HistoryOK
<1>2. b \in Seq(Records) /\ b \in Seq(AnyRecord) /\ n \in Nat /\ Used(b) \in Nat /\ h.writer \in Writers
  BY <1>1, HistoryForm
<1>3. h.writer.op = op /\ op # "none"
  BY DEF Continues
<1>4. n # 0 /\ Used(b) + END_RECORD_SIZE <= Capacity /\ Closed(b, h.writer)
  BY <1>1, <1>3 DEF BufferOK
<1>5. n \in 1 .. n /\ r \in Records /\ r \in AnyRecord
  BY <1>2, <1>4, BufferForm
<1>6. /\ \A i \in 1 .. n : i # n => b[i].length = Len(b[i].line)
      /\ r.length = Unknown /\ r.op = op /\ h.writer.pos = r.pos /\ h.writer.length = Len(l)
  <2>1. \A i \in 1 .. n : IF i = n
          THEN b[i].length = Unknown /\ h.writer = [op |-> b[i].op, pos |-> b[i].pos, length |-> Len(b[i].line)]
          ELSE b[i].length = Len(b[i].line)
    BY <1>3, <1>4 DEF Closed
  <2> HIDE DEF b, n
  <2>2. r.length = Unknown /\ h.writer = [op |-> r.op, pos |-> r.pos, length |-> Len(r.line)]
    BY <1>5, <2>1
  <2> HIDE DEF r
  <2>3. h.writer.op = r.op /\ h.writer.pos = r.pos /\ h.writer.length = Len(r.line)
    BY <2>2
  <2>4. \A i \in 1 .. n : i # n => b[i].length = Len(b[i].line)
    BY <2>1
  <2> QED BY <1>3, <2>2, <2>3, <2>4
<1>7. l \in Seq(Letters) /\ Len(l) \in Nat /\ Len(line) \in Nat /\ r.pos \in Nat /\ r.pos <= MaxText
  BY <1>5, RecordForm, LenProperties DEF AnyRecord
<1>8. l \o line \in Seq(Letters) /\ Len(l \o line) = Len(l) + Len(line)
  BY <1>7, ConcatProperties
<1>9. q.op = op /\ q.pos = r.pos /\ q.line = l \o line /\ q.length = Unknown /\ q \in AnyRecord
  BY <1>5, <1>6, <1>8 DEF AnyRecord
<1>10. pos = RestAt(op, r.pos, Len(l))
  BY <1>6, <1>7 DEF Continues, RestAt
<1>11. w \in Writers /\ w.op = op /\ w = [op |-> q.op, pos |-> q.pos, length |-> Len(q.line)]
  <2>1. w = [op |-> op, pos |-> r.pos, length |-> Len(l) + Len(line)]
    BY <1>3, <1>6
  <2> HIDE DEF w, q, l, r
  <2>2. w = [op |-> q.op, pos |-> q.pos, length |-> Len(q.line)]
    BY <1>8, <1>9, <2>1
  <2>3. w.op = op
    BY <2>1
  <2>4. w \in Writers
    BY <1>7, <2>1 DEF Writers
  <2> QED BY <2>2, <2>3, <2>4
<1>12. g = With(h, c, n, w)
  BY <1>1, ExtendIs
<1> HIDE DEF q, w, g
<1>13. /\ c \in Seq(AnyRecord) /\ Len(c) = n
       /\ \A i \in 1 .. n : c[i] = IF i = n THEN q ELSE b[i]
       /\ c = Append(a, q) /\ b = Append(a, r) /\ a \in Seq(AnyRecord)
  BY <1>2, <1>4, <1>9, LastReplaced
<1> HIDE DEF c
<1>14. PICK v : Versions(b, v) /\ v[n] = t /\ Starts(h, v[0])
  BY StandsForm DEF b
<1>15. /\ n - 1 \in 0 .. n /\ v[n - 1] \in Lines
       /\ Fits(v[n - 1], op, r.pos, l) /\ t = Applied(v[n - 1], op, r.pos, l)
  <2>1. n - 1 \in 0 .. n
    BY <1>2, <1>4
  <2> HIDE DEF n
  <2>2. v \in [0 .. n -> Lines] /\ Fits(v[n - 1], r.op, r.pos, r.line) /\ v[n] = Applied(v[n - 1], r.op, r.pos, r.line)
    BY <1>5, <1>14 DEF Versions, n
  <2> QED BY <1>6, <1>14, <2>1, <2>2
<1> DEFINE s == v[n - 1]
<1> HIDE DEF l, r
<1>16. Fits(s, op, r.pos, l \o line)
  BY <1>7, <1>10, <1>15, JoinEdit
<1>17. Applied(s, op, r.pos, l \o line) = Applied(t, op, pos, line)
  BY <1>7, <1>10, <1>15, <1>16, SplitEdit
<1>18. Len(l \o line) <= MaxText
  BY <1>8, <1>15, <1>16, AppliedIsText
<1>19. q \in Records
  BY <1>7, <1>9, <1>18, RecordForm
<1>20. c \in Seq(Records)
  BY <1>2, <1>5, <1>19, ExceptSeq DEF c
<1>21. Used(c) + END_RECORD_SIZE <= Capacity /\ Used(c) <= Capacity
  <2>1. Used(c) = Used(b) - RecordSize(r) + RecordSize(q)
    BY <1>2, <1>4, <1>9, UsedReplace DEF c, r
  <2>2. /\ RecordSize(r) = PosSize + Bytes(l) /\ RecordSize(q) = PosSize + Bytes(l \o line)
        /\ Bytes(l) \in Nat /\ END_RECORD_SIZE \in Nat /\ PosSize \in Nat
    BY <1>5, <1>6, <1>9, RecordSizeIs DEF l
  <2>3. Bytes(l \o line) = Bytes(l) + Bytes(line) /\ Bytes(line) \in Nat
    BY <1>7, <1>8, Multiples, SizeAssumption DEF Bytes
  <2>4. Capacity - Used(b) >= Bytes(line) + END_RECORD_SIZE /\ Capacity \in Nat
    BY SizeAssumption DEF FreeSpace, InUse
  <2> QED BY <1>2, <2>1, <2>2, <2>3, <2>4
<1>22. Closed(c, w)
  <2> HIDE DEF b, n
  <2>1. \A i \in 1 .. n : IF i = n THEN c[i].length = Unknown /\ w = [op |-> c[i].op, pos |-> c[i].pos, length |-> Len(c[i].line)]
                                   ELSE c[i].length = Len(c[i].line)
    BY <1>6, <1>9, <1>11, <1>13
  <2> QED BY <1>3, <1>11, <1>13, <2>1 DEF Closed
<1> HIDE DEF b, n, a
<1>23. BufferOK(c, Len(c), w)
  BY <1>2, <1>4, <1>11, <1>13, <1>20, <1>21, <1>22 DEF BufferOK
<1>24. PICK u : Versions(a, u) /\ u[0] = v[0] /\ u[n - 1] = s
  <2>1. n - 1 \in 0 .. Len(b) /\ 0 \in 0 .. n - 1 /\ n - 1 \in 0 .. n - 1
    BY <1>2, <1>4 DEF n
  <2>2. PICK u : Versions(SubSeq(b, 1, n - 1), u) /\ \A i \in 0 .. n - 1 : u[i] = v[i]
    BY <1>2, <1>14, <2>1, VersionsPrefix
  <2> QED BY <2>1, <2>2 DEF a
<1>25. Len(a) = n - 1
  <2>1. n - 1 \in 0 .. Len(b)
    BY <1>2, <1>4 DEF n
  <2> QED BY <1>2, <2>1, UsedPrefix DEF a
<1>26. PICK x : Versions(c, x) /\ x[0] = v[0] /\ x[Len(c)] = Applied(t, op, pos, line)
  <2>1. Fits(s, q.op, q.pos, q.line) /\ Applied(s, q.op, q.pos, q.line) = Applied(t, op, pos, line)
    BY <1>9, <1>16, <1>17
  <2>2. u[Len(a)] = s
    BY <1>24, <1>25
  <2> HIDE DEF s
  <2>3. \E x : /\ Versions(Append(a, q), x) /\ x[0] = u[0]
               /\ x[Len(Append(a, q))] = Applied(s, q.op, q.pos, q.line)
    <3>1. a \in Seq(AnyRecord) /\ q \in AnyRecord /\ Versions(a, u) /\ u[Len(a)] = s /\ Fits(s, q.op, q.pos, q.line)
      BY <1>9, <1>13, <1>24, <2>1, <2>2
    <3> QED BY ONLY <3>1, VersionsAppend
  <2> QED BY <1>13, <1>24, <2>1, <2>3
<1>27. /\ Stands(g, x[Len(c)]) /\ PastOf(g) = Before(h) \o EditsOf(c) /\ InUse(g) = c /\ g.writer = w
       /\ g.active = h.active /\ g.previous = h.previous
  <2>1. g = With(h, c, Len(c), w) /\ Starts(h, x[0])
    BY <1>12, <1>13, <1>14, <1>26
  <2> QED BY <1>1, <1>23, <1>26, <2>1, StandsWith
<1>28. PastOf(g) = PastOf(h) \o LineEdits(op, pos, line)
  <2>1. PastOf(h) = Before(h) \o EditsOf(b)
    BY StandsForm DEF b
  <2>2. EditsOf(c) = EditsOf(a) \o LineEdits(op, r.pos, l \o line)
    BY <1>9, <1>13, EditsOfAppend, EditsOfRecordIs
  <2>3. EditsOf(b) = EditsOf(a) \o LineEdits(op, r.pos, l)
    BY <1>5, <1>6, <1>13, EditsOfAppend, EditsOfRecordIs DEF l
  <2>4. LineEdits(op, r.pos, l \o line) = LineEdits(op, r.pos, l) \o LineEdits(op, pos, line) /\ pos \in Nat
    BY <1>7, <1>10, LineEditsSplit
  <2>5. /\ EditsOf(a) \in Seq(Edit) /\ LineEdits(op, pos, line) \in Seq(Edit) /\ LineEdits(op, r.pos, l) \in Seq(Edit)
    BY <1>7, <1>13, <2>4, EditsOfConcat, LineEditsForm
  <2>6. Before(h) \in Seq(Edit)
    BY <1>1, BeforeType
  <2>7. EditsOf(c) = EditsOf(b) \o LineEdits(op, pos, line)
    <3>1. EditsOf(a) \o (LineEdits(op, r.pos, l) \o LineEdits(op, pos, line))
          = (EditsOf(a) \o LineEdits(op, r.pos, l)) \o LineEdits(op, pos, line)
      BY <2>5, ConcatAssociative
    <3> QED BY <2>2, <2>3, <2>4, <3>1
  <2>8. EditsOf(b) \in Seq(Edit)
    BY <1>2, EditsOfConcat
  <2>9. Before(h) \o (EditsOf(b) \o LineEdits(op, pos, line)) = (Before(h) \o EditsOf(b)) \o LineEdits(op, pos, line)
    <3>1. Before(h) \in Seq(Edit) /\ EditsOf(b) \in Seq(Edit) /\ LineEdits(op, pos, line) \in Seq(Edit)
      BY <2>5, <2>6, <2>8
    <3> QED BY ONLY <3>1, ConcatAssociative
  <2> QED BY <1>27, <2>1, <2>7, <2>9
<1>29. Len(c) # 0
  BY <1>4, <1>13
<1> QED BY <1>3, <1>11, <1>26, <1>27, <1>28, <1>29 DEF g

\* The other buffer is in use from its start.
LEMMA SwitchBufferIs ==
  ASSUME NEW h \in Histories
  PROVE  LET g == SwitchBuffer(h)
         IN /\ g \in Histories /\ g.previous = h.active /\ g.active = 3 - h.active
            /\ InUse(g) = <<>> /\ g.buffers[h.active] = InUse(h) /\ g.offset = 0 /\ g.writer = h.writer
<1> DEFINE g == SwitchBuffer(h)
           o == 3 - h.active
<1>1. /\ h.active \in 1 .. 2 /\ o \in 1 .. 2 /\ o # h.active /\ h.writer \in Writers
      /\ h.buffers \in [1 .. 2 -> Seq(Records)]
  BY HistoryForm
<1>2. /\ g = [i \in DOMAIN g |-> g[i]]
      /\ DOMAIN g = {"buffers", "active", "previous", "offset", "writer"}
  BY DEF SwitchBuffer, Histories
<1>3. /\ g.buffers = [h.buffers EXCEPT ![o] = <<>>]
      /\ g.active = o /\ g.previous = h.active /\ g.offset = 0 /\ g.writer = h.writer
  BY DEF SwitchBuffer, Histories
<1> HIDE DEF g, o
<1>4. g.buffers[o] = <<>> /\ g.buffers[h.active] = h.buffers[h.active] /\ g.buffers \in [1 .. 2 -> Seq(Records)]
  <2>1. <<>> \in Seq(Records)
    BY EmptySeq
  <2> QED BY <1>1, <1>3, <2>1
<1>5. g = [buffers |-> g.buffers, active |-> g.active, previous |-> g.previous, offset |-> g.offset, writer |-> g.writer]
  BY <1>2, HistoryFields
<1>6. g \in Histories
  <2>1. o \in 1 .. 2 /\ h.active \in 0 .. 2 /\ 0 \in Nat
    BY <1>1
  <2> QED BY <1>1, <1>3, <1>4, <1>5, <2>1 DEF Histories
<1> QED BY <1>3, <1>4, <1>6 DEF g, o, InUse

\* Switching forgets what the older buffer held, and only that.
LEMMA SwitchBufferKeeps ==
  ASSUME NEW h, NEW t, Stands(h, t), h.writer.op = "none", Len(InUse(h)) # 0
  PROVE  LET g == SwitchBuffer(h)
         IN /\ Stands(g, t) /\ PastOf(h) = Before(h) \o PastOf(g) /\ g.writer.op = "none"
            /\ InUse(g) = <<>> /\ FreeSpace(g) = Capacity
<1> DEFINE g == SwitchBuffer(h)
           b == InUse(h)
           o == 3 - h.active
<1>1. h \in Histories /\ BufferOK(b, h.offset, h.writer) /\ h.offset = Len(b) /\ HistoryOK(h) /\ t \in Lines
  BY StandsForm DEF Stands, HistoryOK
<1>2. /\ h.active \in 1 .. 2 /\ 3 - h.active \in 1 .. 2 /\ 3 - (3 - h.active) = h.active /\ h.active # 0
      /\ b \in Seq(Records) /\ b \in Seq(AnyRecord) /\ Len(b) \in Nat /\ h.writer \in Writers
  BY <1>1, HistoryForm
<1>3. /\ g \in Histories /\ g.previous = h.active /\ g.active = 3 - h.active
      /\ InUse(g) = <<>> /\ g.buffers[h.active] = b /\ g.offset = 0 /\ g.writer = h.writer
  BY <1>1, SwitchBufferIs
<1> HIDE DEF g
<1>4. /\ Used(b) <= Capacity /\ Closed(b, h.writer)
  BY <1>1 DEF BufferOK
<1>5. AllClosed(b)
  BY <1>4 DEF AllClosed, Closed
<1>6. Len(<<>>) = 0 /\ <<>> \in Seq(Records) /\ <<>> \in Seq(AnyRecord) /\ Used(<<>>) = 0
  BY EmptySeq, UsedEmpty
<1>7. BufferOK(<<>>, 0, h.writer)
  <2>1. 0 \in 0 .. Len(<<>>) /\ 1 .. Len(<<>>) = {}
    BY <1>6
  <2>2. Closed(<<>>, h.writer)
    BY <2>1 DEF Closed
  <2>3. Used(<<>>) <= Capacity
    BY <1>6, SizeAssumption
  <2> QED BY <1>2, <1>6, <2>1, <2>2, <2>3 DEF BufferOK
<1>8. HistoryOK(g)
  <2>1. BufferOK(InUse(g), g.offset, g.writer)
    BY <1>3, <1>7
  <2>2. 3 - g.active = h.active /\ g.buffers[3 - g.active] = b
    BY <1>2, <1>3
  <2>3. g.previous \in {0, 3 - g.active} /\ Len(g.buffers[g.previous]) # 0
    BY <1>3, <2>2
  <2> QED BY <1>3, <1>4, <1>5, <2>1, <2>2, <2>3 DEF HistoryOK
<1>9. PICK v : Versions(b, v) /\ v[Len(b)] = t
  BY StandsForm DEF b
<1>10. Starts(g, t)
  BY <1>3, <1>9 DEF Starts
<1>11. Leads(g, t)
  <2>1. PICK u : Versions(<<>>, u) /\ u[0] = t
    BY <1>1, VersionsEmpty
  <2> QED BY <1>3, <1>10, <2>1 DEF Leads
<1>12. Stands(g, t)
  BY <1>3, <1>6, <1>8, <1>11 DEF Stands
<1>13. EditsOf(b) \in Seq(Edit)
  BY <1>2, EditsOfConcat
<1>14. PastOf(g) = EditsOf(b)
  <2>1. PastOf(g) = Before(g) \o EditsOf(<<>>)
    BY <1>3, <1>12, StandsForm
  <2>2. Before(g) = EditsOf(b)
    BY <1>2, <1>3 DEF Before
  <2> QED BY <1>13, <2>1, <2>2, EditsOfEmpty, ConcatEmptySeq
<1>15. PastOf(h) = Before(h) \o PastOf(g)
  BY <1>14, StandsForm DEF b
<1>16. FreeSpace(g) = Capacity
  BY <1>3, <1>6, SizeAssumption DEF FreeSpace, InUse
<1> QED BY <1>3, <1>12, <1>15, <1>16 DEF g

\* A trimmed buffer keeps what was not undone.
LEMMA TrimKeeps ==
  ASSUME NEW h, NEW t, HistoryOK(h), Leads(h, t)
  PROVE  LET g == Trim(h)
         IN Stands(g, t) /\ PastOf(g) = PastOf(h) /\ g.writer = h.writer
<1> DEFINE g == Trim(h)
           b == InUse(h)
           n == h.offset
           c == SubSeq(b, 1, n)
<1>1. h \in Histories /\ BufferOK(b, n, h.writer)
  BY DEF HistoryOK
<1>2. /\ b \in Seq(Records) /\ b \in Seq(AnyRecord) /\ Len(b) \in Nat /\ h.writer \in Writers /\ Used(b) \in Nat
      /\ n \in 0 .. Len(b) /\ n \in Nat
  BY <1>1, HistoryForm DEF BufferOK
<1>3. g = With(h, c, n, h.writer)
  BY <1>1, TrimIs
<1> HIDE DEF g
<1>4. /\ Used(b) <= Capacity /\ Closed(b, h.writer)
      /\ h.writer.op # "none" => n = Len(b) /\ n # 0 /\ Used(b) + END_RECORD_SIZE <= Capacity
  BY <1>1 DEF BufferOK
<1>5. /\ c \in Seq(AnyRecord) /\ Len(c) = n
      /\ \A i \in 1 .. n : c[i] = b[i]
      /\ Used(c) <= Used(b) /\ Used(c) \in Nat
  BY <1>2, UsedPrefix, UsedType
<1>6. c \in Seq(Records)
  <2>1. 1 \in 1 .. Len(b) + 1 /\ n \in 1 - 1 .. Len(b)
    BY <1>2
  <2> QED BY <1>2, <2>1, PartOf
<1>7. n = Len(b) => c = b
  BY <1>2, SubSeqFull
<1> HIDE DEF c, b, n
<1>8. Closed(c, h.writer)
  <2>1. CASE h.writer.op # "none"
    BY <1>4, <1>7, <2>1
  <2>2. CASE h.writer.op = "none"
    <3>1. \A i \in 1 .. Len(b) : b[i].length = Len(b[i].line)
      BY <1>4, <2>2 DEF Closed
    <3>2. \A i \in 1 .. n : i \in 1 .. Len(b)
      BY <1>2
    <3>3. \A i \in 1 .. n : c[i].length = Len(c[i].line)
      BY <1>5, <3>1, <3>2
    <3> QED BY <1>5, <2>2, <3>3 DEF Closed
  <2> QED BY <2>1, <2>2
<1>9. Used(c) <= Capacity /\ (h.writer.op # "none" => n # 0 /\ Used(c) + END_RECORD_SIZE <= Capacity)
  <2>1. Capacity \in Nat
    BY SizeAssumption
  <2> QED BY <1>2, <1>4, <1>5, <1>7, <2>1
<1>10. BufferOK(c, Len(c), h.writer)
  BY <1>2, <1>5, <1>6, <1>8, <1>9 DEF BufferOK
<1>11. PICK v : Versions(b, v) /\ v[n] = t /\ Starts(h, v[0])
  BY DEF Leads, b, n
<1>12. PICK u : Versions(c, u) /\ u[0] = v[0] /\ u[Len(c)] = t
  <2>1. PICK u : Versions(SubSeq(b, 1, n), u) /\ \A i \in 0 .. n : u[i] = v[i]
    BY <1>2, <1>11, VersionsPrefix
  <2>2. 0 \in 0 .. n /\ n \in 0 .. n
    BY <1>2
  <2> QED BY <1>5, <1>11, <2>1, <2>2 DEF c
<1>13. /\ Stands(g, u[Len(c)]) /\ PastOf(g) = Before(h) \o EditsOf(c) /\ g.writer = h.writer
  <2>1. g = With(h, c, Len(c), h.writer) /\ Starts(h, u[0])
    BY <1>3, <1>5, <1>11, <1>12
  <2> QED BY <1>10, <1>12, <2>1, StandsWith
<1>14. PastOf(h) = Before(h) \o EditsOf(c)
  BY DEF PastOf, c, b, n
<1> QED BY <1>12, <1>13, <1>14 DEF g

-----------------------------------------------------------------------------
(* Writing an edit, however many buffers it takes.                         *)

\* What is written of an edit and what is left of it make T of the text and,
\* but for what was forgotten, P \o E of the past.
Goes(w, op, T, P, E) ==
  /\ w.pos \in Nat /\ w.line \in Seq(Letters)
  /\ \E t : Stands(w.history, t) /\ Fits(t, op, w.pos, w.line) /\ Applied(t, op, w.pos, w.line) = T
  /\ \E e \in Seq(Edit), x \in Seq(Edit) :
       P \o e = x \o PastOf(w.history) /\ e \o LineEdits(op, w.pos, w.line) = E

Fresh(h) == InUse(h) = <<>> /\ h.writer.op = "none"

\* Nothing is left of an edit that was done.
LEMMA DoneEdit ==
  ASSUME NEW t \in Lines, NEW op \in {"insert", "erase"}, NEW pos, NEW line \in Seq(Letters), Fits(t, op, pos, line)
  PROVE  /\ Fits(Applied(t, op, pos, line), op, pos, <<>>)
         /\ Applied(Applied(t, op, pos, line), op, pos, <<>>) = Applied(t, op, pos, line)
         /\ LineEdits(op, pos, <<>>) = <<>> /\ <<>> \in Seq(Letters)
<1> DEFINE T == Applied(t, op, pos, line)
<1>1. T \in Lines /\ pos \in Nat
  BY AppliedIsText
<1>2. t \in Seq(Letters) /\ Len(t) \in Nat /\ Len(line) \in Nat /\ T \in Seq(Letters) /\ Len(T) <= MaxText /\ Len(T) \in Nat
  BY <1>1, LinesForm, LenProperties
<1>3. pos \in 0 .. Len(T)
  <2>1. pos \in 0 .. Len(t)
    BY DEF Fits
  <2>2. CASE op = "insert"
    <3>1. Len(T) = Len(t) + Len(line)
      BY <1>2, <2>1, <2>2, InsertedForm DEF Applied
    <3> QED BY <1>2, <2>1, <3>1
  <2>3. CASE op = "erase"
    <3>1. pos + Len(line) <= Len(t)
      BY <2>3 DEF Fits, Has
    <3>2. Len(T) = Len(t) - Len(line)
      BY <1>1, <1>2, <2>3, <3>1, RemovedForm DEF Applied
    <3> QED BY <1>1, <1>2, <3>1, <3>2
  <2> QED BY <2>2, <2>3
<1>4. <<>> \in Seq(Letters) /\ Len(<<>>) = 0 /\ 1 .. 0 = {}
  BY EmptySeq
<1> HIDE DEF T
<1>5. Fits(T, op, pos, <<>>)
  BY <1>1, <1>2, <1>3, <1>4 DEF Fits, Has
<1>6. Applied(T, op, pos, <<>>) = T
  <2>1. Inserted(T, pos, <<>>) = T /\ Removed(T, pos, 0) = T
    BY <1>2, <1>3, Nothing
  <2> QED BY <1>4, <2>1 DEF Applied
<1>7. LineEdits(op, pos, <<>>) = <<>>
  <2>1. LineEdits(op, pos, <<>>) \in Seq(Edit) /\ Len(LineEdits(op, pos, <<>>)) = 0
    BY <1>1, <1>4, LineEditsForm
  <2> QED BY <2>1, EmptySeq
<1> QED BY <1>4, <1>5, <1>6, <1>7 DEF T

LEMMA EditsAssociative ==
  ASSUME NEW a \in Seq(Edit), NEW b \in Seq(Edit), NEW c \in Seq(Edit)
  PROVE  (a \o b) \o c = a \o (b \o c)
BY ConcatAssociative

LEMMA PastType ==
  ASSUME NEW h, HistoryOK(h)
  PROVE  PastOf(h) \in Seq(Edit)
<1>1. Before(h) \in Seq(Edit)
  BY BeforeType
<1>2. InUse(h) \in Seq(AnyRecord) /\ h.offset \in 0 .. Len(InUse(h))
  BY HistoryForm DEF HistoryOK, BufferOK
<1>3. SubSeq(InUse(h), 1, h.offset) \in Seq(AnyRecord)
  BY <1>2, UsedPrefix
<1>4. EditsOf(SubSeq(InUse(h), 1, h.offset)) \in Seq(Edit)
  BY <1>3, EditsOfConcat
<1> QED BY <1>1, <1>4, ConcatProperties DEF PastOf

\* A line in two parts.
LEMMA LineParts ==
  ASSUME NEW line \in Seq(Letters), NEW n \in 0 .. Len(line)
  PROVE  LET l == SubSeq(line, 1, n)
             m == SubSeq(line, n + 1, Len(line))
         IN /\ l \in Seq(Letters) /\ m \in Seq(Letters) /\ l \o m = line
            /\ Len(l) = n /\ Len(m) = Len(line) - n
<1> DEFINE l == SubSeq(line, 1, n)
           m == SubSeq(line, n + 1, Len(line))
           k == 1
<1>1. Len(line) \in Nat /\ n \in Nat /\ n <= Len(line)
  BY LenProperties
<1>2. k \in 1 .. Len(line) + 1 /\ n \in k - 1 .. Len(line) /\ n - k + 1 = n
  BY <1>1
<1>3. n + 1 \in 1 .. Len(line) + 1 /\ Len(line) \in (n + 1) - 1 .. Len(line) /\ Len(line) - (n + 1) + 1 = Len(line) - n
  BY <1>1
<1>4. m \in Seq(Letters) /\ Len(m) = Len(line) - n /\ \A i \in 1 .. Len(line) - n : m[i] = line[(n + 1) + i - 1]
  <2> DEFINE q == n + 1
  <2>1. line \in Seq(Letters) /\ q \in 1 .. Len(line) + 1 /\ Len(line) \in q - 1 .. Len(line) /\ Len(line) - q + 1 = Len(line) - n
    BY <1>3
  <2> HIDE DEF q
  <2>2. /\ SubSeq(line, q, Len(line)) \in Seq(Letters) /\ Len(SubSeq(line, q, Len(line))) = Len(line) - n
        /\ \A i \in 1 .. Len(line) - n : SubSeq(line, q, Len(line))[i] = line[q + i - 1]
    BY ONLY <2>1, PartOf
  <2> QED BY <2>2 DEF q
<1> HIDE DEF k
<1>5. SubSeq(line, k, n) \in Seq(Letters) /\ Len(SubSeq(line, k, n)) = n /\ \A i \in 1 .. n : SubSeq(line, k, n)[i] = line[k + i - 1]
  BY <1>2, PartOf
<1>6. l \in Seq(Letters) /\ Len(l) = n /\ \A i \in 1 .. n : l[i] = line[i]
  <2>1. \A i \in 1 .. n : 1 + i - 1 = i
    BY <1>1
  <2> QED BY <1>5, <2>1 DEF k
<1> HIDE DEF l, m
<1>7. /\ l \o m \in Seq(Letters) /\ Len(l \o m) = Len(l) + Len(m)
      /\ \A i \in 1 .. Len(l) + Len(m) : (l \o m)[i] = IF i <= Len(l) THEN l[i] ELSE m[i - Len(l)]
  BY <1>4, <1>6, ConcatProperties
<1>8. Len(l \o m) = Len(line)
  BY <1>1, <1>4, <1>6, <1>7
<1>9. ASSUME NEW i \in 1 .. Len(line) PROVE (l \o m)[i] = line[i]
  <2>1. CASE i <= n
    <3>1. i \in 1 .. n /\ i \in 1 .. Len(l) + Len(m)
      BY <1>1, <1>4, <1>6, <2>1
    <3> QED BY <1>6, <1>7, <2>1, <3>1
  <2>2. CASE ~(i <= n)
    <3>1. i - n \in 1 .. Len(line) - n /\ i \in 1 .. Len(l) + Len(m) /\ (n + 1) + (i - n) - 1 = i
      BY <1>1, <1>4, <1>6, <2>2
    <3>2. (l \o m)[i] = m[i - n]
      BY <1>6, <1>7, <2>2, <3>1
    <3>3. m[i - n] = line[(n + 1) + (i - n) - 1]
      BY <1>4, <3>1
    <3> QED BY <3>1, <3>2, <3>3
  <2> QED BY <2>1, <2>2
<1>10. l \o m = line
  BY <1>7, <1>8, <1>9, SeqEqual
<1> QED BY <1>4, <1>6, <1>10 DEF l, m

\* A line is left to be written to a history that leads to t.
Left(h, t, op, pos, line, P, e, x) ==
  /\ Stands(h, t) /\ op \in {"insert", "erase"} /\ line \in Seq(Letters) /\ Fits(t, op, pos, line)
  /\ P \in Seq(Edit) /\ e \in Seq(Edit) /\ x \in Seq(Edit) /\ P \o e = x \o PastOf(h)

\* The line is written.
LEMMA WrittenGoes ==
  ASSUME NEW h, NEW t, NEW op, NEW pos, NEW line, NEW P, NEW e, NEW x, Left(h, t, op, pos, line, P, e, x),
         NEW g, Stands(g, Applied(t, op, pos, line)), PastOf(g) = PastOf(h) \o LineEdits(op, pos, line)
  PROVE  Goes(Written(g, pos), op, Applied(t, op, pos, line), P, e \o LineEdits(op, pos, line))
<1> DEFINE w == Written(g, pos)
           d == LineEdits(op, pos, line)
           T == Applied(t, op, pos, line)
<1>0. /\ Stands(h, t) /\ op \in {"insert", "erase"} /\ line \in Seq(Letters) /\ Fits(t, op, pos, line)
      /\ P \in Seq(Edit) /\ e \in Seq(Edit) /\ x \in Seq(Edit) /\ P \o e = x \o PastOf(h)
  BY DEF Left
<1>1. w.history = g /\ w.pos = pos /\ w.line = <<>>
  BY <1>0 DEF Written
<1> HIDE DEF w
<1>2. t \in Lines
  BY <1>0, StandsForm
<1>3. pos \in Nat
  BY <1>0, <1>2, AppliedIsText
<1>4. Fits(T, op, pos, <<>>) /\ Applied(T, op, pos, <<>>) = T /\ LineEdits(op, pos, <<>>) = <<>> /\ <<>> \in Seq(Letters)
  BY <1>0, <1>2, DoneEdit
<1>5. d \in Seq(Edit) /\ PastOf(h) \in Seq(Edit) /\ PastOf(g) \in Seq(Edit) /\ <<>> \in Seq(Edit)
  BY <1>0, <1>3, LineEditsForm, PastType, EmptySeq DEF Stands
<1> HIDE DEF d, T
<1>6. e \o d \in Seq(Edit) /\ (e \o d) \o <<>> = e \o d
  BY <1>0, <1>5, ConcatProperties, ConcatEmptySeq
<1>9. P \o (e \o d) = x \o PastOf(g)
  <2>1. PastOf(g) = PastOf(h) \o d
    BY <1>0 DEF d
  <2>2. (P \o e) \o d = P \o (e \o d)
    <3>1. P \in Seq(Edit) /\ e \in Seq(Edit) /\ d \in Seq(Edit)
      BY <1>0, <1>5
    <3> QED BY ONLY <3>1, EditsAssociative
  <2>3. (x \o PastOf(h)) \o d = x \o (PastOf(h) \o d)
    <3>1. x \in Seq(Edit) /\ PastOf(h) \in Seq(Edit) /\ d \in Seq(Edit)
      BY <1>0, <1>5
    <3> QED BY ONLY <3>1, EditsAssociative
  <2> QED BY <1>0, <2>1, <2>2, <2>3
<1>10. Stands(w.history, T) /\ Fits(T, op, w.pos, w.line) /\ Applied(T, op, w.pos, w.line) = T
  BY <1>0, <1>1, <1>4 DEF T
<1>11. P \o (e \o d) = x \o PastOf(w.history) /\ (e \o d) \o LineEdits(op, w.pos, w.line) = e \o d
  BY <1>0, <1>1, <1>4, <1>6, <1>9
<1>12. w.pos \in Nat /\ w.line \in Seq(Letters)
  BY <1>0, <1>1, <1>3, <1>4
<1> QED BY <1>0, <1>6, <1>10, <1>11, <1>12 DEF Goes, w, d, T

\* n characters are written and the rest goes to the other buffer.
LEMMA RestGoes ==
  ASSUME NEW h, NEW t, NEW op, NEW pos, NEW line, NEW P, NEW e, NEW x, Left(h, t, op, pos, line, P, e, x),
         NEW n \in 0 .. Len(line), NEW g, Stands(g, Applied(t, op, pos, SubSeq(line, 1, n))),
         PastOf(g) = PastOf(h) \o LineEdits(op, pos, SubSeq(line, 1, n)),
         g.writer.op = "none", Len(InUse(g)) # 0
  PROVE  LET w == RestOf(g, op, pos, line, n)
         IN /\ Goes(w, op, Applied(t, op, pos, line), P, e \o LineEdits(op, pos, line))
            /\ Fresh(w.history) /\ ~w.done /\ Len(w.line) = Len(line) - n
<1> DEFINE w == RestOf(g, op, pos, line, n)
           f == SwitchBuffer(g)
           l == SubSeq(line, 1, n)
           m == SubSeq(line, n + 1, Len(line))
           d == LineEdits(op, pos, l)
           q == RestAt(op, pos, n)
           T == Applied(t, op, pos, line)
           s == Applied(t, op, pos, l)
           y == Before(g)
<1>0. /\ Stands(h, t) /\ op \in {"insert", "erase"} /\ line \in Seq(Letters) /\ Fits(t, op, pos, line)
      /\ P \in Seq(Edit) /\ e \in Seq(Edit) /\ x \in Seq(Edit) /\ P \o e = x \o PastOf(h)
  BY DEF Left
<1>1. w.history = f /\ w.pos = q /\ w.line = m /\ w.done = FALSE
  BY <1>0 DEF RestOf
<1>2. t \in Lines
  BY <1>0, StandsForm
<1>3. pos \in Nat
  BY <1>0, <1>2, AppliedIsText
<1>4. l \in Seq(Letters) /\ m \in Seq(Letters) /\ l \o m = line /\ Len(l) = n /\ Len(m) = Len(line) - n
  BY <1>0, LineParts
<1> HIDE DEF w, f, l, m
<1>5. /\ Fits(s, op, q, m) /\ Applied(s, op, q, m) = T
  <2>1. t \in Lines /\ l \in Seq(Letters) /\ m \in Seq(Letters) /\ Fits(t, op, pos, l \o m)
    BY <1>0, <1>2, <1>4
  <2>2. /\ Fits(Applied(t, op, pos, l), op, RestAt(op, pos, Len(l)), m)
        /\ Applied(Applied(t, op, pos, l), op, RestAt(op, pos, Len(l)), m) = Applied(t, op, pos, l \o m)
    BY <1>0, <2>1, SplitEdit
  <2> QED BY <1>0, <1>4, <2>2
<1>6. LineEdits(op, pos, line) = d \o LineEdits(op, q, m) /\ q \in Nat
  BY <1>0, <1>3, <1>4, LineEditsSplit
<1>7. Stands(f, s) /\ PastOf(g) = y \o PastOf(f) /\ f.writer.op = "none" /\ InUse(f) = <<>>
  BY <1>0, SwitchBufferKeeps DEF f, l
<1> HIDE DEF T, s, q
<1>8. /\ d \in Seq(Edit) /\ LineEdits(op, q, m) \in Seq(Edit)
      /\ PastOf(h) \in Seq(Edit) /\ PastOf(f) \in Seq(Edit) /\ y \in Seq(Edit)
  BY <1>0, <1>3, <1>4, <1>6, <1>7, LineEditsForm, PastType, BeforeType DEF Stands
<1>9. PastOf(g) = PastOf(h) \o d
  BY <1>0 DEF d, l
<1> HIDE DEF d, y
<1>10. P \o (e \o d) = (x \o y) \o PastOf(f)
  <2>1. (P \o e) \o d = P \o (e \o d)
    <3>1. P \in Seq(Edit) /\ e \in Seq(Edit) /\ d \in Seq(Edit)
      BY <1>0, <1>8
    <3> QED BY ONLY <3>1, EditsAssociative
  <2>2. (x \o PastOf(h)) \o d = x \o (PastOf(h) \o d)
    <3>1. x \in Seq(Edit) /\ PastOf(h) \in Seq(Edit) /\ d \in Seq(Edit)
      BY <1>0, <1>8
    <3> QED BY ONLY <3>1, EditsAssociative
  <2>3. (x \o y) \o PastOf(f) = x \o (y \o PastOf(f))
    <3>1. x \in Seq(Edit) /\ y \in Seq(Edit) /\ PastOf(f) \in Seq(Edit)
      BY <1>0, <1>8
    <3> QED BY ONLY <3>1, EditsAssociative
  <2> QED BY <1>0, <1>7, <1>9, <2>1, <2>2, <2>3
<1>11. (e \o d) \o LineEdits(op, q, m) = e \o LineEdits(op, pos, line)
  <2>1. (e \o d) \o LineEdits(op, q, m) = e \o (d \o LineEdits(op, q, m))
    <3>1. e \in Seq(Edit) /\ d \in Seq(Edit) /\ LineEdits(op, q, m) \in Seq(Edit)
      BY <1>0, <1>8
    <3> QED BY ONLY <3>1, EditsAssociative
  <2> QED BY <1>0, <1>6, <2>1
<1>12. e \o d \in Seq(Edit) /\ x \o y \in Seq(Edit)
  BY <1>0, <1>8, ConcatProperties
<1>13. w.pos \in Nat /\ w.line \in Seq(Letters)
  BY <1>0, <1>1, <1>4, <1>6
<1>14. Stands(w.history, s) /\ Fits(s, op, w.pos, w.line) /\ Applied(s, op, w.pos, w.line) = T
  BY <1>0, <1>1, <1>5, <1>7
<1>15. P \o (e \o d) = (x \o y) \o PastOf(w.history) /\ (e \o d) \o LineEdits(op, w.pos, w.line) = e \o LineEdits(op, pos, line)
  BY <1>0, <1>1, <1>10, <1>11
<1>16. Goes(w, op, T, P, e \o LineEdits(op, pos, line))
  BY <1>0, <1>12, <1>13, <1>14, <1>15 DEF Goes
<1> QED BY <1>0, <1>1, <1>4, <1>7, <1>16 DEF w, T, Fresh

\* How much of a line fits.
LEMMA PartIs ==
  ASSUME NEW space \in Int, NEW needed \in Nat, NEW k \in Nat, space <= k * CharSize + needed
  PROVE  LET n == Part(space, needed)
         IN /\ n \in 0 .. k
            /\ needed <= space => n * CharSize + needed <= space
            /\ needed < space /\ space < k * CharSize + needed => n < k
            /\ needed + CharSize <= space => n # 0
<1> DEFINE n == Part(space, needed)
           x == space - needed
<1>1. CharSize \in Nat \ {0}
  BY SizeAssumption
<1>2. CASE ~(space > needed)
  <2>1. n = 0
    BY <1>2 DEF Part
  <2>2. 0 * CharSize = 0
    BY <1>1
  <2> QED BY <1>1, <1>2, <2>1, <2>2
<1>3. CASE space > needed
  <2>1. x \in Nat /\ x > 0 /\ n = x \div CharSize
    BY <1>3 DEF Part
  <2>2. n \in Nat /\ n * CharSize <= x /\ x < n * CharSize + CharSize
    BY <1>1, <2>1, Quotient
  <2>3. k * CharSize \in Nat /\ n * CharSize \in Nat
    BY <1>1, <2>2, Multiples
  <2>4. n * CharSize <= k * CharSize => n <= k
    BY <1>1, <2>2, Multiples
  <2>5. k * CharSize = n * CharSize \/ n # k
    OBVIOUS
  <2>6. n = 0 => n * CharSize = 0
    BY <1>1
  <2> HIDE DEF n
  <2>7. x <= k * CharSize
    BY <2>3
  <2>8. n <= k
    BY <2>1, <2>2, <2>3, <2>4, <2>7
  <2>9. space < k * CharSize + needed => n # k
    BY <2>2, <2>3, <2>5
  <2>10. needed + CharSize <= space => n # 0
    BY <1>1, <2>2, <2>3, <2>6
  <2> QED BY <2>1, <2>2, <2>3, <2>8, <2>9, <2>10 DEF n
<1> QED BY <1>2, <1>3

\* There is room for the end of a record that is open.
LEMMA FreeSpaceType ==
  ASSUME NEW h, HistoryOK(h)
  PROVE  /\ FreeSpace(h) \in Nat
         /\ h.writer.op # "none" => FreeSpace(h) >= END_RECORD_SIZE /\ Len(InUse(h)) # 0 /\ h.offset = Len(InUse(h))
         /\ Len(InUse(h)) = 0 => FreeSpace(h) = Capacity
<1>1. Used(InUse(h)) \in Nat /\ InUse(h) \in Seq(Records) /\ Len(InUse(h)) \in Nat
  BY HistoryForm DEF HistoryOK
<1>2. /\ Used(InUse(h)) <= Capacity
      /\ h.writer.op # "none" =>
           h.offset = Len(InUse(h)) /\ h.offset # 0 /\ Used(InUse(h)) + END_RECORD_SIZE <= Capacity
  BY DEF HistoryOK, BufferOK
<1>3. FreeSpace(h) = Capacity - Used(InUse(h)) /\ Capacity \in Nat /\ END_RECORD_SIZE \in Nat
  BY SizeAssumption DEF FreeSpace, InUse, END_RECORD_SIZE
<1>4. Len(InUse(h)) = 0 => Used(InUse(h)) = 0
  BY <1>1, EmptySeq, UsedEmpty
<1> QED BY <1>1, <1>2, <1>3, <1>4

\* A buffer takes at least one character of a line.
LEMMA Roomy ==
  /\ Capacity >= START_RECORD_SIZE + CharSize
  /\ Capacity \in Nat /\ START_RECORD_SIZE \in Nat /\ END_RECORD_SIZE \in Nat /\ CharSize \in Nat \ {0}
<1>1. Capacity \in Nat /\ PosSize \in Nat /\ CharSize \in Nat \ {0} /\ PosSize % CharSize = 0 /\ Capacity % CharSize = 0
  BY SizeAssumption
<1> DEFINE c == Capacity \div CharSize
           p == PosSize \div CharSize
<1>2. c \in Nat /\ c * CharSize = Capacity /\ p \in Nat /\ p * CharSize = PosSize
  BY <1>1, Quotient
<1> HIDE DEF c, p
<1>3. START_RECORD_SIZE = PosSize * 2 + CharSize /\ START_RECORD_SIZE \in Nat /\ END_RECORD_SIZE \in Nat
  BY <1>1 DEF START_RECORD_SIZE, END_RECORD_SIZE
<1>4. Capacity > START_RECORD_SIZE
  BY SizeAssumption
<1>5. (p + p) * CharSize = p * CharSize + p * CharSize /\ p + p \in Nat
  BY <1>1, <1>2, Multiples
<1>6. (p + p + 1) * CharSize = (p + p) * CharSize + CharSize
  BY <1>1, <1>2
<1>7. (p + p + 1) * CharSize = START_RECORD_SIZE
  BY <1>1, <1>2, <1>3, <1>5, <1>6
<1>8. p + p + 1 \in Nat
  BY <1>2
<1> DEFINE k == p + p + 1
<1> HIDE DEF k
<1>9. k < c
  <2>1. k \in Nat
    BY <1>8 DEF k
  <2>2. c <= k => c * CharSize <= k * CharSize
    BY <1>1, <1>2, <2>1, Multiples
  <2>3. k * CharSize = START_RECORD_SIZE
    BY <1>7 DEF k
  <2> QED BY <1>1, <1>2, <1>3, <1>4, <2>1, <2>2, <2>3
<1>10. k * CharSize + CharSize <= c * CharSize
  <2>1. k \in Nat
    BY <1>8 DEF k
  <2> QED BY <1>1, <1>2, <1>9, <2>1, Multiples
<1> QED BY <1>1, <1>2, <1>3, <1>7, <1>10 DEF k

\* The first characters of a line that fits.
LEMMA PartFits ==
  ASSUME NEW t \in Lines, NEW op \in {"insert", "erase"}, NEW pos, NEW line \in Seq(Letters),
         Fits(t, op, pos, line), NEW n \in 0 .. Len(line)
  PROVE  LET l == SubSeq(line, 1, n)
         IN l \in Seq(Letters) /\ Len(l) = n /\ Bytes(l) = n * CharSize /\ Fits(t, op, pos, l)
<1> DEFINE l == SubSeq(line, 1, n)
           m == SubSeq(line, n + 1, Len(line))
<1>1. l \in Seq(Letters) /\ m \in Seq(Letters) /\ l \o m = line /\ Len(l) = n
  BY LineParts
<1> HIDE DEF l, m
<1>2. t \in Lines /\ l \in Seq(Letters) /\ m \in Seq(Letters) /\ Fits(t, op, pos, l \o m)
  BY <1>1
<1>3. Fits(t, op, pos, l)
  BY <1>2, SplitEdit
<1> QED BY <1>1, <1>3 DEF l, Bytes

\* write, when the line continues the last record.
LEMMA WriteOnGoes ==
  ASSUME NEW h, NEW t, NEW op, NEW pos, NEW line, NEW P, NEW e, NEW x, Left(h, t, op, pos, line, P, e, x),
         Continues(h, op, pos)
  PROVE  LET z == Write(h, op, pos, line)
         IN /\ Goes(z, op, Applied(t, op, pos, line), P, e \o LineEdits(op, pos, line))
            /\ z.done => z.line = <<>>
            /\ ~z.done => Fresh(z.history) /\ Len(z.line) <= Len(line)
            /\ ~Fresh(h)
<1> DEFINE L == Len(line)
           T == Applied(t, op, pos, line)
           E == e \o LineEdits(op, pos, line)
           z == Write(h, op, pos, line)
<1>0. /\ Stands(h, t) /\ op \in {"insert", "erase"} /\ line \in Seq(Letters) /\ Fits(t, op, pos, line)
      /\ P \in Seq(Edit) /\ e \in Seq(Edit) /\ x \in Seq(Edit) /\ P \o e = x \o PastOf(h)
  BY DEF Left
<1>1. HistoryOK(h) /\ t \in Lines
  BY <1>0, StandsForm DEF Stands
<1>2. pos \in Nat /\ L \in Nat /\ Bytes(line) = L * CharSize /\ Bytes(line) \in Nat
  <2>1. pos \in Nat /\ L \in Nat
    BY <1>0, <1>1, AppliedIsText, LenProperties
  <2> QED BY <1>0, <2>1, Multiples, Roomy DEF Bytes
<1> HIDE DEF L, T, E, z
<1> DEFINE n == Part(FreeSpace(h), END_RECORD_SIZE)
           l == SubSeq(line, 1, n)
<1>3. h.writer.op # "none" /\ FreeSpace(h) \in Nat /\ FreeSpace(h) >= END_RECORD_SIZE
  <2>1. h.writer.op = op
    BY <1>0 DEF Continues
  <2> QED BY <1>0, <1>1, <2>1, FreeSpaceType
<1>4. ~Fresh(h)
  BY <1>0, <1>3 DEF Fresh
<1>5. CASE MayExtend(h, line)
  <2>1. z = Written(Extend(h, line), pos)
    BY <1>0, <1>5 DEF z, Write
  <2>2. FreeSpace(h) >= Bytes(line) + END_RECORD_SIZE
    BY <1>0, <1>2, <1>3, <1>5, Roomy DEF MayExtend
  <2>3. /\ Stands(Extend(h, line), Applied(t, op, pos, line))
        /\ PastOf(Extend(h, line)) = PastOf(h) \o LineEdits(op, pos, line)
    <3>1. /\ Stands(h, t) /\ op \in {"insert", "erase"} /\ Continues(h, op, pos) /\ line \in Seq(Letters)
          /\ Fits(t, op, pos, line) /\ FreeSpace(h) >= Bytes(line) + END_RECORD_SIZE
      BY <1>0, <2>2
    <3> QED BY ONLY <3>1, ExtendKeeps, ZenonT(60)
  <2>4. Goes(z, op, T, P, E)
    BY <1>0, <2>1, <2>3, WrittenGoes DEF T, E
  <2>5. z.done /\ z.line = <<>>
    BY <1>0, <2>1 DEF Written
  <2> QED BY <1>0, <1>4, <2>4, <2>5 DEF T, E, z
<1>6. CASE ~MayExtend(h, line)
  <2> DEFINE f == Extend(h, l)
             g == EndRecord(f)
  <2>1. z = RestOf(g, op, pos, line, n)
    BY <1>0, <1>6 DEF z, Write
  <2>2. FreeSpace(h) <= L * CharSize + END_RECORD_SIZE
    BY <1>0, <1>2, <1>3, <1>6, Roomy DEF MayExtend
  <2>3. n \in 0 .. L /\ n * CharSize + END_RECORD_SIZE <= FreeSpace(h)
    <3>1. FreeSpace(h) \in Int /\ END_RECORD_SIZE \in Nat /\ FreeSpace(h) <= L * CharSize + END_RECORD_SIZE
      BY <1>0, <1>3, <2>2, Roomy
    <3> QED BY <1>0, <1>2, <1>3, <3>1, PartIs
  <2> HIDE DEF n, f, g
  <2>4. l \in Seq(Letters) /\ Len(l) = n /\ Bytes(l) = n * CharSize /\ Fits(t, op, pos, l)
    BY <1>0, <1>1, <2>3, PartFits DEF L
  <2> HIDE DEF l
  <2>5. FreeSpace(h) >= Bytes(l) + END_RECORD_SIZE
    <3>1. n * CharSize \in Nat
      BY <1>0, <1>2, <2>3, Multiples, Roomy
    <3> QED BY <1>0, <1>3, <2>3, <2>4, <3>1, Roomy
  <2>6. /\ Stands(f, Applied(t, op, pos, l)) /\ PastOf(f) = PastOf(h) \o LineEdits(op, pos, l)
        /\ f.writer.op # "none"
    <3>1. /\ Stands(h, t) /\ op \in {"insert", "erase"} /\ Continues(h, op, pos) /\ l \in Seq(Letters)
          /\ Fits(t, op, pos, l) /\ FreeSpace(h) >= Bytes(l) + END_RECORD_SIZE
      BY <1>0, <2>4, <2>5
    <3>2. /\ Stands(Extend(h, l), Applied(t, op, pos, l)) /\ PastOf(Extend(h, l)) = PastOf(h) \o LineEdits(op, pos, l)
          /\ Extend(h, l).writer.op # "none"
      BY ONLY <3>1, ExtendKeeps
    <3> QED BY <1>0, <3>2 DEF f
  <2>7. /\ Stands(g, Applied(t, op, pos, l)) /\ PastOf(g) = PastOf(h) \o LineEdits(op, pos, l)
        /\ g.writer.op = "none" /\ Len(InUse(g)) # 0
    BY <1>0, <2>6, EndRecordKeeps DEF g
  <2>8. /\ Goes(z, op, T, P, E) /\ Fresh(z.history) /\ ~z.done /\ Len(z.line) = L - n
    <3>1. /\ Left(h, t, op, pos, line, P, e, x)
          /\ n \in 0 .. Len(line)
          /\ Stands(g, Applied(t, op, pos, SubSeq(line, 1, n)))
          /\ PastOf(g) = PastOf(h) \o LineEdits(op, pos, SubSeq(line, 1, n))
          /\ g.writer.op = "none" /\ Len(InUse(g)) # 0
      BY <1>0, <2>3, <2>7 DEF l, L
    <3>2. /\ Goes(RestOf(g, op, pos, line, n), op, Applied(t, op, pos, line), P, e \o LineEdits(op, pos, line))
          /\ Fresh(RestOf(g, op, pos, line, n).history) /\ ~RestOf(g, op, pos, line, n).done
          /\ Len(RestOf(g, op, pos, line, n).line) = Len(line) - n
      BY ONLY <3>1, RestGoes
    <3> QED BY <1>0, <2>1, <3>2 DEF T, E, L
  <2>9. L - n <= L
    BY <1>0, <1>2, <2>3
  <2> QED BY <1>0, <1>4, <2>8, <2>9 DEF T, E, z, L
<1> QED BY <1>0, <1>5, <1>6

\* A call of write that starts a record.
WriteNew(h, op, pos, line) ==
  LET n == Part(FreeSpace(h), START_RECORD_SIZE)
  IN IF FreeSpace(h) >= Bytes(line) + START_RECORD_SIZE THEN Written(Begin(h, op, pos, line), pos)
     ELSE RestOf(IF n = 0 THEN h ELSE EndRecord(Begin(h, op, pos, SubSeq(line, 1, n))), op, pos, line, n)

\* write, when it starts a record.
LEMMA WriteNewGoes ==
  ASSUME NEW h, NEW t, NEW op, NEW pos, NEW line, NEW P, NEW e, NEW x, Left(h, t, op, pos, line, P, e, x),
         h.writer.op = "none"
  PROVE  LET z == WriteNew(h, op, pos, line)
         IN /\ Goes(z, op, Applied(t, op, pos, line), P, e \o LineEdits(op, pos, line))
            /\ z.done => z.line = <<>>
            /\ ~z.done => Fresh(z.history) /\ Len(z.line) <= Len(line)
            /\ ~z.done /\ Len(InUse(h)) = 0 => Len(z.line) \in 1 .. Len(line) - 1
<1> DEFINE L == Len(line)
           T == Applied(t, op, pos, line)
           E == e \o LineEdits(op, pos, line)
           z == WriteNew(h, op, pos, line)
<1>0. /\ Stands(h, t) /\ op \in {"insert", "erase"} /\ line \in Seq(Letters) /\ Fits(t, op, pos, line)
      /\ P \in Seq(Edit) /\ e \in Seq(Edit) /\ x \in Seq(Edit) /\ P \o e = x \o PastOf(h)
  BY DEF Left
<1>1. HistoryOK(h) /\ t \in Lines
  BY <1>0, StandsForm DEF Stands
<1>2. pos \in Nat /\ L \in Nat /\ Bytes(line) = L * CharSize /\ Bytes(line) \in Nat
  <2>1. pos \in Nat /\ L \in Nat
    BY <1>0, <1>1, AppliedIsText, LenProperties
  <2> QED BY <1>0, <2>1, Multiples, Roomy DEF Bytes
<1> HIDE DEF L, T, E, z
<1> DEFINE n == Part(FreeSpace(h), START_RECORD_SIZE)
           l == SubSeq(line, 1, n)
<1>3. FreeSpace(h) \in Nat /\ (Len(InUse(h)) = 0 => FreeSpace(h) = Capacity) /\ Len(InUse(h)) \in Nat
  BY <1>0, <1>1, FreeSpaceType, HistoryForm, StandsForm
<1>4. CASE FreeSpace(h) >= Bytes(line) + START_RECORD_SIZE
  <2>1. z = Written(Begin(h, op, pos, line), pos)
    BY <1>0, <1>4 DEF z, WriteNew
  <2>2. /\ Stands(Begin(h, op, pos, line), Applied(t, op, pos, line))
        /\ PastOf(Begin(h, op, pos, line)) = PastOf(h) \o LineEdits(op, pos, line)
    <3>1. /\ Stands(h, t) /\ h.writer.op = "none" /\ op \in {"insert", "erase"} /\ line \in Seq(Letters)
          /\ Fits(t, op, pos, line) /\ FreeSpace(h) >= Bytes(line) + START_RECORD_SIZE
      BY <1>0, <1>4
    <3> QED BY ONLY <3>1, BeginKeeps
  <2>3. Goes(z, op, T, P, E)
    BY <1>0, <2>1, <2>2, WrittenGoes DEF T, E
  <2>4. z.done /\ z.line = <<>>
    BY <1>0, <2>1 DEF Written
  <2> QED BY <1>0, <2>3, <2>4 DEF T, E, z
<1>5. CASE ~(FreeSpace(h) >= Bytes(line) + START_RECORD_SIZE)
  <2> DEFINE f == Begin(h, op, pos, l)
             g == IF n = 0 THEN h ELSE EndRecord(f)
  <2>1. z = RestOf(g, op, pos, line, n)
    BY <1>0, <1>5 DEF z, WriteNew
  <2>2. FreeSpace(h) < L * CharSize + START_RECORD_SIZE
    BY <1>0, <1>2, <1>3, <1>5, Roomy
  <2>3. /\ n \in 0 .. L /\ (START_RECORD_SIZE <= FreeSpace(h) => n * CharSize + START_RECORD_SIZE <= FreeSpace(h))
        /\ START_RECORD_SIZE < FreeSpace(h) => n < L
        /\ START_RECORD_SIZE + CharSize <= FreeSpace(h) => n # 0
    <3>1. FreeSpace(h) \in Int /\ START_RECORD_SIZE \in Nat /\ FreeSpace(h) <= L * CharSize + START_RECORD_SIZE
      BY <1>0, <1>2, <1>3, <2>2, Roomy
    <3> QED BY <1>0, <1>2, <2>2, <3>1, PartIs
  <2>4. n # 0 => START_RECORD_SIZE <= FreeSpace(h)
    BY <1>0, <1>3, Roomy DEF Part
  <2>5. Len(InUse(h)) = 0 => n # 0 /\ n < L
    BY <1>0, <1>3, <2>3, Roomy
  <2> HIDE DEF n
  <2>6. l \in Seq(Letters) /\ Len(l) = n /\ Bytes(l) = n * CharSize /\ Fits(t, op, pos, l)
    BY <1>0, <1>1, <2>3, PartFits DEF L
  <2>7. /\ Stands(g, Applied(t, op, pos, l)) /\ PastOf(g) = PastOf(h) \o LineEdits(op, pos, l)
        /\ g.writer.op = "none" /\ Len(InUse(g)) # 0
    <3>1. CASE n = 0
      <4>1. l = <<>>
        BY <1>0, <2>6, <3>1, EmptySeq
      <4>2. Applied(t, op, pos, <<>>) = t /\ LineEdits(op, pos, <<>>) = <<>>
        <5>1. pos \in 0 .. Len(t) /\ t \in Seq(Letters)
          BY <1>0, <1>1, LinesForm DEF Fits
        <5>2. Inserted(t, pos, <<>>) = t /\ Removed(t, pos, 0) = t /\ Len(<<>>) = 0
          BY <1>0, <5>1, Nothing, EmptySeq
        <5>3. LineEdits(op, pos, <<>>) = <<>>
          BY <1>0, <1>1, DoneEdit
        <5> QED BY <1>0, <5>2, <5>3 DEF Applied
      <4>3. PastOf(h) \o <<>> = PastOf(h)
        BY <1>0, <1>1, PastType, ConcatEmptySeq
      <4>4. g = h
        BY <1>0, <3>1
      <4> HIDE DEF l, g
      <4> QED BY <1>0, <2>5, <3>1, <4>1, <4>2, <4>3, <4>4
    <3>2. CASE n # 0
      <4> HIDE DEF l
      <4>1. FreeSpace(h) >= Bytes(l) + START_RECORD_SIZE
        <5>1. n * CharSize \in Nat
          BY <1>0, <1>2, <2>3, Multiples, Roomy
        <5> QED BY <1>0, <1>3, <2>3, <2>4, <2>6, <3>2, <5>1, Roomy
      <4>2. /\ Stands(f, Applied(t, op, pos, l)) /\ PastOf(f) = PastOf(h) \o LineEdits(op, pos, l)
            /\ f.writer.op # "none"
        <5>1. /\ Stands(h, t) /\ h.writer.op = "none" /\ op \in {"insert", "erase"} /\ l \in Seq(Letters)
              /\ Fits(t, op, pos, l) /\ FreeSpace(h) >= Bytes(l) + START_RECORD_SIZE
          BY <1>0, <2>6, <4>1
        <5>2. Stands(Begin(h, op, pos, l), Applied(t, op, pos, l))
          BY ONLY <5>1, BeginKeeps
        <5>3. PastOf(Begin(h, op, pos, l)) = PastOf(h) \o LineEdits(op, pos, l)
          BY ONLY <5>1, BeginKeeps
        <5>4. Begin(h, op, pos, l).writer.op # "none"
          BY ONLY <5>1, BeginKeeps
        <5> QED BY <5>2, <5>3, <5>4 DEF f
      <4>3. g = EndRecord(f)
        BY <1>0, <3>2
      <4> HIDE DEF g, f
      <4> QED BY <1>0, <4>2, <4>3, EndRecordKeeps
    <3> QED BY <1>0, <3>1, <3>2
  <2> HIDE DEF g, f
  <2>8. /\ Goes(z, op, T, P, E) /\ Fresh(z.history) /\ ~z.done /\ Len(z.line) = L - n
    <3>1. /\ Left(h, t, op, pos, line, P, e, x)
          /\ n \in 0 .. Len(line)
          /\ Stands(g, Applied(t, op, pos, SubSeq(line, 1, n)))
          /\ PastOf(g) = PastOf(h) \o LineEdits(op, pos, SubSeq(line, 1, n))
          /\ g.writer.op = "none" /\ Len(InUse(g)) # 0
      BY <1>0, <2>3, <2>7 DEF l, L
    <3>2. /\ Goes(RestOf(g, op, pos, line, n), op, Applied(t, op, pos, line), P, e \o LineEdits(op, pos, line))
          /\ Fresh(RestOf(g, op, pos, line, n).history) /\ ~RestOf(g, op, pos, line, n).done
          /\ Len(RestOf(g, op, pos, line, n).line) = Len(line) - n
      BY ONLY <3>1, RestGoes
    <3> QED BY <1>0, <2>1, <3>2 DEF T, E, L
  <2>9. L - n <= L /\ (Len(InUse(h)) = 0 => L - n \in 1 .. L - 1)
    BY <1>0, <1>2, <2>3, <2>5
  <2> QED BY <1>0, <2>8, <2>9 DEF T, E, z, L
<1> QED BY <1>0, <1>4, <1>5

\* A call of write goes on with what is left.
LEMMA WriteGoes ==
  ASSUME NEW w, NEW op \in {"insert", "erase"}, NEW T, NEW P, P \in Seq(Edit), NEW E, Goes(w, op, T, P, E)
  PROVE  LET z == Write(w.history, op, w.pos, w.line)
         IN /\ Goes(z, op, T, P, E)
            /\ z.done => z.line = <<>>
            /\ ~z.done => Fresh(z.history) /\ Len(z.line) <= Len(w.line)
            /\ ~z.done /\ Fresh(w.history) => Len(z.line) \in 1 .. Len(w.line) - 1
<1>1. SUFFICES ASSUME NEW h, NEW pos, NEW line, h = w.history, pos = w.pos, line = w.line
               PROVE  LET z == Write(h, op, pos, line)
                      IN /\ Goes(z, op, T, P, E)
                         /\ z.done => z.line = <<>>
                         /\ ~z.done => Fresh(z.history) /\ Len(z.line) <= Len(line)
                         /\ ~z.done /\ Fresh(h) => Len(z.line) \in 1 .. Len(line) - 1
  OBVIOUS
<1>2. line \in Seq(Letters)
  BY <1>1 DEF Goes
<1>3. PICK t : Stands(h, t) /\ Fits(t, op, pos, line) /\ Applied(t, op, pos, line) = T
  BY <1>1 DEF Goes
<1>4. PICK e, x : e \in Seq(Edit) /\ x \in Seq(Edit) /\ P \o e = x \o PastOf(h) /\ e \o LineEdits(op, pos, line) = E
  BY <1>1 DEF Goes
<1>5. CASE Continues(h, op, pos)
  <2>1. Left(h, t, op, pos, line, P, e, x) /\ Continues(h, op, pos)
    BY <1>2, <1>3, <1>4, <1>5 DEF Left
  <2> DEFINE z == Write(h, op, pos, line)
  <2>2. /\ Goes(z, op, Applied(t, op, pos, line), P, e \o LineEdits(op, pos, line))
        /\ z.done => z.line = <<>>
        /\ ~z.done => Fresh(z.history) /\ Len(z.line) <= Len(line)
        /\ ~Fresh(h)
    BY ONLY <2>1, WriteOnGoes
  <2> QED BY <1>3, <1>4, <2>2
<1>6. CASE ~Continues(h, op, pos)
  <2>1. PICK c : c = IF h.writer.op = "none" THEN h ELSE EndRecord(h)
    OBVIOUS
  <2>2. Stands(c, t) /\ PastOf(c) = PastOf(h) /\ c.writer.op = "none" /\ (Fresh(h) => Len(InUse(c)) = 0)
    BY <1>3, <2>1, EndRecordKeeps, EmptySeq DEF Fresh
  <2>3. Write(h, op, pos, line) = WriteNew(c, op, pos, line)
    BY <1>6, <2>1 DEF Write, WriteNew
  <2>4. Left(c, t, op, pos, line, P, e, x)
    BY <1>2, <1>3, <1>4, <2>2 DEF Left
  <2> QED BY <1>2, <1>3, <1>4, <2>2, <2>3, <2>4, WriteNewGoes
<1> QED BY <1>5, <1>6

\* What the loop of writeOperation does with a call.
Called(w, op) == IF w.done THEN w ELSE Write(w.history, op, w.pos, w.line)

\* Writes is the function its recursive definition describes.
LEMMA WritesDef ==
  ASSUME NEW h, NEW op, NEW pos, NEW line, Len(line) \in Nat
  PROVE  LET f == Writes(h, op, pos, line)
         IN /\ f[0] = [history |-> h, pos |-> pos, line |-> line, done |-> FALSE]
            /\ \A n \in 1 .. Len(line) + 1 : f[n] = Called(f[n - 1], op)
<1> DEFINE w0 == [history |-> h, pos |-> pos, line |-> line, done |-> FALSE]
           Rec(f, m) == f = [n \in 0 .. m |-> IF n = 0 THEN w0 ELSE Called(f[n - 1], op)]
           T == {m \in Nat : \E f : Rec(f, m)}
           M == Len(line) + 1
<1> HIDE DEF w0
<1>1. 0 \in T
  <2>1. Rec([n \in 0 .. 0 |-> w0], 0)
    OBVIOUS
  <2> QED BY <2>1
<1>2. ASSUME NEW m \in T PROVE m + 1 \in T
  <2>1. PICK f : Rec(f, m)
    OBVIOUS
  <2> DEFINE g == [n \in 0 .. m + 1 |-> IF n <= m THEN f[n] ELSE Called(f[m], op)]
  <2>2. ASSUME NEW n \in 0 .. m + 1
        PROVE  g[n] = IF n = 0 THEN w0 ELSE Called(g[n - 1], op)
    <3>1. CASE n = 0
      BY <2>1, <3>1
    <3>2. CASE n \in 1 .. m
      <4>1. n \in 0 .. m /\ n - 1 \in 0 .. m /\ n # 0 /\ n - 1 \in 0 .. m + 1
        BY <3>2
      <4>2. g[n] = f[n] /\ g[n - 1] = f[n - 1]
        BY <4>1
      <4>3. f[n] = Called(f[n - 1], op)
        BY <2>1, <4>1
      <4> QED BY <4>1, <4>2, <4>3
    <3>3. CASE n = m + 1
      BY <3>3
    <3> QED BY <3>1, <3>2, <3>3
  <2>3. Rec(g, m + 1)
    BY <2>2
  <2> HIDE DEF g, Rec
  <2> QED BY <2>3
<1>3. T = Nat
  <2> HIDE DEF T
  <2>1. T \in SUBSET Nat
    BY DEF T
  <2> QED BY <1>1, <1>2, <2>1, NatSetInduction
<1>4. M \in Nat
  OBVIOUS
<1>5. \E f : Rec(f, M)
  <2> HIDE DEF Rec, M
  <2> QED BY <1>3, <1>4
<1>6. Rec(Writes(h, op, pos, line), M)
  <2>1. Writes(h, op, pos, line) = CHOOSE f : Rec(f, M)
    BY DEF Writes, Called, w0
  <2> HIDE DEF Rec
  <2> QED BY <1>5, <2>1
<1> DEFINE v == Writes(h, op, pos, line)
<1> HIDE DEF v, M
<1>7. v = [n \in 0 .. M |-> IF n = 0 THEN w0 ELSE Called(v[n - 1], op)]
  BY <1>6 DEF v
<1>8. v[0] = w0 /\ \A n \in 1 .. M : v[n] = Called(v[n - 1], op)
  <2>1. 0 \in 0 .. M /\ \A n \in 1 .. M : n \in 0 .. M /\ n # 0
    BY <1>4
  <2> QED BY <1>7, <2>1
<1> QED BY <1>8 DEF v, w0, M

\* The loop ends: the line is written after as many calls as writeOperation
\* makes at most, and its edits are the past that is not forgotten.
LEMMA WriteOperationKeeps ==
  ASSUME NEW h, NEW t, Stands(h, t), NEW op \in {"insert", "erase"}, NEW pos, NEW line \in Seq(Letters),
         Fits(t, op, pos, line), Len(line) # 0
  PROVE  LET g == WriteOperation(h, op, pos, line)
         IN /\ Stands(g, Applied(t, op, pos, line))
            /\ \E x \in Seq(Edit) : PastOf(h) \o LineEdits(op, pos, line) = x \o PastOf(g)
            /\ Writes(h, op, pos, line)[Len(line) + 1].done
<1> DEFINE L == Len(line)
           f == Writes(h, op, pos, line)
           T == Applied(t, op, pos, line)
           P == PastOf(h)
           E == LineEdits(op, pos, line)
           Keeps(w, n) == /\ Goes(w, op, T, P, E)
                          /\ w.done => w.line = <<>>
                          /\ ~w.done /\ n # 0 => Fresh(w.history) /\ Len(w.line) <= L - n + 1
                          /\ ~w.done /\ n > 1 => Len(w.line) # 0
           I == {n \in 0 .. L + 1 : Keeps(f[n], n)}
<1>1. L \in Nat /\ L # 0 /\ L + 1 \in Nat /\ t \in Lines /\ HistoryOK(h)
  BY LenProperties, StandsForm DEF Stands
<1>2. pos \in Nat
  BY <1>1, AppliedIsText
<1>3. P \in Seq(Edit) /\ E \in Seq(Edit) /\ <<>> \in Seq(Edit)
  BY <1>1, <1>2, PastType, LineEditsForm, EmptySeq
<1>4. /\ f[0] = [history |-> h, pos |-> pos, line |-> line, done |-> FALSE]
      /\ \A n \in 1 .. L + 1 : f[n] = Called(f[n - 1], op)
  BY <1>1, WritesDef
<1> HIDE DEF f, L
<1>5. 0 \in I
  <2> DEFINE w == f[0]
  <2>1. w.history = h /\ w.pos = pos /\ w.line = line /\ w.done = FALSE
    BY <1>4
  <2> HIDE DEF w, P, E, T
  <2>2. P \o <<>> = <<>> \o P /\ <<>> \o E = E
    BY <1>3, ConcatEmptySeq
  <2>3. P \o <<>> = <<>> \o PastOf(w.history) /\ <<>> \o LineEdits(op, w.pos, w.line) = E
    BY <2>1, <2>2 DEF P, E
  <2>4. Stands(w.history, t) /\ Fits(t, op, w.pos, w.line) /\ Applied(t, op, w.pos, w.line) = T
    BY <2>1 DEF T
  <2>5. Goes(w, op, T, P, E)
    BY <1>2, <1>3, <2>1, <2>3, <2>4 DEF Goes
  <2>6. Keeps(f[0], 0)
    BY <2>1, <2>5 DEF w
  <2>7. 0 \in 0 .. L + 1
    BY <1>1
  <2> QED BY <2>6, <2>7
<1>6. ASSUME NEW n \in 0 .. (L + 1) - 1, n \in I PROVE n + 1 \in I
  <2> HIDE DEF P, E, T
  <2>1. n \in Nat /\ n + 1 \in 1 .. L + 1 /\ n + 1 \in 0 .. L + 1 /\ (n + 1) - 1 = n
    BY <1>1
  <2>2. PICK w : w = f[n]
    OBVIOUS
  <2>3. PICK z : z = f[n + 1]
    OBVIOUS
  <2>4. z = Called(w, op)
    BY <1>4, <2>1, <2>2, <2>3
  <2>5. Keeps(w, n)
    BY <1>6, <2>2
  <2>6. Keeps(z, n + 1)
    <3>1. CASE w.done
      <4>1. z = w
        BY <2>4, <3>1 DEF Called
      <4> QED BY <2>5, <3>1, <4>1
    <3>2. CASE ~w.done
      <4>1. z = Write(w.history, op, w.pos, w.line)
        BY <2>4, <3>2 DEF Called
      <4>2. Goes(w, op, T, P, E)
        BY <2>5
      <4>3. /\ Goes(z, op, T, P, E)
            /\ z.done => z.line = <<>>
            /\ ~z.done => Fresh(z.history) /\ Len(z.line) <= Len(w.line)
            /\ ~z.done /\ Fresh(w.history) => Len(z.line) \in 1 .. Len(w.line) - 1
        BY <1>3, <4>1, <4>2, WriteGoes
      <4>4. Len(w.line) \in Nat /\ Len(z.line) \in Nat
        BY <4>2, <4>3, LenProperties DEF Goes
      <4>5. n = 0 => Len(w.line) <= L
        <5>1. n = 0 => w.line = line
          BY <1>4, <2>2
        <5> QED BY <1>1, <5>1 DEF L
      <4>6. n # 0 => Fresh(w.history) /\ Len(w.line) <= L - n + 1
        BY <2>5, <3>2
      <4>7. ~z.done => Len(z.line) <= L - (n + 1) + 1
        BY <1>1, <2>1, <4>3, <4>4, <4>5, <4>6
      <4>8. ~z.done /\ n + 1 > 1 => Len(z.line) # 0
        BY <2>1, <4>3, <4>6
      <4> QED BY <4>3, <4>7, <4>8
    <3> QED BY <3>1, <3>2
  <2> QED BY <2>1, <2>3, <2>6
<1>7. L + 1 \in I
  <2> HIDE DEF I
  <2>1. \A n \in 0 .. L + 1 : n \in I
    BY <1>1, <1>5, <1>6, UpTo
  <2>2. L + 1 \in 0 .. L + 1
    BY <1>1
  <2> QED BY <2>1, <2>2
<1>8. PICK z : z = f[L + 1]
  OBVIOUS
<1>9. Keeps(z, L + 1)
  BY <1>7, <1>8
<1> HIDE DEF P, E, T
<1>10. z.done /\ z.line = <<>> /\ Goes(z, op, T, P, E)
  <2>1. Goes(z, op, T, P, E) /\ (z.done => z.line = <<>>)
    BY <1>9
  <2>2. Len(z.line) \in Nat
    BY <2>1, LenProperties DEF Goes
  <2>3. ~z.done => Len(z.line) <= L - (L + 1) + 1 /\ Len(z.line) # 0
    BY <1>1, <1>9
  <2>4. L - (L + 1) + 1 = 0
    BY <1>1
  <2> QED BY <2>1, <2>2, <2>3, <2>4
<1>11. z.history = WriteOperation(h, op, pos, line)
  BY <1>8 DEF WriteOperation, f, L
<1>12. PICK s : Stands(z.history, s) /\ Fits(s, op, z.pos, <<>>) /\ Applied(s, op, z.pos, <<>>) = T
  BY <1>10 DEF Goes
<1>13. s = T
  <2>1. s \in Seq(Letters) /\ z.pos \in 0 .. Len(s)
    BY <1>12, StandsForm, LinesForm DEF Fits
  <2>2. Inserted(s, z.pos, <<>>) = s /\ Removed(s, z.pos, 0) = s /\ Len(<<>>) = 0
    BY <2>1, Nothing, EmptySeq
  <2> QED BY <1>12, <2>2 DEF Applied
<1>14. PICK e, x : e \in Seq(Edit) /\ x \in Seq(Edit) /\ P \o e = x \o PastOf(z.history) /\ e \o LineEdits(op, z.pos, <<>>) = E
  BY <1>10 DEF Goes
<1>15. e = E
  <2>1. LineEdits(op, z.pos, <<>>) = <<>>
    <3>1. s \in Lines /\ <<>> \in Seq(Letters) /\ op \in {"insert", "erase"} /\ Fits(s, op, z.pos, <<>>)
      BY <1>12, StandsForm, EmptySeq
    <3>2. z.pos \in Nat
      BY <1>10 DEF Goes
    <3>3. LineEdits(op, z.pos, <<>>) \in Seq(Edit) /\ Len(LineEdits(op, z.pos, <<>>)) = Len(<<>>)
      BY <3>1, <3>2, LineEditsForm
    <3> QED BY <3>3, EmptySeq
  <2> QED BY <1>14, <2>1, ConcatEmptySeq
<1> QED BY <1>8, <1>10, <1>11, <1>12, <1>13, <1>14, <1>15 DEF P, E, T, f, L

-----------------------------------------------------------------------------
(* Undo and redo move along the records.                                   *)

\* Another offset is the same buffer at another place.
LEMMA OffsetIs ==
  ASSUME NEW h \in Histories, NEW n
  PROVE  [h EXCEPT !.offset = n] = With(h, InUse(h), n, h.writer)
<1> DEFINE g == [h EXCEPT !.offset = n]
<1>1. /\ g = [i \in DOMAIN g |-> g[i]]
      /\ DOMAIN g = {"buffers", "active", "previous", "offset", "writer"}
  BY DEF Histories
<1>2. /\ g.buffers = h.buffers
      /\ g.active = h.active /\ g.previous = h.previous /\ g.offset = n /\ g.writer = h.writer
  BY DEF Histories
<1>3. h.buffers = [h.buffers EXCEPT ![h.active] = InUse(h)]
  BY DEF Histories, InUse
<1> HIDE DEF g
<1>4. g = With(h, InUse(h), n, h.writer)
  <2>1. g = [buffers |-> g.buffers, active |-> g.active, previous |-> g.previous, offset |-> g.offset, writer |-> g.writer]
    BY <1>1, HistoryFields
  <2> QED BY <1>2, <1>3, <2>1 DEF With
<1> QED BY <1>4 DEF g

\* Another place in the buffer in use.
LEMMA MoveKeeps ==
  ASSUME NEW h, HistoryOK(h), h.writer.op = "none", NEW n \in 0 .. Len(InUse(h))
  PROVE  LET g == [h EXCEPT !.offset = n]
         IN /\ HistoryOK(g) /\ InUse(g) = InUse(h) /\ g.offset = n /\ g.writer.op = "none"
            /\ g.previous = h.previous /\ Before(g) = Before(h)
            /\ \A x : Starts(h, x) => Starts(g, x)
<1> DEFINE g == [h EXCEPT !.offset = n]
<1>1. h \in Histories /\ BufferOK(InUse(h), h.offset, h.writer)
  BY DEF HistoryOK
<1>2. g = With(h, InUse(h), n, h.writer)
  BY <1>1, OffsetIs
<1>3. BufferOK(InUse(h), n, h.writer)
  BY <1>1 DEF BufferOK
<1> HIDE DEF g
<1> QED BY <1>2, <1>3, WithIs DEF g

\* The edits before and after a record.
LEMMA EditsAround ==
  ASSUME NEW b \in Seq(Records), NEW n \in 1 .. Len(b)
  PROVE  LET d == LineEdits(b[n].op, b[n].pos, b[n].line)
         IN /\ EditsOf(SubSeq(b, 1, n)) = EditsOf(SubSeq(b, 1, n - 1)) \o d
            /\ EditsOf(SubSeq(b, n, Len(b))) = d \o EditsOf(SubSeq(b, n + 1, Len(b)))
            /\ d \in Seq(Edit) /\ EditsOf(SubSeq(b, 1, n - 1)) \in Seq(Edit)
            /\ EditsOf(SubSeq(b, n + 1, Len(b))) \in Seq(Edit)
<1> DEFINE r == b[n]
           d == LineEdits(r.op, r.pos, r.line)
           a == SubSeq(b, 1, n - 1)
           c == SubSeq(b, n + 1, Len(b))
<1>1. b \in Seq(AnyRecord) /\ Len(b) \in Nat /\ r \in AnyRecord /\ n \in Nat
  BY BufferForm
<1>2. a \in Seq(AnyRecord) /\ Len(a) = n - 1 /\ \A i \in 1 .. n - 1 : a[i] = b[i]
  <2>1. n - 1 \in 0 .. Len(b)
    BY <1>1
  <2> QED BY <1>1, <2>1, UsedPrefix
<1>3. c \in Seq(AnyRecord) /\ Len(c) = Len(b) - n /\ \A i \in 1 .. Len(b) - n : c[i] = b[n + i]
  <2> DEFINE q == n + 1
  <2>0. n <= Len(b)
    BY <1>1
  <2>1. b \in Seq(AnyRecord) /\ q \in 1 .. Len(b) + 1 /\ Len(b) \in q - 1 .. Len(b) /\ Len(b) - q + 1 = Len(b) - n
    BY <1>1, <2>0
  <2> HIDE DEF q
  <2>4. /\ SubSeq(b, q, Len(b)) \in Seq(AnyRecord) /\ Len(SubSeq(b, q, Len(b))) = Len(b) - n
        /\ \A i \in 1 .. Len(b) - n : SubSeq(b, q, Len(b))[i] = b[q + i - 1]
    BY ONLY <2>1, PartOf
  <2>2. c \in Seq(AnyRecord) /\ Len(c) = Len(b) - n /\ \A i \in 1 .. Len(b) - n : c[i] = b[(n + 1) + i - 1]
    BY <2>4 DEF q
  <2>3. \A i \in 1 .. Len(b) - n : (n + 1) + i - 1 = n + i
    BY <1>1
  <2> QED BY <2>2, <2>3
<1>4. <<r>> \in Seq(AnyRecord) /\ Len(<<r>>) = 1 /\ <<r>>[1] = r
  BY <1>1
<1>5. SubSeq(b, 1, n) = a \o <<r>>
  <2> DEFINE s == SubSeq(b, 1, n)
  <2>1. s \in Seq(AnyRecord) /\ Len(s) = n /\ \A i \in 1 .. n : s[i] = b[i]
    <3>1. n \in 0 .. Len(b)
      BY <1>1
    <3> QED BY <1>1, <3>1, UsedPrefix
  <2> HIDE DEF s, a
  <2>2. /\ a \o <<r>> \in Seq(AnyRecord) /\ Len(a \o <<r>>) = n
        /\ \A i \in 1 .. n : (a \o <<r>>)[i] = IF i <= n - 1 THEN a[i] ELSE <<r>>[i - (n - 1)]
    <3>1. Len(a) + Len(<<r>>) = n
      BY <1>1, <1>2, <1>4
    <3> QED BY <1>2, <1>4, <3>1, ConcatProperties
  <2>3. ASSUME NEW i \in 1 .. n PROVE s[i] = (a \o <<r>>)[i]
    <3>1. CASE i <= n - 1
      BY <1>1, <1>2, <2>1, <2>2, <3>1
    <3>2. CASE ~(i <= n - 1)
      <4>1. i = n /\ i - (n - 1) = 1
        BY <1>1, <3>2
      <4> QED BY <1>4, <2>1, <2>2, <3>2, <4>1
    <3> QED BY <3>1, <3>2
  <2> QED BY <2>1, <2>2, <2>3, SeqEqual DEF s
<1>6. SubSeq(b, n, Len(b)) = <<r>> \o c
  <2> DEFINE s == SubSeq(b, n, Len(b))
             k == Len(b) - n + 1
  <2>1. s \in Seq(AnyRecord) /\ Len(s) = k /\ \A i \in 1 .. k : s[i] = b[n + i - 1]
    <3>1. n \in 1 .. Len(b) + 1 /\ Len(b) \in n - 1 .. Len(b)
      BY <1>1
    <3> QED BY <1>1, <3>1, PartOf
  <2> HIDE DEF s, c
  <2>2. /\ <<r>> \o c \in Seq(AnyRecord) /\ Len(<<r>> \o c) = k
        /\ \A i \in 1 .. k : (<<r>> \o c)[i] = IF i <= 1 THEN <<r>>[i] ELSE c[i - 1]
    <3>1. Len(<<r>>) + Len(c) = k
      BY <1>1, <1>3, <1>4
    <3> DEFINE q == <<r>>
    <3>2. q \in Seq(AnyRecord) /\ Len(q) = 1 /\ Len(q) + Len(c) = k
      BY <1>4, <3>1
    <3> HIDE DEF q
    <3>3. /\ q \o c \in Seq(AnyRecord) /\ Len(q \o c) = Len(q) + Len(c)
          /\ \A i \in 1 .. Len(q) + Len(c) : (q \o c)[i] = IF i <= Len(q) THEN q[i] ELSE c[i - Len(q)]
      BY <1>3, <3>2, ConcatProperties
    <3> QED BY <3>2, <3>3 DEF q
  <2>3. ASSUME NEW i \in 1 .. k PROVE s[i] = (<<r>> \o c)[i]
    <3>1. CASE i <= 1
      <4>1. i = 1 /\ n + i - 1 = n
        BY <1>1, <3>1
      <4> QED BY <1>4, <2>1, <2>2, <3>1, <4>1
    <3>2. CASE ~(i <= 1)
      <4>1. i - 1 \in 1 .. Len(b) - n /\ n + (i - 1) = n + i - 1
        BY <1>1, <3>2
      <4> QED BY <1>3, <2>1, <2>2, <3>2, <4>1
    <3> QED BY <3>1, <3>2
  <2> QED BY <2>1, <2>2, <2>3, SeqEqual DEF s
<1>7. EditsOf(<<r>>) = d /\ d \in Seq(Edit)
  BY <1>1, EditsOfOne, EditsOfRecordIs
<1> HIDE DEF a, c, d, r
<1>8. EditsOf(a \o <<r>>) = EditsOf(a) \o d /\ EditsOf(a) \in Seq(Edit)
  BY <1>2, <1>4, <1>7, EditsOfConcat
<1>9. EditsOf(<<r>> \o c) = d \o EditsOf(c) /\ EditsOf(c) \in Seq(Edit)
  BY <1>3, <1>4, <1>7, EditsOfConcat
<1> QED BY <1>5, <1>6, <1>7, <1>8, <1>9 DEF a, c, d, r

\* The record before h and after g: h is where redo comes to, g where undo does.
LEMMA BetweenRecords ==
  ASSUME NEW h, NEW g, HistoryOK(h), HistoryOK(g), InUse(g) = InUse(h), Before(g) = Before(h),
         h.offset # 0, g.offset = h.offset - 1, h.writer.op = "none"
  PROVE  LET r == InUse(h)[h.offset]
             d == LineEdits(r.op, r.pos, r.line)
         IN /\ PastOf(h) = PastOf(g) \o d /\ FutureOf(g) = d \o FutureOf(h)
            /\ d \in Seq(Edit) /\ PastOf(g) \in Seq(Edit) /\ FutureOf(h) \in Seq(Edit)
            /\ r \in AnyRecord /\ r.length = Len(r.line)
<1> DEFINE b == InUse(h)
           n == h.offset
           r == b[n]
           d == LineEdits(r.op, r.pos, r.line)
<1>1. /\ b \in Seq(Records) /\ b \in Seq(AnyRecord) /\ n \in 1 .. Len(b) /\ Len(b) \in Nat /\ Closed(b, h.writer)
      /\ n \in Nat
  <2>1. b \in Seq(Records) /\ b \in Seq(AnyRecord) /\ Len(b) \in Nat
    BY HistoryForm DEF HistoryOK
  <2>2. n \in 0 .. Len(b) /\ Closed(b, h.writer)
    BY DEF HistoryOK, BufferOK
  <2> QED BY <2>1, <2>2
<1>2. r \in AnyRecord /\ r.length = Len(r.line)
  BY <1>1, BufferForm DEF Closed
<1>3. /\ EditsOf(SubSeq(b, 1, n)) = EditsOf(SubSeq(b, 1, n - 1)) \o d
      /\ EditsOf(SubSeq(b, n, Len(b))) = d \o EditsOf(SubSeq(b, n + 1, Len(b)))
      /\ d \in Seq(Edit) /\ EditsOf(SubSeq(b, 1, n - 1)) \in Seq(Edit)
      /\ EditsOf(SubSeq(b, n + 1, Len(b))) \in Seq(Edit)
  BY <1>1, EditsAround
<1> DEFINE A == EditsOf(SubSeq(b, 1, n - 1))
           C == EditsOf(SubSeq(b, n + 1, Len(b)))
<1>4. /\ PastOf(h) = Before(h) \o EditsOf(SubSeq(b, 1, n))
      /\ PastOf(g) = Before(h) \o A
      /\ FutureOf(h) = C
      /\ FutureOf(g) = EditsOf(SubSeq(b, n, Len(b)))
  <2>1. g.offset + 1 = n /\ g.offset = n - 1
    BY <1>1
  <2> QED BY <2>1 DEF PastOf, FutureOf
<1>5. Before(h) \in Seq(Edit)
  BY BeforeType
<1> HIDE DEF A, C, d
<1>6. (Before(h) \o A) \o d = Before(h) \o (A \o d)
  <2>1. Before(h) \in Seq(Edit) /\ A \in Seq(Edit) /\ d \in Seq(Edit)
    BY <1>3, <1>5 DEF A
  <2>2. PICK x : x = Before(h)
    OBVIOUS
  <2>3. (x \o A) \o d = x \o (A \o d)
    BY ONLY <2>1, <2>2, EditsAssociative
  <2> QED BY <2>2, <2>3
<1>7. PastOf(g) \in Seq(Edit)
  BY PastType
<1> QED BY <1>2, <1>3, <1>4, <1>6, <1>7 DEF A, C, d

\* Undo takes the record before the offset back.
LEMMA UndoMoves ==
  ASSUME NEW h, NEW t, HistoryOK(h), Leads(h, t), h.writer.op = "none", h.offset # 0
  PROVE  LET r == InUse(h)[h.offset]
             d == LineEdits(r.op, r.pos, r.line)
             s == IF r.op = "erase" THEN Inserted(t, r.pos, r.line) ELSE Removed(t, r.pos, r.length)
             g == [h EXCEPT !.offset = h.offset - 1]
         IN /\ HistoryOK(g) /\ Leads(g, s) /\ s \in Lines
            /\ Abstract!DoAll(t, Abstract!TakenBack(d)) = s
            /\ PastOf(h) = PastOf(g) \o d /\ FutureOf(g) = d \o FutureOf(h)
            /\ d \in Seq(Edit) /\ PastOf(g) \in Seq(Edit) /\ FutureOf(h) \in Seq(Edit)
<1> DEFINE b == InUse(h)
           n == h.offset
           r == b[n]
           d == LineEdits(r.op, r.pos, r.line)
           s == IF r.op = "erase" THEN Inserted(t, r.pos, r.line) ELSE Removed(t, r.pos, r.length)
           g == [h EXCEPT !.offset = n - 1]
<1>1. b \in Seq(Records) /\ b \in Seq(AnyRecord) /\ n \in 1 .. Len(b) /\ Len(b) \in Nat /\ n \in Nat
  <2>1. b \in Seq(Records) /\ b \in Seq(AnyRecord) /\ Len(b) \in Nat
    BY HistoryForm DEF HistoryOK
  <2>2. n \in 0 .. Len(b)
    BY DEF HistoryOK, BufferOK
  <2> QED BY <2>1, <2>2
<1>2. n - 1 \in 0 .. Len(b)
  BY <1>1
<1>3. /\ HistoryOK(g) /\ InUse(g) = b /\ g.offset = n - 1 /\ g.writer.op = "none" /\ Before(g) = Before(h)
      /\ \A x : Starts(h, x) => Starts(g, x)
  BY <1>2, MoveKeeps
<1> HIDE DEF g
<1>4. /\ PastOf(h) = PastOf(g) \o d /\ FutureOf(g) = d \o FutureOf(h)
      /\ d \in Seq(Edit) /\ PastOf(g) \in Seq(Edit) /\ FutureOf(h) \in Seq(Edit)
      /\ r \in AnyRecord /\ r.length = Len(r.line)
  BY <1>3, BetweenRecords
<1>5. PICK v : Versions(b, v) /\ v[n] = t /\ Starts(h, v[0])
  BY DEF Leads
<1>6. v[n - 1] \in Lines /\ Fits(v[n - 1], r.op, r.pos, r.line) /\ t = Applied(v[n - 1], r.op, r.pos, r.line)
  <2> HIDE DEF b, n, r
  <2>1. v \in [0 .. Len(b) -> Lines]
    BY <1>5 DEF Versions
  <2>2. Fits(v[n - 1], r.op, r.pos, r.line) /\ v[n] = Applied(v[n - 1], r.op, r.pos, r.line)
    BY <1>1, <1>5 DEF Versions, r
  <2> QED BY <1>2, <1>5, <2>1, <2>2
<1>7. r.op \in {"insert", "erase"} /\ r.line \in Seq(Letters)
  BY <1>4 DEF AnyRecord
<1>8. /\ r.op = "insert" => Removed(t, r.pos, Len(r.line)) = v[n - 1]
      /\ r.op = "erase" => Inserted(t, r.pos, r.line) = v[n - 1]
      /\ Abstract!DoAll(t, Abstract!TakenBack(d)) = v[n - 1]
  <2>1. PICK q : q = v[n - 1]
    OBVIOUS
  <2> HIDE DEF b, n, r
  <2>2. q \in Lines /\ Fits(q, r.op, r.pos, r.line) /\ t = Applied(q, r.op, r.pos, r.line)
    BY <1>6, <2>1
  <2>3. /\ r.op = "insert" => Removed(t, r.pos, Len(r.line)) = q
        /\ r.op = "erase" => Inserted(t, r.pos, r.line) = q
        /\ Abstract!DoAll(t, Abstract!TakenBack(d)) = q
    BY <1>7, <2>2, AppliedBack
  <2> QED BY <2>1, <2>3
<1>9. s = v[n - 1]
  BY <1>4, <1>7, <1>8
<1>10. Leads(g, s)
  <2> HIDE DEF s, b
  <2>1. InUse(g) = b /\ g.offset = n - 1 /\ Starts(g, v[0])
    BY <1>3, <1>5
  <2> HIDE DEF n
  <2> QED BY <1>5, <1>9, <2>1 DEF Leads
<1> QED BY <1>3, <1>4, <1>6, <1>8, <1>9, <1>10 DEF g

\* Redo does the record after the offset again.
LEMMA RedoMoves ==
  ASSUME NEW h, NEW t, HistoryOK(h), Leads(h, t), h.writer.op = "none", h.offset # Len(InUse(h))
  PROVE  LET r == InUse(h)[h.offset + 1]
             d == LineEdits(r.op, r.pos, r.line)
             s == IF r.op = "erase" THEN Removed(t, r.pos, r.length) ELSE Inserted(t, r.pos, r.line)
             g == [h EXCEPT !.offset = h.offset + 1]
         IN /\ HistoryOK(g) /\ Leads(g, s) /\ s \in Lines
            /\ InUse(g) = InUse(h) /\ g.writer.op = "none" /\ g.previous = h.previous
            /\ g.offset = h.offset + 1 /\ g.offset \in 1 .. Len(InUse(h))
            /\ Abstract!DoAll(t, d) = s
            /\ PastOf(g) = PastOf(h) \o d /\ FutureOf(h) = d \o FutureOf(g)
            /\ d \in Seq(Edit) /\ PastOf(h) \in Seq(Edit) /\ FutureOf(g) \in Seq(Edit)
<1> DEFINE b == InUse(h)
           n == h.offset + 1
           r == b[n]
           d == LineEdits(r.op, r.pos, r.line)
           s == IF r.op = "erase" THEN Removed(t, r.pos, r.length) ELSE Inserted(t, r.pos, r.line)
           g == [h EXCEPT !.offset = n]
<1>1. b \in Seq(Records) /\ b \in Seq(AnyRecord) /\ n \in 1 .. Len(b) /\ Len(b) \in Nat /\ n \in Nat /\ h.offset \in Nat
  <2>1. b \in Seq(Records) /\ b \in Seq(AnyRecord) /\ Len(b) \in Nat
    BY HistoryForm DEF HistoryOK
  <2>2. h.offset \in 0 .. Len(b)
    BY DEF HistoryOK, BufferOK
  <2> QED BY <2>1, <2>2
<1>2. n \in 0 .. Len(b) /\ h.offset = n - 1 /\ n # 0
  BY <1>1
<1>3. /\ HistoryOK(g) /\ InUse(g) = b /\ g.offset = n /\ g.writer.op = "none" /\ Before(g) = Before(h)
      /\ g.previous = h.previous
      /\ \A x : Starts(h, x) => Starts(g, x)
  BY <1>2, MoveKeeps
<1> HIDE DEF g, n
<1>4. /\ PastOf(g) = PastOf(h) \o d /\ FutureOf(h) = d \o FutureOf(g)
      /\ d \in Seq(Edit) /\ PastOf(h) \in Seq(Edit) /\ FutureOf(g) \in Seq(Edit)
      /\ r \in AnyRecord /\ r.length = Len(r.line)
  <2>1. HistoryOK(g) /\ HistoryOK(h) /\ InUse(h) = InUse(g) /\ Before(h) = Before(g) /\ g.offset # 0 /\ h.offset = g.offset - 1 /\ g.writer.op = "none"
    BY <1>2, <1>3
  <2>2. InUse(g)[g.offset] = r
    BY <1>3
  <2> HIDE DEF b, r
  <2> QED BY <2>1, <2>2, BetweenRecords
<1>5. PICK v : Versions(b, v) /\ v[h.offset] = t /\ Starts(h, v[0])
  BY DEF Leads
<1>6. v[n] \in Lines /\ t \in Lines /\ Fits(t, r.op, r.pos, r.line) /\ v[n] = Applied(t, r.op, r.pos, r.line)
  <2> HIDE DEF b, r
  <2>1. v \in [0 .. Len(b) -> Lines]
    BY <1>5 DEF Versions
  <2>2. Fits(v[n - 1], r.op, r.pos, r.line) /\ v[n] = Applied(v[n - 1], r.op, r.pos, r.line)
    BY <1>1, <1>5 DEF Versions, r
  <2>3. v[n - 1] = t /\ n - 1 \in 0 .. Len(b)
    BY <1>1, <1>2, <1>5
  <2> QED BY <1>2, <2>1, <2>2, <2>3
<1>7. r.op \in {"insert", "erase"} /\ r.line \in Seq(Letters)
  BY <1>4 DEF AnyRecord
<1>8. Abstract!DoAll(t, d) = v[n]
  <2> HIDE DEF b, r
  <2>1. t \in Lines /\ Fits(t, r.op, r.pos, r.line)
    BY <1>6
  <2>2. Abstract!DoAll(t, LineEdits(r.op, r.pos, r.line)) = Applied(t, r.op, r.pos, r.line)
    BY <1>7, <2>1, AppliedBack
  <2> QED BY <1>6, <2>2
<1>9. s = v[n]
  BY <1>4, <1>6, <1>7 DEF Applied
<1>10. Leads(g, s)
  BY <1>3, <1>5, <1>9 DEF Leads
<1>11. g.offset \in 1 .. Len(InUse(h)) /\ g.offset = h.offset + 1
  BY <1>1, <1>3 DEF n
<1> QED BY <1>3, <1>4, <1>6, <1>8, <1>9, <1>10, <1>11 DEF g, n

\* Undo goes back to the previous buffer.
LEMMA BackKeeps ==
  ASSUME NEW h, NEW t, HistoryOK(h), Leads(h, t), h.writer.op = "none", ~(h.offset = 0 /\ h.previous = 0)
  PROVE  LET g == StepBack(h)
         IN /\ HistoryOK(g) /\ Leads(g, t) /\ g.writer.op = "none" /\ g.offset # 0
            /\ PastOf(g) = PastOf(h)
            /\ FutureOf(g) = FutureOf(h) \/ FutureOf(g) = <<>>
<1>1. CASE ~(h.offset = 0 /\ h.previous # 0)
  <2>1. StepBack(h) = h
    BY <1>1 DEF StepBack
  <2> QED BY <1>1, <2>1
<1>2. CASE h.offset = 0 /\ h.previous # 0
  <2> DEFINE g == StepBack(h)
             b == InUse(h)
             a == h.buffers[h.previous]
  <2>1. h \in Histories /\ h.previous = 3 - h.active /\ Len(a) # 0 /\ Used(a) <= Capacity /\ AllClosed(a)
    BY <1>2 DEF HistoryOK
  <2>2. BufferOK(b, h.offset, h.writer)
    BY DEF HistoryOK
  <2>3. /\ h.active \in 1 .. 2 /\ 3 - h.active \in 1 .. 2 /\ h.writer \in Writers /\ h.buffers \in [1 .. 2 -> Seq(Records)]
        /\ a \in Seq(Records) /\ a \in Seq(AnyRecord) /\ b \in Seq(AnyRecord) /\ b \in Seq(Records)
        /\ 3 - (3 - h.active) = h.active
    BY <2>1, HistoryForm
  <2>4. Len(a) \in Nat
    BY <2>3, LenProperties
  <2>5. /\ g = [i \in DOMAIN g |-> g[i]]
        /\ DOMAIN g = {"buffers", "active", "previous", "offset", "writer"}
    BY <1>2, <2>1 DEF StepBack, Histories
  <2>6. /\ g.buffers = h.buffers /\ g.active = h.previous /\ g.previous = 0 /\ g.offset = Len(a) /\ g.writer = h.writer
    BY <1>2, <2>1 DEF StepBack, Histories
  <2> HIDE DEF g, a, b
  <2>7. g = [buffers |-> g.buffers, active |-> g.active, previous |-> g.previous, offset |-> g.offset, writer |-> g.writer]
    BY <2>5, HistoryFields
  <2>8. g \in Histories
    BY <2>1, <2>3, <2>4, <2>6, <2>7 DEF Histories
  <2>9. InUse(g) = a /\ g.buffers[3 - g.active] = b
    BY <2>1, <2>3, <2>6 DEF InUse, a, b
  <2>10. BufferOK(a, Len(a), h.writer)
    <3>1. Len(a) \in 0 .. Len(a)
      BY <2>4
    <3>2. Closed(a, h.writer)
      BY <2>1 DEF Closed, AllClosed
    <3> QED BY <2>1, <2>3, <3>1, <3>2 DEF BufferOK
  <2>11. HistoryOK(g)
    <3>1. Used(b) <= Capacity /\ Closed(b, h.writer)
      BY <2>2 DEF BufferOK
    <3>2. AllClosed(b)
      BY <3>1 DEF Closed, AllClosed
    <3> QED BY <2>6, <2>8, <2>9, <2>10, <3>1, <3>2 DEF HistoryOK
  <2>12. PICK v : Versions(b, v) /\ v[0] = t /\ Starts(h, v[0])
    BY <1>2 DEF Leads, b
  <2>13. PICK u : Versions(a, u) /\ u[Len(a)] = t
    BY <1>2, <2>12 DEF Starts, a
  <2>14. Leads(g, t)
    <3>1. Starts(g, u[0])
      BY <2>6 DEF Starts
    <3> QED BY <2>6, <2>9, <2>13, <3>1 DEF Leads
  <2>15. Stands(g, t)
    BY <2>6, <2>9, <2>11, <2>14 DEF Stands
  <2>16. FutureOf(g) = <<>> /\ PastOf(g) = Before(g) \o EditsOf(a)
    BY <2>9, <2>15, StandsForm
  <2>17. EditsOf(a) \in Seq(Edit)
    BY <2>3, EditsOfConcat
  <2>18. PastOf(g) = EditsOf(a)
    BY <2>6, <2>16, <2>17, ConcatEmptySeq DEF Before
  <2>19. PastOf(h) = EditsOf(a)
    <3>1. SubSeq(b, 1, 0) = <<>>
      BY <2>3, SubSeqEmpty
    <3>2. PastOf(h) = EditsOf(a) \o EditsOf(<<>>)
      BY <1>2, <3>1 DEF PastOf, Before, a, b
    <3> QED BY <2>17, <3>2, EditsOfEmpty, ConcatEmptySeq
  <2> QED BY <1>2, <2>1, <2>6, <2>11, <2>14, <2>16, <2>18, <2>19 DEF g
<1> QED BY <1>1, <1>2

-----------------------------------------------------------------------------
(* Prefixes and suffixes, as LinearHistory states them.                    *)

\* A sequence of two parts, taken apart.
LEMMA PartsOfConcat ==
  ASSUME NEW a, NEW b, a \in Seq(Edit) /\ b \in Seq(Edit)
  PROVE  /\ a \o b \in Seq(Edit) /\ Len(a) \in Nat /\ Len(b) \in Nat /\ Len(a \o b) = Len(a) + Len(b)
         /\ SubSeq(a \o b, 1, Len(a)) = a
         /\ SubSeq(a \o b, Len(a) + 1, Len(a \o b)) = b
<1> DEFINE c == a \o b
           n == Len(a)
           x == SubSeq(c, 1, n)
           y == SubSeq(c, n + 1, Len(c))
           k == 1
<1>1. n \in Nat /\ Len(b) \in Nat
  BY LenProperties
<1>2. c \in Seq(Edit) /\ Len(c) = n + Len(b) /\ \A i \in 1 .. n + Len(b) : c[i] = IF i <= n THEN a[i] ELSE b[i - n]
  BY ConcatProperties
<1> HIDE DEF c
<1>3. k \in 1 .. Len(c) + 1 /\ n \in k - 1 .. Len(c) /\ n - k + 1 = n
  BY <1>1, <1>2
<1>4. n + 1 \in 1 .. Len(c) + 1 /\ Len(c) \in (n + 1) - 1 .. Len(c) /\ Len(c) - (n + 1) + 1 = Len(b)
  BY <1>1, <1>2
<1>5. y \in Seq(Edit) /\ Len(y) = Len(b) /\ \A i \in 1 .. Len(b) : y[i] = c[(n + 1) + i - 1]
  BY <1>2, <1>4, PartOf
<1> HIDE DEF k
<1>6. SubSeq(c, k, n) \in Seq(Edit) /\ Len(SubSeq(c, k, n)) = n /\ \A i \in 1 .. n : SubSeq(c, k, n)[i] = c[k + i - 1]
  BY <1>2, <1>3, PartOf
<1>7. x \in Seq(Edit) /\ Len(x) = n /\ \A i \in 1 .. n : x[i] = c[i]
  <2>1. \A i \in 1 .. n : 1 + i - 1 = i
    BY <1>1
  <2> QED BY <1>6, <2>1 DEF k
<1> HIDE DEF x, y
<1>8. \A i \in 1 .. n : x[i] = a[i]
  <2>1. \A i \in 1 .. n : i \in 1 .. n + Len(b) /\ i <= n
    BY <1>1
  <2> QED BY <1>2, <1>7, <2>1
<1>9. x = a
  BY <1>7, <1>8, SeqEqual
<1>10. \A i \in 1 .. Len(b) : y[i] = b[i]
  <2>1. \A i \in 1 .. Len(b) : n + i \in 1 .. n + Len(b) /\ ~(n + i <= n) /\ (n + 1) + i - 1 = n + i /\ (n + i) - n = i
    BY <1>1
  <2>2. \A i \in 1 .. Len(b) : c[n + i] = b[(n + i) - n]
    BY <1>2, <2>1
  <2> QED BY <1>5, <2>1, <2>2
<1>11. y = b
  BY <1>5, <1>10, SeqEqual
<1> QED BY <1>1, <1>2, <1>9, <1>11 DEF c, x, y

LEMMA PrefixOfConcat ==
  ASSUME NEW a, NEW b, a \in Seq(Edit) /\ b \in Seq(Edit)
  PROVE  IsPrefix(a, a \o b) /\ IsPrefix(<<>>, b)
<1>1. /\ Len(a) \in Nat /\ Len(b) \in Nat /\ Len(a \o b) = Len(a) + Len(b)
      /\ SubSeq(a \o b, 1, Len(a)) = a
  BY PartsOfConcat
<1>2. SubSeq(a, 1, Len(a)) = a
  BY SubSeqFull
<1>3. IsPrefix(a, a \o b)
  BY <1>1, <1>2 DEF IsPrefix
<1>4. SubSeq(b, 1, 0) = <<>> /\ SubSeq(<<>>, 1, 0) = <<>>
  BY SubSeqEmpty
<1>5. Len(<<>>) = 0
  OBVIOUS
<1>6. IsPrefix(<<>>, b)
  BY <1>1, <1>4, <1>5 DEF IsPrefix
<1> QED BY <1>3, <1>6

\* A sequence backwards.
LEMMA ReverseForm ==
  ASSUME NEW S, NEW a \in Seq(S)
  PROVE  Reverse(a) \in Seq(S) /\ Len(Reverse(a)) = Len(a) /\ \A i \in 1 .. Len(a) : Reverse(a)[i] = a[Len(a) - i + 1]
<1>1. Len(a) \in Nat
  BY LenProperties
<1>2. \A i \in 1 .. Len(a) : Len(a) - i + 1 \in 1 .. Len(a)
  BY <1>1
<1>3. \A i \in 1 .. Len(a) : a[Len(a) - i + 1] \in S
  BY <1>2, ElementOfSeq
<1>4. Reverse(a) \in [1 .. Len(a) -> S]
  BY <1>3 DEF Reverse
<1> QED BY <1>1, <1>4, SeqDef, LenProperties DEF Reverse

LEMMA SuffixOfConcat ==
  ASSUME NEW a, NEW b, a \in Seq(Edit) /\ b \in Seq(Edit)
  PROVE  IsSuffix(b, a \o b)
<1> DEFINE c == a \o b
           u == Reverse(a)
           v == Reverse(b)
           w == Reverse(c)
<1>1. /\ Len(a) \in Nat /\ Len(b) \in Nat /\ c \in Seq(Edit) /\ Len(c) = Len(a) + Len(b)
      /\ \A i \in 1 .. Len(a) + Len(b) : c[i] = IF i <= Len(a) THEN a[i] ELSE b[i - Len(a)]
  BY ConcatProperties, LenProperties
<1> HIDE DEF c
<1>2. u \in Seq(Edit) /\ Len(u) = Len(a) /\ \A i \in 1 .. Len(a) : u[i] = a[Len(a) - i + 1]
  BY ReverseForm
<1>3. v \in Seq(Edit) /\ Len(v) = Len(b) /\ \A i \in 1 .. Len(b) : v[i] = b[Len(b) - i + 1]
  BY ReverseForm
<1>4. w \in Seq(Edit) /\ Len(w) = Len(c) /\ \A i \in 1 .. Len(c) : w[i] = c[Len(c) - i + 1]
  BY <1>1, ReverseForm
<1> HIDE DEF u, v, w
<1>5. /\ v \o u \in Seq(Edit) /\ Len(v \o u) = Len(v) + Len(u)
      /\ \A i \in 1 .. Len(v) + Len(u) : (v \o u)[i] = IF i <= Len(v) THEN v[i] ELSE u[i - Len(v)]
  <2>1. u \in Seq(Edit) /\ v \in Seq(Edit)
    BY <1>2, <1>3
  <2> QED BY ONLY <2>1, ConcatProperties
<1>6. ASSUME NEW i \in 1 .. Len(c) PROVE w[i] = (v \o u)[i]
  <2>1. i \in 1 .. Len(v) + Len(u) /\ Len(c) - i + 1 \in 1 .. Len(a) + Len(b)
    BY <1>1, <1>2, <1>3
  <2>2. CASE i <= Len(b)
    <3>1. i \in 1 .. Len(b) /\ ~(Len(c) - i + 1 <= Len(a)) /\ Len(c) - i + 1 - Len(a) = Len(b) - i + 1
      BY <1>1, <2>2
    <3>2. c[Len(c) - i + 1] = b[Len(c) - i + 1 - Len(a)]
      BY <1>1, <2>1, <3>1
    <3>3. (v \o u)[i] = v[i]
      BY <1>3, <1>5, <2>1, <2>2
    <3> QED BY <1>3, <1>4, <3>1, <3>2, <3>3
  <2>3. CASE ~(i <= Len(b))
    <3>1. i - Len(b) \in 1 .. Len(a) /\ Len(c) - i + 1 <= Len(a) /\ Len(c) - i + 1 = Len(a) - (i - Len(b)) + 1
      BY <1>1, <2>3
    <3>2. c[Len(c) - i + 1] = a[Len(c) - i + 1]
      BY <1>1, <2>1, <3>1
    <3>3. (v \o u)[i] = u[i - Len(b)]
      BY <1>3, <1>5, <2>1, <2>3
    <3>4. u[i - Len(b)] = a[Len(a) - (i - Len(b)) + 1]
      BY <1>2, <3>1
    <3> QED BY <1>4, <3>1, <3>2, <3>3, <3>4
  <2> QED BY <2>2, <2>3
<1>7. w = v \o u
  <2>1. Len(w) = Len(v \o u)
    BY <1>1, <1>2, <1>3, <1>4, <1>5
  <2> QED BY <1>4, <1>5, <1>6, <2>1, SeqEqual
<1>8. IsPrefix(v, v \o u)
  BY <1>2, <1>3, PrefixOfConcat
<1> QED BY <1>7, <1>8 DEF IsSuffix, c, v, w

-----------------------------------------------------------------------------
(* The steps of LinearHistory.                                             *)

\* The refinement mapping, in terms of the history.
LEMMA PastIs == past = PastOf(history) /\ future = FutureOf(history)
  BY DEF past, future, PastOf, FutureOf, Before, InUse, history

LEMMA PastBecomes == past' = PastOf(history') /\ future' = FutureOf(history')
  BY DEF past, future, PastOf, FutureOf, Before, InUse, history

\* The variables take the values of a history.
LEMMA HistoryBecomes ==
  ASSUME NEW g, Becomes(g), HistoryOK(g)
  PROVE  history' = g
<1>1. g \in Histories
  BY DEF HistoryOK
<1>2. /\ g = [i \in DOMAIN g |-> g[i]]
      /\ DOMAIN g = {"buffers", "active", "previous", "offset", "writer"}
  BY <1>1 DEF Histories
<1>3. g = [buffers |-> g.buffers, active |-> g.active, previous |-> g.previous, offset |-> g.offset, writer |-> g.writer]
  BY <1>2, HistoryFields
<1>4. history' = [buffers |-> g.buffers, active |-> g.active, previous |-> g.previous, offset |-> g.offset, writer |-> g.writer]
  BY DEF Becomes, history
<1> QED BY <1>3, <1>4

LEMMA NoMisfit ==
  ASSUME NEW t \in Lines
  PROVE  t # Misfit
BY LinesForm, MisfitAssumption

\* An edit of which the past may forget the oldest part.
LEMMA NextChange ==
  ASSUME NEW e, NEW x, NEW q,
         x \in Seq(Edit) /\ q \in Seq(Edit) /\ past \o e = x \o q /\ past' = q,
         NEW op \in {"insert", "erase"}, NEW p \in 0 .. MaxText, NEW line \in Abstract!Lines,
         e = LineEdits(op, p, line), text' = Abstract!DoAll(text, e), text' \in Lines, future' = <<>>
  PROVE  Abstract!Next
<1>1. IsSuffix(q, x \o q)
  BY SuffixOfConcat
<1>2. Abstract!IsSuffix(past', past \o e)
  BY <1>1 DEF IsSuffix, IsPrefix, Reverse, Abstract!IsSuffix, Abstract!IsPrefix, Abstract!Reverse
<1>3. e \in {Abstract!Typed(p, line), Abstract!Erased(p, line)}
  BY DEF LineEdits
<1>4. text' # Misfit
  BY NoMisfit
<1>5. Abstract!Change
  BY <1>2, <1>3, <1>4 DEF Abstract!Change
<1> QED BY <1>4, <1>5 DEF Abstract!Next

\* An undo after which the future may be forgotten.
LEMMA NextUndo ==
  ASSUME NEW d, NEW q, NEW f,
         q \in Seq(Edit) /\ d \in Seq(Edit) /\ f \in Seq(Edit),
         past = q \o d, past' = q, future = f, future' = d \o f \/ future' = d,
         text' = Abstract!DoAll(text, Abstract!TakenBack(d)), text' \in Lines
  PROVE  Abstract!Next
<1> DEFINE k == Len(q)
<1>1. /\ k \in Nat /\ Len(d) \in Nat /\ Len(past) = k + Len(d)
      /\ SubSeq(past, 1, k) = q /\ SubSeq(past, k + 1, Len(past)) = d
  BY PartsOfConcat
<1>2. k \in 0 .. Len(past)
  BY <1>1
<1>3. d \o f \in Seq(Edit) /\ SubSeq(d \o f, 1, Len(d \o f)) = d \o f
  BY PartsOfConcat, SubSeqFull
<1>4. Len(d \o f) \in Nat
  BY <1>3, LenProperties
<1>5. IsPrefix(d \o f, d \o f) /\ IsPrefix(d, d \o f)
  BY <1>3, <1>4, PrefixOfConcat DEF IsPrefix
<1>6. Abstract!IsPrefix(future', d \o f)
  BY <1>5 DEF IsPrefix, Abstract!IsPrefix
<1>7. text' # Misfit
  BY NoMisfit
<1> HIDE DEF k
<1>8. Abstract!Undo
  BY <1>1, <1>2, <1>6 DEF Abstract!Undo
<1> QED BY <1>7, <1>8 DEF Abstract!Next

\* A redo.
LEMMA NextRedo ==
  ASSUME NEW d, NEW q, NEW f,
         q \in Seq(Edit) /\ d \in Seq(Edit) /\ f \in Seq(Edit),
         past = q, past' = q \o d, future = d \o f, future' = f,
         text' = Abstract!DoAll(text, d), text' \in Lines
  PROVE  Abstract!Next
<1> DEFINE k == Len(d)
<1>1. /\ k \in Nat /\ Len(f) \in Nat /\ Len(future) = k + Len(f)
      /\ SubSeq(future, 1, k) = d /\ SubSeq(future, k + 1, Len(future)) = f
  BY PartsOfConcat
<1>2. k \in 0 .. Len(future)
  BY <1>1
<1>3. text' # Misfit
  BY NoMisfit
<1> HIDE DEF k
<1>4. Abstract!Redo
  BY <1>1, <1>2 DEF Abstract!Redo
<1> QED BY <1>3, <1>4 DEF Abstract!Next

LEMMA EditableLine ==
  ASSUME NEW line \in Seq(Letters), Len(line) # 0, Len(line) <= MaxText
  PROVE  line \in Abstract!Lines
<1>1. Len(line) \in 1 .. MaxText /\ line \in [1 .. Len(line) -> Letters]
  BY LenProperties, SizeAssumption
<1> QED BY <1>1 DEF Abstract!Lines

-----------------------------------------------------------------------------
(* The actions.                                                            *)

LEMMA InvBecomes ==
  ASSUME NEW g, HistoryOK(g), Leads(g, text'), Becomes(g)
  PROVE  HistoryInv' /\ history' = g
<1>1. history' = g
  BY HistoryBecomes
<1> QED BY <1>1 DEF HistoryInv

\* An edit is written behind what was not undone.
LEMMA EditStep ==
  ASSUME HistoryInv, NEW op \in {"insert", "erase"}, NEW p, NEW line \in Seq(Letters), Len(line) # 0,
         Fits(text, op, p, line), text' = Applied(text, op, p, line),
         Becomes(WriteOperation(Trim(history), op, p, line))
  PROVE  HistoryInv' /\ Abstract!Next
<1> DEFINE e == LineEdits(op, p, line)
<1>1. PICK h : h = Trim(history)
  OBVIOUS
<1>2. Stands(h, text) /\ PastOf(h) = PastOf(history)
  BY <1>1, TrimKeeps DEF HistoryInv
<1>3. PICK g : g = WriteOperation(h, op, p, line)
  OBVIOUS
<1>4. Stands(g, text') /\ \E x \in Seq(Edit) : PastOf(h) \o e = x \o PastOf(g)
  <2>1. /\ Stands(h, text) /\ op \in {"insert", "erase"} /\ line \in Seq(Letters) /\ Fits(text, op, p, line)
        /\ Len(line) # 0
    BY <1>2
  <2>2. /\ Stands(g, Applied(text, op, p, line))
        /\ \E x \in Seq(Edit) : PastOf(h) \o LineEdits(op, p, line) = x \o PastOf(g)
    BY ONLY <1>3, <2>1, WriteOperationKeeps
  <2> QED BY <2>2
<1>5. HistoryOK(g) /\ Leads(g, text') /\ Becomes(g)
  BY <1>1, <1>3, <1>4 DEF Stands
<1>6. HistoryInv' /\ history' = g
  BY <1>5, InvBecomes
<1>7. past = PastOf(h) /\ past' = PastOf(g) /\ future' = <<>>
  <2>1. FutureOf(g) = <<>>
    BY <1>4, StandsForm
  <2> QED BY <1>2, <1>6, <2>1, PastIs, PastBecomes
<1>8. PICK x \in Seq(Edit) : past \o e = x \o PastOf(g)
  BY <1>4, <1>7
<1>9. PastOf(g) \in Seq(Edit)
  BY <1>5, PastType
<1>10. text \in Lines
  BY <1>2, StandsForm
<1>11. text' \in Lines /\ p \in Nat /\ p <= MaxText /\ Len(line) <= MaxText
  BY <1>10, AppliedIsText
<1>12. p \in 0 .. MaxText /\ line \in Abstract!Lines
  BY <1>11, EditableLine, SizeAssumption
<1>13. text' = Abstract!DoAll(text, e)
  BY <1>10, AppliedBack
<1>14. Abstract!Next
  BY <1>7, <1>8, <1>9, <1>11, <1>12, <1>13, NextChange
<1> QED BY <1>6, <1>14

LEMMA InsertStep ==
  ASSUME HistoryInv, OnInsert
  PROVE  HistoryInv' /\ Abstract!Next
<1>1. PICK p \in 0 .. Len(text), line \in Lines \ {<<>>} :
        /\ Len(text) + Len(line) <= MaxText
        /\ Becomes(WriteOperation(Trim(history), "insert", p, line))
        /\ text' = Inserted(text, p, line)
  BY DEF OnInsert
<1>2. line \in Seq(Letters) /\ Len(line) # 0
  <2>1. line \in Seq(Letters) /\ line # <<>>
    BY <1>1, LinesForm
  <2> QED BY <2>1, EmptySeq
<1>3. Fits(text, "insert", p, line) /\ text' = Applied(text, "insert", p, line)
  BY <1>1 DEF Fits, Applied
<1> QED BY <1>1, <1>2, <1>3, EditStep

LEMMA EraseStep ==
  ASSUME HistoryInv, OnErase
  PROVE  HistoryInv' /\ Abstract!Next
<1>1. PICK p \in 0 .. Len(text) - 1 : \E n \in 1 .. Len(text) - p :
        /\ Becomes(WriteOperation(Trim(history), "erase", p, SubSeq(text, p + 1, p + n)))
        /\ text' = Removed(text, p, n)
  BY DEF OnErase
<1>2. PICK n \in 1 .. Len(text) - p :
        /\ Becomes(WriteOperation(Trim(history), "erase", p, SubSeq(text, p + 1, p + n)))
        /\ text' = Removed(text, p, n)
  BY <1>1
<1>3. text \in Seq(Letters) /\ Len(text) \in Nat
  <2>1. text \in Lines
    <3>1. PICK v : Versions(InUse(history), v) /\ v[history.offset] = text
      BY DEF HistoryInv, Leads
    <3>2. history.offset \in 0 .. Len(InUse(history))
      BY DEF HistoryInv, HistoryOK, BufferOK
    <3> QED BY <3>1, <3>2 DEF Versions
  <2> QED BY <2>1, LinesForm, LenProperties
<1>4. PICK line : line = SubSeq(text, p + 1, p + n)
  OBVIOUS
<1>5. /\ p + 1 \in 1 .. Len(text) + 1 /\ p + n \in (p + 1) - 1 .. Len(text) /\ (p + n) - (p + 1) + 1 = n
      /\ n \in Nat /\ n # 0 /\ p + n <= Len(text) /\ p \in 0 .. Len(text) /\ p \in Nat
  BY <1>3
<1>6. line \in Seq(Letters) /\ Len(line) = n /\ \A i \in 1 .. n : line[i] = text[(p + 1) + i - 1]
  BY <1>3, <1>4, <1>5, PartOf
<1>7. \A i \in 1 .. n : line[i] = text[p + i]
  <2>1. \A i \in 1 .. n : (p + 1) + i - 1 = p + i
    BY <1>5
  <2> QED BY <1>6, <2>1
<1>8. Fits(text, "erase", p, line) /\ text' = Applied(text, "erase", p, line)
  BY <1>2, <1>5, <1>6, <1>7 DEF Fits, Has, Applied
<1> QED BY <1>2, <1>4, <1>5, <1>6, <1>8, EditStep

\* Undo: the open record is closed, the previous buffer may come into use.
LEMMA UndoStep ==
  ASSUME HistoryInv, Undo
  PROVE  HistoryInv' /\ Abstract!Next
<1>1. HistoryOK(history) /\ Leads(history, text) /\ ~(history.offset = 0 /\ history.previous = 0)
  BY DEF HistoryInv, Undo, bof, history
<1>2. PICK c : c = IF writer.op = "none" THEN history ELSE EndRecord(history)
  OBVIOUS
<1>3. /\ HistoryOK(c) /\ Leads(c, text) /\ c.writer.op = "none"
      /\ ~(c.offset = 0 /\ c.previous = 0)
      /\ PastOf(c) = PastOf(history) /\ FutureOf(c) = FutureOf(history)
  <2>1. CASE writer.op = "none"
    <3>1. c = history /\ history.writer.op = "none"
      BY <1>2, <2>1 DEF history
    <3> QED BY <1>1, <3>1
  <2>2. CASE writer.op # "none"
    <3>1. c = EndRecord(history) /\ history.writer.op # "none"
      BY <1>2, <2>2 DEF history
    <3>2. Stands(history, text)
      BY <1>1, <3>1 DEF Stands, HistoryOK, BufferOK
    <3>3. /\ Stands(c, text) /\ PastOf(c) = PastOf(history) /\ c.writer.op = "none" /\ Len(InUse(c)) # 0
      BY <3>1, <3>2, EndRecordKeeps
    <3>4. FutureOf(c) = <<>> /\ FutureOf(history) = <<>>
      BY <3>2, <3>3, StandsForm
    <3> QED BY <3>3, <3>4 DEF Stands
  <2> QED BY <2>1, <2>2
<1>4. PICK h : h = StepBack(c)
  OBVIOUS
<1>5. /\ HistoryOK(h) /\ Leads(h, text) /\ h.writer.op = "none" /\ h.offset # 0
      /\ PastOf(h) = PastOf(history)
      /\ FutureOf(h) = FutureOf(history) \/ FutureOf(h) = <<>>
  BY <1>3, <1>4, BackKeeps
<1>6. PICK r : r = InUse(h)[h.offset]
  OBVIOUS
<1>7. PICK g : g = [h EXCEPT !.offset = h.offset - 1]
  OBVIOUS
<1>8. /\ text' = IF r.op = "erase" THEN Inserted(text, r.pos, r.line) ELSE Removed(text, r.pos, r.length)
      /\ Becomes(g)
  BY <1>2, <1>4, <1>6, <1>7 DEF Undo, InUse
<1>9. PICK d : d = LineEdits(r.op, r.pos, r.line)
  OBVIOUS
<1>10. /\ HistoryOK(g) /\ Leads(g, text') /\ text' \in Lines
       /\ Abstract!DoAll(text, Abstract!TakenBack(d)) = text'
       /\ PastOf(h) = PastOf(g) \o d /\ FutureOf(g) = d \o FutureOf(h)
       /\ d \in Seq(Edit) /\ PastOf(g) \in Seq(Edit) /\ FutureOf(h) \in Seq(Edit)
  BY <1>5, <1>6, <1>7, <1>8, <1>9, UndoMoves
<1>11. HistoryInv' /\ history' = g
  BY <1>8, <1>10, InvBecomes
<1>12. FutureOf(history) \in Seq(Edit) /\ d \o <<>> = d
  <2>1. InUse(history) \in Seq(AnyRecord) /\ history.offset \in 0 .. Len(InUse(history)) /\ Len(InUse(history)) \in Nat
    BY <1>1, HistoryForm DEF HistoryOK, BufferOK
  <2>2. history.offset + 1 \in 1 .. Len(InUse(history)) + 1 /\ Len(InUse(history)) \in (history.offset + 1) - 1 .. Len(InUse(history))
    BY <2>1
  <2>3. SubSeq(InUse(history), history.offset + 1, Len(InUse(history))) \in Seq(AnyRecord)
    BY <2>1, <2>2, PartOf
  <2>4. FutureOf(history) \in Seq(Edit)
    BY <2>3, EditsOfConcat DEF FutureOf
  <2> QED BY <1>10, <2>4, ConcatEmptySeq
<1>13. past = PastOf(g) \o d /\ past' = PastOf(g) /\ future = FutureOf(history) /\ future' = FutureOf(g)
  BY <1>5, <1>10, <1>11, PastIs, PastBecomes
<1>14. future' = d \o FutureOf(history) \/ future' = d
  BY <1>5, <1>10, <1>12, <1>13
<1>15. Abstract!Next
  BY <1>10, <1>12, <1>13, <1>14, NextUndo
<1> QED BY <1>11, <1>15

\* Redo: at the end of the newer buffer the other one is used.
LEMMA RedoStep ==
  ASSUME HistoryInv, Redo
  PROVE  HistoryInv' /\ Abstract!Next
<1>1. HistoryOK(history) /\ Leads(history, text) /\ history.offset # Len(InUse(history))
  BY DEF HistoryInv, Redo, eof, history, InUse
<1>2. history.writer.op = "none"
  BY <1>1 DEF HistoryOK, BufferOK
<1>3. PICK r : r = InUse(history)[history.offset + 1]
  OBVIOUS
<1>4. PICK h : h = [history EXCEPT !.offset = history.offset + 1]
  OBVIOUS
<1>5. /\ text' = IF r.op = "erase" THEN Removed(text, r.pos, r.length) ELSE Inserted(text, r.pos, r.line)
      /\ Becomes(IF AtEnd(h) THEN SwitchBuffer(h) ELSE h)
  <2>1. r = buffers[active][offset + 1]
    BY <1>3 DEF InUse, history
  <2> QED BY <1>4, <2>1 DEF Redo
<1>6. PICK d : d = LineEdits(r.op, r.pos, r.line)
  OBVIOUS
<1>7. /\ HistoryOK(h) /\ Leads(h, text') /\ text' \in Lines
      /\ InUse(h) = InUse(history) /\ h.writer.op = "none" /\ h.previous = history.previous
      /\ h.offset \in 1 .. Len(InUse(history))
      /\ Abstract!DoAll(text, d) = text'
      /\ PastOf(h) = PastOf(history) \o d /\ FutureOf(history) = d \o FutureOf(h)
      /\ d \in Seq(Edit) /\ PastOf(history) \in Seq(Edit) /\ FutureOf(h) \in Seq(Edit)
  BY <1>1, <1>2, <1>3, <1>4, <1>5, <1>6, RedoMoves
<1>8. PICK g : g = IF AtEnd(h) THEN SwitchBuffer(h) ELSE h
  OBVIOUS
<1>9. HistoryOK(g) /\ Leads(g, text') /\ PastOf(g) = PastOf(h) /\ FutureOf(g) = FutureOf(h)
  <2>1. CASE ~AtEnd(h)
    BY <1>7, <1>8, <2>1
  <2>2. CASE AtEnd(h)
    <3>1. h.offset = Len(InUse(h)) /\ h.previous = 0
      BY <2>2 DEF AtEnd, InUse
    <3>2. Stands(h, text')
      BY <1>7, <3>1 DEF Stands
    <3>3. Len(InUse(h)) # 0
      BY <1>7, <3>1
    <3>4. g = SwitchBuffer(h)
      BY <1>8, <2>2
    <3>5. Stands(g, text') /\ PastOf(h) = Before(h) \o PastOf(g)
      BY <1>7, <3>2, <3>3, <3>4, SwitchBufferKeeps
    <3>6. FutureOf(g) = <<>> /\ FutureOf(h) = <<>>
      BY <3>2, <3>5, StandsForm
    <3>7. PastOf(g) \in Seq(Edit)
      BY <3>5, PastType DEF Stands
    <3>8. <<>> \o PastOf(g) = PastOf(g)
      BY <3>7, ConcatEmptySeq
    <3>9. PastOf(h) = PastOf(g)
      BY <3>1, <3>5, <3>8 DEF Before
    <3> QED BY <3>5, <3>6, <3>9 DEF Stands
  <2> QED BY <2>1, <2>2
<1>10. Becomes(g)
  BY <1>5, <1>8
<1>11. HistoryInv' /\ history' = g
  BY <1>9, <1>10, InvBecomes
<1>12. /\ past = PastOf(history) /\ past' = PastOf(history) \o d
       /\ future = d \o FutureOf(h) /\ future' = FutureOf(h)
  BY <1>7, <1>9, <1>11, PastIs, PastBecomes
<1>13. Abstract!Next
  BY <1>7, <1>12, NextRedo
<1> QED BY <1>11, <1>13

\* The empty history.
LEMMA HistoryInitInv ==
  ASSUME Init
  PROVE  HistoryInv /\ Abstract!Init
<1>1. PICK h : h = history
  OBVIOUS
<1>2. /\ h.buffers = [b \in 1 .. 2 |-> <<>>] /\ h.active = 1 /\ h.previous = 0 /\ h.offset = 0
      /\ h.writer = [op |-> "none", pos |-> 0, length |-> 0]
      /\ h = [buffers |-> h.buffers, active |-> h.active, previous |-> h.previous, offset |-> h.offset, writer |-> h.writer]
      /\ text = <<>>
  BY <1>1 DEF Init, history
<1>3. <<>> \in Seq(Records) /\ Len(<<>>) = 0 /\ <<>> \in Lines
  <2>1. <<>> \in Seq(Records) /\ <<>> \in Seq(Letters) /\ Len(<<>>) = 0
    BY EmptySeq
  <2>2. Len(<<>>) <= MaxText
    BY <2>1, SizeAssumption
  <2>3. <<>> \in Lines
    BY <2>1, <2>2, LinesForm
  <2> QED BY <2>1, <2>3
<1>4. h.writer \in Writers /\ h.writer.op = "none"
  BY <1>2 DEF Writers
<1>5. h \in Histories
  <2>1. h.buffers \in [1 .. 2 -> Seq(Records)] /\ h.active \in 1 .. 2 /\ h.previous \in 0 .. 2 /\ h.offset \in Nat
    BY <1>2, <1>3
  <2> QED BY <1>2, <1>4, <2>1 DEF Histories
<1>6. InUse(h) = <<>> /\ h.buffers[3 - h.active] = <<>>
  BY <1>2 DEF InUse
<1>7. Used(<<>>) <= Capacity
  BY UsedEmpty, SizeAssumption
<1>8. HistoryOK(h)
  <2>1. Closed(<<>>, h.writer) /\ AllClosed(<<>>)
    BY <1>3 DEF Closed, AllClosed
  <2>2. BufferOK(<<>>, h.offset, h.writer)
    BY <1>2, <1>3, <1>4, <1>7, <2>1 DEF BufferOK
  <2> QED BY <1>2, <1>5, <1>6, <1>7, <2>1, <2>2 DEF HistoryOK
<1>9. PICK v : Versions(<<>>, v) /\ v[0] = <<>>
  BY <1>3, VersionsEmpty
<1>10. Leads(h, text) /\ Stands(h, text)
  <2>1. Starts(h, v[0])
    BY <1>2 DEF Starts
  <2> QED BY <1>2, <1>3, <1>6, <1>8, <1>9, <2>1 DEF Leads, Stands
<1>11. FutureOf(h) = <<>> /\ PastOf(h) = Before(h) \o EditsOf(InUse(h))
  BY <1>10, StandsForm
<1>12. PastOf(h) = <<>>
  BY <1>2, <1>6, <1>11, EditsOfEmpty, EmptySeq, ConcatEmptySeq DEF Before
<1>13. past = <<>> /\ future = <<>>
  BY <1>1, <1>11, <1>12, PastIs
<1> QED BY <1>1, <1>2, <1>8, <1>10, <1>13 DEF HistoryInv, Abstract!Init

\* Every step keeps the invariant and is a step of LinearHistory, or none.
LEMMA HistoryStep ==
  ASSUME HistoryInv, [Next]_vars
  PROVE  HistoryInv' /\ [Abstract!Next]_(Abstract!historyVars)
<1>1. CASE OnInsert
  BY <1>1, InsertStep
<1>2. CASE OnErase
  BY <1>2, EraseStep
<1>3. CASE Undo
  BY <1>3, UndoStep
<1>4. CASE Redo
  BY <1>4, RedoStep
<1>5. CASE UNCHANGED vars
  <2>1. history' = history /\ text' = text
    BY <1>5 DEF vars, history
  <2>2. HistoryInv'
    BY <2>1 DEF HistoryInv
  <2>3. past' = past /\ future' = future
    BY <2>1, PastIs, PastBecomes
  <2> QED BY <2>1, <2>2, <2>3 DEF Abstract!historyVars
<1> QED BY <1>1, <1>2, <1>3, <1>4, <1>5 DEF Next

-----------------------------------------------------------------------------
(* The theorems.                                                           *)

\* The invariant of text.cpp's undo history: both buffers keep their capacity
\* and hold closed records, but for the one the writer goes on with, and the
\* records of the previous buffer and of the one in use lead from an earlier
\* text to the text the editor shows.
THEOREM HistoryInvariant == Spec => []HistoryInv
<1>1. Init => HistoryInv
  BY HistoryInitInv
<1>2. HistoryInv /\ [Next]_vars => HistoryInv'
  BY HistoryStep
<1> QED BY <1>1, <1>2, PTL DEF Spec

\* The variables of the history and of its writer keep their types: in
\* particular no record reaches beyond the text it was written for.
THEOREM HistoryTypeCorrect == Spec => []TypeOK
<1>1. HistoryInv => TypeOK
  <2> SUFFICES ASSUME HistoryInv PROVE TypeOK
    OBVIOUS
  <2>1. history \in Histories
    BY DEF HistoryInv, HistoryOK
  <2>2. /\ active \in 1 .. 2 /\ writer \in Writers /\ buffers \in [1 .. 2 -> Seq(Records)]
    BY <2>1, HistoryForm DEF history
  <2>3. offset \in 0 .. Len(buffers[active]) /\ previous \in {0, 3 - active}
    BY DEF HistoryInv, HistoryOK, BufferOK, InUse, history
  <2>4. PICK v : Versions(InUse(history), v) /\ v[history.offset] = text
    BY DEF HistoryInv, Leads
  <2>5. history.offset \in 0 .. Len(InUse(history))
    BY DEF HistoryInv, HistoryOK, BufferOK
  <2>6. text \in Lines
    BY <2>4, <2>5 DEF Versions
  <2>7. writer.op \in {"none", "insert", "erase"}
    BY <2>2 DEF Writers
  <2> QED BY <2>2, <2>3, <2>6, <2>7 DEF TypeOK
<1> QED BY <1>1, HistoryInvariant, PTL

\* writeRecord leaves a buffer within its capacity and keeps room for the end
\* of the record it leaves open, however edits, undo and redo alternate.
THEOREM HistoryKeepsCapacity == Spec => []CapacityKept
<1>1. HistoryInv => CapacityKept
  <2> SUFFICES ASSUME HistoryInv PROVE CapacityKept
    OBVIOUS
  <2>1. HistoryOK(history)
    BY DEF HistoryInv
  <2>2. history \in Histories /\ Used(InUse(history)) <= Capacity /\ Used(history.buffers[3 - history.active]) <= Capacity
    BY <2>1 DEF HistoryOK, BufferOK
  <2>3. history.active \in 1 .. 2
    BY <2>2, HistoryForm
  <2>4. history.active = active /\ history.buffers = buffers /\ history.writer = writer
    BY DEF history
  <2>5. \A b \in 1 .. 2 : Used(buffers[b]) <= Capacity
    <3>1. SUFFICES ASSUME NEW b \in 1 .. 2 PROVE Used(buffers[b]) <= Capacity
      OBVIOUS
    <3>2. b = active \/ b = 3 - active
      BY <2>3, <2>4
    <3>3. Used(buffers[active]) <= Capacity /\ Used(buffers[3 - active]) <= Capacity
      BY <2>2, <2>4 DEF InUse
    <3> QED BY <3>2, <3>3
  <2>6. writer.op # "none" => FreeSpace(history) >= END_RECORD_SIZE
    BY <2>1, <2>4, FreeSpaceType
  <2> QED BY <2>5, <2>6 DEF CapacityKept
<1> QED BY <1>1, HistoryInvariant, PTL

\* Every record that undo or redo reads was closed by writeEndRecord with the
\* length of its line; only the last one of the buffer in use may be open, and
\* then lastOperation, lastPosition and lastLength describe it.
THEOREM HistoryRecordsClosed == Spec => []OneOpenRecord
<1>1. HistoryInv => OneOpenRecord
  <2> SUFFICES ASSUME HistoryInv, NEW b \in 1 .. 2, NEW i \in DOMAIN buffers[b]
               PROVE  LET r == buffers[b][i]
                      IN IF b = active /\ i = Len(buffers[b]) /\ writer.op # "none"
                           THEN /\ r.length = Unknown /\ offset = i
                                /\ writer = [op |-> r.op, pos |-> r.pos, length |-> Len(r.line)]
                           ELSE r.length = Len(r.line)
    BY DEF OneOpenRecord
  <2>1. history \in Histories /\ BufferOK(InUse(history), history.offset, history.writer) /\ AllClosed(history.buffers[3 - history.active])
    BY DEF HistoryInv, HistoryOK
  <2>2. history.active = active /\ history.buffers = buffers /\ history.writer = writer /\ history.offset = offset
    BY DEF history
  <2>3. active \in 1 .. 2 /\ buffers \in [1 .. 2 -> Seq(Records)]
    BY <2>1, <2>2, HistoryForm
  <2>4. i \in 1 .. Len(buffers[b])
    BY <2>3, LenProperties
  <2>5. CASE b = active
    <3>1. Closed(buffers[b], writer) /\ (writer.op # "none" => offset = Len(buffers[b]))
      BY <2>1, <2>2, <2>5 DEF BufferOK, InUse
    <3> QED BY <2>4, <2>5, <3>1 DEF Closed
  <2>6. CASE b # active
    <3>1. b = 3 - active
      BY <2>3, <2>6
    <3>2. AllClosed(buffers[b])
      BY <2>1, <2>2, <3>1
    <3> QED BY <2>4, <2>6, <3>2 DEF AllClosed
  <2> QED BY <2>5, <2>6
<1> QED BY <1>1, HistoryInvariant, PTL

\* The two buffers implement one line of edits: what undo takes back and redo
\* does again are exactly the edits the watcher reported, in their order and
\* at their places, whatever was split, extended or forgotten.
THEOREM HistoryRefinement == Spec => ImplementsHistory
<1>1. Init => Abstract!Init
  BY HistoryInitInv
<1>2. HistoryInv /\ [Next]_vars => [Abstract!Next]_(Abstract!historyVars)
  BY HistoryStep
<1> QED BY <1>1, <1>2, HistoryInvariant, PTL DEF Spec, ImplementsHistory, Abstract!Spec

=============================================================================
