------------------------- MODULE CompletionsProofs -------------------------
(***************************************************************************)
(* Proofs about Completions and CompletionOffset, for contents of any      *)
(* length, any line and column, and integers of any width.                 *)
(*                                                                         *)
(* The two loops of GetOffset have an invariant each.  LoopInv: what has   *)
(* been copied is the contents up to where the stream stands, and the line *)
(* counter is the number of lines that start before that.  ScanInv: the    *)
(* stream has passed the cursor's line, and nothing from the column on to  *)
(* where the scan is is of interest.  The two requests of a completion ask *)
(* the same question because the reference determines what is asked        *)
(* (PlacedOnce).                                                           *)
(***************************************************************************)
EXTENDS Completions, SequenceTheorems, FiniteSetTheorems,
        WellFoundedInduction, TLAPS

\* The lines that start before p.
Before(p) == {q \in LineStarts : q < p}

\* What the reference says of an offset and the text sent with it.
Placed(o, text) ==
  \/ \E p \in LineStarts :
       StartsLine(p, line) /\ o = EndOfPart(p) /\ text = SubSeq(contents, 1, o)
  \/ /\ \A p \in LineStarts : ~StartsLine(p, line)
     /\ o = 0
     /\ text = IF contents[Len(contents)] = Newline
               THEN contents ELSE Append(contents, Newline)

StartInv ==
  /\ pc = "assert" => /\ pos = 1 /\ currentLine = 0 /\ offset = 0
                      /\ CleanFile = <<>>
  /\ pc \in {"getline", "scan", "done"} => contents # <<>>

LoopInv ==
  pc = "getline" =>
    /\ offset = 0
    /\ currentLine = Cardinality(Before(pos))
    /\ \A q \in Before(pos) : ~StartsLine(q, line)
    /\ pos <= Len(contents) + 1 =>
         /\ CleanFile = SubSeq(contents, 1, pos - 1)
         /\ pos = 1 \/ contents[pos - 1] = Newline
    /\ pos = Len(contents) + 2 =>
         /\ CleanFile = Append(contents, Newline)
         /\ contents[Len(contents)] # Newline

ScanInv ==
  pc = "scan" =>
    \E p \in LineStarts :
      /\ StartsLine(p, line)
      /\ CleanFile = SubSeq(contents, 1, p - 1)
      /\ someLine = SubSeq(contents, p, EndOfLine(p) - 1)
      /\ i <= column
      /\ \A n \in (i + 1)..column : ~Interesting(someLine, n)

OffsetInv == TypeOK /\ StartInv /\ LoopInv /\ ScanInv /\ OffsetIsReference

\* The results the two requests have had so far.
Opened == IF sent["open"].ok THEN "open" ELSE None
Latest == IF sent["update"].ok THEN "update" ELSE Opened

\* What has been asked, and what came of it, at each stage of the call.
Question == [offset : Nat, text : Seq(Chars), ok : BOOLEAN]
CallInv ==
  /\ sent \in [Uids -> Question \cup {None}]
  /\ stage \in {"open", "update", "return", "returned"}
  /\ stage = "open" => response = None
  /\ stage # "open" => Placed(sent["open"].offset, sent["open"].text)
  /\ stage = "update" => response = Opened
  /\ stage \in Uids => sent["update"] = None
  /\ stage \in {"return", "returned"} =>
       /\ Placed(sent["update"].offset, sent["update"].text)
       /\ response = Latest
  /\ answer = IF stage # "returned" THEN None
              ELSE IF response = None THEN EmptyResponse ELSE response

Inv == OffsetInv /\ CallInv

-----------------------------------------------------------------------------
(* Lines *)

\* A set of numbers that is not empty has a least one.
LEMMA Least ==
  ASSUME NEW S \in SUBSET Nat, S # {}
  PROVE  \E x \in S : \A y \in S : x <= y
<1> DEFINE R == {ss \in Nat \X Nat : ss[1] < ss[2]}
<1>1. IsWellFoundedOn(R, Nat)
  BY NatLessThanWellFounded, Zenon DEF OpToRel
<1>2. \A x, y \in Nat : x < y => <<x, y>> \in R
  OBVIOUS
<1> HIDE DEF R
<1>3. PICK x \in S : \A y \in S : ~(<<y, x>> \in R)
  BY <1>1, WFMin
<1>4. \A y \in S : ~(y < x)
  BY <1>2, <1>3
<1> QED
  BY <1>4

\* A line ends at its first newline, or with the contents.
LEMMA LineEnds ==
  ASSUME contents \in Seq(Chars), NEW p \in 1..(Len(contents) + 1)
  PROVE  /\ EndOfLine(p) \in p..(Len(contents) + 1)
         /\ EndOfLine(p) = Len(contents) + 1 \/ contents[EndOfLine(p)] = Newline
         /\ \A q \in p..(EndOfLine(p) - 1) : contents[q] # Newline
<1>1. Len(contents) \in Nat
  BY LenProperties
<1> DEFINE S == {e \in p..(Len(contents) + 1) :
                   e = Len(contents) + 1 \/ contents[e] = Newline}
<1>2. S \in SUBSET Nat /\ Len(contents) + 1 \in S
  BY <1>1
<1>3. PICK e \in S : \A y \in S : e <= y
  BY <1>2, Least
<1>4. \A q \in p..(e - 1) : contents[q] # Newline
  BY <1>1, <1>3
<1>5. \E f \in p..(Len(contents) + 1) :
        /\ f = Len(contents) + 1 \/ contents[f] = Newline
        /\ \A q \in p..(f - 1) : contents[q] # Newline
  BY <1>3, <1>4
<1> QED
  BY <1>5 DEF EndOfLine

\* The lines before a place are finitely many, and no more than characters.
LEMMA BeforeFinite ==
  ASSUME contents \in Seq(Chars), NEW p \in Int
  PROVE  /\ IsFiniteSet(Before(p))
         /\ Cardinality(Before(p)) \in 0..Len(contents)
<1>1. Len(contents) \in Nat
  BY LenProperties
<1>2. Before(p) \in SUBSET (1..Len(contents))
  BY DEF Before, LineStarts
<1>3. IsFiniteSet(1..Len(contents)) /\ Cardinality(1..Len(contents)) = Len(contents)
  BY <1>1, FS_Interval
<1>4. IsFiniteSet(Before(p)) /\ Cardinality(Before(p)) <= Len(contents)
  BY <1>2, <1>3, FS_Subset
<1> QED
  BY <1>1, <1>4, FS_CardinalityType

\* One line starts between the start of a line and the start of the next.
LEMMA NextLine ==
  ASSUME contents \in Seq(Chars), NEW p \in LineStarts
  PROVE  /\ Before(EndOfLine(p) + 1) = Before(p) \cup {p}
         /\ Cardinality(Before(EndOfLine(p) + 1)) = Cardinality(Before(p)) + 1
<1>1. Len(contents) \in Nat /\ p \in 1..Len(contents)
  BY LenProperties DEF LineStarts
<1>2. /\ EndOfLine(p) \in p..(Len(contents) + 1)
      /\ \A q \in p..(EndOfLine(p) - 1) : contents[q] # Newline
  BY <1>1, LineEnds
<1>3. ASSUME NEW q \in LineStarts, q < EndOfLine(p) + 1, ~(q < p), q # p
      PROVE  FALSE
  <2>1. q \in 1..Len(contents) /\ (q = 1 \/ contents[q - 1] = Newline)
    BY DEF LineStarts
  <2>2. q - 1 \in p..(EndOfLine(p) - 1)
    BY <1>1, <1>2, <1>3, <2>1
  <2> QED
    BY <1>1, <1>2, <1>3, <2>1, <2>2
<1>4. Before(EndOfLine(p) + 1) = Before(p) \cup {p}
  BY <1>1, <1>2, <1>3 DEF Before, LineStarts
<1>5. IsFiniteSet(Before(p)) /\ p \notin Before(p)
  BY <1>1, BeforeFinite DEF Before
<1> QED
  BY <1>4, <1>5, FS_AddElement

\* No two lines have the same number.
LEMMA OneStart ==
  ASSUME contents \in Seq(Chars), NEW p \in LineStarts, NEW q \in LineStarts,
         NEW n, StartsLine(p, n), StartsLine(q, n)
  PROVE  p = q
<1>1. p \in Nat /\ q \in Nat
  BY DEF LineStarts
<1>2. ASSUME NEW a \in LineStarts, NEW b \in LineStarts, a < b,
             Cardinality(Before(a)) = Cardinality(Before(b))
      PROVE  FALSE
  <2>1. a \in Int /\ b \in Int
    BY DEF LineStarts
  <2>2. Before(a) \in SUBSET Before(b) /\ a \in Before(b) /\ a \notin Before(a)
    BY <1>2, <2>1 DEF Before, LineStarts
  <2>3. IsFiniteSet(Before(b))
    BY <2>1, BeforeFinite
  <2>4. Before(b) = Before(a)
    BY <1>2, <2>2, <2>3, FS_Subset
  <2> QED
    BY <2>2, <2>4
<1>3. Cardinality(Before(p)) = n - 1 /\ Cardinality(Before(q)) = n - 1
  BY DEF StartsLine, Before
<1> QED
  BY <1>1, <1>2, <1>3

\* The contents and the cursor determine what is asked of sourcekitd.
LEMMA PlacedOnce ==
  ASSUME contents \in Seq(Chars), NEW o1, NEW o2, NEW t1, NEW t2,
         Placed(o1, t1), Placed(o2, t2)
  PROVE  o1 = o2 /\ t1 = t2
  BY OneStart DEF Placed
\* The reference looks at the contents and the cursor only.
LEMMA Frame ==
  ASSUME UNCHANGED input
  PROVE  /\ LineStarts' = LineStarts
         /\ \A p : Before(p)' = Before(p)
         /\ \A p, n : StartsLine(p, n)' <=> StartsLine(p, n)
         /\ \A p : EndOfLine(p)' = EndOfLine(p)
         /\ \A p : EndOfPart(p)' = EndOfPart(p)
         /\ \A o, text : Placed(o, text)' <=> Placed(o, text)
<1>1. contents' = contents /\ line' = line /\ column' = column
  BY DEF input
<1>2. LineStarts' = LineStarts
  BY <1>1 DEF LineStarts
<1>3. \A p : Before(p)' = Before(p)
  BY <1>2 DEF Before
<1>4. \A p, n : StartsLine(p, n)' <=> StartsLine(p, n)
  BY <1>2 DEF StartsLine
<1>5. \A p : EndOfLine(p)' = EndOfLine(p)
  BY <1>1 DEF EndOfLine
<1>6. \A p : Candidates(p)' = Candidates(p)
  BY <1>1, <1>5 DEF Candidates
<1>7. \A p : EndOfPart(p)' = EndOfPart(p)
  <2> TAKE p
  <2>1. Candidates(p)' = Candidates(p) /\ EndOfLine(p)' = EndOfLine(p)
    BY <1>5, <1>6
  <2> QED
    BY <2>1 DEF EndOfPart, Reference
<1>8. \A o, text : Placed(o, text)' <=> Placed(o, text)
  BY <1>1, <1>2, <1>4, <1>7 DEF Placed
<1> QED
  BY <1>2, <1>3, <1>4, <1>5, <1>7, <1>8
-----------------------------------------------------------------------------
(* GetOffset *)

\* What precedes a line and the line, or a part of it, make the contents up
\* to its end.
LEMMA LineText ==
  ASSUME contents \in Seq(Chars), NEW p \in 1..Len(contents),
         NEW e \in p..(Len(contents) + 1)
  PROVE  /\ SubSeq(contents, 1, p - 1) \o SubSeq(contents, p, e - 1)
              = SubSeq(contents, 1, e - 1)
         /\ SubSeq(contents, p, e - 1) \in Seq(Chars)
         /\ Len(SubSeq(contents, p, e - 1)) = e - p
         /\ \A n \in 1..(e - p) : SubSeq(contents, p, e - 1)[n] = contents[p + n - 1]
<1>1. Len(contents) \in Nat
  BY LenProperties
<1>2. 1 \in 1..(Len(contents) + 1) /\ p - 1 \in (1 - 1)..Len(contents)
      /\ e - 1 \in (p - 1)..Len(contents)
  BY <1>1
<1>3. SubSeq(contents, 1, p - 1) \o SubSeq(contents, (p - 1) + 1, e - 1)
        = SubSeq(contents, 1, e - 1)
  BY <1>2, ConcatAdjacentSubSeq
<1>4. (p - 1) + 1 = p
  BY <1>1
<1>5. \A n \in p..(e - 1) : contents[n] \in Chars
  BY <1>1
<1>6. /\ SubSeq(contents, p, e - 1) \in Seq(Chars)
      /\ Len(SubSeq(contents, p, e - 1)) = IF p <= e - 1 THEN (e - 1) - p + 1 ELSE 0
      /\ \A n \in 1..((e - 1) - p + 1) :
           SubSeq(contents, p, e - 1)[n] = contents[p + n - 1]
  <2>1. p \in Int /\ e - 1 \in Int
    BY <1>1
  <2> QED
    BY <1>5, <2>1, SubSeqProperties
<1>7. (IF p <= e - 1 THEN (e - 1) - p + 1 ELSE 0) = e - p /\ (e - 1) - p + 1 = e - p
  BY <1>1
<1> QED
  BY <1>3, <1>4, <1>6, <1>7

\* A line starts where the stream stands, unless it is at the end.
LEMMA StreamAtStart ==
  ASSUME OffsetInv, pc = "getline", pos <= Len(contents)
  PROVE  /\ pos \in LineStarts /\ pos \in 1..Len(contents)
         /\ EndOfLine(pos) \in pos..(Len(contents) + 1)
         /\ CleanFile = SubSeq(contents, 1, pos - 1)
         /\ StartsLine(pos, currentLine + 1)
<1>1. Len(contents) \in Nat /\ contents \in Seq(Chars)
  BY LenProperties DEF OffsetInv, TypeOK
<1>2. pos \in 1..Len(contents)
  BY <1>1 DEF OffsetInv, TypeOK
<1>3. /\ CleanFile = SubSeq(contents, 1, pos - 1)
      /\ pos = 1 \/ contents[pos - 1] = Newline
      /\ currentLine = Cardinality(Before(pos))
  BY <1>1, <1>2 DEF OffsetInv, LoopInv
<1>4. pos \in LineStarts
  BY <1>2, <1>3 DEF LineStarts
<1>5. currentLine \in Int
  BY DEF OffsetInv, TypeOK
<1>6. StartsLine(pos, currentLine + 1)
  BY <1>3, <1>4, <1>5 DEF StartsLine, Before
<1> QED
  BY <1>1, <1>2, <1>3, <1>4, <1>6, LineEnds

\* A line that is not the cursor's is copied, and its newline, or one that
\* the last line may not have.
LEMMA SkipStep ==
  ASSUME OffsetInv, SkipLine
  PROVE  OffsetInv'
<1> DEFINE N == Len(contents)
           e == EndOfLine(pos)
<1>1. /\ pc = "getline" /\ pc' = "getline" /\ currentLine + 1 # line
      /\ pos <= N /\ pos' = e + 1 /\ currentLine' = currentLine + 1
      /\ someLine' = SubSeq(contents, pos, e - 1)
      /\ CleanFile' = Append(CleanFile \o someLine', Newline)
      /\ UNCHANGED <<input, i, offset>>
  BY DEF SkipLine, GetLine
<1>2. contents' = contents /\ line' = line /\ column' = column
  BY <1>1 DEF input
<1>3. contents \in Seq(Chars) /\ N \in Nat
  BY LenProperties DEF OffsetInv, TypeOK
<1>4. /\ pos \in LineStarts /\ pos \in 1..N /\ e \in pos..(N + 1)
      /\ CleanFile = SubSeq(contents, 1, pos - 1)
      /\ StartsLine(pos, currentLine + 1)
  BY <1>1, StreamAtStart
<1>5. /\ e = N + 1 \/ contents[e] = Newline
      /\ \A q \in pos..(e - 1) : contents[q] # Newline
  BY <1>3, <1>4, LineEnds
<1> HIDE DEF e, N
<1>6. /\ CleanFile \o someLine' = SubSeq(contents, 1, e - 1)
      /\ someLine' \in Seq(Chars)
  BY <1>1, <1>3, <1>4, LineText DEF N
<1>7. /\ pos' = N + 2 => CleanFile' = Append(contents, Newline) /\ contents[N] # Newline
      /\ pos' <= N + 1 => /\ CleanFile' = SubSeq(contents, 1, pos' - 1)
                          /\ contents[pos' - 1] = Newline
      /\ CleanFile' \in Seq(Chars)
  <2>1. Newline \in Chars
    BY DEF Chars
  <2>2. CASE e = N + 1
    <3>1. e - 1 = N
      BY <1>3, <2>2
    <3>2. CleanFile' = Append(contents, Newline)
      BY <1>1, <1>3, <1>6, <3>1, SubSeqFull DEF N
    <3>3. contents[N] # Newline
      BY <1>3, <1>4, <1>5, <2>2
    <3>4. CleanFile' \in Seq(Chars)
      BY <1>3, <2>1, <3>2, AppendProperties
    <3>5. ~(pos' <= N + 1)
      BY <1>1, <1>3, <2>2
    <3> QED
      BY <3>2, <3>3, <3>4, <3>5
  <2>3. CASE e # N + 1
    <3>1. e \in 1..N /\ contents[e] = Newline /\ pos' - 1 = e
      BY <1>1, <1>3, <1>4, <1>5, <2>3
    <3>2. SubSeq(contents, 1, e) = SubSeq(contents, 1, e - 1) \o <<Newline>>
      <4>1. 1 \in 1..Len(contents) /\ e \in 1..Len(contents)
        BY <1>3, <3>1 DEF N
      <4> QED
        BY <1>3, <3>1, <4>1, SubSeqRecursiveSecond
    <3>3. SubSeq(contents, 1, e - 1) \in Seq(Chars)
      <4>1. \A n \in 1..(e - 1) : contents[n] \in Chars
        BY <1>3, <3>1 DEF N
      <4>2. 1 \in Int /\ e - 1 \in Int
        BY <3>1
      <4> QED
        BY <4>1, <4>2, SubSeqProperties
    <3>4. CleanFile' = SubSeq(contents, 1, e)
      BY <1>1, <1>6, <2>1, <3>2, <3>3, AppendIsConcat
    <3>5. CleanFile' \in Seq(Chars)
      BY <1>1, <1>6, <2>1, <3>3, AppendProperties
    <3>6. pos' # N + 2
      BY <1>1, <1>3, <3>1
    <3> QED
      BY <3>1, <3>4, <3>5, <3>6
  <2> QED
    BY <2>2, <2>3
<1>8. /\ Before(e + 1) = Before(pos) \cup {pos}
      /\ Cardinality(Before(e + 1)) = currentLine + 1
  <2>1. currentLine = Cardinality(Before(pos))
    BY <1>1 DEF OffsetInv, LoopInv
  <2> QED
    BY <1>3, <1>4, <2>1, NextLine DEF e
<1>9. ~StartsLine(pos, line)
  <2>1. /\ Cardinality(Before(pos)) = currentLine /\ currentLine \in Int
        /\ line \in Int
    BY <1>1 DEF OffsetInv, LoopInv, TypeOK
  <2> QED
    BY <1>1, <2>1 DEF StartsLine, Before
<1>10. \A q \in Before(e + 1) : ~StartsLine(q, line)
  BY <1>1, <1>8, <1>9 DEF OffsetInv, LoopInv
<1>11. /\ Before(pos)' = Before(e + 1)
       /\ \A q : StartsLine(q, line)' <=> StartsLine(q, line)
  BY <1>1, <1>2, Frame DEF Before, StartsLine
<1>12. offset' = 0
  BY <1>1 DEF OffsetInv, LoopInv
<1>13. LoopInv'
  <2>1. /\ currentLine' = Cardinality(Before(pos)')
        /\ \A q \in Before(pos)' : ~StartsLine(q, line)'
    BY <1>1, <1>8, <1>10, <1>11
  <2> QED
    BY <1>2, <1>7, <1>12, <2>1 DEF LoopInv, N
<1>14. TypeOK'
  <2>1. pos' \in 1..(N + 2)
    BY <1>1, <1>3, <1>4
  <2>2. currentLine' \in 0..N
    <3>1. e + 1 \in Int
      BY <1>3, <1>4
    <3> QED
      BY <1>1, <1>3, <1>8, <3>1, BeforeFinite DEF N
  <2> QED
    BY <1>1, <1>2, <1>6, <1>7, <2>1, <2>2 DEF OffsetInv, TypeOK, N
<1>15. StartInv' /\ ScanInv' /\ OffsetIsReference'
  BY <1>1, <1>2 DEF OffsetInv, StartInv, ScanInv, OffsetIsReference
<1> QED
  BY <1>13, <1>14, <1>15 DEF OffsetInv
\* The cursor's line is found: the scan starts at the column.
LEMMA FindStep ==
  ASSUME OffsetInv, FindLine
  PROVE  OffsetInv'
<1>1. /\ pc = "getline" /\ pc' = "scan" /\ currentLine + 1 = line
      /\ pos <= Len(contents) /\ pos' = EndOfLine(pos) + 1 /\ i' = column
      /\ someLine' = SubSeq(contents, pos, EndOfLine(pos) - 1)
      /\ UNCHANGED <<input, currentLine, CleanFile, offset>>
  BY DEF FindLine, GetLine
<1>2. contents' = contents /\ line' = line /\ column' = column
  BY <1>1 DEF input
<1>3. contents \in Seq(Chars) /\ Len(contents) \in Nat /\ column \in Nat
  BY LenProperties DEF OffsetInv, TypeOK
<1>4. /\ pos \in LineStarts /\ pos \in 1..Len(contents)
      /\ EndOfLine(pos) \in pos..(Len(contents) + 1)
      /\ CleanFile = SubSeq(contents, 1, pos - 1)
      /\ StartsLine(pos, line)
  BY <1>1, StreamAtStart
<1>5. TypeOK'
  <2>1. someLine' \in Seq(Chars)
    BY <1>1, <1>3, <1>4, LineText
  <2>2. pos' \in 1..(Len(contents) + 2)
    BY <1>1, <1>3, <1>4
  <2> QED
    BY <1>1, <1>2, <2>1, <2>2 DEF OffsetInv, TypeOK
<1>6. ScanInv'
  <2>1. PICK p \in LineStarts : p = pos
    BY <1>4
  <2>2. /\ p \in LineStarts' /\ EndOfLine(p)' = EndOfLine(p)
        /\ StartsLine(p, line)' <=> StartsLine(p, line)
    BY <1>1, <1>2, Frame DEF StartsLine
  <2>3. /\ StartsLine(p, line)'
        /\ CleanFile' = SubSeq(contents', 1, p - 1)
        /\ someLine' = SubSeq(contents', p, EndOfLine(p)' - 1)
    BY <1>1, <1>2, <1>4, <2>1, <2>2
  <2>4. i' <= column' /\ (i' + 1)..column' = {}
    BY <1>1, <1>2, <1>3
  <2> QED
    BY <2>2, <2>3, <2>4 DEF ScanInv
<1>7. StartInv' /\ LoopInv' /\ OffsetIsReference'
  BY <1>1, <1>2 DEF OffsetInv, StartInv, LoopInv, OffsetIsReference
<1> QED
  BY <1>5, <1>6, <1>7 DEF OffsetInv
\* The cursor's line is not there: all lines have been copied.
LEMMA EndStep ==
  ASSUME OffsetInv, EndOfFile
  PROVE  OffsetInv'
<1>1. /\ pc = "getline" /\ pc' = "done" /\ pos > Len(contents)
      /\ UNCHANGED <<input, pos, someLine, currentLine, i, CleanFile, offset>>
  BY DEF EndOfFile
<1>2. contents' = contents /\ line' = line /\ column' = column
  BY <1>1 DEF input
<1>3. /\ contents \in Seq(Chars) /\ Len(contents) \in Nat /\ contents # <<>>
      /\ pos \in 1..(Len(contents) + 2)
  BY <1>1, LenProperties DEF OffsetInv, TypeOK, StartInv
<1>4. \A p \in LineStarts : ~StartsLine(p, line)
  <2>1. LineStarts = Before(pos)
    BY <1>1, <1>3 DEF Before, LineStarts
  <2> QED
    BY <1>1, <2>1 DEF OffsetInv, LoopInv
<1>5. CleanFile = IF contents[Len(contents)] = Newline
                  THEN contents ELSE Append(contents, Newline)
  <2>1. CASE pos = Len(contents) + 1
    <3>1. CleanFile = SubSeq(contents, 1, Len(contents)) /\ contents[Len(contents)] = Newline
      <4>1. pos # 1 /\ pos - 1 = Len(contents) /\ pos <= Len(contents) + 1
        BY <1>3, <2>1, EmptySeq
      <4> QED
        BY <1>1, <4>1 DEF OffsetInv, LoopInv
    <3> QED
      BY <1>3, <3>1, SubSeqFull
  <2>2. CASE pos = Len(contents) + 2
    BY <1>1, <2>2 DEF OffsetInv, LoopInv
  <2> QED
    BY <1>1, <1>3, <2>1, <2>2
<1>6. Placed(offset, CleanFile)
  BY <1>1, <1>4, <1>5 DEF Placed, OffsetInv, LoopInv
<1>7. OffsetIsReference'
  <2>1. Placed(offset, CleanFile)'
    BY <1>1, <1>6, Frame
  <2> QED
    BY <2>1 DEF Placed, OffsetIsReference
<1>8. TypeOK' /\ StartInv' /\ LoopInv' /\ ScanInv'
  BY <1>1, <1>2, <1>3 DEF OffsetInv, TypeOK, StartInv, LoopInv, ScanInv
<1> QED
  BY <1>7, <1>8 DEF OffsetInv
\* An unsigned that is not zero does not wrap around when it is decremented.
LEMMA Decrement ==
  ASSUME NEW n \in 1..(2^Width - 1)
  PROVE  Unsigned(n - 1) = n - 1
<1> DEFINE W == 2^Width
<1>1. W \in Nat \ {0}
  BY PowerAssumption
<1>2. n \in 1..(W - 1)
  OBVIOUS
<1>3. Unsigned(n - 1) = (n - 1) % W
  BY DEF Unsigned
<1> HIDE DEF W
<1>4. (n - 1) % W = n - 1
  BY <1>1, <1>2
<1> QED
  BY <1>3, <1>4

\* The scan passes a character that is of no interest.
LEMMA ScanStep ==
  ASSUME OffsetInv, ScanBack
  PROVE  OffsetInv'
<1>1. /\ pc = "scan" /\ pc' = "scan" /\ ~Interesting(someLine, i) /\ i # 0
      /\ i' = Unsigned(i - 1)
      /\ UNCHANGED <<input, pos, someLine, currentLine, CleanFile, offset>>
  BY DEF ScanBack, AtStart
<1>2. contents' = contents /\ line' = line /\ column' = column
  BY <1>1 DEF input
<1>3. 2^Width \in Nat \ {0} /\ i \in 0..(2^Width - 1) /\ column \in Nat
  BY PowerAssumption DEF OffsetInv, TypeOK
<1>4. i' = i - 1 /\ i' \in 0..(2^Width - 1)
  BY <1>1, <1>3, Decrement
<1>5. TypeOK'
  BY <1>1, <1>2, <1>4 DEF OffsetInv, TypeOK
<1>6. ScanInv'
  <2>1. PICK p \in LineStarts :
          /\ StartsLine(p, line)
          /\ CleanFile = SubSeq(contents, 1, p - 1)
          /\ someLine = SubSeq(contents, p, EndOfLine(p) - 1)
          /\ i <= column
          /\ \A n \in (i + 1)..column : ~Interesting(someLine, n)
    BY <1>1 DEF OffsetInv, ScanInv
  <2>2. /\ p \in LineStarts' /\ EndOfLine(p)' = EndOfLine(p)
        /\ StartsLine(p, line)'
    BY <1>1, <1>2, <2>1, Frame DEF StartsLine
  <2>3. i' <= column' /\ \A n \in (i' + 1)..column' : ~Interesting(someLine, n)
    <3>1. \A n \in (i' + 1)..column' : n = i \/ n \in (i + 1)..column
      BY <1>2, <1>3, <1>4
    <3> QED
      BY <1>1, <1>2, <1>3, <1>4, <2>1, <3>1
  <2> QED
    BY <1>1, <1>2, <2>1, <2>2, <2>3 DEF ScanInv, Interesting
<1>7. StartInv' /\ LoopInv' /\ OffsetIsReference'
  BY <1>1, <1>2 DEF OffsetInv, StartInv, LoopInv, OffsetIsReference
<1> QED
  BY <1>5, <1>6, <1>7 DEF OffsetInv

\* What is cut off is what the reference leaves out.
LEMMA CutStep ==
  ASSUME OffsetInv, Cut
  PROVE  OffsetInv'
<1>1. /\ pc = "scan" /\ pc' = "done" /\ (Interesting(someLine, i) \/ i = 0)
      /\ CleanFile' = CleanFile \o partialLine /\ offset' = Len(CleanFile')
      /\ UNCHANGED <<input, pos, someLine, currentLine, i>>
  BY DEF Cut, AtStart
<1>2. contents' = contents /\ line' = line /\ column' = column
  BY <1>1 DEF input
<1>3. /\ contents \in Seq(Chars) /\ Len(contents) \in Nat
      /\ i \in Nat /\ column \in Nat
  BY LenProperties, PowerAssumption DEF OffsetInv, TypeOK
<1>4. PICK p \in LineStarts :
        /\ StartsLine(p, line)
        /\ CleanFile = SubSeq(contents, 1, p - 1)
        /\ someLine = SubSeq(contents, p, EndOfLine(p) - 1)
        /\ i <= column
        /\ \A n \in (i + 1)..column : ~Interesting(someLine, n)
  BY <1>1 DEF OffsetInv, ScanInv
<1> DEFINE e == EndOfLine(p)
<1>5. p \in 1..Len(contents) /\ e \in p..(Len(contents) + 1)
  BY <1>3, LineEnds DEF LineStarts
<1> HIDE DEF e
<1>6. /\ Len(someLine) = e - p
      /\ \A n \in 1..(e - p) : someLine[n] = contents[p + n - 1]
      /\ SubSeq(contents, 1, p - 1) \o someLine = SubSeq(contents, 1, e - 1)
  BY <1>3, <1>4, <1>5, LineText DEF e
<1>7. \A q \in Candidates(p) : q <= p + i
  <2> SUFFICES ASSUME NEW q \in Candidates(p), ~(q <= p + i) PROVE FALSE
    OBVIOUS
  <2>1. /\ q \in p..(e - 1) /\ q - p <= column
        /\ contents[q] \in {Space, Dot}
    BY DEF Candidates, e
  <2>2. /\ q - p \in (i + 1)..column /\ q - p < e - p
        /\ q - p + 1 \in 1..(e - p) /\ p + (q - p + 1) - 1 = q
    BY <1>3, <1>5, <2>1
  <2>3. someLine[q - p + 1] = contents[q]
    BY <1>6, <2>2
  <2>4. Interesting(someLine, q - p)
    BY <1>6, <2>1, <2>2, <2>3 DEF Interesting
  <2> QED
    BY <1>4, <2>2, <2>4
<1>8. \E o \in 0..Len(contents) : o = EndOfPart(p) /\ CleanFile' = SubSeq(contents, 1, o)
  <2>1. CASE i = 0
    <3>1. Candidates(p) \subseteq {p}
      BY <1>3, <1>5, <1>7, <2>1 DEF Candidates
    <3>2. EndOfPart(p) = e - 1
      BY <3>1 DEF EndOfPart, e
    <3>3. CleanFile' = SubSeq(contents, 1, e - 1)
      BY <1>1, <1>4, <1>6, <2>1 DEF partialLine
    <3>4. e - 1 \in 0..Len(contents)
      BY <1>3, <1>5
    <3> QED
      BY <3>2, <3>3, <3>4
  <2>2. CASE i # 0
    <3>1. i < e - p /\ someLine[i + 1] \in {Space, Dot}
      BY <1>1, <1>6, <2>2 DEF Interesting
    <3>2. contents[p + i] \in {Space, Dot} /\ p + i \in (p + 1)..(e - 1) /\ p + i \in 1..Len(contents)
      <4>1. i + 1 \in 1..(e - p) /\ p + (i + 1) - 1 = p + i
        BY <1>3, <1>5, <3>1
      <4> QED
        BY <1>3, <1>5, <1>6, <2>2, <3>1, <4>1
    <3>3. p + i \in Candidates(p)
      BY <1>3, <1>4, <1>5, <3>2 DEF Candidates, e
    <3>4. EndOfPart(p) = p + i
      <4>1. ~(Candidates(p) \subseteq {p})
        BY <1>3, <1>5, <2>2, <3>3
      <4>2. \A q \in Candidates(p) : q \in Int
        BY <1>5 DEF Candidates, e
      <4>3. \A q \in Candidates(p) :
              (\A r \in Candidates(p) : r <= q) <=> q = p + i
        BY <1>3, <1>5, <1>7, <3>3, <4>2
      <4>4. (CHOOSE q \in Candidates(p) : \A r \in Candidates(p) : r <= q) = p + i
        BY <3>3, <4>3
      <4> QED
        BY <4>1, <4>4 DEF EndOfPart, Reference
    <3>5. partialLine = SubSeq(contents, p, p + i)
      <4>1. partialLine = SubSeq(SubSeq(contents, p, e - 1), 1, i + 1)
        BY <1>1, <1>4, <1>6, <2>2, <3>1 DEF partialLine, e
      <4>2. /\ p \in 1..Len(contents) /\ e - 1 \in 1..Len(contents)
            /\ 1 \in 1..((e - 1) - p + 1) /\ i + 1 \in 1..((e - 1) - p + 1)
            /\ p + 1 - 1 = p /\ p + (i + 1) - 1 = p + i
        BY <1>3, <1>5, <3>1
      <4>3. SubSeq(SubSeq(contents, p, e - 1), 1, i + 1)
              = SubSeq(contents, p + 1 - 1, p + (i + 1) - 1)
        BY <1>3, <4>2, SubSeqOfSubSeq
      <4> QED
        BY <4>1, <4>2, <4>3
    <3>6. CleanFile' = SubSeq(contents, 1, p + i)
      <4>1. p + i + 1 \in p..(Len(contents) + 1) /\ (p + i + 1) - 1 = p + i
        BY <1>3, <1>5, <3>2
      <4> QED
        BY <1>1, <1>3, <1>4, <1>5, <3>5, <4>1, LineText
    <3> QED
      BY <1>3, <3>2, <3>4, <3>6
  <2> QED
    BY <2>1, <2>2
<1>9. PICK o \in 0..Len(contents) : o = EndOfPart(p) /\ CleanFile' = SubSeq(contents, 1, o)
  BY <1>8
<1>10. CleanFile' \in Seq(Chars) /\ Len(CleanFile') = o
  <2>1. \A n \in 1..o : contents[n] \in Chars
    BY <1>3
  <2>2. 1 \in Int /\ o \in Int
    OBVIOUS
  <2>3. /\ SubSeq(contents, 1, o) \in Seq(Chars)
        /\ Len(SubSeq(contents, 1, o)) = IF 1 <= o THEN o - 1 + 1 ELSE 0
    BY <2>1, <2>2, SubSeqProperties
  <2>4. (IF 1 <= o THEN o - 1 + 1 ELSE 0) = o
    OBVIOUS
  <2> QED
    BY <1>9, <2>3, <2>4
<1>11. OffsetIsReference'
  <2>1. Placed(offset', CleanFile')
    BY <1>1, <1>4, <1>9, <1>10 DEF Placed
  <2>2. Placed(offset, CleanFile)'
    BY <1>1, <2>1, Frame
  <2> QED
    BY <2>2 DEF Placed, OffsetIsReference
<1>12. TypeOK'
  BY <1>1, <1>2, <1>10 DEF OffsetInv, TypeOK
<1>13. StartInv' /\ LoopInv' /\ ScanInv'
  BY <1>1, <1>2 DEF OffsetInv, StartInv, LoopInv, ScanInv
<1> QED
  BY <1>11, <1>12, <1>13 DEF OffsetInv
\* GetOffset starts with the buffer and the cursor it is given, and its own
\* locals.
Called ==
  /\ contents \in Seq(Chars)
  /\ line \in 0..(2^Width - 1) /\ column \in 0..(2^Width - 1)
  /\ pc = "assert" /\ pos = 1 /\ someLine = <<>> /\ currentLine = 0 /\ i = 0
  /\ CleanFile = <<>> /\ offset = 0

\* There the invariant holds.
LEMMA Started == Called => OffsetInv
<1> SUFFICES ASSUME Called PROVE OffsetInv
  OBVIOUS
<1> USE DEF Called
<1>1. Len(contents) \in Nat /\ 2^Width \in Nat \ {0}
  BY LenProperties, PowerAssumption
<1>2. 0 \in 0..(2^Width - 1) /\ 0 \in 0..Len(contents) /\ 1 \in 1..(Len(contents) + 2)
  BY <1>1
<1>3. TypeOK
  BY <1>2, EmptySeq DEF TypeOK
<1> QED
  BY <1>3 DEF OffsetInv, StartInv, LoopInv, ScanInv, OffsetIsReference

\* The assertion lets the loop start at the first line.
LEMMA AssertStep ==
  ASSUME OffsetInv, Assert
  PROVE  OffsetInv'
<1>1. /\ pc = "assert" /\ pc' = IF contents = <<>> THEN "aborted" ELSE "getline"
      /\ UNCHANGED <<input, pos, someLine, currentLine, i, CleanFile, offset>>
  BY DEF Assert
<1>2. contents' = contents /\ line' = line /\ column' = column
  BY <1>1 DEF input
<1>3. contents \in Seq(Chars) /\ Len(contents) \in Nat
  BY LenProperties DEF OffsetInv, TypeOK
<1>4. pos' = 1 /\ currentLine' = 0 /\ offset' = 0 /\ CleanFile' = <<>>
  BY <1>1 DEF OffsetInv, StartInv
<1>5. LoopInv'
  <2>1. Before(pos)' = {}
    BY <1>4 DEF Before, LineStarts
  <2>2. currentLine' = Cardinality(Before(pos)')
    BY <1>4, <2>1, FS_EmptySet
  <2>3. CleanFile' = SubSeq(contents', 1, pos' - 1)
    <3>1. SubSeq(contents, 1, 0) = <<>>
      BY SubSeqEmpty
    <3> QED
      BY <1>2, <1>4, <3>1
  <2>4. pos' # Len(contents') + 2
    BY <1>2, <1>3, <1>4
  <2> QED
    BY <1>4, <2>1, <2>2, <2>3, <2>4 DEF LoopInv
<1>6. TypeOK' /\ StartInv' /\ ScanInv' /\ OffsetIsReference'
  BY <1>1, <1>2, <1>3 DEF OffsetInv, TypeOK, StartInv, ScanInv, OffsetIsReference
<1> QED
  BY <1>5, <1>6 DEF OffsetInv

\* Every step of GetOffset keeps its invariant, and what is asked about.
LEMMA OffsetStep ==
  ASSUME OffsetInv, Next
  PROVE  OffsetInv' /\ UNCHANGED input
<1>1. UNCHANGED input
  BY DEF Next, Assert, SkipLine, FindLine, EndOfFile, ScanBack, Cut
<1> QED
  BY <1>1, AssertStep, SkipStep, FindStep, EndStep, ScanStep, CutStep DEF Next

\* As long as nothing changes the invariant holds.
LEMMA OffsetFrame ==
  ASSUME OffsetInv, UNCHANGED vars
  PROVE  OffsetInv'
<1>1. /\ UNCHANGED <<contents, line, column, pc, pos, someLine, currentLine, i>>
      /\ UNCHANGED <<CleanFile, offset>> /\ UNCHANGED input
  BY DEF vars, input
<1>2. /\ LineStarts' = LineStarts /\ Before(pos)' = Before(pos)
      /\ \A p : StartsLine(p, line)' <=> StartsLine(p, line)
      /\ \A p : EndOfLine(p)' = EndOfLine(p) /\ EndOfPart(p)' = EndOfPart(p)
  BY <1>1, Frame DEF Before, StartsLine
<1>3. TypeOK' /\ StartInv'
  BY <1>1 DEF OffsetInv, TypeOK, StartInv
<1>4. LoopInv'
  BY <1>1, <1>2 DEF OffsetInv, LoopInv
<1>5. ScanInv'
  BY <1>1, <1>2 DEF OffsetInv, ScanInv, Interesting
<1>6. OffsetIsReference'
  BY <1>1, <1>2 DEF OffsetInv, OffsetIsReference
<1> QED
  BY <1>3, <1>4, <1>5, <1>6 DEF OffsetInv

-----------------------------------------------------------------------------
(* The call *)

\* A request is sent with what GetOffset has found, and what it returns is
\* kept by the handler.
LEMMA Request ==
  ASSUME Inv, NEW uid \in Uids, NEW ok \in BOOLEAN,
         CodeCompleteRequest(uid, ok)
  PROVE  /\ sent' \in [Uids -> Question \cup {None}]
         /\ \A u \in Uids \ {uid} : sent'[u] = sent[u]
         /\ sent'[uid].ok = ok
         /\ Placed(sent'[uid].offset, sent'[uid].text)
         /\ stage = uid /\ response' = IF ok THEN uid ELSE response
         /\ UNCHANGED <<input, answer>>
<1> DEFINE q == [offset |-> offset, text |-> CleanFile, ok |-> ok]
<1>1. /\ sent' = [sent EXCEPT ![uid] = q]
      /\ stage = uid /\ pc = "done" /\ response' = IF ok THEN uid ELSE response
      /\ UNCHANGED <<input, answer>>
  BY DEF CodeCompleteRequest, OnError
<1>2. q \in Question
  BY DEF Inv, OffsetInv, TypeOK, Question
<1>3. sent \in [Uids -> Question \cup {None}]
  BY DEF Inv, CallInv
<1>4. sent'[uid] = q
  BY <1>1, <1>3
<1>5. Placed(offset, CleanFile)
  BY <1>1 DEF Inv, OffsetInv, OffsetIsReference, Placed
<1>6. q.offset = offset /\ q.text = CleanFile /\ q.ok = ok
  OBVIOUS
<1> HIDE DEF q
<1>7. sent' \in [Uids -> Question \cup {None}]
  BY <1>1, <1>2, <1>3
<1> QED
  BY <1>1, <1>3, <1>4, <1>5, <1>6, <1>7

\* CompletionOpen.
LEMMA OpenStep ==
  ASSUME Inv, CompletionOpen
  PROVE  Inv'
<1> "open" \in Uids /\ "update" \in Uids /\ "open" # "update"
  BY DEF Uids
<1>1. PICK ok \in BOOLEAN : CodeCompleteRequest("open", ok)
  BY DEF CompletionOpen
<1>2. /\ sent' \in [Uids -> Question \cup {None}]
      /\ sent'["update"] = sent["update"]
      /\ sent'["open"].ok = ok
      /\ Placed(sent'["open"].offset, sent'["open"].text)
      /\ stage = "open" /\ response' = IF ok THEN "open" ELSE response
      /\ UNCHANGED <<input, answer>>
  BY <1>1, Request
<1>3. /\ stage' = "update" /\ pc' = "assert" /\ pos' = 1 /\ someLine' = <<>>
      /\ currentLine' = 0 /\ i' = 0 /\ CleanFile' = <<>> /\ offset' = 0
  BY DEF CompletionOpen, NewLocals, Outputs
<1>4. OffsetInv'
  <2>1. contents' = contents /\ line' = line /\ column' = column
    BY <1>2 DEF input
  <2>2. /\ contents' \in Seq(Chars) /\ line' \in 0..(2^Width - 1)
        /\ column' \in 0..(2^Width - 1)
    BY <2>1 DEF Inv, OffsetInv, TypeOK
  <2>3. Called'
    BY <1>3, <2>2 DEF Called
  <2> QED
    BY <2>3, Started, PTL
<1>5. CallInv'
  <2>1. Placed(sent["open"].offset, sent["open"].text)'
    BY <1>2, Frame
  <2>2. response' = Opened' /\ sent'["update"] = None /\ answer' = None
    BY <1>2 DEF Inv, CallInv, Opened
  <2> QED
    BY <1>2, <1>3, <2>1, <2>2 DEF CallInv
<1> QED
  BY <1>4, <1>5 DEF Inv
\* CompletionUpdate.
LEMMA UpdateStep ==
  ASSUME Inv, CompletionUpdate
  PROVE  Inv'
<1> "open" \in Uids /\ "update" \in Uids /\ "open" # "update"
  BY DEF Uids
<1>1. PICK ok \in BOOLEAN : CodeCompleteRequest("update", ok)
  BY DEF CompletionUpdate
<1>2. /\ sent' \in [Uids -> Question \cup {None}]
      /\ sent'["open"] = sent["open"]
      /\ sent'["update"].ok = ok
      /\ Placed(sent'["update"].offset, sent'["update"].text)
      /\ stage = "update" /\ response' = IF ok THEN "update" ELSE response
      /\ UNCHANGED <<input, answer>>
  BY <1>1, Request
<1>3. stage' = "return" /\ UNCHANGED vars
  BY DEF CompletionUpdate
<1>4. OffsetInv'
  BY <1>3, OffsetFrame DEF Inv
<1>5. CallInv'
  <2>1. Placed(sent["update"].offset, sent["update"].text)'
    BY <1>2, Frame
  <2>2. Placed(sent["open"].offset, sent["open"].text)'
    BY <1>2, Frame DEF Inv, CallInv
  <2>3. response' = Latest' /\ answer' = None
    BY <1>2 DEF Inv, CallInv, Opened, Latest
  <2>4. stage' \notin Uids
    BY <1>3 DEF Uids
  <2> QED
    BY <1>2, <1>3, <2>1, <2>2, <2>3, <2>4 DEF CallInv
<1> QED
  BY <1>4, <1>5 DEF Inv

\* GetOffset, the return and a stuttering step send nothing.
LEMMA OtherStep ==
  ASSUME Inv, GetOffset \/ Return \/ UNCHANGED <<vars, callVars>>
  PROVE  Inv'
<1>1. CASE GetOffset
  <2>1. OffsetInv' /\ UNCHANGED input /\ UNCHANGED callVars
    BY <1>1, OffsetStep DEF GetOffset, Inv
  <2>2. CallInv'
    BY <2>1, Frame DEF Inv, CallInv, callVars, Opened, Latest
  <2> QED
    BY <2>1, <2>2 DEF Inv
<1>2. CASE Return
  <2>1. OffsetInv'
    BY <1>2, OffsetFrame DEF Return, Inv
  <2>2. /\ stage = "return" /\ stage' = "returned"
        /\ answer' = IF response = None THEN EmptyResponse ELSE response
        /\ UNCHANGED <<input, sent, response>>
    BY <1>2 DEF Return, vars
  <2>3. \A o, text : Placed(o, text)' <=> Placed(o, text)
    BY <2>2, Frame
  <2>4. stage' \notin Uids
    BY <2>2 DEF Uids
  <2>5. CallInv'
    BY <2>2, <2>3, <2>4 DEF Inv, CallInv, Opened, Latest
  <2> QED
    BY <2>1, <2>5 DEF Inv
<1>3. CASE UNCHANGED <<vars, callVars>>
  <2>1. OffsetInv' /\ UNCHANGED input
    BY <1>3, OffsetFrame DEF Inv, vars
  <2>2. CallInv'
    BY <1>3, <2>1, Frame DEF Inv, CallInv, callVars, Opened, Latest
  <2> QED
    BY <2>1, <2>2 DEF Inv
<1> QED
  BY <1>1, <1>2, <1>3

\* What the body of a request gives fits an unsigned, negative or not.
LEMMA UnsignedType ==
  ASSUME NEW n \in Int
  PROVE  Unsigned(n) \in 0..(2^Width - 1)
<1> DEFINE W == 2^Width
<1>1. W \in Nat \ {0} /\ Unsigned(n) = n % W
  BY PowerAssumption DEF Unsigned
<1> HIDE DEF W
<1>2. n % W \in 0..(W - 1)
  BY <1>1
<1> QED
  BY <1>1, <1>2 DEF W

\* A call starts with the invariant.
LEMMA InitInv == CallInit => Inv
<1> SUFFICES ASSUME CallInit PROVE Inv
  OBVIOUS
<1>1. contents \in Seq(Chars)
  <2>1. PICK n \in 0..MaxLength : contents \in [1..n -> Chars]
    BY DEF CallInit, Init, Contents
  <2> QED
    BY <2>1, OffsetAssumption
<1>2. line \in 0..(2^Width - 1) /\ column \in 0..(2^Width - 1)
  <2>1. \A n \in -MaxInt..MaxInt : Unsigned(n) \in 0..(2^Width - 1)
    BY UnsignedType, OffsetAssumption
  <2> QED
    BY <2>1 DEF CallInit, Init
<1>3. OffsetInv
  BY <1>1, <1>2, Started DEF CallInit, Init, Called
<1>4. CallInv
  BY DEF CallInit, CallInv, Uids
<1> QED
  BY <1>3, <1>4 DEF Inv

\* Every step keeps it.
LEMMA NextInv == Inv /\ [CallNext]_<<vars, callVars>> => Inv'
  BY OpenStep, UpdateStep, OtherStep DEF CallNext

\* The inductive invariant holds in every state.
THEOREM Invariant == CallSpec => []Inv
  BY InitInv, NextInv, PTL DEF CallSpec

\* The column the scan has come back to stays an unsigned, and the stream
\* never stands further than past its end.
THEOREM TypeCorrect == CallSpec => []TypeOK
<1>1. Inv => TypeOK
  BY DEF Inv, OffsetInv
<1> QED
  BY <1>1, Invariant, PTL

\* For every buffer, line and column GetOffset cuts the contents after the
\* first character of interest back from the cursor, unless there is none
\* but in the first column: then it sends the whole line.
THEOREM OffsetRight == CallSpec => []OffsetIsReference
<1>1. Inv => OffsetIsReference
  BY DEF Inv, OffsetInv
<1> QED
  BY <1>1, Invariant, PTL

\* The update asks about the text and the place the session was opened for.
THEOREM AskedTwice == CallSpec => []SameQuestion
<1>1. Inv => SameQuestion
  <2> SUFFICES ASSUME Inv, sent["update"] # None
               PROVE  /\ sent["update"].offset = sent["open"].offset
                      /\ sent["update"].text = sent["open"].text
    BY DEF SameQuestion
  <2>1. /\ Placed(sent["open"].offset, sent["open"].text)
        /\ Placed(sent["update"].offset, sent["update"].text)
    BY DEF Inv, CallInv, Uids
  <2>2. contents \in Seq(Chars)
    BY DEF Inv, OffsetInv, TypeOK
  <2> QED
    BY <2>1, <2>2, PlacedOnce
<1> QED
  BY <1>1, Invariant, PTL

\* What is returned is the latest result there is.
THEOREM LatestReturned == CallSpec => []BestAnswer
<1>1. Inv => BestAnswer
  <2> SUFFICES ASSUME Inv, answer # None
               PROVE  answer = IF sent["update"].ok THEN "update"
                               ELSE IF sent["open"].ok THEN "open"
                               ELSE EmptyResponse
    BY DEF BestAnswer
  <2>1. stage = "returned" /\ response = Latest
        /\ answer = IF response = None THEN EmptyResponse ELSE response
    BY DEF Inv, CallInv
  <2>2. "open" # None /\ "update" # None
    BY CompletionsAssumption DEF Uids
  <2> QED
    BY <2>1, <2>2 DEF Latest, Opened
<1> QED
  BY <1>1, Invariant, PTL
=============================================================================
