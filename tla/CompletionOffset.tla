-------------------------- MODULE CompletionOffset --------------------------
(***************************************************************************)
(* GetOffset of SwiftCompleter.cpp: from the contents of the user's buffer *)
(* and the line and column of the cursor, the part of the buffer sent to   *)
(* sourcekitd for completion (CleanFile) and the offset to complete at.    *)
(*                                                                         *)
(* The two loops are the steps of a process: getline over the contents     *)
(* until the line is the cursor's, then back from the column to a          *)
(* character of interest.  Characters are told apart as the code does.     *)
(***************************************************************************)
EXTENDS Integers, Sequences, FiniteSets

CONSTANTS MaxLength,  \* bound: length of the contents
          MaxInt,     \* bound: the line and the column, in absolute value
          Width       \* bits of an unsigned

ASSUME OffsetAssumption ==
  /\ MaxLength \in Nat
  /\ MaxInt \in Nat
  /\ Width \in Nat \ {0}

\* So it is for every width; the provers know nothing of ^.
ASSUME PowerAssumption == 2^Width \in Nat \ {0}

Space == "space"
Dot == "dot"
Newline == "newline"
Char == "char"  \* any other
Chars == {Space, Dot, Newline, Char}

Contents == UNION {[1..n -> Chars] : n \in 0..MaxLength}

VARIABLES
  contents,   \* of the unsaved file
  line,       \* the cursor's line, from 1
  column,     \* the cursor's column, from 0
  pc,         \* "assert", "getline", "scan", "done" or "aborted"
  pos,        \* where the istringstream stands in the contents
  someLine,   \* the line last read
  currentLine,
  i,          \* the column the scan has come back to
  CleanFile,
  offset

input == <<contents, line, column>>
vars == <<input, pc, pos, someLine, currentLine, i, CleanFile, offset>>

\* An int of the JSON body becomes an unsigned of the CompletionContext.
\* Mutant: it stays an int.
Unsigned_Int(n) == n
Unsigned(n) == n % 2^Width

Init ==
  /\ contents \in Contents
  /\ line \in {Unsigned(n) : n \in -MaxInt..MaxInt}
  /\ column \in {Unsigned(n) : n \in -MaxInt..MaxInt}
  /\ pc = "assert"
  /\ pos = 1
  /\ someLine = <<>>
  /\ currentLine = 0
  /\ i = 0
  /\ CleanFile = <<>>
  /\ offset = 0

\* assert(unsavedInput.length() && "Missing unsaved file")
Assert ==
  /\ pc = "assert"
  /\ pc' = IF contents = <<>> THEN "aborted" ELSE "getline"
  /\ UNCHANGED <<input, pos, someLine, currentLine, i, CleanFile, offset>>

\* The position after the last character of the line that starts at p.
EndOfLine(p) ==
  CHOOSE e \in p..(Len(contents) + 1) :
    /\ e = Len(contents) + 1 \/ contents[e] = Newline
    /\ \A q \in p..(e - 1) : contents[q] # Newline

\* std::getline: the line without its newline, which is consumed.
GetLine ==
  /\ pos <= Len(contents)
  /\ someLine' = SubSeq(contents, pos, EndOfLine(pos) - 1)
  /\ pos' = EndOfLine(pos) + 1

SkipLine ==
  /\ pc = "getline"
  /\ currentLine + 1 # line
  /\ GetLine
  /\ currentLine' = currentLine + 1
  /\ CleanFile' = Append(CleanFile \o someLine', Newline)
  /\ UNCHANGED <<input, pc, i, offset>>

FindLine ==
  /\ pc = "getline"
  /\ currentLine + 1 = line
  /\ GetLine
  /\ i' = column
  /\ pc' = "scan"
  /\ UNCHANGED <<input, currentLine, CleanFile, offset>>

\* getline fails: *offset is left at the 0 the caller put there.
EndOfFile ==
  /\ pc = "getline"
  /\ pos > Len(contents)
  /\ pc' = "done"
  /\ UNCHANGED <<input, pos, someLine, currentLine, i, CleanFile, offset>>

\* someLine.at(i) is a space or a dot; a sequence counts from 1.
Interesting(l, n) == n < Len(l) /\ l[n + 1] \in {Space, Dot}

\* The scan has come back to the first column.  Mutant: it is not tested for.
AtStart_Never == FALSE
AtStart == i = 0

ScanBack ==
  /\ pc = "scan"
  /\ ~Interesting(someLine, i) /\ ~AtStart
  /\ i' = Unsigned(i - 1)
  /\ UNCHANGED <<input, pc, pos, someLine, currentLine, CleanFile, offset>>

\* Mutant: the character of interest is left out.
partialLine_Exclusive ==
  IF i = 0 THEN someLine
  ELSE IF Len(someLine) > i THEN SubSeq(someLine, 1, i) ELSE <<>>

partialLine ==
  IF i = 0 THEN someLine
  ELSE IF Len(someLine) > i THEN SubSeq(someLine, 1, i + 1) ELSE <<>>

Cut ==
  /\ pc = "scan"
  /\ Interesting(someLine, i) \/ AtStart
  /\ CleanFile' = CleanFile \o partialLine
  /\ offset' = Len(CleanFile')
  /\ pc' = "done"
  /\ UNCHANGED <<input, pos, someLine, currentLine, i>>

Next == Assert \/ SkipLine \/ FindLine \/ EndOfFile \/ ScanBack \/ Cut

-----------------------------------------------------------------------------
(* Reference: the offset as a position in the contents *)

\* The positions where a line starts, and the start of line n, if there.
LineStarts ==
  {p \in 1..Len(contents) : p = 1 \/ contents[p - 1] = Newline}

StartsLine(p, n) ==
  p \in LineStarts /\ Cardinality({q \in LineStarts : q < p}) = n - 1

\* The characters of interest of the line at p up to the cursor.
Candidates(p) ==
  {q \in p..(EndOfLine(p) - 1) :
     q - p <= column /\ contents[q] \in {Space, Dot}}

\* "The file ends after the first interesting character" back from the cursor.
Reference(p) == CHOOSE q \in Candidates(p) : \A r \in Candidates(p) : r <= q

\* If there is none, or only the line's first character is one, the whole
\* line is sent, with what follows the cursor.
EndOfPart(p) ==
  IF Candidates(p) \subseteq {p} THEN EndOfLine(p) - 1 ELSE Reference(p)

-----------------------------------------------------------------------------
(* Properties *)

\* The state of GetOffset: the column the scan has come back to stays an
\* unsigned, and the stream never stands further than past its end.
TypeOK ==
  /\ contents \in Seq(Chars)
  /\ line \in 0..(2^Width - 1)
  /\ column \in 0..(2^Width - 1)
  /\ pc \in {"assert", "getline", "scan", "done", "aborted"}
  /\ pos \in 1..(Len(contents) + 2)
  /\ someLine \in Seq(Chars)
  /\ currentLine \in 0..Len(contents)
  /\ i \in 0..(2^Width - 1)
  /\ CleanFile \in Seq(Chars)
  /\ offset \in Nat

\* The part sent is the contents up to the offset.  If the cursor's line
\* exists the offset is that of the reference, unless no character of
\* interest other than the line's first is at or before the cursor: then it
\* is the end of the line.  If not, the offset is 0 and everything is sent,
\* ended by a newline.
OffsetIsReference ==
  pc = "done" =>
    \/ \E p \in LineStarts :
         /\ StartsLine(p, line)
         /\ offset = EndOfPart(p)
         /\ CleanFile = SubSeq(contents, 1, offset)
    \/ /\ \A p \in LineStarts : ~StartsLine(p, line)
       /\ offset = 0
       /\ CleanFile = IF contents[Len(contents)] = Newline
                      THEN contents ELSE Append(contents, Newline)

\* "The file ends after the first interesting character": if there is one at
\* or before the cursor, wherever in the line.
FileEndsAfterInteresting ==
  pc = "done" =>
    \A p \in LineStarts :
      StartsLine(p, line) /\ Candidates(p) # {} => offset = Reference(p)
=============================================================================
