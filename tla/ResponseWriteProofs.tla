------------------------ MODULE ResponseWriteProofs ------------------------
(***************************************************************************)
(* Proofs about ResponseWrite, for any number of io_service threads, any   *)
(* length of the response, any cuts of its writes, and whatever length and *)
(* content freed memory has.                                               *)
(*                                                                         *)
(* StartInv says that one thread at a time drives write_op, although its   *)
(* state is written without a lock.  LifeInv says when the message ends:   *)
(* write() stores the state before it returns, so that a thread that finds *)
(* the old state finds the message alive.  CopyInv says what that leaves   *)
(* on the wire.                                                            *)
(***************************************************************************)
EXTENDS ResponseWrite, SequenceTheorems, TLAPS

Starting(t) == pc[t] = "starting"

\* A thread that starts an asio write is alone, and none is in progress;
\* before write() there is nothing, and after onWrite nothing goes on.
StartInv ==
  /\ \A t, u \in Threads : Starting(t) /\ Starting(u) => t = u
  /\ \A t \in Threads : Starting(t) => ~active /\ Len(wire) < MaxStarts
  /\ active => wire # <<>>
  /\ state = 0 => /\ \A t \in Threads : pc[t] = "idle"
                  /\ ~active /\ wire = <<>> /\ handler = "waiting"
  /\ handler # "waiting" => ~active /\ \A t \in Threads : ~Starting(t)

\* The message ends with write(), after the state has been stored.
LifeInv ==
  /\ message = "destroyed" => pc[Caller] = "done"
  /\ pc[Caller] \in {"return", "done"} => state \notin {0, 1}
  /\ \A t \in Threads : Starting(t) => (wire = <<>> <=> t = Caller)

\* Seen from a message that is alive, the last copy is right so far; and a
\* thread that writes it again does so after a whole copy.
CopyInv ==
  /\ OnlyLastSpoilt
  /\ Len(wire) = 1 => length = Total
  /\ wire # <<>> /\ message = "alive" =>
       length = Total /\ \A i \in 1..Len(Current) : Current[i] = i - 1
  /\ \A t \in Threads : Starting(t) /\ wire # <<>> =>
       length = Total /\ Current = Whole

IndInv == TypeOK /\ StartInv /\ LifeInv /\ CopyInv /\ WholeResponse

-----------------------------------------------------------------------------
(* Sequences *)

\* A function on 1..n is a sequence of length n.
LEMMA IsSeq ==
  ASSUME NEW S, NEW n \in Nat, NEW f \in [1..n -> S]
  PROVE  f \in Seq(S) /\ Len(f) = n
  OBVIOUS

\* One sequence after another, the second of length n.
LEMMA Concat ==
  ASSUME NEW S, NEW a \in Seq(S), NEW b \in Seq(S), NEW n, Len(b) = n
  PROVE  /\ a \o b \in Seq(S)
         /\ Len(a \o b) = Len(a) + n
         /\ \A i \in 1..(Len(a) + n) :
              (a \o b)[i] = IF i <= Len(a) THEN a[i] ELSE b[i - Len(a)]
  BY ConcatProperties, Zenon

\* Counting copies.
LEMMA Counting ==
  ASSUME NEW n \in Nat
  PROVE  /\ n + 1 = 1 => n = 0
         /\ n - 1 = 0 => n = 1
         /\ n # 0 /\ n # 1 => 1 \in 1..(n - 1)
  OBVIOUS

\* The message is a sequence of Total chunks, the first of them its header.
LEMMA WholeType ==
  /\ Total \in Nat \ {0} /\ Junk = Total
  /\ Whole \in Seq(0..Junk) /\ Len(Whole) = Total
  /\ \A i \in 1..Total : Whole[i] = i - 1
<1>1. Total \in Nat \ {0} /\ Junk = Total
  BY WriteAssumption DEF Total, Junk
<1>2. \A i \in 1..Total : Whole[i] = i - 1 /\ Whole[i] \in 0..Junk
  BY <1>1 DEF Whole
<1>3. Whole \in [1..Total -> 0..Junk]
  BY <1>1, <1>2 DEF Whole
<1> QED
  BY <1>1, <1>2, <1>3

\* A copy with every chunk in its place is the message.
LEMMA WholeIs ==
  ASSUME NEW c \in Seq(0..Junk), Len(c) = Total,
         \A i \in 1..Len(c) : c[i] = i - 1
  PROVE  c = Whole
<1>1. Whole \in Seq(0..Junk) /\ Len(Whole) = Len(c)
  BY WholeType
<1>2. \A i \in 1..Len(c) : c[i] = Whole[i]
  BY WholeType
<1> QED
  BY <1>1, <1>2, SeqEqual

\* A piece is as long as asked for, and from a message that is alive it has
\* the chunks that come next.
LEMMA PieceType ==
  ASSUME NEW m \in Nat, NEW n \in Nat, NEW piece \in Pieces(m, n)
  PROVE  /\ piece \in Seq(0..Junk) /\ Len(piece) = n
         /\ message = "alive" /\ m + n <= Total =>
              \A i \in 1..n : piece[i] = m + i - 1
<1> DEFINE P(kept) == [i \in 1..n |-> IF m + i = 1 \/ (kept /\ m + i <= Total)
                                      THEN m + i - 1 ELSE Junk]
<1>1. PICK kept \in (IF message = "alive" THEN {TRUE} ELSE BOOLEAN) :
        piece = P(kept)
  BY DEF Pieces
<1>2. Total \in Nat \ {0} /\ Junk = Total
  BY WholeType
<1>3. \A i \in 1..n : P(kept)[i] \in 0..Junk
  BY <1>2
<1>4. P(kept) \in [1..n -> 0..Junk]
  BY <1>3
<1>5. piece \in Seq(0..Junk) /\ Len(piece) = n
  <2>1. piece \in [1..n -> 0..Junk]
    BY <1>1, <1>4
  <2> QED
    BY <2>1, IsSeq, Zenon
<1>6. message = "alive" /\ m + n <= Total => \A i \in 1..n : piece[i] = m + i - 1
  <2> SUFFICES ASSUME message = "alive", m + n <= Total, NEW i \in 1..n
               PROVE  piece[i] = m + i - 1
    OBVIOUS
  <2>1. kept = TRUE /\ m + i <= Total
    BY <1>1, <1>2
  <2> QED
    BY <1>1, <2>1
<1> QED
  BY <1>5, <1>6

\* What is on the wire, copy by copy.
LEMMA WireType ==
  ASSUME TypeOK
  PROVE  /\ Len(wire) \in Nat
         /\ wire = <<>> <=> Len(wire) = 0
         /\ \A j \in 1..Len(wire) : wire[j] \in Seq(0..Junk) /\ Len(wire[j]) \in Nat
         /\ wire # <<>> => /\ Len(wire) \in 1..Len(wire)
                           /\ Current \in Seq(0..Junk) /\ Len(Current) \in Nat
<1>1. wire \in Seq(Seq(0..Junk)) /\ Len(wire) \in Nat
  BY LenProperties DEF TypeOK
<1>2. wire = <<>> <=> Len(wire) = 0
  BY <1>1, EmptySeq
<1>3. \A j \in 1..Len(wire) : wire[j] \in Seq(0..Junk)
  BY <1>1, ElementOfSeq
<1>4. \A j \in 1..Len(wire) : Len(wire[j]) \in Nat
  BY <1>3, LenProperties
<1> QED
  BY <1>1, <1>2, <1>3, <1>4 DEF Current

-----------------------------------------------------------------------------
(* The steps *)

\* An asio write is started by the one thread that may: the caller, for the
\* first copy, with the message alive, or a thread that has sent a whole one.
LEMMA AsyncWriteStep ==
  ASSUME IndInv, NEW t \in Threads, AsyncWrite(t)
  PROVE  /\ IndInv' /\ active' /\ wire' # <<>> /\ handler' = handler
         /\ ~active /\ (wire # <<>> => AllSent)
         /\ Len(wire') = Len(wire) + 1
         /\ \A j \in 1..Len(wire) : wire'[j] = wire[j]
<1> USE WholeType, WriteAssumption, WireType DEF IndInv
<1>1. PICK l \in Lengths, n \in 0..MaxTransfer :
        n <= l /\ length' = l /\ \E piece \in Pieces(0, n) : wire' = Append(wire, piece)
  BY DEF AsyncWrite
<1>2. PICK piece \in Pieces(0, n) : wire' = Append(wire, piece)
  BY <1>1
<1>3. /\ pc[t] = "starting" /\ pc' = [pc EXCEPT ![t] = "set_state"] /\ active' = TRUE
      /\ UNCHANGED <<message, state, handler>>
  BY DEF AsyncWrite, Goto
<1>4. l \in Nat /\ n \in Nat /\ (message = "alive" => l = Total)
  BY <1>1 DEF Lengths
<1>5. /\ piece \in Seq(0..Junk) /\ Len(piece) = n
      /\ message = "alive" => \A i \in 1..n : piece[i] = i - 1
  <2>1. message = "alive" => 0 + n <= Total
    BY <1>1, <1>4
  <2>2. piece \in Seq(0..Junk) /\ Len(piece) = n
    BY <1>4, PieceType
  <2>3. message = "alive" => \A i \in 1..n : piece[i] = 0 + i - 1
    BY <1>4, <2>1, PieceType
  <2> QED
    BY <2>2, <2>3
<1>6. /\ wire' \in Seq(Seq(0..Junk)) /\ Len(wire') = Len(wire) + 1
      /\ \A j \in 1..Len(wire) : wire'[j] = wire[j]
      /\ wire'[Len(wire) + 1] = piece
  BY <1>2, <1>5, AppendProperties DEF TypeOK
<1>7. Current' = piece /\ wire' # <<>>
  <2>1. wire'[Len(wire')] = piece
    BY <1>6
  <2>2. wire' # <<>>
    BY <1>6, EmptySeq
  <2> QED
    BY <2>1, <2>2 DEF Current
<1>8. /\ ~active /\ Len(wire) < MaxStarts /\ handler = "waiting" /\ state # 0
      /\ wire = <<>> <=> t = Caller
      /\ wire # <<>> => length = Total /\ Current = Whole
  BY <1>3 DEF StartInv, LifeInv, CopyInv, Starting, TypeOK
<1>9. \A u \in Threads : ~Starting(u)'
  BY <1>3 DEF StartInv, Starting, TypeOK
<1>10. TypeOK'
  BY <1>1, <1>3, <1>4, <1>5, <1>6, <1>7, <1>8 DEF TypeOK
<1>11. StartInv'
  BY <1>3, <1>7, <1>8, <1>9 DEF StartInv
<1>12. LifeInv'
  BY <1>3, <1>9 DEF LifeInv, TypeOK, Threads
<1>13. CopyInv'
  <2>1. ASSUME NEW j \in 1..Len(wire) PROVE wire'[j] = Whole
    <3>1. Len(wire) \in Nat /\ wire # <<>>
      BY <2>1
    <3>2. CASE j = Len(wire)
      BY <1>6, <1>8, <3>1, <3>2 DEF Current
    <3>3. CASE j # Len(wire)
      <4>1. j \in 1..(Len(wire) - 1)
        BY <3>1, <3>3
      <4> QED
        BY <1>6, <4>1 DEF CopyInv, OnlyLastSpoilt
    <3> QED
      BY <3>2, <3>3
  <2>2. OnlyLastSpoilt'
    BY <1>6, <2>1 DEF OnlyLastSpoilt
  <2>3. Len(wire') = 1 => length' = Total
    <3> SUFFICES ASSUME Len(wire') = 1 PROVE length' = Total
      OBVIOUS
    <3>1. t = Caller
      <4>1. Len(wire) \in Nat /\ (Len(wire) = 0 => wire = <<>>)
        OBVIOUS
      <4>2. Len(wire) = 0
        BY <1>6, <4>1, Counting, Zenon
      <4> QED
        BY <1>8, <4>1, <4>2
    <3>2. message = "alive"
      BY <1>3, <3>1 DEF LifeInv, TypeOK
    <3> QED
      BY <1>1, <1>4, <3>2
  <2>4. message' = "alive" =>
          length' = Total /\ \A i \in 1..Len(Current') : Current'[i] = i - 1
    BY <1>1, <1>3, <1>4, <1>5, <1>7
  <2> QED
    BY <1>9, <2>2, <2>3, <2>4 DEF CopyInv
<1>14. WholeResponse'
  BY <1>3, <1>8 DEF WholeResponse
<1>15. wire # <<>> => AllSent
  BY <1>8 DEF AllSent
<1> QED
  BY <1>3, <1>6, <1>7, <1>8, <1>10, <1>11, <1>12, <1>13, <1>14, <1>15

\* A write_some takes up where the last one stopped, and touches no other
\* copy.
LEMMA WriteSomeStep ==
  ASSUME IndInv, NEW t \in Threads, WriteSome(t)
  PROVE  /\ IndInv' /\ active /\ active' /\ wire # <<>> /\ wire' # <<>>
         /\ handler' = handler
         /\ Len(wire') = Len(wire)
         /\ \A j \in 1..(Len(wire) - 1) : wire'[j] = wire[j]
<1> USE WholeType, WriteAssumption, WireType DEF IndInv
<1>1. PICK n \in 1..MaxTransfer :
        /\ Len(Current) + n <= length
        /\ \E piece \in Pieces(Len(Current), n) :
             wire' = [wire EXCEPT ![Len(wire)] = @ \o piece]
  BY DEF WriteSome
<1>2. PICK piece \in Pieces(Len(Current), n) :
        wire' = [wire EXCEPT ![Len(wire)] = Current \o piece]
  BY <1>1 DEF Current
<1>3. active /\ UNCHANGED <<pc, message, state, active, length, handler>>
  BY DEF WriteSome, Idle
<1>4. wire # <<>> /\ handler = "waiting" /\ state # 0
  BY <1>3 DEF StartInv
<1>5. /\ n \in Nat /\ Len(Current) \in Nat /\ length \in Nat
      /\ Current \in Seq(0..Junk) /\ Len(wire) \in 1..Len(wire)
  BY <1>4 DEF TypeOK
<1>6. /\ piece \in Seq(0..Junk) /\ Len(piece) = n
      /\ message = "alive" /\ Len(Current) + n <= Total =>
           \A i \in 1..n : piece[i] = Len(Current) + i - 1
  BY <1>5, PieceType
<1>7. /\ Current \o piece \in Seq(0..Junk)
      /\ Len(Current \o piece) = Len(Current) + n
      /\ \A i \in 1..(Len(Current) + n) : (Current \o piece)[i] =
           IF i <= Len(Current) THEN Current[i] ELSE piece[i - Len(Current)]
  <2> DEFINE S == 0..Junk
             before == Current
  <2>1. before \in Seq(S) /\ piece \in Seq(S) /\ Len(piece) = n
    BY <1>5, <1>6
  <2> HIDE DEF IndInv, S, before
  <2>2. /\ before \o piece \in Seq(S)
        /\ Len(before \o piece) = Len(before) + n
        /\ \A i \in 1..(Len(before) + n) : (before \o piece)[i] =
             IF i <= Len(before) THEN before[i] ELSE piece[i - Len(before)]
    BY ONLY <2>1, Concat
  <2> QED
    BY <2>2 DEF S, before
<1>8. /\ wire' \in Seq(Seq(0..Junk)) /\ Len(wire') = Len(wire)
      /\ wire'[Len(wire)] = Current \o piece
      /\ \A j \in 1..(Len(wire) - 1) : wire'[j] = wire[j]
  <2>1. wire \in Seq(Seq(0..Junk))
    BY DEF TypeOK
  <2>2. /\ wire' \in Seq(Seq(0..Junk)) /\ Len(wire') = Len(wire)
        /\ \A j \in 1..Len(wire) :
             wire'[j] = IF j = Len(wire) THEN Current \o piece ELSE wire[j]
    BY <1>2, <1>5, <1>7, <2>1, ExceptSeq
  <2>3. Len(wire) \in Nat
    BY <1>5
  <2>4. wire'[Len(wire)] = Current \o piece
    BY <1>5, <2>2
  <2>5. \A j \in 1..(Len(wire) - 1) : j \in 1..Len(wire) /\ j # Len(wire)
    BY <2>3
  <2>6. \A j \in 1..(Len(wire) - 1) : wire'[j] = wire[j]
    BY <2>2, <2>5
  <2> QED
    BY <2>2, <2>4, <2>6
<1>9. Current' = Current \o piece /\ wire' # <<>>
  <2>1. wire'[Len(wire')] = Current \o piece
    BY <1>8
  <2>2. wire' # <<>>
    BY <1>8, <1>4, EmptySeq
  <2> QED
    BY <2>1, <2>2 DEF Current
<1>10. \A u \in Threads : ~Starting(u) /\ ~Starting(u)'
  BY <1>3 DEF StartInv, Starting
<1>11. TypeOK'
  BY <1>1, <1>3, <1>7, <1>8, <1>9 DEF TypeOK
<1>12. StartInv'
  BY <1>3, <1>4, <1>9, <1>10 DEF StartInv
<1>13. LifeInv'
  BY <1>3, <1>10 DEF LifeInv
<1>14. CopyInv'
  <2>1. OnlyLastSpoilt'
    BY <1>8 DEF CopyInv, OnlyLastSpoilt
  <2>2. Len(wire') = 1 => length' = Total
    BY <1>3, <1>8 DEF CopyInv
  <2>3. message' = "alive" =>
          length' = Total /\ \A i \in 1..Len(Current') : Current'[i] = i - 1
    <3> SUFFICES ASSUME message = "alive"
                 PROVE  length' = Total /\ \A i \in 1..Len(Current') : Current'[i] = i - 1
      BY <1>3
    <3>1. length = Total /\ \A i \in 1..Len(Current) : Current[i] = i - 1
      BY <1>4 DEF CopyInv
    <3>2. \A i \in 1..n : piece[i] = Len(Current) + i - 1
      BY <1>1, <1>6, <3>1
    <3>3. ASSUME NEW i \in 1..(Len(Current) + n) PROVE (Current \o piece)[i] = i - 1
      <4>1. CASE i <= Len(Current)
        BY <1>5, <1>7, <3>1, <4>1
      <4>2. CASE ~(i <= Len(Current))
        <5>1. i - Len(Current) \in 1..n
          BY <1>5, <4>2
        <5>2. piece[i - Len(Current)] = Len(Current) + (i - Len(Current)) - 1
          BY <3>2, <5>1
        <5> QED
          BY <1>5, <1>7, <4>2, <5>2
      <4> QED
        BY <4>1, <4>2
    <3> QED
      BY <1>3, <1>7, <1>9, <3>1, <3>3
  <2> QED
    BY <1>10, <2>1, <2>2, <2>3 DEF CopyInv
<1>15. WholeResponse'
  BY <1>3, <1>4 DEF WholeResponse
<1> QED
  BY <1>3, <1>4, <1>8, <1>9, <1>11, <1>12, <1>13, <1>14, <1>15

\* write(), from its call to its return, but for the start of the asio write.
LEMMA CallerStep ==
  ASSUME IndInv, NEW t \in Threads, Write \/ Return \/ SetState(t)
  PROVE  IndInv' /\ UNCHANGED <<active, length, wire, handler>>
<1> USE DEF IndInv
<1>1. UNCHANGED <<active, length, wire, handler>>
  BY DEF Write, Return, SetState
<1>2. Current' = Current /\ Caller \in Threads
  BY <1>1 DEF Current, Threads
<1>3. WholeResponse' /\ OnlyLastSpoilt'
  BY <1>1, <1>2 DEF WholeResponse, CopyInv, OnlyLastSpoilt, AllSent
<1>4. CASE Write
  <2>1. /\ pc' = [pc EXCEPT ![Caller] = "starting"] /\ state = 0 /\ state' = 1
        /\ message' = message
    BY <1>4 DEF Write, Goto
  <2>2. \A u \in Threads : Starting(u)' => u = Caller
    BY <2>1 DEF TypeOK, StartInv, Starting
  <2>3. ~active /\ wire = <<>> /\ handler = "waiting" /\ pc[Caller] = "idle"
    BY <1>2, <2>1 DEF StartInv
  <2>4. Len(wire) = 0 /\ 0 < MaxStarts
    BY <2>3, WriteAssumption
  <2>5. TypeOK'
    BY <1>1, <1>2, <2>1 DEF TypeOK
  <2>6. StartInv'
    BY <1>1, <2>1, <2>2, <2>3, <2>4 DEF StartInv
  <2>7. LifeInv'
    BY <1>1, <1>2, <2>1, <2>2, <2>3 DEF LifeInv, TypeOK
  <2>8. CopyInv'
    BY <1>1, <1>3, <2>3, <2>4 DEF CopyInv
  <2> QED
    BY <1>1, <1>3, <2>5, <2>6, <2>7, <2>8
<1>5. CASE Return
  <2>1. /\ pc' = [pc EXCEPT ![Caller] = "done"] /\ pc[Caller] = "return"
        /\ message' = "destroyed" /\ state' = state
    BY <1>5 DEF Return, Goto
  <2>2. \A u \in Threads : Starting(u)' <=> Starting(u)
    BY <1>2, <2>1 DEF TypeOK, Starting
  <2>3. state \notin {0, 1} /\ pc'[Caller] = "done"
    BY <1>2, <2>1 DEF LifeInv, TypeOK
  <2>4. TypeOK'
    BY <1>1, <1>2, <2>1 DEF TypeOK
  <2>5. StartInv' /\ LifeInv'
    BY <1>1, <2>1, <2>2, <2>3 DEF StartInv, LifeInv
  <2>6. CopyInv'
    BY <1>1, <1>2, <1>3, <2>1, <2>2 DEF CopyInv
  <2> QED
    BY <1>1, <1>3, <2>4, <2>5, <2>6
<1>6. CASE SetState(t)
  <2>1. /\ pc' = [pc EXCEPT ![t] = IF t = Caller THEN "return" ELSE "idle"]
        /\ pc[t] = "set_state" /\ message' = message
        /\ state' = IF state = 1 THEN 5 ELSE state
    BY <1>6 DEF SetState, Goto, AfterState1
  <2>2. \A u \in Threads : Starting(u)' <=> Starting(u)
    BY <2>1 DEF TypeOK, Starting
  <2>3. state # 0 /\ state' \notin {0, 1} /\ state' \in {5, 99}
    BY <2>1 DEF StartInv, TypeOK
  <2>4. TypeOK'
    BY <1>1, <1>2, <2>1, <2>3 DEF TypeOK
  <2>5. StartInv'
    BY <1>1, <2>2, <2>3 DEF StartInv
  <2>6. message' = "destroyed" => pc'[Caller] = "done"
    BY <1>2, <2>1 DEF LifeInv, TypeOK
  <2>7. LifeInv'
    BY <1>1, <2>2, <2>3, <2>6 DEF LifeInv
  <2>8. CopyInv'
    BY <1>1, <1>2, <1>3, <2>1, <2>2 DEF CopyInv
  <2> QED
    BY <1>1, <1>3, <2>4, <2>5, <2>7, <2>8
<1> QED
  BY <1>4, <1>5, <1>6

\* An asio write that ends leaves all its buffers sent, or an error.
LEMMA EndStep ==
  ASSUME IndInv, NEW t \in Threads, Complete(t) \/ WriteError(t)
  PROVE  /\ IndInv' /\ UNCHANGED <<wire, length>>
         /\ active /\ ~active' /\ wire # <<>>
         /\ handler = "waiting" /\ handler' # "waiting"
<1> USE DEF IndInv
<1>1. /\ active /\ active' = FALSE /\ state' = 99 /\ handler' \in {"ok", "error"}
      /\ handler' = "ok" => AllSent
      /\ UNCHANGED <<pc, message, length, wire>>
  BY DEF Complete, WriteError, Idle
<1>2. wire # <<>> /\ handler = "waiting" /\ \A u \in Threads : ~Starting(u)
  BY <1>1 DEF StartInv
<1>3. Current' = Current /\ active' \in BOOLEAN
  BY <1>1 DEF Current
<1>4. TypeOK'
  BY <1>1, <1>3 DEF TypeOK
<1>5. StartInv' /\ LifeInv' /\ CopyInv'
  BY <1>1, <1>2, <1>3
  DEF StartInv, LifeInv, CopyInv, OnlyLastSpoilt, Starting, Whole
<1>6. WholeResponse'
  <2> SUFFICES ASSUME handler' = "ok"
               PROVE  wire' # <<>> /\ AllSent' /\ Len(wire'[1]) = Total
    BY DEF WholeResponse
  <2>1. AllSent /\ AllSent'
    BY <1>1, <1>3 DEF AllSent
  <2>2. CASE Len(wire) = 1
    BY <1>1, <1>2, <2>1, <2>2 DEF CopyInv, AllSent, Current
  <2>3. CASE Len(wire) # 1
    <3>1. 1 \in 1..(Len(wire) - 1)
      <4>1. Len(wire) \in Nat /\ Len(wire) # 0
        BY <1>2, WireType
      <4> QED
        BY <2>3, <4>1, Counting, Zenon
    <3> QED
      BY <1>1, <1>2, <2>1, <3>1, WholeType DEF CopyInv, OnlyLastSpoilt
  <2> QED
    BY <2>2, <2>3
<1> QED
  BY <1>1, <1>2, <1>4, <1>5, <1>6

\* A thread that finds the old state finds the message alive, and the copy it
\* has sent whole.
LEMMA EarlyStep ==
  ASSUME IndInv, NEW t \in Threads, CompleteEarly(t)
  PROVE  /\ IndInv' /\ UNCHANGED <<wire, length, handler>>
         /\ active /\ ~active' /\ wire # <<>> /\ AllSent
         /\ Current = Whole /\ handler = "waiting"
<1> USE DEF IndInv
<1>1. /\ active /\ active' = FALSE /\ AllSent /\ state = 1 /\ Len(wire) < MaxStarts
      /\ t \in IoThreads /\ pc' = [pc EXCEPT ![t] = "starting"]
      /\ UNCHANGED <<message, state, length, wire, handler>>
  BY DEF CompleteEarly, Idle
<1>2. wire # <<>> /\ handler = "waiting" /\ \A u \in Threads : ~Starting(u)
  BY <1>1 DEF StartInv
<1>3. t # Caller /\ Caller \in Threads /\ pc'[Caller] = pc[Caller]
  BY <1>1, WriteAssumption DEF Threads, TypeOK
<1>4. message = "alive"
  BY <1>1 DEF LifeInv, TypeOK
<1>5. length = Total /\ Current = Whole
  <2>1. length = Total /\ \A i \in 1..Len(Current) : Current[i] = i - 1
    BY <1>2, <1>4 DEF CopyInv
  <2>2. Current \in Seq(0..Junk) /\ Len(Current) = Total
    BY <1>1, <1>2, <2>1, WireType DEF AllSent
  <2> QED
    BY <2>1, <2>2, WholeIs
<1>6. \A u \in Threads : Starting(u)' => u = t
  BY <1>1, <1>2 DEF TypeOK, Starting
<1>7. Current' = Current /\ active' \in BOOLEAN
  BY <1>1 DEF Current
<1>8. TypeOK'
  BY <1>1, <1>7 DEF TypeOK
<1>9. StartInv'
  BY <1>1, <1>2, <1>6 DEF StartInv
<1>10. LifeInv'
  BY <1>1, <1>2, <1>3, <1>6 DEF LifeInv
<1>11. CopyInv'
  BY <1>1, <1>5, <1>7 DEF CopyInv, OnlyLastSpoilt, Whole
<1>12. WholeResponse'
  BY <1>1, <1>2 DEF WholeResponse
<1> QED
  BY <1>1, <1>2, <1>5, <1>8, <1>9, <1>10, <1>11, <1>12

-----------------------------------------------------------------------------
(* Theorems *)

\* Nothing is under way before write().
LEMMA InitInv == Init => IndInv
<1> SUFFICES ASSUME Init PROVE IndInv
  OBVIOUS
<1>1. active \in BOOLEAN
  BY Zenon DEF Init
<1>2. wire = <<>> /\ Len(wire) = 0 /\ wire \in Seq(Seq(0..Junk)) /\ 0 <= MaxStarts
  BY WriteAssumption, EmptySeq DEF Init
<1>3. TypeOK
  BY <1>1, <1>2 DEF Init, TypeOK
<1>4. StartInv /\ LifeInv
  BY <1>2 DEF Init, StartInv, LifeInv, Starting, Threads
<1>5. OnlyLastSpoilt
  BY <1>2 DEF OnlyLastSpoilt
<1>6. CopyInv /\ WholeResponse
  BY <1>2, <1>5 DEF Init, CopyInv, WholeResponse
<1> QED
  BY <1>3, <1>4, <1>6 DEF IndInv

\* Every step keeps the invariant.
LEMMA NextInv == IndInv /\ [Next]_vars => IndInv'
<1> SUFFICES ASSUME IndInv, [Next]_vars PROVE IndInv'
  OBVIOUS
<1>1. CASE UNCHANGED vars
  BY <1>1 DEF vars, IndInv, TypeOK, StartInv, LifeInv, CopyInv, OnlyLastSpoilt,
              WholeResponse, Starting, Current, AllSent, Whole
<1>2. Caller \in Threads
  BY DEF Threads
<1> QED
  BY <1>1, <1>2, AsyncWriteStep, WriteSomeStep, CallerStep, EndStep, EarlyStep
  DEF Next, Thread

\* The inductive invariant holds in every state.
THEOREM Invariant == Spec => []IndInv
  BY InitInv, NextInv, PTL DEF Spec

\* No asio write sends more than its buffers hold, and the response is not
\* started more often than write_op allows, whichever thread finds d.state
\* not yet overwritten.
THEOREM TypeCorrect == Spec => []TypeOK
<1>1. IndInv => TypeOK
  BY DEF IndInv
<1> QED
  BY <1>1, Invariant, PTL

\* Whatever freed memory holds, and however often the response is sent again,
\* every copy but the last is the response.
THEOREM SpoiltLast == Spec => []OnlyLastSpoilt
<1>1. IndInv => OnlyLastSpoilt
  BY DEF IndInv, CopyInv
<1> QED
  BY <1>1, Invariant, PTL

\* onWrite without an error follows a first copy of the length of the
\* response, and nothing that was cut off.
THEOREM NothingCutOff == Spec => []WholeResponse
<1>1. IndInv => WholeResponse
  BY DEF IndInv
<1> QED
  BY <1>1, Invariant, PTL

-----------------------------------------------------------------------------
(* Refinement *)

\* One more form at the end.
LEMMA AppendForm ==
  ASSUME NEW n \in Nat, NEW f, NEW S,
         \A j \in 1..(n + 1) : f[j] \in S
  PROVE  Append([j \in 1..n |-> f[j]], f[n + 1]) = [j \in 1..(n + 1) |-> f[j]]
<1> DEFINE a == [j \in 1..n |-> f[j]]
           b == [j \in 1..(n + 1) |-> f[j]]
<1>1. a \in [1..n -> S] /\ b \in [1..(n + 1) -> S] /\ f[n + 1] \in S
  OBVIOUS
<1>2. a \in Seq(S) /\ Len(a) = n /\ b \in Seq(S) /\ Len(b) = n + 1
  <2> HIDE DEF a, b
  <2> QED
    BY <1>1
<1>3. \A j \in 1..n : a[j] = b[j]
  OBVIOUS
<1>4. b[n + 1] = f[n + 1]
  OBVIOUS
<1> HIDE DEF a, b
<1>5. /\ Append(a, f[n + 1]) \in Seq(S) /\ Len(Append(a, f[n + 1])) = n + 1
      /\ \A j \in 1..n : Append(a, f[n + 1])[j] = a[j]
      /\ Append(a, f[n + 1])[n + 1] = f[n + 1]
  BY <1>1, <1>2, AppendProperties
<1>6. \A j \in 1..(n + 1) : Append(a, f[n + 1])[j] = b[j]
  BY <1>3, <1>4, <1>5
<1>7. Append(a, f[n + 1]) = b
  BY <1>2, <1>5, <1>6, SeqEqual
<1> QED
  BY <1>7 DEF a, b

Copies == [j \in 1..CopiesOut |-> Form(wire[j])]
Done == handler # "waiting"

\* A copy that ends adds its form to those that are out.
LEMMA OneMore ==
  ASSUME IndInv, wire # <<>>, CopiesOut = Len(wire) - 1,
         wire' = wire, CopiesOut' = Len(wire)
  PROVE  /\ Copies' = Append(Copies, Form(Current))
         /\ Copies = <<>> <=> Len(wire) = 1
<1> DEFINE forms == [j \in 1..Len(wire) |-> Form(wire[j])]
<1>1. Len(wire) \in Nat /\ Len(wire) - 1 \in Nat /\ Len(wire) >= 1
  BY WireType DEF IndInv
<1>2. \A j \in 1..((Len(wire) - 1) + 1) : forms[j] \in {"intact", "misframed", "torn"}
  BY <1>1 DEF Form
<1>3. Copies = [j \in 1..(Len(wire) - 1) |-> forms[j]]
  BY <1>1 DEF Copies
<1>4. Copies' = [j \in 1..((Len(wire) - 1) + 1) |-> forms[j]]
  BY <1>1 DEF Copies, Form, Whole
<1>5. forms[(Len(wire) - 1) + 1] = Form(Current)
  BY <1>1 DEF Current
<1>6. Len(Copies) = Len(wire) - 1
  BY <1>1 DEF Copies
<1> HIDE DEF forms
<1>7. Copies' = Append(Copies, forms[(Len(wire) - 1) + 1])
  BY <1>1, <1>2, <1>3, <1>4, AppendForm
<1>8. Copies = <<>> <=> Len(wire) = 1
  <2>1. ASSUME Copies = <<>> PROVE Len(wire) = 1
    <3>1. Len(Copies) = 0
      BY <2>1
    <3>2. Len(wire) - 1 = 0
      BY <1>6, <3>1
    <3> QED
      BY <1>1, <3>2, Counting, Zenon
  <2>2. ASSUME Len(wire) = 1 PROVE Copies = <<>>
    BY <2>2, <1>3
  <2> QED
    BY <2>1, <2>2
<1> QED
  BY <1>5, <1>7, <1>8

\* Every step of the threads is a step of ResponseCopies, or none.
LEMMA CopiesStep ==
  IndInv /\ [Next]_vars => [ToSession!Next]_<<Copies, Done>>
<1> SUFFICES ASSUME IndInv, [Next]_vars
             PROVE  ToSession!Next \/ UNCHANGED <<Copies, Done>>
  OBVIOUS
<1> USE DEF Done
<1>1. ASSUME UNCHANGED <<active, length, wire, handler>>
      PROVE  UNCHANGED <<Copies, Done>>
  BY <1>1 DEF Copies, CopiesOut, AllSent, Current, Form, Whole
<1>2. ASSUME NEW t \in Threads, AsyncWrite(t) PROVE UNCHANGED <<Copies, Done>>
  <2>1. CopiesOut = Len(wire) /\ CopiesOut' = Len(wire) /\ handler' = handler
    BY <1>2, AsyncWriteStep, WireType DEF CopiesOut, IndInv
  <2>2. \A j \in 1..Len(wire) : Form(wire[j])' = Form(wire[j])
    BY <1>2, AsyncWriteStep DEF Form, Whole
  <2> QED
    BY <2>1, <2>2 DEF Copies
<1>3. ASSUME NEW t \in Threads, WriteSome(t) PROVE UNCHANGED <<Copies, Done>>
  <2>1. CopiesOut = Len(wire) - 1 /\ CopiesOut' = Len(wire) - 1 /\ handler' = handler
    BY <1>3, WriteSomeStep DEF CopiesOut
  <2>2. \A j \in 1..(Len(wire) - 1) : Form(wire[j])' = Form(wire[j])
    BY <1>3, WriteSomeStep DEF Form, Whole
  <2> QED
    BY <2>1, <2>2 DEF Copies
<1>4. ASSUME NEW t \in Threads, Complete(t) PROVE ToSession!Last
  <2>1. /\ UNCHANGED <<wire, length>> /\ active /\ ~active' /\ wire # <<>>
        /\ handler = "waiting" /\ handler' # "waiting"
    BY <1>4, EndStep
  <2>2. AllSent /\ AllSent'
    BY <1>4, <2>1 DEF Complete, AllSent, Current
  <2>3. CopiesOut = Len(wire) - 1 /\ CopiesOut' = Len(wire)
    BY <2>1, <2>2 DEF CopiesOut
  <2>4. /\ Copies' = Append(Copies, Form(Current))
        /\ Copies = <<>> <=> Len(wire) = 1
    BY <2>1, <2>3, OneMore
  <2>5. Form(Current) \in {"intact", "torn", "misframed"}
    BY DEF Form
  <2>6. Len(wire) = 1 => Form(Current) \in {"intact", "torn"}
    BY <2>2 DEF Form, AllSent, IndInv, CopyInv
  <2>7. Form(Current) \in ToSession!Forms(Copies)
    BY <2>4, <2>5, <2>6 DEF ToSession!Forms
  <2> QED
    BY <2>1, <2>4, <2>7, Zenon DEF ToSession!Last, Copies
<1>5. ASSUME NEW t \in Threads, CompleteEarly(t) PROVE ToSession!Again
  <2>1. /\ UNCHANGED <<wire, length, handler>> /\ active /\ ~active' /\ wire # <<>>
        /\ AllSent /\ Current = Whole /\ handler = "waiting"
    BY <1>5, EarlyStep
  <2>2. AllSent'
    BY <2>1 DEF AllSent, Current
  <2>3. CopiesOut = Len(wire) - 1 /\ CopiesOut' = Len(wire)
    BY <2>1, <2>2 DEF CopiesOut
  <2>4. Copies' = Append(Copies, Form(Current))
    BY <2>1, <2>3, OneMore
  <2>5. Form(Current) = "intact"
    <3>1. Form(Whole) = "intact"
      BY WholeType DEF Form
    <3> QED
      BY <2>1, <3>1
  <2>6. Copies' = Append(Copies, "intact")
    BY <2>4, <2>5
  <2> QED
    BY <2>1, <2>6, Zenon DEF ToSession!Again, Copies
<1>6. ASSUME NEW t \in Threads, WriteError(t) PROVE ToSession!Fail
  <2>1. /\ UNCHANGED <<wire, length>> /\ active /\ ~active' /\ wire # <<>>
        /\ handler = "waiting" /\ handler' # "waiting"
    BY <1>6, EndStep
  <2>2. ~AllSent /\ ~AllSent'
    <3>1. Len(Current) \in Nat /\ length \in Nat /\ Len(Current) < length
      BY <1>6, <2>1, WireType DEF WriteError, IndInv, TypeOK
    <3> QED
      BY <2>1, <3>1 DEF AllSent, Current
  <2>3. CopiesOut = Len(wire) - 1 /\ CopiesOut' = Len(wire) - 1
    BY <2>1, <2>2 DEF CopiesOut
  <2>4. Copies' = Copies
    BY <2>1, <2>3 DEF Copies, Form, Whole
  <2> QED
    BY <2>1, <2>4, Zenon DEF ToSession!Fail, Copies
<1>7. Caller \in Threads
  BY DEF Threads
<1> QED
  BY <1>1, <1>2, <1>3, <1>4, <1>5, <1>6, <1>7, CallerStep
  DEF Next, Thread, vars, ToSession!Next

\* write_op, driven by several threads over data without a lock and a message
\* that ends too early, implements ResponseCopies.
THEOREM Refinement == Spec => ImplementsResponseCopies
<1>1. Init => ToSession!Init
  <2> SUFFICES ASSUME Init PROVE Copies = <<>> /\ Done = FALSE
    BY DEF ToSession!Init, Copies, Done
  <2>1. wire = <<>> /\ CopiesOut = 0
    BY DEF Init, CopiesOut
  <2> QED
    BY <2>1 DEF Init, Copies, Done
<1> QED
  BY <1>1, CopiesStep, Invariant, PTL
  DEF Spec, ToSession!Spec, ImplementsResponseCopies, Copies, Done
=============================================================================
