----------------------------- MODULE ClientIOProofs -----------------------------
(***************************************************************************)
(* Theorems about ClientIO.tla: about the replies, for every length of a   *)
(* reply and every room in the kernel; about the lines, for every size of  *)
(* the buffer and all that is typed.                                       *)
(***************************************************************************)
EXTENDS ClientIO, FoldProofs, FiniteSetTheorems

Latest == stream[Len(stream)]

(* The byte at which _send will go on: never behind the one that follows   *)
(* the last byte gone, and at the beginning if none of this reply is gone. *)
GoesOn ==
    /\ stream # <<>> => Latest[1] <= msg
    /\ (sending /\ sent > 0) => stream # <<>> /\ Latest[1] = msg /\ sent <= Latest[2]

(* The count arrives at -1 by a call that failed, and at the length of the *)
(* reply by one that took its last bytes.                                  *)
CountTells ==
    /\ (sending /\ sent = -1) => ret # "took"
    /\ (sending /\ sent = Length) => ret = "took" /\ Delivered

(* While no call failed, the count is the number of bytes gone.            *)
CountsGone ==
    (~blocked /\ ~broken) =>
        IF sending
        THEN /\ sent >= 0
             /\ sent = 0 => \/ stream = <<>> /\ msg = 1
                            \/ stream # <<>> /\ Latest = <<msg - 1, Length>>
             /\ sent > 0 => stream # <<>> /\ Latest = <<msg, sent>>
        ELSE \/ stream = <<>> /\ msg = 0
             \/ stream # <<>> /\ Latest = <<msg, Length>>

IInv ==
    /\ SendTypeOK
    /\ GoesOn
    /\ CountTells
    /\ CountsGone
    /\ RepliesIntact

(* What a step of ClientIO does to the variables of SendLoop.              *)
SendStep ==
    \/ StartSend
    \/ CallSend
    \/ EndSend
    \/ UserReads
    \/ Reset
    \/ UNCHANGED sendVars

LEMMA OnlySendSteps == [Next]_vars => SendStep
BY DEF Next, Program, User, vars, SendStep, ReadInput, BlankLine, Reply, Send,
       ReplyEnds, InputEnds

-------------------------------------------------------------------------------
(* Sequences.                                                              *)

LEMMA PieceType ==
    ASSUME msg \in Nat, NEW from \in 0..Length, NEW n \in 1..(Length - from)
    PROVE  /\ Piece(from, n) \in Seq(Nat \X (1..Length))
           /\ Len(Piece(from, n)) = n
           /\ \A i \in 1..n : Piece(from, n)[i] = <<msg, from + i>>
<1>1. Length \in Nat /\ n \in Nat
  BY SendAssumption
<1>2. \A i \in 1..n : from + i \in 1..Length
  BY <1>1
<1>3. Piece(from, n) \in [1..n -> Nat \X (1..Length)]
  BY <1>2 DEF Piece
<1> QED
  BY <1>1, <1>3 DEF Piece

LEMMA Concatenated ==
    ASSUME NEW S, NEW s \in Seq(S), NEW t \in Seq(S)
    PROVE  /\ s \o t \in Seq(S)
           /\ Len(s \o t) = Len(s) + Len(t)
           /\ Len(s) \in Nat /\ Len(t) \in Nat
           /\ \A i \in 1..Len(s) : (s \o t)[i] = s[i]
           /\ \A i \in 1..Len(t) : (s \o t)[Len(s) + i] = t[i]
           /\ Len(t) > 0 => s \o t # <<>>
           /\ s = <<>> <=> Len(s) = 0
OBVIOUS

-------------------------------------------------------------------------------

THEOREM InitInv == Init => IInv
<1> SUFFICES ASSUME Init PROVE IInv
  OBVIOUS
<1>1. SendInit
  BY DEF Init
<1>2. <<>> \in Seq(Nat \X (1..Length)) /\ Len(<<>>) = 0
  BY EmptySeq
<1>3. Length \in Nat /\ Length > 0
  BY SendAssumption
<1>4. SendTypeOK
  <2>1. stream \in Seq(Nat \X (1..Length)) /\ read \in 0..Len(stream)
    BY <1>1, <1>2 DEF SendInit
  <2>2. sent \in -1..Length /\ returned \in -1..Length
    BY <1>1, <1>3 DEF SendInit, NoCount
  <2>3. msg \in Nat /\ ret \in Outcomes
    BY <1>1 DEF SendInit, Outcomes
  <2>4. sending \in BOOLEAN /\ broken \in BOOLEAN /\ blocked \in BOOLEAN
    BY <1>1 DEF SendInit
  <2> QED
    BY <2>1, <2>2, <2>3, <2>4 DEF SendTypeOK
<1>5. GoesOn /\ CountTells /\ CountsGone
  BY <1>1 DEF SendInit, GoesOn, CountTells, CountsGone
<1>6. RepliesIntact
  BY <1>1, <1>2, <1>3 DEF SendInit, RepliesIntact, NothingSkipped, OnceEach, NoCount
<1> QED
  BY <1>4, <1>5, <1>6 DEF IInv

(* The kernel takes some of the bytes that are left.                       *)
LEMMA TakesInv ==
    ASSUME IInv, sending, ~LoopEnds, KernelTakes,
           UNCHANGED <<msg, sending, returned, read>>
    PROVE  IInv'
<1>1. PICK n \in 1..(Length - sent) : /\ stream' = stream \o Piece(sent, n)
                                     /\ sent' = sent + n
  BY DEF KernelTakes, Takes
<1>2. SendTypeOK /\ GoesOn /\ CountTells /\ CountsGone /\ RepliesIntact
  BY DEF IInv
<1>3. /\ Length \in Nat /\ Length > 0 /\ msg \in Nat
      /\ sent \in 0..Length /\ sent < Length
      /\ stream \in Seq(Nat \X (1..Length))
  BY <1>2, SendAssumption DEF SendTypeOK, LoopEnds
<1>4. n \in Nat /\ n >= 1 /\ sent + n <= Length
  BY <1>1, <1>3
<1> DEFINE p == Piece(sent, n)
           len == Len(stream)
<1>5. /\ p \in Seq(Nat \X (1..Length))
      /\ Len(p) = n
      /\ \A i \in 1..n : p[i] = <<msg, sent + i>>
  BY <1>3, PieceType
<1>6. /\ stream' \in Seq(Nat \X (1..Length))
      /\ Len(stream') = len + n /\ len \in Nat
      /\ \A i \in 1..len : stream'[i] = stream[i]
      /\ \A i \in 1..n : stream'[len + i] = <<msg, sent + i>>
      /\ stream' # <<>>
      /\ stream = <<>> <=> len = 0
  <2> HIDE DEF p
  <2>1. stream' = stream \o p
    BY <1>1 DEF p
  <2> DEFINE S == Nat \X (1..Length)
  <2>2. stream \in Seq(S) /\ p \in Seq(S)
    BY <1>3, <1>5
  <2> HIDE DEF S
  <2>3. /\ stream' \in Seq(S)
        /\ Len(stream') = Len(stream) + Len(p)
        /\ Len(stream) \in Nat
        /\ \A i \in 1..Len(stream) : stream'[i] = stream[i]
        /\ \A i \in 1..Len(p) : stream'[Len(stream) + i] = p[i]
        /\ Len(p) > 0 => stream' # <<>>
        /\ stream = <<>> <=> Len(stream) = 0
    BY <2>1, <2>2, Concatenated
  <2>4. Len(p) > 0
    BY <1>4, <1>5
  <2> QED
    BY <1>5, <2>3, <2>4 DEF S
<1> HIDE DEF p, len
<1>7. Latest' = <<msg, sent + n>> /\ msg' = msg /\ sending' = sending
  <2>1. stream'[len + n] = <<msg, sent + n>>
    BY <1>4, <1>6
  <2> QED
    BY <1>6, <2>1 DEF Latest
<1>8. SendTypeOK'
  <2>1. sent' \in -1..Length
    BY <1>1, <1>3, <1>4
  <2>2. read' \in 0..Len(stream')
    BY <1>2, <1>4, <1>6 DEF SendTypeOK, len
  <2>3. ret' \in Outcomes /\ UNCHANGED <<broken, blocked>>
    BY DEF KernelTakes, Outcomes
  <2> QED
    BY <1>2, <1>6, <2>1, <2>2, <2>3 DEF SendTypeOK
<1>9. GoesOn'
  BY <1>1, <1>3, <1>4, <1>6, <1>7 DEF GoesOn
<1>10. CountTells'
  <2>1. ret' = "took" /\ sent' # -1
    BY <1>1, <1>3, <1>4 DEF KernelTakes
  <2>2. sent' = Length => Delivered'
    BY <1>1, <1>6, <1>7 DEF Delivered, Latest
  <2> QED
    BY <2>1, <2>2 DEF CountTells
<1>11. CountsGone'
  BY <1>1, <1>3, <1>4, <1>6, <1>7 DEF CountsGone
(* The pairs of neighbours: old ones, the seam, and those of the piece.    *)
<1>12. ASSUME NEW i \in 1..(Len(stream') - 1)
       PROVE  \/ i \in 1..(len - 1)
              \/ i = len /\ len >= 1
              \/ \E j \in 1..(n - 1) : i = len + j
  <2>1. CASE i > len
    <3>1. i - len \in 1..(n - 1) /\ i = len + (i - len)
      BY <1>6, <2>1
    <3> QED
      BY <3>1
  <2>2. CASE i <= len
    BY <1>6, <2>2
  <2> QED
    BY <1>6, <2>1, <2>2
<1>13. ASSUME NEW j \in 1..(n - 1)
       PROVE  /\ stream'[len + j] = <<msg, sent + j>>
              /\ stream'[len + j + 1] = <<msg, sent + j + 1>>
              /\ sent + j < Length /\ sent + j \in Nat
  <2>1. j \in 1..n /\ j + 1 \in 1..n /\ j \in Nat /\ j < n
    BY <1>4
  <2>2. stream'[len + (j + 1)] = <<msg, sent + (j + 1)>>
    BY <1>6, <2>1
  <2>3. len + (j + 1) = len + j + 1 /\ sent + (j + 1) = sent + j + 1
    BY <1>3, <1>6, <2>1
  <2>4. sent + j < Length /\ sent + j \in Nat
    BY <1>3, <1>4, <2>1
  <2>5. stream'[len + j] = <<msg, sent + j>>
    BY <1>6, <2>1
  <2> QED
    BY <2>2, <2>3, <2>4, <2>5
<1>14. /\ stream'[len + 1] = <<msg, sent + 1>>
       /\ len >= 1 => stream'[len] = Latest
  BY <1>4, <1>6 DEF Latest, len
<1>15. NothingSkipped'
  <2>1. stream'[1][2] = 1
    <3>1. CASE len = 0
      <4>1. sent = 0
        BY <1>2, <1>3, <1>6, <3>1 DEF GoesOn
      <4> QED
        BY <1>6, <1>14, <3>1, <4>1
    <3>2. CASE len > 0
      BY <1>2, <1>6, <3>2 DEF RepliesIntact, NothingSkipped
    <3> QED
      BY <1>6, <3>1, <3>2
  <2>2. ASSUME NEW i \in 1..(Len(stream') - 1)
        PROVE  NoGap(stream'[i], stream'[i + 1])
    <3>1. CASE i \in 1..(len - 1)
      <4>1. NoGap(stream[i], stream[i + 1])
        BY <1>2, <3>1 DEF RepliesIntact, NothingSkipped, len
      <4>2. stream'[i] = stream[i] /\ stream'[i + 1] = stream[i + 1]
        BY <1>6, <3>1
      <4> QED
        BY <4>1, <4>2
    <3>2. CASE i = len /\ len >= 1
      <4>1. NoGap(Latest, <<msg, sent + 1>>)
        <5>1. Latest[1] \in Nat /\ Latest[2] \in 1..Length
          <6>1. Latest \in Nat \X (1..Length)
            BY <1>3, <1>6, <3>2 DEF Latest, len
          <6> QED
            BY <6>1
        <5>2. Latest[1] <= msg /\ (sent > 0 => Latest[1] = msg /\ sent <= Latest[2])
          BY <1>2, <1>6, <3>2 DEF GoesOn
        <5>3. CASE Latest[1] = msg
          <6>1. sent + 1 <= Latest[2] + 1
            BY <1>3, <5>1, <5>2
          <6> QED
            BY <5>3, <6>1 DEF NoGap
        <5>4. CASE Latest[1] # msg
          <6>1. msg > Latest[1] /\ sent + 1 = 1
            BY <1>3, <5>1, <5>2, <5>4
          <6> QED
            BY <6>1 DEF NoGap
        <5> QED
          BY <5>3, <5>4
      <4> QED
        BY <1>14, <3>2, <4>1
    <3>3. CASE \E j \in 1..(n - 1) : i = len + j
      <4>1. PICK j \in 1..(n - 1) : i = len + j
        BY <3>3
      <4> QED
        BY <1>13, <4>1 DEF NoGap
    <3> QED
      BY <1>12, <3>1, <3>2, <3>3
  <2> QED
    BY <2>1, <2>2 DEF NothingSkipped
<1>16. ~blocked' => OnceEach'
  <2> SUFFICES ASSUME ~blocked PROVE OnceEach'
    BY DEF KernelTakes
  <2>0. ~broken
    BY DEF KernelTakes
  <2>1. stream'[1] = <<1, 1>>
    <3>1. CASE len = 0
      <4>1. sent = 0 /\ msg = 1
        BY <1>2, <1>3, <1>6, <2>0, <3>1 DEF CountsGone
      <4> QED
        BY <1>14, <3>1, <4>1
    <3>2. CASE len > 0
      BY <1>2, <1>6, <3>2 DEF RepliesIntact, OnceEach
    <3> QED
      BY <1>6, <3>1, <3>2
  <2>2. ASSUME NEW i \in 1..(Len(stream') - 1)
        PROVE  Successor(stream'[i], stream'[i + 1])
    <3>1. CASE i \in 1..(len - 1)
      <4>1. Successor(stream[i], stream[i + 1])
        BY <1>2, <3>1 DEF RepliesIntact, OnceEach, len
      <4>2. stream'[i] = stream[i] /\ stream'[i + 1] = stream[i + 1]
        BY <1>6, <3>1
      <4> QED
        BY <4>1, <4>2
    <3>2. CASE i = len /\ len >= 1
      <4>1. \/ sent = 0 /\ Latest = <<msg - 1, Length>>
            \/ sent > 0 /\ Latest = <<msg, sent>>
        BY <1>2, <1>3, <1>6, <2>0, <3>2 DEF CountsGone
      <4>2. Successor(Latest, <<msg, sent + 1>>)
        BY <1>3, <4>1 DEF Successor
      <4> QED
        BY <1>14, <3>2, <4>2
    <3>3. CASE \E j \in 1..(n - 1) : i = len + j
      <4>1. PICK j \in 1..(n - 1) : i = len + j
        BY <3>3
      <4> QED
        BY <1>13, <4>1 DEF Successor
    <3> QED
      BY <1>12, <3>1, <3>2, <3>3
  <2> QED
    BY <2>1, <2>2 DEF OnceEach
<1>17. RepliesIntact'
  BY <1>7, <1>15, <1>16 DEF RepliesIntact
<1> QED
  BY <1>8, <1>9, <1>10, <1>11, <1>17 DEF IInv

(* A call fails: the count moves back by one, and nothing is sent.         *)
LEMMA TakesBackInv ==
    ASSUME IInv, sending, ~LoopEnds, WouldBlock \/ SendError,
           UNCHANGED <<msg, sending, returned, read>>
    PROVE  IInv'
<1>1. SendTypeOK /\ GoesOn /\ CountTells /\ CountsGone /\ RepliesIntact
  BY DEF IInv
<1>2. /\ sent' = sent - 1 /\ ret' # "took" /\ ret' \in Outcomes
      /\ UNCHANGED <<stream, broken>>
      /\ blocked' \in BOOLEAN /\ (blocked => blocked')
      /\ blocked' \/ broken'
  BY <1>1 DEF WouldBlock, SendError, TakeBack, Outcomes, SendTypeOK
<1>3. Length \in Nat /\ Length > 0 /\ sent \in 0..Length /\ sent < Length
  BY <1>1, SendAssumption DEF SendTypeOK, LoopEnds
<1>4. sent' \in -1..Length /\ sent' < Length
  BY <1>2, <1>3
<1>5. SendTypeOK'
  BY <1>1, <1>2, <1>4 DEF SendTypeOK
<1>6. GoesOn'
  <2>1. Latest' = Latest
    BY <1>2 DEF Latest
  <2>2. ASSUME sent' > 0
        PROVE  stream # <<>> /\ Latest[1] = msg /\ sent' <= Latest[2]
    <3>1. sent > 0
      BY <1>2, <1>3, <2>2
    <3>2. stream # <<>> /\ Latest[1] = msg /\ sent <= Latest[2]
      BY <1>1, <3>1 DEF GoesOn
    <3>3. Latest[2] \in Int
      <4>1. stream \in Seq(Nat \X (1..Length))
        BY <1>1 DEF SendTypeOK
      <4>2. Latest \in Nat \X (1..Length)
        BY <3>2, <4>1 DEF Latest
      <4> QED
        BY <4>2
    <3> QED
      BY <1>2, <1>3, <3>2, <3>3
  <2> QED
    BY <1>1, <1>2, <2>1, <2>2 DEF GoesOn
<1>7. CountTells'
  BY <1>2, <1>3, <1>4 DEF CountTells
<1>8. CountsGone'
  BY <1>2 DEF CountsGone
<1>9. RepliesIntact'
  <2>1. NothingSkipped'
    BY <1>1, <1>2 DEF RepliesIntact, NothingSkipped
  <2>2. ~blocked' => OnceEach'
    BY <1>1, <1>2 DEF RepliesIntact, OnceEach
  <2> QED
    BY <2>1, <2>2 DEF RepliesIntact
<1> QED
  BY <1>5, <1>6, <1>7, <1>8, <1>9 DEF IInv

THEOREM NextInv == IInv /\ [Next]_vars => IInv'
<1> SUFFICES ASSUME IInv, SendStep PROVE IInv'
  BY OnlySendSteps
<1>0. SendTypeOK /\ GoesOn /\ CountTells /\ CountsGone /\ RepliesIntact
  BY DEF IInv
<1>range. Length \in Nat /\ Length > 0 /\ msg \in Nat
  BY <1>0, SendAssumption DEF SendTypeOK
<1>1. CASE StartSend
  <2>1. /\ sending' = TRUE /\ msg' = msg + 1 /\ sent' = 0 /\ ~sending
        /\ UNCHANGED <<ret, returned, stream, read, broken, blocked>>
    BY <1>1 DEF StartSend
  <2>2. SendTypeOK'
    BY <1>0, <1>range, <2>1 DEF SendTypeOK
  <2>3. GoesOn'
    <3>1. stream # <<>> => Latest[1] \in Nat
      <4> SUFFICES ASSUME stream # <<>> PROVE Latest[1] \in Nat
        OBVIOUS
      <4>1. stream \in Seq(Nat \X (1..Length))
        BY <1>0 DEF SendTypeOK
      <4>2. Latest \in Nat \X (1..Length)
        BY <4>1 DEF Latest
      <4> QED
        BY <4>2
    <3>2. Latest' = Latest
      BY <2>1 DEF Latest
    <3> QED
      BY <1>0, <1>range, <2>1, <3>1, <3>2 DEF GoesOn
  <2>4. CountTells'
    BY <1>range, <2>1 DEF CountTells
  <2>5. CountsGone'
    <3>1. Latest' = Latest /\ msg' - 1 = msg
      BY <1>range, <2>1 DEF Latest
    <3> QED
      BY <1>0, <1>range, <2>1, <3>1 DEF CountsGone
  <2>6. RepliesIntact'
    BY <1>0, <2>1 DEF RepliesIntact, NothingSkipped, OnceEach
  <2> QED
    BY <2>2, <2>3, <2>4, <2>5, <2>6 DEF IInv
<1>2. CASE CallSend
  BY <1>2, TakesInv, TakesBackInv DEF CallSend
<1>3. CASE EndSend
  <2>1. /\ sending /\ sending' = FALSE
        /\ UNCHANGED <<msg, sent, ret, stream, read, broken, blocked>>
        /\ ret \in {"took", "again", "error"}
        /\ sent \in {Length, -1}
        /\ returned' = CASE ret = "took"  -> sent
                         [] ret = "again" -> sent + 1
                         [] ret = "error" -> NoCount
    BY <1>0, <1>3 DEF EndSend, SendTypeOK, Outcomes, LoopEnds
  <2>2. \/ ret = "took" /\ sent = Length /\ Delivered /\ returned' = Length
        \/ ret # "took" /\ sent = -1 /\ returned' \in {0, -1}
    <3>1. CASE ret = "took"
      <4>1. sent = Length /\ Delivered
        BY <1>0, <2>1, <3>1 DEF CountTells
      <4> QED
        BY <2>1, <3>1, <4>1
    <3>2. CASE ret # "took"
      <4>1. sent = -1
        BY <1>0, <2>1, <3>2 DEF CountTells
      <4>2. CASE ret = "again"
        BY <2>1, <4>1, <4>2
      <4>3. CASE ret = "error"
        BY <2>1, <4>1, <4>3 DEF NoCount
      <4> QED
        BY <2>1, <3>2, <4>1, <4>2, <4>3
    <3> QED
      BY <3>1, <3>2
  <2>3. SendTypeOK'
    <3>1. returned' \in -1..Length
      BY <1>range, <2>2
    <3> QED
      BY <1>0, <2>1, <3>1 DEF SendTypeOK
  <2>4. GoesOn' /\ CountTells'
    BY <1>0, <2>1 DEF GoesOn, CountTells, Latest
  <2>5. CountsGone'
    <3>1. ASSUME ~blocked, ~broken PROVE stream # <<>> /\ Latest = <<msg, Length>>
      <4>1. sent = Length /\ sent > 0
        BY <1>0, <1>range, <2>1, <2>2, <3>1 DEF CountsGone
      <4> QED
        BY <1>0, <2>1, <3>1, <4>1 DEF CountsGone
    <3>2. Latest' = Latest
      BY <2>1 DEF Latest
    <3> QED
      BY <2>1, <3>1, <3>2 DEF CountsGone
  <2>6. RepliesIntact'
    <3>1. returned' = Length => Delivered'
      BY <1>range, <2>1, <2>2 DEF Delivered
    <3> QED
      BY <1>0, <2>1, <3>1 DEF RepliesIntact, NothingSkipped, OnceEach
  <2> QED
    BY <2>3, <2>4, <2>5, <2>6 DEF IInv
<1>4. CASE UserReads
  <2>1. read' \in 0..Len(stream)
    <3>1. Len(stream) \in Nat
      BY <1>0 DEF SendTypeOK
    <3> QED
      BY <1>0, <1>4, <3>1 DEF UserReads, SendTypeOK
  <2>2. UNCHANGED <<msg, sending, sent, ret, returned, stream, broken, blocked>>
    BY <1>4 DEF UserReads
  <2>3. SendTypeOK'
    BY <1>0, <2>1, <2>2 DEF SendTypeOK
  <2>4. GoesOn' /\ CountTells' /\ CountsGone' /\ RepliesIntact'
    BY <1>0, <2>2 DEF GoesOn, CountTells, CountsGone, RepliesIntact, Latest,
                      Delivered, NothingSkipped, OnceEach
  <2> QED
    BY <2>3, <2>4 DEF IInv
<1>5. CASE Reset
  <2>1. /\ ~broken /\ broken' = TRUE
        /\ UNCHANGED <<msg, sending, sent, ret, returned, stream, read, blocked>>
    BY <1>5 DEF Reset
  <2>2. SendTypeOK'
    BY <1>0, <2>1 DEF SendTypeOK
  <2>3. GoesOn' /\ CountTells' /\ CountsGone' /\ RepliesIntact'
    BY <1>0, <2>1 DEF GoesOn, CountTells, CountsGone, RepliesIntact, Latest,
                      Delivered, NothingSkipped, OnceEach
  <2> QED
    BY <2>2, <2>3 DEF IInv
<1>6. CASE UNCHANGED sendVars
  BY <1>0, <1>6 DEF sendVars, IInv, SendTypeOK, GoesOn, CountTells, CountsGone,
     RepliesIntact, Latest, Delivered, NothingSkipped, OnceEach
<1> QED
  BY <1>1, <1>2, <1>3, <1>4, <1>5, <1>6 DEF SendStep

THEOREM Invariance == Spec => []IInv
<1> QED
  BY InitInv, NextInv, PTL DEF Spec

(* Whatever pieces the kernel takes, however the user reads and whenever    *)
(* the connection breaks, _send skips no byte of a reply, reports a reply  *)
(* as sent only when it is there to its end, and sends every byte once if  *)
(* no call would have blocked.                                             *)
THEOREM RepliesStayIntact == Spec => []RepliesIntact
<1>1. IInv => RepliesIntact
  BY DEF IInv
<1> QED
  BY <1>1, Invariance, PTL

-------------------------------------------------------------------------------
(* The lines.  First what the folds of ClientLines compute, byte by byte.  *)

ScanState == [lines : Seq(Seq(Bytes)), line : Seq(Bytes)]
ScanBegin == [lines |-> <<>>, line |-> <<>>]

LEMMA ScanByteType ==
    ASSUME NEW s \in ScanState, NEW b \in Bytes
    PROVE  ScanByte(s, b) \in ScanState
<1>1. s.lines \in Seq(Seq(Bytes)) /\ s.line \in Seq(Bytes)
  BY DEF ScanState
<1>2. Append(s.lines, s.line) \in Seq(Seq(Bytes)) /\ Append(s.line, b) \in Seq(Bytes)
  BY <1>1, AppendProperties
<1>3. <<>> \in Seq(Bytes)
  BY EmptySeq
<1>. QED  BY <1>1, <1>2, <1>3 DEF ScanByte, NewLine, ScanState

\* There is a function that holds the state of the scan after each byte.
LEMMA ScanSteps ==
    ASSUME NEW s \in Seq(Bytes)
    PROVE  \E f \in [0..Len(s) -> ScanState] :
              /\ f[0] = ScanBegin
              /\ \A i \in 1..Len(s) : f[i] = ScanByte(f[i - 1], s[i])
              /\ Scan(s) = f[Len(s)].lines
<1>. DEFINE G == [p \in ScanState \X Bytes |-> ScanByte(p[1], p[2])]
            Eq(it) == it = [T \in SUBSET DOMAIN s |->
                               IF T = {} THEN ScanBegin
                               ELSE ScanByte(it[T \ {Max(T)}], s[Max(T)])]
            c == CHOOSE it : Eq(it)
<1>1. /\ Len(s) \in Nat /\ DOMAIN s = 1..Len(s)
      /\ \A i \in 1..Len(s) : s[i] \in Bytes
  BY LenProperties, ElementOfSeq
<1>2. ScanBegin \in ScanState
  BY EmptySeq DEF ScanBegin, ScanState
<1>3. G \in [ScanState \X Bytes -> ScanState]
  BY ScanByteType
<1>4. \A a \in ScanState, b \in Bytes : G[<<a, b>>] = ScanByte(a, b)
  OBVIOUS
<1>. HIDE DEF G
<1>5. \E it : Eq(it)
  <2>1. PICK it \in [SUBSET (1..Len(s)) -> ScanState] : Iterates(it, G, ScanBegin, s, Len(s))
    BY <1>2, <1>3, IterationExists
  <2>2. ASSUME NEW T \in SUBSET (1..Len(s)), T # {}
        PROVE  G[<<it[T \ {Max(T)}], s[Max(T)]>>] = ScanByte(it[T \ {Max(T)}], s[Max(T)])
    <3>1. Max(T) \in T
      BY <1>1, <2>2, MaxOfSet
    <3>. QED  BY <1>1, <1>4, <2>1, <3>1
  <2>3. Eq(it)
    BY <1>1, <2>1, <2>2 DEF Iterates
  <2>. QED  BY <2>3
<1>6. Eq(c)
  BY <1>5
<1>7. Scan(s) = c[DOMAIN s].lines
  BY Zenon DEF Scan, FoldLeft, MapThenFoldSet, ScanBegin
<1>. HIDE DEF c
<1>8. FoldsAs(c, ScanState, Bytes, G, ScanBegin, s)
  <2>1. ASSUME NEW T \in SUBSET (1..Len(s)), T # {}, c[T \ {Max(T)}] \in ScanState
        PROVE  c[T] = G[<<c[T \ {Max(T)}], s[Max(T)]>>]
    <3>1. Max(T) \in T
      BY <1>1, <2>1, MaxOfSet
    <3>2. c[T] = ScanByte(c[T \ {Max(T)}], s[Max(T)])
      BY <1>1, <1>6, <2>1
    <3>. QED  BY <1>1, <1>4, <2>1, <3>1, <3>2
  <2>. QED  BY <1>2, <1>1, <1>3, <1>6, <2>1 DEF FoldsAs
<1>. HIDE DEF Eq
<1>9. PICK f \in [0..Len(s) -> ScanState] :
          /\ f[0] = ScanBegin
          /\ \A i \in 1..Len(s) : f[i] = G[<<f[i - 1], s[i]>>]
          /\ f[Len(s)] = c[1..Len(s)]
  BY <1>8, FoldRuns
<1>10. ASSUME NEW i \in 1..Len(s) PROVE f[i] = ScanByte(f[i - 1], s[i])
  <2>1. f[i - 1] \in ScanState
    BY <1>1, <1>9
  <2>. QED  BY <1>1, <1>4, <1>9, <2>1
<1>. QED  BY <1>1, <1>7, <1>9, <1>10

LEMMA LessCRType ==
    ASSUME NEW s \in Seq(Bytes), NEW b \in Bytes
    PROVE  LessCR(s, b) \in Seq(Bytes)
BY AppendProperties DEF LessCR

LEMMA LessCRSteps ==
    ASSUME NEW s \in Seq(Bytes)
    PROVE  \E f \in [0..Len(s) -> Seq(Bytes)] :
              /\ f[0] = <<>>
              /\ \A i \in 1..Len(s) : f[i] = LessCR(f[i - 1], s[i])
              /\ FoldLeft(LessCR, <<>>, s) = f[Len(s)]
<1>. DEFINE G == [p \in Seq(Bytes) \X Bytes |-> LessCR(p[1], p[2])]
            Eq(it) == it = [T \in SUBSET DOMAIN s |->
                               IF T = {} THEN <<>>
                               ELSE LessCR(it[T \ {Max(T)}], s[Max(T)])]
            c == CHOOSE it : Eq(it)
<1>1. /\ Len(s) \in Nat /\ DOMAIN s = 1..Len(s)
      /\ \A i \in 1..Len(s) : s[i] \in Bytes
  BY LenProperties, ElementOfSeq
<1>2. <<>> \in Seq(Bytes)
  BY EmptySeq
<1>3. G \in [Seq(Bytes) \X Bytes -> Seq(Bytes)]
  BY LessCRType
<1>4. \A a \in Seq(Bytes), b \in Bytes : G[<<a, b>>] = LessCR(a, b)
  OBVIOUS
<1>. HIDE DEF G
<1>5. \E it : Eq(it)
  <2>1. PICK it \in [SUBSET (1..Len(s)) -> Seq(Bytes)] : Iterates(it, G, <<>>, s, Len(s))
    BY <1>2, <1>3, IterationExists
  <2>2. ASSUME NEW T \in SUBSET (1..Len(s)), T # {}
        PROVE  G[<<it[T \ {Max(T)}], s[Max(T)]>>] = LessCR(it[T \ {Max(T)}], s[Max(T)])
    <3>1. Max(T) \in T
      BY <1>1, <2>2, MaxOfSet
    <3>. QED  BY <1>1, <1>4, <2>1, <3>1
  <2>3. Eq(it)
    BY <1>1, <2>1, <2>2 DEF Iterates
  <2>. QED  BY <2>3
<1>6. Eq(c)
  BY <1>5
<1>7. FoldLeft(LessCR, <<>>, s) = c[DOMAIN s]
  BY Zenon DEF FoldLeft, MapThenFoldSet
<1>. HIDE DEF c
<1>8. FoldsAs(c, Seq(Bytes), Bytes, G, <<>>, s)
  <2>1. ASSUME NEW T \in SUBSET (1..Len(s)), T # {}, c[T \ {Max(T)}] \in Seq(Bytes)
        PROVE  c[T] = G[<<c[T \ {Max(T)}], s[Max(T)]>>]
    <3>1. Max(T) \in T
      BY <1>1, <2>1, MaxOfSet
    <3>2. c[T] = LessCR(c[T \ {Max(T)}], s[Max(T)])
      BY <1>1, <1>6, <2>1
    <3>. QED  BY <1>1, <1>4, <2>1, <3>1, <3>2
  <2>. QED  BY <1>2, <1>1, <1>3, <1>6, <2>1 DEF FoldsAs
<1>. HIDE DEF Eq
<1>9. PICK f \in [0..Len(s) -> Seq(Bytes)] :
          /\ f[0] = <<>>
          /\ \A i \in 1..Len(s) : f[i] = G[<<f[i - 1], s[i]>>]
          /\ f[Len(s)] = c[1..Len(s)]
  BY <1>8, FoldRuns
<1>10. ASSUME NEW i \in 1..Len(s) PROVE f[i] = LessCR(f[i - 1], s[i])
  <2>1. f[i - 1] \in Seq(Bytes)
    BY <1>1, <1>9
  <2>. QED  BY <1>1, <1>4, <1>9, <2>1
<1>. QED  BY <1>1, <1>7, <1>9, <1>10

-------------------------------------------------------------------------------
(* The scan for telnet codes leaves what is before the first code alone.   *)

\* x begins with the first k bytes of buf, and is buf if these are all.
Keeps(buf, k, x) ==
    /\ k <= Len(x)
    /\ \A j \in 1..k : x[j] = buf[j]
    /\ k = Len(buf) => x = buf

LEMMA StripAtKeeps ==
    ASSUME NEW buf \in Seq(Bytes), NEW k \in Nat, k <= Len(buf),
           \A j \in 1..k : buf[j] # IAC,
           NEW x \in Seq(Bytes), Keeps(buf, k, x), NEW i \in Nat \ {0}
    PROVE  StripAt(x, i) \in Seq(Bytes) /\ Keeps(buf, k, StripAt(x, i))
<1>1. Len(x) \in Nat /\ Len(buf) \in Nat /\ \A j \in 1..Len(x) : x[j] \in Bytes
  BY LenProperties, ElementOfSeq
<1>2. CASE i > Len(x) \/ x[i] # IAC
  BY <1>2 DEF StripAt
<1>. SUFFICES ASSUME i <= Len(x), x[i] = IAC
              PROVE  StripAt(x, i) \in Seq(Bytes) /\ Keeps(buf, k, StripAt(x, i))
  BY <1>1, <1>2
<1>3. k < i /\ k # Len(buf)
  <2>1. k < i
    BY <1>1 DEF Keeps
  <2>2. k # Len(buf)
    BY <1>1, <2>1 DEF Keeps
  <2>. QED  BY <2>1, <2>2
<1>4. CASE Len(x) - i + 1 >= 3
  <2>. DEFINE y == [j \in 1..(Len(x) - 3) |-> IF j \in i..(i + 2) THEN x[j + 3] ELSE x[j]]
  <2>1. StripAt(x, i) = y
    BY <1>1, <1>4 DEF StripAt
  <2>2. Len(x) - 3 \in Nat /\ k <= Len(x) - 3
    BY <1>1, <1>3, <1>4
  <2>3. \A j \in 1..(Len(x) - 3) : y[j] \in Bytes
    BY <1>1, <1>4
  <2>4. y \in Seq(Bytes) /\ Len(y) = Len(x) - 3
    BY <2>2, <2>3
  <2>5. \A j \in 1..k : y[j] = x[j]
    BY <1>3, <2>2
  <2>. HIDE DEF y
  <2>6. Keeps(buf, k, y)
    BY <1>3, <2>2, <2>4, <2>5 DEF Keeps
  <2>. QED  BY <2>1, <2>4, <2>6
<1>5. CASE ~(Len(x) - i + 1 >= 3)
  <2>1. StripAt(x, i) = SubSeq(x, 1, i - 1)
    BY <1>1, <1>5 DEF StripAt
  <2>2. i - 1 \in 0..Len(x) /\ k <= i - 1
    BY <1>1, <1>3
  <2>3. /\ SubSeq(x, 1, i - 1) \in Seq(Bytes)
        /\ Len(SubSeq(x, 1, i - 1)) = i - 1
        /\ \A j \in 1..(i - 1) : SubSeq(x, 1, i - 1)[j] = x[j]
    BY <1>1, <2>2
  <2>4. Keeps(buf, k, SubSeq(x, 1, i - 1))
    BY <1>3, <2>2, <2>3 DEF Keeps
  <2>. QED  BY <2>1, <2>3, <2>4
<1>. QED  BY <1>4, <1>5

\* What Strip does to a buffer whose first k bytes hold no code.
LEMMA StripKeeps ==
    ASSUME NEW buf \in Seq(Bytes), NEW k \in Nat, k <= Len(buf),
           \A j \in 1..k : buf[j] # IAC
    PROVE  LET x == FoldLeft(StripAt, buf, [i \in DOMAIN buf |-> i])
           IN  x \in Seq(Bytes) /\ Keeps(buf, k, x)
<1>. DEFINE A == {x \in Seq(Bytes) : Keeps(buf, k, x)}
            B == Nat \ {0}
            G == [p \in A \X B |-> StripAt(p[1], p[2])]
            s == [i \in DOMAIN buf |-> i]
            Eq(it) == it = [T \in SUBSET DOMAIN s |->
                               IF T = {} THEN buf
                               ELSE StripAt(it[T \ {Max(T)}], s[Max(T)])]
            c == CHOOSE it : Eq(it)
<1>1. /\ Len(buf) \in Nat /\ DOMAIN buf = 1..Len(buf)
  BY LenProperties
<1>2. /\ s \in Seq(B) /\ Len(s) = Len(buf) /\ DOMAIN s = 1..Len(s)
      /\ \A i \in 1..Len(s) : s[i] \in B
  BY <1>1
<1>0. Len(s) \in Nat /\ DOMAIN s = 1..Len(s)
  BY <1>1, <1>2
<1>3. buf \in A
  BY <1>1 DEF Keeps
<1>4. G \in [A \X B -> A]
  BY StripAtKeeps
<1>5. \A a \in A, b \in B : G[<<a, b>>] = StripAt(a, b)
  OBVIOUS
<1>6. FoldLeft(StripAt, buf, s) = c[DOMAIN s]
  BY Zenon DEF FoldLeft, MapThenFoldSet
<1>. HIDE DEF G, A, B, s
<1>7. \E it : Eq(it)
  <2>1. PICK it \in [SUBSET (1..Len(s)) -> A] : Iterates(it, G, buf, s, Len(s))
    BY <1>2, <1>3, <1>4, IterationExists
  <2>2. ASSUME NEW T \in SUBSET (1..Len(s)), T # {}
        PROVE  G[<<it[T \ {Max(T)}], s[Max(T)]>>] = StripAt(it[T \ {Max(T)}], s[Max(T)])
    <3>1. Max(T) \in T
      BY <1>1, <1>2, <2>2, MaxOfSet
    <3>. QED  BY <1>2, <1>5, <2>1, <3>1
  <2>3. Eq(it)
    BY <1>2, <2>1, <2>2 DEF Iterates
  <2>. QED  BY <2>3
<1>8. Eq(c)
  BY <1>7
<1>. HIDE DEF c
<1>9. FoldsAs(c, A, B, G, buf, s)
  <2>1. ASSUME NEW T \in SUBSET (1..Len(s)), T # {}, c[T \ {Max(T)}] \in A
        PROVE  c[T] = G[<<c[T \ {Max(T)}], s[Max(T)]>>]
    <3>1. Max(T) \in T
      BY <1>0, <2>1, MaxOfSet
    <3>2. c[T] = StripAt(c[T \ {Max(T)}], s[Max(T)])
      BY <1>0, <1>8, <2>1
    <3>. QED  BY <1>2, <1>5, <2>1, <3>1, <3>2
  <2>. QED  BY <1>0, <1>2, <1>3, <1>4, <1>8, <2>1 DEF FoldsAs
<1>. HIDE DEF Eq
<1>10. PICK f \in [0..Len(s) -> A] : f[Len(s)] = c[1..Len(s)]
  BY <1>9, FoldRuns
<1>11. c[1..Len(s)] \in A
  BY <1>0, <1>10
<1>. QED  BY <1>2, <1>6, <1>11 DEF A, s

-------------------------------------------------------------------------------
(* The parts of EveryLineOnce, of an input that is given.                  *)

EndsIn(text, n) == {p \in Places(text, LF) : p <= n}
CountIn(text, n) == Cardinality(EndsIn(text, n))
LineIn(text, a, p) == FoldLeft(LessCR, <<>>, SubSeq(text, a, p - 1))
BeginningIn(text, p) == Max({0} \cup {q \in Places(text, LF) : q < p}) + 1
LastCutIn(text, cs, p) == Max({BeginningIn(text, p) - 1} \cup {q \in cs : q < p}) + 1

LEMMA CountStarts == \A text \in Seq(Bytes) : CountIn(text, 0) = 0
<1>. TAKE text \in Seq(Bytes)
<1>1. EndsIn(text, 0) = {}
  BY LenProperties DEF EndsIn, Places
<1>. QED  BY <1>1, FS_EmptySet DEF CountIn

LEMMA EndsAreFinite ==
    ASSUME NEW text \in Seq(Bytes), NEW n \in Nat
    PROVE  IsFiniteSet(EndsIn(text, n)) /\ CountIn(text, n) \in Nat
<1>1. EndsIn(text, n) \subseteq 1..n /\ IsFiniteSet(1..n)
  <2>1. IsFiniteSet(1..n)
    BY FS_Interval
  <2>2. EndsIn(text, n) \subseteq 1..n
    BY LenProperties DEF EndsIn, Places
  <2>. QED  BY <2>1, <2>2
<1>2. IsFiniteSet(EndsIn(text, n))
  BY <1>1, FS_Subset
<1>. QED  BY <1>2, FS_CardinalityType DEF CountIn

LEMMA CountSteps ==
    ASSUME NEW text \in Seq(Bytes), NEW n \in Nat, n < Len(text)
    PROVE  CountIn(text, n + 1) = CountIn(text, n) + (IF text[n + 1] = LF THEN 1 ELSE 0)
<1>1. IsFiniteSet(EndsIn(text, n)) /\ CountIn(text, n) \in Nat
  BY EndsAreFinite
<1>2. DOMAIN text = 1..Len(text) /\ Len(text) \in Nat
  BY LenProperties
<1>3. CASE text[n + 1] = LF
  <2>1. EndsIn(text, n + 1) = EndsIn(text, n) \cup {n + 1} /\ n + 1 \notin EndsIn(text, n)
    BY <1>2, <1>3 DEF EndsIn, Places
  <2>. QED  BY <1>1, <1>3, <2>1, FS_AddElement DEF CountIn
<1>4. CASE text[n + 1] # LF
  <2>1. EndsIn(text, n + 1) = EndsIn(text, n)
    BY <1>2, <1>4 DEF EndsIn, Places
  <2>. QED  BY <1>1, <1>4, <2>1 DEF CountIn
<1>. QED  BY <1>3, <1>4

LEMMA CountGrows ==
    ASSUME NEW text \in Seq(Bytes), NEW m \in Nat, NEW n \in Nat, m <= n
    PROVE  CountIn(text, m) <= CountIn(text, n)
<1>1. EndsIn(text, m) \subseteq EndsIn(text, n)
  BY LenProperties DEF EndsIn, Places
<1>2. IsFiniteSet(EndsIn(text, n))
  BY EndsAreFinite
<1>. QED  BY <1>1, <1>2, FS_Subset DEF CountIn

\* An end is counted.
LEMMA EndCounts ==
    ASSUME NEW text \in Seq(Bytes), NEW p \in Nat \ {0}, p <= Len(text), text[p] = LF
    PROVE  CountIn(text, p) = CountIn(text, p - 1) + 1
<1>1. p - 1 \in Nat /\ p - 1 < Len(text) /\ (p - 1) + 1 = p
  BY LenProperties
<1>. QED  BY <1>1, CountSteps

LEMMA LinesBegin == \A text \in Seq(Bytes) : \A a \in Nat : LineIn(text, a, a) = <<>>
<1>. TAKE text \in Seq(Bytes), a \in Nat
<1>1. SubSeq(text, a, a - 1) = <<>>
  OBVIOUS
<1>2. <<>> \in Seq(Bytes) /\ Len(<<>>) = 0
  BY EmptySeq
<1>3. PICK f \in [0..0 -> Seq(Bytes)] : f[0] = <<>> /\ FoldLeft(LessCR, <<>>, <<>>) = f[0]
  BY <1>2, LessCRSteps
<1>. QED  BY <1>1, <1>3 DEF LineIn

\* The line from a on grows by the byte at p.
LEMMA LineGrows ==
    ASSUME NEW text \in Seq(Bytes), NEW a \in Nat \ {0}, NEW p \in Nat,
           a <= p, p <= Len(text)
    PROVE  /\ LineIn(text, a, p) \in Seq(Bytes)
           /\ LineIn(text, a, p + 1) = LessCR(LineIn(text, a, p), text[p])
<1>. DEFINE n == p - a
            s == SubSeq(text, a, p - 1)
            t == SubSeq(text, a, p)
<1>1. Len(text) \in Nat /\ n \in Nat
  BY LenProperties
<1>2. /\ s \in Seq(Bytes) /\ Len(s) = n
      /\ \A i \in 1..n : s[i] = text[a + i - 1]
  BY <1>1
<1>3. /\ t \in Seq(Bytes) /\ Len(t) = n + 1
      /\ \A i \in 1..(n + 1) : t[i] = text[a + i - 1]
  BY <1>1
<1>4. /\ LineIn(text, a, p) = FoldLeft(LessCR, <<>>, s)
      /\ LineIn(text, a, p + 1) = FoldLeft(LessCR, <<>>, t)
  <2>1. (p + 1) - 1 = p
    OBVIOUS
  <2>. QED  BY <2>1 DEF LineIn
<1>5. t[n + 1] = text[p] /\ \A i \in 1..n : t[i] = s[i]
  BY <1>1, <1>2, <1>3
<1>. HIDE DEF s, t
<1>6. PICK f \in [0..Len(s) -> Seq(Bytes)] :
          /\ f[0] = <<>>
          /\ \A i \in 1..Len(s) : f[i] = LessCR(f[i - 1], s[i])
          /\ FoldLeft(LessCR, <<>>, s) = f[Len(s)]
  BY <1>2, LessCRSteps
<1>7. PICK g \in [0..Len(t) -> Seq(Bytes)] :
          /\ g[0] = <<>>
          /\ \A i \in 1..Len(t) : g[i] = LessCR(g[i - 1], t[i])
          /\ FoldLeft(LessCR, <<>>, t) = g[Len(t)]
  BY <1>3, LessCRSteps
<1>. HIDE DEF n
<1>8. ASSUME NEW i \in 1..n
      PROVE  f[i] = LessCR(f[i - 1], s[i]) /\ g[i] = LessCR(g[i - 1], s[i])
  <2>1. i \in 1..Len(s) /\ i \in 1..Len(t) /\ t[i] = s[i]
    BY <1>1, <1>2, <1>3, <1>5
  <2>. QED  BY <1>6, <1>7, <2>1
<1>9. \A i \in 0..n : f[i] = g[i]
  <2>1. \A i \in 1..n : f[i - 1] = g[i - 1] => f[i] = g[i]
    BY <1>8
  <2>2. n \in Nat /\ GoAlike(n, f, g)
    BY <1>1, <1>6, <1>7, <2>1 DEF GoAlike
  <2>. QED  BY <2>2, SameAlong
<1>10. f[n] = g[n] /\ f[n] \in Seq(Bytes)
  BY <1>1, <1>2, <1>6, <1>9
<1>11. g[n + 1] = LessCR(g[n], t[n + 1])
  <2>1. n + 1 \in 1..Len(t) /\ (n + 1) - 1 = n
    BY <1>1, <1>3
  <2>. QED  BY <1>7, <2>1
<1>. QED  BY <1>2, <1>3, <1>4, <1>5, <1>6, <1>7, <1>10, <1>11

\* The place after which LastCut lets the line begin: none of the candidates
\* is greater.
IsLatest(text, cs, p, a) ==
    /\ a = 0 \/ a \in cs \/ a \in Places(text, LF)
    /\ a < p
    /\ \A q \in Places(text, LF) : q < p => q <= a
    /\ \A q \in cs : q < p => q <= a

LEMMA LastCutIs ==
    ASSUME NEW text \in Seq(Bytes), NEW cs \in SUBSET Nat, NEW p \in Nat, p <= Len(text),
           NEW a \in Nat, IsLatest(text, cs, p, a)
    PROVE  LastCutIn(text, cs, p) = a + 1
<1>. USE DEF IsLatest
<1>. DEFINE S == {0} \cup {q \in Places(text, LF) : q < p}
            C == {Max(S)} \cup {q \in cs : q < p}
<1>1. S \subseteq 0..p
  BY LenProperties DEF Places
<1>2. Max(S) \in S /\ \A q \in S : q <= Max(S)
  <2>. HIDE DEF S
  <2>1. S \in SUBSET (0..p) /\ S # {}
    BY <1>1 DEF S
  <2>. QED  BY <2>1, GreatestNumber
<1>3. Max(S) \in Nat /\ Max(S) <= a
  BY <1>1, <1>2
<1>4. a \in C
  BY <1>2, <1>3
<1>5. \A q \in C : q \in Nat /\ q <= a
  BY <1>3
<1>6. Max(C) = a
  <2>. HIDE DEF C
  <2>1. \A q \in C : a >= q
    BY <1>5
  <2>2. \A x \in C : (\A q \in C : x >= q) => x = a
    BY <1>4, <1>5
  <2>. QED  BY <1>4, <2>1, <2>2 DEF Max
<1>7. BeginningIn(text, p) - 1 = Max(S)
  BY <1>3 DEF BeginningIn
<1>. QED  BY <1>6, <1>7 DEF LastCutIn

-------------------------------------------------------------------------------
(* The scan for lines, from the place t of the input on.                   *)

\* The line that ends at p is the one that was begun behind a: behind t, or
\* behind the last end before p.
OpensLine(text, t, a, p) ==
    /\ a \in Nat
    /\ t <= a
    /\ a < p
    /\ a = t \/ text[a] = LF
    /\ \A q \in Nat : a < q /\ q < p => text[q] # LF

\* The line that ends at p is number n of lines.
IsLine(text, t, p, lines, n) ==
    \E a \in Nat : OpensLine(text, t, a, p) /\ lines[n] = LineIn(text, a + 1, p)

\* The scan has seen the bytes behind t, up to t + i, and is in state x.
Scanned(text, t, i, x) ==
    /\ CountIn(text, t + i) = CountIn(text, t) + Len(x.lines)
    /\ \A p \in Nat : t < p /\ p <= t + i /\ text[p] = LF =>
           IsLine(text, t, p, x.lines, CountIn(text, p) - CountIn(text, t))
    /\ \E a \in Nat : /\ OpensLine(text, t, a, t + i + 1)
                      /\ x.line = LineIn(text, a + 1, t + i + 1)

LEMMA ScanStarts ==
    ASSUME NEW text \in Seq(Bytes), NEW t \in Nat, t <= Len(text)
    PROVE  Scanned(text, t, 0, ScanBegin)
<1>1. CountIn(text, t) \in Nat
  BY EndsAreFinite
<1>2. OpensLine(text, t, t, t + 1)
  BY DEF OpensLine
<1>3. LineIn(text, t + 1, t + 1) = <<>>
  BY LinesBegin
<1>4. Len(<<>>) = 0
  OBVIOUS
<1>. QED  BY <1>1, <1>2, <1>3, <1>4 DEF Scanned, ScanBegin

\* The number of a line lies in the lines scanned.
LEMMA NumberOfLine ==
    ASSUME NEW text \in Seq(Bytes), NEW t \in Nat, NEW n \in Nat, n <= Len(text),
           NEW p \in Nat, t < p, p <= n, text[p] = LF
    PROVE  CountIn(text, p) - CountIn(text, t) \in 1..(CountIn(text, n) - CountIn(text, t))
<1>1. Len(text) \in Nat
  BY LenProperties
<1>2. /\ CountIn(text, t) \in Nat /\ CountIn(text, n) \in Nat
      /\ CountIn(text, p) \in Nat /\ CountIn(text, p - 1) \in Nat
  <2>1. p - 1 \in Nat
    OBVIOUS
  <2>. QED  BY <2>1, EndsAreFinite
<1>3. CountIn(text, p) = CountIn(text, p - 1) + 1
  BY <1>1, EndCounts
<1>4. CountIn(text, t) <= CountIn(text, p - 1)
  BY CountGrows
<1>5. CountIn(text, p) <= CountIn(text, n)
  BY CountGrows
<1>. QED  BY <1>2, <1>3, <1>4, <1>5

LEMMA ScanGoesOn ==
    ASSUME NEW text \in Seq(Bytes), NEW t \in Nat, NEW i \in Nat, t + i + 1 <= Len(text),
           NEW x \in ScanState, Scanned(text, t, i, x)
    PROVE  Scanned(text, t, i + 1, ScanByte(x, text[t + i + 1]))
<1>. DEFINE n == t + i
            b == text[n + 1]
            y == ScanByte(x, b)
<1>1. n \in Nat /\ n + 1 <= Len(text) /\ n < Len(text) /\ Len(text) \in Nat /\ b \in Bytes
  BY LenProperties, ElementOfSeq
<1>2. x.lines \in Seq(Seq(Bytes)) /\ x.line \in Seq(Bytes) /\ Len(x.lines) \in Nat
  BY LenProperties DEF ScanState
<1>3. CountIn(text, t) \in Nat /\ CountIn(text, n) = CountIn(text, t) + Len(x.lines)
  BY EndsAreFinite DEF Scanned
<1>4. CountIn(text, n + 1) = CountIn(text, n) + (IF b = LF THEN 1 ELSE 0)
  BY <1>1, CountSteps
<1>5. PICK a \in Nat : OpensLine(text, t, a, n + 1) /\ x.line = LineIn(text, a + 1, n + 1)
  BY DEF Scanned
<1>6. ASSUME NEW p \in Nat, t < p, p <= n, text[p] = LF
      PROVE  /\ CountIn(text, p) - CountIn(text, t) \in 1..Len(x.lines)
             /\ IsLine(text, t, p, x.lines, CountIn(text, p) - CountIn(text, t))
  <2>1. n <= Len(text)
    BY <1>1
  <2>2. CountIn(text, p) - CountIn(text, t) \in 1..(CountIn(text, n) - CountIn(text, t))
    BY <1>1, <1>6, <2>1, NumberOfLine
  <2>3. CountIn(text, n) - CountIn(text, t) = Len(x.lines)
    BY <1>2, <1>3
  <2>. QED  BY <1>6, <2>2, <2>3 DEF Scanned
<1>7. CASE b = LF
  <2>1. y.lines = Append(x.lines, x.line) /\ y.line = <<>>
    <3>1. y = NewLine([x EXCEPT !.lines = Append(x.lines, x.line)])
      BY <1>7, BytesAssumption DEF ScanByte
    <3>. QED  BY <3>1 DEF NewLine, ScanState
  <2>2. /\ Len(y.lines) = Len(x.lines) + 1
        /\ y.lines[Len(x.lines) + 1] = x.line
        /\ \A j \in 1..Len(x.lines) : y.lines[j] = x.lines[j]
    BY <1>2, <2>1, AppendProperties
  <2>3. CountIn(text, n + 1) = CountIn(text, t) + Len(y.lines)
    BY <1>2, <1>3, <1>4, <1>7, <2>2
  <2>4. ASSUME NEW p \in Nat, t < p, p <= n + 1, text[p] = LF
        PROVE  IsLine(text, t, p, y.lines, CountIn(text, p) - CountIn(text, t))
    <3>1. CASE p = n + 1
      <4>1. CountIn(text, p) - CountIn(text, t) = Len(x.lines) + 1
        BY <1>2, <1>3, <2>2, <2>3, <3>1
      <4>. QED  BY <1>5, <2>2, <3>1, <4>1 DEF IsLine
    <3>2. CASE p <= n
      <4>1. /\ CountIn(text, p) - CountIn(text, t) \in 1..Len(x.lines)
            /\ IsLine(text, t, p, x.lines, CountIn(text, p) - CountIn(text, t))
        BY <1>6, <2>4, <3>2
      <4>. QED  BY <2>2, <4>1 DEF IsLine
    <3>. QED  BY <1>1, <2>4, <3>1, <3>2
  <2>5. OpensLine(text, t, n + 1, n + 2)
    BY <1>1, <1>7 DEF OpensLine
  <2>6. LineIn(text, (n + 1) + 1, n + 2) = <<>>
    <3>1. (n + 1) + 1 = n + 2 /\ n + 2 \in Nat
      BY <1>1
    <3>. QED  BY <3>1, LinesBegin
  <2>. QED  BY <1>1, <2>1, <2>3, <2>4, <2>5, <2>6 DEF Scanned
<1>8. CASE b # LF
  <2>1. y.lines = x.lines /\ y.line = LessCR(x.line, b)
    BY <1>2, <1>8 DEF ScanByte, LessCR, ScanState
  <2>2. CountIn(text, n + 1) = CountIn(text, t) + Len(y.lines)
    BY <1>2, <1>3, <1>4, <1>8, <2>1
  <2>3. ASSUME NEW p \in Nat, t < p, p <= n + 1, text[p] = LF
        PROVE  IsLine(text, t, p, y.lines, CountIn(text, p) - CountIn(text, t))
    <3>1. p <= n
      BY <1>1, <1>8, <2>3
    <3>. QED  BY <1>6, <2>1, <2>3, <3>1
  <2>4. OpensLine(text, t, a, n + 2)
    BY <1>1, <1>5, <1>8 DEF OpensLine
  <2>5. LineIn(text, a + 1, n + 2) = LessCR(LineIn(text, a + 1, n + 1), b)
    <3>1. /\ a + 1 \in Nat \ {0} /\ n + 1 \in Nat /\ a + 1 <= n + 1
          /\ (n + 1) + 1 = n + 2
      BY <1>1, <1>5 DEF OpensLine
    <3>2. LineIn(text, a + 1, (n + 1) + 1) = LessCR(LineIn(text, a + 1, n + 1), b)
      BY <1>1, <3>1, LineGrows
    <3>. QED  BY <3>1, <3>2
  <2>6. y.line = LineIn(text, a + 1, n + 2)
    BY <1>5, <2>1, <2>5
  <2>. QED  BY <1>1, <2>2, <2>3, <2>4, <2>6 DEF Scanned
<1>. QED  BY <1>7, <1>8

\* Lines are only added.
BeginsWith(more, lines) ==
    /\ Len(lines) <= Len(more)
    /\ \A j \in 1..Len(lines) : more[j] = lines[j]

LEMMA LinesAreAdded ==
    ASSUME NEW lines \in Seq(Seq(Bytes)), NEW x \in ScanState, BeginsWith(x.lines, lines),
           NEW b \in Bytes
    PROVE  BeginsWith(ScanByte(x, b).lines, lines)
<1>1. /\ x.lines \in Seq(Seq(Bytes)) /\ x.line \in Seq(Bytes)
      /\ Len(x.lines) \in Nat /\ Len(lines) \in Nat
  BY LenProperties DEF ScanState
<1>2. \/ ScanByte(x, b).lines = x.lines
      \/ ScanByte(x, b).lines = Append(x.lines, x.line)
  BY DEF ScanByte, NewLine, ScanState
<1>3. /\ Len(Append(x.lines, x.line)) = Len(x.lines) + 1
      /\ \A j \in 1..Len(x.lines) : Append(x.lines, x.line)[j] = x.lines[j]
  BY <1>1, AppendProperties
<1>4. CASE ScanByte(x, b).lines = x.lines
  BY <1>4
<1>5. CASE ScanByte(x, b).lines = Append(x.lines, x.line)
  <2>1. Len(lines) <= Len(Append(x.lines, x.line))
    BY <1>1, <1>3 DEF BeginsWith
  <2>2. \A j \in 1..Len(lines) : j \in 1..Len(x.lines)
    BY <1>1 DEF BeginsWith
  <2>. QED  BY <1>3, <1>5, <2>1, <2>2 DEF BeginsWith
<1>. QED  BY <1>2, <1>4, <1>5

\* What Scan returns for a buffer whose first k bytes are those behind t.
LEMMA ScanGivesLines ==
    ASSUME NEW text \in Seq(Bytes), NEW t \in Nat, NEW k \in Nat, t + k <= Len(text),
           NEW s \in Seq(Bytes), k <= Len(s), \A j \in 1..k : s[j] = text[t + j]
    PROVE  /\ Scan(s) \in Seq(Seq(Bytes))
           /\ CountIn(text, t + k) <= CountIn(text, t) + Len(Scan(s))
           /\ k = Len(s) => CountIn(text, t + k) = CountIn(text, t) + Len(Scan(s))
           /\ \A p \in Nat : t < p /\ p <= t + k /\ text[p] = LF =>
                  IsLine(text, t, p, Scan(s), CountIn(text, p) - CountIn(text, t))
<1>1. /\ Len(s) \in Nat /\ Len(text) \in Nat
      /\ \A i \in 1..Len(s) : s[i] \in Bytes
  BY LenProperties, ElementOfSeq
<1>2. PICK f \in [0..Len(s) -> ScanState] :
          /\ f[0] = ScanBegin
          /\ \A i \in 1..Len(s) : f[i] = ScanByte(f[i - 1], s[i])
          /\ Scan(s) = f[Len(s)].lines
  BY ScanSteps
<1>3. Scanned(text, t, k, f[k])
  <2>. DEFINE T == {i \in Nat : i <= k => Scanned(text, t, i, f[i])}
  <2>1. 0 \in T
    BY <1>1, <1>2, ScanStarts
  <2>2. ASSUME NEW i \in Nat, i \in T PROVE i + 1 \in T
    <3>. SUFFICES ASSUME i + 1 <= k PROVE Scanned(text, t, i + 1, f[i + 1])
      OBVIOUS
    <3>1. Scanned(text, t, i, f[i]) /\ f[i] \in ScanState
      <4>1. i <= k /\ i \in 0..Len(s)
        BY <1>1
      <4>2. Scanned(text, t, i, f[i])
        BY <2>2, <4>1
      <4>3. f[i] \in ScanState
        BY <1>2, <4>1
      <4>. QED  BY <4>2, <4>3
    <3>2. i + 1 \in 1..Len(s) /\ (i + 1) - 1 = i /\ s[i + 1] = text[t + i + 1]
      BY <1>1
    <3>3. t + i + 1 <= Len(text)
      BY <1>1
    <3>4. f[i + 1] = ScanByte(f[i], text[t + i + 1])
      BY <1>2, <3>2
    <3>. QED  BY <3>1, <3>3, <3>4, ScanGoesOn
  <2>3. Nat \subseteq T
    <3>. HIDE DEF T
    <3>. QED  BY <2>1, <2>2, Induction
  <2>. QED  BY <2>3
<1>. DEFINE lines == f[k].lines
<1>4. f[k] \in ScanState /\ lines \in Seq(Seq(Bytes)) /\ Len(lines) \in Nat
  <2>0. k \in 0..Len(s)
    BY <1>1
  <2>1. f[k] \in ScanState
    BY <1>2, <2>0
  <2>. QED  BY <2>1, LenProperties DEF ScanState
<1>5. BeginsWith(Scan(s), lines)
  <2>. DEFINE T == {i \in Nat : k + i <= Len(s) => BeginsWith(f[k + i].lines, lines)}
  <2>1. 0 \in T
    BY <1>4 DEF BeginsWith
  <2>2. ASSUME NEW i \in Nat, i \in T PROVE i + 1 \in T
    <3>. SUFFICES ASSUME k + (i + 1) <= Len(s) PROVE BeginsWith(f[k + (i + 1)].lines, lines)
      OBVIOUS
    <3>1. BeginsWith(f[k + i].lines, lines) /\ f[k + i] \in ScanState
      BY <1>1, <1>2, <2>2
    <3>2. k + (i + 1) \in 1..Len(s) /\ (k + (i + 1)) - 1 = k + i
      BY <1>1
    <3>3. s[k + (i + 1)] \in Bytes
      BY <1>1, <3>2
    <3>4. f[k + (i + 1)] = ScanByte(f[k + i], s[k + (i + 1)])
      BY <1>2, <3>2
    <3>. HIDE DEF lines
    <3>. QED  BY <1>4, <3>1, <3>3, <3>4, LinesAreAdded
  <2>3. Nat \subseteq T
    <3>. HIDE DEF T
    <3>. QED  BY <2>1, <2>2, Induction
  <2>4. Len(s) - k \in Nat /\ k + (Len(s) - k) = Len(s)
    BY <1>1
  <2>5. Len(s) - k \in T
    <3>. HIDE DEF T
    <3>. QED  BY <2>3, <2>4
  <2>6. BeginsWith(f[Len(s)].lines, lines)
    BY <2>4, <2>5
  <2>. QED  BY <1>2, <2>6
<1>6. Scan(s) \in Seq(Seq(Bytes)) /\ Len(Scan(s)) \in Nat
  <2>1. f[Len(s)] \in ScanState
    BY <1>1, <1>2
  <2>2. Scan(s) \in Seq(Seq(Bytes))
    BY <1>2, <2>1 DEF ScanState
  <2>. QED  BY <2>2, LenProperties
<1>7. /\ CountIn(text, t) \in Nat
      /\ CountIn(text, t + k) = CountIn(text, t) + Len(lines)
  BY <1>3, EndsAreFinite DEF Scanned
<1>8. CountIn(text, t + k) <= CountIn(text, t) + Len(Scan(s))
  BY <1>4, <1>5, <1>6, <1>7 DEF BeginsWith
<1>9. k = Len(s) => CountIn(text, t + k) = CountIn(text, t) + Len(Scan(s))
  BY <1>2, <1>7
<1>10. ASSUME NEW p \in Nat, t < p, p <= t + k, text[p] = LF
       PROVE  IsLine(text, t, p, Scan(s), CountIn(text, p) - CountIn(text, t))
  <2>. DEFINE n == CountIn(text, p) - CountIn(text, t)
  <2>1. IsLine(text, t, p, lines, n)
    BY <1>3, <1>10 DEF Scanned
  <2>2. n \in 1..Len(lines)
    <3>1. n \in 1..(CountIn(text, t + k) - CountIn(text, t))
      <4>1. t + k \in Nat
        OBVIOUS
      <4>. QED  BY <1>10, <4>1, NumberOfLine
    <3>2. CountIn(text, t + k) - CountIn(text, t) = Len(lines)
      BY <1>4, <1>7
    <3>. QED  BY <3>1, <3>2
  <2>3. Scan(s)[n] = lines[n]
    BY <1>5, <2>2 DEF BeginsWith
  <2>. QED  BY <2>1, <2>3 DEF IsLine
<1>. QED  BY <1>6, <1>8, <1>9, <1>10

-------------------------------------------------------------------------------
(* The part of the input that the scan for telnet codes leaves alone.      *)

\* m of the n bytes that were taken are before the first code.
PlainIs(text, n, m) ==
    /\ m \in Nat
    /\ m <= n
    /\ \A i \in 1..m : text[i] # IAC
    /\ m # n => text[m + 1] = IAC

PlainIn(text, n) ==
    LET codes == Places(text, IAC)
    IN  IF codes = {} \/ n < Min(codes) THEN n ELSE Min(codes) - 1

LEMMA PlainMeans ==
    ASSUME NEW text \in Seq(Bytes), NEW n \in Nat, n <= Len(text)
    PROVE  PlainIs(text, n, PlainIn(text, n))
<1>. DEFINE codes == Places(text, IAC)
<1>1. DOMAIN text = 1..Len(text) /\ Len(text) \in Nat
  BY LenProperties
<1>2. codes \in SUBSET (1..Len(text))
  BY <1>1 DEF Places
<1>4. CASE codes = {}
  <2>1. \A i \in 1..n : text[i] # IAC
    BY <1>1, <1>4 DEF Places
  <2>2. PlainIn(text, n) = n
    BY <1>4 DEF PlainIn
  <2>. QED  BY <1>4, <2>1, <2>2 DEF PlainIs
<1>5. CASE codes # {}
  <2>1. codes \in SUBSET Nat
    BY <1>1, <1>2
  <2>2. PICK c \in codes : \A q \in codes : c <= q
    <3>. HIDE DEF codes
    <3>. QED  BY <1>5, <2>1, LeastNumber
  <2>3. Min(codes) = c
    <3>1. \A x \in codes : (\A q \in codes : x <= q) => x = c
      BY <2>1, <2>2
    <3>. HIDE DEF codes
    <3>. QED  BY <2>2, <3>1 DEF Min
  <2>4. c \in Nat \ {0} /\ c <= Len(text) /\ text[c] = IAC
    BY <1>1, <2>2 DEF Places
  <2>5. \A i \in 1..(c - 1) : text[i] # IAC
    BY <1>1, <2>2, <2>4 DEF Places
  <2>6. PlainIn(text, n) = IF n < c THEN n ELSE c - 1
    BY <1>5, <2>3 DEF PlainIn
  <2>7. CASE n < c
    <3>1. \A i \in 1..n : text[i] # IAC
      BY <2>4, <2>5, <2>7
    <3>. QED  BY <1>5, <2>6, <2>7, <3>1 DEF PlainIs
  <2>8. CASE ~(n < c)
    <3>1. c - 1 \in Nat /\ c - 1 <= n /\ (c - 1) + 1 = c
      BY <2>4, <2>8
    <3>. QED  BY <1>5, <2>4, <2>5, <2>6, <2>8, <3>1 DEF PlainIs
  <2>. QED  BY <2>7, <2>8
<1>. QED  BY <1>4, <1>5

\* More bytes are taken.
LEMMA PlainGrows ==
    ASSUME NEW text, NEW n \in Nat, NEW n2 \in Nat, n <= n2, NEW m, NEW l,
           PlainIs(text, n, m), PlainIs(text, n2, l)
    PROVE  /\ m < n => l = m
           /\ m = n => n <= l
<1>. USE DEF PlainIs
<1>1. CASE m < n
  <2>1. m <= l
    BY <1>1
  <2>2. l <= m
    BY <1>1
  <2>. QED  BY <1>1, <2>1, <2>2
<1>2. CASE m = n
  BY <1>2
<1>. QED  BY <1>1, <1>2

-------------------------------------------------------------------------------
(* The inductive invariant.                                                *)

\* A call ends at the end of a line, or leaves a cut; there are enough commands,
\* and one for each line if no code has come yet; the line that ends at p is
\* the command of its number.
LinesGiven(text, t, cs, cmds) ==
    LET m == PlainIn(text, t)
    IN  /\ t = 0 \/ text[t] = LF \/ t \in cs
        /\ CountIn(text, m) <= Len(cmds)
        /\ m = t => CountIn(text, m) = Len(cmds)
        /\ \A p \in Nat : 0 < p /\ p <= m /\ text[p] = LF =>
               cmds[CountIn(text, p)] = LineIn(text, LastCutIn(text, cs, p), p)

\* s is what the scan for codes makes of what was received.
StripsTo(received, s) ==
    /\ s \in Seq(Bytes)
    /\ \A k \in 0..Len(received) :
           (\A j \in 1..k : received[j] # IAC) => Keeps(received, k, s)

LEMMA PartOf ==
    ASSUME NEW text \in Seq(Bytes), NEW t \in Nat, NEW r \in Nat, t + r <= Len(text)
    PROVE  /\ SubSeq(text, t + 1, t + r) \in Seq(Bytes)
           /\ Len(SubSeq(text, t + 1, t + r)) = r
           /\ \A j \in 1..r : SubSeq(text, t + 1, t + r)[j] = text[t + j]
<1>1. Len(text) \in Nat
  BY LenProperties
<1>. QED  BY <1>1

LEMMA OldLinesStay ==
    ASSUME NEW text \in Seq(Bytes), NEW t \in Nat, t <= Len(text),
           NEW cs \in SUBSET Nat, NEW n \in Nat, t <= n,
           NEW cs2, cs2 = cs \/ cs2 = cs \cup {n}, NEW p \in Nat, p <= t
    PROVE  LastCutIn(text, cs2, p) = LastCutIn(text, cs, p)
<1>1. {q \in cs2 : q < p} = {q \in cs : q < p}
  OBVIOUS
<1>. QED  BY <1>1 DEF LastCutIn

LEMMA ReadKeepsLines ==
    ASSUME NEW text \in Seq(Bytes),
           NEW t \in Nat, NEW n \in Nat, t <= n, n <= Len(text),
           NEW cs \in SUBSET (1..t), NEW cmds \in Seq(Seq(Bytes)),
           LinesGiven(text, t, cs, cmds),
           NEW s, StripsTo(SubSeq(text, t + 1, n), s),
           NEW cs2, cs2 = IF n # t /\ text[n] # LF THEN cs \cup {n} ELSE cs
    PROVE  LinesGiven(text, n, cs2, cmds \o Scan(s))
<1>. DEFINE r == n - t
            received == SubSeq(text, t + 1, n)
            lines == Scan(s)
            m == PlainIn(text, t)
            l == PlainIn(text, n)
<1>1. Len(text) \in Nat /\ Len(cmds) \in Nat /\ DOMAIN text = 1..Len(text) /\ r \in Nat
  BY LenProperties
<1>2. /\ received \in Seq(Bytes) /\ Len(received) = r
      /\ \A j \in 1..r : received[j] = text[t + j]
  <2>1. PICK k \in Nat : k = r /\ n = t + k
    BY <1>1
  <2>2. /\ SubSeq(text, t + 1, t + k) \in Seq(Bytes)
        /\ Len(SubSeq(text, t + 1, t + k)) = k
        /\ \A j \in 1..k : SubSeq(text, t + 1, t + k)[j] = text[t + j]
    BY <2>1, PartOf
  <2>. QED  BY <2>1, <2>2
<1>3. PlainIs(text, t, m) /\ PlainIs(text, n, l)
  <2>1. t <= Len(text) /\ n \in Nat
    BY <1>1
  <2>. QED  BY <2>1, PlainMeans
<1>4. m \in Nat /\ m <= t /\ l \in Nat /\ l <= n
  BY <1>3 DEF PlainIs
<1>5. (m < t => l = m) /\ (m = t => t <= l)
  <2>. HIDE DEF m, l
  <2>. QED  BY <1>3, PlainGrows
<1>6. n = 0 \/ text[n] = LF \/ n \in cs2
  BY DEF LinesGiven
<1>7. cs \in SUBSET Nat /\ (cs2 = cs \/ cs2 = cs \cup {n}) /\ t <= n
      /\ n \in Nat /\ t <= Len(text)
  BY <1>1
<1>8. /\ CountIn(text, m) <= Len(cmds)
      /\ m = t => CountIn(text, t) = Len(cmds)
  BY DEF LinesGiven
\* What is known of the lines before t.
<1>9. ASSUME NEW p \in Nat, 0 < p, p <= m, text[p] = LF,
             NEW more \in Seq(Seq(Bytes))
      PROVE  (cmds \o more)[CountIn(text, p)] = LineIn(text, LastCutIn(text, cs2, p), p)
  <2>1. cmds[CountIn(text, p)] = LineIn(text, LastCutIn(text, cs, p), p)
    BY <1>9 DEF LinesGiven
  <2>2. LastCutIn(text, cs2, p) = LastCutIn(text, cs, p)
    <3>1. p <= t
      BY <1>4, <1>9
    <3>. QED  BY <1>7, <3>1, OldLinesStay
  <2>3. CountIn(text, p) \in 1..Len(cmds)
    <3>1. m <= Len(text) /\ 0 <= Len(text) /\ 0 \in Nat
      BY <1>1, <1>4
    <3>2. CountIn(text, p) - CountIn(text, 0) \in 1..(CountIn(text, m) - CountIn(text, 0))
      <4>. HIDE DEF m
      <4>. QED  BY <1>4, <1>9, <3>1, NumberOfLine
    <3>3. CountIn(text, 0) = 0 /\ CountIn(text, p) \in Nat /\ CountIn(text, m) \in Nat
      BY <1>4, <1>9, CountStarts, EndsAreFinite
    <3>. QED  BY <1>1, <1>8, <3>2, <3>3
  <2>4. (cmds \o more)[CountIn(text, p)] = cmds[CountIn(text, p)]
    BY <2>3, ConcatProperties
  <2>. QED  BY <2>1, <2>2, <2>4
<1>10. Keeps(received, 0, s) /\ s \in Seq(Bytes)
  BY <1>2 DEF StripsTo
<1>11. lines \in Seq(Seq(Bytes))
  <2>1. 0 <= Len(s) /\ \A j \in 1..0 : s[j] = text[t + j]
    BY <1>10 DEF Keeps
  <2>2. t + 0 <= Len(text) /\ 0 \in Nat
    BY <1>1
  <2>. QED  BY <1>10, <2>1, <2>2, ScanGivesLines
<1>12. Len(lines) \in Nat /\ Len(cmds \o lines) = Len(cmds) + Len(lines)
  BY <1>11, LenProperties, ConcatProperties
<1>13. CASE m < t
  <2>1. l = m /\ l # n
    BY <1>4, <1>5, <1>13
  <2>2. CountIn(text, l) <= Len(cmds \o lines)
    <3>1. CountIn(text, m) \in Nat
      BY <1>4, EndsAreFinite
    <3>. QED  BY <1>1, <1>8, <1>12, <2>1, <3>1
  <2>3. ASSUME NEW p \in Nat, 0 < p, p <= l, text[p] = LF
        PROVE  (cmds \o lines)[CountIn(text, p)] = LineIn(text, LastCutIn(text, cs2, p), p)
    BY <1>9, <1>11, <2>1, <2>3
  <2>. QED  BY <1>6, <2>1, <2>2, <2>3 DEF LinesGiven
<1>14. CASE m = t
  <2>. DEFINE k == l - t
  <2>1. k \in Nat /\ t + k = l /\ k <= r /\ k \in 0..r /\ t + k <= Len(text)
    <3>1. t <= l /\ l <= n /\ l \in Nat
      BY <1>4, <1>5, <1>14
    <3>. HIDE DEF l
    <3>. QED  BY <1>1, <3>1
  <2>2. ASSUME NEW j \in 1..k PROVE received[j] # IAC
    <3>1. text[t + j] # IAC
      BY <1>3, <1>4, <2>1 DEF PlainIs
    <3>. QED  BY <1>2, <2>1, <3>1
  <2>3. Keeps(received, k, s)
    BY <1>2, <2>1, <2>2 DEF StripsTo
  <2>4. k <= Len(s) /\ \A j \in 1..k : s[j] = text[t + j]
    BY <1>2, <2>1, <2>3 DEF Keeps
  <2>5. /\ CountIn(text, t + k) <= CountIn(text, t) + Len(lines)
        /\ k = Len(s) => CountIn(text, t + k) = CountIn(text, t) + Len(lines)
        /\ \A p \in Nat : t < p /\ p <= t + k /\ text[p] = LF =>
               IsLine(text, t, p, lines, CountIn(text, p) - CountIn(text, t))
    <3>. HIDE DEF k, lines
    <3>. QED  BY <1>10, <2>1, <2>4, ScanGivesLines DEF lines
  <2>6. CountIn(text, t) = Len(cmds)
    BY <1>8, <1>14
  <2>7. CountIn(text, l) <= Len(cmds \o lines)
    BY <1>12, <2>1, <2>5, <2>6
  <2>8. l = n => CountIn(text, l) = Len(cmds \o lines)
    <3>. SUFFICES ASSUME l = n PROVE k = Len(s)
      BY <1>12, <2>1, <2>5, <2>6
    <3>1. k = Len(received)
      BY <1>2, <2>1
    <3>2. s = received
      BY <2>3, <3>1 DEF Keeps
    <3>. QED  BY <3>1, <3>2
  <2>9. ASSUME NEW p \in Nat, 0 < p, p <= l, text[p] = LF
        PROVE  (cmds \o lines)[CountIn(text, p)] = LineIn(text, LastCutIn(text, cs2, p), p)
    <3>1. CASE p <= t
      BY <1>9, <1>11, <1>14, <2>9, <3>1
    <3>2. CASE t < p
      <4>. DEFINE i == CountIn(text, p) - CountIn(text, t)
      <4>1. IsLine(text, t, p, lines, i)
        BY <2>1, <2>5, <2>9, <3>2
      <4>2. PICK a \in Nat : OpensLine(text, t, a, p) /\ lines[i] = LineIn(text, a + 1, p)
        BY <4>1 DEF IsLine
      <4>3. i \in 1..Len(lines)
        <5>1. i \in 1..(CountIn(text, l) - CountIn(text, t))
          <6>1. l <= Len(text)
            BY <2>1
          <6>. HIDE DEF l
          <6>. QED  BY <1>4, <2>9, <3>2, <6>1, NumberOfLine
        <5>2. CountIn(text, l) \in Nat /\ CountIn(text, t) \in Nat
          BY <1>4, EndsAreFinite
        <5>3. CountIn(text, l) <= CountIn(text, t) + Len(lines)
          BY <2>1, <2>5
        <5>. HIDE DEF lines, l
        <5>. QED  BY <1>12, <5>1, <5>2, <5>3
      <4>4. CountIn(text, p) = Len(cmds) + i
        BY <1>1, <2>6, <4>3, EndsAreFinite
      <4>5. (cmds \o lines)[CountIn(text, p)] = lines[i]
        BY <1>1, <1>11, <1>12, <4>3, <4>4, ConcatProperties
      <4>6. LastCutIn(text, cs2, p) = a + 1
        <5>1. a < p /\ p <= Len(text) /\ t <= a /\ cs2 \in SUBSET Nat
          BY <1>1, <1>4, <1>7, <2>9, <4>2 DEF OpensLine
        <5>2. a = 0 \/ a \in cs2 \/ a \in Places(text, LF)
          <6>1. a = 0 \/ a \in cs2 \/ text[a] = LF
            BY <4>2 DEF OpensLine, LinesGiven
          <6>. QED  BY <1>1, <5>1, <6>1 DEF Places
        <5>3. \A q \in Places(text, LF) : q < p => q <= a
          <6>. SUFFICES ASSUME NEW q \in Places(text, LF), q < p, ~(q <= a) PROVE FALSE
            OBVIOUS
          <6>1. q \in Nat /\ text[q] = LF /\ a < q
            BY <1>1 DEF Places
          <6>. QED  BY <4>2, <6>1 DEF OpensLine
        <5>4. \A q \in cs2 : q < p => q <= a
          BY <1>4, <2>9, <5>1
        <5>5. IsLatest(text, cs2, p, a)
          BY <5>1, <5>2, <5>3, <5>4 DEF IsLatest
        <5>. QED  BY <2>9, <5>1, <5>5, LastCutIs
      <4>. QED  BY <4>2, <4>5, <4>6
    <3>3. p <= t \/ t < p
      BY <2>9
    <3>. QED  BY <3>1, <3>2, <3>3
  <2>. QED  BY <1>6, <2>7, <2>8, <2>9 DEF LinesGiven
<1>. QED  BY <1>4, <1>13, <1>14

\* What is typed and not taken changes nothing.
LEMMA TypingKeepsLines ==
    ASSUME NEW text \in Seq(Bytes), NEW b \in Bytes,
           NEW t \in Nat, t <= Len(text),
           NEW cs \in SUBSET (1..t), NEW cmds,
           LinesGiven(text, t, cs, cmds)
    PROVE  LinesGiven(Append(text, b), t, cs, cmds)
<1>. DEFINE more == Append(text, b)
            m == PlainIn(text, t)
            l == PlainIn(more, t)
<1>1. /\ Len(text) \in Nat /\ DOMAIN text = 1..Len(text)
      /\ more \in Seq(Bytes) /\ Len(more) = Len(text) + 1 /\ DOMAIN more = 1..Len(more)
      /\ \A i \in 1..Len(text) : more[i] = text[i]
  BY LenProperties, AppendProperties
<1>. HIDE DEF more
<1>2. PlainIs(text, t, m) /\ PlainIs(more, t, l)
  BY <1>1, PlainMeans
<1>3. m = l
  <2>. HIDE DEF m, l
  <2>1. PlainIs(more, t, m)
    BY <1>1, <1>2 DEF PlainIs
  <2>2. /\ m < t => l = m
        /\ m = t => t <= l
    BY <1>2, <2>1, PlainGrows
  <2>. QED  BY <1>2, <2>2 DEF PlainIs
<1>4. m \in Nat /\ m <= t
  BY <1>2 DEF PlainIs
<1>5. ASSUME NEW n \in Nat, n <= Len(text)
      PROVE  /\ CountIn(more, n) = CountIn(text, n)
             /\ \A a \in Nat \ {0} : LineIn(more, a, n) = LineIn(text, a, n)
             /\ LastCutIn(more, cs, n) = LastCutIn(text, cs, n)
  <2>1. EndsIn(more, n) = EndsIn(text, n)
    BY <1>1, <1>5 DEF EndsIn, Places
  <2>2. {q \in Places(more, LF) : q < n} = {q \in Places(text, LF) : q < n}
    BY <1>1, <1>5 DEF Places
  <2>3. ASSUME NEW a \in Nat \ {0} PROVE SubSeq(more, a, n - 1) = SubSeq(text, a, n - 1)
    BY <1>1, <1>5
  <2>. QED  BY <2>1, <2>2, <2>3 DEF CountIn, LineIn, LastCutIn, BeginningIn
<1>6. t = 0 \/ more[t] = LF \/ t \in cs
  BY <1>1 DEF LinesGiven
<1>7. /\ CountIn(more, l) <= Len(cmds)
      /\ l = t => CountIn(more, l) = Len(cmds)
  BY <1>3, <1>4, <1>5 DEF LinesGiven
<1>8. ASSUME NEW p \in Nat, 0 < p, p <= l, more[p] = LF
      PROVE  cmds[CountIn(more, p)] = LineIn(more, LastCutIn(more, cs, p), p)
  <2>1. p <= Len(text) /\ p <= m /\ text[p] = LF
    BY <1>1, <1>3, <1>4, <1>8
  <2>2. cmds[CountIn(text, p)] = LineIn(text, LastCutIn(text, cs, p), p)
    BY <1>8, <2>1 DEF LinesGiven
  <2>3. LastCutIn(text, cs, p) \in Nat \ {0}
    <3>. DEFINE S == {0} \cup {q \in Places(text, LF) : q < p}
                C == {Max(S)} \cup {q \in cs : q < p}
    <3>1. S \in SUBSET (0..p) /\ S # {}
      BY <1>1 DEF Places
    <3>2. Max(S) \in S
      <4>. HIDE DEF S
      <4>. QED  BY <3>1, GreatestNumber
    <3>3. Max(S) \in 0..p
      BY <3>1, <3>2
    <3>4. C \in SUBSET (0..p) /\ C # {}
      <4>1. {q \in cs : q < p} \in SUBSET (0..p)
        <5>. SUFFICES ASSUME NEW q \in cs, q < p PROVE q \in 0..p
          OBVIOUS
        <5>. QED  OBVIOUS
      <4>. HIDE DEF S
      <4>. QED  BY <3>3, <4>1
    <3>5. Max(C) \in C
      <4>. HIDE DEF C
      <4>. QED  BY <3>4, GreatestNumber
    <3>6. Max(C) \in 0..p
      BY <3>4, <3>5
    <3>7. BeginningIn(text, p) - 1 = Max(S)
      BY <3>3 DEF BeginningIn
    <3>8. LastCutIn(text, cs, p) = Max(C) + 1
      BY <3>7 DEF LastCutIn
    <3>. HIDE DEF C
    <3>. QED  BY <3>6, <3>8
  <2>. QED  BY <1>5, <2>1, <2>2, <2>3
<1>. QED  BY <1>6, <1>7, <1>8 DEF LinesGiven, more

-------------------------------------------------------------------------------

LinesInv ==
    /\ LinesTypeOK
    /\ LinesGiven(typed, taken, cuts, commands)

LEMMA LinesStart == LinesInit => LinesInv
<1>. SUFFICES ASSUME LinesInit PROVE LinesInv
  OBVIOUS
<1>1. <<>> \in Seq(Bytes) /\ <<>> \in Seq(Seq(Bytes)) /\ Len(<<>>) = 0
  BY EmptySeq
<1>2. LinesTypeOK
  <2>1. typed \in Seq(Bytes) /\ commands \in Seq(Seq(Bytes))
    BY <1>1 DEF LinesInit
  <2>2. taken \in 0..Len(typed) /\ cuts \subseteq 1..taken
    BY <1>1 DEF LinesInit
  <2>. QED  BY <2>1, <2>2 DEF LinesInit, LinesTypeOK
<1>3. PlainIs(typed, 0, PlainIn(typed, 0))
  <2>1. typed \in Seq(Bytes) /\ 0 \in Nat /\ 0 <= Len(typed)
    BY <1>1 DEF LinesInit
  <2>. QED  BY <2>1, PlainMeans
<1>4. PlainIn(typed, 0) = 0
  BY <1>3 DEF PlainIs
<1>5. CountIn(typed, 0) = 0
  BY <1>1, CountStarts DEF LinesInit
<1>6. LinesGiven(typed, 0, cuts, commands)
  BY <1>1, <1>4, <1>5 DEF LinesGiven, LinesInit
<1>. QED  BY <1>2, <1>6 DEF LinesInv, LinesInit

LEMMA TypeKeepsInv == LinesInv /\ Type => LinesInv'
<1>. SUFFICES ASSUME LinesInv, Type PROVE LinesInv'
  OBVIOUS
<1>1. PICK b \in Bytes : typed' = Append(typed, b)
  BY DEF Type
<1>2. /\ typed \in Seq(Bytes) /\ taken \in Nat /\ taken <= Len(typed)
      /\ cuts \in SUBSET (1..taken)
  BY LenProperties DEF LinesInv, LinesTypeOK
<1>3. typed' \in Seq(Bytes) /\ Len(typed') = Len(typed) + 1 /\ Len(typed) \in Nat
  BY <1>1, <1>2, AppendProperties, LenProperties
<1>4. LinesTypeOK'
  BY <1>2, <1>3 DEF Type, LinesInv, LinesTypeOK
<1>5. LinesGiven(Append(typed, b), taken, cuts, commands)
  BY <1>2, TypingKeepsLines DEF LinesInv
<1>6. LinesGiven(typed, taken, cuts, commands)'
  BY <1>1, <1>5 DEF Type, LinesGiven
<1>. QED  BY <1>4, <1>6 DEF LinesInv

LEMMA DeliversKeepsInv ==
    LinesInv /\ Delivers /\ UNCHANGED <<signed, typed, closed>> =>
        /\ LinesInv'
        /\ commands' \in Seq(Seq(Bytes))
<1>. SUFFICES ASSUME LinesInv, Delivers, UNCHANGED <<signed, typed, closed>>
              PROVE  LinesInv'
  BY DEF LinesInv, LinesTypeOK
<1>1. /\ typed \in Seq(Bytes) /\ taken \in Nat /\ taken <= Len(typed)
      /\ cuts \in SUBSET (1..taken) /\ commands \in Seq(Seq(Bytes))
      /\ Len(typed) \in Nat
  BY LenProperties DEF LinesInv, LinesTypeOK
<1>2. PICK r \in Nat : r = Min({Waiting, BufSize}) /\ taken + r <= Len(typed)
  <2>1. Waiting \in Nat /\ Waiting = Len(typed) - taken /\ BufSize \in Nat
    BY <1>1, BufferAssumption DEF Waiting
  <2>2. PICK w \in {Waiting, BufSize} : w <= Waiting /\ w <= BufSize
    BY <2>1
  <2>3. \A v \in {Waiting, BufSize} :
            (\A y \in {Waiting, BufSize} : v <= y) => v = w
    BY <2>1, <2>2
  <2>4. Min({Waiting, BufSize}) = w
    BY <2>1, <2>2, <2>3 DEF Min
  <2>. QED  BY <1>1, <2>1, <2>2, <2>4
<1>3. PICK rec : rec = Received
  OBVIOUS
<1>4. /\ rec = SubSeq(typed, taken + 1, taken + r)
      /\ rec \in Seq(Bytes) /\ Len(rec) = r
      /\ \A j \in 1..r : rec[j] = typed[taken + j]
  <2>1. rec = SubSeq(typed, taken + 1, taken + r)
    BY <1>2, <1>3 DEF Received
  <2>. QED  BY <1>1, <1>2, <2>1, PartOf
<1>5. PICK s : s = Strip(rec)
  OBVIOUS
<1>6. StripsTo(rec, s)
  <2>1. CASE signed
    <3>1. s = rec
      BY <1>5, <2>1 DEF Strip
    <3>2. \A k \in 0..Len(rec) : Keeps(rec, k, rec)
      BY <1>4 DEF Keeps
    <3>. QED  BY <1>4, <3>1, <3>2 DEF StripsTo
  <2>2. CASE ~signed
    <3>1. s = FoldLeft(StripAt, rec, [i \in DOMAIN rec |-> i])
      BY <1>5, <2>2 DEF Strip
    <3>2. ASSUME NEW k \in 0..Len(rec), \A j \in 1..k : rec[j] # IAC
          PROVE  s \in Seq(Bytes) /\ Keeps(rec, k, s)
      <4>1. k \in Nat /\ k <= Len(rec)
        BY <1>4
      <4>. QED  BY <1>4, <3>1, <3>2, <4>1, StripKeeps
    <3>3. 0 \in 0..Len(rec) /\ \A j \in 1..0 : rec[j] # IAC
      BY <1>4
    <3>. QED  BY <2>2, <3>2, <3>3 DEF StripsTo
  <2>. QED  BY <1>1, <2>1, <2>2
<1>7. PICK n \in Nat : n = taken + r
  BY <1>1
<1>8. taken' = n /\ commands' = commands \o Scan(s)
  BY <1>3, <1>4, <1>5, <1>7 DEF Delivers
<1>9. cuts' = IF n # taken /\ typed[n] # LF THEN cuts \cup {n} ELSE cuts
  <2>1. rec # <<>> <=> r # 0
    BY <1>4, EmptySeq
  <2>2. ASSUME r # 0 PROVE Last(rec) = typed[n]
    <3>1. r \in 1..r
      BY <2>2
    <3>. QED  BY <1>4, <1>7, <3>1 DEF Last
  <2>3. n # taken <=> r # 0
    BY <1>1, <1>7
  <2>. QED  BY <1>3, <1>8, <2>1, <2>2, <2>3 DEF Delivers
<1>10. PICK cs : cs = cuts'
  OBVIOUS
<1>11. LinesGiven(typed, n, cs, commands \o Scan(s))
  <2>1. taken <= n /\ n <= Len(typed)
    BY <1>1, <1>2, <1>7
  <2>2. LinesGiven(typed, taken, cuts, commands)
    BY DEF LinesInv
  <2>3. StripsTo(SubSeq(typed, taken + 1, n), s)
    BY <1>4, <1>6, <1>7
  <2>. QED  BY <1>1, <1>9, <1>10, <2>1, <2>2, <2>3, ReadKeepsLines
<1>12. LinesGiven(typed, taken, cuts, commands)'
  BY <1>8, <1>10, <1>11 DEF LinesGiven
<1>13. commands' \in Seq(Seq(Bytes))
  <2>1. Keeps(rec, 0, s) /\ s \in Seq(Bytes)
    <3>1. 0 \in 0..Len(rec) /\ \A j \in 1..0 : rec[j] # IAC
      BY <1>4
    <3>. QED  BY <1>6, <3>1 DEF StripsTo
  <2>2. 0 <= Len(s) /\ \A j \in 1..0 : s[j] = typed[taken + j]
    BY <2>1 DEF Keeps
  <2>3. taken + 0 <= Len(typed) /\ 0 \in Nat
    BY <1>1
  <2>4. Scan(s) \in Seq(Seq(Bytes))
    BY <1>1, <2>1, <2>2, <2>3, ScanGivesLines
  <2>. QED  BY <1>1, <1>8, <2>4, ConcatProperties
<1>14. LinesTypeOK'
  <2>1. taken' \in 0..Len(typed')
    BY <1>1, <1>2, <1>7, <1>8
  <2>2. cuts' \subseteq 1..taken'
    <3>1. cuts \subseteq 1..n
      BY <1>1, <1>7
    <3>2. CASE n # taken /\ typed[n] # LF
      <4>1. cuts' = cuts \cup {n} /\ n \in 1..n
        BY <1>1, <1>7, <1>9, <3>2
      <4>. QED  BY <1>8, <3>1, <4>1
    <3>3. CASE ~(n # taken /\ typed[n] # LF)
      BY <1>8, <1>9, <3>1, <3>3
    <3>. QED  BY <3>2, <3>3
  <2>. QED  BY <1>13, <2>1, <2>2 DEF LinesInv, LinesTypeOK, Delivers
<1>. QED  BY <1>12, <1>14 DEF LinesInv

LEMMA InvGivesLines == LinesInv => EveryLineOnce
<1>. SUFFICES ASSUME LinesInv PROVE EveryLineOnce
  OBVIOUS
<1>1. /\ typed \in Seq(Bytes) /\ taken \in Nat /\ taken <= Len(typed)
      /\ DOMAIN typed = 1..Len(typed)
  BY LenProperties DEF LinesInv, LinesTypeOK
<1>2. Plain = PlainIn(typed, taken)
  BY DEF Plain, PlainIn
<1>3. Plain \in Nat /\ Plain <= taken
  BY <1>1, <1>2, PlainMeans DEF PlainIs
<1>4. {p \in Places(typed, LF) : p <= Plain} = EndsIn(typed, Plain)
  BY DEF EndsIn
<1>5. ASSUME NEW p \in EndsIn(typed, Plain)
      PROVE  /\ {q \in EndsIn(typed, Plain) : q <= p} = EndsIn(typed, p)
             /\ commands[CountIn(typed, p)] = LineFrom(LastCut(p), p)
  <2>1. p \in Nat /\ 0 < p /\ p <= Plain /\ typed[p] = LF
    BY <1>1, <1>5 DEF EndsIn, Places
  <2>2. {q \in EndsIn(typed, Plain) : q <= p} = EndsIn(typed, p)
    BY <1>1, <1>3, <2>1 DEF EndsIn, Places
  <2>3. commands[CountIn(typed, p)] = LineIn(typed, LastCutIn(typed, cuts, p), p)
    BY <1>2, <2>1 DEF LinesInv, LinesGiven
  <2>. QED  BY <2>2, <2>3 DEF LineFrom, LineIn, LastCut, LastCutIn, Beginning, BeginningIn
<1>6. /\ Len(commands) >= CountIn(typed, Plain)
      /\ Plain = taken => Len(commands) = CountIn(typed, Plain)
  <2>1. Len(commands) \in Nat /\ CountIn(typed, Plain) \in Nat
    BY <1>1, <1>3, EndsAreFinite, LenProperties DEF LinesInv, LinesTypeOK
  <2>. QED  BY <1>2, <2>1 DEF LinesInv, LinesGiven
<1>. QED  BY <1>4, <1>5, <1>6 DEF EveryLineOnce, CountIn

-------------------------------------------------------------------------------
(* The session.                                                            *)

\* The rest of the module reads and writes what LinesInv is about only by way
\* of Type and Delivers.
LEMMA LinesStay ==
    LinesInv /\ UNCHANGED <<signed, typed, taken, cuts, commands>>
        /\ closed' \in BOOLEAN /\ disc' \in BOOLEAN => LinesInv'
<1>. SUFFICES ASSUME LinesInv, UNCHANGED <<signed, typed, taken, cuts, commands>>,
                     closed' \in BOOLEAN, disc' \in BOOLEAN
              PROVE  LinesInv'
  OBVIOUS
<1>1. LinesTypeOK'
  BY DEF LinesInv, LinesTypeOK
<1>2. LinesGiven(typed, taken, cuts, commands)'
  BY DEF LinesInv, LinesGiven
<1>. QED  BY <1>1, <1>2 DEF LinesInv

ClientInv ==
    /\ IInv
    /\ LinesInv
    /\ phase \in {"select", "input", "gone"}
    /\ batch \in Seq(Seq(Bytes))

\* At the start no byte has been typed or sent.
LEMMA ClientStarts == Init => ClientInv
<1>. SUFFICES ASSUME Init PROVE ClientInv
  OBVIOUS
<1>1. IInv /\ LinesInv
  BY InitInv, LinesStart DEF Init
<1>2. batch \in Seq(Seq(Bytes))
  BY EmptySeq DEF Init
<1>. QED  BY <1>1, <1>2 DEF Init, ClientInv

LEMMA StepKeepsLines ==
    ASSUME ClientInv, [Next]_vars
    PROVE  LinesInv' /\ phase' \in {"select", "input", "gone"} /\ batch' \in Seq(Seq(Bytes))
<1>1. /\ LinesInv /\ closed \in BOOLEAN /\ disc \in BOOLEAN
      /\ phase \in {"select", "input", "gone"} /\ batch \in Seq(Seq(Bytes))
      /\ commands \in Seq(Seq(Bytes))
  BY DEF ClientInv, LinesInv, LinesTypeOK
<1>2. CASE UNCHANGED vars
  BY <1>1, <1>2, LinesStay DEF vars, lineVars
<1>3. CASE ReadInput
  <2>1. phase' \in {"select", "input", "gone"}
    BY <1>3 DEF ReadInput
  <2>2. LinesInv' /\ commands' \in Seq(Seq(Bytes))
    <3>1. CASE Disconnects
      BY <1>1, <1>3, <3>1, LinesStay DEF ReadInput, GetCommands, Disconnects
    <3>2. CASE Delivers
      BY <1>1, <1>3, <3>2, DeliversKeepsInv DEF ReadInput, GetCommands
    <3>. QED  BY <1>3, <3>1, <3>2 DEF ReadInput, GetCommands
  <2>3. batch' \in Seq(Seq(Bytes))
    <3>1. PICK old, new : old = commands /\ new = commands'
      OBVIOUS
    <3>2. batch' = SubSeq(new, Len(old) + 1, Len(new))
      BY <1>3, <3>1 DEF ReadInput
    <3>3. /\ new \in Seq(Seq(Bytes)) /\ old \in Seq(Seq(Bytes))
          /\ Len(new) \in Nat /\ Len(old) \in Nat
      BY <1>1, <2>2, <3>1, LenProperties
    <3>4. SubSeq(new, Len(old) + 1, Len(new)) \in Seq(Seq(Bytes))
      BY <3>3
    <3>. QED  BY <3>2, <3>4
  <2>. QED  BY <2>1, <2>2, <2>3
<1>4. CASE BlankLine
  <2>1. batch' \in Seq(Seq(Bytes))
    BY <1>4, EmptySeq DEF BlankLine
  <2>. QED  BY <1>1, <1>4, <2>1, LinesStay DEF BlankLine, lineVars
<1>5. CASE Reply
  <2>1. batch' \in Seq(Seq(Bytes))
    BY <1>1, <1>5, EmptySeq, HeadTailProperties DEF Reply, InHand
  <2>. QED  BY <1>1, <1>5, <2>1, LinesStay DEF Reply, lineVars
<1>6. CASE Send
  BY <1>1, <1>6, LinesStay DEF Send, lineVars
<1>7. CASE ReplyEnds
  <2>1. disc' \in BOOLEAN
    BY <1>7 DEF ReplyEnds
  <2>. QED  BY <1>1, <1>7, <2>1, LinesStay DEF ReplyEnds
<1>8. CASE InputEnds
  BY <1>1, <1>8, LinesStay DEF InputEnds, lineVars
<1>9. CASE User
  <2>1. UNCHANGED <<phase, batch>>
    BY <1>9 DEF User
  <2>2. CASE Type
    BY <1>1, <2>1, <2>2, TypeKeepsInv
  <2>3. CASE Close
    BY <1>1, <2>1, <2>3, LinesStay DEF Close
  <2>4. CASE UNCHANGED lineVars
    BY <1>1, <2>1, <2>4, LinesStay DEF lineVars
  <2>. QED  BY <1>9, <2>2, <2>3, <2>4 DEF User
<1>. QED
  BY <1>2, <1>3, <1>4, <1>5, <1>6, <1>7, <1>8, <1>9 DEF Next, Program

\* The lines, the replies and the batch between them keep their invariants
\* through every step of the session.
THEOREM ClientAlways == Spec => []ClientInv
<1>1. ClientInv /\ [Next]_vars => ClientInv'
  <2>. SUFFICES ASSUME ClientInv, [Next]_vars PROVE ClientInv'
    OBVIOUS
  <2>1. IInv'
    BY NextInv DEF ClientInv
  <2>. QED  BY <2>1, StepKeepsLines DEF ClientInv
<1>. QED
  BY ClientStarts, <1>1, PTL DEF Spec

\* The types of the session, of its input and its replies.
THEOREM TypesHold == Spec => []TypeOK
<1>1. ClientInv => TypeOK
  BY DEF ClientInv, IInv, LinesInv, TypeOK
<1>. QED
  BY ClientAlways, <1>1, PTL

\* However what is typed is cut into segments, and whatever the size of the
\* buffer, getCommands returns each line before the first telnet code once, in
\* its place, complete from the last cut on.
THEOREM LinesComeOnce == Spec => []EveryLineOnce
<1>1. ClientInv => EveryLineOnce
  BY InvGivesLines DEF ClientInv
<1>. QED
  BY ClientAlways, <1>1, PTL

===============================================================================
