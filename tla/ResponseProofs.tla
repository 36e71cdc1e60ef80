---------------------------- MODULE ResponseProofs ----------------------------
(***************************************************************************)
(* Theorems about ResponseStream.tla, for every number of parts, commands  *)
(* and unread requests.                                                    *)
(***************************************************************************)
EXTENDS ResponseStream, SequenceTheorems, TLAPS

(* What has been read of an answer is only given up with its connection.   *)
RestHasBegun ==
    phase = "rest" => here > 0 \/ (conn = "eof" /\ pipe = <<>>)

(* While no answer has come in pieces, at most one answer is underway: the *)
(* one to the command the program waits for, which is either the last      *)
(* thing the provider will read or the only thing in the pipe.             *)
OneAnswer ==
    ~split =>
        /\ Len(pipe) <= 1
        /\ pipe # <<>> => pipe[1] = [n |-> issued, part |-> 1] /\ phase # "idle"
        /\ \A i \in 1..Len(requests) :
              \/ requests[i] = 0
              \/ /\ requests[i] = issued
                 /\ i = Len(requests)
                 /\ phase # "idle"
                 /\ pipe = <<>>

(* Only the rest of an answer is read without blocking: the toggle that    *)
(* comes next restores the mode, unless the read fails.                    *)
Mode ==
    /\ phase \in {"idle", "first"} => blocking
    /\ phase = "rest" => ~blocking

IInv ==
    /\ TypeOK
    /\ RestHasBegun
    /\ OneAnswer
    /\ Mode

-------------------------------------------------------------------------------
(* Sequences.                                                              *)

LEMMA SubSeqType ==
    ASSUME NEW S, NEW s \in Seq(S), NEW a \in 1..(Len(s) + 1), NEW b \in 0..Len(s),
           a <= b + 1
    PROVE  /\ SubSeq(s, a, b) \in Seq(S)
           /\ Len(SubSeq(s, a, b)) = b + 1 - a
           /\ \A i \in 1..(b + 1 - a) : SubSeq(s, a, b)[i] = s[a + i - 1]
OBVIOUS

LEMMA Singleton ==
    ASSUME NEW S, NEW s \in Seq(S), Len(s) = 1
    PROVE  SubSeq(s, 1, 1) = <<s[1]>>
<1>1. SubSeq(s, 1, 1) = s
  BY SubSeqFull
<1>2. s = <<s[1]>>
  OBVIOUS
<1> QED
  BY <1>1, <1>2

LEMMA ReadRequest ==
    ASSUME NEW S, NEW s \in Seq(S), s # <<>>
    PROVE  /\ Len(s) \in Nat /\ Len(s) > 0
           /\ Head(s) = s[1] /\ Head(s) \in S
           /\ Tail(s) \in Seq(S)
           /\ Len(Tail(s)) = Len(s) - 1
           /\ \A i \in 1..Len(Tail(s)) : Tail(s)[i] = s[i + 1]
OBVIOUS

LEMMA AnswerType ==
    ASSUME NEW n \in 0..MaxCommands, NEW k \in 1..MaxParts
    PROVE  /\ Answer(n, k) \in Seq(Parts)
           /\ Len(Answer(n, k)) = k
           /\ \A i \in 1..k : Answer(n, k)[i] = [n |-> n, part |-> i]
<1>1. k \in Nat
  BY PartsAssumption
<1>2. \A i \in 1..k : [n |-> n, part |-> i] \in Parts
  BY PartsAssumption DEF Parts
<1>3. Answer(n, k) \in [1..k -> Parts]
  BY <1>2 DEF Answer
<1> QED
  BY <1>1, <1>3 DEF Answer

-------------------------------------------------------------------------------
(* The inductive invariant.                                                *)

THEOREM InitInv == Init => IInv
<1> SUFFICES ASSUME Init PROVE IInv
  OBVIOUS
<1>1. /\ <<>> \in Seq(0..MaxCommands) /\ <<>> \in Seq(Parts) /\ Len(<<>>) = 0
      /\ 0 \in 0..MaxCommands
  BY EmptySeq, BoundAssumption
<1>2. TypeOK
  <2>1. requests \in Seq(0..MaxCommands) /\ pipe \in Seq(Parts)
    BY <1>1 DEF Init
  <2>2. here \in 0..Len(pipe)
    BY <1>1 DEF Init
  <2>3. reply \in [to : 0..MaxCommands, kind : {"none", "text", "down"},
                   text : Seq(Parts)]
    BY <1>1 DEF Init
  <2>4. issued \in 0..MaxCommands
    BY <1>1 DEF Init
  <2> QED
    BY <2>1, <2>2, <2>3, <2>4 DEF Init, TypeOK
<1>3. RestHasBegun /\ OneAnswer /\ Mode
  BY <1>1 DEF Init, RestHasBegun, OneAnswer, Mode
<1> QED
  BY <1>2, <1>3 DEF IInv

(* A new connection, or none, restores the invariant whatever was left of  *)
(* the old one.                                                            *)
LEMMA RenewInv ==
    ASSUME NEW c \in {"none", "open"}, Renew(c), phase' = "idle",
           issued' \in 0..MaxCommands,
           reply' \in [to : 0..MaxCommands, kind : {"none", "text", "down"},
                       text : Seq(Parts)]
    PROVE  IInv'
<1>1. /\ conn' = c /\ requests' = <<>> /\ pipe' = <<>> /\ here' = 0
      /\ split' = FALSE /\ blocking' = TRUE
  BY DEF Renew, FreshPipe, FreshMode
<1>2. /\ <<>> \in Seq(0..MaxCommands) /\ <<>> \in Seq(Parts) /\ Len(<<>>) = 0
  BY EmptySeq
<1>3. TypeOK'
  <2>1. requests' \in Seq(0..MaxCommands) /\ pipe' \in Seq(Parts)
    BY <1>1, <1>2
  <2>2. here' \in 0..Len(pipe')
    BY <1>1, <1>2
  <2> QED
    BY <1>1, <2>1, <2>2 DEF TypeOK
<1>4. RestHasBegun' /\ OneAnswer' /\ Mode'
  BY <1>1, <1>2 DEF RestHasBegun, OneAnswer, Mode
<1> QED
  BY <1>3, <1>4 DEF IInv

(* A failure changes nothing but the phase, and perhaps the number of the  *)
(* command.                                                                *)
LEMMA FailsInv ==
    ASSUME IInv, Fails, issued' \in 0..MaxCommands,
           issued' = issued \/ phase = "idle"
    PROVE  IInv'
<1>1. /\ phase' = "failed"
      /\ UNCHANGED <<conn, requests, pipe, here, reply, blocking, split>>
  BY DEF Fails
<1>2. TypeOK'
  BY <1>1 DEF IInv, TypeOK
<1>3. RestHasBegun' /\ Mode'
  BY <1>1 DEF RestHasBegun, Mode
<1>4. OneAnswer'
  BY <1>1 DEF IInv, OneAnswer
<1> QED
  BY <1>2, <1>3, <1>4 DEF IInv

(* What is read while nothing was split is one whole answer: the rest of    *)
(* _receiveResponse never runs into the end of the connection unnoticed.   *)
LEMMA WholeAnswer ==
    ASSUME IInv, ReceiveRest, ~split
    PROVE  here = 1 /\ Len(pipe) = 1 /\ pipe # <<>>
<1>1. /\ pipe \in Seq(Parts) /\ here \in 0..Len(pipe)
      /\ conn \in {"none", "open", "eof"}
  BY DEF IInv, TypeOK
<1>2. Len(pipe) \in Nat /\ (Len(pipe) = 0 => pipe = <<>>) /\ Len(<<>>) = 0
  BY <1>1, EmptySeq
<1>3. Len(pipe) <= 1
  BY DEF IInv, OneAnswer
<1>4. here > 0 \/ (conn = "eof" /\ pipe = <<>>)
  BY DEF IInv, RestHasBegun, ReceiveRest
<1>5. ~(conn = "eof" /\ here = Len(pipe))
  BY DEF ReceiveRest, EndOfFile
<1> QED
  BY <1>1, <1>2, <1>3, <1>4, <1>5

THEOREM NextInv == IInv /\ [Next]_vars => IInv'
<1> SUFFICES ASSUME IInv, [Next]_vars PROVE IInv'
  OBVIOUS
<1>0. TypeOK /\ RestHasBegun /\ OneAnswer /\ Mode
  BY DEF IInv
<1>1. CASE Open \/ Close
  <2>1. PICK c \in {"none", "open"} : Renew(c)
    BY <1>1 DEF Open, Close
  <2>2. phase' = "idle" /\ UNCHANGED <<issued, reply>>
    BY <1>1 DEF Open, Close
  <2> QED
    BY <2>1, <2>2, <1>0, RenewInv DEF TypeOK
<1>2. CASE SendCommand
  <2>1. /\ issued + 1 \in 0..MaxCommands
        /\ requests' \in Seq(0..MaxCommands)
        /\ Len(requests') = Len(requests) + 1
        /\ requests'[Len(requests) + 1] = issued'
        /\ \A i \in 1..Len(requests) : requests'[i] = requests[i]
    BY <1>0, <1>2, BoundAssumption DEF SendCommand, TypeOK
  <2>2. TypeOK'
    BY <1>0, <1>2, <2>1 DEF SendCommand, TypeOK
  <2>3. RestHasBegun' /\ Mode'
    BY <1>0, <1>2 DEF SendCommand, RestHasBegun, Mode
  <2>4. OneAnswer'
    <3> SUFFICES ASSUME ~split PROVE OneAnswer'
      BY <1>2 DEF SendCommand, OneAnswer
    <3>1. pipe = <<>> /\ pipe' = <<>> /\ phase' # "idle" /\ Len(pipe') = 0
      BY <1>0, <1>2 DEF SendCommand, OneAnswer
    <3>2. \A i \in 1..Len(requests) : requests[i] = 0
      BY <1>0, <1>2 DEF SendCommand, OneAnswer
    <3>n. Len(requests) \in Nat
      BY <1>0 DEF TypeOK
    <3>3. \A i \in 1..Len(requests') :
             requests'[i] = 0 \/ (requests'[i] = issued' /\ i = Len(requests'))
      <4> SUFFICES ASSUME NEW i \in 1..Len(requests')
                   PROVE  requests'[i] = 0 \/ (requests'[i] = issued' /\ i = Len(requests'))
        OBVIOUS
      <4>1. i \in 1..Len(requests) \/ i = Len(requests) + 1
        BY <2>1, <3>n
      <4> QED
        BY <2>1, <3>2, <4>1
    <3> QED
      BY <3>1, <3>3 DEF OneAnswer
  <2> QED
    BY <2>2, <2>3, <2>4 DEF IInv
<1>3. CASE SendFails
  <2>1. issued + 1 \in 0..MaxCommands /\ issued' = issued + 1
    BY <1>0, <1>3, BoundAssumption DEF SendFails, TypeOK
  <2> QED
    BY <1>3, <2>1, FailsInv DEF SendFails
<1>4. CASE SendKeepalive
  <2>1. /\ requests' \in Seq(0..MaxCommands)
        /\ Len(requests') = Len(requests) + 1
        /\ requests'[Len(requests) + 1] = 0
        /\ \A i \in 1..Len(requests) : requests'[i] = requests[i]
    BY <1>0, <1>4, BoundAssumption DEF SendKeepalive, TypeOK
  <2>2. TypeOK' /\ RestHasBegun' /\ Mode'
    BY <1>0, <1>4, <2>1 DEF SendKeepalive, TypeOK, RestHasBegun, Mode
  <2>3. OneAnswer'
    <3> SUFFICES ASSUME ~split PROVE OneAnswer'
      BY <1>4 DEF SendKeepalive, OneAnswer
    <3>1. pipe = <<>> /\ pipe' = <<>> /\ Len(pipe') = 0
      BY <1>0, <1>4 DEF SendKeepalive, OneAnswer
    <3>2. \A i \in 1..Len(requests) : requests[i] = 0
      BY <1>0, <1>4 DEF SendKeepalive, OneAnswer
    <3>n. Len(requests) \in Nat
      BY <1>0 DEF TypeOK
    <3>3. \A i \in 1..Len(requests') : requests'[i] = 0
      <4> SUFFICES ASSUME NEW i \in 1..Len(requests') PROVE requests'[i] = 0
        OBVIOUS
      <4>1. i \in 1..Len(requests) \/ i = Len(requests) + 1
        BY <2>1, <3>n
      <4> QED
        BY <2>1, <3>2, <4>1
    <3> QED
      BY <3>1, <3>3 DEF OneAnswer
  <2> QED
    BY <2>2, <2>3 DEF IInv
<1>5. CASE FirstByte
  BY <1>0, <1>5 DEF FirstByte, IInv, TypeOK, RestHasBegun, OneAnswer, Mode
<1>6. CASE FirstByteFails \/ ReceiveFails
  <2>1. Fails /\ UNCHANGED issued /\ issued \in 0..MaxCommands
    BY <1>0, <1>6 DEF FirstByteFails, ReceiveFails, TypeOK
  <2> QED
    BY <2>1, FailsInv
<1>7. CASE ReceiveRest
  <2>1. /\ SubSeq(pipe, 1, here) \in Seq(Parts)
        /\ pipe' \in Seq(Parts)
        /\ Len(pipe') = Len(pipe) - here
    <3>1. /\ pipe \in Seq(Parts) /\ here \in 0..Len(pipe)
          /\ 1 \in 1..(Len(pipe) + 1) /\ here + 1 \in 1..(Len(pipe) + 1)
          /\ Len(pipe) \in 0..Len(pipe)
      BY <1>0 DEF TypeOK
    <3>2. pipe' = SubSeq(pipe, here + 1, Len(pipe))
      BY <1>7 DEF ReceiveRest
    <3>3. SubSeq(pipe, 1, here) \in Seq(Parts)
      BY <3>1, SubSeqType
    <3>4. SubSeq(pipe, here + 1, Len(pipe)) \in Seq(Parts)
          /\ Len(SubSeq(pipe, here + 1, Len(pipe))) = Len(pipe) + 1 - (here + 1)
      BY <3>1, SubSeqType
    <3> QED
      BY <3>1, <3>2, <3>3, <3>4
  <2>2. blocking' = TRUE /\ phase' = "idle"
    BY <1>0, <1>7 DEF ReceiveRest, Mode, Toggle, SetMode
  <2>3. TypeOK'
    BY <1>0, <1>7, <2>1, <2>2 DEF ReceiveRest, TypeOK
  <2>4. RestHasBegun' /\ Mode'
    BY <2>2 DEF RestHasBegun, Mode
  <2>5. OneAnswer'
    <3> SUFFICES ASSUME ~split PROVE OneAnswer'
      BY <1>7 DEF ReceiveRest, OneAnswer
    <3>1. here = 1 /\ Len(pipe) = 1 /\ pipe # <<>>
      BY <1>7, WholeAnswer
    <3>2. \A i \in 1..Len(requests) : requests[i] = 0
      BY <1>0, <3>1 DEF OneAnswer
    <3>3. Len(pipe') = 0 /\ pipe' = <<>> /\ UNCHANGED <<requests, issued>>
      BY <2>1, <3>1, <1>7 DEF ReceiveRest
    <3> QED
      BY <3>2, <3>3 DEF OneAnswer
  <2> QED
    BY <2>3, <2>4, <2>5 DEF IInv
<1>8. CASE AnswersCommand
  <2> DEFINE n == Head(requests)
  <2>1. PICK k \in 1..MaxParts : /\ pipe' = pipe \o Answer(n, k)
                                /\ split' = (split \/ k > 1)
    BY <1>8 DEF AnswersCommand
  <2>2. /\ n \in 0..MaxCommands /\ n # 0 /\ n = requests[1]
        /\ requests' \in Seq(0..MaxCommands)
        /\ Len(requests) \in Nat /\ Len(requests) > 0
        /\ Len(requests') = Len(requests) - 1
        /\ \A i \in 1..Len(requests') : requests'[i] = requests[i + 1]
        /\ UNCHANGED <<phase, conn, issued, here, reply, blocking>>
        /\ conn = "open"
    <3>1. /\ requests \in Seq(0..MaxCommands) /\ requests # <<>>
          /\ requests' = Tail(requests) /\ n # 0
      BY <1>0, <1>8 DEF AnswersCommand, TypeOK
    <3>2. UNCHANGED <<phase, conn, issued, here, reply, blocking>> /\ conn = "open"
      BY <1>8 DEF AnswersCommand
    <3> QED
      BY <3>1, <3>2, ReadRequest
  <2>3. /\ Answer(n, k) \in Seq(Parts)
        /\ Len(Answer(n, k)) = k /\ k \in Nat
        /\ \A i \in 1..k : Answer(n, k)[i] = [n |-> n, part |-> i]
    BY <2>2, AnswerType, PartsAssumption
  <2> HIDE DEF n
  <2>4. pipe' \in Seq(Parts) /\ Len(pipe') = Len(pipe) + k /\ Len(pipe) \in Nat
    <3>1. pipe \in Seq(Parts) /\ Len(pipe) \in Nat
      BY <1>0 DEF TypeOK
    <3> QED
      BY <2>1, <2>3, <3>1, ConcatProperties
  <2>5. TypeOK'
    BY <1>0, <2>1, <2>2, <2>4 DEF TypeOK
  <2>6. RestHasBegun' /\ Mode'
    BY <1>0, <2>2 DEF RestHasBegun, Mode
  <2>7. OneAnswer'
    <3> SUFFICES ASSUME ~split' PROVE OneAnswer'
      BY DEF OneAnswer
    <3>1. ~split /\ k = 1
      <4>1. ~split /\ ~(k > 1)
        BY <2>1
      <4> QED
        BY <4>1, <2>3
    <3>2. n = issued /\ Len(requests) = 1 /\ phase # "idle" /\ pipe = <<>>
      BY <1>0, <2>2, <3>1 DEF OneAnswer
    <3>3. pipe' = Answer(n, k)
      BY <2>1, <2>3, <3>2
    <3>4. Len(pipe') = 1 /\ pipe'[1] = [n |-> issued, part |-> 1]
      BY <2>3, <3>1, <3>2, <3>3
    <3>5. Len(requests') = 0
      BY <2>2, <3>2
    <3> QED
      BY <2>2, <3>2, <3>4, <3>5 DEF OneAnswer
  <2> QED
    BY <2>5, <2>6, <2>7 DEF IInv
<1>9. CASE ReadsKeepalive
  <2>1. /\ requests' \in Seq(0..MaxCommands)
        /\ Len(requests) \in Nat /\ Len(requests) > 0
        /\ Len(requests') = Len(requests) - 1
        /\ \A i \in 1..Len(requests') : requests'[i] = requests[i + 1]
        /\ UNCHANGED <<phase, conn, issued, here, reply, blocking>>
        /\ conn = "open"
    <3>1. /\ requests \in Seq(0..MaxCommands) /\ requests # <<>>
          /\ requests' = Tail(requests)
      BY <1>0, <1>9 DEF ReadsKeepalive, TypeOK
    <3>2. UNCHANGED <<phase, conn, issued, here, reply, blocking>> /\ conn = "open"
      BY <1>9 DEF ReadsKeepalive
    <3> QED
      BY <3>1, <3>2, ReadRequest
  <2>2. CASE UNCHANGED <<pipe, split>>
    <3>1. TypeOK' /\ RestHasBegun' /\ Mode'
      BY <1>0, <2>1, <2>2 DEF TypeOK, RestHasBegun, Mode
    <3>2. OneAnswer'
      <4> SUFFICES ASSUME ~split PROVE OneAnswer'
        BY <2>2 DEF OneAnswer
      <4>1. \A i \in 1..Len(requests') :
               \/ requests'[i] = 0
               \/ /\ requests'[i] = issued
                  /\ i = Len(requests')
                  /\ phase # "idle"
                  /\ pipe = <<>>
        <5> SUFFICES ASSUME NEW i \in 1..Len(requests'), requests'[i] # 0
                     PROVE  /\ requests'[i] = issued
                            /\ i = Len(requests')
                            /\ phase # "idle"
                            /\ pipe = <<>>
          OBVIOUS
        <5>1. i + 1 \in 1..Len(requests) /\ requests'[i] = requests[i + 1]
          BY <2>1
        <5>2. /\ requests[i + 1] = issued
              /\ i + 1 = Len(requests)
              /\ phase # "idle"
              /\ pipe = <<>>
          BY <1>0, <5>1 DEF OneAnswer
        <5> QED
          BY <2>1, <5>1, <5>2
      <4> QED
        BY <1>0, <2>1, <2>2, <4>1 DEF OneAnswer
    <3> QED
      BY <3>1, <3>2 DEF IInv
  <2>3. CASE pipe' = pipe \o Answer(0, 1) /\ split' = TRUE
    <3>1. Answer(0, 1) \in Seq(Parts) /\ Len(Answer(0, 1)) = 1
      <4>1. 0 \in 0..MaxCommands /\ 1 \in 1..MaxParts
        BY PartsAssumption, BoundAssumption
      <4> QED
        BY <4>1, AnswerType
    <3>2. pipe' \in Seq(Parts) /\ Len(pipe') = Len(pipe) + 1 /\ Len(pipe) \in Nat
      <4>1. pipe \in Seq(Parts) /\ Len(pipe) \in Nat
        BY <1>0 DEF TypeOK
      <4> QED
        BY <2>3, <3>1, <4>1, ConcatProperties
    <3>3. here' \in 0..Len(pipe')
      BY <1>0, <2>1, <3>2 DEF TypeOK
    <3>4. TypeOK'
      BY <1>0, <2>1, <2>3, <3>2, <3>3 DEF TypeOK
    <3>5. RestHasBegun' /\ OneAnswer' /\ Mode'
      BY <1>0, <2>1, <2>3 DEF RestHasBegun, OneAnswer, Mode
    <3> QED
      BY <3>4, <3>5 DEF IInv
  <2> QED
    BY <1>9, <2>2, <2>3 DEF ReadsKeepalive
<1>10. CASE Arrives
  <2>1. here + 1 \in 0..Len(pipe)
    BY <1>0, <1>10 DEF Arrives, TypeOK
  <2> QED
    BY <1>0, <1>10, <2>1 DEF Arrives, IInv, TypeOK, RestHasBegun, OneAnswer, Mode
<1>11. CASE ProviderCloses
  <2>1. /\ conn' = "eof"
        /\ UNCHANGED <<phase, issued, requests, reply, blocking, split>>
    BY <1>11 DEF ProviderCloses
  <2>2. CASE \E k \in here..Len(pipe) : pipe' = SubSeq(pipe, 1, k) /\ UNCHANGED here
    <3>1. PICK k \in here..Len(pipe) : pipe' = SubSeq(pipe, 1, k) /\ UNCHANGED here
      BY <2>2
    <3>2. /\ pipe \in Seq(Parts) /\ here \in 0..Len(pipe)
          /\ 1 \in 1..(Len(pipe) + 1) /\ k \in 0..Len(pipe) /\ Len(pipe) \in Nat
      BY <1>0 DEF TypeOK
    <3>3. /\ pipe' \in Seq(Parts)
          /\ Len(pipe') = k
          /\ \A i \in 1..k : pipe'[i] = pipe[i]
      BY <3>1, <3>2, SubSeqType
    <3>4. TypeOK'
      BY <1>0, <2>1, <3>1, <3>2, <3>3 DEF TypeOK
    <3>5. pipe = <<>> => pipe' = <<>>
      BY <3>2, <3>3
    <3>6. pipe' # <<>> => k >= 1 /\ pipe # <<>> /\ pipe'[1] = pipe[1]
      BY <3>2, <3>3
    <3>7. RestHasBegun' /\ Mode'
      BY <1>0, <2>1, <3>1, <3>5 DEF RestHasBegun, Mode
    <3>8. OneAnswer'
      BY <1>0, <2>1, <3>2, <3>3, <3>5, <3>6 DEF OneAnswer
    <3> QED
      BY <3>4, <3>7, <3>8 DEF IInv
  <2>3. CASE pipe' = <<>> /\ here' = 0
    BY <1>0, <2>1, <2>3 DEF IInv, TypeOK, RestHasBegun, OneAnswer, Mode
  <2> QED
    BY <1>11, <2>2, <2>3 DEF ProviderCloses
<1>12. CASE Reconnect
  <2>1. /\ phase' = "idle" /\ issued' \in 0..MaxCommands
        /\ reply' \in [to : 0..MaxCommands, kind : {"none", "text", "down"},
                       text : Seq(Parts)]
    BY <1>0, <1>12, EmptySeq DEF Reconnect, TypeOK
  <2>2. PICK c \in {"none", "open"} : Renew(c)
    BY <1>12 DEF Reconnect, ThrownAway
  <2> QED
    BY <2>1, <2>2, RenewInv
<1>13. CASE UNCHANGED vars
  BY <1>0, <1>13 DEF vars, IInv, TypeOK, RestHasBegun, OneAnswer, Mode
<1> QED
  BY <1>1, <1>2, <1>3, <1>4, <1>5, <1>6, <1>7, <1>8, <1>9, <1>10, <1>11, <1>12, <1>13
  DEF Next, Receive, Provider

THEOREM Invariance == Spec => []IInv
<1> QED
  BY InitInv, NextInv, PTL DEF Spec

(* The queues between the program and a provider are well formed: what has *)
(* arrived is never more than what was sent, whatever breaks in between.   *)
THEOREM TypeCorrect == Spec => []TypeOK
<1>1. IInv => TypeOK
  BY DEF IInv
<1> QED
  BY <1>1, Invariance, PTL

(* A command always begins on a blocking socket, so that the first byte of *)
(* its answer is waited for: with the toggle of the Unix library as with   *)
(* the setting of the Windows one, and after a failed read, which leaves   *)
(* the socket not blocking, because the connection is thrown away.         *)
THEOREM FirstByteAlwaysBlocks == Spec => []FirstByteBlocks
<1>1. IInv => FirstByteBlocks
  BY DEF IInv, Mode, FirstByteBlocks
<1> QED
  BY <1>1, Invariance, PTL

-------------------------------------------------------------------------------
(* Answers.                                                                *)

(* While a provider sends its answers whole and ignores keepalives,        *)
(* _receiveResponse returns the answer to the command that was sent.       *)
THEOREM AnswersAreOwn == Spec => OwnAnswer
<1> DEFINE Own == (reply' # reply /\ reply'.kind = "text" /\ ~split) =>
                      reply'.text = <<[n |-> reply'.to, part |-> 1]>>
<1>1. IInv /\ [Next]_vars => [Own]_vars
  <2> SUFFICES ASSUME IInv, [Next]_vars, reply' # reply, reply'.kind = "text", ~split
               PROVE  reply'.text = <<[n |-> reply'.to, part |-> 1]>>
    OBVIOUS
  <2>1. TypeOK /\ RestHasBegun /\ OneAnswer
    BY DEF IInv
  <2>2. ReceiveRest
    BY DEF Next, vars, Open, Close, SendCommand, SendFails, SendKeepalive, Receive,
           FirstByte, FirstByteFails, ReceiveFails, Fails, Reconnect, Provider,
           AnswersCommand, ReadsKeepalive, Arrives, ProviderCloses
  <2>3. here = 1 /\ Len(pipe) = 1 /\ pipe # <<>>
    BY <2>2, WholeAnswer
  <2>4. pipe[1] = [n |-> issued, part |-> 1]
    BY <2>1, <2>3 DEF OneAnswer
  <2>5. reply'.to = issued /\ reply'.text = SubSeq(pipe, 1, 1)
    BY <2>2, <2>3 DEF ReceiveRest
  <2>6. SubSeq(pipe, 1, 1) = <<pipe[1]>>
    BY <2>1, <2>3, Singleton DEF TypeOK
  <2> QED
    BY <2>4, <2>5, <2>6
<1> QED
  BY <1>1, Invariance, PTL DEF Spec, OwnAnswer

===============================================================================
