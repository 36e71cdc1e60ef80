------------------------------- MODULE SendLoop -------------------------------
(***************************************************************************)
(* Sending replies over the non-blocking socket of one client: the loop in *)
(* SocketImplUnix::_send (socket_impl_unix.cpp; the one of                 *)
(* socket_impl_win32.cpp is the same), which calls send(2) until all bytes *)
(* are gone.                                                               *)
(*                                                                         *)
(* The result of send(2) is added to the count before it is looked at, so  *)
(* that a call that would block takes one byte back; the loop then goes on *)
(* from there until the count arrives at -1.  Every call of send(2) is a   *)
(* step: the user reads, or the connection breaks, between any two.        *)
(*                                                                         *)
(* A byte is named by the number of its reply and its position.            *)
(***************************************************************************)
EXTENDS Integers, Sequences

CONSTANTS
    Length,     \* bytes of a reply
    Room,       \* bytes the kernel holds for a user who does not read them
    MaxRead     \* bound on the bytes the user reads

ASSUME SendAssumption == Length \in Nat \ {0} /\ Room \in Nat /\ MaxRead \in Nat

VARIABLES
    msg,        \* the number of the last reply
    sending,    \* the program is in _send
    sent,       \* its count of bytes sent
    ret,        \* the outcome of its last call of send(2)
    returned,   \* what the last _send returned, or NoCount if it threw
    stream,     \* history: the bytes the kernel has taken
    read,       \* how many of them the user has read
    broken,     \* the connection has been reset
    blocked     \* history: a call of send(2) would have blocked

sendVars == <<msg, sending, sent, ret, returned, stream, read, broken, blocked>>

Outcomes == {"took", "again", "error"}
NoCount == -1

SendTypeOK ==
    /\ msg \in Nat
    /\ sending \in BOOLEAN
    /\ sent \in -1..Length
    /\ ret \in Outcomes
    /\ returned \in -1..Length
    /\ stream \in Seq(Nat \X (1..Length))
    /\ read \in 0..Len(stream)
    /\ broken \in BOOLEAN
    /\ blocked \in BOOLEAN

SendInit ==
    /\ msg = 0
    /\ sending = FALSE
    /\ sent = Length
    /\ ret = "took"
    /\ returned = NoCount
    /\ stream = <<>>
    /\ read = 0
    /\ broken = FALSE
    /\ blocked = FALSE

-------------------------------------------------------------------------------
(* The loop.                                                               *)

StartSend ==
    /\ ~sending
    /\ sending' = TRUE
    /\ msg' = msg + 1
    /\ sent' = 0
    /\ UNCHANGED <<ret, returned, stream, read, broken, blocked>>

LoopEndsWhole == sent = Length      \* mutant: no test for -1

LoopEnds == sent \in {Length, -1}

Free == Room - (Len(stream) - read)

Piece(from, n) == [i \in 1..n |-> <<msg, from + i>>]

TakesFromStart(n) == stream' = stream \o Piece(0, n)     \* mutant: "data", not "data + sent"

Takes(n) == stream' = stream \o Piece(sent, n)

KernelTakes ==
    /\ ~broken
    /\ \E n \in 1..(Length - sent) :
          /\ n <= Free
          /\ Takes(n)
          /\ sent' = sent + n
    /\ ret' = "took"
    /\ UNCHANGED <<broken, blocked>>

TakeBackNone == sent' = sent      \* mutant: the loop waits for the user to read

\* sent += -1
TakeBack == sent' = sent - 1

WouldBlock ==
    /\ ~broken
    /\ Free <= 0
    /\ TakeBack
    /\ ret' = "again"
    /\ blocked' = TRUE
    /\ UNCHANGED <<stream, broken>>

SendError ==
    /\ broken
    /\ TakeBack
    /\ ret' = "error"
    /\ UNCHANGED <<stream, broken, blocked>>

CallSend ==
    /\ sending
    /\ ~LoopEnds
    /\ KernelTakes \/ WouldBlock \/ SendError
    /\ UNCHANGED <<msg, sending, returned, read>>

\* After the loop: -1 is put back, and EWOULDBLOCK is not an error.
EndSend ==
    /\ sending
    /\ LoopEnds
    /\ sending' = FALSE
    /\ returned' = CASE ret = "took"  -> sent
                     [] ret = "again" -> sent + 1
                     [] ret = "error" -> NoCount
    /\ UNCHANGED <<msg, sent, ret, stream, read, broken, blocked>>

Threw == ret = "error"

-------------------------------------------------------------------------------
(* The user.                                                               *)

UserReads ==
    /\ read < Len(stream)
    /\ read < MaxRead
    /\ read' = read + 1
    /\ UNCHANGED <<msg, sending, sent, ret, returned, stream, broken, blocked>>

\* Data has reached a user who is no longer there.
Reset ==
    /\ ~broken
    /\ broken' = TRUE
    /\ UNCHANGED <<msg, sending, sent, ret, returned, stream, read, blocked>>

-------------------------------------------------------------------------------

\* A byte is followed by the next one of its reply or by an earlier one again,
\* and a reply begins with its first byte.
NoGap(a, b) ==
    \/ b[1] = a[1] /\ b[2] <= a[2] + 1
    \/ b[1] > a[1] /\ b[2] = 1

\* A byte is followed by the next one, and the last one by the next reply.
Successor(a, b) ==
    \/ a[2] < Length /\ b = <<a[1], a[2] + 1>>
    \/ a[2] = Length /\ b = <<a[1] + 1, 1>>

NothingSkipped ==
    /\ stream # <<>> => stream[1][2] = 1
    /\ \A i \in 1..(Len(stream) - 1) : NoGap(stream[i], stream[i + 1])

OnceEach ==
    /\ stream # <<>> => stream[1] = <<1, 1>>
    /\ \A i \in 1..(Len(stream) - 1) : Successor(stream[i], stream[i + 1])

Delivered == stream # <<>> /\ stream[Len(stream)] = <<msg, Length>>

\* What a user is sent (_send), in pieces that the kernel chooses while he
\* reads as he likes: no byte of a reply is ever skipped, a reply that counts as
\* sent is there to its end, and as long as the kernel always had room for a
\* byte every byte is there exactly once.
RepliesIntact ==
    /\ NothingSkipped
    /\ (~sending /\ returned = Length) => Delivered
    /\ ~blocked => OnceEach

\* socket_impl.hpp of _send: "@return Number of bytes actually sent".  After a
\* call that would have blocked the bytes of this reply that are gone are not
\* counted, and those that are sent again are.
ReportsBytesSent ==
    (~sending /\ returned # NoCount) =>
        returned = Len(SelectSeq(stream, LAMBDA b : b[1] = msg))

===============================================================================
