---------------------------- MODULE ResponseStream ----------------------------
(***************************************************************************)
(* The bytes between l2netmgr and one provider: Server::sendCommand,       *)
(* sendKeepalive and _receiveResponse (server.cpp) over the receive loop   *)
(* of the socket library (socket_impl_unix.cpp).                           *)
(*                                                                         *)
(* The protocol marks no end of an answer.  The program blocks for one     *)
(* byte and then takes, without blocking, what has arrived by then.  A     *)
(* part is a piece of an answer that arrives at once; commands are         *)
(* numbered, and 0 stands for a keepalive.                                 *)
(*                                                                         *)
(* Abstracted: what commands and answers say, the translation of return    *)
(* codes, and answers that fill the receive buffer.  When connections are  *)
(* opened and closed is the subject of Server and left open here.          *)
(***************************************************************************)
EXTENDS Integers, Sequences

CONSTANTS
    MaxParts,          \* parts a provider may send one answer in
    KeepaliveAnswers,  \* TRUE if a provider may answer a keepalive
    MaxCommands,       \* bound on the commands that are sent
    MaxUnread          \* bound on requests and parts unread when one is sent

ASSUME PartsAssumption == MaxParts \in Nat \ {0} /\ KeepaliveAnswers \in BOOLEAN

ASSUME BoundAssumption == MaxCommands \in Nat /\ MaxUnread \in Nat

VARIABLES
    phase,        \* "idle"; in _receiveResponse: "first" byte, the "rest"; or
                  \* "failed": sendCommand has returned false to send_command
    conn,         \* "none", "open", or "eof": the provider has closed its end
    issued,       \* the number of the last command
    requests,     \* sent to the provider and not yet read by it
    pipe,         \* parts of answers on their way to the program
    here,         \* how many of them have arrived
    reply,        \* the last outcome of a command
    blocking,     \* the mode of the socket of the connection
    split         \* history: on this connection an answer came in several
                  \* parts, or a keepalive was answered

vars == <<phase, conn, issued, requests, pipe, here, reply, blocking, split>>

Parts == [n : 0..MaxCommands, part : 1..MaxParts]

TypeOK ==
    /\ phase \in {"idle", "first", "rest", "failed"}
    /\ conn \in {"none", "open", "eof"}
    /\ issued \in 0..MaxCommands
    /\ requests \in Seq(0..MaxCommands)
    /\ pipe \in Seq(Parts)
    /\ here \in 0..Len(pipe)
    /\ reply \in [to : 0..MaxCommands, kind : {"none", "text", "down"},
                  text : Seq(Parts)]
    /\ blocking \in BOOLEAN
    /\ split \in BOOLEAN

Init ==
    /\ phase = "idle"
    /\ conn = "none"
    /\ issued = 0
    /\ requests = <<>>
    /\ pipe = <<>>
    /\ here = 0
    /\ reply = [to |-> 0, kind |-> "none", text |-> <<>>]
    /\ blocking = TRUE
    /\ split = FALSE

-------------------------------------------------------------------------------
(* The connection.                                                         *)

FreshPipeKept == UNCHANGED <<pipe, here>>    \* mutant: unread parts survive
FreshPipeHalf == pipe' = <<>> /\ UNCHANGED here      \* mutant: so do their bytes

FreshPipe == pipe' = <<>> /\ here' = 0

FreshMode == blocking' = TRUE

\* connect and disconnect: a new Socket, or none, with nothing in it.
Renew(c) ==
    /\ conn' = c
    /\ requests' = <<>>
    /\ FreshPipe
    /\ FreshMode
    /\ split' = FALSE

\* setSockOpt(blocking): the Unix library toggles the flag of the descriptor, the
\* Windows library sets the mode.
Toggle == blocking' = ~blocking
SetMode == blocking' = TRUE

Open ==
    /\ phase = "idle"
    /\ conn = "none"
    /\ Renew("open")
    /\ UNCHANGED <<phase, issued, reply>>

Close ==
    /\ phase = "idle"
    /\ conn # "none"
    /\ Renew("none")
    /\ UNCHANGED <<phase, issued, reply>>

-------------------------------------------------------------------------------
(* The program.                                                            *)

Unread == Len(requests) + Len(pipe)

SendCommand ==
    /\ phase = "idle"
    /\ conn # "none"
    /\ issued < MaxCommands
    /\ Unread < MaxUnread
    /\ phase' = "first"
    /\ issued' = issued + 1
    /\ requests' = Append(requests, issued + 1)
    /\ UNCHANGED <<conn, pipe, here, reply, blocking, split>>

\* sendCommand returns false.  The socket is left as it is, which after the first
\* byte of an answer means: not blocking.
Fails ==
    /\ phase' = "failed"
    /\ UNCHANGED <<conn, requests, pipe, here, reply, blocking, split>>

\* A send may fail once the provider has closed its end.
SendFails ==
    /\ phase = "idle"
    /\ conn = "eof"
    /\ issued < MaxCommands
    /\ issued' = issued + 1
    /\ Fails

\* The answer is not waited for.
SendKeepalive ==
    /\ phase = "idle"
    /\ conn # "none"
    /\ Unread < MaxUnread
    /\ requests' = Append(requests, 0)
    /\ UNCHANGED <<phase, conn, issued, pipe, here, reply, blocking, split>>

EndOfFileMissed == FALSE         \* mutant: recv's 0 is taken for "no data"

\* What recv reports after the last part, and throws away what it had read.
EndOfFile == conn = "eof" /\ here = Len(pipe)

FirstByte ==
    /\ phase = "first"
    /\ here > 0
    /\ phase' = "rest"
    /\ blocking' = FALSE
    /\ UNCHANGED <<conn, issued, requests, pipe, here, reply, split>>

FirstByteFails ==
    /\ phase = "first"
    /\ here = 0
    /\ EndOfFile
    /\ Fails
    /\ UNCHANGED issued

\* What has arrived is the answer; the rest stays for the next command.
ReceiveRest ==
    /\ phase = "rest"
    /\ ~EndOfFile
    /\ phase' = "idle"
    /\ reply' = [to |-> issued, kind |-> "text", text |-> SubSeq(pipe, 1, here)]
    /\ pipe' = SubSeq(pipe, here + 1, Len(pipe))
    /\ here' = 0
    /\ Toggle \/ SetMode
    /\ UNCHANGED <<conn, issued, requests, split>>

ReceiveFails ==
    /\ phase = "rest"
    /\ EndOfFile
    /\ Fails
    /\ UNCHANGED issued

Receive == FirstByte \/ FirstByteFails \/ ReceiveRest \/ ReceiveFails

KeptUp == UNCHANGED <<conn, requests, pipe, here, blocking, split>>
                                 \* mutant: the connection is used again

\* disconnect, and connect_server or lost_server.
ThrownAway == Renew("open") \/ Renew("none")

\* send_command, when sendCommand has failed: the user is told that the provider
\* is down; the command is not sent again.
Reconnect ==
    /\ phase = "failed"
    /\ phase' = "idle"
    /\ reply' = [to |-> issued, kind |-> "down", text |-> <<>>]
    /\ ThrownAway
    /\ UNCHANGED issued

-------------------------------------------------------------------------------
(* The provider and the network.                                           *)

Answer(n, k) == [i \in 1..k |-> [n |-> n, part |-> i]]

AnswersCommand ==
    /\ conn = "open"
    /\ requests # <<>>
    /\ Head(requests) # 0
    /\ \E k \in 1..MaxParts :
          /\ pipe' = pipe \o Answer(Head(requests), k)
          /\ split' = (split \/ k > 1)
    /\ requests' = Tail(requests)
    /\ UNCHANGED <<phase, conn, issued, here, reply, blocking>>

ReadsKeepalive ==
    /\ conn = "open"
    /\ requests # <<>>
    /\ Head(requests) = 0
    /\ \/ UNCHANGED <<pipe, split>>
       \/ /\ KeepaliveAnswers
          /\ pipe' = pipe \o Answer(0, 1)
          /\ split' = TRUE
    /\ requests' = Tail(requests)
    /\ UNCHANGED <<phase, conn, issued, here, reply, blocking>>

Arrives ==
    /\ here < Len(pipe)
    /\ here' = here + 1
    /\ UNCHANGED <<phase, conn, issued, requests, pipe, reply, blocking, split>>

\* The provider closes its end after some of the parts, or the connection is
\* reset and everything unread is gone.
ProviderCloses ==
    /\ conn = "open"
    /\ conn' = "eof"
    /\ \/ \E k \in here..Len(pipe) : pipe' = SubSeq(pipe, 1, k) /\ UNCHANGED here
       \/ pipe' = <<>> /\ here' = 0
    /\ UNCHANGED <<phase, issued, requests, reply, blocking, split>>

Provider == AnswersCommand \/ ReadsKeepalive

Next ==
    \/ Open
    \/ Close
    \/ SendCommand
    \/ SendFails
    \/ SendKeepalive
    \/ Receive
    \/ Reconnect
    \/ Provider
    \/ Arrives
    \/ ProviderCloses

Spec == Init /\ [][Next]_vars

\* The thread runs, a provider reads what it is sent and answers commands, and
\* the network delivers.
FairSpec ==
    /\ Spec
    /\ WF_vars(Receive)
    /\ WF_vars(Reconnect)
    /\ WF_vars(Provider)
    /\ WF_vars(Arrives)

-------------------------------------------------------------------------------

\* As long as a provider sends each answer at once and says nothing to a
\* keepalive, what a command is answered with (_receiveResponse) is its own
\* answer and nothing else: nothing of an earlier command, and nothing that
\* was left on an earlier connection.
OwnAnswer ==
    [][(reply' # reply /\ reply'.kind = "text" /\ ~split) =>
            reply'.text = <<[n |-> reply'.to, part |-> 1]>>]_vars

\* The first byte of an answer is waited for: every command finds the socket
\* blocking, whichever way the last one ended.  _receiveResponse does not see to
\* this when its second recv throws (it returns with the socket not blocking);
\* send_command does, who never sends on that connection again.
FirstByteBlocks == (conn # "none" /\ phase \in {"idle", "first"}) => blocking

\* The program is not stuck in a command: it is answered, or the end of the
\* connection is noticed.
CommandEnds == phase # "idle" ~> phase = "idle"

\* Comment at the top of l2netmgr.cpp: "if user A issues a command, user B's
\* commands will not be read until user A's command completes".  The next
\* command is sent although parts of the answer to the last are still coming.
Serialized ==
    [][(phase = "idle" /\ phase' = "first") =>
            /\ \A i \in 1..Len(pipe) : pipe[i].n = 0
            /\ \A i \in 1..Len(requests) : requests[i] = 0]_vars

===============================================================================
