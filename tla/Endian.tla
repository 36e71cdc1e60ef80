--------------------------------- MODULE Endian ---------------------------------
(***************************************************************************)
(* The negotiation by which two programs that use the socket library agree *)
(* who swaps bytes (negotiateEndianClient, negotiateEndianServer), and the *)
(* templates send and recv that swap (socket_impl.hpp).  l2netmgr does not *)
(* call them.                                                              *)
(*                                                                         *)
(* A number is written with its most significant byte first; in the memory *)
(* of a little-endian machine, and so on the wire, it stands reversed.     *)
(* The Unix and the Windows library have the same code: the client is      *)
(* translated from the one, the server from the other.                     *)
(***************************************************************************)
EXTENDS Integers, Sequences, SequencesExt, FiniteSetsExt

CONSTANTS
    Octets,         \* the bytes of the numbers
    Numbers,        \* what is sent after the negotiation
    MaxSent         \* bound on the numbers each end sends

\* What is sent has one, two or four bytes: the templates do not swap a number
\* of eight ("likely not 64-bit safe").
ASSUME NumbersAssumption == Numbers \subseteq UNION {[1..size -> Octets] : size \in {1, 2, 4}}

Ends == {"client", "server"}
Peer(e) == CHOOSE p \in Ends : p # e

Magic == <<"de", "ad", "be", "ef">>
Swap  == <<"ff", "ff", "ff", "ff">>
Keep  == <<"00", "00", "00", "00">>
WordBytes == {"de", "ad", "be", "ef", "ff", "00"}

VARIABLES
    big,        \* whether the machine is big-endian
    result,     \* of the negotiation: "none" yet, "waits", "true", "false"
    swap,       \* _swap
    wire,       \* the bytes on their way to an end
    broken,     \* the connection is gone
    split,      \* history: a word of the negotiation did not come in one lump
    out,        \* history: the numbers an end has sent
    got         \* the numbers it has received

endianVars == <<big, result, swap, wire, broken, split, out, got>>

EndianInit ==
    /\ big \in [Ends -> BOOLEAN]
    /\ result = [client |-> "none", server |-> "waits"]
    /\ swap = [e \in Ends |-> FALSE]
    /\ wire = [e \in Ends |-> <<>>]
    /\ broken = FALSE
    /\ split = FALSE
    /\ out = [e \in Ends |-> <<>>]
    /\ got = [e \in Ends |-> <<>>]

-------------------------------------------------------------------------------
(* Words.                                                                  *)

\* From a number to its bytes in memory, and back.
Memory(e, number) == IF big[e] THEN number ELSE Reverse(number)

\* One call of recv(2) takes at least a byte, or returns 0 at the end of the
\* connection, which neither side looks at.
Lumps(e) ==
    (1..Min({4, Len(wire[e])})) \cup (IF broken THEN {0} ELSE {})

\* The rest of the word is what was in memory before.
Word(e, n, before) == Memory(e, SubSeq(wire[e], 1, n) \o SubSeq(before, n + 1, 4))

Take(e, n) == [wire EXCEPT ![e] = SubSeq(@, n + 1, Len(@))]

Fails(e) ==
    /\ broken
    /\ result' = [result EXCEPT ![e] = "false"]
    /\ UNCHANGED <<swap, wire, split>>

-------------------------------------------------------------------------------
(* The client.                                                             *)

Asks ==
    /\ ~broken
    /\ wire' = [wire EXCEPT !["server"] = Memory("client", Magic)]
    /\ result' = [result EXCEPT !["client"] = "waits"]
    /\ UNCHANGED <<swap, split>>

ClientSends ==
    /\ result["client"] = "none"
    /\ Asks \/ Fails("client")
    /\ UNCHANGED <<big, broken, out, got>>

Decides(word) ==
    /\ swap' = [swap EXCEPT !["client"] = (word = Swap)]
    /\ result' = [result EXCEPT
                     !["client"] = IF word \in {Swap, Keep} THEN "true" ELSE "false"]

TakesAnswer ==
    \E n \in Lumps("client") :
        /\ Decides(Word("client", n, Memory("client", Magic)))
        /\ wire' = Take("client", n)
        /\ split' = (split \/ n < 4)

ClientReceives ==
    /\ result["client"] = "waits"
    /\ TakesAnswer \/ Fails("client")
    /\ UNCHANGED <<big, broken, out, got>>

-------------------------------------------------------------------------------
(* The server.                                                             *)

AnswerKeeps(word) == Keep       \* mutant: a big-endian server asks for nothing

\* Little-endian machines swap.
Answer(word) == IF word # Magic /\ big["server"] THEN Swap ELSE Keep
ServerSwaps(word) == word # Magic /\ ~big["server"]

Accepts(word) ==
    /\ word \in {Magic, Reverse(Magic)}
    /\ swap' = [swap EXCEPT !["server"] = ServerSwaps(word)]

\* The word is not initialised.  A send into a broken connection need not fail.
TakesQuestion ==
    \E n \in Lumps("server") : \E before \in [1..4 -> WordBytes] :
        LET word == Word("server", n, before)
        IN  /\ \/ /\ Accepts(word)
                  /\ result' = [result EXCEPT !["server"] = "true"]
                  /\ wire' = IF broken
                             THEN Take("server", n)
                             ELSE [Take("server", n) EXCEPT !["client"] = Answer(word)]
               \/ /\ word \notin {Magic, Reverse(Magic)}
                  /\ result' = [result EXCEPT !["server"] = "false"]
                  /\ wire' = Take("server", n)
                  /\ UNCHANGED swap
            /\ split' = (split \/ n < 4)

ServerReceives ==
    /\ result["server"] = "waits"
    /\ TakesQuestion \/ Fails("server")
    /\ UNCHANGED <<big, broken, out, got>>

-------------------------------------------------------------------------------
(* Numbers.                                                                *)

SwappedWords(e, bytes) ==       \* mutant: only those of four bytes
    IF swap[e] /\ Len(bytes) = 4 THEN Reverse(bytes) ELSE bytes

\* htonl and the like, which do nothing on a big-endian machine.
Swapped(e, bytes) ==
    IF swap[e] /\ Len(bytes) \in {2, 4} /\ ~big[e] THEN Reverse(bytes) ELSE bytes

SendNumber(e) ==
    /\ result[e] = "true"
    /\ ~broken
    /\ Len(out[e]) < MaxSent
    /\ \E number \in Numbers :
          /\ wire' = [wire EXCEPT ![Peer(e)] = @ \o Swapped(e, Memory(e, number))]
          /\ out' = [out EXCEPT ![e] = Append(@, number)]
    /\ UNCHANGED <<big, result, swap, broken, split, got>>

\* The receiver knows what is sent next, and _recv waits for all of it.
RecvNumber(e) ==
    /\ result[e] = "true"
    /\ Len(got[e]) < Len(out[Peer(e)])
    /\ LET size  == Len(out[Peer(e)][Len(got[e]) + 1])
           bytes == SubSeq(wire[e], 1, size)
       IN  /\ Len(wire[e]) >= size
           /\ got' = [got EXCEPT ![e] = Append(@, Memory(e, Swapped(e, bytes)))]
           /\ wire' = Take(e, size)
    /\ UNCHANGED <<big, result, swap, broken, split, out>>

Breaks ==
    /\ ~broken
    /\ broken' = TRUE
    /\ UNCHANGED <<big, result, swap, wire, split, out, got>>

EndianNext ==
    \/ ClientSends
    \/ ClientReceives
    \/ ServerReceives
    \/ \E e \in Ends : SendNumber(e) \/ RecvNumber(e)
    \/ Breaks

EndianSpec == EndianInit /\ [][EndianNext]_endianVars

-------------------------------------------------------------------------------

\* When the client has been told that it may go on, so has the server, and
\* exactly one of them swaps (negotiateEndianClient, negotiateEndianServer) if
\* and only if their machines differ: in whatever lumps the words came, and
\* whatever was in memory.
EndsAgree ==
    result["client"] = "true" =>
        /\ result["server"] = "true"
        /\ (swap["client"] # swap["server"]) <=> (big["client"] # big["server"])

\* The numbers of two and four bytes that one end sends are the numbers the
\* other one gets, in their order (send, recv), unless a part of a word of the
\* negotiation was left behind in the socket.
NumbersSurvive ==
    ~split => \A e \in Ends : IsPrefix(got[e], out[Peer(e)])

===============================================================================
