------------------------------ MODULE ClientLines ------------------------------
(***************************************************************************)
(* What class Client makes of the bytes a user types: Client::getCommands  *)
(* (client.cpp) over the receive loop of the socket library (_recv,        *)
(* socket_impl_unix.cpp).                                                  *)
(*                                                                         *)
(* Each byte may arrive before or after a call, so that every way to cut   *)
(* the input into segments occurs.  The scan for lines moves its offset    *)
(* over every byte it looks at, those of a line without an end included:   *)
(* _recvbufSize is 0 between two calls.  Therefore the test for a flood at *)
(* the top never holds, and nothing is kept for the next call.  Nor is     *)
(* _ignoreBytes ever set: inside its loop _recvbufSize - i is positive.    *)
(***************************************************************************)
EXTENDS Integers, Sequences, SequencesExt, FiniteSetsExt

CONSTANTS
    Letters,    \* bytes without a meaning of their own
    CR, LF,     \* '\r' and '\n'
    IAC,        \* 0xff, the first of the three bytes of a telnet code
    BufSize,    \* the size of _recvbuf, 512
    MaxTyped    \* bound on the bytes a user types

Bytes == Letters \cup {CR, LF, IAC}

ASSUME BufferAssumption == BufSize \in Nat \ {0} /\ MaxTyped \in Nat

ASSUME BytesAssumption == CR # LF

VARIABLES
    signed,     \* plain char is signed: a property of the build
    typed,      \* history: the bytes the user has typed
    taken,      \* how many of them getCommands has scanned
    cuts,       \* history: the places where a scan ended inside a line
    commands,   \* history: the lines getCommands has returned
    closed,     \* the user has closed the connection
    disc        \* _disconnect

lineVars == <<signed, typed, taken, cuts, commands, closed, disc>>

LinesTypeOK ==
    /\ signed \in BOOLEAN
    /\ typed \in Seq(Bytes)
    /\ taken \in 0..Len(typed)
    /\ cuts \subseteq 1..taken
    /\ commands \in Seq(Seq(Bytes))
    /\ closed \in BOOLEAN
    /\ disc \in BOOLEAN

LinesInit ==
    /\ signed \in BOOLEAN
    /\ typed = <<>>
    /\ taken = 0
    /\ cuts = {}
    /\ commands = <<>>
    /\ closed = FALSE
    /\ disc = FALSE

-------------------------------------------------------------------------------
(* The user.                                                               *)

Type ==
    /\ ~closed
    /\ Len(typed) < MaxTyped
    /\ \E b \in Bytes : typed' = Append(typed, b)
    /\ UNCHANGED <<signed, taken, cuts, commands, closed, disc>>

Close ==
    /\ ~closed
    /\ closed' = TRUE
    /\ UNCHANGED <<signed, typed, taken, cuts, commands, disc>>

-------------------------------------------------------------------------------
(* getCommands.                                                            *)

Waiting == Len(typed) - taken

\* recv fills the buffer or takes all there is; it throws when it meets the end
\* of the connection, and what it had read by then is gone.
RecvThrows == closed /\ Waiting < BufSize

Received == SubSeq(typed, taken + 1, taken + Min({Waiting, BufSize}))

\* The scan for telnet codes at one index: the three bytes behind the code are
\* moved over it, whatever follows them stays where it is; a code that is not
\* complete cuts off the rest.
StripAt(buf, i) ==
    IF i > Len(buf) \/ buf[i] # IAC
    THEN buf
    ELSE IF Len(buf) - i + 1 >= 3
         THEN [j \in 1..(Len(buf) - 3) |->
                  IF j \in i..(i + 2) THEN buf[j + 3] ELSE buf[j]]
         ELSE SubSeq(buf, 1, i - 1)

\* A signed char is never equal to 0xff.
Strip(buf) ==
    IF signed THEN buf ELSE FoldLeft(StripAt, buf, [i \in DOMAIN buf |-> i])

KeepsLine(s) == s              \* mutant: the line begun is not started afresh

NewLine(s) == [s EXCEPT !.line = <<>>]

ScanByte(s, b) ==
    CASE b = LF -> NewLine([s EXCEPT !.lines = Append(@, s.line)])
      [] b = CR -> s
      [] OTHER  -> [s EXCEPT !.line = Append(@, b)]

\* The line that has no end yet is dropped.
Scan(buf) == FoldLeft(ScanByte, [lines |-> <<>>, line |-> <<>>], buf).lines

Disconnects ==
    /\ RecvThrows
    /\ disc' = TRUE
    /\ UNCHANGED <<taken, cuts, commands>>

Delivers ==
    /\ ~RecvThrows
    /\ commands' = commands \o Scan(Strip(Received))
    /\ taken' = taken + Len(Received)
    /\ cuts' = IF Received # <<>> /\ Last(Received) # LF
               THEN cuts \cup {taken'}
               ELSE cuts
    /\ UNCHANGED disc

GetCommands ==
    /\ Disconnects \/ Delivers
    /\ UNCHANGED <<signed, typed, closed>>

-------------------------------------------------------------------------------

Places(text, b) == {i \in DOMAIN text : text[i] = b}

\* The part of what was scanned that stands before the first telnet code.
Plain ==
    LET codes == Places(typed, IAC)
    IN  IF codes = {} \/ taken < Min(codes)
        THEN taken
        ELSE Min(codes) - 1

\* The line that ends at p, from place a on, without its CRs.
LessCR(line, b) == IF b = CR THEN line ELSE Append(line, b)
LineFrom(a, p) == FoldLeft(LessCR, <<>>, SubSeq(typed, a, p - 1))

\* Where the line that ends at p begins, and where the last scan that ended
\* inside it did.
Beginning(p) == Max({0} \cup {q \in Places(typed, LF) : q < p}) + 1
LastCut(p) == Max({Beginning(p) - 1} \cup {q \in cuts : q < p}) + 1

\* getCommands over every segmentation: each line that is typed and read becomes
\* one command, none is invented, merged or given twice; it is the whole line
\* if it arrived in one piece, and what came after the last cut otherwise.
\* Telnet codes do not disturb the lines before them.  Of the lines from the
\* first code on this says nothing: codes are to be ignored, and the scan misses
\* them where char is signed and garbles what follows where it is not.
EveryLineOnce ==
    LET ends  == {p \in Places(typed, LF) : p <= Plain}
        count == Cardinality(ends)
        Nth(p) == Cardinality({q \in ends : q <= p})
    IN  /\ Len(commands) >= count
        /\ Plain = taken => Len(commands) = count
        /\ \A p \in ends : commands[Nth(p)] = LineFrom(LastCut(p), p)

===============================================================================
