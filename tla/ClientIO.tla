-------------------------------- MODULE ClientIO --------------------------------
(***************************************************************************)
(* One client that has logged in and types commands, at the level of bytes: *)
(* handle_client_input (l2netmgr.cpp) reads lines (ClientLines) and answers *)
(* each with one reply (SendLoop), while the user goes on typing, reads as *)
(* he likes, or leaves.                                                    *)
(*                                                                         *)
(* What the commands do is the subject of MainLoop and Server.             *)
(***************************************************************************)
EXTENDS ClientLines, SendLoop

VARIABLES
    phase,      \* "select", "input" in handle_client_input, "gone"
    batch       \* the lines that have not been looked at

vars == <<lineVars, sendVars, phase, batch>>

TypeOK ==
    /\ LinesTypeOK
    /\ SendTypeOK
    /\ phase \in {"select", "input", "gone"}
    /\ batch \in Seq(Seq(Bytes))

Init ==
    /\ LinesInit
    /\ SendInit
    /\ phase = "select"
    /\ batch = <<>>

-------------------------------------------------------------------------------
(* The program.                                                            *)

Readable == Waiting > 0 \/ closed

ReadInput ==
    /\ phase = "select"
    /\ Readable
    /\ GetCommands
    /\ batch' = SubSeq(commands', Len(commands) + 1, Len(commands'))
    /\ phase' = "input"
    /\ UNCHANGED sendVars

InHand == phase = "input" /\ ~sending /\ batch # <<>>

\* handle_client_input returns at a blank line.
BlankLine ==
    /\ InHand
    /\ Head(batch) = <<>>
    /\ batch' = <<>>
    /\ UNCHANGED <<lineVars, sendVars, phase>>

\* send_command or send_help.
Reply ==
    /\ InHand
    /\ Head(batch) # <<>>
    /\ StartSend
    /\ batch' = Tail(batch)
    /\ UNCHANGED <<lineVars, phase>>

Send ==
    /\ CallSend
    /\ UNCHANGED <<lineVars, phase, batch>>

\* An error marks the client; the lines that are left are served all the same.
ReplyEnds ==
    /\ EndSend
    /\ disc' = (disc \/ Threw)
    /\ UNCHANGED <<signed, typed, taken, cuts, commands, closed, phase, batch>>

InputEnds ==
    /\ phase = "input"
    /\ ~sending
    /\ batch = <<>>
    /\ phase' = IF disc THEN "gone" ELSE "select"
    /\ UNCHANGED <<lineVars, sendVars, batch>>

Program == ReadInput \/ BlankLine \/ Reply \/ Send \/ ReplyEnds \/ InputEnds

-------------------------------------------------------------------------------
(* The user, as long as the program keeps the connection.                  *)

User ==
    /\ phase # "gone"
    /\ \/ (Type \/ Close) /\ UNCHANGED sendVars
       \/ ~closed /\ UserReads /\ UNCHANGED lineVars
       \/ closed /\ Reset /\ UNCHANGED lineVars
    /\ UNCHANGED <<phase, batch>>

Next == Program \/ User

Spec == Init /\ [][Next]_vars

\* The one thread runs; the user need not do anything.
FairSpec == Spec /\ WF_vars(Program)

-------------------------------------------------------------------------------

\* The sockets of clients do not block: a user who at some time stops reading
\* (MaxRead makes every user one) does not keep the loop, whatever he has read
\* before, and the others get their turn.  One who goes on reading may: each byte
\* that a call which would block has taken off the count can be made up for by
\* one that he makes room for.
InputHandled == <>[][UNCHANGED read]_vars => (phase = "input" ~> phase # "input")

===============================================================================
