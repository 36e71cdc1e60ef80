------------------------------- MODULE MCLibrary -------------------------------
(***************************************************************************)
(* Small instances of CommandFactory.tla, ConfigFile.tla and Endian.tla,   *)
(* which share no state: every behaviour is one of one of the three, and   *)
(* the others stay as they are.                                            *)
(***************************************************************************)
EXTENDS CommandFactory, ConfigFile, Endian

allVars == <<file, commands, confVars, endianVars>>

AllInit == Init /\ ConfInit /\ EndianInit

FactoryIdle == file = <<>>
ConfigIdle  == conf = <<>> /\ whole /\ running = "stopped"
EndianIdle  == EndianInit /\ big = [e \in Ends |-> FALSE]

AllNext ==
    \/ ConfigIdle /\ EndianIdle /\ Next /\ UNCHANGED <<confVars, endianVars>>
    \/ FactoryIdle /\ EndianIdle /\ ConfNext /\ UNCHANGED <<vars, endianVars>>
    \/ FactoryIdle /\ ConfigIdle /\ EndianNext /\ UNCHANGED <<vars, confVars>>

AllSpec == AllInit /\ [][AllNext]_allVars

-------------------------------------------------------------------------------
(* Definition files with every signature of up to three pieces, a name     *)
(* defined twice and a line that is too long, and commands with up to two  *)
(* arguments of one to four characters.                                    *)

Pieces == {<<"{", "0", "}">>, <<"{", "1", "}">>, <<"x">>, <<" ">>}

RECURSIVE Signatures(_)
Signatures(n) ==
    IF n = 1
    THEN Pieces
    ELSE LET shorter == Signatures(n - 1)
         IN  shorter \cup {s \o p : s \in shorter, p \in Pieces}

Authors(name, minargs, signature, extra) ==
    [name |-> name, minargs |-> minargs, signature |-> signature,
     help |-> <<"h", " ">>, extra |-> extra]

c == <<"c">>
d == <<"d">>
Raw == <<RawReturn>>
TwoWords == <<<<"r">>, <<"r">>>>
SomeAlphabet ==
    {Quote, Space, "{", "}", "a", "b", "c", "d", "e", "h", "r", "w", "x"} \cup ToSet(Digits)

SomeFiles ==
    {<<Authors(c, 1, s, <<>>)>> : s \in Signatures(3)}
    \cup {<<Authors(c, 2, s, e), Authors(d, 0, t, Raw), Authors(c, 0, t, <<>>)>> :
             s \in Signatures(2), t \in Pieces, e \in {<<>>, Raw, TwoWords}}

Args == {<<"a">>, <<"a", "b">>, <<"a", "b", "c">>, <<"a", "b", "c", "d">>}

SomeTyped ==
    {<<n>> : n \in {c, d, <<"e">>}}
    \cup {<<n, x>> : n \in {c, d}, x \in Args \cup {<<"{", "1", "}">>}}
    \cup {<<n, x, y>> : n \in {c, d}, x, y \in Args}

-------------------------------------------------------------------------------
(* Configuration files of up to two entries of two keys: with blanks, a    *)
(* carriage return, no value, no separator, a value that is too long, one  *)
(* that is too long when it is saved, and a blank line; values that begin  *)
(* or end with what separates.                                             *)

k == <<"k">>
l == <<"l">>
v == <<"v">>
SomeKeys == {k, l}
SomeChars == {" ", "\r", "=", "d", "k", "l", "m", "v", "w", "z"}
SomeDefault(key) == <<"d">> \o key

SomeValues == {<<>>, v, <<"v", " ", "=">>, <<" ", "v">>, <<"=", "v">>}

Writes(before, key, sep, value, after) ==
    [before |-> before, key |-> key, sep |-> sep, value |-> value, after |-> after]

SomeEntries ==
    {Writes(<<" ">>, k, <<" ", "=", " ">>, v, <<"\r">>),
     Writes(<<>>, k, <<"=">>, <<"w", "=">>, <<>>),
     Writes(<<>>, l, <<" ">>, v, <<>>),
     Writes(<<>>, l, <<"=">>, <<>>, <<>>),
     Writes(<<>>, l, <<>>, <<>>, <<"\r">>),
     Writes(<<>>, k, <<"=">>, <<"v", "v", "v", "v", "v", "v">>, <<>>),
     Writes(<<>>, k, <<"=">>, <<"v", "v", "v", "v", "v">>, <<>>),
     Writes(<<" ">>, <<>>, <<>>, <<>>, <<"\r">>),
     Writes(<<>>, <<"m">>, <<"=">>, v, <<>>)}

SomeAuthored == UNION {[1..n -> SomeEntries] : n \in 0..2}

SomeRubbish == {<<" ", "=", " ">>, <<>>, <<"z">>}

-------------------------------------------------------------------------------

SomeOctets == {"1", "2", "3", "4"}
SomeNumbers == {<<"1">>, <<"1", "2">>, <<"1", "2", "3", "4">>}

===============================================================================
