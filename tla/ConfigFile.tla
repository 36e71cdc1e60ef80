------------------------------- MODULE ConfigFile -------------------------------
(***************************************************************************)
(* The configuration and its file, l2netmgr.conf: parseFile and saveFile   *)
(* of am::Config (config.cpp), the defaults that main sets                 *)
(* (l2netmgr.cpp), and the life of the program around them.  Only the      *)
(* Windows program saves the file, when it ends.                           *)
(*                                                                         *)
(* A line, a key and a value are sequences of characters.  saveFile empties *)
(* the file and flushes it line by line, so that a program that is killed  *)
(* in the middle leaves a part of it.  After the last element it goes on   *)
(* to end(), which is undefined: it writes a line of rubbish, or crashes.  *)
(***************************************************************************)
EXTENDS Integers, Sequences, SequencesExt, FiniteSetsExt

CONSTANTS
    Chars,          \* the characters of a text
    Keys,           \* the keys main knows
    Default(_),     \* the value main gives to each of them
    Values,         \* values that are set in the dialog
    Authored,       \* what an administrator may write: sequences of entries
    Rubbish,        \* lines that saveFile may write for end()
    LineSize        \* the size of buf in parseFile, 1024

Blank == " "
CarriageReturn == "\r"
Blanks == {Blank, CarriageReturn}

VARIABLES
    conf,       \* the lines of l2netmgr.conf
    elems,      \* _elems
    running,    \* "stopped", "running", "failed" (main has given up early, but
                \* for the dialog the program is still there), or "saving"
    unsaved,    \* the keys saveFile has not come to
    meant,      \* history: what the file should say of each key
    whole,      \* history: the file was written to its end
    fits        \* history: no line of it is too long to be read again

confVars == <<conf, elems, running, unsaved, meant, whole, fits>>

-------------------------------------------------------------------------------
(* parseFile.                                                              *)

WithoutCR(line) ==
    IF line # <<>> /\ Last(line) = CarriageReturn THEN Front(line) ELSE line

\* The first place from i on that is not in, or is in, a set of characters; the
\* terminating zero stands behind the line and is in no set.
SkipFrom(line, i, chars) ==
    Min({j \in i..Len(line) : line[j] \notin chars} \cup {Len(line) + 1})
FindFrom(line, i, chars) ==
    Min({j \in i..Len(line) : line[j] \in chars} \cup {Len(line) + 1})

KeyEnds == Blanks \cup {"="}

\* The key, and the place behind it.
KeyFrom(line) == SkipFrom(line, 1, Blanks)
KeyTo(line)   == FindFrom(line, KeyFrom(line), KeyEnds)
KeyOf(line)   == SubSeq(line, KeyFrom(line), KeyTo(line) - 1)

SkipsBlanks == Blanks              \* mutant: "=" is taken for the value

\* What stands between a key and its value.
Separators == KeyEnds

ValueOf(line) == SubSeq(line, SkipFrom(line, KeyTo(line) + 1, Separators), Len(line))

Put(table, key, val) ==
    [k \in DOMAIN table \cup {key} |-> IF k = key THEN val ELSE table[k]]

ParseLine(table, line) == Put(table, KeyOf(line), ValueOf(line))

\* getline fails for a line that does not fit, and a key without anything
\* behind it makes parseFile return: in both cases the rest is not read.
EndsParse(line) ==
    LET text == WithoutCR(line)
    IN  \/ Len(line) >= LineSize
        \/ KeyFrom(text) <= Len(text) /\ KeyTo(text) > Len(text)

IsBlank(line) == ToSet(line) \subseteq Blanks

ParseStep(s, line) ==
    IF s.ended \/ EndsParse(line)
    THEN [s EXCEPT !.ended = TRUE]
    ELSE IF IsBlank(line)
         THEN s
         ELSE [s EXCEPT !.table = ParseLine(@, WithoutCR(line))]

ParseFile(lines) ==
    FoldLeft(ParseStep, [table |-> <<>>, ended |-> FALSE], lines).table

\* getString and getInt take an empty value for a missing one.
Missing(table, k) == k \notin DOMAIN table \/ table[k] = <<>>

\* main has given some of its keys their values.
WithDefaults(table, some) ==
    [k \in DOMAIN table \cup some |->
        IF k \in some /\ Missing(table, k) THEN Default(k) ELSE table[k]]

-------------------------------------------------------------------------------
(* The administrator writes entries: a key, what stands around it, a value. *)

Entry(e) == e.before \o e.key \o e.sep \o e.value \o e.after

\* The last entry of a key counts, up to a line that ends the reading.
MeantBy(entries) ==
    LET bad  == {i \in DOMAIN entries : EndsParse(Entry(entries[i]))}
        read == IF bad = {} THEN DOMAIN entries ELSE 1..(Min(bad) - 1)
        Of(k) == {i \in read : entries[i].key = k}
    IN  [k \in Keys |->
            IF Of(k) = {} THEN <<>> ELSE entries[Max(Of(k))].value]

-------------------------------------------------------------------------------
(* What the constants stand for.                                           *)

ASSUME CharsAssumption == KeyEnds \subseteq Chars

ASSUME LineAssumption == LineSize \in Nat \ {0}

ASSUME KeysAssumption ==
    \A k \in Keys :
        /\ k \in Seq(Chars) \ {<<>>}
        /\ \A i \in DOMAIN k : k[i] \notin KeyEnds
        /\ Default(k) \in Seq(Chars)

ASSUME ValuesAssumption == \A v \in Values : v \in Seq(Chars)

\* An entry is a key and a value, with blanks or a "=" between them, or a key
\* alone; or a line without a key, which is blank or has a "=".
ASSUME AuthoredAssumption ==
    \A entries \in Authored :
        /\ entries \in Seq([before : Seq(Blanks), key : Seq(Chars \ KeyEnds),
                            sep : Seq(KeyEnds), value : Seq(Chars),
                            after : {<<>>, <<CarriageReturn>>}])
        /\ \A i \in DOMAIN entries :
              LET e == entries[i]
              IN  /\ e.sep = <<>> => e.value = <<>>
                  /\ e.key = <<>> => "=" \in ToSet(e.sep) \/ e.value = <<>>

\* What stands in memory behind the last element is not one of the settings.
ASSUME RubbishAssumption ==
    \A line \in Rubbish :
        /\ line \in Seq(Chars)
        /\ EndsParse(line) \/ IsBlank(line) \/ KeyOf(WithoutCR(line)) \notin Keys

-------------------------------------------------------------------------------

\* The program is not running.  To edit the file later, between two runs, is to
\* begin here again.
ConfInit ==
    /\ \E entries \in Authored :
          /\ conf = [i \in DOMAIN entries |-> Entry(entries[i])]
          /\ meant = MeantBy(entries)
    /\ elems = <<>>
    /\ running = "stopped"
    /\ unsaved = {}
    /\ whole = TRUE
    /\ fits = TRUE

-------------------------------------------------------------------------------
(* The program.                                                            *)

Start ==
    /\ running = "stopped"
    /\ running' = "running"
    /\ elems' = WithDefaults(ParseFile(conf), Keys)
    /\ UNCHANGED <<conf, unsaved, meant, whole, fits>>

\* A command file cannot be read: main returns with defaults still to be set.
StartFails ==
    /\ running = "stopped"
    /\ running' = "failed"
    /\ \E some \in (SUBSET Keys) \ {Keys} :
          elems' = WithDefaults(ParseFile(conf), some)
    /\ UNCHANGED <<conf, unsaved, meant, whole, fits>>

\* setString and setInt, called by the settings dialog.
Set ==
    /\ running \in {"running", "failed"}
    /\ \E k \in Keys, v \in Values : elems' = Put(elems, k, v)
    /\ UNCHANGED <<conf, running, unsaved, meant, whole, fits>>

Setting(table, k) == IF k \in DOMAIN table THEN table[k] ELSE <<>>

Saved(k) == k \o <<Blank, "=", Blank>> \o elems[k]

BeginSave ==
    /\ running \in {"running", "failed"}
    /\ running' = "saving"
    /\ conf' = <<>>
    /\ unsaved' = DOMAIN elems
    /\ meant' = [k \in Keys |-> Setting(elems, k)]
    /\ whole' = FALSE
    /\ fits' = \A k \in DOMAIN elems : Len(Saved(k)) < LineSize
    /\ UNCHANGED elems

\* The order of the keys is left open.
SaveElem ==
    /\ running = "saving"
    /\ \E k \in unsaved :
          /\ conf' = Append(conf, Saved(k))
          /\ unsaved' = unsaved \ {k}
    /\ whole' = (unsaved' = {})
    /\ UNCHANGED <<elems, running, meant, fits>>

SaveEnd ==
    /\ running = "saving"
    /\ unsaved = {}
    /\ running' = "stopped"
    /\ \E line \in Rubbish : conf' = Append(conf, line)
    /\ elems' = <<>>
    /\ UNCHANGED <<unsaved, meant, whole, fits>>

\* At any time, in saveFile too.
Killed ==
    /\ running # "stopped"
    /\ running' = "stopped"
    /\ elems' = <<>>
    /\ unsaved' = {}
    /\ UNCHANGED <<conf, meant, whole, fits>>

ConfNext ==
    \/ Start
    \/ StartFails
    \/ Set
    \/ BeginSave
    \/ SaveElem
    \/ SaveEnd
    \/ Killed

ConfSpec == ConfInit /\ [][ConfNext]_confVars

-------------------------------------------------------------------------------

\* A value that begins with a separator loses it, one that ends with a carriage
\* return too.
Storable(v) ==
    v = <<>> \/ (Head(v) \notin KeyEnds /\ Last(v) # CarriageReturn)

Effective(k) == IF meant[k] = <<>> THEN Default(k) ELSE meant[k]

\* What was written by hand or saved (parseFile, saveFile, main), also by a
\* program that had not come to all its defaults, is in force after the next
\* start that main completes; after a program was killed while it saved, a setting
\* is as it was saved or back at its default, and never anything else.  A line
\* that saveFile makes too long for the buffer of parseFile is not covered: it
\* costs the settings behind it.
SettingsSurvive ==
    [][(running = "stopped" /\ running' = "running") =>
          \A k \in Keys :
              \/ elems'[k] = Effective(k)
              \/ ~whole /\ elems'[k] = Default(k)
              \/ ~fits
              \/ ~Storable(meant[k])]_confVars

===============================================================================
