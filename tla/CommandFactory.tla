---------------------------- MODULE CommandFactory ----------------------------
(***************************************************************************)
(* The table of commands of one provider and the translation of what a     *)
(* user types into what the provider is sent (class CommandFactory,        *)
(* cmdfact.cpp).                                                           *)
(*                                                                         *)
(* A text is a sequence of characters.  The definitions follow the code    *)
(* character by character only where the documented substitution depends   *)
(* on it: the quotes of tokenize and the positions of placeholders.        *)
(***************************************************************************)
EXTENDS Integers, Sequences, SequencesExt, FiniteSetsExt

CONSTANTS
    Alphabet,   \* the characters of a text
    Files,      \* command definition files: sequences of definitions
    Typed,      \* what users type: a command name and its arguments
    LoadSize    \* the size of buf in load, 1024

Quote == "\""
Space == " "
Digits == <<"0", "1", "2", "3", "4", "5", "6", "7", "8", "9">>

RawReturn == <<"r", "a", "w">>      \* the word "rawreturn", shortened

VARIABLES
    file,       \* history: the file that was loaded last
    commands    \* _commands

vars == <<file, commands>>

-------------------------------------------------------------------------------
(* tokenize.                                                               *)

\* One character: a quote ends a token only when it closes one, a space only
\* outside quotes and after something.
TokenStep(s, c) ==
    CASE c = Quote /\ s.quoted ->
           [tokens |-> Append(s.tokens, s.token), token |-> <<>>, quoted |-> FALSE]
      [] c = Quote /\ ~s.quoted ->
           [s EXCEPT !.quoted = TRUE]
      [] c # Quote /\ (c # Space \/ s.quoted) ->
           [s EXCEPT !.token = Append(@, c)]
      [] c = Space /\ ~s.quoted ->
           IF s.token = <<>>
           THEN s
           ELSE [s EXCEPT !.tokens = Append(@, s.token), !.token = <<>>]

Tokenize(text) ==
    LET s == FoldLeft(TokenStep,
                      [tokens |-> <<>>, token |-> <<>>, quoted |-> FALSE], text)
    IN  IF s.token = <<>> THEN s.tokens ELSE Append(s.tokens, s.token)

-------------------------------------------------------------------------------
(* load.                                                                   *)

\* atoi, for texts that are one digit.
Number(text) == CHOOSE n \in 0..9 : Digits[n + 1] = Head(text)

Definition(tokens) ==
    [minargs   |-> Number(tokens[2]),
     signature |-> tokens[3],
     help      |-> tokens[4],
     rawreturn |-> Len(tokens) = 5 /\ tokens[5] = RawReturn]

\* mutant: the last one wins
InsertOver(table, name, d) ==
    [n \in DOMAIN table \cup {name} |-> IF n = name THEN d ELSE table[n]]

\* std::map::insert leaves a definition that is there alone.
Insert(table, name, d) ==
    [n \in DOMAIN table \cup {name} |-> IF n \in DOMAIN table THEN table[n] ELSE d]

\* A line of more than five tokens is skipped.  Fewer than four are undefined
\* in the code, which indexes tokens that are not there: no such file is
\* loaded here.
LoadLine(table, line) ==
    LET tokens == Tokenize(line)
    IN  IF Len(tokens) > 5
        THEN table
        ELSE Insert(table, tokens[1], Definition(tokens))

\* getline fails for a line that does not fit, and the rest is not read.
LoadStep(s, line) ==
    IF s.ended \/ Len(line) >= LoadSize
    THEN [s EXCEPT !.ended = TRUE]
    ELSE [s EXCEPT !.table = LoadLine(@, line)]

LoadLines(lines) ==
    FoldLeft(LoadStep, [table |-> <<>>, ended |-> FALSE], lines).table

-------------------------------------------------------------------------------
(* build.                                                                  *)

Brace == "{"
Id(n) == <<Brace, Digits[n + 1], "}">>

\* std::string::find, with 0 for npos.
Find(text, id, from) ==
    LET found == {i \in from..(Len(text) - Len(id) + 1) :
                      SubSeq(text, i, i + Len(id) - 1) = id}
    IN  IF found = {} THEN 0 ELSE Min(found)

\* erase and insert.
PutAt(text, i, id, arg) ==
    SubSeq(text, 1, i - 1) \o arg \o SubSeq(text, i + Len(id), Len(text))

SearchOn(i, id) == i + Len(id) + 1      \* mutant: the terminator is counted

\* The search goes on behind the length of the placeholder, although it is the
\* argument that stands there now.
SearchFrom(i, id) == i + Len(id)

\* The text when no placeholder is found any more, from a place on.
Replaced(arg, id) ==
    LET Rest[at \in Seq(Alphabet) \X Nat] ==
            LET text == at[1]
                i == Find(text, id, at[2])
            IN  IF i = 0
                THEN text
                ELSE Rest[<<PutAt(text, i, id, arg), SearchFrom(i, id)>>]
    IN  Rest

\* <<>> for FALSE: an argument without a placeholder.
AddArg(text, arg, n) ==
    IF Find(text, Id(n), 1) = 0 THEN <<>> ELSE Replaced(arg, Id(n))[<<text, 1>>]

AddArgs(text, args) ==
    FoldLeftDomain(LAMBDA t, n : AddArg(t, args[n], n - 1), text, args)

Build(tokens) ==
    LET name == Head(tokens)
        args == Tail(tokens)
    IN  IF \/ tokens = <<>>
           \/ name \notin DOMAIN commands
           \/ Len(args) < commands[name].minargs
        THEN <<>>       \* an error
        ELSE AddArgs(commands[name].signature, args)

-------------------------------------------------------------------------------

\* A definition file as an author means it: one record for each line, with the
\* fields quoted as README.md says; extra stands for the words behind them.
Quoted(text) == <<Quote>> \o text \o <<Quote>>

WithWord(text, word) == text \o <<Space>> \o word

Line(d) ==
    FoldLeft(WithWord,
             d.name \o <<Space>> \o <<Digits[d.minargs + 1]>> \o <<Space>>
                 \o Quoted(d.signature) \o <<Space>> \o Quoted(d.help),
             d.extra)

Lines(f) == [i \in DOMAIN f |-> Line(f[i])]

\* A word has neither blanks nor quotes, what is quoted has no quotes.
Words == Seq(Alphabet \ {Quote, Space}) \ {<<>>}
Elements == Seq(Alphabet \ {Quote})

ASSUME AlphabetAssumption ==
    {Quote, Space, Brace, "}"} \cup ToSet(Digits) \subseteq Alphabet

ASSUME LoadAssumption == LoadSize \in Nat

ASSUME FilesAssumption ==
    \A f \in Files :
        f \in Seq([name : Words, minargs : 0..9, signature : Elements,
                  help : Elements, extra : Seq(Words)])

\* One digit is enough for the numbers of the arguments.
ASSUME TypedAssumption ==
    \A tokens \in Typed : tokens \in Seq(Seq(Alphabet)) /\ Len(tokens) \in 1..11

Init ==
    /\ file = <<>>
    /\ commands = <<>>

\* At the start and by the command "reload".  A file that cannot be opened
\* leaves the table alone.
Load ==
    \E f \in Files :
        /\ file' = f
        /\ commands' = LoadLines(Lines(f))

Next == Load

Spec == Init /\ [][Next]_vars

-------------------------------------------------------------------------------

Wellformed(d) == Len(d.extra) <= 1

\* README.md, "Elements can be quoted to enable whitespace": what is loaded
\* (load, tokenize) is what the author wrote, whatever the fields contain; the
\* first definition of a name counts, up to a line that is too long, and nothing
\* of an earlier file is left.
LoadKeepsDefinitions ==
    LET good == {i \in DOMAIN file :
                    /\ Wellformed(file[i])
                    /\ \A j \in 1..i : Len(Line(file[j])) < LoadSize}
    IN  /\ DOMAIN commands = {file[i].name : i \in good}
        /\ \A i \in good :
              (\A j \in good : file[j].name = file[i].name => i <= j) =>
                  commands[file[i].name] =
                      [minargs   |-> file[i].minargs,
                       signature |-> file[i].signature,
                       help      |-> file[i].help,
                       rawreturn |-> file[i].extra = <<RawReturn>>]

\* The placeholder that stands at i, if there is one.
NumbersAt(text, i) == {n \in 0..9 : Find(text, Id(n), i) = i}

\* A text is its placeholders and the characters between them, and where there
\* is an argument for a placeholder it stands in its place.
Piece(text, args, i) ==
    LET here == NumbersAt(text, i)
        n == Min(here)
    IN  IF here # {}
        THEN IF n + 1 \in DOMAIN args THEN args[n + 1] ELSE Id(n)
        ELSE IF \E j \in {i - 1, i - 2} : j >= 1 /\ NumbersAt(text, j) # {}
             THEN <<>>
             ELSE <<text[i]>>

Behind(text, piece) == text \o piece

\* All placeholders replaced in one go.
Substituted(text, args) ==
    FoldLeft(Behind, <<>>, [i \in DOMAIN text |-> Piece(text, args, i)])

\* Each argument, at its turn, finds its placeholders so far apart that from
\* one to the next, the argument included, there are at least as many
\* characters as a placeholder has.
Spaced(text, args) ==
    \A n \in DOMAIN args :
        LET id == Id(n - 1)
            now == Substituted(text, SubSeq(args, 1, n - 1))
        IN  \A i \in DOMAIN now :
                LET next == Find(now, id, i + 1)
                IN  (Find(now, id, i) = i /\ next # 0) =>
                        (next - (i + Len(id))) + Len(args[n]) >= Len(id)

Complete(text, args) == \A n \in DOMAIN args : Find(text, Id(n - 1), 1) # 0

\* Braces are there for placeholders only: a signature has no others, and an
\* argument, which could bring a placeholder for the next one, has none.
Braced(text) == \A i \in DOMAIN text : text[i] = Brace => NumbersAt(text, i) # {}
Plain(args) == \A n \in DOMAIN args : args[n] \in Seq(Alphabet \ {Brace})

\* README.md, "Arguments are embedded in the command string as {x}": a command
\* is built (build, _addArg) exactly when it is known, has its arguments and a
\* place for each of them, and then every placeholder is replaced; short
\* arguments need room between two placeholders of the same number.
BuildSubstitutes ==
    \A tokens \in Typed :
        LET name == Head(tokens)
            args == Tail(tokens)
            text == commands[name].signature
        IN  IF name \notin DOMAIN commands \/ Len(args) < commands[name].minargs
            THEN Build(tokens) = <<>>
            ELSE Braced(text) /\ Plain(args) =>
                    IF Complete(text, args)
                    THEN Spaced(text, args) => Build(tokens) = Substituted(text, args)
                    ELSE Build(tokens) = <<>>

===============================================================================
