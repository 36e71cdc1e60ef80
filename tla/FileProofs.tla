------------------------------ MODULE FileProofs ------------------------------
(***************************************************************************)
(* What is read from a file is what was written into it: theorems about    *)
(* CommandFactory.tla and ConfigFile.tla, for every alphabet, every file   *)
(* and every size of the buffers.                                          *)
(*                                                                         *)
(* load is a fold over the lines of a command file, and tokenize one over  *)
(* the characters of a line.  A definition line, scanned piece by piece,   *)
(* gives the tokens that its author meant (LineIsRead); from there on the  *)
(* table is followed line by line (KeepsOn).  build is followed on the     *)
(* pieces of a signature (Flat): one round of _addArg replaces one of them *)
(* (OneRound), one call all that are its placeholder (AllRounds).          *)
(*                                                                         *)
(* parseFile is a fold over the lines of the file, too.  What one line     *)
(* does is computed for the lines that an administrator or saveFile writes *)
(* (EntryIsRead); from it follow what a file written by hand says          *)
(* (AuthoredIsRead) and, line by line, what a file that is being saved     *)
(* says (SaveElemKeeps).  The invariant relates what the file says to what *)
(* it should say.                                                          *)
(***************************************************************************)
EXTENDS CommandFactory, ConfigFile, FoldProofs

-------------------------------------------------------------------------------
(* Command files.                                                          *)

Strings == Seq(Alphabet)
Authorings == [name : Words, minargs : 0..9, signature : Elements, help : Elements,
            extra : Seq(Words)]

LEMMA CharactersAre ==
    /\ Quote \in Alphabet /\ Space \in Alphabet /\ Quote # Space
    /\ \A n \in 0..9 : Digits[n + 1] \in Alphabet \ {Quote, Space}
    /\ Words \subseteq Strings /\ Elements \subseteq Strings
<1>1. DOMAIN Digits = 1..10
  BY DEF Digits
<1>2. /\ Quote \in Alphabet /\ Space \in Alphabet
      /\ \A i \in 1..10 : Digits[i] \in Alphabet
  <2>1. ToSet(Digits) = {Digits[i] : i \in 1..10}
    BY <1>1 DEF ToSet
  <2>. QED  BY <2>1, AlphabetAssumption
<1>3. \A n \in 0..9 : n + 1 \in 1..10
  OBVIOUS
<1>4. \A i \in 1..10 : Digits[i] # Quote /\ Digits[i] # Space
  <2>1. \A i \in 1..10 : Digits[i] \in {"0", "1", "2", "3", "4", "5", "6", "7", "8", "9"}
    BY DEF Digits
  <2>. QED  BY <2>1 DEF Quote, Space
<1>5. Words \subseteq Strings /\ Elements \subseteq Strings
  <2>1. Alphabet \ {Quote, Space} \subseteq Alphabet /\ Alphabet \ {Quote} \subseteq Alphabet
    OBVIOUS
  <2>. QED  BY <2>1, SeqMonotonic DEF Words, Elements, Strings
<1>. QED  BY <1>2, <1>3, <1>4, <1>5 DEF Quote, Space

LEMMA DigitIsRead == \A n \in 0..9 : Number(<<Digits[n + 1]>>) = n
<1>. SUFFICES ASSUME NEW n \in 0..9 PROVE Number(<<Digits[n + 1]>>) = n
  OBVIOUS
<1>1. \A i, j \in 1..10 : Digits[i] = Digits[j] => i = j
  BY DEF Digits
<1>2. \A m \in 0..9 : Digits[m + 1] = Digits[n + 1] => m = n
  <2>. SUFFICES ASSUME NEW m \in 0..9, Digits[m + 1] = Digits[n + 1] PROVE m = n
    OBVIOUS
  <2>1. m + 1 \in 1..10 /\ n + 1 \in 1..10
    OBVIOUS
  <2>2. m + 1 = n + 1
    <3>. DEFINE i == m + 1
                j == n + 1
    <3>. HIDE DEF i, j
    <3>. QED  BY <1>1, <2>1 DEF i, j
  <2>. QED  BY <2>2
<1>3. Head(<<Digits[n + 1]>>) = Digits[n + 1]
  OBVIOUS
<1>. QED  BY <1>2, <1>3 DEF Number

-------------------------------------------------------------------------------
(* tokenize: a fold over the characters.                                   *)

TokenState == [tokens : Seq(Strings), token : Strings, quoted : BOOLEAN]

LEMMA TokenStepType ==
    ASSUME NEW s \in TokenState, NEW c \in Alphabet
    PROVE  TokenStep(s, c) \in TokenState
<1>1. <<>> \in Strings
  BY EmptySeq DEF Strings
<1>2. Append(s.tokens, s.token) \in Seq(Strings) /\ Append(s.token, c) \in Strings
  <2>1. s.tokens \in Seq(Strings) /\ s.token \in Seq(Alphabet)
    BY DEF TokenState, Strings
  <2>2. s.token \in Strings
    BY DEF TokenState
  <2>. QED  BY <2>1, <2>2, AppendProperties DEF Strings
<1>3. CASE c = Quote /\ s.quoted
  BY <1>1, <1>2, <1>3 DEF TokenStep, TokenState
<1>4. CASE c = Quote /\ ~s.quoted
  BY <1>4, CharactersAre DEF TokenStep, TokenState
<1>5. CASE c # Quote /\ (c # Space \/ s.quoted)
  BY <1>2, <1>5, CharactersAre DEF TokenStep, TokenState
<1>6. CASE c = Space /\ ~s.quoted
  <2>1. TokenStep(s, c) = IF s.token = <<>>
           THEN s
           ELSE [s EXCEPT !.tokens = Append(@, s.token), !.token = <<>>]
    BY <1>6, CharactersAre DEF TokenStep
  <2>. QED  BY <1>1, <1>2, <2>1 DEF TokenState
<1>. QED  BY <1>3, <1>4, <1>5, <1>6

\* Where tokenize stands behind a text, from s on.
Scanned(s, text) == FoldLeft(TokenStep, s, text)

LEMMA TokenSteps ==
    ASSUME NEW begin \in TokenState, NEW s \in Strings
    PROVE  \E f \in [0..Len(s) -> TokenState] :
              /\ f[0] = begin
              /\ \A i \in 1..Len(s) : f[i] = TokenStep(f[i - 1], s[i])
              /\ Scanned(begin, s) = f[Len(s)]
<1>. DEFINE G == [p \in TokenState \X Alphabet |-> TokenStep(p[1], p[2])]
            Eq(it) == it = [T \in SUBSET DOMAIN s |->
                               IF T = {} THEN begin
                               ELSE TokenStep(it[T \ {Max(T)}], s[Max(T)])]
            c == CHOOSE it : Eq(it)
<1>1. /\ Len(s) \in Nat /\ DOMAIN s = 1..Len(s)
      /\ \A i \in 1..Len(s) : s[i] \in Alphabet
  BY LenProperties, ElementOfSeq DEF Strings
<1>3. G \in [TokenState \X Alphabet -> TokenState]
  BY TokenStepType
<1>4. \A a \in TokenState, b \in Alphabet : G[<<a, b>>] = TokenStep(a, b)
  OBVIOUS
<1>. HIDE DEF G
<1>5. \E it : Eq(it)
  <2>1. PICK it \in [SUBSET (1..Len(s)) -> TokenState] : Iterates(it, G, begin, s, Len(s))
    BY <1>3, IterationExists DEF Strings
  <2>2. ASSUME NEW T \in SUBSET (1..Len(s)), T # {}
        PROVE  G[<<it[T \ {Max(T)}], s[Max(T)]>>] = TokenStep(it[T \ {Max(T)}], s[Max(T)])
    <3>1. Max(T) \in T
      BY <1>1, <2>2, MaxOfSet
    <3>. QED  BY <1>1, <1>4, <2>1, <3>1
  <2>3. Eq(it)
    BY <1>1, <2>1, <2>2 DEF Iterates
  <2>. QED  BY <2>3
<1>6. Eq(c)
  BY <1>5
<1>7. Scanned(begin, s) = c[DOMAIN s]
  BY Zenon DEF Scanned, FoldLeft, MapThenFoldSet
<1>. HIDE DEF c
<1>8. FoldsAs(c, TokenState, Alphabet, G, begin, s)
  <2>1. ASSUME NEW T \in SUBSET (1..Len(s)), T # {}, c[T \ {Max(T)}] \in TokenState
        PROVE  c[T] = G[<<c[T \ {Max(T)}], s[Max(T)]>>]
    <3>1. Max(T) \in T
      BY <1>1, <2>1, MaxOfSet
    <3>2. c[T] = TokenStep(c[T \ {Max(T)}], s[Max(T)])
      BY <1>1, <1>6, <2>1
    <3>. QED  BY <1>1, <1>4, <2>1, <3>1, <3>2
  <2>. QED  BY <1>1, <1>3, <1>6, <2>1 DEF FoldsAs, Strings
<1>. HIDE DEF Eq
<1>9. PICK f \in [0..Len(s) -> TokenState] :
          /\ f[0] = begin
          /\ \A i \in 1..Len(s) : f[i] = G[<<f[i - 1], s[i]>>]
          /\ f[Len(s)] = c[1..Len(s)]
  BY <1>8, FoldRuns
<1>10. ASSUME NEW i \in 1..Len(s) PROVE f[i] = TokenStep(f[i - 1], s[i])
  <2>1. f[i - 1] \in TokenState
    BY <1>1, <1>9
  <2>. QED  BY <1>1, <1>4, <1>9, <2>1
<1>. QED  BY <1>1, <1>7, <1>9, <1>10

\* Of two texts the second is scanned behind the first.
LEMMA ScansOn ==
    ASSUME NEW s \in TokenState, NEW x \in Strings, NEW y \in Strings
    PROVE  /\ Scanned(s, x) \in TokenState
           /\ x \o y \in Strings
           /\ Scanned(s, x \o y) = Scanned(Scanned(s, x), y)
<1>. DEFINE z == x \o y
            n == Len(x)
            m == Len(y)
<1>1. /\ n \in Nat /\ m \in Nat /\ z \in Strings /\ Len(z) = n + m
      /\ \A i \in 1..n : z[i] = x[i]
      /\ \A i \in 1..m : z[n + i] = y[i]
  <2>1. n \in Nat /\ m \in Nat
    BY LenProperties DEF Strings
  <2>. QED  BY <2>1 DEF Strings
<1>2. PICK f \in [0..n -> TokenState] :
          /\ f[0] = s
          /\ \A i \in 1..n : f[i] = TokenStep(f[i - 1], x[i])
          /\ Scanned(s, x) = f[n]
  BY TokenSteps
<1>3. f[n] \in TokenState
  BY <1>1, <1>2
<1>4. PICK g \in [0..m -> TokenState] :
          /\ g[0] = f[n]
          /\ \A i \in 1..m : g[i] = TokenStep(g[i - 1], y[i])
          /\ Scanned(f[n], y) = g[m]
  BY <1>3, TokenSteps
<1>5. PICK h \in [0..Len(z) -> TokenState] :
          /\ h[0] = s
          /\ \A i \in 1..Len(z) : h[i] = TokenStep(h[i - 1], z[i])
          /\ Scanned(s, z) = h[Len(z)]
  BY <1>1, TokenSteps
<1>. HIDE DEF z, n, m
<1>6. \A i \in 0..n : f[i] = h[i]
  <2>1. ASSUME NEW i \in 1..n, f[i - 1] = h[i - 1] PROVE f[i] = h[i]
    <3>1. i \in 1..Len(z) /\ z[i] = x[i]
      BY <1>1
    <3>. QED  BY <1>2, <1>5, <2>1, <3>1
  <2>2. GoAlike(n, f, h)
    BY <1>2, <1>5, <2>1 DEF GoAlike
  <2>. QED  BY <1>1, <2>2, SameAlong
<1>7. \A i \in 0..m : g[i] = h[n + i]
  <2>. DEFINE k == [i \in 0..m |-> h[n + i]]
  <2>1. ASSUME NEW i \in 1..m, g[i - 1] = k[i - 1] PROVE g[i] = k[i]
    <3>1. n + i \in 1..Len(z) /\ z[n + i] = y[i] /\ (n + i) - 1 = n + (i - 1)
          /\ i - 1 \in 0..m /\ i \in 0..m
      BY <1>1
    <3>2. h[n + i] = TokenStep(h[n + (i - 1)], y[i])
      BY <1>5, <3>1
    <3>. QED  BY <1>4, <2>1, <3>1, <3>2
  <2>2. k[0] = h[n]
    BY <1>1
  <2>3. GoAlike(m, g, k)
    <3>1. g[0] = k[0]
      BY <1>1, <1>4, <1>6, <2>2
    <3>. QED  BY <2>1, <3>1 DEF GoAlike
  <2>4. \A i \in 0..m : g[i] = k[i]
    <3>. HIDE DEF k
    <3>1. m \in Nat
      BY <1>1
    <3>. QED  BY <2>3, <3>1, SameAlong
  <2>. QED  BY <2>4
<1>8. Scanned(s, z) = Scanned(f[n], y)
  BY <1>1, <1>4, <1>5, <1>7
<1>. QED  BY <1>1, <1>2, <1>3, <1>8 DEF z

LEMMA ScansOne ==
    ASSUME NEW s \in TokenState, NEW c \in Alphabet
    PROVE  Scanned(s, <<c>>) = TokenStep(s, c) /\ <<c>> \in Strings
<1>1. <<c>> \in Strings /\ Len(<<c>>) = 1 /\ <<c>>[1] = c
  BY DEF Strings
<1>2. PICK f : /\ f[0] = s
               /\ \A i \in 1..Len(<<c>>) : f[i] = TokenStep(f[i - 1], <<c>>[i])
               /\ Scanned(s, <<c>>) = f[Len(<<c>>)]
  BY <1>1, TokenSteps
<1>. QED  BY <1>1, <1>2

\* A text without quotes, and outside quotes without spaces, is added to the token.
LEMMA ScansThrough ==
    ASSUME NEW s \in TokenState, NEW text \in Strings,
           \A i \in 1..Len(text) : text[i] # Quote /\ (text[i] # Space \/ s.quoted)
    PROVE  Scanned(s, text) = [s EXCEPT !.token = s.token \o text]
<1>. DEFINE n == Len(text)
            e == [i \in 0..n |-> [s EXCEPT !.token = s.token \o SubSeq(text, 1, i)]]
<1>1. /\ n \in Nat /\ s.token \in Strings
      /\ \A i \in 1..n : text[i] \in Alphabet
  BY LenProperties, ElementOfSeq DEF Strings, TokenState
<1>2. PICK f \in [0..n -> TokenState] :
          /\ f[0] = s
          /\ \A i \in 1..n : f[i] = TokenStep(f[i - 1], text[i])
          /\ Scanned(s, text) = f[n]
  BY TokenSteps
<1>3. e[0] = s
  <2>1. s.token \o SubSeq(text, 1, 0) = s.token
    BY <1>1, SubSeqEmpty, ConcatEmptySeq DEF Strings
  <2>. QED  BY <1>1, <2>1 DEF TokenState
<1>4. ASSUME NEW i \in 1..n PROVE e[i] = TokenStep(e[i - 1], text[i])
  <2>. DEFINE before == SubSeq(text, 1, i - 1)
  <2>1. i \in 0..n /\ i - 1 \in 0..n /\ 1 \in 1..n /\ i \in 1..Len(text)
    BY <1>1
  <2>2. SubSeq(text, 1, i) = before \o <<text[i]>>
    <3>1. i \in 1..Len(text) /\ 1 \in 1..Len(text)
      BY <2>1
    <3>. QED  BY <3>1, SubSeqRecursiveSecond DEF Strings
  <2>3. before \in Strings /\ <<text[i]>> \in Strings
    <3>1. \A j \in 1..(i - 1) : text[j] \in Alphabet
      BY <1>1
    <3>2. before \in Seq(Alphabet)
      BY <1>1, <3>1, SubSeqProperties
    <3>. QED  BY <1>1, <3>2 DEF Strings
  <2>. HIDE DEF before
  <2>4. Append(s.token \o before, text[i]) = s.token \o SubSeq(text, 1, i)
    <3>1. s.token \o before \in Strings
      BY <1>1, <2>3, ConcatProperties DEF Strings
    <3>2. Append(s.token \o before, text[i]) = (s.token \o before) \o <<text[i]>>
      BY <1>1, <3>1, AppendIsConcat DEF Strings
    <3>. DEFINE a == s.token
                c == <<text[i]>>
    <3>3. (a \o before) \o c = a \o (before \o c)
      <4>1. a \in Seq(Alphabet) /\ before \in Seq(Alphabet) /\ c \in Seq(Alphabet)
        BY <1>1, <2>3 DEF Strings
      <4>. HIDE DEF a, c
      <4>. QED  BY <4>1, ConcatAssociative
    <3>. QED  BY <2>2, <3>2, <3>3
  <2>5. e[i - 1] = [s EXCEPT !.token = s.token \o before]
    BY <2>1 DEF before
  <2>6. TokenStep([s EXCEPT !.token = s.token \o before], text[i])
            = [s EXCEPT !.token = Append(s.token \o before, text[i])]
    BY <2>1, CharactersAre DEF TokenStep, TokenState
  <2>. QED  BY <2>1, <2>4, <2>5, <2>6
<1>. HIDE DEF e
<1>5. GoAlike(n, f, e)
  BY <1>2, <1>3, <1>4 DEF GoAlike
<1>6. f[n] = e[n]
  BY <1>1, <1>5, SameAlong
<1>7. e[n] = [s EXCEPT !.token = s.token \o text]
  <2>1. SubSeq(text, 1, n) = text
    BY SubSeqFull DEF Strings
  <2>2. n \in 0..n
    BY <1>1
  <2>. QED  BY <2>1, <2>2 DEF e
<1>. QED  BY <1>2, <1>6, <1>7

-------------------------------------------------------------------------------
(* What the pieces of a definition line do to the tokens.                  *)

At(tokens, token) == [tokens |-> tokens, token |-> token, quoted |-> FALSE]

\* The tokens, with the one that the end of the line completes.
Ended(s) == IF s.token = <<>> THEN s.tokens ELSE Append(s.tokens, s.token)

LEMMA AtIsState ==
    ASSUME NEW tokens \in Seq(Strings), NEW token \in Strings
    PROVE  At(tokens, token) \in TokenState
BY DEF At, TokenState

LEMMA EmptyIsString == <<>> \in Strings /\ <<>> \in Seq(Strings)
BY EmptySeq DEF Strings

LEMMA ScansWord ==
    ASSUME NEW tokens \in Seq(Strings), NEW word \in Words
    PROVE  Scanned(At(tokens, <<>>), word) = At(tokens, word)
<1>. DEFINE s == At(tokens, <<>>)
<1>1. s \in TokenState /\ s.token = <<>> /\ s.quoted = FALSE
  BY AtIsState, EmptyIsString DEF At
<1>2. word \in Strings /\ \A i \in 1..Len(word) : word[i] # Quote /\ word[i] # Space
  BY CharactersAre, ElementOfSeq DEF Words
<1>3. Scanned(s, word) = [s EXCEPT !.token = s.token \o word]
  <2>. HIDE DEF s
  <2>. QED  BY <1>1, <1>2, ScansThrough
<1>4. <<>> \o word = word
  BY <1>2, ConcatEmptySeq DEF Strings
<1>. QED  BY <1>1, <1>3, <1>4 DEF At

LEMMA ScansSpace ==
    ASSUME NEW tokens \in Seq(Strings), NEW token \in Strings
    PROVE  Scanned(At(tokens, token), <<Space>>) = At(Ended(At(tokens, token)), <<>>)
<1>1. Scanned(At(tokens, token), <<Space>>) = TokenStep(At(tokens, token), Space)
  BY AtIsState, CharactersAre, ScansOne
<1>. QED  BY <1>1, CharactersAre DEF At, Ended, TokenStep

LEMMA ScansQuoted ==
    ASSUME NEW tokens \in Seq(Strings), NEW text \in Elements
    PROVE  /\ Quoted(text) \in Strings
           /\ Scanned(At(tokens, <<>>), Quoted(text)) = At(Append(tokens, text), <<>>)
<1>. DEFINE s == At(tokens, <<>>)
            q == <<Quote>>
            in(t) == [tokens |-> tokens, token |-> t, quoted |-> TRUE]
<1>1. s \in TokenState /\ text \in Strings /\ q \in Strings /\ <<>> \in Strings
  BY AtIsState, EmptyIsString, CharactersAre, ScansOne
<1>2. Scanned(s, q) = in(<<>>)
  <2>1. Scanned(s, q) = TokenStep(s, Quote)
    BY <1>1, CharactersAre, ScansOne
  <2>2. ~s.quoted
    BY DEF At
  <2>3. TokenStep(s, Quote) = [s EXCEPT !.quoted = TRUE]
    <3>. HIDE DEF s
    <3>1. Quote # Space
      BY CharactersAre
    <3>2. ~(Quote = Quote /\ s.quoted) /\ Quote = Quote /\ ~s.quoted
      BY <2>2
    <3>. QED  BY <3>1, <3>2, Zenon DEF TokenStep
  <2>. QED  BY <2>1, <2>3 DEF At
<1>3. \A t \in Strings : in(t) \in TokenState
  BY DEF TokenState
<1>4. Scanned(in(<<>>), text) = in(text)
  <2>1. \A i \in 1..Len(text) : text[i] # Quote
    BY ElementOfSeq DEF Elements
  <2>2. \A i \in 1..Len(text) : text[i] # Quote /\ (text[i] # Space \/ in(<<>>).quoted)
    BY <2>1
  <2>3. Scanned(in(<<>>), text) = [in(<<>>) EXCEPT !.token = in(<<>>).token \o text]
    <3>1. PICK s0 \in TokenState : s0 = in(<<>>)
      BY <1>1, <1>3
    <3>. HIDE DEF in
    <3>. QED  BY <1>1, <2>2, <3>1, ScansThrough
  <2>4. <<>> \o text = text
    BY <1>1, ConcatEmptySeq DEF Strings
  <2>. QED  BY <2>3, <2>4
<1>5. Scanned(in(text), q) = At(Append(tokens, text), <<>>)
  <2>1. Scanned(in(text), q) = TokenStep(in(text), Quote)
    BY <1>1, <1>3, CharactersAre, ScansOne
  <2>2. in(text).quoted /\ in(text).tokens = tokens /\ in(text).token = text
    OBVIOUS
  <2>3. TokenStep(in(text), Quote)
          = [tokens |-> Append(in(text).tokens, in(text).token), token |-> <<>>,
             quoted |-> FALSE]
    <3>. HIDE DEF in
    <3>. QED  BY <2>2, Zenon DEF TokenStep
  <2>. QED  BY <2>1, <2>2, <2>3 DEF At
<1>. HIDE DEF s, q, in
<1>6. /\ q \o text \in Strings
      /\ Scanned(s, q \o text) = in(text)
  BY <1>1, <1>2, <1>4, ScansOn
<1>7. /\ (q \o text) \o q \in Strings
      /\ Scanned(s, (q \o text) \o q) = Scanned(in(text), q)
  BY <1>1, <1>6, ScansOn
<1>. QED  BY <1>5, <1>7 DEF s, q, Quoted

\* A word behind what is there, whether a quote or a word ended it.
LEMMA ScansExtra ==
    ASSUME NEW text \in Strings, NEW tokens \in Seq(Strings), NEW token \in Strings,
           NEW word \in Words,
           Scanned(At(<<>>, <<>>), text) = At(tokens, token)
    PROVE  /\ WithWord(text, word) \in Strings
           /\ Scanned(At(<<>>, <<>>), WithWord(text, word))
                  = At(Ended(At(tokens, token)), word)
           /\ Ended(At(tokens, token)) \in Seq(Strings)
<1>. DEFINE s == At(<<>>, <<>>)
            e == Ended(At(tokens, token))
            b == <<Space>>
<1>1. s \in TokenState /\ b \in Strings /\ word \in Strings
  BY AtIsState, EmptyIsString, CharactersAre, ScansOne
<1>2. e \in Seq(Strings)
  BY AppendProperties DEF Ended, At
<1>3. Scanned(At(tokens, token), b) = At(e, <<>>)
  BY ScansSpace
<1>4. Scanned(At(e, <<>>), word) = At(e, word)
  <2>. HIDE DEF e
  <2>. QED  BY <1>2, ScansWord
<1>. HIDE DEF s, e, b
<1>5. text \o b \in Strings /\ Scanned(s, text \o b) = At(e, <<>>)
  BY <1>1, <1>3, ScansOn DEF s
<1>6. (text \o b) \o word \in Strings /\ Scanned(s, (text \o b) \o word) = At(e, word)
  BY <1>1, <1>4, <1>5, ScansOn
<1>. QED  BY <1>2, <1>6 DEF s, e, b, WithWord

\* A definition line as far as it has four elements.
Opening(d) ==
    d.name \o <<Space>> \o <<Digits[d.minargs + 1]>> \o <<Space>>
        \o Quoted(d.signature) \o <<Space>> \o Quoted(d.help)

Four(d) == <<d.name, <<Digits[d.minargs + 1]>>, d.signature, d.help>>

\* One more piece of a line.
LEMMA ScansPiece ==
    ASSUME NEW text \in Strings, NEW piece \in Strings,
           NEW tokens \in Seq(Strings), NEW token \in Strings, NEW after,
           Scanned(At(<<>>, <<>>), text) = At(tokens, token),
           Scanned(At(tokens, token), piece) = after
    PROVE  text \o piece \in Strings /\ Scanned(At(<<>>, <<>>), text \o piece) = after
<1>1. At(<<>>, <<>>) \in TokenState
  BY AtIsState, EmptyIsString
<1>. QED  BY <1>1, ScansOn

LEMMA OpeningIsRead ==
    ASSUME NEW d \in Authorings
    PROVE  /\ Opening(d) \in Strings /\ Four(d) \in Seq(Strings)
           /\ Scanned(At(<<>>, <<>>), Opening(d)) = At(Four(d), <<>>)
<1>. DEFINE s == At(<<>>, <<>>)
            b == <<Space>>
            g == <<Digits[d.minargs + 1]>>
            t1 == <<d.name>>
            t2 == <<d.name, g>>
            t3 == <<d.name, g, d.signature>>
            t4 == <<d.name, g, d.signature, d.help>>
            l1 == d.name \o b
            l2 == l1 \o g
            l3 == l2 \o b
            l4 == l3 \o Quoted(d.signature)
            l5 == l4 \o b
            l6 == l5 \o Quoted(d.help)
<1>1. /\ d.name \in Words /\ d.signature \in Elements /\ d.help \in Elements
      /\ d.minargs \in 0..9
  BY DEF Authorings
<1>2. g \in Words
  <2>1. Digits[d.minargs + 1] \in Alphabet \ {Quote, Space}
    BY <1>1, CharactersAre
  <2>2. <<Digits[d.minargs + 1]>> \in Seq(Alphabet \ {Quote, Space})
    BY <2>1
  <2>3. <<Digits[d.minargs + 1]>> # <<>>
    OBVIOUS
  <2>. QED  BY <2>2, <2>3 DEF Words
<1>. HIDE DEF g
<1>3. /\ d.name \in Strings /\ d.signature \in Strings /\ d.help \in Strings
      /\ g \in Strings /\ b \in Strings
      /\ Quoted(d.signature) \in Strings /\ Quoted(d.help) \in Strings
      /\ <<>> \in Strings /\ <<>> \in Seq(Strings)
      /\ d.name # <<>> /\ g # <<>>
  <2>1. d.name # <<>> /\ g # <<>>
    BY <1>1, <1>2 DEF Words
  <2>2. d.name \in Strings /\ d.signature \in Strings /\ d.help \in Strings /\ g \in Strings
    BY <1>1, <1>2, CharactersAre
  <2>3. Quoted(d.signature) \in Strings /\ Quoted(d.help) \in Strings
    BY <1>1, EmptyIsString, ScansQuoted
  <2>4. b \in Strings
    BY EmptyIsString, AtIsState, CharactersAre, ScansOne
  <2>. QED  BY <2>1, <2>2, <2>3, <2>4, EmptyIsString
<1>4. /\ t1 \in Seq(Strings) /\ t2 \in Seq(Strings) /\ t3 \in Seq(Strings)
      /\ t4 \in Seq(Strings)
  BY <1>3
<1>5. /\ t1 = Append(<<>>, d.name) /\ t2 = Append(t1, g)
      /\ t3 = Append(t2, d.signature) /\ t4 = Append(t3, d.help)
  OBVIOUS
<1>. HIDE DEF b, t1, t2, t3, t4
<1>6. Scanned(s, d.name) = At(<<>>, d.name)
  BY <1>1, <1>3, ScansWord
<1>7. l1 \in Strings /\ Scanned(s, l1) = At(t1, <<>>)
  <2>1. Scanned(At(<<>>, d.name), b) = At(t1, <<>>)
    BY <1>3, <1>5, ScansSpace DEF b, Ended, At
  <2>2. PICK name \in Strings : name = d.name
    BY <1>3
  <2>. DEFINE after == At(t1, <<>>)
              none == <<>>
  <2>3. /\ Scanned(At(<<>>, <<>>), name) = At(none, name)
        /\ Scanned(At(none, name), b) = after
        /\ b \in Strings /\ none \in Seq(Strings)
    BY <1>3, <1>6, <2>1, <2>2
  <2>. HIDE DEF none, after
  <2>4. name \o b \in Strings /\ Scanned(At(<<>>, <<>>), name \o b) = after
    BY <2>2, <2>3, ScansPiece
  <2>. QED  BY <2>2, <2>4 DEF after
<1>. HIDE DEF l1
<1>8. l2 \in Strings /\ Scanned(s, l2) = At(t1, g)
  <2>1. Scanned(At(t1, <<>>), g) = At(t1, g)
    BY <1>2, <1>4, ScansWord
  <2>. QED  BY <1>3, <1>4, <1>7, <2>1, ScansPiece
<1>. HIDE DEF l2
<1>9. l3 \in Strings /\ Scanned(s, l3) = At(t2, <<>>)
  <2>1. Scanned(At(t1, g), b) = At(t2, <<>>)
    BY <1>3, <1>4, <1>5, ScansSpace DEF b, Ended, At
  <2>. QED  BY <1>3, <1>4, <1>8, <2>1, ScansPiece
<1>. HIDE DEF l3
<1>10. l4 \in Strings /\ Scanned(s, l4) = At(t3, <<>>)
  <2>1. Scanned(At(t2, <<>>), Quoted(d.signature)) = At(t3, <<>>)
    BY <1>1, <1>4, <1>5, ScansQuoted
  <2>. QED  BY <1>3, <1>4, <1>9, <2>1, ScansPiece
<1>. HIDE DEF l4
<1>11. l5 \in Strings /\ Scanned(s, l5) = At(t3, <<>>)
  <2>1. Scanned(At(t3, <<>>), b) = At(t3, <<>>)
    BY <1>3, <1>4, ScansSpace DEF b, Ended, At
  <2>. QED  BY <1>3, <1>4, <1>10, <2>1, ScansPiece
<1>. HIDE DEF l5
<1>12. l6 \in Strings /\ Scanned(s, l6) = At(t4, <<>>)
  <2>1. Scanned(At(t3, <<>>), Quoted(d.help)) = At(t4, <<>>)
    BY <1>1, <1>4, <1>5, ScansQuoted
  <2>. QED  BY <1>3, <1>4, <1>11, <2>1, ScansPiece
<1>13. Opening(d) = l6
  BY DEF Opening, l1, l2, l3, l4, l5, b, g
<1>14. Four(d) = t4
  BY DEF Four, t4, g
<1>. QED  BY <1>4, <1>12, <1>13, <1>14

LEMMA WithWordType ==
    ASSUME NEW text \in Strings, NEW word \in Words
    PROVE  WithWord(text, word) \in Strings
<1>1. text \in Seq(Alphabet) /\ word \in Seq(Alphabet) /\ <<Space>> \in Seq(Alphabet)
  BY CharactersAre, ScansOne DEF Strings
<1>. QED  BY <1>1, ConcatProperties DEF WithWord, Strings

LEMMA WordSteps ==
    ASSUME NEW begin \in Strings, NEW s \in Seq(Words)
    PROVE  \E f \in [0..Len(s) -> Strings] :
              /\ f[0] = begin
              /\ \A i \in 1..Len(s) : f[i] = WithWord(f[i - 1], s[i])
              /\ FoldLeft(WithWord, begin, s) = f[Len(s)]
<1>. DEFINE G == [p \in Strings \X Words |-> WithWord(p[1], p[2])]
            Eq(it) == it = [T \in SUBSET DOMAIN s |->
                               IF T = {} THEN begin
                               ELSE WithWord(it[T \ {Max(T)}], s[Max(T)])]
            c == CHOOSE it : Eq(it)
<1>1. /\ Len(s) \in Nat /\ DOMAIN s = 1..Len(s)
      /\ \A i \in 1..Len(s) : s[i] \in Words
  BY LenProperties, ElementOfSeq
<1>3. G \in [Strings \X Words -> Strings]
  BY WithWordType
<1>4. \A a \in Strings, b \in Words : G[<<a, b>>] = WithWord(a, b)
  OBVIOUS
<1>. HIDE DEF G
<1>5. \E it : Eq(it)
  <2>1. PICK it \in [SUBSET (1..Len(s)) -> Strings] : Iterates(it, G, begin, s, Len(s))
    BY <1>3, IterationExists
  <2>2. ASSUME NEW T \in SUBSET (1..Len(s)), T # {}
        PROVE  G[<<it[T \ {Max(T)}], s[Max(T)]>>] = WithWord(it[T \ {Max(T)}], s[Max(T)])
    <3>1. Max(T) \in T
      BY <1>1, <2>2, MaxOfSet
    <3>. QED  BY <1>1, <1>4, <2>1, <3>1
  <2>3. Eq(it)
    BY <1>1, <2>1, <2>2 DEF Iterates
  <2>. QED  BY <2>3
<1>6. Eq(c)
  BY <1>5
<1>7. FoldLeft(WithWord, begin, s) = c[DOMAIN s]
  BY Zenon DEF FoldLeft, MapThenFoldSet
<1>. HIDE DEF c
<1>8. FoldsAs(c, Strings, Words, G, begin, s)
  <2>1. ASSUME NEW T \in SUBSET (1..Len(s)), T # {}, c[T \ {Max(T)}] \in Strings
        PROVE  c[T] = G[<<c[T \ {Max(T)}], s[Max(T)]>>]
    <3>1. Max(T) \in T
      BY <1>1, <2>1, MaxOfSet
    <3>2. c[T] = WithWord(c[T \ {Max(T)}], s[Max(T)])
      BY <1>1, <1>6, <2>1
    <3>. QED  BY <1>1, <1>4, <2>1, <3>1, <3>2
  <2>. QED  BY <1>1, <1>3, <1>6, <2>1 DEF FoldsAs
<1>. HIDE DEF Eq
<1>9. PICK f \in [0..Len(s) -> Strings] :
          /\ f[0] = begin
          /\ \A i \in 1..Len(s) : f[i] = G[<<f[i - 1], s[i]>>]
          /\ f[Len(s)] = c[1..Len(s)]
  BY <1>8, FoldRuns
<1>10. ASSUME NEW i \in 1..Len(s) PROVE f[i] = WithWord(f[i - 1], s[i])
  <2>1. f[i - 1] \in Strings
    BY <1>1, <1>9
  <2>. QED  BY <1>1, <1>4, <1>9, <2>1
<1>. QED  BY <1>1, <1>7, <1>9, <1>10

\* Whatever an author writes comes back as the tokens of the line.
LEMMA LineIsRead ==
    ASSUME NEW d \in Authorings
    PROVE  Line(d) \in Strings /\ Tokenize(Line(d)) = Four(d) \o d.extra
<1>. DEFINE n == Len(d.extra)
            four == Four(d)
            extra == d.extra
            read(x, tokens, token, i) ==
                /\ Scanned(At(<<>>, <<>>), x) = At(tokens, token)
                /\ Ended(At(tokens, token)) = four \o SubSeq(extra, 1, i)
            Read(x, i) == \E tokens \in Seq(Strings), token \in Strings :
                              read(x, tokens, token, i)
<1>1. /\ extra \in Seq(Words) /\ extra \in Seq(Strings) /\ n \in Nat
      /\ \A i \in 1..n : extra[i] \in Words
      /\ four \in Seq(Strings)
  <2>1. extra \in Seq(Words)
    BY DEF Authorings
  <2>2. extra \in Seq(Strings)
    BY <2>1, CharactersAre, SeqMonotonic
  <2>. QED  BY <2>1, <2>2, LenProperties, ElementOfSeq, OpeningIsRead
<1>2. PICK f \in [0..n -> Strings] :
          /\ f[0] = Opening(d)
          /\ \A i \in 1..n : f[i] = WithWord(f[i - 1], extra[i])
          /\ FoldLeft(WithWord, Opening(d), extra) = f[n]
  BY <1>1, OpeningIsRead, WordSteps
<1>3. Line(d) = f[n]
  BY <1>2 DEF Line, Opening
<1>. HIDE DEF four, extra, n
<1>4. Read(f[0], 0)
  <2>1. SubSeq(extra, 1, 0) = <<>>
    BY <1>1, SubSeqEmpty
  <2>2. four \o <<>> = four
    BY <1>1, ConcatEmptySeq
  <2>3. Ended(At(four, <<>>)) = four
    BY DEF Ended, At
  <2>4. read(f[0], four, <<>>, 0)
    BY <1>2, <2>1, <2>2, <2>3, OpeningIsRead DEF four
  <2>. QED  BY <1>1, <2>4, EmptyIsString
<1>5. ASSUME NEW i \in 0..(n - 1), Read(f[i], i) PROVE Read(f[i + 1], i + 1)
  <2>0. i \in 0..n /\ i + 1 \in 1..n /\ (i + 1) - 1 = i
    BY <1>1
  <2>1. PICK tokens \in Seq(Strings), token \in Strings : read(f[i], tokens, token, i)
    BY <1>5
  <2>. DEFINE e == Ended(At(tokens, token))
              w == extra[i + 1]
  <2>2. w \in Words /\ w \in Strings /\ w # <<>> /\ f[i] \in Strings
        /\ f[i + 1] = WithWord(f[i], w)
    BY <1>1, <1>2, <2>0, CharactersAre DEF Words
  <2>. HIDE DEF w
  <2>3. /\ Scanned(At(<<>>, <<>>), f[i + 1]) = At(e, w) /\ e \in Seq(Strings)
    <3>1. PICK x \in Strings : x = f[i]
      BY <2>2
    <3>2. Scanned(At(<<>>, <<>>), x) = At(tokens, token)
      BY <2>1, <3>1
    <3>3. f[i + 1] = WithWord(x, w)
      BY <2>2, <3>1
    <3>. HIDE DEF read
    <3>4. Scanned(At(<<>>, <<>>), WithWord(x, w)) = At(e, w) /\ e \in Seq(Strings)
      BY <2>2, <3>2, ScansExtra
    <3>. QED  BY <3>3, <3>4
  <2>4. Ended(At(e, w)) = Append(e, w)
    BY <2>2 DEF Ended, At
  <2>5. SubSeq(extra, 1, i + 1) = Append(SubSeq(extra, 1, i), w)
    <3>1. i + 1 \in 1..Len(extra) /\ 1 \in 1..Len(extra)
      BY <1>1, <2>0 DEF n, extra
    <3>2. SubSeq(extra, 1, i + 1) = SubSeq(extra, 1, (i + 1) - 1) \o <<extra[i + 1]>>
      BY <1>1, <3>1, SubSeqRecursiveSecond
    <3>3. SubSeq(extra, 1, i) \in Seq(Strings)
      <4>1. \A j \in 1..i : extra[j] \in Strings
        BY <1>1, <2>0, CharactersAre
      <4>. QED  BY <1>1, <4>1, <2>0, SubSeqProperties
    <3>. QED  BY <2>0, <2>2, <3>2, <3>3, AppendIsConcat DEF w
  <2>6. Append(four \o SubSeq(extra, 1, i), w) = four \o Append(SubSeq(extra, 1, i), w)
    <3>. DEFINE x == SubSeq(extra, 1, i)
    <3>1. x \in Seq(Strings)
      <4>1. \A j \in 1..i : extra[j] \in Strings
        BY <1>1, <2>0, CharactersAre
      <4>. QED  BY <1>1, <4>1, <2>0, SubSeqProperties
    <3>. HIDE DEF x
    <3>2. four \o x \in Seq(Strings) /\ <<w>> \in Seq(Strings)
      BY <1>1, <2>2, <3>1, ConcatProperties
    <3>3. Append(four \o x, w) = (four \o x) \o <<w>> /\ Append(x, w) = x \o <<w>>
      BY <2>2, <3>1, <3>2, AppendIsConcat
    <3>4. (four \o x) \o <<w>> = four \o (x \o <<w>>)
      BY <1>1, <3>1, <3>2, ConcatAssociative
    <3>. QED  BY <3>3, <3>4 DEF x
  <2>7. read(f[i + 1], e, w, i + 1)
    BY <2>1, <2>3, <2>4, <2>5, <2>6
  <2>. QED  BY <2>2, <2>3, <2>7
<1>6. Read(f[n], n)
  <2>. DEFINE T == {i \in Nat : i <= n => Read(f[i], i)}
  <2>1. 0 \in T
    BY <1>4
  <2>2. ASSUME NEW i \in Nat, i \in T PROVE i + 1 \in T
    <3>. SUFFICES ASSUME i + 1 <= n PROVE Read(f[i + 1], i + 1)
      OBVIOUS
    <3>1. i \in 0..(n - 1)
      BY <1>1
    <3>. HIDE DEF Read
    <3>2. Read(f[i], i)
      <4>1. i <= n
        BY <1>1
      <4>. QED  BY <2>2, <4>1
    <3>. QED  BY <1>5, <3>1, <3>2
  <2>3. Nat \subseteq T
    <3>. HIDE DEF T
    <3>. QED  BY <2>1, <2>2, Induction
  <2>. HIDE DEF Read
  <2>. QED  BY <1>1, <2>3
<1>7. PICK tokens \in Seq(Strings), token \in Strings : read(f[n], tokens, token, n)
  BY <1>6
<1>8. SubSeq(extra, 1, n) = extra
  BY <1>1, SubSeqFull DEF n, extra
<1>9. Tokenize(Line(d)) = Ended(At(tokens, token))
  <2>1. Tokenize(Line(d)) = Ended(Scanned(At(<<>>, <<>>), Line(d)))
    BY DEF Tokenize, Ended, Scanned, At
  <2>. QED  BY <1>3, <1>7, <2>1
<1>10. f[n] \in Strings
  BY <1>1, <1>2
<1>. QED  BY <1>3, <1>7, <1>8, <1>9, <1>10 DEF four, extra

-------------------------------------------------------------------------------
(* load: a fold over the lines.                                            *)

\* The entry of the table that an author means.
Meant(d) ==
    [minargs |-> d.minargs, signature |-> d.signature, help |-> d.help,
     rawreturn |-> d.extra = <<RawReturn>>]

LEMMA LoadLineIs ==
    ASSUME NEW d \in Authorings, NEW table
    PROVE  LoadLine(table, Line(d)) =
              IF Wellformed(d) THEN Insert(table, d.name, Meant(d)) ELSE table
<1>. DEFINE tokens == Tokenize(Line(d))
            four == Four(d)
            extra == d.extra
<1>1. /\ extra \in Seq(Strings) /\ Len(extra) \in Nat /\ four \in Seq(Strings)
      /\ d.minargs \in 0..9 /\ Len(four) = 4
      /\ four[1] = d.name /\ four[2] = <<Digits[d.minargs + 1]>>
      /\ four[3] = d.signature /\ four[4] = d.help
  <2>1. extra \in Seq(Words)
    BY DEF Authorings
  <2>2. extra \in Seq(Strings)
    BY <2>1, CharactersAre, SeqMonotonic
  <2>. QED  BY <2>2, LenProperties, OpeningIsRead DEF Four, Authorings
<1>2. tokens = four \o extra
  BY LineIsRead
<1>. HIDE DEF tokens, four, extra
<1>3. /\ Len(tokens) = 4 + Len(extra)
      /\ \A i \in 1..4 : tokens[i] = four[i]
      /\ Len(extra) = 1 => tokens[5] = extra[1]
  <2>1. /\ Len(four \o extra) = Len(four) + Len(extra)
        /\ \A i \in 1..(Len(four) + Len(extra)) :
              (four \o extra)[i] = IF i <= Len(four) THEN four[i] ELSE extra[i - Len(four)]
    BY <1>1, ConcatProperties
  <2>2. \A i \in 1..(4 + Len(extra)) :
            tokens[i] = IF i <= 4 THEN four[i] ELSE extra[i - 4]
    BY <1>1, <1>2, <2>1
  <2>3. Len(tokens) = 4 + Len(extra)
    BY <1>1, <1>2, <2>1
  <2>4. ASSUME NEW i \in 1..4 PROVE tokens[i] = four[i]
    <3>1. i \in 1..(4 + Len(extra)) /\ i <= 4
      BY <1>1
    <3>. QED  BY <2>2, <3>1
  <2>5. ASSUME Len(extra) = 1 PROVE tokens[5] = extra[1]
    <3>1. 5 \in 1..(4 + Len(extra)) /\ ~(5 <= 4) /\ 5 - 4 = 1
      BY <2>5
    <3>. QED  BY <2>2, <3>1
  <2>. QED  BY <2>3, <2>4, <2>5
<1>4. /\ tokens[1] = d.name /\ tokens[2] = <<Digits[d.minargs + 1]>>
      /\ tokens[3] = d.signature /\ tokens[4] = d.help
  BY <1>1, <1>3
<1>5. Wellformed(d) <=> ~(Len(tokens) > 5)
  BY <1>1, <1>3 DEF Wellformed, extra
<1>6. Number(tokens[2]) = d.minargs
  BY <1>1, <1>4, DigitIsRead
<1>7. (Len(tokens) = 5 /\ tokens[5] = RawReturn) <=> extra = <<RawReturn>>
  <2>1. Len(tokens) = 5 <=> Len(extra) = 1
    <3>1. PICK m \in Nat : m = Len(extra)
      BY <1>1
    <3>2. Len(tokens) = 4 + m
      BY <1>3, <3>1
    <3>. QED  BY <3>1, <3>2
  <2>2. ASSUME Len(extra) = 1 PROVE extra = <<extra[1]>>
    BY <1>1, <2>2
  <2>3. Len(<<RawReturn>>) = 1 /\ <<RawReturn>>[1] = RawReturn
    OBVIOUS
  <2>. QED  BY <1>3, <2>1, <2>2, <2>3
<1>8. (Len(tokens) = 5 /\ tokens[5] = RawReturn) = (extra = <<RawReturn>>)
  BY <1>7
<1>9. Definition(tokens) = Meant(d)
  BY <1>4, <1>6, <1>8 DEF Definition, Meant, extra
<1>. QED  BY <1>4, <1>5, <1>9 DEF LoadLine, tokens

AuthoredLines == {Line(d) : d \in Authorings}
CommandEntries == {Meant(d) : d \in Authorings}
CommandTables == UNION {[D -> CommandEntries] : D \in SUBSET Strings}
LoadState == [table : CommandTables, ended : BOOLEAN]
LoadBegin == [table |-> <<>>, ended |-> FALSE]

LEMMA LoadBeginType == LoadBegin \in LoadState
<1>1. <<>> \in [{} -> CommandEntries]
  OBVIOUS
<1>. QED  BY <1>1 DEF LoadBegin, LoadState, CommandTables

LEMMA LoadStepType ==
    ASSUME NEW s \in LoadState, NEW line \in AuthoredLines
    PROVE  LoadStep(s, line) \in LoadState
<1>1. PICK d \in Authorings : line = Line(d)
  BY DEF AuthoredLines
<1>2. PICK D \in SUBSET Strings : s.table \in [D -> CommandEntries]
  BY DEF LoadState, CommandTables
<1>3. Insert(s.table, d.name, Meant(d)) \in CommandTables
  <2>1. d.name \in Strings /\ Meant(d) \in CommandEntries
    BY CharactersAre DEF Authorings, CommandEntries
  <2>2. Insert(s.table, d.name, Meant(d)) \in [D \cup {d.name} -> CommandEntries]
    BY <1>2, <2>1 DEF Insert
  <2>. QED  BY <1>2, <2>1, <2>2 DEF CommandTables
<1>4. LoadLine(s.table, line) \in CommandTables
  BY <1>1, <1>3, LoadLineIs DEF LoadState
<1>. QED  BY <1>4 DEF LoadStep, LoadState

LEMMA LoadSteps ==
    ASSUME NEW begin \in LoadState, NEW s \in Seq(AuthoredLines)
    PROVE  \E f \in [0..Len(s) -> LoadState] :
              /\ f[0] = begin
              /\ \A i \in 1..Len(s) : f[i] = LoadStep(f[i - 1], s[i])
              /\ FoldLeft(LoadStep, begin, s) = f[Len(s)]
<1>. DEFINE G == [p \in LoadState \X AuthoredLines |-> LoadStep(p[1], p[2])]
            Eq(it) == it = [T \in SUBSET DOMAIN s |->
                               IF T = {} THEN begin
                               ELSE LoadStep(it[T \ {Max(T)}], s[Max(T)])]
            c == CHOOSE it : Eq(it)
<1>1. /\ Len(s) \in Nat /\ DOMAIN s = 1..Len(s)
      /\ \A i \in 1..Len(s) : s[i] \in AuthoredLines
  BY LenProperties, ElementOfSeq
<1>3. G \in [LoadState \X AuthoredLines -> LoadState]
  BY LoadStepType
<1>4. \A a \in LoadState, b \in AuthoredLines : G[<<a, b>>] = LoadStep(a, b)
  OBVIOUS
<1>. HIDE DEF G
<1>5. \E it : Eq(it)
  <2>1. PICK it \in [SUBSET (1..Len(s)) -> LoadState] : Iterates(it, G, begin, s, Len(s))
    BY <1>3, IterationExists
  <2>2. ASSUME NEW T \in SUBSET (1..Len(s)), T # {}
        PROVE  G[<<it[T \ {Max(T)}], s[Max(T)]>>] = LoadStep(it[T \ {Max(T)}], s[Max(T)])
    <3>1. Max(T) \in T
      BY <1>1, <2>2, MaxOfSet
    <3>. QED  BY <1>1, <1>4, <2>1, <3>1
  <2>3. Eq(it)
    BY <1>1, <2>1, <2>2 DEF Iterates
  <2>. QED  BY <2>3
<1>6. Eq(c)
  BY <1>5
<1>7. FoldLeft(LoadStep, begin, s) = c[DOMAIN s]
  BY Zenon DEF FoldLeft, MapThenFoldSet
<1>. HIDE DEF c
<1>8. FoldsAs(c, LoadState, AuthoredLines, G, begin, s)
  <2>1. ASSUME NEW T \in SUBSET (1..Len(s)), T # {}, c[T \ {Max(T)}] \in LoadState
        PROVE  c[T] = G[<<c[T \ {Max(T)}], s[Max(T)]>>]
    <3>1. Max(T) \in T
      BY <1>1, <2>1, MaxOfSet
    <3>2. c[T] = LoadStep(c[T \ {Max(T)}], s[Max(T)])
      BY <1>1, <1>6, <2>1
    <3>. QED  BY <1>1, <1>4, <2>1, <3>1, <3>2
  <2>. QED  BY <1>1, <1>3, <1>6, <2>1 DEF FoldsAs
<1>. HIDE DEF Eq
<1>9. PICK f \in [0..Len(s) -> LoadState] :
          /\ f[0] = begin
          /\ \A i \in 1..Len(s) : f[i] = G[<<f[i - 1], s[i]>>]
          /\ f[Len(s)] = c[1..Len(s)]
  BY <1>8, FoldRuns
<1>10. ASSUME NEW i \in 1..Len(s) PROVE f[i] = LoadStep(f[i - 1], s[i])
  <2>1. f[i - 1] \in LoadState
    BY <1>1, <1>9
  <2>. QED  BY <1>1, <1>4, <1>9, <2>1
<1>. QED  BY <1>1, <1>7, <1>9, <1>10

-------------------------------------------------------------------------------
(* The table behind a part of a file.                                      *)

Short(f, j) == Len(Line(f[j])) < LoadSize

\* The definitions among the first i that count.
Counted(f, i) == {j \in 1..i : Wellformed(f[j]) /\ \A k \in 1..j : Short(f, k)}

\* s is what load keeps of the first i lines.
Keeps(f, i, s) ==
    /\ s.ended = \E j \in 1..i : ~Short(f, j)
    /\ DOMAIN s.table = {f[j].name : j \in Counted(f, i)}
    /\ \A j \in Counted(f, i) :
          (\A k \in Counted(f, i) : f[k].name = f[j].name => j <= k) =>
              s.table[f[j].name] = Meant(f[j])

LEMMA KeepsOn ==
    ASSUME NEW f \in Seq(Authorings), NEW i \in Nat, i + 1 <= Len(f),
           NEW s \in LoadState, Keeps(f, i, s)
    PROVE  Keeps(f, i + 1, LoadStep(s, Line(f[i + 1])))
<1>. DEFINE d == f[i + 1]
            new == LoadStep(s, Line(d))
<1>1. d \in Authorings /\ Len(f) \in Nat
  BY LenProperties, ElementOfSeq
<1>2. Short(f, i + 1) <=> ~(Len(Line(d)) >= LoadSize)
  <2>1. Line(d) \in Strings
    BY <1>1, LineIsRead
  <2>2. PICK m \in Nat : m = Len(Line(d))
    BY <2>1, LenProperties DEF Strings
  <2>. QED  BY <2>2, LoadAssumption DEF Short
<1>3. s.ended <=> \E j \in 1..i : ~Short(f, j)
  BY DEF Keeps
<1>4. s.ended \in BOOLEAN
  BY DEF LoadState
<1>5. \A j \in 1..(i + 1) : j \in 1..i \/ j = i + 1
  OBVIOUS
<1>6. 1..i \subseteq 1..(i + 1) /\ i + 1 \in 1..(i + 1) /\ i + 1 \notin 1..i
  OBVIOUS
<1>7. Counted(f, i) \subseteq Counted(f, i + 1) /\ Counted(f, i + 1) \subseteq Counted(f, i) \cup {i + 1}
  BY <1>5, <1>6 DEF Counted
<1>8. \A j \in Counted(f, i) : j \in 1..i
  BY DEF Counted
<1>. HIDE DEF d
<1>9. CASE s.ended \/ ~Short(f, i + 1)
  <2>1. new = [s EXCEPT !.ended = TRUE]
    BY <1>2, <1>9 DEF LoadStep
  <2>2. new.ended = TRUE /\ new.table = s.table
    BY <2>1 DEF LoadState
  <2>3. \E j \in 1..(i + 1) : ~Short(f, j)
    BY <1>3, <1>6, <1>9
  <2>4. i + 1 \notin Counted(f, i + 1)
    BY <2>3 DEF Counted
  <2>5. Counted(f, i + 1) = Counted(f, i)
    BY <1>7, <2>4
  <2>6. new.ended = \E j \in 1..(i + 1) : ~Short(f, j)
    BY <2>2, <2>3
  <2>. HIDE DEF new
  <2>7. Keeps(f, i + 1, new)
    BY <2>2, <2>5, <2>6 DEF Keeps
  <2>. QED  BY <2>7 DEF new, d
<1>10. CASE ~s.ended /\ Short(f, i + 1)
  <2>1. /\ new = [s EXCEPT !.table = LoadLine(s.table, Line(d))]
        /\ \A j \in 1..(i + 1) : Short(f, j)
    BY <1>2, <1>3, <1>5, <1>10 DEF LoadStep
  <2>2. new.ended = s.ended /\ new.table = LoadLine(s.table, Line(d))
    BY <2>1 DEF LoadState
  <2>3. new.ended = \E j \in 1..(i + 1) : ~Short(f, j)
    BY <1>4, <1>10, <2>1, <2>2
  <2>4. new.table = IF Wellformed(d) THEN Insert(s.table, d.name, Meant(d)) ELSE s.table
    BY <1>1, <2>2, LoadLineIs
  <2>5. i + 1 \in Counted(f, i + 1) <=> Wellformed(d)
    <3>1. \A k \in 1..(i + 1) : Short(f, k)
      BY <2>1
    <3>. QED  BY <1>6, <3>1 DEF Counted, d
  <2>. HIDE DEF new
  <2>6. CASE ~Wellformed(d)
    <3>1. Counted(f, i + 1) = Counted(f, i)
      BY <1>7, <2>5, <2>6
    <3>2. Keeps(f, i + 1, new)
      BY <2>3, <2>4, <2>6, <3>1 DEF Keeps
    <3>. QED  BY <3>2 DEF new, d
  <2>7. CASE Wellformed(d)
    <3>1. Counted(f, i + 1) = Counted(f, i) \cup {i + 1}
      BY <1>7, <2>5, <2>7
    <3>2. /\ DOMAIN s.table = {f[j].name : j \in Counted(f, i)}
          /\ new.table = Insert(s.table, d.name, Meant(d))
      BY <2>4, <2>7 DEF Keeps
    <3>3. DOMAIN new.table = {f[j].name : j \in Counted(f, i + 1)}
      BY <3>1, <3>2 DEF Insert, d
    <3>4. ASSUME NEW j \in Counted(f, i + 1),
                 \A k \in Counted(f, i + 1) : f[k].name = f[j].name => j <= k
          PROVE  new.table[f[j].name] = Meant(f[j])
      <4>1. CASE j \in Counted(f, i)
        <5>1. \A k \in Counted(f, i) : f[k].name = f[j].name => j <= k
          BY <1>7, <3>4
        <5>2. s.table[f[j].name] = Meant(f[j])
          BY <4>1, <5>1 DEF Keeps
        <5>3. f[j].name \in DOMAIN s.table
          BY <3>2, <4>1
        <5>. QED  BY <3>2, <5>2, <5>3 DEF Insert
      <4>2. CASE j = i + 1
        <5>1. \A k \in Counted(f, i) : k < i + 1
          BY <1>8
        <5>2. \A k \in Counted(f, i) : f[k].name # d.name
          <6>. SUFFICES ASSUME NEW k \in Counted(f, i), f[k].name = d.name PROVE FALSE
            OBVIOUS
          <6>1. k \in 1..i
            BY <1>8
          <6>2. i + 1 <= k
            BY <1>7, <3>4, <4>2 DEF d
          <6>. QED  BY <6>1, <6>2
        <5>3. d.name \notin DOMAIN s.table
          BY <3>2, <5>2
        <5>. QED  BY <3>2, <4>2, <5>3 DEF Insert, d
      <4>. QED  BY <3>1, <4>1, <4>2
    <3>5. Keeps(f, i + 1, new)
      BY <2>3, <3>3, <3>4 DEF Keeps
    <3>. QED  BY <3>5 DEF new, d
  <2>. QED  BY <2>6, <2>7
<1>. QED  BY <1>4, <1>9, <1>10

LEMMA LoadKeeps ==
    ASSUME NEW f \in Seq(Authorings)
    PROVE  \E s \in LoadState : LoadLines(Lines(f)) = s.table /\ Keeps(f, Len(f), s)
<1>. DEFINE n == Len(f)
            lines == Lines(f)
<1>1. n \in Nat /\ DOMAIN f = 1..n /\ \A i \in 1..n : f[i] \in Authorings
  BY LenProperties, ElementOfSeq
<1>2. /\ lines \in Seq(AuthoredLines) /\ Len(lines) = n
      /\ \A i \in 1..n : lines[i] = Line(f[i])
  <2>1. lines \in [1..n -> AuthoredLines]
    BY <1>1 DEF Lines, AuthoredLines
  <2>2. \A i \in 1..n : lines[i] = Line(f[i])
    BY <1>1 DEF Lines
  <2>. QED  BY <1>1, <2>1, <2>2
<1>. HIDE DEF lines
<1>3. PICK g \in [0..n -> LoadState] :
          /\ g[0] = LoadBegin
          /\ \A i \in 1..n : g[i] = LoadStep(g[i - 1], lines[i])
          /\ FoldLeft(LoadStep, LoadBegin, lines) = g[n]
  <2>1. PICK g \in [0..Len(lines) -> LoadState] :
            /\ g[0] = LoadBegin
            /\ \A i \in 1..Len(lines) : g[i] = LoadStep(g[i - 1], lines[i])
            /\ FoldLeft(LoadStep, LoadBegin, lines) = g[Len(lines)]
    BY <1>2, LoadBeginType, LoadSteps
  <2>2. Len(lines) = n
    BY <1>2
  <2>. QED  BY <2>1, <2>2
<1>4. Keeps(f, 0, g[0])
  <2>1. g[0].ended = FALSE /\ g[0].table = <<>>
    BY <1>3 DEF LoadBegin
  <2>2. Counted(f, 0) = {} /\ ~ \E j \in 1..0 : ~Short(f, j)
    BY DEF Counted
  <2>3. DOMAIN <<>> = {}
    OBVIOUS
  <2>. QED  BY <2>1, <2>2, <2>3 DEF Keeps
<1>5. ASSUME NEW i \in Nat, i + 1 <= n, Keeps(f, i, g[i])
      PROVE  Keeps(f, i + 1, g[i + 1])
  <2>1. i + 1 \in 1..n /\ (i + 1) - 1 = i /\ i \in 0..n
    BY <1>1, <1>5
  <2>2. g[i + 1] = LoadStep(g[i], Line(f[i + 1]))
    BY <1>2, <1>3, <2>1
  <2>3. PICK s \in LoadState : s = g[i]
    BY <1>3, <2>1
  <2>. QED  BY <1>5, <2>2, <2>3, KeepsOn
<1>. DEFINE T == {i \in Nat : i <= n => Keeps(f, i, g[i])}
<1>6. 0 \in T
  BY <1>4
<1>7. ASSUME NEW i \in Nat, i \in T PROVE i + 1 \in T
  BY <1>1, <1>5, <1>7
<1>8. Nat \subseteq T
  <2>. HIDE DEF T
  <2>. QED  BY <1>6, <1>7, Induction
<1>9. Keeps(f, n, g[n]) /\ g[n] \in LoadState
  BY <1>1, <1>3, <1>8
<1>10. LoadLines(lines) = g[n].table
  BY <1>3 DEF LoadLines, LoadBegin
<1>. QED  BY <1>9, <1>10 DEF lines

\* LoadKeepsDefinitions: what load makes of a definition file, whatever its
\* fields contain and wherever it is cut off, is what its author wrote.
THEOREM LoadAlwaysKeeps == Spec => []LoadKeepsDefinitions
<1>1. Init => LoadKeepsDefinitions
  BY DEF Init, LoadKeepsDefinitions
<1>2. LoadKeepsDefinitions /\ [Next]_vars => LoadKeepsDefinitions'
  <2>. SUFFICES ASSUME LoadKeepsDefinitions, [Next]_vars PROVE LoadKeepsDefinitions'
    OBVIOUS
  <2>1. CASE Next
    <3>1. PICK f \in Seq(Authorings) : file' = f /\ commands' = LoadLines(Lines(f))
      BY <2>1, FilesAssumption DEF Next, Load, Authorings
    <3>2. PICK s \in LoadState : LoadLines(Lines(f)) = s.table /\ Keeps(f, Len(f), s)
      BY LoadKeeps
    <3>3. DOMAIN f = 1..Len(f)
      BY LenProperties
    <3>4. commands' = s.table
      BY <3>1, <3>2
    <3>5. {i \in DOMAIN f : Wellformed(f[i]) /\ \A j \in 1..i : Len(Line(f[j])) < LoadSize}
             = Counted(f, Len(f))
      BY <3>3 DEF Counted, Short
    <3>. QED  BY <3>1, <3>2, <3>4, <3>5 DEF LoadKeepsDefinitions, Keeps, Meant
  <2>2. CASE UNCHANGED vars
    BY <2>2 DEF vars, LoadKeepsDefinitions
  <2>. QED  BY <2>1, <2>2
<1>. QED  BY <1>1, <1>2, PTL DEF Spec

-------------------------------------------------------------------------------
(* build: texts in pieces.                                                 *)

PlainTexts == Seq(Alphabet \ {Brace})
Pieces == PlainTexts \cup {Id(n) : n \in 0..9}

LEMMA IdsAre ==
    ASSUME NEW n \in 0..9
    PROVE  /\ Id(n) \in Strings /\ Len(Id(n)) = 3 /\ Id(n) \notin PlainTexts
           /\ Id(n)[1] = Brace /\ Id(n)[2] # Brace /\ Id(n)[3] # Brace
           /\ \A m \in 0..9 : Id(m) = Id(n) => m = n
<1>2. n + 1 \in 1..10
  OBVIOUS
<1>3. Brace \in Alphabet /\ "}" \in Alphabet /\ Digits[n + 1] \in Alphabet
  BY AlphabetAssumption, CharactersAre
<1>4. \A i \in 1..10 : Digits[i] # Brace
  <2>1. \A i \in 1..10 : Digits[i] \in {"0", "1", "2", "3", "4", "5", "6", "7", "8", "9"}
    BY DEF Digits
  <2>. QED  BY <2>1 DEF Brace
<1>5. "}" # Brace
  BY DEF Brace
<1>6. /\ Id(n) \in Strings /\ Len(Id(n)) = 3
      /\ Id(n)[1] = Brace /\ Id(n)[2] = Digits[n + 1] /\ Id(n)[3] = "}"
  <2>1. Id(n) = <<Brace, Digits[n + 1], "}">>
    BY DEF Id
  <2>2. PICK a \in Alphabet, b \in Alphabet, c \in Alphabet :
            a = Brace /\ b = Digits[n + 1] /\ c = "}"
    BY <1>3
  <2>3. <<a, b, c>> \in Seq(Alphabet) /\ Len(<<a, b, c>>) = 3
        /\ <<a, b, c>>[1] = a /\ <<a, b, c>>[2] = b /\ <<a, b, c>>[3] = c
    OBVIOUS
  <2>. QED  BY <2>1, <2>2, <2>3 DEF Strings
<1>7. Id(n) \notin PlainTexts
  <2>. SUFFICES ASSUME Id(n) \in PlainTexts PROVE FALSE
    OBVIOUS
  <2>1. Id(n)[1] \in Alphabet \ {Brace}
    <3>1. PICK s \in Seq(Alphabet \ {Brace}) : s = Id(n)
      BY DEF PlainTexts
    <3>2. 1 \in 1..Len(s)
      <4>1. Len(s) = 3
        BY <1>6, <3>1
      <4>. QED  BY <4>1
    <3>3. s[1] \in Alphabet \ {Brace}
      BY <3>2, ElementOfSeq
    <3>. QED  BY <3>1, <3>3
  <2>. QED  BY <1>6, <2>1
<1>8. ASSUME NEW m \in 0..9, Id(m) = Id(n) PROVE m = n
  <2>1. Id(m)[2] = Digits[m + 1]
    BY DEF Id
  <2>2. Digits[m + 1] = Digits[n + 1]
    BY <1>6, <1>8, <2>1
  <2>3. \A i, j \in 1..10 : Digits[i] = Digits[j] => i = j
    BY DEF Digits
  <2>4. PICK i \in 1..10, j \in 1..10 : i = m + 1 /\ j = n + 1
    OBVIOUS
  <2>5. i = j
    BY <2>2, <2>3, <2>4
  <2>. QED  BY <2>4, <2>5
<1>. QED  BY <1>2, <1>4, <1>5, <1>6, <1>7, <1>8

LEMMA PiecesAreStrings == Pieces \subseteq Strings /\ PlainTexts \subseteq Pieces
<1>1. PlainTexts \subseteq Strings
  <2>1. Alphabet \ {Brace} \subseteq Alphabet
    OBVIOUS
  <2>. QED  BY <2>1, SeqMonotonic DEF PlainTexts, Strings
<1>. QED  BY <1>1, IdsAre DEF Pieces

\* What pieces are put together to.
Flat(q) == FoldLeft(Behind, <<>>, q)

LEMMA BehindType ==
    ASSUME NEW text \in Strings, NEW piece \in Strings
    PROVE  Behind(text, piece) \in Strings
BY ConcatProperties DEF Behind, Strings

LEMMA FlatSteps ==
    ASSUME NEW s \in Seq(Strings)
    PROVE  \E f \in [0..Len(s) -> Strings] :
              /\ f[0] = <<>>
              /\ \A i \in 1..Len(s) : f[i] = Behind(f[i - 1], s[i])
              /\ Flat(s) = f[Len(s)]
<1>. DEFINE G == [p \in Strings \X Strings |-> Behind(p[1], p[2])]
            Eq(it) == it = [T \in SUBSET DOMAIN s |->
                               IF T = {} THEN <<>>
                               ELSE Behind(it[T \ {Max(T)}], s[Max(T)])]
            c == CHOOSE it : Eq(it)
<1>1. /\ Len(s) \in Nat /\ DOMAIN s = 1..Len(s)
      /\ \A i \in 1..Len(s) : s[i] \in Strings
  BY LenProperties, ElementOfSeq
<1>2. <<>> \in Strings
  BY EmptySeq DEF Strings
<1>3. G \in [Strings \X Strings -> Strings]
  BY BehindType
<1>4. \A a \in Strings, b \in Strings : G[<<a, b>>] = Behind(a, b)
  OBVIOUS
<1>. HIDE DEF G
<1>5. \E it : Eq(it)
  <2>1. PICK it \in [SUBSET (1..Len(s)) -> Strings] : Iterates(it, G, <<>>, s, Len(s))
    BY <1>2, <1>3, IterationExists
  <2>2. ASSUME NEW T \in SUBSET (1..Len(s)), T # {}
        PROVE  G[<<it[T \ {Max(T)}], s[Max(T)]>>] = Behind(it[T \ {Max(T)}], s[Max(T)])
    <3>1. Max(T) \in T
      BY <1>1, <2>2, MaxOfSet
    <3>. QED  BY <1>1, <1>4, <2>1, <3>1
  <2>3. Eq(it)
    BY <1>1, <2>1, <2>2 DEF Iterates
  <2>. QED  BY <2>3
<1>6. Eq(c)
  BY <1>5
<1>7. Flat(s) = c[DOMAIN s]
  BY Zenon DEF Flat, FoldLeft, MapThenFoldSet
<1>. HIDE DEF c
<1>8. FoldsAs(c, Strings, Strings, G, <<>>, s)
  <2>1. ASSUME NEW T \in SUBSET (1..Len(s)), T # {}, c[T \ {Max(T)}] \in Strings
        PROVE  c[T] = G[<<c[T \ {Max(T)}], s[Max(T)]>>]
    <3>1. Max(T) \in T
      BY <1>1, <2>1, MaxOfSet
    <3>2. c[T] = Behind(c[T \ {Max(T)}], s[Max(T)])
      BY <1>1, <1>6, <2>1
    <3>. QED  BY <1>1, <1>4, <2>1, <3>1, <3>2
  <2>. QED  BY <1>1, <1>2, <1>3, <1>6, <2>1 DEF FoldsAs
<1>. HIDE DEF Eq
<1>9. PICK f \in [0..Len(s) -> Strings] :
          /\ f[0] = <<>>
          /\ \A i \in 1..Len(s) : f[i] = G[<<f[i - 1], s[i]>>]
          /\ f[Len(s)] = c[1..Len(s)]
  BY <1>8, FoldRuns
<1>10. ASSUME NEW i \in 1..Len(s) PROVE f[i] = Behind(f[i - 1], s[i])
  <2>1. f[i - 1] \in Strings
    BY <1>1, <1>9
  <2>. QED  BY <1>1, <1>4, <1>9, <2>1
<1>. QED  BY <1>1, <1>7, <1>9, <1>10

\* The first k pieces, put together, and where piece k begins.
Upto(q, k) == Flat(SubSeq(q, 1, k))
Place(q, k) == Len(Upto(q, k - 1)) + 1

LEMMA FlatAlong ==
    ASSUME NEW q \in Seq(Strings)
    PROVE  /\ Upto(q, 0) = <<>>
           /\ \A k \in 1..Len(q) : Upto(q, k) = Upto(q, k - 1) \o q[k]
           /\ \A k \in 0..Len(q) : Upto(q, k) \in Strings
           /\ Upto(q, Len(q)) = Flat(q)
<1>. DEFINE n == Len(q)
<1>1. n \in Nat /\ \A i \in 1..n : q[i] \in Strings
  BY LenProperties, ElementOfSeq
<1>2. PICK f \in [0..n -> Strings] :
          /\ f[0] = <<>>
          /\ \A i \in 1..n : f[i] = Behind(f[i - 1], q[i])
          /\ Flat(q) = f[n]
  BY FlatSteps
<1>3. ASSUME NEW k \in 0..n PROVE Upto(q, k) = f[k]
  <2>. DEFINE s == SubSeq(q, 1, k)
  <2>1. s \in Seq(Strings) /\ Len(s) = k /\ \A i \in 1..k : s[i] = q[i]
    <3>1. \A i \in 1..k : q[i] \in Strings
      BY <1>1
    <3>2. k \in Int /\ k - 1 + 1 = k
      BY <1>1
    <3>. QED  BY <1>1, <3>1, <3>2
  <2>. HIDE DEF s
  <2>2. PICK g \in [0..Len(s) -> Strings] :
            /\ g[0] = <<>>
            /\ \A i \in 1..Len(s) : g[i] = Behind(g[i - 1], s[i])
            /\ Flat(s) = g[Len(s)]
    BY <2>1, FlatSteps
  <2>3. ASSUME NEW i \in 1..k, f[i - 1] = g[i - 1] PROVE f[i] = g[i]
    <3>1. i \in 1..n /\ i \in 1..Len(s) /\ s[i] = q[i]
      BY <1>1, <2>1
    <3>. QED  BY <1>2, <2>2, <2>3, <3>1
  <2>4. GoAlike(k, f, g)
    BY <1>2, <2>2, <2>3 DEF GoAlike
  <2>5. k \in Nat /\ k \in 0..k
    OBVIOUS
  <2>6. f[k] = g[k]
    BY <2>4, <2>5, SameAlong
  <2>. QED  BY <2>1, <2>2, <2>6 DEF Upto, s
<1>4. \A k \in 1..n : k \in 0..n /\ k - 1 \in 0..n
  BY <1>1
<1>5. \A k \in 1..n : Upto(q, k) = Upto(q, k - 1) \o q[k]
  BY <1>2, <1>3, <1>4 DEF Behind
<1>6. 0 \in 0..n /\ n \in 0..n
  BY <1>1
<1>. QED  BY <1>2, <1>3, <1>5, <1>6

LEMMA Associative == \A a, b, c \in Strings : (a \o b) \o c = a \o (b \o c)
BY ConcatAssociative DEF Strings

\* l characters behind the first d.
LEMMA Slice ==
    ASSUME NEW s \in Strings, NEW d \in Nat, NEW l \in Nat, d + l <= Len(s)
    PROVE  /\ SubSeq(s, d + 1, d + l) \in Strings
           /\ Len(SubSeq(s, d + 1, d + l)) = l
           /\ \A i \in 1..l : SubSeq(s, d + 1, d + l)[i] = s[d + i]
<1>1. Len(s) \in Nat /\ \A i \in 1..Len(s) : s[i] \in Alphabet
  BY LenProperties, ElementOfSeq DEF Strings
<1>2. PICK m \in Int, n \in Int : m = d + 1 /\ n = d + l
  OBVIOUS
<1>3. \A i \in m..n : s[i] \in Alphabet
  <2>1. \A i \in m..n : i \in 1..Len(s)
    BY <1>1, <1>2
  <2>. QED  BY <1>1, <2>1
<1>4. /\ SubSeq(s, m, n) \in Seq(Alphabet)
      /\ Len(SubSeq(s, m, n)) = IF m <= n THEN n - m + 1 ELSE 0
      /\ \A i \in 1..(n - m + 1) : SubSeq(s, m, n)[i] = s[m + i - 1]
  BY <1>3, SubSeqProperties
<1>5. n - m + 1 = l /\ \A i \in Int : m + i - 1 = d + i
  BY <1>2
<1>6. Len(SubSeq(s, m, n)) = l
  BY <1>2, <1>4
<1>7. \A i \in 1..l : SubSeq(s, m, n)[i] = s[d + i]
  BY <1>4, <1>5
<1>. QED  BY <1>2, <1>4, <1>6, <1>7 DEF Strings

\* A text in three parts.
Joined(t, u, v, w) ==
    u \in Strings /\ v \in Strings /\ w \in Strings /\ t = (u \o v) \o w

LEMMA ThreeParts ==
    ASSUME NEW t, NEW u, NEW v, NEW w, Joined(t, u, v, w)
    PROVE  /\ t \in Strings /\ Len(t) = Len(u) + Len(v) + Len(w)
           /\ SubSeq(t, 1, Len(u)) = u
           /\ SubSeq(t, Len(u) + 1, Len(u) + Len(v)) = v
           /\ SubSeq(t, Len(u) + Len(v) + 1, Len(t)) = w
<1>. USE DEF Joined
<1>0. PICK a \in Nat, b \in Nat, c \in Nat : a = Len(u) /\ b = Len(v) /\ c = Len(w)
  BY LenProperties DEF Strings
<1>1. /\ u \o v \in Strings /\ Len(u \o v) = a + b
      /\ \A i \in 1..(a + b) : (u \o v)[i] = IF i <= a THEN u[i] ELSE v[i - a]
  BY <1>0, ConcatProperties DEF Strings
<1>2. /\ t \in Strings /\ Len(t) = a + b + c
      /\ \A i \in 1..(a + b + c) : t[i] = IF i <= a + b THEN (u \o v)[i] ELSE w[i - (a + b)]
  BY <1>0, <1>1, ConcatProperties DEF Strings
<1>4. SubSeq(t, 1, a) = u
  <2>1. /\ SubSeq(t, 0 + 1, 0 + a) \in Strings /\ Len(SubSeq(t, 0 + 1, 0 + a)) = a
        /\ \A i \in 1..a : SubSeq(t, 0 + 1, 0 + a)[i] = t[0 + i]
    <3>1. 0 \in Nat /\ 0 + a <= Len(t)
      BY <1>2
    <3>. QED  BY <1>2, <3>1, Slice
  <2>2. \A i \in 1..a : t[0 + i] = u[i]
    BY <1>1, <1>2
  <2>3. 0 + 1 = 1 /\ 0 + a = a
    OBVIOUS
  <2>. QED  BY <1>0, <2>1, <2>2, <2>3, SeqEqual DEF Strings
<1>5. SubSeq(t, a + 1, a + b) = v
  <2>1. /\ SubSeq(t, a + 1, a + b) \in Strings /\ Len(SubSeq(t, a + 1, a + b)) = b
        /\ \A i \in 1..b : SubSeq(t, a + 1, a + b)[i] = t[a + i]
    <3>1. a + b <= Len(t)
      BY <1>2
    <3>. QED  BY <1>2, <3>1, Slice
  <2>2. \A i \in 1..b : t[a + i] = v[i]
    <3>. SUFFICES ASSUME NEW i \in 1..b PROVE t[a + i] = v[i]
      OBVIOUS
    <3>1. a + i \in 1..(a + b + c) /\ a + i \in 1..(a + b) /\ ~(a + i <= a) /\ (a + i) - a = i
      OBVIOUS
    <3>2. t[a + i] = (u \o v)[a + i]
      <4>1. PICK j \in 1..(a + b + c) : j = a + i /\ j <= a + b
        BY <3>1
      <4>. QED  BY <1>2, <4>1
    <3>. QED  BY <1>1, <3>1, <3>2
  <2>3. PICK x \in Strings : x = SubSeq(t, a + 1, a + b)
    BY <2>1
  <2>4. Len(x) = Len(v) /\ \A i \in 1..Len(x) : x[i] = v[i]
    BY <1>0, <2>1, <2>2, <2>3
  <2>5. x = v
    BY <2>4, SeqEqual DEF Strings
  <2>. QED  BY <2>3, <2>5
<1>6. SubSeq(t, a + b + 1, a + b + c) = w
  <2>1. PICK d \in Nat : d = a + b
    OBVIOUS
  <2>2. /\ SubSeq(t, d + 1, d + c) \in Strings /\ Len(SubSeq(t, d + 1, d + c)) = c
        /\ \A i \in 1..c : SubSeq(t, d + 1, d + c)[i] = t[d + i]
    <3>1. d + c <= Len(t)
      BY <1>2, <2>1
    <3>. QED  BY <1>2, <3>1, Slice
  <2>3. \A i \in 1..c : t[d + i] = w[i]
    <3>. SUFFICES ASSUME NEW i \in 1..c PROVE t[d + i] = w[i]
      OBVIOUS
    <3>1. d + i \in 1..(a + b + c) /\ ~(d + i <= a + b) /\ (d + i) - (a + b) = i
      BY <2>1
    <3>. QED  BY <1>2, <3>1
  <2>4. SubSeq(t, d + 1, d + c) = w
    BY <1>0, <2>2, <2>3, SeqEqual DEF Strings
  <2>. QED  BY <2>1, <2>4
<1>. QED  BY <1>0, <1>2, <1>4, <1>5, <1>6

\* Two sequences of pieces that differ in piece k only.
Differ(q, r, k) ==
    /\ q \in Seq(Strings) /\ r \in Seq(Strings) /\ Len(r) = Len(q)
    /\ k \in 1..Len(q)
    /\ \A j \in 1..Len(q) : j # k => r[j] = q[j]

\* They are put together alike before it and behind it.
Alike(q, r, k) ==
    /\ \A m \in 0..(k - 1) : Upto(r, m) = Upto(q, m)
    /\ \A m \in k..Len(q) : \E w \in Strings :
          /\ Upto(q, m) = (Upto(q, k - 1) \o q[k]) \o w
          /\ Upto(r, m) = (Upto(q, k - 1) \o r[k]) \o w

LEMMA SplitAt ==
    ASSUME NEW q, NEW r, NEW k, Differ(q, r, k)
    PROVE  Alike(q, r, k)
<1>. DEFINE n == Len(q)
            u == Upto(q, k - 1)
            Split(m) == \E w \in Strings :
                           /\ Upto(q, m) = (u \o q[k]) \o w
                           /\ Upto(r, m) = (u \o r[k]) \o w
            T == {i \in Nat : i < k => Upto(r, i) = Upto(q, i)}
            U == {i \in Nat : k + i <= n => Split(k + i)}
<1>0. /\ q \in Seq(Strings) /\ r \in Seq(Strings) /\ Len(r) = n
      /\ n \in Nat /\ k \in Nat /\ k >= 1 /\ k <= n
      /\ \A j \in 1..n : j # k => r[j] = q[j]
      /\ \A j \in 1..n : q[j] \in Strings /\ r[j] \in Strings
  BY LenProperties, ElementOfSeq DEF Differ
<1>1. /\ Upto(q, 0) = <<>> /\ Upto(r, 0) = <<>>
      /\ \A i \in 1..n : Upto(q, i) = Upto(q, i - 1) \o q[i] /\ Upto(r, i) = Upto(r, i - 1) \o r[i]
      /\ \A i \in 0..n : Upto(q, i) \in Strings /\ Upto(r, i) \in Strings
  BY <1>0, FlatAlong
<1>2. Nat \subseteq T
  <2>1. 0 \in T
    BY <1>1
  <2>2. ASSUME NEW i \in Nat, i \in T PROVE i + 1 \in T
    <3>. SUFFICES ASSUME i + 1 < k PROVE Upto(r, i + 1) = Upto(q, i + 1)
      OBVIOUS
    <3>1. i + 1 \in 1..n /\ (i + 1) - 1 = i /\ i + 1 # k /\ Upto(r, i) = Upto(q, i)
      BY <1>0, <2>2
    <3>. QED  BY <1>0, <1>1, <3>1
  <2>. HIDE DEF T
  <2>. QED  BY <2>1, <2>2, Induction
<1>3. \A m \in 0..(k - 1) : Upto(r, m) = Upto(q, m)
  BY <1>0, <1>2
<1>4. Split(k)
  <2>1. u \in Strings /\ Upto(r, k - 1) = u /\ q[k] \in Strings /\ r[k] \in Strings
    BY <1>0, <1>1, <1>3
  <2>2. Upto(q, k) = u \o q[k] /\ Upto(r, k) = u \o r[k]
    <3>1. k \in 1..n
      BY <1>0
    <3>. QED  BY <1>1, <2>1, <3>1
  <2>. HIDE DEF u
  <2>3. (u \o q[k]) \in Strings /\ (u \o r[k]) \in Strings
    BY <2>1, ConcatProperties DEF Strings
  <2>4. (u \o q[k]) \o <<>> = u \o q[k] /\ (u \o r[k]) \o <<>> = u \o r[k]
    BY <2>3, ConcatEmptySeq DEF Strings
  <2>5. <<>> \in Strings
    BY EmptySeq DEF Strings
  <2>. QED  BY <2>2, <2>4, <2>5
<1>5. ASSUME NEW m \in k..(n - 1), Split(m) PROVE Split(m + 1)
  <2>1. PICK w \in Strings : Upto(q, m) = (u \o q[k]) \o w /\ Upto(r, m) = (u \o r[k]) \o w
    BY <1>5
  <2>2. m + 1 \in 1..n /\ (m + 1) - 1 = m /\ m + 1 # k
    BY <1>0
  <2>3. /\ r[m + 1] = q[m + 1] /\ q[m + 1] \in Strings
        /\ Upto(q, m + 1) = Upto(q, m) \o q[m + 1] /\ Upto(r, m + 1) = Upto(r, m) \o q[m + 1]
    BY <1>0, <1>1, <2>2
  <2>4. u \in Strings /\ q[k] \in Strings /\ r[k] \in Strings
    BY <1>0, <1>1
  <2>. HIDE DEF u
  <2>5. u \o q[k] \in Strings /\ u \o r[k] \in Strings /\ w \o q[m + 1] \in Strings
    BY <2>3, <2>4, ConcatProperties DEF Strings
  <2>6. /\ ((u \o q[k]) \o w) \o q[m + 1] = (u \o q[k]) \o (w \o q[m + 1])
        /\ ((u \o r[k]) \o w) \o q[m + 1] = (u \o r[k]) \o (w \o q[m + 1])
    BY <2>3, <2>5, Associative
  <2>. QED  BY <2>1, <2>3, <2>5, <2>6
<1>6. Nat \subseteq U
  <2>1. 0 \in U
    <3>. HIDE DEF Split
    <3>1. k + 0 = k
      BY <1>0
    <3>. QED  BY <1>4, <3>1
  <2>2. ASSUME NEW i \in Nat, i \in U PROVE i + 1 \in U
    <3>. HIDE DEF Split
    <3>. SUFFICES ASSUME k + (i + 1) <= n PROVE Split(k + (i + 1))
      OBVIOUS
    <3>1. Split(k + i) /\ k + i \in k..(n - 1) /\ k + (i + 1) = (k + i) + 1
      BY <1>0, <2>2
    <3>. QED  BY <1>5, <3>1
  <2>. HIDE DEF U
  <2>. QED  BY <2>1, <2>2, Induction
<1>7. \A m \in k..n : Split(m)
  <2>. HIDE DEF Split
  <2>. SUFFICES ASSUME NEW m \in k..n PROVE Split(m)
    OBVIOUS
  <2>1. m - k \in Nat /\ k + (m - k) = m
    BY <1>0
  <2>2. m - k \in U
    BY <1>6, <2>1
  <2>. QED  BY <1>0, <2>1, <2>2
<1>. QED  BY <1>3, <1>7 DEF Alike

LEMMA PiecesOf ==
    ASSUME NEW q \in Seq(Pieces)
    PROVE  /\ q \in Seq(Strings) /\ Len(q) \in Nat
           /\ \A k \in 1..Len(q) : q[k] \in Pieces /\ q[k] \in Strings
           /\ Flat(q) \in Strings
<1>1. q \in Seq(Strings)
  BY PiecesAreStrings, SeqMonotonic
<1>2. Len(q) \in Nat /\ \A k \in 1..Len(q) : q[k] \in Pieces
  BY LenProperties, ElementOfSeq
<1>3. Flat(q) \in Strings
  <2>1. Len(q) \in 0..Len(q)
    BY <1>2
  <2>. QED  BY <1>1, <2>1, FlatAlong
<1>. QED  BY <1>1, <1>2, <1>3, PiecesAreStrings

LEMMA Places ==
    ASSUME NEW q \in Seq(Strings), NEW k \in 1..Len(q)
    PROVE  /\ Place(q, k) \in Nat \ {0}
           /\ Place(q, k) + Len(q[k]) - 1 <= Len(Flat(q))
           /\ SubSeq(Flat(q), Place(q, k), Place(q, k) + Len(q[k]) - 1) = q[k]
           /\ \A j \in (k + 1)..Len(q) : Place(q, j) >= Place(q, k) + Len(q[k])
<1>0. PICK n \in Nat : n = Len(q) /\ k \in 1..n
  BY LenProperties
<1>1. /\ Differ(q, q, k) /\ q[k] \in Strings
      /\ \A m \in 0..n : Upto(q, m) \in Strings
      /\ Upto(q, n) = Flat(q)
  BY <1>0, ElementOfSeq, FlatAlong DEF Differ
<1>2. PICK u \in Strings, v \in Strings : u = Upto(q, k - 1) /\ v = q[k]
  BY <1>0, <1>1
<1>3. PICK a \in Nat, b \in Nat : a = Len(u) /\ b = Len(v)
  BY LenProperties DEF Strings
<1>4. Place(q, k) = a + 1 /\ Place(q, k) + Len(q[k]) - 1 = a + b
  <2>1. Place(q, k) = Len(u) + 1 /\ Len(q[k]) = b
    BY <1>2, <1>3 DEF Place
  <2>2. Place(q, k) = a + 1
    BY <1>3, <2>1
  <2>. QED  BY <2>1, <2>2
<1>5. ASSUME NEW m \in k..n
      PROVE  \E w \in Strings : Upto(q, m) = (u \o v) \o w
  <2>1. \A l \in k..Len(q) : \E w \in Strings : Upto(q, l) = (Upto(q, k - 1) \o q[k]) \o w
    <3>1. Alike(q, q, k)
      BY <1>1, SplitAt
    <3>. QED  BY <3>1 DEF Alike
  <2>2. \A l \in k..n : \E w \in Strings : Upto(q, l) = (u \o v) \o w
    BY <1>0, <1>2, <2>1
  <2>. QED  BY <2>2
<1>6. ASSUME NEW m \in k..n
      PROVE  /\ Len(Upto(q, m)) \in Nat /\ Len(Upto(q, m)) >= a + b
             /\ SubSeq(Upto(q, m), a + 1, a + b) = v
  <2>0. PICK w \in Strings : Upto(q, m) = (u \o v) \o w
    BY <1>5
  <2>1. PICK t : t = Upto(q, m) /\ Joined(t, u, v, w)
    BY <2>0 DEF Joined
  <2>2. PICK c \in Nat : c = Len(w)
    BY LenProperties DEF Strings
  <2>3. Len(Upto(q, m)) = a + b + c
    BY <1>3, <2>1, <2>2, ThreeParts
  <2>4. SubSeq(t, Len(u) + 1, Len(u) + Len(v)) = v
    BY <2>1, ThreeParts
  <2>5. SubSeq(t, a + 1, a + b) = v
    BY <1>3, <2>4
  <2>. QED  BY <2>1, <2>3, <2>5
<1>7. n \in k..n
  BY <1>0
<1>8. ASSUME NEW j \in (k + 1)..n PROVE Place(q, j) >= Place(q, k) + Len(q[k])
  <2>1. j - 1 \in k..n
    BY <1>0
  <2>2. Len(Upto(q, j - 1)) \in Nat /\ Len(Upto(q, j - 1)) >= a + b
    BY <1>6, <2>1
  <2>3. Place(q, k) + Len(q[k]) = a + b + 1
    <3>1. Len(q[k]) = b
      BY <1>2, <1>3
    <3>. QED  BY <1>4, <3>1
  <2>4. PICK l \in Nat : l = Len(Upto(q, j - 1)) /\ l >= a + b
    BY <2>2
  <2>5. Place(q, j) = l + 1
    BY <2>4 DEF Place
  <2>. QED  BY <2>3, <2>4, <2>5
<1>9. /\ Place(q, k) + Len(q[k]) - 1 <= Len(Flat(q))
      /\ SubSeq(Flat(q), Place(q, k), Place(q, k) + Len(q[k]) - 1) = q[k]
  BY <1>1, <1>2, <1>4, <1>6, <1>7
<1>10. Place(q, k) \in Nat \ {0}
  BY <1>4
<1>. QED  BY <1>0, <1>8, <1>9, <1>10

\* Braces stand at the beginning of placeholders only.
LEMMA BracesAt ==
    ASSUME NEW q \in Seq(Pieces), NEW i \in 1..Len(Flat(q)), Flat(q)[i] = Brace
    PROVE  \E k \in 1..Len(q) : \E n \in 0..9 : q[k] = Id(n) /\ i = Place(q, k)
<1>. DEFINE Fine(m) == \A j \in 1..Len(Upto(q, m)) : Upto(q, m)[j] = Brace =>
                         \E k \in 1..Len(q) : \E n \in 0..9 : q[k] = Id(n) /\ j = Place(q, k)
            T == {m \in Nat : m <= Len(q) => Fine(m)}
<1>0. PICK n \in Nat : n = Len(q)
  BY PiecesOf
<1>1. /\ Upto(q, 0) = <<>>
      /\ \A m \in 1..n : Upto(q, m) = Upto(q, m - 1) \o q[m]
      /\ \A m \in 0..n : Upto(q, m) \in Strings
      /\ Upto(q, n) = Flat(q)
  BY <1>0, PiecesOf, FlatAlong
<1>2. 0 \in T
  <2>1. Len(Upto(q, 0)) = 0
    BY <1>1
  <2>. QED  BY <2>1
<1>3. ASSUME NEW m \in 1..n, Fine(m - 1) PROVE Fine(m)
  <2>1. PICK u \in Strings, v \in Strings : u = Upto(q, m - 1) /\ v = q[m]
    <3>1. m - 1 \in 0..n
      BY <1>0
    <3>. QED  BY <1>0, <1>1, <3>1, PiecesOf
  <2>2. PICK a \in Nat, b \in Nat : a = Len(u) /\ b = Len(v)
    BY LenProperties DEF Strings
  <2>3. /\ Len(u \o v) = a + b
        /\ \A j \in 1..(a + b) : (u \o v)[j] = IF j <= a THEN u[j] ELSE v[j - a]
    BY <2>2, ConcatProperties DEF Strings
  <2>4. PICK t : t = u \o v /\ t = Upto(q, m)
    BY <1>1, <2>1
  <2>5. \A j \in 1..(a + b) : t[j] = IF j <= a THEN u[j] ELSE v[j - a]
    BY <2>3, <2>4
  <2>. SUFFICES ASSUME NEW j \in 1..(a + b), t[j] = Brace
                PROVE  \E k \in 1..Len(q) : \E d \in 0..9 : q[k] = Id(d) /\ j = Place(q, k)
    BY <2>3, <2>4
  <2>6. CASE j <= a
    <3>1. u[j] = Brace
      BY <2>5, <2>6
    <3>2. j \in 1..Len(u)
      BY <2>2, <2>6
    <3>. QED  BY <1>3, <2>1, <3>1, <3>2
  <2>7. CASE ~(j <= a)
    <3>1. PICK l \in 1..b : j = a + l
      <4>1. j - a \in 1..b /\ j = a + (j - a)
        BY <2>7
      <4>. QED  BY <4>1
    <3>2. v[l] = Brace
      <4>1. j - a = l
        BY <3>1
      <4>. QED  BY <2>5, <2>7, <4>1
    <3>3. v \notin PlainTexts
      <4>1. ASSUME v \in PlainTexts PROVE v[l] \in Alphabet \ {Brace}
        BY <2>2, <4>1, ElementOfSeq DEF PlainTexts
      <4>. QED  BY <3>2, <4>1
    <3>4. PICK d \in 0..9 : v = Id(d)
      BY <1>0, <2>1, <3>3, PiecesOf DEF Pieces
    <3>5. l = 1 \/ l = 2 \/ l = 3
      <4>1. Len(Id(d)) = 3
        BY IdsAre
      <4>2. b = 3
        BY <2>2, <3>4, <4>1
      <4>. QED  BY <4>2
    <3>6. l = 1
      BY <3>2, <3>4, <3>5, IdsAre
    <3>7. Place(q, m) = a + 1
      BY <2>1, <2>2 DEF Place
    <3>. QED  BY <1>0, <2>1, <3>1, <3>4, <3>6, <3>7
  <2>. QED  BY <2>6, <2>7
<1>4. Nat \subseteq T
  <2>. HIDE DEF Fine
  <2>1. ASSUME NEW m \in Nat, m \in T PROVE m + 1 \in T
    <3>. SUFFICES ASSUME m + 1 <= n PROVE Fine(m + 1)
      BY <1>0
    <3>1. m + 1 \in 1..n /\ (m + 1) - 1 = m /\ Fine(m)
      BY <1>0, <2>1
    <3>. QED  BY <1>3, <3>1
  <2>. HIDE DEF T
  <2>. QED  BY <1>2, <2>1, Induction
<1>5. Fine(n)
  <2>. HIDE DEF Fine
  <2>. QED  BY <1>0, <1>4
<1>. QED  BY <1>1, <1>5

\* Where Id(n) is searched from a place on, and where it stands there.
Standing(q, n, from) == {k \in 1..Len(q) : q[k] = Id(n) /\ Place(q, k) >= from}

LEMMA FindFinds ==
    ASSUME NEW q \in Seq(Pieces), NEW n \in 0..9, NEW from \in Nat \ {0},
           NEW i, i = Find(Flat(q), Id(n), from)
    PROVE  /\ Standing(q, n, from) = {} => i = 0
           /\ Standing(q, n, from) # {} =>
                 \E k \in Standing(q, n, from) :
                    i = Place(q, k) /\ \A j \in Standing(q, n, from) : i <= Place(q, j)
<1>. DEFINE found == {p \in from..(Len(Flat(q)) - Len(Id(n)) + 1) :
                         SubSeq(Flat(q), p, p + Len(Id(n)) - 1) = Id(n)}
<1>0. PICK text \in Strings, len \in Nat : text = Flat(q) /\ len = Len(text)
  BY PiecesOf, LenProperties DEF Strings
<1>1. Len(Id(n)) = 3 /\ Id(n)[1] = Brace
  BY IdsAre
<1>2. found = {p \in from..(len - 3 + 1) : SubSeq(text, p, p + 3 - 1) = Id(n)}
  BY <1>0, <1>1
<1>3. i = IF found = {} THEN 0 ELSE Min(found)
  BY DEF Find
<1>. HIDE DEF found
<1>4. ASSUME NEW p \in found PROVE \E k \in Standing(q, n, from) : p = Place(q, k)
  <2>1. p \in from..(len - 3 + 1) /\ SubSeq(text, p, p + 3 - 1) = Id(n)
    BY <1>2
  <2>2. PICK d \in Nat : p = d + 1 /\ d + 3 <= len /\ p + 3 - 1 = d + 3
    <3>1. p - 1 \in Nat /\ p = (p - 1) + 1 /\ (p - 1) + 3 <= len /\ p + 3 - 1 = (p - 1) + 3
      BY <2>1
    <3>. QED  BY <3>1
  <2>3. \A l \in 1..3 : SubSeq(text, d + 1, d + 3)[l] = text[d + l]
    BY <1>0, <2>2, Slice
  <2>4. text[p] = Brace
    <3>1. SubSeq(text, d + 1, d + 3)[1] = Brace
      BY <1>1, <2>1, <2>2
    <3>2. 1 \in 1..3
      OBVIOUS
    <3>. QED  BY <2>2, <2>3, <3>1, <3>2
  <2>5. PICK k \in 1..Len(q), m \in 0..9 : q[k] = Id(m) /\ p = Place(q, k)
    <3>1. p \in 1..len
      BY <2>2
    <3>. QED  BY <1>0, <2>4, <3>1, BracesAt
  <2>6. SubSeq(text, p, p + 3 - 1) = Id(m)
    <3>1. Len(q[k]) = 3
      BY <2>5, IdsAre
    <3>2. SubSeq(Flat(q), Place(q, k), Place(q, k) + Len(q[k]) - 1) = q[k]
      BY PiecesOf, Places
    <3>. QED  BY <1>0, <2>5, <3>1, <3>2
  <2>7. m = n
    BY <2>1, <2>6, IdsAre
  <2>. QED  BY <2>1, <2>5, <2>7 DEF Standing
<1>5. ASSUME NEW k \in Standing(q, n, from) PROVE Place(q, k) \in found
  <2>1. k \in 1..Len(q) /\ q[k] = Id(n) /\ Place(q, k) >= from
    BY DEF Standing
  <2>2. /\ Place(q, k) \in Nat
        /\ Place(q, k) + Len(q[k]) - 1 <= Len(Flat(q))
        /\ SubSeq(Flat(q), Place(q, k), Place(q, k) + Len(q[k]) - 1) = q[k]
    BY <2>1, PiecesOf, Places
  <2>3. PICK p \in Nat : p = Place(q, k)
    BY <2>2
  <2>4. p + 3 - 1 <= len /\ SubSeq(text, p, p + 3 - 1) = Id(n) /\ p >= from
    BY <1>0, <1>1, <2>1, <2>2, <2>3
  <2>5. p \in from..(len - 3 + 1)
    BY <2>4
  <2>. QED  BY <1>2, <2>3, <2>4, <2>5
<1>6. CASE Standing(q, n, from) = {}
  BY <1>3, <1>4, <1>6
<1>7. CASE Standing(q, n, from) # {}
  <2>1. found \in SUBSET Nat /\ found # {}
    BY <1>2, <1>5, <1>7
  <2>2. i \in found /\ \A p \in found : i <= p
    <3>1. Min(found) \in found /\ \A p \in found : Min(found) <= p
      BY <2>1, LeastOfSet
    <3>. QED  BY <1>3, <2>1, <3>1
  <2>. QED  BY <1>4, <1>5, <1>7, <2>2
<1>. QED  BY <1>6, <1>7

\* Piece k, replaced.
Instead(q, r, k, arg) == r = [q EXCEPT ![k] = arg]

LEMMA PutAtPlace ==
    ASSUME NEW q \in Seq(Pieces), NEW n \in 0..9, NEW k \in 1..Len(q), q[k] = Id(n),
           NEW arg \in PlainTexts, NEW r, Instead(q, r, k, arg)
    PROVE  /\ r \in Seq(Pieces) /\ Len(r) = Len(q) /\ r[k] = arg
           /\ \A j \in 1..Len(q) : j # k => r[j] = q[j]
           /\ Flat(r) = PutAt(Flat(q), Place(q, k), Id(n), arg)
           /\ \A j \in 1..k : Place(r, j) = Place(q, j)
           /\ \A j \in (k + 1)..Len(q) : Place(r, j) = Place(q, j) - 3 + Len(arg)
<1>0. arg \in Pieces /\ arg \in Strings
  BY PiecesAreStrings
<1>1. /\ r \in Seq(Pieces) /\ Len(r) = Len(q) /\ r[k] = arg
      /\ \A j \in 1..Len(q) : j # k => r[j] = q[j]
  BY <1>0, ExceptSeq DEF Instead
<1>2. Alike(q, r, k)
  <2>1. Differ(q, r, k)
    BY <1>1, PiecesOf DEF Differ
  <2>. QED  BY <2>1, SplitAt
<1>3. PICK m \in Nat : m = Len(q) /\ k \in 1..m
  BY PiecesOf
<1>4. PICK u \in Strings, a \in Nat : u = Upto(q, k - 1) /\ a = Len(u)
  <2>1. Upto(q, k - 1) \in Strings
    <3>1. k - 1 \in 0..Len(q)
      BY <1>3
    <3>. QED  BY <3>1, PiecesOf, FlatAlong
  <2>. QED  BY <2>1, LenProperties DEF Strings
<1>5. Place(q, k) = a + 1
  BY <1>4 DEF Place
<1>6. PICK id \in Strings : id = Id(n) /\ Len(id) = 3 /\ id = q[k]
  BY IdsAre
<1>7. PICK b \in Nat : b = Len(arg)
  BY <1>0, LenProperties DEF Strings
<1>8. ASSUME NEW l \in k..m
      PROVE  \E w \in Strings : /\ Joined(Upto(q, l), u, id, w)
                                /\ Joined(Upto(r, l), u, arg, w)
  <2>1. PICK w \in Strings : /\ Upto(q, l) = (Upto(q, k - 1) \o q[k]) \o w
                             /\ Upto(r, l) = (Upto(q, k - 1) \o r[k]) \o w
    BY <1>2, <1>3 DEF Alike
  <2>. QED  BY <1>0, <1>1, <1>4, <1>6, <2>1 DEF Joined
<1>9. ASSUME NEW j \in (k + 1)..m PROVE Place(r, j) = Place(q, j) - 3 + b
  <2>1. j - 1 \in k..m
    BY <1>3
  <2>2. PICK w \in Strings : /\ Joined(Upto(q, j - 1), u, id, w)
                             /\ Joined(Upto(r, j - 1), u, arg, w)
    BY <1>8, <2>1
  <2>3. PICK c \in Nat : c = Len(w)
    BY LenProperties DEF Strings
  <2>4. Len(Upto(q, j - 1)) = a + 3 + c
    <3>1. Len(Upto(q, j - 1)) = Len(u) + Len(id) + Len(w)
      BY <2>2, ThreeParts
    <3>. QED  BY <1>4, <1>6, <2>3, <3>1
  <2>5. Len(Upto(r, j - 1)) = a + b + c
    <3>1. Len(Upto(r, j - 1)) = Len(u) + Len(arg) + Len(w)
      BY <2>2, ThreeParts
    <3>. QED  BY <1>4, <1>7, <2>3, <3>1
  <2>. QED  BY <2>4, <2>5 DEF Place
<1>10. ASSUME NEW j \in 1..k PROVE Place(r, j) = Place(q, j)
  <2>1. j - 1 \in 0..(k - 1)
    BY <1>3
  <2>. QED  BY <1>2, <2>1 DEF Alike, Place
<1>11. Flat(r) = PutAt(Flat(q), Place(q, k), Id(n), arg)
  <2>1. m \in k..m
    BY <1>3
  <2>2. PICK w \in Strings : /\ Joined(Upto(q, m), u, id, w)
                             /\ Joined(Upto(r, m), u, arg, w)
    BY <1>8, <2>1
  <2>3. Upto(q, m) = Flat(q) /\ Upto(r, m) = Flat(r)
    BY <1>1, <1>3, PiecesOf, FlatAlong
  <2>4. PICK t : t = Flat(q) /\ Joined(t, u, id, w)
    BY <2>2, <2>3
  <2>5. SubSeq(t, 1, Len(u)) = u /\ SubSeq(t, Len(u) + Len(id) + 1, Len(t)) = w
    BY <2>4, ThreeParts
  <2>6. SubSeq(t, 1, a) = u /\ SubSeq(t, a + 3 + 1, Len(t)) = w
    BY <1>4, <1>6, <2>5
  <2>7. (a + 1) - 1 = a /\ (a + 1) + 3 = a + 3 + 1
    OBVIOUS
  <2>8. PutAt(t, a + 1, id, arg) = (u \o arg) \o w
    <3>1. PutAt(t, a + 1, id, arg) = (SubSeq(t, 1, (a + 1) - 1) \o arg) \o SubSeq(t, (a + 1) + 3, Len(t))
      BY <1>6 DEF PutAt
    <3>. QED  BY <2>6, <2>7, <3>1
  <2>. QED  BY <1>5, <1>6, <2>2, <2>3, <2>4, <2>8 DEF Joined
<1>. QED  BY <1>1, <1>3, <1>7, <1>9, <1>10, <1>11

\* The loop of _addArg, one round after the other.
Loops(f, arg, n) ==
    \A text \in Strings : \A from \in Nat :
        f[<<text, from>>] =
            IF Find(text, Id(n), from) = 0
            THEN text
            ELSE f[<<PutAt(text, Find(text, Id(n), from), Id(n), arg),
                     SearchFrom(Find(text, Id(n), from), Id(n))>>]

LEMMA RoundType ==
    ASSUME NEW text \in Strings, NEW from \in Nat, NEW arg \in Strings, NEW n \in 0..9,
           NEW i, i = Find(text, Id(n), from), i # 0
    PROVE  PutAt(text, i, Id(n), arg) \in Strings /\ SearchFrom(i, Id(n)) \in Nat
<1>. DEFINE found == {p \in from..(Len(text) - Len(Id(n)) + 1) :
                         SubSeq(text, p, p + Len(Id(n)) - 1) = Id(n)}
<1>0. PICK len \in Nat : len = Len(text)
  BY LenProperties DEF Strings
<1>1. Len(Id(n)) = 3
  BY IdsAre
<1>2. i = Min(found) /\ found # {}
  BY DEF Find
<1>3. i \in Nat \ {0} /\ i <= len - 3 + 1
  <2>1. found \subseteq from..(len - 3 + 1)
    BY <1>0, <1>1
  <2>. HIDE DEF found
  <2>2. found \in SUBSET Nat
    BY <2>1
  <2>3. Min(found) \in found
    BY <1>2, <2>2, LeastOfSet
  <2>4. i \in from..(len - 3 + 1)
    BY <1>2, <2>1, <2>3
  <2>. QED  BY <2>4
<1>4. PICK d \in Nat, e \in Nat : i - 1 = d /\ i + 3 = e + 1 /\ e <= len
  <2>1. i - 1 \in Nat /\ i + 2 \in Nat /\ i + 3 = (i + 2) + 1 /\ i + 2 <= len
    BY <1>3
  <2>. QED  BY <2>1
<1>5. SubSeq(text, 1, d) \in Strings
  <2>1. 0 \in Nat /\ 0 + d <= Len(text)
    BY <1>0, <1>3, <1>4
  <2>2. SubSeq(text, 0 + 1, 0 + d) \in Strings
    BY <2>1, Slice
  <2>. QED  BY <2>2
<1>6. SubSeq(text, e + 1, len) \in Strings
  <2>1. PICK l \in Nat : e + l = len
    <3>1. len - e \in Nat /\ e + (len - e) = len
      BY <1>4
    <3>. QED  BY <3>1
  <2>2. SubSeq(text, e + 1, e + l) \in Strings
    <3>1. e + l <= Len(text)
      BY <1>0, <2>1
    <3>. QED  BY <3>1, Slice
  <2>. QED  BY <2>1, <2>2
<1>7. PutAt(text, i, Id(n), arg) \in Strings
  <2>1. PutAt(text, i, Id(n), arg) = (SubSeq(text, 1, d) \o arg) \o SubSeq(text, e + 1, len)
    BY <1>0, <1>1, <1>4 DEF PutAt
  <2>2. SubSeq(text, 1, d) \o arg \in Strings
    BY <1>5, ConcatProperties DEF Strings
  <2>3. (SubSeq(text, 1, d) \o arg) \o SubSeq(text, e + 1, len) \in Strings
    BY <1>6, <2>2, ConcatProperties DEF Strings
  <2>. QED  BY <2>1, <2>3
<1>. QED  BY <1>1, <1>3, <1>7 DEF SearchFrom

LEMMA ReplacedLoops ==
    ASSUME NEW arg \in Strings, NEW n \in 0..9
    PROVE  Loops(Replaced(arg, Id(n)), arg, n)
<1>. DEFINE X == Strings \X Nat
            I(x) == Find(x[1], Id(n), x[2])
            Done == {x \in X : I(x) = 0}
            Next1(x) == <<PutAt(x[1], I(x), Id(n), arg), SearchFrom(I(x), Id(n))>>
            Step == [x \in X |-> IF x \in Done THEN x ELSE Next1(x)]
            Out == [x \in X |-> x[1]]
            Eq(f) == f = [at \in Seq(Alphabet) \X Nat |->
                             LET text == at[1]
                                 i == Find(text, Id(n), at[2])
                             IN  IF i = 0
                                 THEN text
                                 ELSE f[<<PutAt(text, i, Id(n), arg), SearchFrom(i, Id(n))>>]]
<1>1. Step \in [X -> X]
  <2>1. \A x \in X : x \notin Done => Next1(x) \in X
    BY RoundType
  <2>. HIDE DEF Done, Next1
  <2>. QED  BY <2>1
<1>2. Out \in [X -> Strings] /\ <<>> \in Strings
  BY EmptySeq DEF Strings
<1>3. \E f : Eq(f)
  <2>. HIDE DEF X, Done, Step, Out
  <2>0. PICK f \in [X -> Strings] : Returns(f, X, Done, Out, Step)
    BY <1>1, <1>2, LoopFunction
  <2>1. f = [x \in X |-> IF x \in Done THEN Out[x] ELSE f[Step[x]]]
    BY <2>0 DEF Returns
  <2>2. ASSUME NEW x \in X
        PROVE  (IF x \in Done THEN Out[x] ELSE f[Step[x]]) =
                   (IF I(x) = 0 THEN x[1] ELSE f[Next1(x)])
    <3>. HIDE DEF I, Next1
    <3>. QED  BY DEF Done, Out, Step
  <2>3. f = [x \in X |-> IF I(x) = 0 THEN x[1] ELSE f[Next1(x)]]
    <3>. HIDE DEF I, Next1
    <3>. QED  BY <2>1, <2>2
  <2>4. Eq(f)
    BY <2>3, Zenon DEF X, Strings
  <2>. QED  BY <2>4
<1>4. Replaced(arg, Id(n)) = CHOOSE f : Eq(f)
  BY Zenon DEF Replaced
<1>5. Eq(Replaced(arg, Id(n)))
  <2>. HIDE DEF Eq
  <2>. QED  BY <1>3, <1>4
<1>6. PICK g : g = Replaced(arg, Id(n))
  OBVIOUS
<1>7. g = [at \in Strings \X Nat |->
              IF I(at) = 0 THEN at[1] ELSE g[Next1(at)]]
  <2>1. Eq(g)
    <3>. HIDE DEF Eq
    <3>. QED  BY <1>5, <1>6
  <2>. QED  BY <2>1, Zenon DEF Strings
<1>8. Loops(g, arg, n)
  <2>. SUFFICES ASSUME NEW text \in Strings, NEW from \in Nat
                PROVE  g[<<text, from>>] =
                          IF I(<<text, from>>) = 0 THEN text ELSE g[Next1(<<text, from>>)]
    BY DEF Loops
  <2>. HIDE DEF I, Next1
  <2>. QED  BY <1>7
<1>. QED  BY <1>6, <1>8

\* The pieces with all placeholders n replaced, with some of them, and the
\* room between them.
Embed(q, n, arg) == [k \in DOMAIN q |-> IF q[k] = Id(n) THEN arg ELSE q[k]]

EmbedSome(q, r, n, arg) ==
    /\ r \in Seq(Pieces) /\ Len(r) = Len(q)
    /\ \A k \in 1..Len(q) : r[k] = q[k] \/ (q[k] = Id(n) /\ r[k] = arg)

Roomy(q, n, l) ==
    \A j, k \in 1..Len(q) :
        (j < k /\ q[j] = Id(n) /\ q[k] = Id(n)) => (Place(q, k) - (Place(q, j) + 3)) + l >= 3

AllBehind(q, n, from) == \A k \in 1..Len(q) : q[k] = Id(n) => Place(q, k) >= from

\* The loop, begun at a place, ends with r.
EndsWith(f, q, r, n, arg, from) ==
    /\ f[<<Flat(q), from>>] = Flat(r)
    /\ EmbedSome(q, r, n, arg)
    /\ (Roomy(q, n, Len(arg)) /\ AllBehind(q, n, from)) => r = Embed(q, n, arg)

LEMMA LastRound ==
    ASSUME NEW q \in Seq(Pieces), NEW n \in 0..9, NEW arg \in PlainTexts,
           NEW from \in Nat \ {0}, NEW f, Loops(f, arg, n),
           Standing(q, n, from) = {}
    PROVE  EndsWith(f, q, q, n, arg, from)
<1>1. f[<<Flat(q), from>>] = Flat(q)
  <2>1. Find(Flat(q), Id(n), from) = 0
    BY FindFinds
  <2>2. Flat(q) \in Strings /\ from \in Nat
    BY PiecesOf
  <2>. QED  BY <2>1, <2>2 DEF Loops
<1>2. EmbedSome(q, q, n, arg)
  BY DEF EmbedSome
<1>3. ASSUME AllBehind(q, n, from) PROVE q = Embed(q, n, arg)
  <2>1. \A k \in 1..Len(q) : q[k] # Id(n)
    BY <1>3 DEF AllBehind, Standing
  <2>2. DOMAIN q = 1..Len(q) /\ q = [k \in DOMAIN q |-> q[k]]
    BY LenProperties
  <2>. QED  BY <2>1, <2>2 DEF Embed
<1>. QED  BY <1>1, <1>2, <1>3 DEF EndsWith

\* Piece k is the one that is found.
FindsPiece(q, n, from, k) ==
    /\ k \in Standing(q, n, from)
    /\ \A j \in Standing(q, n, from) : Place(q, k) <= Place(q, j)
    /\ Find(Flat(q), Id(n), from) = Place(q, k)

LEMMA OneRound ==
    ASSUME NEW q \in Seq(Pieces), NEW n \in 0..9, NEW arg \in PlainTexts,
           NEW from \in Nat \ {0}, NEW f, Loops(f, arg, n),
           NEW k, FindsPiece(q, n, from, k),
           NEW q1, Instead(q, q1, k, arg), NEW from1, from1 = Place(q, k) + 3
    PROVE  /\ q1 \in Seq(Pieces) /\ Len(q1) = Len(q) /\ from1 \in Nat \ {0}
           /\ \A j \in Standing(q1, n, from1) : j > k
           /\ \A r : EndsWith(f, q1, r, n, arg, from1) => EndsWith(f, q, r, n, arg, from)
<1>. USE DEF FindsPiece
<1>0. k \in 1..Len(q) /\ q[k] = Id(n) /\ Place(q, k) >= from
  BY DEF Standing
<1>1. PICK m \in Nat, i \in Nat \ {0}, l \in Nat :
          m = Len(q) /\ k \in 1..m /\ i = Place(q, k) /\ l = Len(arg) /\ i >= from
  BY <1>0, PiecesOf, PiecesAreStrings, Places, LenProperties DEF Strings
<1>2. /\ q1 \in Seq(Pieces) /\ Len(q1) = m /\ q1[k] = arg
      /\ \A j \in 1..m : j # k => q1[j] = q[j]
      /\ Flat(q1) = PutAt(Flat(q), i, Id(n), arg)
      /\ \A j \in 1..k : Place(q1, j) = Place(q, j)
      /\ \A j \in (k + 1)..m : Place(q1, j) = Place(q, j) - 3 + l
  <2>1. /\ q1 \in Seq(Pieces) /\ Len(q1) = Len(q) /\ q1[k] = arg
        /\ \A j \in 1..Len(q) : j # k => q1[j] = q[j]
        /\ Flat(q1) = PutAt(Flat(q), Place(q, k), Id(n), arg)
        /\ \A j \in 1..k : Place(q1, j) = Place(q, j)
        /\ \A j \in (k + 1)..Len(q) : Place(q1, j) = Place(q, j) - 3 + Len(arg)
    BY <1>0, PutAtPlace
  <2>. QED  BY <1>1, <2>1
<1>3. \A j \in 1..m : Place(q, j) \in Nat \ {0}
  BY <1>1, PiecesOf, Places
<1>4. arg # Id(n)
  BY IdsAre
<1>5. ASSUME NEW j \in 1..m, j < k, q[j] = Id(n) PROVE Place(q, j) + 3 <= i
  <2>1. k \in (j + 1)..m
    BY <1>1, <1>5
  <2>2. Len(q[j]) = 3
    BY <1>5, IdsAre
  <2>3. Place(q, k) >= Place(q, j) + Len(q[j])
    BY <1>1, <2>1, PiecesOf, Places
  <2>. QED  BY <1>1, <2>2, <2>3
<1>6. ASSUME NEW j \in Standing(q1, n, from1) PROVE j > k
  <2>1. j \in 1..m /\ q1[j] = Id(n) /\ Place(q1, j) >= from1
    BY <1>2 DEF Standing
  <2>2. j # k
    BY <1>2, <1>4, <2>1
  <2>3. ASSUME j < k PROVE FALSE
    <3>1. Place(q1, j) = Place(q, j) /\ q[j] = Id(n)
      <4>1. j \in 1..k
        BY <1>1, <2>1, <2>3
      <4>. QED  BY <1>2, <2>1, <2>2, <4>1
    <3>2. Place(q, j) + 3 <= i /\ Place(q, j) \in Nat
      BY <1>3, <1>5, <2>1, <2>3, <3>1
    <3>. QED  BY <1>1, <2>1, <3>1, <3>2
  <2>. QED  BY <1>1, <2>1, <2>2, <2>3
<1>7. ASSUME NEW r, EndsWith(f, q1, r, n, arg, from1)
      PROVE  EndsWith(f, q, r, n, arg, from)
  <2>1. f[<<Flat(q), from>>] = Flat(r)
    <3>1. Flat(q) \in Strings /\ from \in Nat /\ Find(Flat(q), Id(n), from) # 0
      BY <1>1, PiecesOf
    <3>2. f[<<Flat(q), from>>] = f[<<PutAt(Flat(q), i, Id(n), arg), SearchFrom(i, Id(n))>>]
      BY <1>1, <3>1 DEF Loops
    <3>3. SearchFrom(i, Id(n)) = from1
      BY <1>1, IdsAre DEF SearchFrom
    <3>. QED  BY <1>2, <1>7, <3>2, <3>3 DEF EndsWith
  <2>2. EmbedSome(q, r, n, arg)
    BY <1>0, <1>1, <1>2, <1>4, <1>7 DEF EndsWith, EmbedSome
  <2>3. ASSUME Roomy(q, n, l), AllBehind(q, n, from) PROVE r = Embed(q, n, arg)
    <3>1. ASSUME NEW j \in 1..m, q1[j] = Id(n)
          PROVE  j \in (k + 1)..m /\ q[j] = Id(n) /\ Place(q1, j) = Place(q, j) - 3 + l
      <4>1. j # k /\ q[j] = Id(n)
        BY <1>2, <1>4, <3>1
      <4>2. j \in Standing(q, n, from) /\ i <= Place(q, j)
        BY <1>1, <2>3, <4>1 DEF AllBehind, Standing
      <4>3. ~(j < k)
        BY <1>1, <1>3, <1>5, <4>1, <4>2
      <4>4. j \in (k + 1)..m
        BY <1>1, <4>1, <4>3
      <4>. QED  BY <1>2, <4>1, <4>4
    <3>2. Roomy(q1, n, l)
      <4>. SUFFICES ASSUME NEW j \in 1..m, NEW h \in 1..m,
                           j < h, q1[j] = Id(n), q1[h] = Id(n)
                    PROVE  (Place(q1, h) - (Place(q1, j) + 3)) + l >= 3
        BY <1>2 DEF Roomy
      <4>1. (Place(q, h) - (Place(q, j) + 3)) + l >= 3
        BY <1>1, <2>3, <3>1 DEF Roomy
      <4>2. Place(q1, h) = Place(q, h) - 3 + l /\ Place(q1, j) = Place(q, j) - 3 + l
        BY <3>1
      <4>. QED  BY <1>3, <4>1, <4>2
    <3>3. AllBehind(q1, n, from1)
      <4>. SUFFICES ASSUME NEW j \in 1..m, q1[j] = Id(n) PROVE Place(q1, j) >= from1
        BY <1>2 DEF AllBehind
      <4>1. (Place(q, j) - (Place(q, k) + 3)) + l >= 3
        <5>1. k < j /\ q[j] = Id(n)
          BY <1>1, <3>1
        <5>. QED  BY <1>0, <1>1, <2>3, <5>1 DEF Roomy
      <4>2. PICK x \in Nat : x = Place(q, j)
        BY <1>3
      <4>3. Place(q1, j) = x - 3 + l /\ (x - (i + 3)) + l >= 3 /\ from1 = i + 3
        BY <1>1, <3>1, <4>1, <4>2
      <4>. QED  BY <4>3
    <3>4. r = Embed(q1, n, arg)
      BY <1>1, <1>7, <3>2, <3>3 DEF EndsWith
    <3>5. Embed(q1, n, arg) = Embed(q, n, arg)
      <4>1. DOMAIN q1 = 1..m /\ DOMAIN q = 1..m
        BY <1>1, <1>2, LenProperties
      <4>2. \A j \in 1..m : (IF q1[j] = Id(n) THEN arg ELSE q1[j]) =
                            (IF q[j] = Id(n) THEN arg ELSE q[j])
        BY <1>0, <1>2
      <4>. QED  BY <4>1, <4>2 DEF Embed
    <3>. QED  BY <3>4, <3>5
  <2>. QED  BY <1>1, <2>1, <2>2, <2>3 DEF EndsWith
<1>8. from1 \in Nat \ {0}
  BY <1>1
<1>. QED  BY <1>1, <1>2, <1>6, <1>7, <1>8

LEMMA AllRounds ==
    ASSUME NEW q \in Seq(Pieces), NEW n \in 0..9, NEW arg \in PlainTexts,
           NEW from \in Nat \ {0}, NEW f, Loops(f, arg, n)
    PROVE  \E r : EndsWith(f, q, r, n, arg, from)
<1>. DEFINE Fine(d) == \A p \in Seq(Pieces) : \A at \in Nat \ {0} :
                          (\A k \in Standing(p, n, at) : k > Len(p) - d) =>
                              \E r : EndsWith(f, p, r, n, arg, at)
            T == {d \in Nat : Fine(d)}
<1>1. ASSUME NEW p \in Seq(Pieces), NEW at \in Nat \ {0}, Standing(p, n, at) = {}
      PROVE  \E r : EndsWith(f, p, r, n, arg, at)
  BY <1>1, LastRound
<1>2. 0 \in T
  <2>. SUFFICES ASSUME NEW p \in Seq(Pieces), NEW at \in Nat \ {0},
                       \A k \in Standing(p, n, at) : k > Len(p) - 0
                PROVE  Standing(p, n, at) = {}
    BY <1>1
  <2>1. Len(p) \in Nat
    BY PiecesOf
  <2>2. \A k \in Standing(p, n, at) : k \in 1..Len(p)
    BY DEF Standing
  <2>. QED  BY <2>1, <2>2
<1>3. ASSUME NEW d \in Nat, Fine(d) PROVE Fine(d + 1)
  <2>. SUFFICES ASSUME NEW p \in Seq(Pieces), NEW at \in Nat \ {0},
                       \A k \in Standing(p, n, at) : k > Len(p) - (d + 1)
                PROVE  \E r : EndsWith(f, p, r, n, arg, at)
    OBVIOUS
  <2>1. CASE Standing(p, n, at) = {}
    BY <1>1, <2>1
  <2>2. CASE Standing(p, n, at) # {}
    <3>1. PICK k : FindsPiece(p, n, at, k)
      BY <2>2, FindFinds DEF FindsPiece
    <3>2. PICK p1, at1 : Instead(p, p1, k, arg) /\ at1 = Place(p, k) + 3
      BY DEF Instead
    <3>3. /\ p1 \in Seq(Pieces) /\ Len(p1) = Len(p) /\ at1 \in Nat \ {0}
          /\ \A j \in Standing(p1, n, at1) : j > k
          /\ \A r : EndsWith(f, p1, r, n, arg, at1) => EndsWith(f, p, r, n, arg, at)
      BY <3>1, <3>2, OneRound
    <3>4. \A j \in Standing(p1, n, at1) : j > Len(p1) - d
      <4>1. PICK m \in Nat : m = Len(p)
        BY PiecesOf
      <4>2. k \in 1..m /\ k > m - (d + 1)
        BY <3>1, <4>1 DEF FindsPiece, Standing
      <4>. SUFFICES ASSUME NEW j \in Standing(p1, n, at1) PROVE j > m - d
        BY <3>3, <4>1
      <4>3. j \in 1..m /\ j > k
        BY <3>3, <4>1 DEF Standing
      <4>. QED  BY <4>2, <4>3
    <3>5. \E r : EndsWith(f, p1, r, n, arg, at1)
      BY <1>3, <3>3, <3>4
    <3>. QED  BY <3>3, <3>5
  <2>. QED  BY <2>1, <2>2
<1>4. Nat \subseteq T
  <2>. HIDE DEF Fine
  <2>1. \A d \in Nat : d \in T => d + 1 \in T
    BY <1>3
  <2>. HIDE DEF T
  <2>. QED  BY <1>2, <2>1, Induction
<1>5. Fine(Len(q))
  <2>. HIDE DEF Fine
  <2>. QED  BY <1>4, PiecesOf
<1>6. \A k \in Standing(q, n, from) : k > Len(q) - Len(q)
  <2>1. Len(q) \in Nat /\ \A k \in Standing(q, n, from) : k \in 1..Len(q)
    BY PiecesOf DEF Standing
  <2>. QED  BY <2>1
<1>. QED  BY <1>5, <1>6

LEMMA AddArgDoes ==
    ASSUME NEW q \in Seq(Pieces), NEW n \in 0..9, NEW arg \in PlainTexts
    PROVE  /\ (\A k \in 1..Len(q) : q[k] # Id(n)) => AddArg(Flat(q), arg, n) = <<>>
           /\ (\E k \in 1..Len(q) : q[k] = Id(n)) =>
                 \E r : /\ AddArg(Flat(q), arg, n) = Flat(r)
                        /\ EmbedSome(q, r, n, arg)
                        /\ Roomy(q, n, Len(arg)) => r = Embed(q, n, arg)
<1>1. \A k \in 1..Len(q) : Place(q, k) \in Nat \ {0}
  BY PiecesOf, Places
<1>2. AllBehind(q, n, 1) /\ Standing(q, n, 1) = {k \in 1..Len(q) : q[k] = Id(n)}
  BY <1>1 DEF AllBehind, Standing
<1>3. 1 \in Nat \ {0}
  OBVIOUS
<1>4. CASE \A k \in 1..Len(q) : q[k] # Id(n)
  <2>1. Standing(q, n, 1) = {}
    BY <1>2, <1>4
  <2>2. Find(Flat(q), Id(n), 1) = 0
    BY <1>3, <2>1, FindFinds
  <2>. QED  BY <1>4, <2>2 DEF AddArg
<1>5. CASE \E k \in 1..Len(q) : q[k] = Id(n)
  <2>1. Standing(q, n, 1) # {}
    BY <1>2, <1>5
  <2>2. Find(Flat(q), Id(n), 1) # 0
    <3>1. PICK k \in Standing(q, n, 1) : Find(Flat(q), Id(n), 1) = Place(q, k)
      BY <1>3, <2>1, FindFinds
    <3>. QED  BY <1>1, <1>2, <3>1
  <2>3. PICK f : f = Replaced(arg, Id(n)) /\ Loops(f, arg, n)
    BY PiecesAreStrings, ReplacedLoops
  <2>4. PICK r : EndsWith(f, q, r, n, arg, 1)
    BY <1>3, <2>3, AllRounds
  <2>5. AddArg(Flat(q), arg, n) = f[<<Flat(q), 1>>]
    BY <2>2, <2>3 DEF AddArg
  <2>. QED  BY <1>2, <1>5, <2>4, <2>5 DEF EndsWith
<1>. QED  BY <1>4, <1>5

-------------------------------------------------------------------------------
(* build: the pieces of a signature.                                       *)

LEMMA NumberAt ==
    ASSUME NEW text \in Strings, NEW i \in 1..Len(text), NEW n \in NumbersAt(text, i)
    PROVE  /\ n \in 0..9 /\ i + 2 <= Len(text) /\ SubSeq(text, i, i + 2) = Id(n)
           /\ text[i] = Brace /\ text[i + 1] # Brace /\ text[i + 2] # Brace
           /\ NumbersAt(text, i) = {n} /\ Min(NumbersAt(text, i)) = n
<1>0. PICK len \in Nat : len = Len(text) /\ i \in 1..len
  BY LenProperties DEF Strings
<1>1. ASSUME NEW m \in NumbersAt(text, i)
      PROVE  m \in 0..9 /\ i + 2 <= len /\ SubSeq(text, i, i + 2) = Id(m)
  <2>. DEFINE found == {p \in i..(Len(text) - Len(Id(m)) + 1) :
                           SubSeq(text, p, p + Len(Id(m)) - 1) = Id(m)}
  <2>1. m \in 0..9 /\ Find(text, Id(m), i) = i
    BY DEF NumbersAt
  <2>2. Len(Id(m)) = 3
    BY <2>1, IdsAre
  <2>3. found = {p \in i..(len - 3 + 1) : SubSeq(text, p, p + 3 - 1) = Id(m)}
    BY <1>0, <2>2
  <2>4. i = IF found = {} THEN 0 ELSE Min(found)
    BY <2>1 DEF Find
  <2>. HIDE DEF found
  <2>5. found # {} /\ found \in SUBSET Nat
    <3>1. i \in Nat /\ i # 0
      BY <1>0
    <3>2. found # {}
      BY <2>4, <3>1
    <3>3. \A p \in found : p \in i..(len - 3 + 1)
      BY <2>3
    <3>4. \A p \in found : p \in Nat
      BY <3>1, <3>3
    <3>. QED  BY <3>2, <3>4
  <2>6. i \in found
    <3>1. Min(found) \in found
      BY <2>5, LeastOfSet
    <3>. QED  BY <2>4, <2>5, <3>1
  <2>7. i + 3 - 1 = i + 2
    BY <1>0
  <2>. QED  BY <1>0, <2>1, <2>3, <2>6, <2>7
<1>2. /\ text[i] = Id(n)[1] /\ text[i + 1] = Id(n)[2] /\ text[i + 2] = Id(n)[3]
  <2>1. PICK d \in Nat : d + 1 = i /\ d + 3 = i + 2 /\ d + 3 <= len
    <3>1. i - 1 \in Nat /\ (i - 1) + 1 = i /\ (i - 1) + 3 = i + 2
      BY <1>0
    <3>. QED  BY <1>1, <3>1
  <2>2. \A l \in 1..3 : SubSeq(text, d + 1, d + 3)[l] = text[d + l]
    BY <1>0, <2>1, Slice
  <2>3. SubSeq(text, d + 1, d + 3) = Id(n) /\ d + 2 = i + 1
    BY <1>1, <2>1
  <2>4. 1 \in 1..3 /\ 2 \in 1..3 /\ 3 \in 1..3
    OBVIOUS
  <2>. QED  BY <2>1, <2>2, <2>3, <2>4
<1>3. NumbersAt(text, i) = {n}
  <2>1. ASSUME NEW m \in NumbersAt(text, i) PROVE m = n
    BY <1>1, IdsAre
  <2>. QED  BY <2>1
<1>4. Min({n}) = n
  <2>1. {n} \in SUBSET Nat /\ {n} # {}
    BY <1>1
  <2>2. Min({n}) \in {n}
    BY <2>1, LeastOfSet
  <2>. QED  BY <2>2
<1>. QED  BY <1>0, <1>1, <1>2, <1>3, <1>4, IdsAre

\* What follows the first character of a placeholder, in the text.
Within(text, i) == \E j \in {i - 1, i - 2} : j >= 1 /\ NumbersAt(text, j) # {}

LEMMA PieceIs ==
    ASSUME NEW text \in Strings, Braced(text), NEW i \in 1..Len(text),
           NEW args \in Seq(PlainTexts)
    PROVE  /\ Piece(text, args, i) \in Pieces
           /\ \A n \in NumbersAt(text, i) :
                 Piece(text, args, i) = IF n + 1 \in 1..Len(args) THEN args[n + 1] ELSE Id(n)
           /\ NumbersAt(text, i) = {} =>
                 /\ Piece(text, args, i) = IF Within(text, i) THEN <<>> ELSE <<text[i]>>
                 /\ Piece(text, args, i) \in PlainTexts
<1>1. DOMAIN args = 1..Len(args) /\ \A j \in 1..Len(args) : args[j] \in PlainTexts
  BY LenProperties, ElementOfSeq
<1>2. ASSUME NEW n \in NumbersAt(text, i)
      PROVE  /\ Piece(text, args, i) = IF n + 1 \in 1..Len(args) THEN args[n + 1] ELSE Id(n)
             /\ Piece(text, args, i) \in Pieces
  <2>1. n \in 0..9 /\ Min(NumbersAt(text, i)) = n /\ NumbersAt(text, i) # {}
    BY NumberAt
  <2>2. Piece(text, args, i) = IF n + 1 \in 1..Len(args) THEN args[n + 1] ELSE Id(n)
    BY <1>1, <2>1 DEF Piece
  <2>. QED  BY <1>1, <2>1, <2>2 DEF Pieces
<1>3. ASSUME NumbersAt(text, i) = {}
      PROVE  /\ Piece(text, args, i) = IF Within(text, i) THEN <<>> ELSE <<text[i]>>
             /\ Piece(text, args, i) \in PlainTexts
  <2>1. Piece(text, args, i) = IF Within(text, i) THEN <<>> ELSE <<text[i]>>
    BY <1>3 DEF Piece, Within
  <2>2. text[i] \in Alphabet \ {Brace}
    <3>1. DOMAIN text = 1..Len(text) /\ text[i] \in Alphabet
      BY LenProperties, ElementOfSeq DEF Strings
    <3>. QED  BY <1>3, <3>1 DEF Braced
  <2>3. <<>> \in PlainTexts /\ <<text[i]>> \in PlainTexts
    <3>1. PICK c \in Alphabet \ {Brace} : c = text[i]
      BY <2>2
    <3>2. <<c>> \in Seq(Alphabet \ {Brace})
      OBVIOUS
    <3>. QED  BY <3>1, <3>2, EmptySeq DEF PlainTexts
  <2>. QED  BY <2>1, <2>3
<1>. QED  BY <1>2, <1>3 DEF Pieces

\* The pieces of a text when the first n arguments are embedded.
Parted(text, args, n) == [i \in DOMAIN text |-> Piece(text, SubSeq(args, 1, n), i)]

LEMMA PartedType ==
    ASSUME NEW text \in Strings, Braced(text), NEW args \in Seq(PlainTexts),
           NEW n \in 0..Len(args)
    PROVE  /\ Parted(text, args, n) \in Seq(Pieces)
           /\ Len(Parted(text, args, n)) = Len(text)
           /\ SubSeq(args, 1, n) \in Seq(PlainTexts) /\ Len(SubSeq(args, 1, n)) = n
           /\ \A j \in 1..n : SubSeq(args, 1, n)[j] = args[j]
           /\ \A i \in 1..Len(text) : Parted(text, args, n)[i] = Piece(text, SubSeq(args, 1, n), i)
<1>1. PICK m \in Nat : m = Len(args) /\ \A j \in 1..m : args[j] \in PlainTexts
  BY LenProperties, ElementOfSeq
<1>2. /\ SubSeq(args, 1, n) \in Seq(PlainTexts) /\ Len(SubSeq(args, 1, n)) = n
      /\ \A j \in 1..n : SubSeq(args, 1, n)[j] = args[j]
  <2>1. n \in Nat /\ n - 1 + 1 = n /\ \A j \in 1..n : args[j] \in PlainTexts
    BY <1>1
  <2>. QED  BY <2>1
<1>3. PICK len \in Nat : len = Len(text) /\ DOMAIN text = 1..len
  BY LenProperties DEF Strings
<1>4. \A i \in 1..len : Piece(text, SubSeq(args, 1, n), i) \in Pieces
  BY <1>2, <1>3, PieceIs
<1>5. Parted(text, args, n) = [i \in 1..len |-> Piece(text, SubSeq(args, 1, n), i)]
  BY <1>3 DEF Parted
<1>6. Parted(text, args, n) \in [1..len -> Pieces]
  BY <1>4, <1>5
<1>7. Parted(text, args, n) \in Seq(Pieces) /\ Len(Parted(text, args, n)) = len
  BY <1>6
<1>. QED  BY <1>2, <1>3, <1>5, <1>7

\* Where placeholder n stands in the text, it stands in the pieces until its
\* argument has its turn, and nowhere else.
LEMMA StandsUntil ==
    ASSUME NEW text \in Strings, Braced(text), NEW args \in Seq(PlainTexts),
           NEW n \in 0..Len(args), NEW d \in 0..9, NEW i \in 1..Len(text)
    PROVE  Parted(text, args, n)[i] = Id(d) <=> (d \in NumbersAt(text, i) /\ d >= n)
<1>. DEFINE a == SubSeq(args, 1, n)
            p == Piece(text, a, i)
<1>1. /\ Parted(text, args, n)[i] = p
      /\ a \in Seq(PlainTexts) /\ Len(a) = n /\ \A j \in 1..n : a[j] \in PlainTexts
  BY PartedType, ElementOfSeq
<1>2. \A e \in NumbersAt(text, i) :
          /\ e \in 0..9 /\ NumbersAt(text, i) = {e}
          /\ p = IF e + 1 \in 1..n THEN a[e + 1] ELSE Id(e)
  <2>. SUFFICES ASSUME NEW e \in NumbersAt(text, i)
                PROVE  /\ e \in 0..9 /\ NumbersAt(text, i) = {e}
                       /\ p = IF e + 1 \in 1..n THEN a[e + 1] ELSE Id(e)
    OBVIOUS
  <2>1. e \in 0..9 /\ NumbersAt(text, i) = {e}
    BY NumberAt
  <2>. HIDE DEF a
  <2>2. Piece(text, a, i) = IF e + 1 \in 1..Len(a) THEN a[e + 1] ELSE Id(e)
    BY <1>1, PieceIs
  <2>. QED  BY <1>1, <2>1, <2>2
<1>3. NumbersAt(text, i) = {} => p \in PlainTexts
  BY <1>1, PieceIs
<1>4. Id(d) \notin PlainTexts /\ \A e \in 0..9 : Id(e) = Id(d) => e = d
  BY IdsAre
<1>. HIDE DEF a, p
<1>5. CASE NumbersAt(text, i) = {}
  BY <1>1, <1>3, <1>4, <1>5
<1>6. ASSUME NEW e \in NumbersAt(text, i)
      PROVE  p = Id(d) <=> (d \in NumbersAt(text, i) /\ d >= n)
  <2>1. n \in Nat
    BY LenProperties
  <2>2. CASE e + 1 \in 1..n
    BY <1>1, <1>2, <1>4, <2>1, <2>2
  <2>3. CASE e + 1 \notin 1..n
    <3>1. p = Id(e) /\ e >= n /\ e \in 0..9
      BY <1>2, <2>1, <2>3
    <3>. QED  BY <1>2, <1>4, <3>1
  <2>. QED  BY <2>2, <2>3
<1>. QED  BY <1>1, <1>5, <1>6

LEMMA NextParted ==
    ASSUME NEW text \in Strings, Braced(text), NEW args \in Seq(PlainTexts),
           Len(args) <= 10, NEW n \in 1..Len(args)
    PROVE  Parted(text, args, n) = Embed(Parted(text, args, n - 1), n - 1, args[n])
<1>. DEFINE q == Parted(text, args, n - 1)
            r == Parted(text, args, n)
<1>1. PICK m \in Nat : m = Len(args) /\ m <= 10 /\ n \in 1..m
  BY LenProperties
<1>2. n - 1 \in 0..9 /\ n - 1 \in 0..Len(args) /\ n \in 0..Len(args)
  BY <1>1
<1>3. PICK len \in Nat : len = Len(text) /\ DOMAIN text = 1..len
  BY LenProperties DEF Strings
<1>4. /\ q \in Seq(Pieces) /\ Len(q) = len /\ r \in Seq(Pieces) /\ Len(r) = len
      /\ DOMAIN q = 1..len /\ DOMAIN r = 1..len
  BY <1>2, <1>3, PartedType, LenProperties
<1>5. ASSUME NEW i \in 1..len
      PROVE  r[i] = IF q[i] = Id(n - 1) THEN args[n] ELSE q[i]
  <2>1. PICK a, b : a = SubSeq(args, 1, n - 1) /\ b = SubSeq(args, 1, n)
    OBVIOUS
  <2>2. /\ a \in Seq(PlainTexts) /\ Len(a) = n - 1 /\ \A j \in 1..(n - 1) : a[j] = args[j]
        /\ b \in Seq(PlainTexts) /\ Len(b) = n /\ \A j \in 1..n : b[j] = args[j]
        /\ q[i] = Piece(text, a, i) /\ r[i] = Piece(text, b, i)
    BY <1>2, <1>3, <2>1, PartedType
  <2>3. q[i] = Id(n - 1) <=> n - 1 \in NumbersAt(text, i)
    <3>1. n - 1 >= n - 1
      BY <1>1
    <3>. QED  BY <1>2, <1>3, <3>1, StandsUntil
  <2>. HIDE DEF q, r
  <2>4. CASE NumbersAt(text, i) = {}
    <3>1. /\ q[i] = IF Within(text, i) THEN <<>> ELSE <<text[i]>>
          /\ r[i] = IF Within(text, i) THEN <<>> ELSE <<text[i]>>
      BY <1>3, <2>2, <2>4, PieceIs
    <3>. QED  BY <2>3, <2>4, <3>1
  <2>5. ASSUME NEW d \in NumbersAt(text, i)
        PROVE  r[i] = IF q[i] = Id(n - 1) THEN args[n] ELSE q[i]
    <3>1. d \in 0..9 /\ NumbersAt(text, i) = {d}
      BY <1>3, NumberAt
    <3>2. /\ q[i] = IF d + 1 \in 1..(n - 1) THEN a[d + 1] ELSE Id(d)
          /\ r[i] = IF d + 1 \in 1..n THEN b[d + 1] ELSE Id(d)
      BY <1>3, <2>2, PieceIs
    <3>3. CASE d = n - 1
      <4>1. d + 1 = n /\ n \in 1..n /\ d + 1 \in 1..n
        BY <1>1, <3>3
      <4>2. r[i] = args[n]
        BY <2>2, <3>2, <4>1
      <4>. QED  BY <2>3, <3>1, <3>3, <4>2
    <3>4. CASE d < n - 1
      <4>1. d + 1 \in 1..(n - 1) /\ d + 1 \in 1..n
        BY <1>1, <3>1, <3>4
      <4>2. r[i] = q[i]
        BY <2>2, <3>2, <4>1
      <4>. QED  BY <1>1, <2>3, <3>1, <3>4, <4>2
    <3>5. CASE d > n - 1
      <4>1. d + 1 \notin 1..(n - 1) /\ d + 1 \notin 1..n
        BY <1>1, <3>1, <3>5
      <4>. QED  BY <1>1, <2>3, <3>1, <3>2, <3>5, <4>1
    <3>. QED  BY <1>1, <3>1, <3>3, <3>4, <3>5
  <2>. QED  BY <2>4, <2>5
<1>6. Embed(q, n - 1, args[n]) = [i \in 1..len |-> IF q[i] = Id(n - 1) THEN args[n] ELSE q[i]]
  BY <1>4 DEF Embed
<1>7. r = [i \in 1..len |-> r[i]]
  BY <1>4, LenProperties
<1>. HIDE DEF q, r
<1>8. r = Embed(q, n - 1, args[n])
  BY <1>5, <1>6, <1>7
<1>. QED  BY <1>8 DEF q, r

\* A text that is parted is still the same text.
LEMMA Whole ==
    ASSUME NEW text \in Strings, Braced(text), NEW args \in Seq(PlainTexts)
    PROVE  Flat(Parted(text, args, 0)) = text
<1>. DEFINE q == Parted(text, args, 0)
            S(i) == i >= 1 /\ NumbersAt(text, i) # {}
            end(i) == IF i = 0 THEN 0
                      ELSE IF S(i) THEN i + 2 ELSE IF S(i - 1) THEN i + 1 ELSE i
            Fine(i) == Upto(q, i) = SubSeq(text, 1, end(i))
            T == {i \in Nat : i <= Len(text) => Fine(i)}
<1>0. PICK len \in Nat : len = Len(text)
  BY LenProperties DEF Strings
<1>1. 0 \in 0..Len(args)
  BY LenProperties
<1>2. /\ q \in Seq(Pieces) /\ Len(q) = len
      /\ \A i \in 1..len : q[i] = Piece(text, SubSeq(args, 1, 0), i)
  BY <1>0, <1>1, PartedType
<1>3. SubSeq(args, 1, 0) \in Seq(PlainTexts) /\ Len(SubSeq(args, 1, 0)) = 0
  BY <1>1, PartedType
<1>4. ASSUME NEW i \in 1..len
      PROVE  /\ \A n \in NumbersAt(text, i) : q[i] = Id(n)
             /\ NumbersAt(text, i) = {} => q[i] = IF Within(text, i) THEN <<>> ELSE <<text[i]>>
  <2>1. PICK a \in Seq(PlainTexts) : a = SubSeq(args, 1, 0) /\ Len(a) = 0
    BY <1>3
  <2>2. /\ \A n \in NumbersAt(text, i) :
              Piece(text, a, i) = IF n + 1 \in 1..Len(a) THEN a[n + 1] ELSE Id(n)
        /\ NumbersAt(text, i) = {} =>
              Piece(text, a, i) = IF Within(text, i) THEN <<>> ELSE <<text[i]>>
    BY <1>0, PieceIs
  <2>3. \A n : n + 1 \notin 1..0
    OBVIOUS
  <2>4. q[i] = Piece(text, a, i)
    BY <1>2, <2>1
  <2>. HIDE DEF q
  <2>. QED  BY <2>1, <2>2, <2>3, <2>4
<1>5. /\ Upto(q, 0) = <<>>
      /\ \A i \in 1..len : Upto(q, i) = Upto(q, i - 1) \o q[i]
      /\ Upto(q, len) = Flat(q)
  BY <1>2, PiecesOf, FlatAlong
<1>. HIDE DEF q
<1>6. \A i \in 1..len : Within(text, i) <=> (S(i - 1) \/ S(i - 2))
  BY DEF Within
<1>7. ASSUME NEW i \in 1..len, S(i)
      PROVE  i + 2 <= len /\ ~S(i + 1) /\ ~S(i + 2) /\ ~S(i - 1) /\ ~S(i - 2)
  <2>1. \A j \in 1..len : S(j) => /\ j + 2 <= len /\ text[j] = Brace
                                  /\ text[j + 1] # Brace /\ text[j + 2] # Brace
    BY <1>0, NumberAt
  <2>. HIDE DEF S
  <2>2. i + 2 <= len /\ text[i] = Brace /\ text[i + 1] # Brace /\ text[i + 2] # Brace
    BY <1>7, <2>1
  <2>3. ~S(i + 1) /\ ~S(i + 2)
    <3>1. i + 1 \in 1..len /\ i + 2 \in 1..len
      BY <2>2
    <3>. QED  BY <2>1, <2>2, <3>1
  <2>4. \A j \in Int : S(j) => j >= 1
    BY DEF S
  <2>5. ~S(i - 1)
    <3>. SUFFICES ASSUME S(i - 1) PROVE FALSE
      OBVIOUS
    <3>1. i - 1 \in 1..len /\ (i - 1) + 1 = i
      BY <2>4
    <3>. QED  BY <2>1, <2>2, <3>1
  <2>6. ~S(i - 2)
    <3>. SUFFICES ASSUME S(i - 2) PROVE FALSE
      OBVIOUS
    <3>1. i - 2 \in 1..len /\ (i - 2) + 2 = i
      BY <2>4
    <3>. QED  BY <2>1, <2>2, <3>1
  <2>. QED  BY <2>2, <2>3, <2>5, <2>6
<1>8. ASSUME NEW i \in 1..len, Fine(i - 1) PROVE Fine(i)
  <2>0. Upto(q, i) = SubSeq(text, 1, end(i - 1)) \o q[i]
    BY <1>5, <1>8
  <2>1. CASE S(i)
    <3>1. end(i) = i + 2 /\ end(i - 1) = i - 1
      BY <1>7, <2>1
    <3>2. PICK n \in NumbersAt(text, i) : q[i] = Id(n)
      BY <1>4, <2>1
    <3>3. q[i] = SubSeq(text, i, i + 2) /\ i + 2 <= len
      BY <1>0, <3>2, NumberAt
    <3>4. SubSeq(text, 1, i - 1) \o SubSeq(text, i, i + 2) = SubSeq(text, 1, i + 2)
      <4>1. PICK k \in Nat, m \in Nat : k + 1 = i /\ m = i + 2 /\ k = i - 1
        <5>1. i - 1 \in Nat /\ i + 2 \in Nat /\ (i - 1) + 1 = i
          OBVIOUS
        <5>. QED  BY <5>1
      <4>2. 1 \in 1..Len(text) + 1 /\ k \in (1 - 1)..Len(text) /\ m \in k..Len(text)
        BY <1>0, <3>3, <4>1
      <4>3. SubSeq(text, 1, k) \o SubSeq(text, k + 1, m) = SubSeq(text, 1, m)
        BY <4>2, ConcatAdjacentSubSeq DEF Strings
      <4>. QED  BY <4>1, <4>3
    <3>. HIDE DEF end
    <3>. QED  BY <2>0, <3>1, <3>3, <3>4
  <2>2. ASSUME ~S(i), S(i - 1) \/ S(i - 2) PROVE Fine(i)
    <3>1. end(i) = end(i - 1)
      <4>1. CASE S(i - 1)
        <5>1. i - 1 >= 1
          BY <4>1
        <5>. QED  BY <2>2, <4>1, <5>1
      <4>2. CASE ~S(i - 1) /\ S(i - 2)
        <5>1. i - 2 >= 1 /\ (i - 1) - 1 = i - 2
          BY <4>2
        <5>2. end(i - 1) = (i - 1) + 1 /\ end(i) = i
          BY <2>2, <4>2, <5>1
        <5>. QED  BY <5>2
      <4>. QED  BY <2>2, <4>1, <4>2
    <3>2. NumbersAt(text, i) = {}
      BY <2>2
    <3>. HIDE DEF end, S
    <3>3. q[i] = <<>>
      BY <1>4, <1>6, <2>2, <3>2
    <3>4. Upto(q, i - 1) \o <<>> = Upto(q, i - 1)
      <4>1. i - 1 \in 0..Len(q)
        BY <1>2
      <4>2. Upto(q, i - 1) \in Strings
        BY <1>2, <4>1, PiecesOf, FlatAlong
      <4>. QED  BY <4>2, ConcatEmptySeq DEF Strings
    <3>. QED  BY <1>5, <1>8, <3>1, <3>3, <3>4
  <2>3. ASSUME ~S(i), ~S(i - 1), ~S(i - 2) PROVE Fine(i)
    <3>1. end(i) = i /\ end(i - 1) = i - 1
      <4>1. (i - 1) - 1 = i - 2
        OBVIOUS
      <4>. QED  BY <2>3, <4>1
    <3>2. NumbersAt(text, i) = {}
      BY <2>3
    <3>. HIDE DEF end, S
    <3>3. q[i] = <<text[i]>>
      BY <1>4, <1>6, <2>3, <3>2
    <3>4. SubSeq(text, 1, i) = SubSeq(text, 1, i - 1) \o <<text[i]>>
      <4>1. 1 \in 1..Len(text) /\ i \in 1..Len(text)
        BY <1>0
      <4>. QED  BY <4>1, SubSeqRecursiveSecond DEF Strings
    <3>. QED  BY <2>0, <3>1, <3>3, <3>4
  <2>. HIDE DEF Fine, S
  <2>. QED  BY <2>1, <2>2, <2>3
<1>9. Nat \subseteq T
  <2>1. 0 \in T
    <3>1. SubSeq(text, 1, 0) = <<>>
      BY SubSeqEmpty
    <3>. QED  BY <1>5, <3>1
  <2>. HIDE DEF Fine
  <2>2. ASSUME NEW i \in Nat, i \in T PROVE i + 1 \in T
    <3>. SUFFICES ASSUME i + 1 <= len PROVE Fine(i + 1)
      BY <1>0
    <3>1. i + 1 \in 1..len /\ (i + 1) - 1 = i /\ Fine(i)
      BY <1>0, <2>2
    <3>. QED  BY <1>8, <3>1
  <2>. HIDE DEF T
  <2>. QED  BY <2>1, <2>2, Induction
<1>10. Upto(q, len) = SubSeq(text, 1, end(len))
  <2>1. Fine(len)
    <3>. HIDE DEF Fine
    <3>. QED  BY <1>0, <1>9
  <2>. QED  BY <2>1
<1>11. end(len) = len
  <2>1. ~S(len)
    <3>. SUFFICES ASSUME S(len) PROVE FALSE
      OBVIOUS
    <3>1. len \in 1..len
      OBVIOUS
    <3>2. len + 2 <= len
      <4>. HIDE DEF S
      <4>. QED  BY <1>7, <3>1
    <3>. QED  BY <3>2
  <2>2. ~S(len - 1)
    <3>. SUFFICES ASSUME S(len - 1) PROVE FALSE
      OBVIOUS
    <3>1. len - 1 \in 1..len
      OBVIOUS
    <3>2. (len - 1) + 2 <= len
      <4>. HIDE DEF S
      <4>. QED  BY <1>7, <3>1
    <3>. QED  BY <3>2
  <2>. HIDE DEF S
  <2>. QED  BY <2>1, <2>2
<1>12. SubSeq(text, 1, len) = text
  BY <1>0, SubSeqFull DEF Strings
<1>. HIDE DEF end
<1>13. Flat(q) = text
  BY <1>5, <1>10, <1>11, <1>12
<1>. QED  BY <1>13 DEF q

\* Whether there is a place for argument n does not depend on the arguments
\* before it.
LEMMA PlaceFor ==
    ASSUME NEW text \in Strings, Braced(text), NEW args \in Seq(PlainTexts),
           NEW d \in 0..9, d \in 0..Len(args)
    PROVE  Find(text, Id(d), 1) # 0 <=>
              \E i \in 1..Len(text) : Parted(text, args, d)[i] = Id(d)
<1>. DEFINE q == Parted(text, args, 0)
<1>0. 0 \in 0..Len(args) /\ 1 \in Nat \ {0}
  BY LenProperties
<1>1. q \in Seq(Pieces) /\ Len(q) = Len(text) /\ Flat(q) = text
  BY <1>0, PartedType, Whole
<1>2. \A i \in 1..Len(text) : q[i] = Id(d) <=> Parted(text, args, d)[i] = Id(d)
  <2>1. d >= 0 /\ d >= d
    OBVIOUS
  <2>. QED  BY <1>0, <2>1, StandsUntil
<1>. HIDE DEF q
<1>3. \A i \in 1..Len(text) : Place(q, i) \in Nat \ {0}
  BY <1>1, PiecesOf, Places
<1>4. Standing(q, d, 1) = {i \in 1..Len(text) : q[i] = Id(d)}
  BY <1>1, <1>3 DEF Standing
<1>5. CASE Standing(q, d, 1) = {}
  <2>1. Find(text, Id(d), 1) = 0
    BY <1>0, <1>1, <1>5, FindFinds
  <2>. QED  BY <1>2, <1>4, <1>5, <2>1
<1>6. CASE Standing(q, d, 1) # {}
  <2>1. PICK i \in Standing(q, d, 1) : Find(text, Id(d), 1) = Place(q, i)
    BY <1>0, <1>1, <1>6, FindFinds
  <2>. QED  BY <1>2, <1>3, <1>4, <2>1
<1>. QED  BY <1>5, <1>6

LEMMA SpacedIsRoomy ==
    ASSUME NEW text \in Strings, Braced(text), NEW args \in Seq(PlainTexts),
           Len(args) <= 10, Spaced(text, args), NEW n \in 1..Len(args)
    PROVE  Roomy(Parted(text, args, n - 1), n - 1, Len(args[n]))
<1>0. PICK m \in Nat : m = Len(args) /\ n \in 1..m /\ m <= 10
  BY LenProperties
<1>1. PICK d \in 0..9 : d = n - 1
  <2>1. n - 1 \in 0..9
    BY <1>0
  <2>. QED  BY <2>1
<1>. DEFINE q == Parted(text, args, n - 1)
<1>2. q \in Seq(Pieces) /\ Flat(q) \in Strings
  <2>1. n - 1 \in 0..Len(args)
    BY <1>0
  <2>. QED  BY <2>1, PartedType, PiecesOf
<1>3. Flat(q) = Substituted(text, SubSeq(args, 1, n - 1))
  BY DEF Flat, Parted, Substituted
<1>. HIDE DEF q
<1>4. PICK len \in Nat, l \in Nat :
          len = Len(Flat(q)) /\ DOMAIN Flat(q) = 1..len /\ l = Len(args[n])
  <2>1. args[n] \in Seq(Alphabet \ {Brace})
    BY ElementOfSeq DEF PlainTexts
  <2>2. Len(args[n]) \in Nat
    BY <2>1, LenProperties
  <2>. QED  BY <1>2, <2>2, LenProperties DEF Strings
<1>5. ASSUME NEW i \in 1..len, Find(Flat(q), Id(d), i) = i,
             NEW next, next = Find(Flat(q), Id(d), i + 1), next # 0
      PROVE  (next - (i + 3)) + l >= 3
  <2>1. n \in DOMAIN args
    BY LenProperties
  <2>2. (next - (i + Len(Id(d)))) + Len(args[n]) >= Len(Id(d))
    BY <1>1, <1>3, <1>4, <1>5, <2>1 DEF Spaced
  <2>. QED  BY <1>4, <2>2, IdsAre
<1>6. ASSUME NEW j \in 1..Len(q), NEW k \in 1..Len(q), j < k, q[j] = Id(d), q[k] = Id(d)
      PROVE  (Place(q, k) - (Place(q, j) + 3)) + l >= 3
  <2>1. PICK i \in Nat \ {0}, h \in Nat \ {0} : i = Place(q, j) /\ h = Place(q, k)
    BY <1>2, PiecesOf, Places
  <2>2. i + 3 <= h /\ i \in 1..len
    <3>1. Len(q[j]) = 3 /\ k \in (j + 1)..Len(q)
      BY <1>6, IdsAre
    <3>2. Place(q, k) >= Place(q, j) + Len(q[j]) /\ Place(q, j) + Len(q[j]) - 1 <= Len(Flat(q))
      BY <1>2, <3>1, PiecesOf, Places
    <3>. QED  BY <1>4, <2>1, <3>1, <3>2
  <2>3. Find(Flat(q), Id(d), i) = i
    <3>1. j \in Standing(q, d, i)
      BY <1>6, <2>1 DEF Standing
    <3>2. PICK g \in Standing(q, d, i) :
              /\ Find(Flat(q), Id(d), i) = Place(q, g)
              /\ \A x \in Standing(q, d, i) : Find(Flat(q), Id(d), i) <= Place(q, x)
      BY <1>2, <2>1, <3>1, FindFinds
    <3>3. Place(q, g) \in Nat /\ Place(q, g) >= i /\ Place(q, g) <= i
      <4>1. g \in 1..Len(q) /\ Place(q, g) >= i
        BY DEF Standing
      <4>. QED  BY <1>2, <2>1, <3>1, <3>2, <4>1, PiecesOf, Places
    <3>. QED  BY <3>2, <3>3
  <2>4. PICK next \in Nat : next = Find(Flat(q), Id(d), i + 1) /\ next # 0 /\ next <= h
    <3>1. k \in Standing(q, d, i + 1) /\ i + 1 \in Nat \ {0}
      BY <1>6, <2>1, <2>2 DEF Standing
    <3>2. PICK g \in Standing(q, d, i + 1) :
              /\ Find(Flat(q), Id(d), i + 1) = Place(q, g)
              /\ \A x \in Standing(q, d, i + 1) : Find(Flat(q), Id(d), i + 1) <= Place(q, x)
      BY <1>2, <3>1, FindFinds
    <3>3. Place(q, g) \in Nat \ {0}
      BY <1>2, PiecesOf, Places DEF Standing
    <3>. QED  BY <2>1, <3>1, <3>2, <3>3
  <2>5. (next - (i + 3)) + l >= 3
    BY <1>5, <2>2, <2>3, <2>4
  <2>6. (h - (i + 3)) + l >= 3
    BY <2>4, <2>5
  <2>. QED  BY <2>1, <2>6
<1>. QED  BY <1>1, <1>4, <1>6 DEF Roomy, q

-------------------------------------------------------------------------------
(* build: a fold over the arguments.                                       *)

Flats == {Flat(q) : q \in Seq(Pieces)}

LEMMA FlatsAre ==
    /\ <<>> \in Flats /\ Flat(<<>>) = <<>> /\ <<>> \in Seq(Pieces)
    /\ \A q \in Seq(Pieces) : Flat(q) \in Flats
    /\ \A text \in Flats, arg \in PlainTexts, n \in 0..9 : AddArg(text, arg, n) \in Flats
<1>1. <<>> \in Seq(Pieces) /\ Flat(<<>>) = <<>>
  <2>1. <<>> \in Seq(Pieces) /\ Len(<<>>) = 0
    BY EmptySeq
  <2>2. Upto(<<>>, 0) = <<>> /\ Upto(<<>>, Len(<<>>)) = Flat(<<>>)
    BY <2>1, PiecesOf, FlatAlong
  <2>. QED  BY <2>1, <2>2
<1>2. ASSUME NEW q \in Seq(Pieces), NEW arg \in PlainTexts, NEW n \in 0..9
      PROVE  AddArg(Flat(q), arg, n) \in Flats
  <2>1. CASE \A k \in 1..Len(q) : q[k] # Id(n)
    <3>1. AddArg(Flat(q), arg, n) = <<>>
      BY <2>1, AddArgDoes
    <3>. QED  BY <1>1, <3>1 DEF Flats
  <2>2. CASE \E k \in 1..Len(q) : q[k] = Id(n)
    <3>1. PICK r : AddArg(Flat(q), arg, n) = Flat(r) /\ EmbedSome(q, r, n, arg)
      BY <2>2, AddArgDoes
    <3>. QED  BY <3>1 DEF Flats, EmbedSome
  <2>. QED  BY <2>1, <2>2
<1>. QED  BY <1>1, <1>2 DEF Flats

\* The texts from argument to argument.
Embeds(f, text, args) ==
    /\ f \in [0..Len(args) -> Flats]
    /\ f[0] = text
    /\ \A n \in 1..Len(args) : f[n] = AddArg(f[n - 1], args[n], n - 1)
    /\ AddArgs(text, args) = f[Len(args)]

LEMMA AddArgsSteps ==
    ASSUME NEW text \in Flats, NEW args \in Seq(PlainTexts), Len(args) <= 10
    PROVE  \E f : Embeds(f, text, args)
<1>. DEFINE s == [i \in DOMAIN args |-> i]
            B == 1..Len(args)
            G == [p \in Flats \X B |-> AddArg(p[1], args[p[2]], p[2] - 1)]
            Eq(it) == it = [T \in SUBSET DOMAIN s |->
                               IF T = {} THEN text
                               ELSE AddArg(it[T \ {Max(T)}], args[s[Max(T)]], s[Max(T)] - 1)]
            c == CHOOSE it : Eq(it)
<1>0. /\ Len(args) \in Nat /\ DOMAIN args = 1..Len(args)
      /\ \A i \in 1..Len(args) : args[i] \in PlainTexts /\ i - 1 \in 0..9
  BY LenProperties, ElementOfSeq
<1>1. /\ s \in Seq(B) /\ Len(s) = Len(args) /\ DOMAIN s = 1..Len(args)
      /\ \A i \in 1..Len(args) : s[i] = i
  BY <1>0
<1>2. /\ \A t \in Flats : \A i \in B : G[<<t, i>>] = AddArg(t, args[i], i - 1)
      /\ G \in [Flats \X B -> Flats]
  BY <1>0, FlatsAre
<1>. HIDE DEF G
<1>3. \E it : Eq(it)
  <2>1. PICK it \in [SUBSET (1..Len(s)) -> Flats] : Iterates(it, G, text, s, Len(s))
    <3>. HIDE DEF s, B
    <3>. QED  BY <1>1, <1>2, IterationExists
  <2>2. ASSUME NEW T \in SUBSET (1..Len(s)), T # {}
        PROVE  G[<<it[T \ {Max(T)}], s[Max(T)]>>] =
                   AddArg(it[T \ {Max(T)}], args[s[Max(T)]], s[Max(T)] - 1)
    <3>1. Max(T) \in T
      BY <1>0, <1>1, <2>2, MaxOfSet
    <3>. QED  BY <1>1, <1>2, <2>1, <3>1
  <2>3. Eq(it)
    BY <1>1, <2>1, <2>2 DEF Iterates
  <2>. QED  BY <2>3
<1>4. Eq(c)
  BY <1>3
<1>5. AddArgs(text, args) = c[DOMAIN s]
  BY Zenon DEF AddArgs, FoldLeftDomain, FoldLeft, MapThenFoldSet
<1>. HIDE DEF c
<1>6. FoldsAs(c, Flats, B, G, text, s)
  <2>1. ASSUME NEW T \in SUBSET (1..Len(s)), T # {}, c[T \ {Max(T)}] \in Flats
        PROVE  c[T] = G[<<c[T \ {Max(T)}], s[Max(T)]>>]
    <3>1. Max(T) \in T
      BY <1>0, <1>1, <2>1, MaxOfSet
    <3>2. c[T] = AddArg(c[T \ {Max(T)}], args[s[Max(T)]], s[Max(T)] - 1)
      BY <1>1, <1>4, <2>1
    <3>. QED  BY <1>1, <1>2, <2>1, <3>1, <3>2
  <2>. QED  BY <1>1, <1>2, <1>4, <2>1 DEF FoldsAs
<1>. HIDE DEF Eq, s
<1>7. PICK f \in [0..Len(s) -> Flats] :
          /\ f[0] = text
          /\ \A i \in 1..Len(s) : f[i] = G[<<f[i - 1], s[i]>>]
          /\ f[Len(s)] = c[1..Len(s)]
  BY <1>6, FoldRuns
<1>8. ASSUME NEW i \in 1..Len(args) PROVE f[i] = AddArg(f[i - 1], args[i], i - 1)
  <2>1. f[i - 1] \in Flats
    BY <1>0, <1>1, <1>7
  <2>. QED  BY <1>1, <1>2, <1>7, <2>1
<1>9. Embeds(f, text, args)
  BY <1>1, <1>5, <1>7, <1>8 DEF Embeds
<1>. QED  BY <1>9

LEMMA AllEmbedded ==
    ASSUME NEW text \in Strings, Braced(text), NEW args \in Seq(PlainTexts),
           Len(args) <= 10, Complete(text, args), Spaced(text, args)
    PROVE  AddArgs(text, args) = Substituted(text, args)
<1>. DEFINE Fine(f, n) == f[n] = Flat(Parted(text, args, n))
<1>0. PICK m \in Nat : m = Len(args) /\ DOMAIN args = 1..m /\ m <= 10
  BY LenProperties
<1>1. Flat(Parted(text, args, 0)) = text /\ text \in Flats
  <2>1. 0 \in 0..Len(args)
    BY <1>0
  <2>. QED  BY <2>1, PartedType, Whole, FlatsAre
<1>2. PICK f : Embeds(f, text, args)
  BY <1>0, <1>1, AddArgsSteps
<1>3. ASSUME NEW n \in 1..m, Fine(f, n - 1) PROVE Fine(f, n)
  <2>1. PICK d \in 0..9 : d = n - 1 /\ d \in 0..Len(args) /\ d + 1 = n
    <3>1. n - 1 \in 0..9 /\ n - 1 \in 0..Len(args) /\ (n - 1) + 1 = n
      BY <1>0
    <3>. QED  BY <3>1
  <2>2. PICK q : q = Parted(text, args, n - 1)
    OBVIOUS
  <2>3. q \in Seq(Pieces) /\ Len(q) = Len(text)
    BY <2>1, <2>2, PartedType
  <2>4. \E i \in 1..Len(q) : q[i] = Id(d)
    <3>1. Find(text, Id(d), 1) # 0
      BY <1>0, <2>1 DEF Complete
    <3>. QED  BY <2>1, <2>2, <2>3, <3>1, PlaceFor
  <2>5. Roomy(q, d, Len(args[n]))
    BY <1>0, <2>1, <2>2, SpacedIsRoomy
  <2>6. args[n] \in PlainTexts
    BY <1>0, ElementOfSeq
  <2>7. AddArg(Flat(q), args[n], d) = Flat(Embed(q, d, args[n]))
    BY <2>3, <2>4, <2>5, <2>6, AddArgDoes
  <2>8. Embed(q, d, args[n]) = Parted(text, args, n)
    BY <1>0, <2>1, <2>2, NextParted
  <2>9. f[n] = AddArg(f[n - 1], args[n], n - 1)
    BY <1>0, <1>2 DEF Embeds
  <2>. QED  BY <1>3, <2>1, <2>2, <2>7, <2>8, <2>9
<1>. DEFINE T == {n \in Nat : n <= m => Fine(f, n)}
<1>4. Nat \subseteq T
  <2>1. 0 \in T
    BY <1>1, <1>2 DEF Embeds
  <2>. HIDE DEF Fine
  <2>2. ASSUME NEW n \in Nat, n \in T PROVE n + 1 \in T
    <3>. SUFFICES ASSUME n + 1 <= m PROVE Fine(f, n + 1)
      OBVIOUS
    <3>1. n + 1 \in 1..m /\ (n + 1) - 1 = n /\ Fine(f, n)
      BY <2>2
    <3>. QED  BY <1>3, <3>1
  <2>. HIDE DEF T
  <2>. QED  BY <2>1, <2>2, Induction
<1>5. Fine(f, m)
  <2>. HIDE DEF Fine
  <2>. QED  BY <1>4
<1>6. Flat(Parted(text, args, m)) = Substituted(text, args)
  <2>1. SubSeq(args, 1, m) = args
    BY <1>0, SubSeqFull
  <2>. QED  BY <2>1 DEF Flat, Parted, Substituted
<1>. QED  BY <1>0, <1>2, <1>5, <1>6 DEF Embeds

LEMMA NothingBuilt ==
    ASSUME NEW text \in Strings, Braced(text), NEW args \in Seq(PlainTexts),
           Len(args) <= 10, ~Complete(text, args)
    PROVE  AddArgs(text, args) = <<>>
<1>0. PICK m \in Nat : m = Len(args) /\ DOMAIN args = 1..m /\ m <= 10
  BY LenProperties
<1>1. PICK g \in 1..m : Find(text, Id(g - 1), 1) = 0
  BY <1>0 DEF Complete
<1>2. PICK d \in 0..9 : d = g - 1 /\ d \in 0..Len(args)
  <2>1. g - 1 \in 0..9 /\ g - 1 \in 0..Len(args)
    BY <1>0
  <2>. QED  BY <2>1
<1>. DEFINE Without(q) == \A k \in 1..Len(q) : q[k] # Id(d)
            Fine(t, n) == \E q \in Seq(Pieces) :
                             t = Flat(q) /\ Without(q) /\ (n >= g => q = <<>>)
<1>3. /\ 0 \in 0..Len(args) /\ text \in Flats
      /\ \E q \in Seq(Pieces) : text = Flat(q) /\ Without(q)
  <2>1. 0 \in 0..Len(args)
    BY <1>0
  <2>2. PICK q : q = Parted(text, args, 0)
    OBVIOUS
  <2>3. q \in Seq(Pieces) /\ Len(q) = Len(text) /\ Flat(q) = text
    BY <2>1, <2>2, PartedType, Whole
  <2>4. \A i \in 1..Len(text) : q[i] # Id(d)
    <3>1. \A i \in 1..Len(text) : Parted(text, args, d)[i] # Id(d)
      BY <1>1, <1>2, PlaceFor
    <3>2. d >= 0 /\ d >= d
      OBVIOUS
    <3>3. \A i \in 1..Len(text) : d \notin NumbersAt(text, i)
      BY <1>2, <3>1, <3>2, StandsUntil
    <3>. QED  BY <2>1, <2>2, <3>3, StandsUntil
  <2>. QED  BY <2>1, <2>3, <2>4, FlatsAre
<1>4. PICK f : Embeds(f, text, args)
  BY <1>0, <1>3, AddArgsSteps
<1>5. \A n : Fine(<<>>, n)
  <2>1. Len(<<>>) = 0
    OBVIOUS
  <2>2. Without(<<>>)
    BY <2>1
  <2>. HIDE DEF Without
  <2>. QED  BY <2>2, FlatsAre
<1>6. ASSUME NEW n \in 1..m, Fine(f[n - 1], n - 1) PROVE Fine(f[n], n)
  <2>1. PICK q \in Seq(Pieces) :
            f[n - 1] = Flat(q) /\ Without(q) /\ (n - 1 >= g => q = <<>>)
    BY <1>6
  <2>2. PICK e \in 0..9 : e = n - 1
    <3>1. n - 1 \in 0..9
      BY <1>0
    <3>. QED  BY <3>1
  <2>3. args[n] \in PlainTexts
    BY <1>0, ElementOfSeq
  <2>4. f[n] = AddArg(Flat(q), args[n], e)
    BY <1>0, <1>4, <2>1, <2>2 DEF Embeds
  <2>5. CASE \A k \in 1..Len(q) : q[k] # Id(e)
    <3>1. f[n] = <<>>
      BY <2>3, <2>4, <2>5, AddArgDoes
    <3>. HIDE DEF Fine
    <3>. QED  BY <1>5, <3>1
  <2>6. CASE \E k \in 1..Len(q) : q[k] = Id(e)
    <3>1. PICK r : AddArg(Flat(q), args[n], e) = Flat(r) /\ EmbedSome(q, r, e, args[n])
      BY <2>3, <2>6, AddArgDoes
    <3>2. r \in Seq(Pieces)
      BY <3>1 DEF EmbedSome
    <3>3. Without(r)
      BY <2>1, <2>3, <3>1, IdsAre DEF EmbedSome
    <3>4. ~(n >= g)
      <4>. SUFFICES ASSUME n >= g PROVE FALSE
        OBVIOUS
      <4>1. CASE n = g
        <5>1. e = d
          BY <1>2, <2>2, <4>1
        <5>. QED  BY <2>1, <2>6, <5>1
      <4>2. CASE n # g
        <5>1. n - 1 >= g
          BY <1>0, <4>2
        <5>2. q = <<>> /\ Len(<<>>) = 0
          BY <2>1, <5>1
        <5>3. \A k \in 1..Len(q) : FALSE
          BY <5>2
        <5>. QED  BY <2>6, <5>3
      <4>. QED  BY <4>1, <4>2
    <3>. HIDE DEF Without
    <3>. QED  BY <2>4, <3>1, <3>2, <3>3, <3>4
  <2>. QED  BY <2>5, <2>6
<1>. DEFINE T == {n \in Nat : n <= m => Fine(f[n], n)}
<1>7. Nat \subseteq T
  <2>1. 0 \in T
    <3>1. f[0] = text /\ ~(0 >= g)
      BY <1>4 DEF Embeds
    <3>. HIDE DEF Without
    <3>. QED  BY <1>3, <3>1
  <2>. HIDE DEF Fine
  <2>2. ASSUME NEW n \in Nat, n \in T PROVE n + 1 \in T
    <3>. SUFFICES ASSUME n + 1 <= m PROVE Fine(f[n + 1], n + 1)
      OBVIOUS
    <3>1. n + 1 \in 1..m /\ (n + 1) - 1 = n /\ Fine(f[n], n)
      BY <2>2
    <3>. QED  BY <1>6, <3>1
  <2>. HIDE DEF T
  <2>. QED  BY <2>1, <2>2, Induction
<1>8. Fine(f[m], m)
  <2>. HIDE DEF Fine
  <2>. QED  BY <1>7
<1>9. f[m] = <<>>
  <2>. HIDE DEF Without
  <2>1. PICK q \in Seq(Pieces) : f[m] = Flat(q) /\ (m >= g => q = <<>>)
    BY <1>8
  <2>2. m >= g
    BY <1>0
  <2>. QED  BY <2>1, <2>2, FlatsAre
<1>. QED  BY <1>0, <1>4, <1>9 DEF Embeds

\* What build makes of a typed command, with the table that load has made.
LEMMA TableBuilds == commands \in CommandTables => BuildSubstitutes
<1>. SUFFICES ASSUME commands \in CommandTables, NEW tokens \in Typed,
                     Head(tokens) \in DOMAIN commands
              PROVE  LET name == Head(tokens)
                         args == Tail(tokens)
                         text == commands[name].signature
                     IN  IF Len(args) < commands[name].minargs
                         THEN Build(tokens) = <<>>
                         ELSE (Braced(text) /\ Plain(args)) =>
                                 IF Complete(text, args)
                                 THEN Spaced(text, args) =>
                                         Build(tokens) = Substituted(text, args)
                                 ELSE Build(tokens) = <<>>
  BY DEF BuildSubstitutes, Build
<1>1. /\ tokens \in Seq(Strings) /\ tokens # <<>>
      /\ Tail(tokens) \in Seq(Strings) /\ Len(Tail(tokens)) \in 0..10
  <2>1. tokens \in Seq(Strings) /\ Len(tokens) \in 1..11
    BY TypedAssumption DEF Strings
  <2>2. tokens # <<>>
    <3>1. Len(<<>>) = 0
      OBVIOUS
    <3>. QED  BY <2>1, <3>1
  <2>. QED  BY <2>1, <2>2, HeadTailProperties
<1>2. PICK args, text : args = Tail(tokens) /\ text = commands[Head(tokens)].signature
  OBVIOUS
<1>3. text \in Strings
  <2>1. PICK D \in SUBSET Strings : commands \in [D -> CommandEntries]
    BY DEF CommandTables
  <2>2. commands[Head(tokens)] \in CommandEntries
    BY <2>1
  <2>3. PICK d \in Authorings : commands[Head(tokens)] = Meant(d)
    BY <2>2 DEF CommandEntries
  <2>4. d.signature \in Strings
    BY CharactersAre DEF Authorings
  <2>. QED  BY <1>2, <2>3, <2>4 DEF Meant
<1>4. Len(args) < commands[Head(tokens)].minargs => Build(tokens) = <<>>
  BY <1>2 DEF Build
<1>5. ~(Len(args) < commands[Head(tokens)].minargs) => Build(tokens) = AddArgs(text, args)
  BY <1>1, <1>2 DEF Build
<1>6. ASSUME Braced(text), Plain(args)
      PROVE  IF Complete(text, args)
             THEN Spaced(text, args) => AddArgs(text, args) = Substituted(text, args)
             ELSE AddArgs(text, args) = <<>>
  <2>1. args \in Seq(PlainTexts) /\ Len(args) <= 10
    <3>1. PICK n \in Nat : n = Len(args) /\ DOMAIN args = 1..n /\ n <= 10
      BY <1>1, <1>2, LenProperties
    <3>2. \A i \in 1..n : args[i] \in PlainTexts
      BY <1>6, <3>1 DEF Plain, PlainTexts
    <3>3. args \in [1..n -> PlainTexts]
      <4>1. args = [i \in 1..n |-> args[i]]
        BY <1>1, <1>2, <3>1, LenProperties
      <4>. QED  BY <3>2, <4>1
    <3>4. args \in Seq(PlainTexts)
      BY <3>3
    <3>. QED  BY <3>1, <3>4
  <2>. QED  BY <1>3, <1>6, <2>1, AllEmbedded, NothingBuilt
<1>. QED  BY <1>2, <1>4, <1>5, <1>6

\* BuildSubstitutes: a command is built exactly when it is known, has its
\* arguments and a place for each of them, and then all placeholders are
\* replaced, as often and wherever they stand.
THEOREM BuildAlwaysSubstitutes == Spec => []BuildSubstitutes
<1>1. Init => commands \in CommandTables
  <2>1. <<>> \in [{} -> CommandEntries]
    OBVIOUS
  <2>. QED  BY <2>1 DEF Init, CommandTables
<1>2. commands \in CommandTables /\ [Next]_vars => (commands \in CommandTables)'
  <2>. SUFFICES ASSUME commands \in CommandTables, [Next]_vars
                PROVE  commands' \in CommandTables
    OBVIOUS
  <2>1. CASE Next
    <3>1. PICK f \in Seq(Authorings) : commands' = LoadLines(Lines(f))
      BY <2>1, FilesAssumption DEF Next, Load, Authorings
    <3>2. PICK s \in LoadState : LoadLines(Lines(f)) = s.table
      BY LoadKeeps
    <3>. QED  BY <3>1, <3>2 DEF LoadState
  <2>2. CASE UNCHANGED vars
    BY <2>2 DEF vars
  <2>. QED  BY <2>1, <2>2
<1>. QED  BY <1>1, <1>2, TableBuilds, PTL DEF Spec

-------------------------------------------------------------------------------
(* The configuration file.                                                 *)

\* Texts, and those that can stand for a key in a file.
Clean(s) == \A i \in 1..Len(s) : s[i] \notin Separators
Texts == Seq(Chars)
CleanTexts == {s \in Texts : Clean(s)}
Tables == UNION {[D -> Texts] : D \in SUBSET CleanTexts}
ReadState == [table : Tables, ended : BOOLEAN]
ReadBegin == [table |-> <<>>, ended |-> FALSE]

LEMMA EmptyTable == <<>> \in Tables
<1>1. <<>> \in [{} -> Texts]
  OBVIOUS
<1>. QED  BY <1>1 DEF Tables

LEMMA CharsAre ==
    /\ Separators \subseteq Chars /\ Blanks \subseteq Separators
    /\ Separators = Blanks \cup {"="} /\ "=" \notin Blanks
    /\ CarriageReturn \in Blanks /\ Blank \in Blanks
BY CharsAssumption DEF Blanks, Blank, CarriageReturn, Separators, KeyEnds

-------------------------------------------------------------------------------
(* The places at which the reading of a line stops.                        *)

\* The first place from i on where a character is outside of chars.
Skips(line, i, chars, n) ==
    /\ i <= n /\ n <= Len(line) + 1
    /\ \A j \in i..(n - 1) : line[j] \in chars
    /\ n <= Len(line) => line[n] \notin chars

\* The first where one is in chars.
Finds(line, i, chars, n) ==
    /\ i <= n /\ n <= Len(line) + 1
    /\ \A j \in i..(n - 1) : line[j] \notin chars
    /\ n <= Len(line) => line[n] \in chars

LEMMA SkipStops ==
    ASSUME NEW line \in Texts, NEW i \in Nat \ {0}, NEW chars
    PROVE  /\ SkipFrom(line, i, chars) \in Nat \ {0}
           /\ i <= Len(line) + 1 => Skips(line, i, chars, SkipFrom(line, i, chars))
<1>. DEFINE T == {j \in i..Len(line) : line[j] \notin chars} \cup {Len(line) + 1}
<1>1. Len(line) \in Nat
  BY LenProperties DEF Texts
<1>2. T \in SUBSET Nat /\ T # {} /\ 0 \notin T
  BY <1>1
<1>3. PICK n : n = SkipFrom(line, i, chars)
  OBVIOUS
<1>4. n \in T /\ \A y \in T : n <= y
  <2>1. n = Min(T)
    BY <1>3 DEF SkipFrom
  <2>. HIDE DEF T
  <2>. QED  BY <1>2, <2>1, LeastOfSet
<1>5. n \in Nat \ {0} /\ n <= Len(line) + 1
  BY <1>1, <1>4
<1>6. ASSUME i <= Len(line) + 1 PROVE Skips(line, i, chars, n)
  <2>1. i <= n
    BY <1>1, <1>4, <1>6
  <2>2. ASSUME NEW j \in i..(n - 1), line[j] \notin chars PROVE FALSE
    <3>1. j \in i..Len(line) /\ j < n
      BY <1>1, <1>5
    <3>. QED  BY <1>4, <2>2, <3>1
  <2>3. n <= Len(line) => line[n] \notin chars
    BY <1>1, <1>4
  <2>. QED  BY <1>5, <2>1, <2>2, <2>3 DEF Skips
<1>. QED  BY <1>3, <1>5, <1>6

LEMMA SkipIs ==
    ASSUME NEW line \in Texts, NEW i \in Nat \ {0}, NEW chars, NEW n \in Nat,
           Skips(line, i, chars, n)
    PROVE  SkipFrom(line, i, chars) = n
<1>1. Len(line) \in Nat /\ i <= Len(line) + 1
  BY LenProperties DEF Texts, Skips
<1>2. PICK m \in Nat : m = SkipFrom(line, i, chars) /\ Skips(line, i, chars, m)
  BY <1>1, SkipStops
<1>3. ~(m < n)
  BY <1>1, <1>2 DEF Skips
<1>4. ~(n < m)
  BY <1>1, <1>2 DEF Skips
<1>. QED  BY <1>2, <1>3, <1>4

LEMMA FindStops ==
    ASSUME NEW line \in Texts, NEW i \in Nat \ {0}, NEW chars
    PROVE  /\ FindFrom(line, i, chars) \in Nat \ {0}
           /\ i <= Len(line) + 1 => Finds(line, i, chars, FindFrom(line, i, chars))
<1>. DEFINE T == {j \in i..Len(line) : line[j] \in chars} \cup {Len(line) + 1}
<1>1. Len(line) \in Nat
  BY LenProperties DEF Texts
<1>2. T \in SUBSET Nat /\ T # {} /\ 0 \notin T
  BY <1>1
<1>3. PICK n : n = FindFrom(line, i, chars)
  OBVIOUS
<1>4. n \in T /\ \A y \in T : n <= y
  <2>1. n = Min(T)
    BY <1>3 DEF FindFrom
  <2>. HIDE DEF T
  <2>. QED  BY <1>2, <2>1, LeastOfSet
<1>5. n \in Nat \ {0} /\ n <= Len(line) + 1
  BY <1>1, <1>4
<1>6. ASSUME i <= Len(line) + 1 PROVE Finds(line, i, chars, n)
  <2>1. i <= n
    BY <1>1, <1>4, <1>6
  <2>2. ASSUME NEW j \in i..(n - 1), line[j] \in chars PROVE FALSE
    <3>1. j \in i..Len(line) /\ j < n
      BY <1>1, <1>5
    <3>. QED  BY <1>4, <2>2, <3>1
  <2>3. n <= Len(line) => line[n] \in chars
    BY <1>1, <1>4
  <2>. QED  BY <1>5, <2>1, <2>2, <2>3 DEF Finds
<1>. QED  BY <1>3, <1>5, <1>6

LEMMA FindIs ==
    ASSUME NEW line \in Texts, NEW i \in Nat \ {0}, NEW chars, NEW n \in Nat,
           Finds(line, i, chars, n)
    PROVE  FindFrom(line, i, chars) = n
<1>1. Len(line) \in Nat /\ i <= Len(line) + 1
  BY LenProperties DEF Texts, Finds
<1>2. PICK m \in Nat : m = FindFrom(line, i, chars) /\ Finds(line, i, chars, m)
  BY <1>1, FindStops
<1>3. ~(m < n)
  BY <1>1, <1>2 DEF Finds
<1>4. ~(n < m)
  BY <1>1, <1>2 DEF Finds
<1>. QED  BY <1>2, <1>3, <1>4

\* Whatever the line is, its key is a clean text and its value is a text.
LEMMA KeyAndValueAreTexts ==
    ASSUME NEW line \in Texts
    PROVE  KeyOf(line) \in CleanTexts /\ ValueOf(line) \in Texts
<1>1. Len(line) \in Nat /\ \A j \in 1..Len(line) : line[j] \in Chars
  BY LenProperties, ElementOfSeq DEF Texts
<1>2. PICK p \in Nat \ {0} : p = KeyFrom(line) /\ Skips(line, 1, Blanks, p)
  BY <1>1, SkipStops DEF KeyFrom
<1>3. PICK q \in Nat \ {0} : q = KeyTo(line) /\ Finds(line, p, Separators, q)
  <2>1. p <= Len(line) + 1
    BY <1>2 DEF Skips
  <2>2. KeyTo(line) = FindFrom(line, p, Separators)
    BY <1>2, CharsAre DEF KeyTo, Separators
  <2>. QED  BY <2>1, <2>2, FindStops
<1>4. KeyOf(line) = SubSeq(line, p, q - 1)
  BY <1>2, <1>3 DEF KeyOf
<1>5. p <= q /\ q <= Len(line) + 1 /\ \A j \in p..(q - 1) : line[j] \notin Separators
  BY <1>3 DEF Finds
<1>6. KeyOf(line) \in Texts /\ Len(KeyOf(line)) = q - p
      /\ \A j \in 1..(q - p) : KeyOf(line)[j] = line[p + j - 1]
  BY <1>1, <1>4, <1>5 DEF Texts
<1>7. ASSUME NEW j \in 1..(q - p) PROVE KeyOf(line)[j] \notin Separators
  <2>1. p + j - 1 \in p..(q - 1)
    BY <1>5
  <2>. QED  BY <1>5, <1>6, <2>1
<1>8. KeyOf(line) \in CleanTexts
  BY <1>6, <1>7 DEF CleanTexts, Clean
<1>9. PICK v \in Nat \ {0} : v = SkipFrom(line, q + 1, Separators)
  BY SkipStops
<1>10. ValueOf(line) = SubSeq(line, v, Len(line))
  BY <1>3, <1>9 DEF ValueOf
<1>11. SubSeq(line, v, Len(line)) \in Texts
  BY <1>1 DEF Texts
<1>. QED  BY <1>8, <1>10, <1>11

-------------------------------------------------------------------------------
(* parseFile, line by line.                                                *)

LEMMA WithoutCRIsText ==
    ASSUME NEW line \in Texts
    PROVE  /\ WithoutCR(line) \in Texts
           /\ Len(WithoutCR(line)) <= Len(line)
           /\ Len(WithoutCR(line)) >= Len(line) - 1
           /\ \A i \in 1..Len(WithoutCR(line)) : WithoutCR(line)[i] = line[i]
<1>1. Len(line) \in Nat /\ \A j \in 1..Len(line) : line[j] \in Chars
  BY LenProperties, ElementOfSeq DEF Texts
<1>2. CASE line # <<>> /\ Last(line) = CarriageReturn
  <2>1. Len(line) > 0
    BY <1>1, <1>2, EmptySeq DEF Texts
  <2>2. WithoutCR(line) = SubSeq(line, 1, Len(line) - 1)
    BY <1>2 DEF WithoutCR, Front
  <2>. QED  BY <1>1, <2>1, <2>2 DEF Texts
<1>3. CASE ~(line # <<>> /\ Last(line) = CarriageReturn)
  <2>1. WithoutCR(line) = line
    BY <1>3 DEF WithoutCR
  <2>. QED  BY <1>1, <2>1
<1>. QED  BY <1>2, <1>3

LEMMA PutIsTable ==
    ASSUME NEW table \in Tables, NEW key \in CleanTexts, NEW val \in Texts
    PROVE  Put(table, key, val) \in Tables
<1>1. PICK D \in SUBSET CleanTexts : table \in [D -> Texts]
  BY DEF Tables
<1>2. Put(table, key, val) \in [D \cup {key} -> Texts]
  BY <1>1 DEF Put
<1>. QED  BY <1>2 DEF Tables

LEMMA ParseStepType ==
    ASSUME NEW x \in ReadState, NEW line \in Texts
    PROVE  ParseStep(x, line) \in ReadState
<1>1. CASE x.ended \/ EndsParse(line)
  BY <1>1 DEF ParseStep, ReadState
<1>2. CASE ~(x.ended \/ EndsParse(line)) /\ IsBlank(line)
  BY <1>2 DEF ParseStep
<1>3. CASE ~(x.ended \/ EndsParse(line)) /\ ~IsBlank(line)
  <2>1. ParseStep(x, line) = [x EXCEPT !.table = ParseLine(x.table, WithoutCR(line))]
    BY <1>3 DEF ParseStep
  <2>2. ParseLine(x.table, WithoutCR(line)) \in Tables
    <3>1. x.table \in Tables
      BY DEF ReadState
    <3>2. WithoutCR(line) \in Texts
      BY WithoutCRIsText
    <3>. QED  BY <3>1, <3>2, KeyAndValueAreTexts, PutIsTable DEF ParseLine
  <2>. QED  BY <2>1, <2>2 DEF ReadState
<1>. QED  BY <1>1, <1>2, <1>3

\* Where parseFile stands behind these lines.
Reads(lines) == FoldLeft(ParseStep, ReadBegin, lines)

\* The fold, as a sequence of states.
LEMMA ReadSteps ==
    ASSUME NEW s \in Seq(Texts)
    PROVE  \E f \in [0..Len(s) -> ReadState] :
              /\ f[0] = ReadBegin
              /\ \A i \in 1..Len(s) : f[i] = ParseStep(f[i - 1], s[i])
              /\ Reads(s) = f[Len(s)]
<1>. DEFINE G == [p \in ReadState \X Texts |-> ParseStep(p[1], p[2])]
            Eq(it) == it = [T \in SUBSET DOMAIN s |->
                               IF T = {} THEN ReadBegin
                               ELSE ParseStep(it[T \ {Max(T)}], s[Max(T)])]
            c == CHOOSE it : Eq(it)
<1>1. /\ Len(s) \in Nat /\ DOMAIN s = 1..Len(s)
      /\ \A i \in 1..Len(s) : s[i] \in Texts
  BY LenProperties, ElementOfSeq
<1>2. ReadBegin \in ReadState
  BY EmptyTable DEF ReadBegin, ReadState
<1>3. G \in [ReadState \X Texts -> ReadState]
  BY ParseStepType
<1>4. \A a \in ReadState, b \in Texts : G[<<a, b>>] = ParseStep(a, b)
  OBVIOUS
<1>. HIDE DEF G
<1>5. \E it : Eq(it)
  <2>1. PICK it \in [SUBSET (1..Len(s)) -> ReadState] : Iterates(it, G, ReadBegin, s, Len(s))
    BY <1>2, <1>3, IterationExists
  <2>2. ASSUME NEW T \in SUBSET (1..Len(s)), T # {}
        PROVE  G[<<it[T \ {Max(T)}], s[Max(T)]>>] = ParseStep(it[T \ {Max(T)}], s[Max(T)])
    <3>1. Max(T) \in T
      BY <1>1, <2>2, MaxOfSet
    <3>. QED  BY <1>1, <1>4, <2>1, <3>1
  <2>3. Eq(it)
    BY <1>1, <2>1, <2>2 DEF Iterates
  <2>. QED  BY <2>3
<1>6. Eq(c)
  BY <1>5
<1>7. Reads(s) = c[DOMAIN s]
  BY Zenon DEF Reads, FoldLeft, MapThenFoldSet, ReadBegin
<1>. HIDE DEF c
<1>8. FoldsAs(c, ReadState, Texts, G, ReadBegin, s)
  <2>1. ASSUME NEW T \in SUBSET (1..Len(s)), T # {}, c[T \ {Max(T)}] \in ReadState
        PROVE  c[T] = G[<<c[T \ {Max(T)}], s[Max(T)]>>]
    <3>1. Max(T) \in T
      BY <1>1, <2>1, MaxOfSet
    <3>2. c[T] = ParseStep(c[T \ {Max(T)}], s[Max(T)])
      BY <1>1, <1>6, <2>1
    <3>. QED  BY <1>1, <1>4, <2>1, <3>1, <3>2
  <2>. QED  BY <1>2, <1>1, <1>3, <1>6, <2>1 DEF FoldsAs
<1>. HIDE DEF Eq
<1>9. PICK f \in [0..Len(s) -> ReadState] :
          /\ f[0] = ReadBegin
          /\ \A i \in 1..Len(s) : f[i] = G[<<f[i - 1], s[i]>>]
          /\ f[Len(s)] = c[1..Len(s)]
  BY <1>8, FoldRuns
<1>10. ASSUME NEW i \in 1..Len(s) PROVE f[i] = ParseStep(f[i - 1], s[i])
  <2>1. f[i - 1] \in ReadState
    BY <1>1, <1>9
  <2>. QED  BY <1>1, <1>4, <1>9, <2>1
<1>. QED  BY <1>1, <1>7, <1>9, <1>10

LEMMA NothingIsRead == Reads(<<>>) = ReadBegin
<1>1. <<>> \in Seq(Texts) /\ Len(<<>>) = 0
  BY EmptySeq
<1>. QED  BY <1>1, ReadSteps

\* A line at the end is read after all the others.
LEMMA OneMoreIsRead ==
    ASSUME NEW lines \in Seq(Texts), NEW line \in Texts
    PROVE  /\ Reads(lines) \in ReadState
           /\ Reads(Append(lines, line)) = ParseStep(Reads(lines), line)
<1>. DEFINE more == Append(lines, line)
            n == Len(lines)
<1>1. /\ n \in Nat /\ more \in Seq(Texts) /\ Len(more) = n + 1
      /\ more[n + 1] = line /\ \A i \in 1..n : more[i] = lines[i]
  BY LenProperties, AppendProperties
<1>. HIDE DEF more
<1>2. PICK f \in [0..n -> ReadState] :
          /\ f[0] = ReadBegin
          /\ \A i \in 1..n : f[i] = ParseStep(f[i - 1], lines[i])
          /\ Reads(lines) = f[n]
  BY ReadSteps
<1>3. PICK g \in [0..Len(more) -> ReadState] :
          /\ g[0] = ReadBegin
          /\ \A i \in 1..Len(more) : g[i] = ParseStep(g[i - 1], more[i])
          /\ Reads(more) = g[Len(more)]
  BY <1>1, ReadSteps
<1>. HIDE DEF n
<1>4. \A i \in 0..n : f[i] = g[i]
  <2>1. ASSUME NEW i \in 1..n, f[i - 1] = g[i - 1] PROVE f[i] = g[i]
    <3>1. i \in 1..Len(more) /\ more[i] = lines[i]
      BY <1>1
    <3>. QED  BY <1>2, <1>3, <2>1, <3>1
  <2>2. GoAlike(n, f, g)
    BY <1>2, <1>3, <2>1 DEF GoAlike
  <2>. QED  BY <1>1, <2>2, SameAlong
<1>5. f[n] = g[n] /\ f[n] \in ReadState
  BY <1>1, <1>2, <1>4
<1>6. g[n + 1] = ParseStep(g[n], line)
  <2>1. n + 1 \in 1..Len(more) /\ (n + 1) - 1 = n
    BY <1>1
  <2>. QED  BY <1>1, <1>3, <2>1
<1>. QED  BY <1>1, <1>2, <1>3, <1>5, <1>6 DEF more

-------------------------------------------------------------------------------
(* What a line says that holds a key and a value.                          *)

\* An entry is a key and a value, with something between them, or a key alone,
\* or a line that has no key.
WrittenEntries ==
    [before : Seq(Blanks), key : Seq(Chars \ Separators), sep : Seq(Separators),
     value : Seq(Chars), after : {<<>>, <<CarriageReturn>>}]

IsEntry(e) ==
    /\ e \in WrittenEntries
    /\ e.sep = <<>> => e.value = <<>>
    /\ e.key = <<>> => (\E i \in 1..Len(e.sep) : e.sep[i] = "=") \/ e.value = <<>>

\* A carriage return is at the end of the second part.
LEMMA FrontOfJoined ==
    ASSUME NEW x \in Texts, NEW y \in Texts, y # <<>>
    PROVE  /\ WithoutCR(x \o y) = x \o WithoutCR(y)
           /\ WithoutCR(y) = IF y[Len(y)] = CarriageReturn
                             THEN SubSeq(y, 1, Len(y) - 1) ELSE y
<1>1. /\ Len(x) \in Nat /\ Len(y) \in Nat
      /\ \A j \in 1..Len(x) : x[j] \in Chars
      /\ \A j \in 1..Len(y) : y[j] \in Chars
  BY LenProperties, ElementOfSeq DEF Texts
<1>2. Len(y) > 0
  BY <1>1, EmptySeq DEF Texts
<1>3. /\ x \o y \in Texts /\ Len(x \o y) = Len(x) + Len(y)
      /\ \A j \in 1..Len(x) : (x \o y)[j] = x[j]
      /\ \A j \in 1..Len(y) : (x \o y)[Len(x) + j] = y[j]
  BY <1>1 DEF Texts
<1>4. (x \o y)[Len(x \o y)] = y[Len(y)] /\ x \o y # <<>>
  <2>1. (x \o y)[Len(x) + Len(y)] = y[Len(y)]
    <3>1. Len(y) \in 1..Len(y)
      BY <1>1, <1>2
    <3>. QED  BY <1>3, <3>1
  <2>2. Len(x \o y) > 0
    BY <1>1, <1>2, <1>3
  <2>3. x \o y # <<>>
    BY <2>2, EmptySeq
  <2>. QED  BY <1>3, <2>1, <2>3
<1>5. SubSeq(x \o y, 1, Len(x \o y) - 1) = x \o SubSeq(y, 1, Len(y) - 1)
  <2>1. CASE Len(y) = 1
    <3>1. SubSeq(y, 1, Len(y) - 1) = <<>>
      BY <2>1, SubSeqEmpty
    <3>2. Len(x \o y) - 1 = Len(x)
      BY <1>1, <1>3, <2>1
    <3>3. SubSeq(x \o y, 1, Len(x)) = SubSeq(x, 1, Len(x))
      <4>1. CASE Len(x) = 0
        BY <4>1, SubSeqEmpty
      <4>2. CASE Len(x) # 0
        <5>1. 1 \in 1..Len(x) /\ Len(x) \in 1..Len(x)
          BY <1>1, <4>2
        <5>. QED  BY <5>1, SubSeqOfConcat1 DEF Texts
      <4>. QED  BY <4>1, <4>2
    <3>. QED  BY <3>1, <3>2, <3>3, SubSeqFull, ConcatEmptySeq DEF Texts
  <2>2. CASE Len(y) > 1
    <3>. DEFINE n == Len(x \o y)
                m == Len(x) + 1
    <3>1. /\ n - 1 \in Len(x)..n /\ m \in 1..(n + 1) /\ n \in Nat
          /\ 1 \in 1..(n + 1) /\ Len(x) \in 0..(n - 1)
          /\ m \in m..(Len(x) + Len(y)) /\ n - 1 \in m..(Len(x) + Len(y))
          /\ m - Len(x) = 1 /\ (n - 1) - Len(x) = Len(y) - 1
      BY <1>1, <1>3, <2>2
    <3>2. SubSeq(x \o y, m, n - 1) = SubSeq(y, 1, Len(y) - 1)
      BY <3>1, SubSeqOfConcat2 DEF Texts
    <3>3. SubSeq(x \o y, 1, Len(x)) = x
      <4>1. CASE Len(x) = 0
        <5>1. x = <<>>
          BY <4>1, EmptySeq DEF Texts
        <5>. QED  BY <4>1, <5>1, SubSeqEmpty
      <4>2. CASE Len(x) # 0
        <5>1. 1 \in 1..Len(x) /\ Len(x) \in 1..Len(x)
          BY <1>1, <4>2
        <5>2. SubSeq(x \o y, 1, Len(x)) = SubSeq(x, 1, Len(x))
          BY <5>1, SubSeqOfConcat1 DEF Texts
        <5>. QED  BY <5>2, SubSeqFull DEF Texts
      <4>. QED  BY <4>1, <4>2
    <3>4. SubSeq(x \o y, 1, Len(x)) \o SubSeq(x \o y, m, n - 1) = SubSeq(x \o y, 1, n - 1)
      <4>1. /\ 1 \in 1..(n + 1) /\ Len(x) \in (1 - 1)..n /\ n - 1 \in Len(x)..n
        BY <3>1
      <4>. HIDE DEF n
      <4>. QED  BY <1>3, <4>1, ConcatAdjacentSubSeq DEF Texts, n
    <3>. QED  BY <3>2, <3>3, <3>4
  <2>. QED  BY <1>1, <1>2, <2>1, <2>2
<1>. QED  BY <1>4, <1>5 DEF WithoutCR, Last, Front

\* The parts of the text t of an entry: blanks up to p, the key key up to q, what
\* separates up to r, and the value val.
Layout(t, key, val, p, q, r) ==
    /\ p <= q /\ q <= r /\ r <= Len(t)
    /\ \A j \in 1..p : t[j] \in Blanks
    /\ \A j \in (p + 1)..q : t[j] \notin Separators
    /\ \A j \in (q + 1)..r : t[j] \in Separators
    /\ SubSeq(t, p + 1, q) = key
    /\ SubSeq(t, r + 1, Len(t)) = val
    /\ key = <<>> <=> p = q
    /\ val = <<>> <=> r = Len(t)
    /\ val # <<>> => t[r + 1] = val[1]
    /\ q = r => r = Len(t)
    /\ p = q => (\E j \in (q + 1)..r : t[j] = "=") \/ r = Len(t)

HasEquals(s) == \E i \in 1..Len(s) : s[i] = "="

LEMMA PartOfJoined ==
    ASSUME NEW x \in Texts, NEW y \in Texts
    PROVE  /\ SubSeq(x \o y, 1, Len(x)) = x
           /\ SubSeq(x \o y, Len(x) + 1, Len(x) + Len(y)) = y
           /\ x \o y \in Texts /\ Len(x \o y) = Len(x) + Len(y)
           /\ \A j \in 1..Len(x) : (x \o y)[j] = x[j]
           /\ \A j \in 1..Len(y) : (x \o y)[Len(x) + j] = y[j]
<1>1. Len(x) \in Nat /\ Len(y) \in Nat
  BY LenProperties DEF Texts
<1>2. SubSeq(x \o y, 1, Len(x)) = x
  <2>1. CASE Len(x) = 0
    <3>1. x = <<>>
      BY <2>1, EmptySeq DEF Texts
    <3>. QED  BY <2>1, <3>1, SubSeqEmpty
  <2>2. CASE Len(x) # 0
    <3>1. 1 \in 1..Len(x) /\ Len(x) \in 1..Len(x)
      BY <1>1, <2>2
    <3>2. SubSeq(x \o y, 1, Len(x)) = SubSeq(x, 1, Len(x))
      BY <3>1, SubSeqOfConcat1 DEF Texts
    <3>. QED  BY <3>2, SubSeqFull DEF Texts
  <2>. QED  BY <2>1, <2>2
<1>3. SubSeq(x \o y, Len(x) + 1, Len(x) + Len(y)) = y
  <2>1. CASE Len(y) = 0
    <3>1. y = <<>>
      BY <2>1, EmptySeq DEF Texts
    <3>2. Len(x) + Len(y) < Len(x) + 1
      BY <1>1, <2>1
    <3>. QED  BY <1>1, <3>1, <3>2, SubSeqEmpty
  <2>2. CASE Len(y) # 0
    <3>. DEFINE m == Len(x) + 1
                n == Len(x) + Len(y)
    <3>1. /\ m \in m..n /\ n \in m..n
          /\ m - Len(x) = 1 /\ n - Len(x) = Len(y)
      BY <1>1, <2>2
    <3>2. SubSeq(x \o y, m, n) = SubSeq(y, 1, Len(y))
      BY <3>1, SubSeqOfConcat2 DEF Texts
    <3>. QED  BY <3>2, SubSeqFull DEF Texts
  <2>. QED  BY <2>1, <2>2
<1>4. /\ x \o y \in Texts /\ Len(x \o y) = Len(x) + Len(y)
      /\ \A j \in 1..Len(x) : (x \o y)[j] = x[j]
      /\ \A j \in 1..Len(y) : (x \o y)[Len(x) + j] = y[j]
  BY <1>1 DEF Texts
<1>. QED  BY <1>2, <1>3, <1>4

LEMMA LayoutOf ==
    ASSUME NEW b \in Seq(Blanks), NEW key \in CleanTexts, NEW s \in Seq(Separators),
           NEW val \in Texts,
           s = <<>> => val = <<>>,
           key = <<>> => HasEquals(s) \/ val = <<>>
    PROVE  /\ b \o key \o s \o val \in Texts
           /\ \E p, q, r \in Nat : Layout(b \o key \o s \o val, key, val, p, q, r)
<1>. DEFINE x == b \o key
            y == x \o s
            t == y \o val
            p == Len(b)
            q == Len(x)
            r == Len(y)
<1>0. b \in Texts /\ key \in Texts /\ s \in Texts /\ val \in Texts
  BY CharsAre, SeqMonotonic DEF Texts, CleanTexts
<1>1. /\ p \in Nat /\ Len(key) \in Nat /\ Len(s) \in Nat /\ Len(val) \in Nat
      /\ \A j \in 1..p : b[j] \in Blanks
      /\ \A j \in 1..Len(s) : s[j] \in Separators
      /\ \A j \in 1..Len(key) : key[j] \notin Separators
  BY <1>0, LenProperties, ElementOfSeq DEF Texts, CleanTexts, Clean
<1>2. /\ x \in Texts /\ q = p + Len(key)
      /\ SubSeq(x, p + 1, q) = key
      /\ \A j \in 1..p : x[j] = b[j]
      /\ \A j \in 1..Len(key) : x[p + j] = key[j]
  <2>1. /\ x \in Texts /\ Len(x) = p + Len(key)
        /\ \A j \in 1..p : x[j] = b[j]
        /\ \A j \in 1..Len(key) : x[p + j] = key[j]
    BY <1>0, PartOfJoined
  <2>2. SubSeq(x, p + 1, p + Len(key)) = key
    BY <1>0, PartOfJoined
  <2>. HIDE DEF x, p
  <2>. QED  BY <2>1, <2>2
<1>. HIDE DEF x, p
<1>3. /\ y \in Texts /\ r = q + Len(s)
      /\ \A j \in 1..q : y[j] = x[j]
      /\ \A j \in 1..Len(s) : y[q + j] = s[j]
  BY <1>0, <1>2, PartOfJoined
<1>4. SubSeq(y, 1, q) = x
  BY <1>0, <1>2, PartOfJoined
<1>. HIDE DEF y, q
<1>5. /\ t \in Texts /\ Len(t) = r + Len(val)
      /\ \A j \in 1..r : t[j] = y[j]
      /\ \A j \in 1..Len(val) : t[r + j] = val[j]
      /\ SubSeq(t, 1, r) = y
      /\ SubSeq(t, r + 1, Len(t)) = val
  <2>1. /\ t \in Texts /\ Len(t) = r + Len(val)
        /\ \A j \in 1..r : t[j] = y[j]
        /\ \A j \in 1..Len(val) : t[r + j] = val[j]
        /\ SubSeq(t, 1, r) = y
    BY <1>0, <1>3, PartOfJoined
  <2>2. SubSeq(t, r + 1, r + Len(val)) = val
    BY <1>0, <1>3, PartOfJoined
  <2>. HIDE DEF t, r
  <2>. QED  BY <2>1, <2>2
<1>. HIDE DEF t, r
<1>6. /\ p \in Nat /\ q \in Nat /\ r \in Nat /\ p <= q /\ q <= r /\ r <= Len(t)
  BY <1>1, <1>2, <1>3, <1>5
<1>7. \A j \in 1..p : t[j] \in Blanks
  <2>1. \A j \in 1..p : j \in 1..q /\ j \in 1..r
    BY <1>6
  <2>2. \A j \in 1..p : t[j] = b[j]
    BY <1>2, <1>3, <1>5, <2>1
  <2>. QED  BY <1>1, <2>2
<1>8. ASSUME NEW j \in (p + 1)..q PROVE t[j] \notin Separators
  <2>1. PICK i \in 1..Len(key) : j = p + i
    <3>1. j - p \in 1..Len(key) /\ j = p + (j - p)
      BY <1>1, <1>2, <1>6
    <3>. QED  BY <3>1
  <2>2. j \in 1..q /\ j \in 1..r
    BY <1>6
  <2>3. t[j] = x[j]
    BY <1>3, <1>5, <2>2
  <2>4. x[p + i] = key[i] /\ key[i] \notin Separators
    BY <1>1, <1>2
  <2>. QED  BY <2>1, <2>3, <2>4
<1>9. ASSUME NEW j \in (q + 1)..r PROVE t[j] \in Separators
  <2>1. PICK i \in 1..Len(s) : j = q + i
    <3>1. j - q \in 1..Len(s) /\ j = q + (j - q)
      BY <1>1, <1>3, <1>6
    <3>. QED  BY <3>1
  <2>2. j \in 1..r
    BY <1>6
  <2>. QED  BY <1>1, <1>3, <1>5, <2>1, <2>2
<1>10. ASSUME NEW i \in 1..Len(s), s[i] = "=" PROVE \E j \in (q + 1)..r : t[j] = "="
  <2>1. q + i \in (q + 1)..r /\ q + i \in 1..r
    BY <1>1, <1>3, <1>6
  <2>. QED  BY <1>3, <1>5, <1>10, <2>1
<1>11. SubSeq(t, p + 1, q) = key
  <2>1. ASSUME p < q PROVE SubSeq(t, p + 1, q) = SubSeq(x, p + 1, q)
    <3>. DEFINE m == p + 1
    <3>1. /\ m \in 1..q /\ q \in 1..q /\ m \in 1..r /\ q \in 1..r
      BY <1>6, <2>1
    <3>2. \A j \in m..q : t[j] \in Chars /\ x[j] \in Chars
      <4>1. \A j \in m..q : j \in 1..Len(t) /\ j \in 1..Len(x)
        BY <1>6, <2>1 DEF q
      <4>. QED  BY <1>2, <1>5, <4>1, ElementOfSeq DEF Texts
    <3>3. m \in Int /\ q \in Int
      BY <1>6
    <3>4. /\ SubSeq(t, m, q) \in Texts /\ SubSeq(x, m, q) \in Texts
          /\ Len(SubSeq(t, m, q)) = q - m + 1 /\ Len(SubSeq(x, m, q)) = q - m + 1
          /\ \A i \in 1..(q - m + 1) : SubSeq(t, m, q)[i] = t[m + i - 1]
          /\ \A i \in 1..(q - m + 1) : SubSeq(x, m, q)[i] = x[m + i - 1]
      BY <3>1, <3>2, <3>3, SubSeqProperties DEF Texts
    <3>5. \A i \in 1..(q - m + 1) : t[m + i - 1] = x[m + i - 1]
      <4>1. \A i \in 1..(q - m + 1) : m + i - 1 \in 1..q /\ m + i - 1 \in 1..r
        BY <1>6
      <4>. QED  BY <1>3, <1>5, <4>1
    <3>. HIDE DEF m
    <3>. QED  BY <3>4, <3>5, SeqEqual DEF Texts, m
  <2>2. ASSUME p = q PROVE SubSeq(t, p + 1, q) = SubSeq(x, p + 1, q)
    <3>1. p + 1 \in Int /\ q \in Int /\ q < p + 1
      BY <1>6, <2>2
    <3>. QED  BY <3>1, SubSeqEmpty
  <2>. QED  BY <1>2, <1>6, <2>1, <2>2
<1>12. /\ key = <<>> <=> p = q
       /\ val = <<>> <=> r = Len(t)
       /\ s = <<>> <=> q = r
  <2>1. /\ key = <<>> <=> Len(key) = 0
        /\ val = <<>> <=> Len(val) = 0
        /\ s = <<>> <=> Len(s) = 0
    BY <1>0, EmptySeq DEF Texts
  <2>2. /\ Len(key) = 0 <=> p = q
        /\ Len(val) = 0 <=> r = Len(t)
        /\ Len(s) = 0 <=> q = r
    <3>1. q = p + Len(key) /\ r = q + Len(s) /\ Len(t) = r + Len(val)
      BY <1>2, <1>3, <1>5
    <3>2. /\ p \in Nat /\ q \in Nat /\ r \in Nat
          /\ Len(key) \in Nat /\ Len(s) \in Nat /\ Len(val) \in Nat
      BY <1>1, <1>6
    <3>. QED  BY <3>1, <3>2
  <2>. QED  BY <2>1, <2>2
<1>13. val # <<>> => t[r + 1] = val[1]
  <2>1. val # <<>> => 1 \in 1..Len(val)
    BY <1>0, <1>1, EmptySeq DEF Texts
  <2>. QED  BY <1>5, <2>1
<1>14. p = q => (\E j \in (q + 1)..r : t[j] = "=") \/ r = Len(t)
  BY <1>10, <1>12 DEF HasEquals
<1>15. q = r => r = Len(t)
  BY <1>12
<1>16. Layout(t, key, val, p, q, r)
  BY <1>5, <1>6, <1>7, <1>8, <1>9, <1>11, <1>12, <1>13, <1>14, <1>15, Zenon DEF Layout
<1>17. t = b \o key \o s \o val
  BY DEF t, y, x
<1>. QED  BY <1>5, <1>6, <1>16, <1>17

\* The text of an entry has such a layout, with the value itself if it can be
\* stored: parseFile takes a carriage return off the end.
LEMMA EntryText ==
    ASSUME NEW e, IsEntry(e)
    PROVE  /\ Entry(e) \in Texts /\ e.key \in CleanTexts /\ e.value \in Texts
           /\ \E val \in Texts :
                 /\ Storable(e.value) => val = e.value
                 /\ \E p, q, r \in Nat : Layout(WithoutCR(Entry(e)), e.key, val, p, q, r)
           /\ Entry(e) = WithoutCR(Entry(e))
              \/ Entry(e) = WithoutCR(Entry(e)) \o <<CarriageReturn>>
<1>. DEFINE b == e.before
            key == e.key
            s == e.sep
            v == e.value
            bk == b \o key
            bks == bk \o s
            all == bks \o v
<1>0. /\ b \in Seq(Blanks) /\ key \in Seq(Chars \ Separators)
      /\ s \in Seq(Separators) /\ v \in Texts
      /\ e.after = <<>> \/ e.after = <<CarriageReturn>>
      /\ s = <<>> => v = <<>>
      /\ key = <<>> => HasEquals(s) \/ v = <<>>
      /\ Entry(e) = all \o e.after
  BY DEF IsEntry, WrittenEntries, Texts, HasEquals, Entry
<1>1. key \in CleanTexts
  <2>1. \A i \in 1..Len(key) : key[i] \in Chars \ Separators
    BY <1>0, ElementOfSeq
  <2>2. key \in Texts
    <3>1. Chars \ Separators \subseteq Chars
      OBVIOUS
    <3>. QED  BY <1>0, <3>1, SeqMonotonic DEF Texts
  <2>. QED  BY <2>1, <2>2 DEF CleanTexts, Clean
<1>. HIDE DEF b, key, s, v
<1>2. b \in Texts /\ key \in Texts /\ s \in Texts
  BY <1>0, <1>1, CharsAre, SeqMonotonic DEF Texts, CleanTexts
<1>3. bk \in Texts
  BY <1>2, ConcatProperties DEF Texts
<1>4. bks \in Texts
  <2>. HIDE DEF bk
  <2>. QED  BY <1>2, <1>3, ConcatProperties DEF Texts
<1>5. all \in Texts
  <2>. HIDE DEF bks
  <2>. QED  BY <1>0, <1>4, ConcatProperties DEF Texts
<1>6. <<CarriageReturn>> \in Texts /\ WithoutCR(<<CarriageReturn>>) = <<>>
  <2>1. CarriageReturn \in Chars
    BY CharsAre
  <2>2. <<CarriageReturn>> \in Texts
    BY <2>1 DEF Texts
  <2>3. Front(<<CarriageReturn>>) = <<>>
    BY SubSeqEmpty DEF Front
  <2>. QED  BY <2>2, <2>3 DEF WithoutCR, Last
<1>7. Entry(e) \in Texts
  <2>1. e.after \in Texts
    BY <1>0, <1>6, EmptySeq DEF Texts
  <2>. HIDE DEF all
  <2>. QED  BY <1>0, <1>5, <2>1, ConcatProperties DEF Texts
<1>8. CASE e.after = <<CarriageReturn>>
  <2>1. WithoutCR(Entry(e)) = all
    <3>. HIDE DEF all
    <3>1. <<CarriageReturn>> # <<>>
      OBVIOUS
    <3>2. WithoutCR(all \o <<CarriageReturn>>) = all \o <<>>
      BY <1>5, <1>6, <3>1, FrontOfJoined
    <3>. QED  BY <1>0, <1>5, <1>8, <3>2, ConcatEmptySeq DEF Texts
  <2>2. \E p, q, r \in Nat : Layout(all, key, v, p, q, r)
    BY <1>0, <1>1, LayoutOf
  <2>. HIDE DEF all
  <2>. QED  BY <1>0, <1>1, <1>7, <1>8, <2>1, <2>2 DEF key, v
<1>9. CASE e.after = <<>>
  <2>1. Entry(e) = all
    BY <1>0, <1>5, <1>9, ConcatEmptySeq DEF Texts
  <2>2. ASSUME NEW a \in Seq(Separators), NEW val \in Texts,
               WithoutCR(all) = bk \o a \o val,
               a = <<>> => val = <<>>,
               key = <<>> => HasEquals(a) \/ val = <<>>,
               Storable(v) => val = v
        PROVE  \E w \in Texts :
                 /\ Storable(v) => w = v
                 /\ \E p, q, r \in Nat : Layout(WithoutCR(all), key, w, p, q, r)
    <3>1. \E p, q, r \in Nat : Layout(bk \o a \o val, key, val, p, q, r)
      BY <1>0, <1>1, <2>2, LayoutOf
    <3>2. \E p, q, r \in Nat : Layout(WithoutCR(all), key, val, p, q, r)
      <4>. HIDE DEF all, bk
      <4>. QED  BY <2>2, <3>1
    <3>. HIDE DEF all
    <3>. QED  BY <2>2, <3>2
  <2>. SUFFICES \E w \in Texts :
                  /\ Storable(v) => w = v
                  /\ \E p, q, r \in Nat : Layout(WithoutCR(all), key, w, p, q, r)
    <3>1. Entry(e) = WithoutCR(Entry(e))
          \/ Entry(e) = WithoutCR(Entry(e)) \o <<CarriageReturn>>
      <4>. HIDE DEF all
      <4>1. ASSUME all # <<>>, Last(all) = CarriageReturn
            PROVE  all = Front(all) \o <<CarriageReturn>>
        <5>1. /\ Len(all) \in Nat \ {0}
          BY <1>5, <4>1, EmptySeq DEF Texts
        <5>2. 1 \in 1..Len(all) /\ Len(all) \in 1..Len(all)
          BY <5>1
        <5>3. SubSeq(all, 1, Len(all)) = SubSeq(all, 1, Len(all) - 1) \o <<all[Len(all)]>>
          BY <1>5, <5>2, SubSeqRecursiveSecond DEF Texts
        <5>4. SubSeq(all, 1, Len(all)) = all
          BY <1>5, SubSeqFull DEF Texts
        <5>. QED  BY <4>1, <5>3, <5>4 DEF Front, Last
      <4>. QED  BY <2>1, <4>1 DEF WithoutCR
    <3>. HIDE DEF all
    <3>. QED  BY <1>0, <1>1, <1>7, <2>1, <3>1 DEF key, v
  <2>3. CASE v # <<>>
    <3>1. WithoutCR(all) = bks \o WithoutCR(v) /\ WithoutCR(v) \in Texts
      <4>. HIDE DEF bks
      <4>. QED  BY <1>0, <1>4, <2>3, FrontOfJoined, WithoutCRIsText
    <3>2. Storable(v) => WithoutCR(v) = v
      BY <2>3 DEF Storable, WithoutCR
    <3>3. WithoutCR(all) = bk \o s \o WithoutCR(v)
      BY <3>1
    <3>. HIDE DEF all, bk
    <3>4. s # <<>>
      BY <1>0, <2>3
    <3>5. key = <<>> => HasEquals(s) \/ WithoutCR(v) = <<>>
      BY <1>0, <2>3
    <3>. QED  BY <1>0, <2>2, <3>1, <3>2, <3>3, <3>4, <3>5
  <2>4. CASE v = <<>> /\ s # <<>>
    <3>1. all = bks
      BY <1>4, <2>4, ConcatEmptySeq DEF Texts
    <3>2. WithoutCR(all) = bk \o WithoutCR(s)
      <4>. HIDE DEF bk
      <4>. QED  BY <1>2, <1>3, <2>4, <3>1, FrontOfJoined
    <3>3. WithoutCR(s) \in Seq(Separators)
      <4>1. \A j \in 1..Len(s) : s[j] \in Separators
        BY <1>0, ElementOfSeq
      <4>2. Len(s) \in Nat
        BY <1>0, LenProperties
      <4>3. SubSeq(s, 1, Len(s) - 1) \in Seq(Separators)
        <5>1. \A j \in 1..(Len(s) - 1) : s[j] \in Separators
          BY <4>1, <4>2
        <5>. QED  BY <4>2, <5>1, SubSeqProperties
      <4>. QED  BY <1>0, <1>2, <2>4, <4>3 DEF WithoutCR, Front
    <3>4. <<>> \in Texts
      BY EmptySeq DEF Texts
    <3>. DEFINE a == WithoutCR(s)
    <3>5. WithoutCR(all) = bk \o a \o <<>>
      <4>1. bk \o a \in Texts
        <5>1. a \in Texts
          BY <3>3, CharsAre, SeqMonotonic DEF Texts
        <5>. HIDE DEF bk, a
        <5>. QED  BY <1>3, <5>1, ConcatProperties DEF Texts
      <4>. HIDE DEF bk, all
      <4>. QED  BY <3>2, <4>1, ConcatEmptySeq DEF Texts
    <3>. HIDE DEF all, bk, a
    <3>. QED  BY <2>2, <2>4, <3>3, <3>4, <3>5 DEF a
  <2>5. CASE v = <<>> /\ s = <<>>
    <3>1. all = bk
      BY <1>3, <1>4, <2>5, ConcatEmptySeq DEF Texts
    <3>2. <<>> \in Texts /\ <<>> \in Seq(Separators)
      BY EmptySeq DEF Texts
    <3>3. CASE key # <<>>
      <4>1. Len(key) \in Nat /\ Len(key) # 0
        BY <1>2, <3>3, EmptySeq DEF Texts
      <4>2. key[Len(key)] \notin Separators
        <5>1. Len(key) \in 1..Len(key)
          BY <4>1
        <5>. QED  BY <1>1, <5>1 DEF CleanTexts, Clean
      <4>3. WithoutCR(bk) = bk
        BY <1>2, <3>3, <4>2, CharsAre, FrontOfJoined
      <4>4. bk \o <<>> \o <<>> = bk
        <5>. HIDE DEF bk
        <5>. QED  BY <1>3, ConcatEmptySeq DEF Texts
      <4>5. WithoutCR(all) = bk \o <<>> \o <<>>
        <5>. HIDE DEF all, bk
        <5>. QED  BY <3>1, <4>3, <4>4
      <4>. HIDE DEF all, bk
      <4>. QED  BY <2>2, <2>5, <3>2, <4>5
    <3>4. CASE key = <<>>
      <4>1. bk = b
        BY <1>2, <3>4, ConcatEmptySeq DEF Texts
      <4>. DEFINE c == WithoutCR(b)
      <4>2. c \in Seq(Blanks)
        <5>1. Len(b) \in Nat /\ \A j \in 1..Len(b) : b[j] \in Blanks
          BY <1>0, LenProperties, ElementOfSeq
        <5>2. SubSeq(b, 1, Len(b) - 1) \in Seq(Blanks)
          <6>1. \A j \in 1..(Len(b) - 1) : b[j] \in Blanks
            BY <5>1
          <6>. QED  BY <5>1, <6>1, SubSeqProperties
        <5>. QED  BY <1>0, <5>2 DEF WithoutCR, Front
      <4>3. WithoutCR(all) = c \o key \o <<>> \o <<>>
        <5>1. c \in Texts
          BY <4>2, CharsAre, SeqMonotonic DEF Texts
        <5>2. WithoutCR(all) = c
          <6>. HIDE DEF all, bk
          <6>. QED  BY <3>1, <4>1
        <5>3. c \o <<>> = c
          <6>. HIDE DEF c
          <6>. QED  BY <5>1, ConcatEmptySeq DEF Texts
        <5>. HIDE DEF all, bk, c
        <5>. QED  BY <3>4, <5>2, <5>3
      <4>4. \E p, q, r \in Nat : Layout(c \o key \o <<>> \o <<>>, key, <<>>, p, q, r)
        <5>. HIDE DEF c
        <5>. QED  BY <1>1, <3>2, <4>2, LayoutOf
      <4>. HIDE DEF all, bk, c
      <4>5. \E p, q, r \in Nat : Layout(WithoutCR(all), key, <<>>, p, q, r)
        BY <4>3, <4>4
      <4>. QED  BY <2>5, <3>2, <4>5
    <3>. QED  BY <3>3, <3>4
  <2>. QED  BY <2>3, <2>4, <2>5
<1>. QED  BY <1>0, <1>8, <1>9

\* With a key, the key is found, and the value unless it begins with a separator.
LEMMA KeyIsFound ==
    ASSUME NEW t \in Texts, NEW key, NEW val, NEW p \in Nat, NEW q \in Nat, NEW r \in Nat,
           Layout(t, key, val, p, q, r), p < q
    PROVE  /\ KeyOf(t) = key
           /\ KeyFrom(t) = p + 1 /\ KeyTo(t) = q + 1 /\ p + 1 <= Len(t)
           /\ q < Len(t) /\ (val # <<>> => val[1] \notin Separators) => ValueOf(t) = val
<1>. USE DEF Layout
<1>0. Len(t) \in Nat
  BY LenProperties DEF Texts
<1>1. KeyFrom(t) = p + 1
  <2>. DEFINE n == p + 1
  <2>1. n \in Nat /\ t[n] \notin Blanks
    <3>1. n \in (p + 1)..q
      OBVIOUS
    <3>. QED  BY <3>1, CharsAre
  <2>2. Skips(t, 1, Blanks, n)
    BY <1>0, <2>1 DEF Skips
  <2>. HIDE DEF n
  <2>3. SkipFrom(t, 1, Blanks) = n
    BY <2>1, <2>2, SkipIs
  <2>. QED  BY <2>3 DEF n, KeyFrom
<1>2. KeyTo(t) = q + 1
  <2>. DEFINE n == q + 1
              m == p + 1
  <2>1. n \in Nat /\ m \in Nat \ {0}
    OBVIOUS
  <2>2. n <= Len(t) => t[n] \in Separators
    <3>1. q < Len(t) => n \in (q + 1)..r
      BY <1>0
    <3>. QED  BY <1>0, <3>1
  <2>3. Finds(t, m, Separators, n)
    BY <1>0, <2>2 DEF Finds
  <2>. HIDE DEF n, m
  <2>4. FindFrom(t, m, Separators) = n
    BY <2>1, <2>3, FindIs
  <2>. QED  BY <1>1, <2>4, CharsAre DEF n, m, KeyTo, Separators
<1>3. KeyOf(t) = key
  <2>1. (q + 1) - 1 = q
    OBVIOUS
  <2>. QED  BY <1>1, <1>2, <2>1 DEF KeyOf
<1>4. ASSUME q < Len(t), val # <<>> => val[1] \notin Separators
      PROVE  ValueOf(t) = val
  <2>. DEFINE n == r + 1
              m == (q + 1) + 1
  <2>1. n \in Nat /\ m \in Nat \ {0} /\ q < r /\ m <= n /\ n <= Len(t) + 1
    BY <1>0, <1>4
  <2>2. \A j \in m..(n - 1) : t[j] \in Separators
    <3>1. \A j \in m..(n - 1) : j \in (q + 1)..r
      OBVIOUS
    <3>. QED  BY <3>1
  <2>3. n <= Len(t) => t[n] \notin Separators
    BY <1>0, <1>4
  <2>4. Skips(t, m, Separators, n)
    BY <2>1, <2>2, <2>3 DEF Skips
  <2>5. SubSeq(t, n, Len(t)) = val
    OBVIOUS
  <2>. HIDE DEF n, m
  <2>6. SkipFrom(t, m, Separators) = n
    BY <2>1, <2>4, SkipIs
  <2>. QED  BY <1>2, <2>5, <2>6 DEF m, ValueOf
<1>5. p + 1 <= Len(t)
  BY <1>0
<1>. QED  BY <1>1, <1>2, <1>3, <1>4, <1>5

\* Without a key, the line is blank or its key is the empty text.
LEMMA NoKeyIsFound ==
    ASSUME NEW t \in Texts, NEW key, NEW val, NEW p \in Nat, NEW q \in Nat, NEW r \in Nat,
           Layout(t, key, val, p, q, r), p = q
    PROVE  (\A j \in 1..Len(t) : t[j] \in Blanks) \/ KeyOf(t) = <<>>
<1>. USE DEF Layout
<1>0. Len(t) \in Nat
  BY LenProperties DEF Texts
<1>1. \A j \in 1..r : t[j] \in Separators
  <2>1. \A j \in 1..r : j \in 1..p \/ j \in (q + 1)..r
    OBVIOUS
  <2>. QED  BY <2>1, CharsAre
<1>2. CASE \E j \in 1..r : t[j] \notin Blanks
  <2>1. PICK j \in 1..r : t[j] \notin Blanks
    BY <1>2
  <2>2. PICK n \in Nat \ {0} : n = KeyFrom(t) /\ Skips(t, 1, Blanks, n)
    <3>1. 1 <= Len(t) + 1
      BY <1>0
    <3>. QED  BY <3>1, SkipStops DEF KeyFrom
  <2>3. n <= j
    BY <1>0, <2>1, <2>2 DEF Skips
  <2>4. n \in 1..r
    BY <1>0, <2>3
  <2>5. Finds(t, n, Separators, n)
    BY <1>0, <1>1, <2>4 DEF Finds
  <2>6. KeyTo(t) = n
    BY <2>2, <2>5, FindIs, CharsAre DEF KeyTo, Separators
  <2>7. n - 1 < n
    OBVIOUS
  <2>. QED  BY <2>2, <2>6, <2>7, SubSeqEmpty DEF KeyOf
<1>3. CASE \A j \in 1..r : t[j] \in Blanks
  <2>1. r = Len(t)
    <3>1. ASSUME NEW j \in (q + 1)..r, t[j] = "=" PROVE FALSE
      <4>1. j \in 1..r
        OBVIOUS
      <4>. QED  BY <1>3, <3>1, <4>1, CharsAre
    <3>. QED  BY <3>1
  <2>. QED  BY <1>3, <2>1
<1>. QED  BY <1>2, <1>3

\* x and y have the same value for k, or none.
SameAt(k, x, y) ==
    /\ k \in DOMAIN x.table <=> k \in DOMAIN y.table
    /\ k \in DOMAIN x.table => x.table[k] = y.table[k]

\* The line of an entry sets its key, if what the entry says can be stored to
\* what it says, and no other key.
LEMMA EntryIsRead ==
    ASSUME NEW e, IsEntry(e), NEW x \in ReadState, ~x.ended, ~EndsParse(Entry(e)),
           NEW y, y = ParseStep(x, Entry(e))
    PROVE  /\ ~y.ended
           /\ \A k \in Keys :
                 /\ k = e.key => /\ k \in DOMAIN y.table
                                 /\ Storable(e.value) => y.table[k] = e.value
                 /\ k # e.key => SameAt(k, x, y)
<1>. DEFINE line == Entry(e)
            t == WithoutCR(line)
<1>1. /\ line \in Texts /\ t \in Texts /\ e.key \in CleanTexts /\ e.value \in Texts
      /\ line = t \/ line = t \o <<CarriageReturn>>
  BY EntryText, WithoutCRIsText
<1>2. PICK val \in Texts, p \in Nat, q \in Nat, r \in Nat :
          /\ Storable(e.value) => val = e.value
          /\ Layout(t, e.key, val, p, q, r)
  BY EntryText
<1>3. /\ p <= q /\ q <= r /\ r <= Len(t) /\ Len(t) \in Nat /\ Len(line) \in Nat
      /\ e.key = <<>> <=> p = q
      /\ \A j \in (p + 1)..q : t[j] \notin Separators
  BY <1>1, <1>2, LenProperties DEF Layout, Texts
<1>4. IsBlank(line) <=> \A j \in 1..Len(t) : t[j] \in Blanks
  <2>1. DOMAIN line = 1..Len(line)
    BY <1>1, LenProperties DEF Texts
  <2>2. IsBlank(line) <=> \A j \in 1..Len(line) : line[j] \in Blanks
    <3>. HIDE DEF line
    <3>. QED  BY <2>1 DEF IsBlank, ToSet
  <2>3. CASE line = t
    <3>. HIDE DEF line, t
    <3>. QED  BY <2>2, <2>3
  <2>4. CASE line = t \o <<CarriageReturn>>
    <3>1. <<CarriageReturn>> \in Texts /\ Len(<<CarriageReturn>>) = 1
      <4>1. CarriageReturn \in Chars
        BY CharsAre
      <4>. QED  BY <4>1 DEF Texts
    <3>. HIDE DEF line, t
    <3>2. /\ Len(line) = Len(t) + 1
          /\ \A j \in 1..Len(t) : line[j] = t[j]
          /\ line[Len(t) + 1] = CarriageReturn
      <4>1. \A j \in 1..1 : (t \o <<CarriageReturn>>)[Len(t) + j] = <<CarriageReturn>>[j]
        BY <1>1, <3>1, PartOfJoined
      <4>2. <<CarriageReturn>>[1] = CarriageReturn
        OBVIOUS
      <4>. QED  BY <1>1, <2>4, <3>1, <4>1, <4>2, PartOfJoined
    <3>3. \A j \in 1..Len(line) : j \in 1..Len(t) \/ j = Len(t) + 1
      BY <1>3, <3>2
    <3>4. \A j \in 1..Len(t) : j \in 1..Len(line)
      BY <1>3, <3>2
    <3>. QED  BY <2>2, <3>2, <3>3, <3>4, CharsAre
  <2>. QED  BY <1>1, <2>3, <2>4
<1>5. CASE e.key # <<>>
  <2>1. p < q
    BY <1>3, <1>5
  <2>2. /\ KeyOf(t) = e.key /\ KeyFrom(t) = p + 1 /\ KeyTo(t) = q + 1
        /\ p + 1 <= Len(t)
        /\ q < Len(t) /\ (val # <<>> => val[1] \notin Separators) => ValueOf(t) = val
    <3>. HIDE DEF t
    <3>. QED  BY <1>1, <1>2, <2>1, KeyIsFound
  <2>3. q < Len(t)
    <3>1. ~(KeyFrom(t) <= Len(t) /\ KeyTo(t) > Len(t))
      BY DEF EndsParse
    <3>. HIDE DEF t
    <3>. QED  BY <1>3, <2>2, <3>1
  <2>4. Storable(e.value) => ValueOf(t) = e.value
    <3>. HIDE DEF t
    <3>. QED  BY <1>2, <2>2, <2>3, CharsAre DEF Storable, Separators
  <2>5. ~IsBlank(line)
    <3>1. p + 1 \in (p + 1)..q /\ p + 1 \in 1..Len(t)
      BY <2>1, <2>2
    <3>. HIDE DEF t, line
    <3>. QED  BY <1>3, <1>4, <3>1, CharsAre
  <2>6. y.table = Put(x.table, e.key, ValueOf(t)) /\ ~y.ended
    <3>. HIDE DEF t
    <3>. QED  BY <2>2, <2>5 DEF ParseStep, ParseLine, ReadState, line, t
  <2>. HIDE DEF t
  <2>. QED  BY <2>4, <2>6 DEF Put, SameAt
<1>6. CASE e.key = <<>>
  <2>1. (\A j \in 1..Len(t) : t[j] \in Blanks) \/ KeyOf(t) = <<>>
    <3>. HIDE DEF t
    <3>. QED  BY <1>1, <1>2, <1>3, <1>6, NoKeyIsFound
  <2>2. <<>> \notin Keys
    BY KeysAssumption
  <2>3. CASE IsBlank(line)
    <3>1. y = x
      BY <2>3 DEF ParseStep
    <3>. QED  BY <1>6, <2>2, <3>1 DEF SameAt
  <2>4. CASE ~IsBlank(line)
    <3>1. KeyOf(t) = <<>>
      BY <1>4, <2>1, <2>4
    <3>2. y.table = Put(x.table, <<>>, ValueOf(t)) /\ ~y.ended
      <4>. HIDE DEF t
      <4>. QED  BY <2>4, <3>1 DEF ParseStep, ParseLine, ReadState, line, t
    <3>. QED  BY <1>6, <2>2, <3>2 DEF Put, SameAt
  <2>. QED  BY <2>3, <2>4
<1>. QED  BY <1>5, <1>6

-------------------------------------------------------------------------------
(* What the administrator wrote is what parseFile reads.                   *)

\* j is the last of the first i entries that has the key k.
LastOf(entries, k, i, j) ==
    /\ j \in 1..i /\ entries[j].key = k
    /\ \A m \in 1..i : entries[m].key = k => m <= j

\* The table of x says of each key what the last of the first i entries says.
Told(entries, i, x) ==
    \A k \in Keys :
        /\ (\A j \in 1..i : entries[j].key # k) => k \notin DOMAIN x.table
        /\ \A j \in 1..i : LastOf(entries, k, i, j) =>
               /\ k \in DOMAIN x.table
               /\ Storable(entries[j].value) => x.table[k] = entries[j].value

\* One more entry.
LEMMA OneMoreIsTold ==
    ASSUME NEW entries, NEW i \in Nat, NEW x \in ReadState, NEW y,
           IsEntry(entries[i + 1]), ~EndsParse(Entry(entries[i + 1])),
           y = ParseStep(x, Entry(entries[i + 1])),
           ~x.ended, Told(entries, i, x)
    PROVE  ~y.ended /\ Told(entries, i + 1, y)
<1>. DEFINE n == i + 1
            e == entries[n]
<1>0. n \in Nat /\ n \in 1..n /\ 1..n = 1..i \cup {n} /\ \A j \in 1..i : j < n
  OBVIOUS
<1>1. /\ ~y.ended
      /\ \A k \in Keys :
            /\ k = e.key => /\ k \in DOMAIN y.table
                            /\ Storable(e.value) => y.table[k] = e.value
            /\ k # e.key => SameAt(k, x, y)
  <2>. HIDE DEF e
  <2>. QED  BY EntryIsRead DEF e
<1>. HIDE DEF n
<1>. SUFFICES ASSUME NEW k \in Keys
              PROVE  /\ (\A j \in 1..n : entries[j].key # k) => k \notin DOMAIN y.table
                     /\ \A j \in 1..n : LastOf(entries, k, n, j) =>
                            /\ k \in DOMAIN y.table
                            /\ Storable(entries[j].value) => y.table[k] = entries[j].value
  BY <1>1 DEF Told, n
<1>2. CASE k = e.key
  <2>1. \A j \in 1..n : LastOf(entries, k, n, j) => j = n
    <3>1. \A j \in 1..n : j <= n /\ (n <= j => j = n)
      BY <1>0
    <3>. QED  BY <1>0, <1>2, <3>1 DEF LastOf
  <2>. QED  BY <1>0, <1>1, <1>2, <2>1
<1>3. CASE k # e.key
  <2>1. SameAt(k, x, y)
    BY <1>1, <1>3
  <2>2. (\A j \in 1..n : entries[j].key # k) => k \notin DOMAIN y.table
    BY <1>0, <2>1 DEF Told, SameAt
  <2>3. ASSUME NEW j \in 1..n, LastOf(entries, k, n, j)
        PROVE  j \in 1..i /\ LastOf(entries, k, i, j)
    BY <1>0, <1>3, <2>3 DEF LastOf
  <2>. QED  BY <2>1, <2>2, <2>3 DEF Told, SameAt
<1>. QED  BY <1>2, <1>3

\* The lines from top + 1 on are not read.
LEMMA AllAreTold ==
    ASSUME NEW entries, NEW n \in Nat, NEW top \in 0..n,
           \A i \in 1..n : IsEntry(entries[i]),
           \A i \in 1..top : ~EndsParse(Entry(entries[i])),
           top < n => EndsParse(Entry(entries[top + 1])),
           NEW f \in [0..n -> ReadState], f[0] = ReadBegin,
           \A i \in 1..n : f[i] = ParseStep(f[i - 1], Entry(entries[i]))
    PROVE  Told(entries, top, f[n])
<1>. DEFINE Good(i) == IF i <= top
                       THEN ~f[i].ended /\ Told(entries, i, f[i])
                       ELSE f[i].ended /\ Told(entries, top, f[i])
            Fine == {i \in Nat : i <= n => Good(i)}
<1>1. 0 \in Fine
  BY DEF ReadBegin, Told
<1>2. ASSUME NEW i \in Nat, i \in Fine PROVE i + 1 \in Fine
  <2>. SUFFICES ASSUME i + 1 <= n PROVE Good(i + 1)
    OBVIOUS
  <2>0. Good(i) /\ i \in 0..n /\ i + 1 \in 1..n /\ (i + 1) - 1 = i /\ top \in Nat
    <3>. HIDE DEF Good
    <3>. QED  BY <1>2
  <2>1. f[i + 1] = ParseStep(f[i], Entry(entries[i + 1])) /\ f[i] \in ReadState
        /\ IsEntry(entries[i + 1])
    BY <2>0
  <2>2. CASE i + 1 <= top
    <3>1. ~f[i].ended /\ Told(entries, i, f[i])
      BY <2>0, <2>2
    <3>2. ~EndsParse(Entry(entries[i + 1]))
      <4>1. i + 1 \in 1..top
        BY <2>2
      <4>. QED  BY <4>1
    <3>3. ~f[i + 1].ended /\ Told(entries, i + 1, f[i + 1])
      BY <2>1, <3>1, <3>2, OneMoreIsTold
    <3>. QED  BY <2>2, <3>3
  <2>3. CASE ~(i + 1 <= top)
    <3>1. Told(entries, top, f[i]) /\ (f[i].ended \/ EndsParse(Entry(entries[i + 1])))
      <4>1. CASE i = top
        BY <2>0, <4>1
      <4>2. CASE i # top
        <5>1. ~(i <= top)
          BY <2>0, <2>3, <4>2
        <5>. QED  BY <2>0, <5>1
      <4>. QED  BY <4>1, <4>2
    <3>2. f[i + 1] = [f[i] EXCEPT !.ended = TRUE]
      BY <2>1, <3>1 DEF ParseStep
    <3>3. f[i + 1].ended /\ f[i + 1].table = f[i].table
      BY <2>1, <3>2 DEF ReadState
    <3>. QED  BY <2>3, <3>1, <3>3 DEF Told
  <2>. QED  BY <2>2, <2>3
<1>3. Nat \subseteq Fine
  <2>. HIDE DEF Fine
  <2>. QED  BY <1>1, <1>2, Induction
<1>4. Good(n)
  <2>. HIDE DEF Good
  <2>. QED  BY <1>3
<1>. QED
  <2>1. n <= top => n = top
    OBVIOUS
  <2>. QED  BY <1>4, <2>1

LEMMA AuthoredAreEntries ==
    ASSUME NEW entries \in Authored
    PROVE  /\ Len(entries) \in Nat /\ DOMAIN entries = 1..Len(entries)
           /\ \A i \in 1..Len(entries) : IsEntry(entries[i])
<1>1. entries \in Seq(WrittenEntries)
  BY AuthoredAssumption DEF WrittenEntries, Separators
<1>2. Len(entries) \in Nat /\ DOMAIN entries = 1..Len(entries)
      /\ \A i \in 1..Len(entries) : entries[i] \in WrittenEntries
  BY <1>1, LenProperties, ElementOfSeq
<1>3. ASSUME NEW i \in 1..Len(entries) PROVE IsEntry(entries[i])
  <2>. DEFINE e == entries[i]
  <2>1. /\ e.sep = <<>> => e.value = <<>>
        /\ e.key = <<>> => "=" \in ToSet(e.sep) \/ e.value = <<>>
    BY <1>2, AuthoredAssumption
  <2>2. DOMAIN e.sep = 1..Len(e.sep)
    <3>1. e.sep \in Seq(Separators)
      BY <1>2 DEF WrittenEntries
    <3>. QED  BY <3>1, LenProperties
  <2>3. "=" \in ToSet(e.sep) => \E j \in 1..Len(e.sep) : e.sep[j] = "="
    BY <2>2 DEF ToSet
  <2>. QED  BY <1>2, <2>1, <2>3 DEF IsEntry
<1>. QED  BY <1>2, <1>3

\* What the file says of the keys, as far as it fits: what is meant, if that can
\* be stored; and a key it does not have is meant to be empty, or not yet there.
Says(table, wanted, done) ==
    \A k \in Keys : Storable(wanted[k]) =>
        /\ k \in DOMAIN table => table[k] = wanted[k]
        /\ k \notin DOMAIN table => wanted[k] = <<>> \/ ~done

LEMMA AuthoredIsRead ==
    ASSUME NEW entries \in Authored, NEW lines,
           lines = [i \in DOMAIN entries |-> Entry(entries[i])]
    PROVE  /\ lines \in Seq(Texts)
           /\ MeantBy(entries) \in [Keys -> Texts]
           /\ Says(Reads(lines).table, MeantBy(entries), TRUE)
<1>. DEFINE n == Len(entries)
            bad == {i \in DOMAIN entries : EndsParse(Entry(entries[i]))}
            top == IF bad = {} THEN n ELSE Min(bad) - 1
            Of(k) == {i \in 1..top : entries[i].key = k}
            wanted == MeantBy(entries)
<1>1. /\ n \in Nat /\ DOMAIN entries = 1..n
      /\ \A i \in 1..n : IsEntry(entries[i])
  BY AuthoredAreEntries
<1>. HIDE DEF n
<1>2. /\ top \in 0..n
      /\ \A i \in 1..top : ~EndsParse(Entry(entries[i]))
      /\ top < n => EndsParse(Entry(entries[top + 1]))
      /\ (IF bad = {} THEN DOMAIN entries ELSE 1..(Min(bad) - 1)) = 1..top
  <2>1. CASE bad = {}
    <3>1. top = n
      BY <2>1
    <3>. QED  BY <1>1, <2>1, <3>1
  <2>2. CASE bad # {}
    <3>1. PICK m : m = Min(bad)
      OBVIOUS
    <3>2. bad \in SUBSET Nat
      BY <1>1
    <3>3. m \in bad /\ \A i \in bad : m <= i
      <4>. HIDE DEF bad
      <4>. QED  BY <2>2, <3>1, <3>2, LeastOfSet
    <3>4. m \in 1..n /\ EndsParse(Entry(entries[m]))
      BY <1>1, <3>3
    <3>5. \A i \in 1..(m - 1) : i \in 1..n /\ ~(m <= i)
      BY <1>1, <3>4
    <3>6. \A i \in 1..(m - 1) : ~EndsParse(Entry(entries[i]))
      BY <1>1, <3>3, <3>5
    <3>7. top = m - 1 /\ m - 1 \in 0..n /\ (m - 1) + 1 = m
      BY <1>1, <2>2, <3>1, <3>4
    <3>. QED  BY <2>2, <3>1, <3>4, <3>6, <3>7
  <2>. QED  BY <2>1, <2>2
<1>3. wanted = [k \in Keys |-> IF Of(k) = {} THEN <<>> ELSE entries[Max(Of(k))].value]
  BY <1>2 DEF MeantBy
<1>. HIDE DEF top, bad, wanted
<1>4. lines \in Seq(Texts) /\ Len(lines) = n /\ \A i \in 1..n : lines[i] = Entry(entries[i])
  <2>1. \A i \in 1..n : Entry(entries[i]) \in Texts
    BY <1>1, EntryText
  <2>2. lines = [i \in 1..n |-> Entry(entries[i])]
    BY <1>1
  <2>. QED  BY <1>1, <2>1, <2>2
<1>5. PICK f \in [0..n -> ReadState] :
          /\ f[0] = ReadBegin
          /\ \A i \in 1..n : f[i] = ParseStep(f[i - 1], Entry(entries[i]))
          /\ Reads(lines) = f[n]
  BY <1>4, ReadSteps
<1>6. Told(entries, top, f[n])
  BY <1>1, <1>2, <1>5, AllAreTold
<1>7. ASSUME NEW k \in Keys, Of(k) # {}
      PROVE  /\ Max(Of(k)) \in 1..top /\ Max(Of(k)) \in 1..n
             /\ LastOf(entries, k, top, Max(Of(k)))
             /\ entries[Max(Of(k))].value \in Texts
  <2>1. top \in Nat /\ top <= n /\ Of(k) \in SUBSET (1..top)
    BY <1>1, <1>2
  <2>2. Max(Of(k)) \in Of(k) /\ \A i \in Of(k) : i <= Max(Of(k))
    <3>. HIDE DEF Of
    <3>. QED  BY <1>7, <2>1, MaxOfSet
  <2>3. PICK m : m = Max(Of(k))
    OBVIOUS
  <2>4. m \in 1..top /\ m \in 1..n /\ LastOf(entries, k, top, m)
    BY <1>1, <2>1, <2>2, <2>3 DEF LastOf
  <2>5. entries[m].value \in Texts
    BY <1>1, <2>4 DEF IsEntry, WrittenEntries, Texts
  <2>. QED  BY <2>3, <2>4, <2>5
<1>8. <<>> \in Texts
  BY EmptySeq DEF Texts
<1>9. wanted \in [Keys -> Texts]
  BY <1>3, <1>7, <1>8
<1>10. ASSUME NEW k \in Keys, Storable(wanted[k])
       PROVE  /\ k \in DOMAIN f[n].table => f[n].table[k] = wanted[k]
              /\ k \notin DOMAIN f[n].table => wanted[k] = <<>>
  <2>1. CASE Of(k) = {}
    <3>1. k \notin DOMAIN f[n].table
      BY <1>6, <2>1 DEF Told
    <3>. QED  BY <1>3, <2>1, <3>1
  <2>2. CASE Of(k) # {}
    <3>1. wanted[k] = entries[Max(Of(k))].value
      BY <1>3, <2>2
    <3>2. k \in DOMAIN f[n].table /\ f[n].table[k] = wanted[k]
      BY <1>6, <1>7, <1>10, <2>2, <3>1 DEF Told
    <3>. QED  BY <3>2
  <2>. QED  BY <2>1, <2>2
<1>. QED  BY <1>4, <1>5, <1>9, <1>10 DEF Says, wanted

-------------------------------------------------------------------------------
(* What saveFile writes is an entry, and the reading goes on behind it.    *)

\* The line of a key and its value.
LineOf(k, v) == k \o <<Blank, "=", Blank>> \o v

LEMMA SavedIsRead ==
    ASSUME NEW k \in CleanTexts, NEW v \in Texts, Len(LineOf(k, v)) < LineSize,
           NEW x \in ReadState, ~x.ended, NEW y, y = ParseStep(x, LineOf(k, v))
    PROVE  /\ ~y.ended
           /\ \A a \in Keys :
                 /\ a = k => /\ a \in DOMAIN y.table
                             /\ Storable(v) => y.table[a] = v
                 /\ a # k => SameAt(a, x, y)
<1>. DEFINE sep == <<Blank, "=", Blank>>
            e == [before |-> <<>>, key |-> k, sep |-> sep, value |-> v, after |-> <<>>]
            line == LineOf(k, v)
            t == WithoutCR(line)
<1>0. k \in Texts /\ Len(k) \in Nat /\ Len(v) \in Nat
  BY LenProperties DEF CleanTexts, Texts
<1>1. sep \in Seq(Separators) /\ Len(sep) = 3 /\ sep[2] = "="
  <2>1. Blank \in Separators /\ "=" \in Separators
    BY CharsAre
  <2>. QED  BY <2>1
<1>2. sep \in Texts
  BY <1>1, CharsAre, SeqMonotonic DEF Texts
<1>. HIDE DEF sep
<1>3. k \o sep \in Texts /\ Len(k \o sep) = Len(k) + 3
      /\ (k \o sep)[Len(k) + 2] = "="
  <2>1. 2 \in 1..Len(sep)
    BY <1>1
  <2>2. \A j \in 1..Len(sep) : (k \o sep)[Len(k) + j] = sep[j]
    BY <1>0, <1>2, PartOfJoined
  <2>3. k \o sep \in Texts /\ Len(k \o sep) = Len(k) + Len(sep)
    BY <1>0, <1>2, PartOfJoined
  <2>. QED  BY <1>1, <2>1, <2>2, <2>3
<1>4. /\ line \in Texts /\ Len(line) = Len(k) + 3 + Len(v)
      /\ line[Len(k) + 2] = "="
  <2>. DEFINE ks == k \o sep
  <2>1. line = ks \o v
    BY DEF LineOf, sep
  <2>2. Len(k) + 2 \in 1..Len(ks)
    BY <1>0, <1>3
  <2>. HIDE DEF line, ks
  <2>. QED  BY <1>0, <1>3, <2>1, <2>2, PartOfJoined DEF ks
<1>5. IsEntry(e)
  <2>1. k \in Seq(Chars \ Separators)
    <3>1. \A i \in 1..Len(k) : k[i] \in Chars \ Separators
      BY <1>0, ElementOfSeq DEF CleanTexts, Clean, Texts
    <3>2. k = [i \in 1..Len(k) |-> k[i]]
      BY <1>0, LenProperties DEF Texts
    <3>. QED  BY <1>0, <3>1, <3>2
  <2>2. sep # <<>>
    BY <1>1
  <2>3. \E i \in 1..Len(sep) : sep[i] = "="
    BY <1>1
  <2>4. <<>> \in Seq(Blanks)
    BY EmptySeq
  <2>. QED  BY <1>1, <2>1, <2>2, <2>3, <2>4 DEF IsEntry, WrittenEntries, Texts
<1>6. Entry(e) = line
  <2>1. <<>> \o k = k
    BY <1>0, ConcatEmptySeq DEF Texts
  <2>2. line \o <<>> = line
    <3>. HIDE DEF line
    <3>. QED  BY <1>4, ConcatEmptySeq DEF Texts
  <2>. QED  BY <2>1, <2>2 DEF Entry, LineOf, sep
<1>. HIDE DEF line
<1>7. ~EndsParse(line)
  <2>1. t \in Texts /\ Len(t) >= Len(line) - 1
        /\ \A i \in 1..Len(t) : t[i] = line[i]
    BY <1>4, WithoutCRIsText
  <2>. HIDE DEF t
  <2>2. PICK n \in Nat : n = Len(k) + 2
    BY <1>0
  <2>3. n \in 1..Len(t) /\ t[n] = "=" /\ Len(t) \in Nat
    <3>1. Len(t) \in Nat
      BY <2>1, LenProperties DEF Texts
    <3>2. n \in 1..Len(t)
      BY <1>0, <1>4, <2>1, <2>2, <3>1
    <3>. QED  BY <1>4, <2>1, <2>2, <3>1, <3>2
  <2>4. PICK p \in Nat \ {0} : p = KeyFrom(t) /\ Skips(t, 1, Blanks, p)
    <3>1. 1 <= Len(t) + 1
      BY <2>3
    <3>. QED  BY <2>1, <3>1, SkipStops DEF KeyFrom
  <2>5. p <= n
    BY <2>3, <2>4, CharsAre DEF Skips
  <2>6. PICK q \in Nat \ {0} : q = KeyTo(t) /\ Finds(t, p, Separators, q)
    <3>1. p <= Len(t) + 1
      BY <2>3, <2>5
    <3>. QED  BY <2>1, <2>4, <3>1, FindStops, CharsAre DEF KeyTo, Separators
  <2>7. q <= n
    BY <2>3, <2>5, <2>6, CharsAre DEF Finds
  <2>8. ~(KeyTo(t) > Len(t))
    BY <2>3, <2>6, <2>7
  <2>9. ~(Len(line) >= LineSize)
    <3>1. Len(line) \in Nat
      BY <1>4, LenProperties DEF Texts
    <3>. QED  BY <3>1, LineAssumption DEF line
  <2>. QED  BY <2>8, <2>9 DEF EndsParse, t
<1>8. y = ParseStep(x, Entry(e)) /\ ~EndsParse(Entry(e))
  BY <1>6, <1>7 DEF line
<1>9. e.key = k /\ e.value = v
  OBVIOUS
<1>. HIDE DEF e
<1>. QED  BY <1>5, <1>8, <1>9, EntryIsRead

-------------------------------------------------------------------------------
(* The invariant.                                                          *)

\* The types; and only saveFile has keys before it.
ConfTypes ==
    /\ conf \in Seq(Texts)
    /\ running \in {"stopped", "running", "failed", "saving"}
    /\ running # "stopped" => elems \in Tables
    /\ unsaved \subseteq DOMAIN elems
    /\ running # "saving" => unsaved = {}
    /\ meant \in [Keys -> Texts]
    /\ whole \in BOOLEAN /\ fits \in BOOLEAN

\* The file says what it should.
FileSays == fits => Says(Reads(conf).table, meant, whole)

\* While it is saved, it holds the keys that saveFile has come to and no other,
\* and it can be read to its end.
WhileSaving ==
    running = "saving" =>
        /\ whole => unsaved = {}
        /\ fits => /\ ~Reads(conf).ended
                   /\ \A k \in DOMAIN elems : Len(LineOf(k, elems[k])) < LineSize
                   /\ \A k \in Keys :
                         /\ meant[k] = Setting(elems, k)
                         /\ k \in unsaved <=>
                               k \in DOMAIN elems /\ k \notin DOMAIN Reads(conf).table

ConfInv == ConfTypes /\ FileSays /\ WhileSaving

LEMMA KeysAreClean == Keys \subseteq CleanTexts /\ \A k \in Keys : Default(k) \in Texts
<1>. SUFFICES ASSUME NEW k \in Keys PROVE k \in CleanTexts /\ Default(k) \in Texts
  OBVIOUS
<1>1. k \in Texts /\ \A i \in DOMAIN k : k[i] \notin Separators
  BY KeysAssumption DEF Texts, Separators
<1>2. DOMAIN k = 1..Len(k)
  BY <1>1, LenProperties DEF Texts
<1>. QED  BY <1>1, <1>2, KeysAssumption DEF CleanTexts, Clean, Texts, Separators

LEMMA ReadIsTable == ASSUME ConfTypes PROVE Reads(conf) \in ReadState
<1>1. conf \in Seq(Texts) /\ Len(conf) \in 0..Len(conf)
  BY LenProperties DEF ConfTypes
<1>. QED  BY <1>1, ReadSteps

LEMMA DefaultsAreTable ==
    ASSUME NEW table \in Tables, NEW some \in SUBSET Keys
    PROVE  WithDefaults(table, some) \in Tables
<1>1. PICK D \in SUBSET CleanTexts : table \in [D -> Texts]
  BY DEF Tables
<1>2. WithDefaults(table, some) \in [D \cup some -> Texts]
  BY <1>1, KeysAreClean DEF WithDefaults, Missing
<1>3. D \cup some \in SUBSET CleanTexts
  BY KeysAreClean
<1>. QED  BY <1>2, <1>3 DEF Tables

LEMMA ConfInvInit == ConfInit => ConfInv
<1>. SUFFICES ASSUME ConfInit PROVE ConfInv
  OBVIOUS
<1>. USE DEF ConfInit
<1>1. PICK entries \in Authored :
          /\ conf = [i \in DOMAIN entries |-> Entry(entries[i])]
          /\ meant = MeantBy(entries)
  OBVIOUS
<1>2. /\ conf \in Seq(Texts) /\ meant \in [Keys -> Texts]
      /\ Says(Reads(conf).table, meant, TRUE)
  BY <1>1, AuthoredIsRead
<1>. QED  BY <1>2 DEF ConfInv, ConfTypes, FileSays, WhileSaving

LEMMA StartKeeps == ConfInv /\ (Start \/ StartFails) => ConfInv'
<1>. SUFFICES ASSUME ConfInv, Start \/ StartFails PROVE ConfInv'
  OBVIOUS
<1>0. ConfTypes /\ FileSays
  BY DEF ConfInv
<1>1. ParseFile(conf) = Reads(conf).table
  BY DEF ParseFile, Reads, ReadBegin
<1>2. ParseFile(conf) \in Tables
  BY <1>0, <1>1, ReadIsTable DEF ReadState
<1>3. PICK some \in SUBSET Keys : elems' = WithDefaults(ParseFile(conf), some)
  BY DEF Start, StartFails
<1>4. elems' \in Tables
  BY <1>2, <1>3, DefaultsAreTable
<1>5. /\ running = "stopped" /\ running' \in {"running", "failed"}
      /\ UNCHANGED <<conf, unsaved, meant, whole, fits>>
  BY DEF Start, StartFails
<1>6. ConfTypes'
  BY <1>0, <1>4, <1>5 DEF ConfTypes
<1>7. FileSays'
  BY <1>0, <1>5 DEF FileSays
<1>8. WhileSaving'
  BY <1>5 DEF WhileSaving
<1>. QED  BY <1>6, <1>7, <1>8 DEF ConfInv

LEMMA SetKeeps == ConfInv /\ Set => ConfInv'
<1>. SUFFICES ASSUME ConfInv, Set PROVE ConfInv'
  OBVIOUS
<1>. USE DEF ConfInv, ConfTypes, Set
<1>1. PICK k \in Keys, v \in Values : elems' = Put(elems, k, v)
  OBVIOUS
<1>2. k \in CleanTexts /\ v \in Texts /\ elems \in Tables
  BY KeysAreClean, ValuesAssumption DEF Texts
<1>3. elems' \in Tables /\ DOMAIN elems' = DOMAIN elems \cup {k}
  <2>1. DOMAIN Put(elems, k, v) = DOMAIN elems \cup {k}
    BY DEF Put
  <2>. QED  BY <1>1, <1>2, <2>1, PutIsTable
<1>4. ConfTypes'
  BY <1>3
<1>5. FileSays'
  BY DEF FileSays
<1>6. WhileSaving'
  BY DEF WhileSaving
<1>. QED  BY <1>4, <1>5, <1>6

LEMMA BeginSaveKeeps == ConfInv /\ BeginSave => ConfInv'
<1>. SUFFICES ASSUME ConfInv, BeginSave PROVE ConfInv'
  OBVIOUS
<1>. USE DEF ConfInv, ConfTypes, BeginSave
<1>1. conf' \in Seq(Texts) /\ Reads(conf') = ReadBegin
  BY NothingIsRead, EmptySeq
<1>2. PICK D \in SUBSET CleanTexts : elems \in [D -> Texts]
  BY DEF Tables
<1>3. meant' \in [Keys -> Texts]
  <2>1. <<>> \in Texts
    BY EmptySeq DEF Texts
  <2>. QED  BY <1>2, <2>1 DEF Setting
<1>4. fits' \in BOOLEAN
  <2>1. fits' = (\A k \in DOMAIN elems : Len(Saved(k)) < LineSize)
    OBVIOUS
  <2>. QED  BY <2>1, Zenon
<1>5. ConfTypes'
  <2>1. unsaved' \subseteq DOMAIN elems' /\ running' = "saving" /\ whole' \in BOOLEAN
    OBVIOUS
  <2>2. elems' \in Tables
    OBVIOUS
  <2>. QED  BY <1>1, <1>3, <1>4, <2>1, <2>2 DEF ConfTypes
<1>6. FileSays'
  BY <1>1 DEF FileSays, Says, ReadBegin
<1>7. WhileSaving'
  <2>1. fits' => \A k \in DOMAIN elems' : Len(LineOf(k, elems'[k])) < LineSize
    BY DEF Saved, LineOf
  <2>2. ~Reads(conf').ended /\ \A k \in Keys : k \notin DOMAIN Reads(conf').table
    BY <1>1 DEF ReadBegin
  <2>3. \A k \in Keys : /\ meant'[k] = Setting(elems', k)
                         /\ k \in unsaved' <=> k \in DOMAIN elems'
    OBVIOUS
  <2>4. ~whole'
    OBVIOUS
  <2>. QED  BY <2>1, <2>2, <2>3, <2>4 DEF WhileSaving
<1>. QED  BY <1>5, <1>6, <1>7

LEMMA SaveElemKeeps == ConfInv /\ SaveElem => ConfInv'
<1>. SUFFICES ASSUME ConfInv, SaveElem PROVE ConfInv'
  OBVIOUS
<1>0. ConfTypes /\ FileSays /\ WhileSaving
  BY DEF ConfInv
<1>1. /\ running = "saving" /\ running' = "saving"
      /\ whole' = (unsaved' = {})
      /\ elems' = elems /\ meant' = meant /\ fits' = fits
  BY DEF SaveElem
<1>2. PICK k \in unsaved : conf' = Append(conf, Saved(k)) /\ unsaved' = unsaved \ {k}
  BY DEF SaveElem
<1>3. PICK D \in SUBSET CleanTexts : elems \in [D -> Texts]
  BY <1>0, <1>1 DEF ConfTypes, Tables
<1>4. k \in CleanTexts /\ elems[k] \in Texts /\ k \in DOMAIN elems
  BY <1>0, <1>3 DEF ConfTypes
<1>5. PICK line : line = LineOf(k, elems[k])
  OBVIOUS
<1>6. line \in Texts /\ conf' = Append(conf, line)
  <2>1. <<Blank, "=", Blank>> \in Texts
    <3>1. Blank \in Chars /\ "=" \in Chars
      BY CharsAre
    <3>. QED  BY <3>1 DEF Texts
  <2>2. k \in Texts
    BY <1>4 DEF CleanTexts
  <2>3. k \o <<Blank, "=", Blank>> \in Texts
    BY <2>1, <2>2, ConcatProperties DEF Texts
  <2>4. LineOf(k, elems[k]) \in Texts
    <3>. DEFINE a == k \o <<Blank, "=", Blank>>
    <3>1. a \in Texts
      BY <2>3
    <3>2. LineOf(k, elems[k]) = a \o elems[k]
      BY DEF LineOf
    <3>. HIDE DEF a
    <3>. QED  BY <1>4, <3>1, <3>2, ConcatProperties DEF Texts
  <2>. QED  BY <1>2, <1>5, <2>4 DEF Saved, LineOf
<1>7. PICK x \in ReadState, y \in ReadState :
          /\ x = Reads(conf) /\ y = Reads(conf') /\ y = ParseStep(x, line)
  <2>1. conf \in Seq(Texts)
    BY <1>0 DEF ConfTypes
  <2>2. Reads(conf) \in ReadState /\ Reads(Append(conf, line)) = ParseStep(Reads(conf), line)
    BY <1>6, <2>1, OneMoreIsRead
  <2>. QED  BY <1>6, <2>2, ParseStepType
<1>8. ASSUME fits
      PROVE  /\ ~y.ended
             /\ \A a \in Keys :
                   /\ a = k => /\ a \in DOMAIN y.table
                               /\ Storable(elems[k]) => y.table[a] = elems[k]
                   /\ a # k => SameAt(a, x, y)
  <2>1. ~x.ended /\ Len(LineOf(k, elems[k])) < LineSize
    BY <1>0, <1>1, <1>4, <1>7, <1>8 DEF WhileSaving
  <2>2. y = ParseStep(x, LineOf(k, elems[k]))
    BY <1>5, <1>7
  <2>. QED  BY <1>4, <2>1, <2>2, SavedIsRead
<1>9. ConfTypes'
  <2>1. conf' \in Seq(Texts)
    BY <1>0, <1>6, AppendProperties DEF ConfTypes
  <2>2. whole' \in BOOLEAN
    BY <1>1, Zenon
  <2>3. unsaved' \subseteq DOMAIN elems'
    BY <1>0, <1>1, <1>2 DEF ConfTypes
  <2>. QED  BY <1>0, <1>1, <2>1, <2>2, <2>3 DEF ConfTypes
<1>10. WhileSaving'
  <2>1. whole' => unsaved' = {}
    BY <1>1
  <2>2. ASSUME fits, NEW a \in Keys
        PROVE  /\ meant[a] = Setting(elems, a)
               /\ a \in unsaved' <=> a \in DOMAIN elems /\ a \notin DOMAIN y.table
    <3>1. /\ meant[a] = Setting(elems, a)
          /\ a \in unsaved <=> a \in DOMAIN elems /\ a \notin DOMAIN x.table
      BY <1>0, <1>1, <1>7, <2>2 DEF WhileSaving
    <3>. QED  BY <1>2, <1>8, <2>2, <3>1 DEF SameAt
  <2>3. fits => ~y.ended
    BY <1>8
  <2>4. fits => \A a \in DOMAIN elems : Len(LineOf(a, elems[a])) < LineSize
    BY <1>0, <1>1 DEF WhileSaving
  <2>. QED  BY <1>1, <1>7, <2>1, <2>2, <2>3, <2>4 DEF WhileSaving
<1>11. FileSays'
  <2>1. ASSUME fits, NEW a \in Keys, Storable(meant[a])
        PROVE  /\ a \in DOMAIN y.table => y.table[a] = meant[a]
               /\ a \notin DOMAIN y.table => meant[a] = <<>> \/ ~whole'
    <3>1. /\ meant[a] = Setting(elems, a)
          /\ a \in DOMAIN x.table => x.table[a] = meant[a]
          /\ a \notin DOMAIN x.table => a \in unsaved \/ meant[a] = <<>>
      BY <1>0, <1>1, <1>7, <2>1 DEF FileSays, Says, WhileSaving, Setting
    <3>2. CASE a = k
      <4>1. meant[a] = elems[k]
        BY <1>4, <3>1, <3>2 DEF Setting
      <4>. QED  BY <1>8, <2>1, <3>2, <4>1
    <3>3. CASE a # k
      <4>1. SameAt(a, x, y)
        BY <1>8, <2>1, <3>3
      <4>2. a \notin DOMAIN x.table => meant[a] = <<>> \/ ~whole'
        BY <1>1, <1>2, <3>1, <3>3
      <4>. QED  BY <3>1, <4>1, <4>2 DEF SameAt
    <3>. QED  BY <3>2, <3>3
  <2>. QED  BY <1>1, <1>7, <2>1 DEF FileSays, Says
<1>. QED  BY <1>9, <1>10, <1>11 DEF ConfInv

LEMMA SaveEndKeeps == ConfInv /\ SaveEnd => ConfInv'
<1>. SUFFICES ASSUME ConfInv, SaveEnd PROVE ConfInv'
  OBVIOUS
<1>0. ConfTypes /\ FileSays
  BY DEF ConfInv
<1>1. /\ running' = "stopped" /\ unsaved = {} /\ unsaved' = unsaved /\ elems' = <<>>
      /\ meant' = meant /\ whole' = whole /\ fits' = fits
  BY DEF SaveEnd
<1>2. PICK line \in Rubbish : conf' = Append(conf, line)
  BY DEF SaveEnd
<1>3. /\ line \in Texts
      /\ EndsParse(line) \/ IsBlank(line) \/ KeyOf(WithoutCR(line)) \notin Keys
  BY RubbishAssumption DEF Texts
<1>4. PICK x \in ReadState, y \in ReadState :
          /\ x = Reads(conf) /\ y = Reads(conf') /\ y = ParseStep(x, line)
  <2>1. conf \in Seq(Texts)
    BY <1>0 DEF ConfTypes
  <2>2. Reads(conf) \in ReadState /\ Reads(Append(conf, line)) = ParseStep(Reads(conf), line)
    BY <1>3, <2>1, OneMoreIsRead
  <2>. QED  BY <1>2, <1>3, <2>2, ParseStepType
<1>5. ASSUME NEW k \in Keys PROVE SameAt(k, x, y)
  <2>1. CASE x.ended \/ EndsParse(line)
    BY <1>4, <2>1 DEF ParseStep, SameAt, ReadState
  <2>2. CASE ~(x.ended \/ EndsParse(line)) /\ IsBlank(line)
    BY <1>4, <2>2 DEF ParseStep, SameAt
  <2>3. CASE ~(x.ended \/ EndsParse(line)) /\ ~IsBlank(line)
    <3>1. y.table = Put(x.table, KeyOf(WithoutCR(line)), ValueOf(WithoutCR(line)))
      BY <1>4, <2>3 DEF ParseStep, ParseLine, ReadState
    <3>. QED  BY <1>3, <2>3, <3>1 DEF Put, SameAt
  <2>. QED  BY <2>1, <2>2, <2>3
<1>6. ConfTypes'
  <2>1. conf' \in Seq(Texts)
    BY <1>0, <1>2, <1>3, AppendProperties DEF ConfTypes
  <2>. QED  BY <1>0, <1>1, <2>1 DEF ConfTypes
<1>7. FileSays'
  BY <1>0, <1>1, <1>4, <1>5 DEF FileSays, Says, SameAt
<1>8. WhileSaving'
  BY <1>1 DEF WhileSaving
<1>. QED  BY <1>6, <1>7, <1>8 DEF ConfInv

LEMMA KilledKeeps == ConfInv /\ Killed => ConfInv'
BY DEF ConfInv, ConfTypes, FileSays, WhileSaving, Killed

LEMMA IdleKeeps == ConfInv /\ UNCHANGED confVars => ConfInv'
BY DEF ConfInv, ConfTypes, FileSays, WhileSaving, confVars

\* The types, what the file says, and how far saveFile has come.
THEOREM ConfAlways == ConfSpec => []ConfInv
<1>1. ConfInv /\ [ConfNext]_confVars => ConfInv'
  BY StartKeeps, SetKeeps, BeginSaveKeeps, SaveElemKeeps, SaveEndKeeps, KilledKeeps,
     IdleKeeps DEF ConfNext
<1>. QED  BY ConfInvInit, <1>1, PTL DEF ConfSpec

LEMMA StartReadsAll ==
    ASSUME ConfInv, ConfNext, running = "stopped", running' = "running"
    PROVE  \A k \in Keys : \/ elems'[k] = Effective(k)
                           \/ ~whole /\ elems'[k] = Default(k)
                           \/ ~fits
                           \/ ~Storable(meant[k])
<1>1. Start
  BY DEF ConfNext, StartFails, Set, BeginSave, SaveElem, SaveEnd, Killed
<1>2. ParseFile(conf) = Reads(conf).table
  BY DEF ParseFile, Reads, ReadBegin
<1>3. PICK table : table = Reads(conf).table /\ elems' = WithDefaults(table, Keys)
  BY <1>1, <1>2 DEF Start
<1>4. ASSUME NEW k \in Keys, fits, Storable(meant[k])
      PROVE  elems'[k] = Effective(k) \/ (~whole /\ elems'[k] = Default(k))
  <2>1. /\ k \in DOMAIN table => table[k] = meant[k]
        /\ k \notin DOMAIN table => meant[k] = <<>> \/ ~whole
    BY <1>3, <1>4 DEF ConfInv, FileSays, Says
  <2>2. elems'[k] = IF Missing(table, k) THEN Default(k) ELSE table[k]
    BY <1>3, <1>4 DEF WithDefaults
  <2>3. Effective(k) = IF meant[k] = <<>> THEN Default(k) ELSE meant[k]
    BY DEF Effective
  <2>4. CASE k \notin DOMAIN table
    <3>1. elems'[k] = Default(k)
      BY <2>2, <2>4 DEF Missing
    <3>. QED  BY <2>1, <2>3, <2>4, <3>1
  <2>5. CASE k \in DOMAIN table
    <3>1. elems'[k] = IF table[k] = <<>> THEN Default(k) ELSE table[k]
      BY <2>2, <2>5 DEF Missing
    <3>2. table[k] = meant[k]
      BY <2>1, <2>5
    <3>. QED  BY <2>3, <3>1, <3>2
  <2>. QED  BY <2>4, <2>5
<1>. QED  BY <1>4

\* What was written by hand or saved is in force after the next start of the
\* program; parseFile, saveFile, main.
THEOREM SettingsAlwaysSurvive == ConfSpec => SettingsSurvive
<1>1. ConfInv /\ [ConfNext]_confVars =>
          [(running = "stopped" /\ running' = "running") =>
              \A k \in Keys :
                  \/ elems'[k] = Effective(k)
                  \/ ~whole /\ elems'[k] = Default(k)
                  \/ ~fits
                  \/ ~Storable(meant[k])]_confVars
  BY StartReadsAll
<1>. QED  BY ConfAlways, <1>1, PTL DEF ConfSpec, SettingsSurvive

===============================================================================
