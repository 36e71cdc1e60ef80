------------------------------ MODULE EndianProofs ------------------------------
(***************************************************************************)
(* The negotiation of Endian.tla: that the two ends agree, and that the    *)
(* numbers they send afterwards arrive, for every set of numbers.          *)
(*                                                                         *)
(* The inductive invariant says what is on the wire: before the server has *)
(* answered, at most the question; then the answer that is due, in front of *)
(* the numbers, each of them at its place in the stream (Stream).          *)
(***************************************************************************)
EXTENDS Endian, SequenceTheorems, TLAPS

Byte == Octets \cup WordBytes

EndianTypeOK ==
    /\ big \in [Ends -> BOOLEAN]
    /\ result \in [Ends -> {"none", "waits", "true", "false"}]
    /\ swap \in [Ends -> BOOLEAN]
    /\ wire \in [Ends -> Seq(Byte)]
    /\ broken \in BOOLEAN
    /\ split \in BOOLEAN
    /\ out \in [Ends -> Seq(Numbers)]
    /\ got \in [Ends -> Seq(Seq(Byte))]

Question == Memory("client", Magic)
AnswerDue == IF ~big["client"] /\ big["server"] THEN Swap ELSE Keep
ServerSwapsDue == big["client"] /\ ~big["server"]

Code(e, number) == Swapped(e, Memory(e, number))

\* Behind its first h bytes w holds codes[last + 1], .. codes[all], one after the
\* other: the k-th ends at pos[k].
Laid(pos, w, codes, last, all, h) ==
    /\ pos \in [last..all -> h..Len(w)]
    /\ pos[last] = h
    /\ pos[all] = Len(w)
    /\ \A j, k \in last..all : j <= k => pos[j] <= pos[k]
    /\ \A k \in (last + 1)..all :
          /\ pos[k] = pos[k - 1] + Len(codes[k])
          /\ \A i \in 1..Len(codes[k]) : w[pos[k - 1] + i] = codes[k][i]

\* What is sent to an end.
Codes(e) == [k \in DOMAIN out[Peer(e)] |-> Code(Peer(e), out[Peer(e)][k])]

\* Behind its first h bytes the wire to e holds the numbers after the first last.
Stream(e, last, h) ==
    \E pos \in [last..Len(out[Peer(e)]) -> h..Len(wire[e])] :
        Laid(pos, wire[e], Codes(e), last, Len(out[Peer(e)]), h)

Asked ==
    result["server"] = "waits" =>
        /\ wire["server"] \in {<<>>, Question}
        /\ result["client"] = "none" => wire["server"] = <<>>

Unanswered == result["server"] # "true" => wire["client"] = <<>>

Answered ==
    result["server"] = "true" /\ result["client"] \in {"none", "waits"} =>
        \/ broken /\ wire["client"] = <<>>
        \/ /\ result["client"] = "waits"
           /\ swap["server"] = ServerSwapsDue
           /\ Len(wire["client"]) >= 4
           /\ SubSeq(wire["client"], 1, 4) = AnswerDue
           /\ ~split => Stream("client", 0, 4)

Agreed ==
    result["client"] = "true" =>
        /\ result["server"] = "true"
        /\ swap["server"] = ServerSwapsDue
        /\ swap["client"] = (AnswerDue = Swap)
        /\ ~split => \A e \in Ends : Stream(e, Len(got[e]), 0)

\* An end that has not been told to go on has neither sent nor got a number.
Silent ==
    /\ result["client"] # "true" =>
          got["client"] = <<>> /\ got["server"] = <<>> /\ out["client"] = <<>>
    /\ result["server"] # "true" => got["server"] = <<>> /\ out["server"] = <<>>
    /\ ~split /\ result["server"] = "true" /\ result["client"] # "true" =>
          wire["server"] = <<>>

EndianInv ==
    /\ EndianTypeOK
    /\ Asked
    /\ Unanswered
    /\ Answered
    /\ Agreed
    /\ Silent
    /\ NumbersSurvive

-------------------------------------------------------------------------------
(* Words.                                                                  *)

LEMMA TheEnds == Peer("client") = "server" /\ Peer("server") = "client"
BY DEF Peer, Ends

\* What Reverse does, in the terms of the provers.
LEMMA Reversed ==
    ASSUME NEW S, NEW s \in Seq(S)
    PROVE  /\ Reverse(s) \in Seq(S)
           /\ Len(Reverse(s)) = Len(s)
           /\ \A i \in 1..Len(s) : Reverse(s)[i] = s[Len(s) - i + 1]
<1>1. Len(s) \in Nat /\ \A i \in 1..Len(s) : s[i] \in S
  BY LenProperties, ElementOfSeq
<1>2. Reverse(s) \in [1..Len(s) -> S]
  BY <1>1 DEF Reverse
<1>. QED  BY <1>1, <1>2 DEF Reverse

LEMMA ReversedTwice == ASSUME NEW S, NEW s \in Seq(S) PROVE Reverse(Reverse(s)) = s
<1>1. /\ Reverse(Reverse(s)) \in Seq(S) /\ Len(Reverse(Reverse(s))) = Len(s)
      /\ \A i \in 1..Len(s) : Reverse(Reverse(s))[i] = Reverse(s)[Len(s) - i + 1]
      /\ \A i \in 1..Len(s) : Reverse(s)[i] = s[Len(s) - i + 1]
  BY Reversed
<1>2. Len(s) \in Nat
  BY LenProperties
<1>3. \A i \in 1..Len(s) : Reverse(Reverse(s))[i] = s[i]
  <2>. TAKE i \in 1..Len(s)
  <2>1. Len(s) - i + 1 \in 1..Len(s) /\ Len(s) - (Len(s) - i + 1) + 1 = i
    BY <1>2
  <2>. QED  BY <1>1, <2>1
<1>. QED  BY <1>1, <1>3, SeqEqual

\* Words of four bytes, given by their bytes.
LEMMA FourBytes ==
    ASSUME NEW s \in Seq(Byte), Len(s) = 4, NEW a, NEW b, NEW c, NEW d
    PROVE  s = <<a, b, c, d>> <=> s[1] = a /\ s[2] = b /\ s[3] = c /\ s[4] = d
<1>1. s \in [1..4 -> Byte]
  BY LenProperties
<1>. QED  BY <1>1

LEMMA ReversedWord ==
    ASSUME NEW s \in Seq(Byte), Len(s) = 4
    PROVE  Reverse(s) = <<s[4], s[3], s[2], s[1]>>
<1>1. /\ Reverse(s) \in Seq(Byte) /\ Len(Reverse(s)) = Len(s)
      /\ \A i \in 1..Len(s) : Reverse(s)[i] = s[Len(s) - i + 1]
  BY Reversed
<1>2. /\ Reverse(s)[1] = s[4] /\ Reverse(s)[2] = s[3]
      /\ Reverse(s)[3] = s[2] /\ Reverse(s)[4] = s[1]
  BY <1>1
<1>. QED  BY <1>1, <1>2, FourBytes

LEMMA TheWords ==
    /\ Magic \in Seq(Byte) /\ Len(Magic) = 4
    /\ Swap \in Seq(Byte) /\ Len(Swap) = 4
    /\ Keep \in Seq(Byte) /\ Len(Keep) = 4
    /\ Reverse(Magic) = <<"ef", "be", "ad", "de">>
    /\ Reverse(Swap) = Swap
    /\ Reverse(Keep) = Keep
<1>1. Magic \in Seq(Byte) /\ Swap \in Seq(Byte) /\ Keep \in Seq(Byte)
  BY DEF Magic, Swap, Keep, Byte, WordBytes
<1>2. Len(Magic) = 4 /\ Len(Swap) = 4 /\ Len(Keep) = 4
  BY DEF Magic, Swap, Keep
<1>3. Reverse(Magic) = <<"ef", "be", "ad", "de">>
  <2>1. Reverse(Magic) = <<Magic[4], Magic[3], Magic[2], Magic[1]>>
    BY <1>1, <1>2, ReversedWord
  <2>. QED  BY <2>1 DEF Magic
<1>4. Reverse(Swap) = Swap
  <2>1. Reverse(Swap) = <<Swap[4], Swap[3], Swap[2], Swap[1]>>
    BY <1>1, <1>2, ReversedWord
  <2>. QED  BY <2>1 DEF Swap
<1>5. Reverse(Keep) = Keep
  <2>1. Reverse(Keep) = <<Keep[4], Keep[3], Keep[2], Keep[1]>>
    BY <1>1, <1>2, ReversedWord
  <2>. QED  BY <2>1 DEF Keep
<1>. QED  BY <1>1, <1>2, <1>3, <1>4, <1>5

\* Four bytes from the wire and from what was in memory before.
LEMMA RawWord ==
    ASSUME NEW w \in Seq(Byte), NEW before \in [1..4 -> Byte],
           NEW n \in 0..4, n <= Len(w)
    PROVE  LET raw == SubSeq(w, 1, n) \o SubSeq(before, n + 1, 4)
           IN  /\ raw \in Seq(Byte)
               /\ Len(raw) = 4
               /\ \A i \in 1..4 : raw[i] = IF i <= n THEN w[i] ELSE before[i]
<1>. DEFINE front == SubSeq(w, 1, n)
            back == SubSeq(before, n + 1, 4)
<1>1. Len(w) \in Nat /\ \A i \in 1..Len(w) : w[i] \in Byte
  BY LenProperties, ElementOfSeq
<1>2. /\ front \in Seq(Byte) /\ Len(front) = n
      /\ \A i \in 1..n : front[i] = w[i]
  <2>1. \A i \in 1..n : w[i] \in Byte
    BY <1>1
  <2>. QED  BY <2>1, SubSeqProperties, SMT
<1>3. /\ back \in Seq(Byte) /\ Len(back) = 4 - n
      /\ \A i \in 1..(4 - n) : back[i] = before[n + i]
  <2>1. \A i \in (n + 1)..4 : before[i] \in Byte
    OBVIOUS
  <2>2. /\ back \in Seq(Byte) /\ Len(back) = IF n + 1 <= 4 THEN 4 - (n + 1) + 1 ELSE 0
        /\ \A i \in 1..(4 - (n + 1) + 1) : back[i] = before[n + 1 + i - 1]
    BY <2>1, SubSeqProperties
  <2>3. Len(back) = 4 - n
    BY <2>2
  <2>4. ASSUME NEW i \in 1..(4 - n) PROVE back[i] = before[n + i]
    <3>1. i \in 1..(4 - (n + 1) + 1) /\ n + 1 + i - 1 = n + i
      OBVIOUS
    <3>. QED  BY <2>2, <3>1
  <2>. QED  BY <2>2, <2>3, <2>4
<1>. HIDE DEF front, back
<1>4. /\ front \o back \in Seq(Byte) /\ Len(front \o back) = 4
      /\ \A i \in 1..4 : (front \o back)[i] = IF i <= n THEN front[i] ELSE back[i - n]
  BY <1>2, <1>3, ConcatProperties
<1>5. \A i \in 1..4 : (front \o back)[i] = IF i <= n THEN w[i] ELSE before[i]
  BY <1>2, <1>3, <1>4
<1>. QED  BY <1>4, <1>5 DEF front, back

LEMMA MemoryOfWord ==
    ASSUME big \in [Ends -> BOOLEAN], NEW e \in Ends, NEW s \in Seq(Byte)
    PROVE  /\ Memory(e, s) \in Seq(Byte)
           /\ Len(Memory(e, s)) = Len(s)
           /\ Memory(e, Memory(e, s)) = s
BY Reversed, ReversedTwice DEF Memory

\* Whatever was in memory before, the server takes nothing else for the question
\* than the question; its answer and what it does itself are then what is due.
LEMMA QuestionUnderstood ==
    ASSUME EndianTypeOK, wire["server"] = Question,
           NEW n \in 1..4, NEW before \in [1..4 -> WordBytes],
           Word("server", n, before) \in {Magic, Reverse(Magic)}
    PROVE  /\ Answer(Word("server", n, before)) = AnswerDue
           /\ ServerSwaps(Word("server", n, before)) = ServerSwapsDue
<1>. DEFINE raw == SubSeq(wire["server"], 1, n) \o SubSeq(before, n + 1, 4)
            word == Word("server", n, before)
<1>1. Question \in Seq(Byte) /\ Len(Question) = 4
      /\ Question[1] = IF big["client"] THEN "de" ELSE "ef"
  <2>1. Question = IF big["client"] THEN Magic ELSE <<"ef", "be", "ad", "de">>
    BY TheWords DEF Question, Memory
  <2>2. Question \in Seq(Byte) /\ Len(Question) = 4
    BY TheWords, MemoryOfWord DEF Question, Ends, EndianTypeOK
  <2>. QED  BY <2>1, <2>2 DEF Magic
<1>2. before \in [1..4 -> Byte]
  BY DEF Byte
<1>3. raw \in Seq(Byte) /\ Len(raw) = 4 /\ raw[1] = Question[1]
  BY <1>1, <1>2, RawWord
<1>4. word = Memory("server", raw)
  BY DEF Word
<1>5. raw = Memory("server", word)
  BY <1>3, <1>4, MemoryOfWord DEF Ends, EndianTypeOK
<1>6. raw \in {Magic, <<"ef", "be", "ad", "de">>}
  BY <1>5, TheWords, ReversedTwice DEF Memory
<1>7. raw = Question
  <2>1. Magic[1] = "de" /\ <<"ef", "be", "ad", "de">>[1] = "ef"
    BY DEF Magic
  <2>2. Question \in {Magic, <<"ef", "be", "ad", "de">>}
    BY TheWords DEF Question, Memory
  <2>3. raw[1] = Question[1]
    BY <1>3
  <2>. HIDE DEF raw
  <2>. QED  BY <1>6, <2>1, <2>2, <2>3
<1>8. Magic # <<"ef", "be", "ad", "de">> /\ Swap # Keep
  BY DEF Magic, Swap, Keep
<1>9. (word = Magic) = (big["client"] = big["server"])
  BY <1>4, <1>7, <1>8, TheWords, ReversedTwice DEF Question, Memory, EndianTypeOK, Ends
<1>10. big["client"] \in BOOLEAN /\ big["server"] \in BOOLEAN
  BY DEF EndianTypeOK, Ends
<1>. QED  BY <1>9, <1>10 DEF Answer, ServerSwaps, AnswerDue, ServerSwapsDue

\* Nor does the client take anything else for an answer than an answer that has
\* come as a whole.
LEMMA AnswerUnderstood ==
    ASSUME EndianTypeOK, NEW n \in 0..4, n <= Len(wire["client"]),
           Word("client", n, Memory("client", Magic)) \in {Swap, Keep}
    PROVE  /\ n = 4
           /\ SubSeq(wire["client"], 1, 4) = Word("client", n, Memory("client", Magic))
<1>. DEFINE before == Memory("client", Magic)
            raw == SubSeq(wire["client"], 1, n) \o SubSeq(before, n + 1, 4)
            word == Word("client", n, before)
<1>1. before \in Seq(Byte) /\ Len(before) = 4 /\ wire["client"] \in Seq(Byte)
  BY TheWords, MemoryOfWord DEF Ends, EndianTypeOK
<1>2. before \in [1..4 -> Byte]
  BY <1>1, LenProperties
<1>3. before[4] \in {"de", "ef"}
  BY TheWords DEF Memory, Magic
<1>4. /\ raw \in Seq(Byte) /\ Len(raw) = 4
      /\ \A i \in 1..4 : raw[i] = IF i <= n THEN wire["client"][i] ELSE before[i]
  BY <1>1, <1>2, RawWord
<1>5. raw = Memory("client", word)
  BY <1>4, MemoryOfWord DEF Ends, EndianTypeOK, Word
<1>6. raw = word
  BY <1>5, TheWords DEF Memory
<1>7. raw[4] \notin {"de", "ef"}
  BY <1>6 DEF Swap, Keep
<1>8. n = 4
  BY <1>3, <1>4, <1>7
<1>9. \A i \in 1..4 : wire["client"][i] \in Byte
  BY <1>1, <1>8, ElementOfSeq, LenProperties
<1>10. /\ SubSeq(wire["client"], 1, 4) \in Seq(Byte)
       /\ Len(SubSeq(wire["client"], 1, 4)) = 4
       /\ \A i \in 1..4 : SubSeq(wire["client"], 1, 4)[i] = wire["client"][i]
  BY <1>9, SubSeqProperties, SMT
<1>11. SubSeq(wire["client"], 1, 4) = raw
  BY <1>4, <1>8, <1>10, SeqEqual
<1>. QED  BY <1>6, <1>8, <1>11

-------------------------------------------------------------------------------
(* Numbers.                                                                *)

LEMMA NumberBytes ==
    ASSUME NEW number \in Numbers
    PROVE  number \in Seq(Byte) /\ Len(number) \in {1, 2, 4}
<1>1. PICK size \in {1, 2, 4} : number \in [1..size -> Octets]
  BY NumbersAssumption
<1>2. number \in [1..size -> Byte]
  BY <1>1 DEF Byte
<1>3. number \in Seq(Byte)
  BY <1>2
<1>. QED  BY <1>1, <1>3, LenProperties

LEMMA CodeBytes ==
    ASSUME EndianTypeOK, NEW e \in Ends, NEW number \in Numbers
    PROVE  Code(e, number) \in Seq(Byte) /\ Len(Code(e, number)) = Len(number)
<1>1. number \in Seq(Byte)
  BY NumberBytes
<1>2. Memory(e, number) \in Seq(Byte) /\ Len(Memory(e, number)) = Len(number)
  BY <1>1, MemoryOfWord DEF EndianTypeOK
<1>. HIDE DEF Memory
<1>. QED  BY <1>2, Reversed DEF Code, Swapped

\* One byte has no order.
LEMMA OneByte == ASSUME NEW s \in Seq(Byte), Len(s) = 1 PROVE Reverse(s) = s
<1>1. /\ Reverse(s) \in Seq(Byte) /\ Len(Reverse(s)) = Len(s)
      /\ \A i \in 1..Len(s) : Reverse(s)[i] = s[Len(s) - i + 1]
  BY Reversed
<1>2. \A i \in 1..Len(s) : Reverse(s)[i] = s[i]
  BY <1>1
<1>. QED  BY <1>1, <1>2, SeqEqual

\* What the ends have agreed on makes the numbers of the one those of the other.
LEMMA NumberSurvives ==
    ASSUME EndianTypeOK, Agreed, result["client"] = "true",
           NEW e \in Ends, NEW number \in Numbers
    PROVE  Memory(e, Swapped(e, Code(Peer(e), number))) = number
<1>1. number \in Seq(Byte) /\ Len(number) \in {1, 2, 4}
  BY NumberBytes
<1>2. /\ Reverse(number) \in Seq(Byte) /\ Len(Reverse(number)) = Len(number)
      /\ Reverse(Reverse(number)) = number
      /\ Len(number) = 1 => Reverse(number) = number
  BY <1>1, Reversed, ReversedTwice, OneByte
<1>3. Swap # Keep
  BY DEF Swap, Keep
<1>4. /\ swap["server"] = (big["client"] /\ ~big["server"])
      /\ swap["client"] = (~big["client"] /\ big["server"])
  BY <1>3 DEF Agreed, AnswerDue, ServerSwapsDue
<1>5. big["client"] \in BOOLEAN /\ big["server"] \in BOOLEAN
  BY DEF EndianTypeOK, Ends
<1>6. CASE e = "client"
  <2>1. CASE ~big["client"] /\ ~big["server"]
    <3>1. Code("server", number) = Reverse(number)
      BY <1>4, <2>1 DEF Code, Swapped, Memory
    <3>. QED  BY <1>2, <1>4, <1>6, <2>1, <3>1, TheEnds DEF Swapped, Memory
  <2>2. CASE big["client"] /\ big["server"]
    <3>1. Code("server", number) = number
      BY <1>4, <2>2 DEF Code, Swapped, Memory
    <3>. QED  BY <1>4, <1>6, <2>2, <3>1, TheEnds DEF Swapped, Memory
  <2>3. CASE big["client"] /\ ~big["server"]
    <3>1. Code("server", number) = number
      BY <1>1, <1>2, <1>4, <2>3 DEF Code, Swapped, Memory
    <3>. QED  BY <1>4, <1>6, <2>3, <3>1, TheEnds DEF Swapped, Memory
  <2>4. CASE ~big["client"] /\ big["server"]
    <3>1. Code("server", number) = number
      BY <1>4, <2>4 DEF Code, Swapped, Memory
    <3>. QED  BY <1>1, <1>2, <1>4, <1>6, <2>4, <3>1, TheEnds DEF Swapped, Memory
  <2>. QED  BY <1>5, <2>1, <2>2, <2>3, <2>4
<1>7. CASE e = "server"
  <2>1. CASE ~big["client"] /\ ~big["server"]
    <3>1. Code("client", number) = Reverse(number)
      BY <1>4, <2>1 DEF Code, Swapped, Memory
    <3>. QED  BY <1>2, <1>4, <1>7, <2>1, <3>1, TheEnds DEF Swapped, Memory
  <2>2. CASE big["client"] /\ big["server"]
    <3>1. Code("client", number) = number
      BY <1>4, <2>2 DEF Code, Swapped, Memory
    <3>. QED  BY <1>4, <1>7, <2>2, <3>1, TheEnds DEF Swapped, Memory
  <2>3. CASE big["client"] /\ ~big["server"]
    <3>1. Code("client", number) = number
      BY <1>4, <2>3 DEF Code, Swapped, Memory
    <3>. QED  BY <1>1, <1>2, <1>4, <1>7, <2>3, <3>1, TheEnds DEF Swapped, Memory
  <2>4. CASE ~big["client"] /\ big["server"]
    <3>1. Code("client", number) = number
      BY <1>1, <1>2, <1>4, <2>4 DEF Code, Swapped, Memory
    <3>. QED  BY <1>4, <1>7, <2>4, <3>1, TheEnds DEF Swapped, Memory
  <2>. QED  BY <1>5, <2>1, <2>2, <2>3, <2>4
<1>. QED  BY <1>6, <1>7 DEF Ends

-------------------------------------------------------------------------------
(* The stream of numbers to an end.                                        *)

LEMMA Joined ==
    ASSUME NEW S, NEW s \in Seq(S), NEW t \in Seq(S)
    PROVE  /\ s \o t \in Seq(S)
           /\ Len(s \o t) = Len(s) + Len(t)
           /\ \A i \in 1..Len(s) : (s \o t)[i] = s[i]
           /\ \A i \in 1..Len(t) : (s \o t)[Len(s) + i] = t[i]
<1>1. Len(s) \in Nat /\ Len(t) \in Nat
  BY LenProperties
<1>2. /\ s \o t \in Seq(S)
      /\ Len(s \o t) = Len(s) + Len(t)
      /\ \A i \in 1..(Len(s) + Len(t)) :
             (s \o t)[i] = IF i <= Len(s) THEN s[i] ELSE t[i - Len(s)]
  BY ConcatProperties
<1>3. ASSUME NEW i \in 1..Len(s) PROVE (s \o t)[i] = s[i]
  <2>1. i \in 1..(Len(s) + Len(t)) /\ i <= Len(s)
    BY <1>1
  <2>. QED  BY <1>2, <2>1
<1>4. ASSUME NEW i \in 1..Len(t) PROVE (s \o t)[Len(s) + i] = t[i]
  <2>1. /\ Len(s) + i \in 1..(Len(s) + Len(t)) /\ ~(Len(s) + i <= Len(s))
        /\ Len(s) + i - Len(s) = i
    BY <1>1
  <2>. QED  BY <1>2, <2>1
<1>. QED  BY <1>2, <1>3, <1>4

LEMMA LaidOn ==
    ASSUME NEW last \in Nat, NEW all \in Nat, last <= all, NEW h \in Nat,
           NEW w \in Seq(Byte), NEW c \in Seq(Byte), NEW codes, NEW more, NEW pos,
           \A k \in 1..all : codes[k] \in Seq(Byte) /\ more[k] = codes[k],
           more[all + 1] = c,
           Laid(pos, w, codes, last, all, h)
    PROVE  \E new : Laid(new, w \o c, more, last, all + 1, h)
<1>1. Len(w) \in Nat /\ Len(c) \in Nat
  BY LenProperties
<1>2. /\ pos \in [last..all -> h..Len(w)]
      /\ pos[last] = h /\ pos[all] = Len(w)
      /\ \A j, k \in last..all : j <= k => pos[j] <= pos[k]
      /\ \A k \in (last + 1)..all :
            /\ pos[k] = pos[k - 1] + Len(codes[k])
            /\ \A i \in 1..Len(codes[k]) : w[pos[k - 1] + i] = codes[k][i]
  BY DEF Laid
<1>3. /\ Len(w \o c) = Len(w) + Len(c)
      /\ \A i \in 1..Len(w) : (w \o c)[i] = w[i]
      /\ \A i \in 1..Len(c) : (w \o c)[Len(w) + i] = c[i]
  BY Joined
<1>. DEFINE new == [k \in last..(all + 1) |->
                       IF k = all + 1 THEN Len(w) + Len(c) ELSE pos[k]]
<1>4. last \in last..all /\ all \in last..all
  OBVIOUS
<1>range. \A k \in last..all : pos[k] \in Int /\ h <= pos[k] /\ pos[k] <= Len(w)
  BY <1>1, <1>2
<1>5. \A k \in last..all : new[k] = pos[k]
  OBVIOUS
<1>6. new[all + 1] = Len(w) + Len(c)
  OBVIOUS
<1>7. h <= Len(w)
  BY <1>1, <1>4, <1>range
<1>8. new \in [last..(all + 1) -> h..(Len(w) + Len(c))]
  <2>1. ASSUME NEW k \in last..(all + 1) PROVE new[k] \in h..(Len(w) + Len(c))
    <3>1. CASE k = all + 1
      BY <1>1, <1>6, <1>7, <3>1
    <3>2. CASE k # all + 1
      <4>1. k \in last..all
        BY <3>2
      <4>2. new[k] = pos[k] /\ h <= pos[k] /\ pos[k] <= Len(w) /\ pos[k] \in Int
        BY <1>5, <1>range, <4>1
      <4>. HIDE DEF new
      <4>. QED  BY <1>1, <4>2
    <3>. QED  BY <3>1, <3>2
  <2>. QED  BY <2>1
<1>. HIDE DEF new
<1>9. new[last] = h
  BY <1>2, <1>4, <1>5
<1>10. \A j, k \in last..(all + 1) : j <= k => new[j] <= new[k]
  <2>. SUFFICES ASSUME NEW j \in last..(all + 1), NEW k \in last..(all + 1), j <= k
                PROVE  new[j] <= new[k]
    OBVIOUS
  <2>1. CASE k = all + 1
    <3>1. new[j] \in h..(Len(w) + Len(c))
      BY <1>8
    <3>. QED  BY <1>6, <2>1, <3>1
  <2>2. CASE k # all + 1
    <3>1. j \in last..all /\ k \in last..all
      BY <2>2
    <3>. QED  BY <1>2, <1>5, <3>1
  <2>. QED  BY <2>1, <2>2
<1>11. ASSUME NEW k \in (last + 1)..(all + 1)
       PROVE  /\ new[k] = new[k - 1] + Len(more[k])
              /\ \A i \in 1..Len(more[k]) : (w \o c)[new[k - 1] + i] = more[k][i]
  <2>1. CASE k = all + 1
    <3>1. k - 1 = all /\ new[all] = Len(w)
      BY <1>2, <1>4, <1>5, <2>1
    <3>. QED  BY <1>3, <1>6, <2>1, <3>1
  <2>2. CASE k # all + 1
    <3>1. k \in (last + 1)..all /\ k \in last..all /\ k - 1 \in last..all /\ k \in 1..all
      BY <2>2
    <3>2. /\ new[k] = pos[k] /\ new[k - 1] = pos[k - 1]
          /\ pos[k] \in Int /\ pos[k] <= Len(w) /\ h <= pos[k - 1] /\ pos[k - 1] \in Int
          /\ more[k] = codes[k] /\ codes[k] \in Seq(Byte)
      BY <1>5, <1>range, <3>1
    <3>3. Len(codes[k]) \in Nat
      BY <3>2, LenProperties
    <3>4. pos[k] = pos[k - 1] + Len(codes[k])
      BY <1>2, <3>1
    <3>5. ASSUME NEW i \in 1..Len(codes[k])
          PROVE  (w \o c)[pos[k - 1] + i] = codes[k][i]
      <4>1. pos[k - 1] + i \in 1..Len(w)
        BY <1>1, <3>2, <3>3, <3>4
      <4>. QED  BY <1>2, <1>3, <3>1, <4>1
    <3>. QED  BY <3>2, <3>4, <3>5
  <2>. QED  BY <2>1, <2>2
<1>12. Laid(new, w \o c, more, last, all + 1, h)
  BY <1>3, <1>6, <1>8, <1>9, <1>10, <1>11 DEF Laid
<1>. QED  BY <1>12

LEMMA Dropped ==
    ASSUME NEW S, NEW w \in Seq(S), NEW m \in 0..Len(w)
    PROVE  /\ SubSeq(w, m + 1, Len(w)) \in Seq(S)
           /\ Len(SubSeq(w, m + 1, Len(w))) = Len(w) - m
           /\ \A i \in 1..(Len(w) - m) : SubSeq(w, m + 1, Len(w))[i] = w[m + i]
<1>1. Len(w) \in Nat /\ \A i \in 1..Len(w) : w[i] \in S
  BY LenProperties, ElementOfSeq
<1>2. m + 1 \in Int /\ Len(w) \in Int /\ \A i \in (m + 1)..Len(w) : w[i] \in S
  BY <1>1
<1>3. /\ SubSeq(w, m + 1, Len(w)) \in Seq(S)
      /\ Len(SubSeq(w, m + 1, Len(w)))
             = IF m + 1 <= Len(w) THEN Len(w) - (m + 1) + 1 ELSE 0
      /\ \A i \in 1..(Len(w) - (m + 1) + 1) :
             SubSeq(w, m + 1, Len(w))[i] = w[m + 1 + i - 1]
  BY <1>2, SubSeqProperties
<1>4. ASSUME NEW i \in 1..(Len(w) - m) PROVE SubSeq(w, m + 1, Len(w))[i] = w[m + i]
  <2>1. i \in 1..(Len(w) - (m + 1) + 1) /\ m + 1 + i - 1 = m + i
    BY <1>1
  <2>. QED  BY <1>3, <2>1
<1>5. Len(SubSeq(w, m + 1, Len(w))) = Len(w) - m
  BY <1>1, <1>3
<1>. QED  BY <1>3, <1>4, <1>5

LEMMA LaidOff ==
    ASSUME NEW last \in Nat, NEW all \in Nat, last <= all, NEW h \in Nat,
           NEW m \in 0..h, NEW w \in Seq(Byte), NEW codes, NEW pos,
           \A k \in 1..all : codes[k] \in Seq(Byte),
           Laid(pos, w, codes, last, all, h)
    PROVE  \E new : Laid(new, SubSeq(w, m + 1, Len(w)), codes, last, all, h - m)
<1>1. /\ pos \in [last..all -> h..Len(w)]
      /\ pos[last] = h /\ pos[all] = Len(w)
      /\ \A j, k \in last..all : j <= k => pos[j] <= pos[k]
      /\ \A k \in (last + 1)..all :
            /\ pos[k] = pos[k - 1] + Len(codes[k])
            /\ \A i \in 1..Len(codes[k]) : w[pos[k - 1] + i] = codes[k][i]
  BY DEF Laid
<1>2. last \in last..all /\ all \in last..all /\ Len(w) \in Nat
  BY LenProperties
<1>3. \A k \in last..all : pos[k] \in Int /\ h <= pos[k] /\ pos[k] <= Len(w)
  BY <1>1, <1>2
<1>4. m \in 0..Len(w)
  BY <1>2, <1>3
<1>. DEFINE rest == SubSeq(w, m + 1, Len(w))
            new == [k \in last..all |-> pos[k] - m]
<1>5. Len(rest) = Len(w) - m /\ \A i \in 1..(Len(w) - m) : rest[i] = w[m + i]
  BY <1>4, Dropped
<1>. HIDE DEF rest
<1>6. \A k \in last..all : new[k] = pos[k] - m
  OBVIOUS
<1>7. new \in [last..all -> (h - m)..(Len(w) - m)]
  BY <1>2, <1>3
<1>. HIDE DEF new
<1>8. new[last] = h - m /\ new[all] = Len(w) - m
  BY <1>1, <1>2, <1>6
<1>9. \A j, k \in last..all : j <= k => new[j] <= new[k]
  <2>. SUFFICES ASSUME NEW j \in last..all, NEW k \in last..all, j <= k
                PROVE  new[j] <= new[k]
    OBVIOUS
  <2>1. /\ pos[j] <= pos[k] /\ pos[j] \in Int /\ pos[k] \in Int /\ m \in Int
        /\ new[j] = pos[j] - m /\ new[k] = pos[k] - m
    BY <1>1, <1>3, <1>6
  <2>. QED  BY <2>1
<1>10. ASSUME NEW k \in (last + 1)..all
       PROVE  /\ new[k] = new[k - 1] + Len(codes[k])
              /\ \A i \in 1..Len(codes[k]) : rest[new[k - 1] + i] = codes[k][i]
  <2>1. k \in last..all /\ k - 1 \in last..all /\ k \in 1..all
    OBVIOUS
  <2>2. Len(codes[k]) \in Nat
    BY <2>1, LenProperties
  <2>3. /\ pos[k] = pos[k - 1] + Len(codes[k])
        /\ pos[k] \in Int /\ pos[k] <= Len(w) /\ h <= pos[k - 1] /\ pos[k - 1] \in Int
        /\ new[k] = pos[k] - m /\ new[k - 1] = pos[k - 1] - m
    BY <1>1, <1>3, <1>6, <2>1
  <2>4. ASSUME NEW i \in 1..Len(codes[k])
        PROVE  rest[new[k - 1] + i] = codes[k][i]
    <3>1. new[k - 1] + i \in 1..(Len(w) - m) /\ m + (new[k - 1] + i) = pos[k - 1] + i
      <4>1. m \in Int /\ m <= h
        OBVIOUS
      <4>2. i \in Int /\ 1 <= i /\ i <= Len(codes[k])
        BY <2>2
      <4>3. \A p, l, j, top \in Int :
               m <= p /\ p + l <= top /\ 1 <= j /\ j <= l =>
                   (p - m) + j \in 1..(top - m) /\ m + ((p - m) + j) = p + j
        BY <4>1
      <4>4. m <= pos[k - 1] /\ pos[k - 1] + Len(codes[k]) <= Len(w)
        BY <2>3, <4>1
      <4>5. new[k - 1] = pos[k - 1] - m /\ pos[k - 1] \in Int
        BY <2>3
      <4>6. Len(w) \in Int /\ Len(codes[k]) \in Int
        BY <1>2, <2>2
      <4>7. /\ (pos[k - 1] - m) + i \in 1..(Len(w) - m)
            /\ m + ((pos[k - 1] - m) + i) = pos[k - 1] + i
        BY <4>2, <4>3, <4>4, <4>5, <4>6
      <4>. QED  BY <4>5, <4>7
    <3>. QED  BY <1>1, <1>5, <3>1
  <2>. QED  BY <1>2, <2>2, <2>3, <2>4
<1>11. Laid(new, rest, codes, last, all, h - m)
  BY <1>5, <1>7, <1>8, <1>9, <1>10 DEF Laid
<1>. QED  BY <1>11 DEF rest

LEMMA TheCodes ==
    ASSUME EndianTypeOK, NEW e \in Ends
    PROVE  /\ Peer(e) \in Ends
           /\ Len(out[Peer(e)]) \in Nat
           /\ DOMAIN out[Peer(e)] = 1..Len(out[Peer(e)])
           /\ wire[e] \in Seq(Byte) /\ Len(wire[e]) \in Nat
           /\ \A k \in 1..Len(out[Peer(e)]) :
                 /\ out[Peer(e)][k] \in Numbers
                 /\ Codes(e)[k] = Code(Peer(e), out[Peer(e)][k])
                 /\ Codes(e)[k] \in Seq(Byte)
<1>1. Peer(e) \in Ends
  BY TheEnds DEF Ends
<1>2. out[Peer(e)] \in Seq(Numbers) /\ wire[e] \in Seq(Byte)
  BY <1>1 DEF EndianTypeOK
<1>3. /\ Len(out[Peer(e)]) \in Nat /\ Len(wire[e]) \in Nat
      /\ DOMAIN out[Peer(e)] = 1..Len(out[Peer(e)])
      /\ \A k \in 1..Len(out[Peer(e)]) : out[Peer(e)][k] \in Numbers
  BY <1>2, LenProperties, ElementOfSeq
<1>. QED  BY <1>1, <1>2, <1>3, CodeBytes DEF Codes

LEMMA TheStreamStays ==
    ASSUME NEW e \in Ends, NEW last, NEW h, Stream(e, last, h),
           wire'[e] = wire[e], out'[Peer(e)] = out[Peer(e)],
           swap'[Peer(e)] = swap[Peer(e)], big' = big
    PROVE  Stream(e, last, h)'
<1>1. ASSUME NEW n PROVE Code(Peer(e), n)' = Code(Peer(e), n)
  BY DEF Code, Swapped, Memory
<1>2. Codes(e)' = Codes(e)
  BY <1>1 DEF Codes
<1>. QED  BY <1>2 DEF Stream

\* No number has been sent, and nothing is on the wire behind the first h bytes.
LEMMA TheStreamBegins ==
    ASSUME NEW e \in Ends, NEW h \in Nat, out'[Peer(e)] = <<>>, Len(wire'[e]) = h
    PROVE  Stream(e, 0, h)'
<1>. DEFINE pos == [k \in 0..0 |-> h]
<1>1. Len(out'[Peer(e)]) = 0
  BY EmptySeq
<1>2. \A k \in (0 + 1)..0 : FALSE
  OBVIOUS
<1>3. pos \in [0..0 -> h..h] /\ pos[0] = h /\ \A j \in 0..0 : pos[j] = h
  OBVIOUS
<1>. HIDE DEF pos
<1>4. ASSUME NEW w, NEW codes, Len(w) = h PROVE Laid(pos, w, codes, 0, 0, h)
  BY <1>2, <1>3, <1>4 DEF Laid
<1>. QED  BY <1>1, <1>3, <1>4 DEF Stream

LEMMA TheStreamGrows ==
    ASSUME EndianTypeOK, NEW e \in Ends, NEW last \in Nat, NEW h \in Nat,
           Stream(e, last, h), last <= Len(out[Peer(e)]),
           NEW number \in Numbers,
           wire'[e] = wire[e] \o Code(Peer(e), number),
           out'[Peer(e)] = Append(out[Peer(e)], number),
           swap'[Peer(e)] = swap[Peer(e)], big' = big
    PROVE  Stream(e, last, h)'
<1>. DEFINE sent == out[Peer(e)]
            all  == Len(sent)
<1>1. /\ all \in Nat /\ sent \in Seq(Numbers)
      /\ \A k \in 1..all : Codes(e)[k] = Code(Peer(e), sent[k]) /\ Codes(e)[k] \in Seq(Byte)
      /\ Code(Peer(e), number) \in Seq(Byte)
      /\ wire[e] \in Seq(Byte)
  BY TheCodes, CodeBytes DEF EndianTypeOK
<1>2. /\ out'[Peer(e)] \in Seq(Numbers)
      /\ Len(out'[Peer(e)]) = all + 1 /\ out'[Peer(e)][all + 1] = number
      /\ \A k \in 1..all : out'[Peer(e)][k] = sent[k]
  BY <1>1, AppendProperties
<1>3. DOMAIN out'[Peer(e)] = 1..(all + 1)
  BY <1>2, LenProperties
<1>4. ASSUME NEW n PROVE Code(Peer(e), n)' = Code(Peer(e), n)
  BY DEF Code, Swapped, Memory
<1>5. \A k \in 1..(all + 1) : Codes(e)'[k] = Code(Peer(e), out'[Peer(e)][k])
  BY <1>3, <1>4 DEF Codes
<1>6. /\ \A k \in 1..all : Codes(e)'[k] = Codes(e)[k]
      /\ Codes(e)'[all + 1] = Code(Peer(e), number)
  <2>1. all + 1 \in 1..(all + 1) /\ \A k \in 1..all : k \in 1..(all + 1)
    BY <1>1
  <2>. HIDE DEF all, sent
  <2>. QED  BY <1>1, <1>2, <1>5, <2>1
<1>7. PICK pos : Laid(pos, wire[e], Codes(e), last, all, h)
  BY DEF Stream
<1>8. PICK new : Laid(new, wire[e] \o Code(Peer(e), number), Codes(e)', last, all + 1, h)
  BY <1>1, <1>6, <1>7, LaidOn
<1>9. Laid(new, wire'[e], Codes(e)', last, Len(out'[Peer(e)]), h)
  BY <1>2, <1>8
<1>. QED  BY <1>9 DEF Stream, Laid

LEMMA TheStreamShrinks ==
    ASSUME EndianTypeOK, NEW e \in Ends, NEW last \in Nat, NEW h \in Nat, NEW m \in 0..h,
           Stream(e, last, h), last <= Len(out[Peer(e)]),
           wire'[e] = SubSeq(wire[e], m + 1, Len(wire[e])),
           out'[Peer(e)] = out[Peer(e)],
           swap'[Peer(e)] = swap[Peer(e)], big' = big
    PROVE  Stream(e, last, h - m)'
<1>1. ASSUME NEW n PROVE Code(Peer(e), n)' = Code(Peer(e), n)
  BY DEF Code, Swapped, Memory
<1>2. Codes(e)' = Codes(e)
  BY <1>1 DEF Codes
<1>3. PICK pos : Laid(pos, wire[e], Codes(e), last, Len(out[Peer(e)]), h)
  BY DEF Stream
<1>4. PICK new : Laid(new, wire'[e], Codes(e), last, Len(out[Peer(e)]), h - m)
  <2>1. /\ Len(out[Peer(e)]) \in Nat /\ wire[e] \in Seq(Byte)
        /\ \A k \in 1..Len(out[Peer(e)]) : Codes(e)[k] \in Seq(Byte)
    BY TheCodes
  <2>2. \E new : Laid(new, SubSeq(wire[e], m + 1, Len(wire[e])), Codes(e), last,
                     Len(out[Peer(e)]), h - m)
    BY <1>3, <2>1, LaidOff
  <2>. QED  BY <2>2
<1>5. Laid(new, wire'[e], Codes(e)', last, Len(out'[Peer(e)]), h - m)
  BY <1>2, <1>4
<1>. QED  BY <1>5 DEF Stream, Laid

\* The first number on the wire, and the others behind it.
LEMMA TheNextNumber ==
    ASSUME EndianTypeOK, NEW e \in Ends, NEW last \in Nat,
           Stream(e, last, 0), last < Len(out[Peer(e)])
    PROVE  LET number == out[Peer(e)][last + 1]
           IN  /\ number \in Numbers
               /\ Len(number) <= Len(wire[e])
               /\ SubSeq(wire[e], 1, Len(number)) = Code(Peer(e), number)
               /\ Stream(e, last + 1, Len(number))
<1>. DEFINE all == Len(out[Peer(e)])
            number == out[Peer(e)][last + 1]
            w == wire[e]
<1>1. /\ all \in Nat /\ w \in Seq(Byte) /\ Len(w) \in Nat
      /\ Peer(e) \in Ends
      /\ \A k \in 1..all : Codes(e)[k] = Code(Peer(e), out[Peer(e)][k])
      /\ \A k \in 1..all : out[Peer(e)][k] \in Numbers
  BY TheCodes
<1>2. last + 1 \in 1..all /\ last + 1 \in (last + 1)..all /\ (last + 1) - 1 = last
  BY <1>1
<1>3. /\ number \in Numbers /\ Codes(e)[last + 1] = Code(Peer(e), number)
      /\ Codes(e)[last + 1] \in Seq(Byte) /\ Len(Codes(e)[last + 1]) = Len(number)
      /\ Len(number) \in Nat
  BY <1>1, <1>2, CodeBytes, NumberBytes
<1>. DEFINE code == Codes(e)[last + 1]
            size == Len(number)
<1>4. PICK pos : Laid(pos, w, Codes(e), last, all, 0)
  BY DEF Stream
<1>5. /\ pos \in [last..all -> 0..Len(w)]
      /\ pos[last] = 0 /\ pos[all] = Len(w)
      /\ \A j, k \in last..all : j <= k => pos[j] <= pos[k]
      /\ \A k \in (last + 1)..all :
            /\ pos[k] = pos[k - 1] + Len(Codes(e)[k])
            /\ \A i \in 1..Len(Codes(e)[k]) : w[pos[k - 1] + i] = Codes(e)[k][i]
  BY <1>4 DEF Laid
<1>6. pos[last + 1] = size /\ \A i \in 1..size : w[i] = code[i]
  BY <1>2, <1>3, <1>5
<1>7. size <= Len(w)
  BY <1>1, <1>2, <1>5, <1>6
<1>8. SubSeq(w, 1, size) = code
  <2>1. \A i \in 1..size : w[i] \in Byte
    BY <1>1, <1>3, <1>7, ElementOfSeq
  <2>2. /\ SubSeq(w, 1, size) \in Seq(Byte) /\ Len(SubSeq(w, 1, size)) = size
        /\ \A i \in 1..size : SubSeq(w, 1, size)[i] = w[i]
    <3>1. 1 \in Int /\ size \in Int
      BY <1>3
    <3>. HIDE DEF w, size
    <3>. QED  BY <1>3, <2>1, <3>1, SubSeqProperties DEF size
  <2>. QED  BY <1>3, <1>6, <2>2, SeqEqual
<1>9. \E new : Laid(new, w, Codes(e), last + 1, all, size)
  <2>. DEFINE new == [k \in (last + 1)..all |-> pos[k]]
  <2>1. ASSUME NEW k \in (last + 1)..all
        PROVE  k \in last..all /\ new[k] = pos[k] /\ new[k] \in size..Len(w)
    <3>1. k \in last..all /\ last + 1 \in last..all /\ last + 1 <= k
      BY <1>1
    <3>2. pos[k] \in Int /\ pos[k] <= Len(w) /\ size <= pos[k]
      BY <1>1, <1>5, <1>6, <3>1
    <3>. QED  BY <1>1, <1>3, <3>1, <3>2
  <2>2. new \in [(last + 1)..all -> size..Len(w)]
    BY <2>1
  <2>3. new[last + 1] = size /\ new[all] = Len(w)
    BY <1>1, <1>2, <1>5, <1>6
  <2>4. \A j, k \in (last + 1)..all : j <= k => new[j] <= new[k]
    BY <1>5, <2>1
  <2>5. ASSUME NEW k \in (last + 1 + 1)..all
        PROVE  /\ new[k] = new[k - 1] + Len(Codes(e)[k])
               /\ \A i \in 1..Len(Codes(e)[k]) : w[new[k - 1] + i] = Codes(e)[k][i]
    <3>1. k \in (last + 1)..all /\ k - 1 \in (last + 1)..all
      BY <1>1
    <3>. HIDE DEF new
    <3>. QED  BY <1>5, <2>1, <3>1
  <2>. HIDE DEF new
  <2>6. Laid(new, w, Codes(e), last + 1, all, size)
    BY <2>2, <2>3, <2>4, <2>5 DEF Laid
  <2>. QED  BY <2>6
<1>10. Stream(e, last + 1, size)
  BY <1>9 DEF Stream, Laid
<1>. QED  BY <1>3, <1>7, <1>8, <1>10

-------------------------------------------------------------------------------
(* The steps.                                                              *)

LEMMA PrefixOf ==
    ASSUME NEW S, NEW s \in Seq(S), NEW t \in Seq(S)
    PROVE  IsPrefix(s, t) <=> Len(s) <= Len(t) /\ \A i \in 1..Len(s) : s[i] = t[i]
<1>1. /\ Len(s) \in Nat /\ Len(t) \in Nat
      /\ \A i \in 1..Len(s) : s[i] \in S
      /\ \A i \in 1..Len(t) : t[i] \in S
  BY LenProperties, ElementOfSeq
<1>0. CASE Len(s) <= Len(t)
  <2>. DEFINE n == Len(s)
              front == SubSeq(t, 1, n)
  <2>2. SubSeq(s, 1, Len(s)) = s
    BY SubSeqFull
  <2>3. front \in Seq(S) /\ Len(front) = n /\ \A i \in 1..n : front[i] = t[i]
    <3>1. \A i \in 1..n : t[i] \in S
      BY <1>0, <1>1
    <3>2. n \in Nat
      BY <1>1
    <3>. HIDE DEF n
    <3>3. /\ front \in Seq(S) /\ Len(front) = IF 1 <= n THEN n - 1 + 1 ELSE 0
          /\ \A i \in 1..(n - 1 + 1) : front[i] = t[1 + i - 1]
      BY <3>1, <3>2, SubSeqProperties
    <3>. HIDE DEF front
    <3>4. ASSUME NEW i \in 1..n PROVE front[i] = t[i]
      <4>1. i \in 1..(n - 1 + 1) /\ 1 + i - 1 = i
        BY <3>2
      <4>. QED  BY <3>3, <4>1
    <3>. QED  BY <3>2, <3>3, <3>4
  <2>. HIDE DEF front
  <2>4. s = front <=> \A i \in 1..n : s[i] = t[i]
    <3>1. (\A i \in 1..n : s[i] = t[i]) => s = front
      BY <2>3, SeqEqual
    <3>. QED  BY <2>3, <3>1
  <2>5. s = SubSeq(t, 1, Len(s)) <=> \A i \in 1..Len(s) : s[i] = t[i]
    BY <2>4 DEF front
  <2>6. SubSeq(s, 1, Len(s)) = SubSeq(t, 1, Len(s)) <=> s = SubSeq(t, 1, Len(s))
    BY <2>2
  <2>. QED  BY <1>0, <2>5, <2>6 DEF IsPrefix
<1>2. CASE ~(Len(s) <= Len(t))
  BY <1>2 DEF IsPrefix
<1>. QED  BY <1>0, <1>2

LEMMA TheLumps ==
    ASSUME EndianTypeOK, NEW e \in Ends, NEW n \in Lumps(e)
    PROVE  n \in 0..4 /\ n <= Len(wire[e]) /\ (n = 0 => broken)
<1>1. Len(wire[e]) \in Nat
  BY LenProperties DEF EndianTypeOK
<1>2. Min({4, Len(wire[e])}) = IF Len(wire[e]) <= 4 THEN Len(wire[e]) ELSE 4
  BY <1>1 DEF Min
<1>. QED  BY <1>1, <1>2 DEF Lumps

LEMMA NumbersAreBytes == ASSUME EndianTypeOK, NEW e \in Ends PROVE out[e] \in Seq(Seq(Byte))
BY NumberBytes, SeqMonotonic DEF EndianTypeOK

LEMMA EndianTypesInit == EndianInit => EndianTypeOK
<1>. SUFFICES ASSUME EndianInit PROVE EndianTypeOK
  OBVIOUS
<1>1. <<>> \in Seq(Byte) /\ <<>> \in Seq(Numbers) /\ <<>> \in Seq(Seq(Byte))
  BY EmptySeq
<1>2. /\ big \in [Ends -> BOOLEAN]
      /\ result \in [Ends -> {"none", "waits", "true", "false"}]
  BY DEF EndianInit, Ends
<1>3. /\ wire \in [Ends -> Seq(Byte)]
      /\ out \in [Ends -> Seq(Numbers)]
      /\ got \in [Ends -> Seq(Seq(Byte))]
  BY <1>1 DEF EndianInit
<1>. QED  BY <1>2, <1>3 DEF EndianInit, EndianTypeOK

LEMMA EndianTypesStep ==
    ASSUME EndianTypeOK, EndianNext PROVE EndianTypeOK'
<1>. USE DEF EndianTypeOK
<1>0. "client" \in Ends /\ "server" \in Ends
  BY DEF Ends
<1>1. ASSUME NEW e \in Ends, NEW n \in Lumps(e)
      PROVE  SubSeq(wire[e], n + 1, Len(wire[e])) \in Seq(Byte)
  <2>1. n \in 0..Len(wire[e])
    <3>1. Len(wire[e]) \in Nat
      BY LenProperties
    <3>. HIDE DEF EndianTypeOK
    <3>2. n \in 0..4 /\ n <= Len(wire[e])
      BY <1>1, TheLumps
    <3>. QED  BY <3>1, <3>2
  <2>. QED  BY <2>1, Dropped
<1>2. CASE ClientSends
  <2>1. Memory("client", Magic) \in Seq(Byte)
    BY <1>0, TheWords, MemoryOfWord
  <2>2. CASE Asks
    <3>. HIDE DEF EndianTypeOK
    <3>1. wire' \in [Ends -> Seq(Byte)]
      BY <1>0, <2>1, <2>2 DEF Asks, EndianTypeOK
    <3>. QED  BY <1>0, <1>2, <2>2, <3>1 DEF ClientSends, Asks, EndianTypeOK
  <2>3. CASE Fails("client")
    BY <1>0, <1>2, <2>3 DEF ClientSends, Fails
  <2>. QED  BY <1>2, <2>2, <2>3 DEF ClientSends
<1>3. CASE ClientReceives
  <2>1. CASE Fails("client")
    BY <1>0, <1>3, <2>1 DEF ClientReceives, Fails
  <2>2. CASE TakesAnswer
    <3>1. PICK n \in Lumps("client") :
             /\ Decides(Word("client", n, Memory("client", Magic)))
             /\ wire' = Take("client", n)
             /\ split' = (split \/ n < 4)
      BY <2>2 DEF TakesAnswer
    <3>2. wire' \in [Ends -> Seq(Byte)]
      BY <1>0, <1>1, <3>1 DEF Take
    <3>. QED  BY <1>0, <1>3, <3>1, <3>2 DEF ClientReceives, Decides
  <2>. QED  BY <1>3, <2>1, <2>2 DEF ClientReceives
<1>4. CASE ServerReceives
  <2>1. CASE Fails("server")
    BY <1>0, <1>4, <2>1 DEF ServerReceives, Fails
  <2>2. CASE TakesQuestion
    <3>1. PICK n \in Lumps("server") :
             /\ \/ \E word : Accepts(word) /\ result' = [result EXCEPT !["server"] = "true"]
                                 /\ wire' = IF broken
                                            THEN Take("server", n)
                                            ELSE [Take("server", n) EXCEPT
                                                     !["client"] = Answer(word)]
                \/ /\ result' = [result EXCEPT !["server"] = "false"]
                   /\ wire' = Take("server", n)
                   /\ UNCHANGED swap
             /\ split' = (split \/ n < 4)
      BY <2>2 DEF TakesQuestion
    <3>2. Take("server", n) \in [Ends -> Seq(Byte)]
      BY <1>0, <1>1 DEF Take
    <3>3. \A word : Answer(word) \in Seq(Byte)
      BY TheWords DEF Answer
    <3>4. wire' \in [Ends -> Seq(Byte)]
      <4>1. \A word : [Take("server", n) EXCEPT !["client"] = Answer(word)] \in [Ends -> Seq(Byte)]
        BY <1>0, <3>2, <3>3
      <4>2. CASE wire' = Take("server", n)
        BY <3>2, <4>2
      <4>3. CASE \E word : wire' = [Take("server", n) EXCEPT !["client"] = Answer(word)]
        <5>1. PICK word : wire' = [Take("server", n) EXCEPT !["client"] = Answer(word)]
          BY <4>3
        <5>. QED  BY <4>1, <5>1
      <4>. QED  BY <3>1, <4>2, <4>3, Zenon
    <3>5. swap' \in [Ends -> BOOLEAN]
      BY <1>0, <3>1 DEF Accepts, ServerSwaps
    <3>. QED  BY <1>0, <1>4, <3>1, <3>4, <3>5 DEF ServerReceives
  <2>. QED  BY <1>4, <2>1, <2>2 DEF ServerReceives
<1>5. ASSUME NEW e \in Ends, SendNumber(e)
      PROVE  EndianTypeOK'
  <2>1. PICK number \in Numbers :
           /\ wire' = [wire EXCEPT ![Peer(e)] = @ \o Swapped(e, Memory(e, number))]
           /\ out' = [out EXCEPT ![e] = Append(@, number)]
    BY <1>5 DEF SendNumber
  <2>2. Swapped(e, Memory(e, number)) \in Seq(Byte) /\ Peer(e) \in Ends
    BY CodeBytes, TheCodes DEF Code
  <2>3. wire[Peer(e)] \o Swapped(e, Memory(e, number)) \in Seq(Byte)
    BY <2>2, ConcatProperties
  <2>4. wire' \in [Ends -> Seq(Byte)]
    BY <2>1, <2>2, <2>3
  <2>5. out' \in [Ends -> Seq(Numbers)]
    BY <2>1, AppendProperties
  <2>. QED  BY <1>5, <2>4, <2>5 DEF SendNumber
<1>6. ASSUME NEW e \in Ends, RecvNumber(e)
      PROVE  EndianTypeOK'
  <2>. DEFINE size == Len(out[Peer(e)][Len(got[e]) + 1])
              bytes == SubSeq(wire[e], 1, size)
  <2>1. /\ Len(wire[e]) >= size
        /\ got' = [got EXCEPT ![e] = Append(@, Memory(e, Swapped(e, bytes)))]
        /\ wire' = Take(e, size)
        /\ Len(got[e]) < Len(out[Peer(e)])
    BY <1>6 DEF RecvNumber
  <2>2. Len(got[e]) \in Nat /\ Len(wire[e]) \in Nat
    BY LenProperties
  <2>3. Len(got[e]) + 1 \in 1..Len(out[Peer(e)])
    BY <2>1, <2>2, TheCodes
  <2>4. size \in Nat
    <3>1. out[Peer(e)][Len(got[e]) + 1] \in Numbers
      BY <2>3, TheCodes
    <3>. QED  BY <3>1, NumberBytes
  <2>. HIDE DEF size
  <2>5. SubSeq(wire[e], size + 1, Len(wire[e])) \in Seq(Byte)
    BY <2>1, <2>2, <2>4, Dropped
  <2>6. bytes \in Seq(Byte)
    <3>1. \A i \in 1..size : wire[e][i] \in Byte
      BY <2>1, <2>2, <2>4, ElementOfSeq
    <3>. QED  BY <2>4, <3>1, SubSeqProperties
  <2>. HIDE DEF bytes
  <2>7. Memory(e, Swapped(e, bytes)) \in Seq(Byte)
    BY <2>6, Reversed DEF Memory, Swapped
  <2>8. wire' \in [Ends -> Seq(Byte)]
    BY <2>1, <2>5 DEF Take
  <2>9. got' \in [Ends -> Seq(Seq(Byte))]
    BY <2>1, <2>7, AppendProperties
  <2>. QED  BY <1>6, <2>8, <2>9 DEF RecvNumber
<1>7. CASE Breaks
  BY <1>7 DEF Breaks
<1>. QED  BY <1>2, <1>3, <1>4, <1>5, <1>6, <1>7 DEF EndianNext

LEMMA EndianInvInit == EndianInit => EndianInv
<1>. SUFFICES ASSUME EndianInit PROVE EndianInv
  OBVIOUS
<1>1. EndianTypeOK
  BY EndianTypesInit
<1>2. IsPrefix(<<>>, <<>>)
  BY EmptySeq DEF IsPrefix
<1>3. NumbersSurvive
  BY <1>2, TheEnds DEF NumbersSurvive, EndianInit, Ends
<1>. QED
  BY <1>1, <1>3
  DEF EndianInv, EndianInit, Asked, Unanswered, Answered, Agreed, Silent, Ends

\* What does not touch the streams leaves them as they are.
LEMMA StreamsStay ==
    ASSUME wire' = wire, out' = out, got' = got, swap' = swap, big' = big
    PROVE  /\ Stream("client", 0, 4) => Stream("client", 0, 4)'
           /\ (\A e \in Ends : Stream(e, Len(got[e]), 0))
                 => (\A e \in Ends : Stream(e, Len(got[e]), 0))'
BY DEF Stream, Codes, Code, Swapped, Memory

LEMMA ClientSendsStep == ASSUME EndianInv, ClientSends PROVE EndianInv'
<1>0. /\ EndianTypeOK /\ EndianTypeOK'
      /\ result \in [Ends -> {"none", "waits", "true", "false"}]
      /\ wire \in [Ends -> Seq(Byte)]
      /\ "client" \in Ends /\ "server" \in Ends
  BY EndianTypesStep DEF EndianInv, EndianNext, EndianTypeOK, Ends
<1>1. NumbersSurvive'
  <2>1. split' = split /\ got' = got /\ out' = out
    BY DEF ClientSends, Asks, Fails
  <2>. QED  BY <2>1 DEF EndianInv, NumbersSurvive
<1>2. CASE Asks
  <2>1. /\ result["client"] = "none" /\ ~broken
        /\ result' = [result EXCEPT !["client"] = "waits"]
        /\ wire' = [wire EXCEPT !["server"] = Memory("client", Magic)]
        /\ UNCHANGED <<swap, split, big, broken, out, got>>
    BY <1>2 DEF ClientSends, Asks
  <2>2. result["server"] # "true"
    BY <2>1 DEF EndianInv, Answered
  <2>3. /\ result'["client"] = "waits" /\ result'["server"] = result["server"]
        /\ wire'["server"] = Question /\ wire'["client"] = wire["client"]
        /\ Question' = Question
    BY <1>0, <2>1 DEF Question, Memory
  <2>4. Asked' /\ Unanswered' /\ Answered' /\ Agreed'
    BY <2>2, <2>3 DEF EndianInv, Asked, Unanswered, Answered, Agreed
  <2>5. Silent'
    BY <2>1, <2>2, <2>3 DEF EndianInv, Silent
  <2>. QED  BY <1>0, <1>1, <2>4, <2>5 DEF EndianInv
<1>3. CASE Fails("client")
  <2>1. /\ result["client"] = "none"
        /\ result' = [result EXCEPT !["client"] = "false"]
        /\ UNCHANGED <<swap, wire, split, big, broken, out, got>>
    BY <1>3 DEF ClientSends, Fails
  <2>2. /\ result'["client"] = "false" /\ result'["server"] = result["server"]
        /\ Question' = Question
    BY <1>0, <2>1 DEF Question, Memory
  <2>3. Asked' /\ Unanswered' /\ Answered' /\ Agreed'
    BY <2>1, <2>2 DEF EndianInv, Asked, Unanswered, Answered, Agreed
  <2>4. Silent'
    BY <2>1, <2>2 DEF EndianInv, Silent
  <2>. QED  BY <1>0, <1>1, <2>3, <2>4 DEF EndianInv
<1>. QED  BY <1>2, <1>3 DEF ClientSends

LEMMA ClientReceivesStep == ASSUME EndianInv, ClientReceives PROVE EndianInv'
<1>0. /\ EndianTypeOK /\ EndianTypeOK'
      /\ result \in [Ends -> {"none", "waits", "true", "false"}]
      /\ wire \in [Ends -> Seq(Byte)]
      /\ swap \in [Ends -> BOOLEAN]
      /\ split \in BOOLEAN
      /\ "client" \in Ends /\ "server" \in Ends
      /\ result["client"] = "waits"
      /\ UNCHANGED <<big, broken, out, got>>
  BY EndianTypesStep DEF EndianInv, EndianNext, EndianTypeOK, Ends, ClientReceives
<1>due. Question' = Question /\ AnswerDue' = AnswerDue /\ ServerSwapsDue' = ServerSwapsDue
  BY <1>0 DEF Question, Memory, AnswerDue, ServerSwapsDue
<1>1. CASE Fails("client")
  <2>1. /\ result' = [result EXCEPT !["client"] = "false"]
        /\ UNCHANGED <<swap, wire, split>>
    BY <1>1 DEF Fails
  <2>2. result'["client"] = "false" /\ result'["server"] = result["server"]
    BY <1>0, <2>1
  <2>3. Asked' /\ Unanswered' /\ Answered' /\ Agreed'
    BY <1>0, <1>due, <2>1, <2>2 DEF EndianInv, Asked, Unanswered, Answered, Agreed
  <2>4. Silent' /\ NumbersSurvive'
    BY <1>0, <2>1, <2>2 DEF EndianInv, Silent, NumbersSurvive
  <2>. QED  BY <1>0, <2>3, <2>4 DEF EndianInv
<1>2. CASE TakesAnswer
  <2>. DEFINE word(n) == Word("client", n, Memory("client", Magic))
  <2>1. PICK n \in Lumps("client") :
           /\ Decides(word(n))
           /\ wire' = Take("client", n)
           /\ split' = (split \/ n < 4)
    BY <1>2 DEF TakesAnswer
  <2>2. n \in 0..4 /\ n <= Len(wire["client"])
    BY <1>0, TheLumps
  <2>3. /\ result' = [result EXCEPT
                         !["client"] = IF word(n) \in {Swap, Keep} THEN "true" ELSE "false"]
        /\ swap' = [swap EXCEPT !["client"] = (word(n) = Swap)]
    BY <2>1 DEF Decides
  <2>. HIDE DEF word
  <2>4. /\ result'["client"] = (IF word(n) \in {Swap, Keep} THEN "true" ELSE "false")
        /\ result'["server"] = result["server"]
        /\ swap'["client"] = (word(n) = Swap) /\ swap'["server"] = swap["server"]
        /\ wire'["server"] = wire["server"]
        /\ wire'["client"] = SubSeq(wire["client"], n + 1, Len(wire["client"]))
    BY <1>0, <2>1, <2>3 DEF Take
  <2>5. Unanswered'
    <3>. SUFFICES ASSUME result["server"] # "true" PROVE wire'["client"] = <<>>
      BY <2>4 DEF Unanswered
    <3>1. wire["client"] = <<>> /\ Len(wire["client"]) = 0
      BY EmptySeq DEF EndianInv, Unanswered
    <3>2. n = 0
      BY <2>2, <3>1
    <3>. QED  BY <2>4, <3>1, <3>2, SubSeqEmpty
  <2>6. Asked'
    BY <1>0, <1>due, <2>4 DEF EndianInv, Asked
  <2>7. Answered'
    BY <2>4 DEF Answered
  <2>8. Silent' /\ NumbersSurvive'
    <3>1. split' = FALSE => split = FALSE
      BY <1>0, <2>1
    <3>2. Silent'
      BY <1>0, <2>1, <2>4 DEF EndianInv, Silent
    <3>3. NumbersSurvive'
      BY <1>0, <2>1 DEF EndianInv, NumbersSurvive
    <3>. QED  BY <3>2, <3>3
  <2>9. Agreed'
    <3>. SUFFICES ASSUME result'["client"] = "true" PROVE Agreed'
      BY DEF Agreed
    <3>1. word(n) \in {Swap, Keep}
      BY <2>4
    <3>2. n = 4 /\ SubSeq(wire["client"], 1, 4) = word(n)
      BY <1>0, <2>2, <3>1, AnswerUnderstood DEF word
    <3>3. wire["client"] # <<>>
      BY <2>2, <3>2, EmptySeq
    <3>4. result["server"] = "true"
      BY <3>3 DEF EndianInv, Unanswered
    <3>5. /\ swap["server"] = ServerSwapsDue
          /\ SubSeq(wire["client"], 1, 4) = AnswerDue
          /\ ~split => Stream("client", 0, 4)
      BY <1>0, <3>3, <3>4 DEF EndianInv, Answered
    <3>6. swap'["client"] = (AnswerDue = Swap)
      BY <2>4, <3>2, <3>5
    <3>7. ASSUME ~split' PROVE (\A e \in Ends : Stream(e, Len(got[e]), 0))'
      <4>1. ~split
        BY <2>1, <3>7
      <4>2. got["client"] = <<>> /\ got["server"] = <<>> /\ out["client"] = <<>>
            /\ wire["server"] = <<>>
        BY <1>0, <3>4, <4>1 DEF EndianInv, Silent
      <4>3. Len(<<>>) = 0
        BY EmptySeq
      <4>4. Stream("server", 0, 0)'
        BY <1>0, <2>4, <4>2, <4>3, TheEnds, TheStreamBegins
      <4>5. Stream("client", 0, 4 - 4)'
        <5>1. 0 <= Len(out[Peer("client")])
          BY <1>0, TheCodes
        <5>2. out'[Peer("client")] = out[Peer("client")]
              /\ swap'[Peer("client")] = swap[Peer("client")] /\ big' = big
          BY <1>0, <2>4, TheEnds
        <5>3. wire'["client"] = SubSeq(wire["client"], 4 + 1, Len(wire["client"]))
          BY <2>4, <3>2
        <5>4. Stream("client", 0, 4)
          BY <3>5, <4>1
        <5>5. 4 \in 0..4 /\ 4 \in Nat /\ 0 \in Nat
          OBVIOUS
        <5>. QED  BY <1>0, <5>1, <5>2, <5>3, <5>4, <5>5, TheStreamShrinks
      <4>6. Len(got'["client"]) = 0 /\ Len(got'["server"]) = 0 /\ 4 - 4 = 0
        BY <1>0, <4>2, <4>3
      <4>. QED  BY <4>4, <4>5, <4>6 DEF Ends, Stream
    <3>. QED  BY <1>due, <2>4, <3>4, <3>5, <3>6, <3>7 DEF Agreed
  <2>. QED  BY <1>0, <2>5, <2>6, <2>7, <2>8, <2>9 DEF EndianInv
<1>. QED  BY <1>1, <1>2 DEF ClientReceives

LEMMA ServerReceivesStep == ASSUME EndianInv, ServerReceives PROVE EndianInv'
<1>0. /\ EndianTypeOK /\ EndianTypeOK'
      /\ result \in [Ends -> {"none", "waits", "true", "false"}]
      /\ wire \in [Ends -> Seq(Byte)]
      /\ swap \in [Ends -> BOOLEAN]
      /\ split \in BOOLEAN
      /\ "client" \in Ends /\ "server" \in Ends
      /\ result["server"] = "waits"
      /\ UNCHANGED <<big, broken, out, got>>
  BY EndianTypesStep DEF EndianInv, EndianNext, EndianTypeOK, Ends, ServerReceives
<1>due. Question' = Question /\ AnswerDue' = AnswerDue /\ ServerSwapsDue' = ServerSwapsDue
  BY <1>0 DEF Question, Memory, AnswerDue, ServerSwapsDue
<1>was. /\ result["client"] # "true"
        /\ wire["client"] = <<>>
        /\ wire["server"] \in {<<>>, Question}
        /\ result["client"] = "none" => wire["server"] = <<>>
        /\ got["client"] = <<>> /\ got["server"] = <<>>
        /\ out["client"] = <<>> /\ out["server"] = <<>>
  BY <1>0 DEF EndianInv, Agreed, Asked, Unanswered, Silent
<1>1. CASE Fails("server")
  <2>1. /\ result' = [result EXCEPT !["server"] = "false"]
        /\ UNCHANGED <<swap, wire, split>>
    BY <1>1 DEF Fails
  <2>2. result'["server"] = "false" /\ result'["client"] = result["client"]
    BY <1>0, <2>1
  <2>3. Asked' /\ Unanswered' /\ Answered' /\ Agreed'
    BY <1>0, <1>was, <2>1, <2>2 DEF Asked, Unanswered, Answered, Agreed
  <2>4. Silent' /\ NumbersSurvive'
    BY <1>0, <1>was, <2>1, <2>2 DEF EndianInv, Silent, NumbersSurvive
  <2>. QED  BY <1>0, <2>3, <2>4 DEF EndianInv
<1>2. CASE TakesQuestion
  <2>1. PICK n \in Lumps("server"), before \in [1..4 -> WordBytes] :
           LET word == Word("server", n, before)
           IN  /\ \/ /\ Accepts(word)
                     /\ result' = [result EXCEPT !["server"] = "true"]
                     /\ wire' = IF broken
                                THEN Take("server", n)
                                ELSE [Take("server", n) EXCEPT !["client"] = Answer(word)]
                  \/ /\ word \notin {Magic, Reverse(Magic)}
                     /\ result' = [result EXCEPT !["server"] = "false"]
                     /\ wire' = Take("server", n)
                     /\ UNCHANGED swap
               /\ split' = (split \/ n < 4)
    BY <1>2 DEF TakesQuestion
  <2>2. n \in 0..4 /\ n <= Len(wire["server"]) /\ (n = 0 => broken)
    BY <1>0, TheLumps
  <2>. DEFINE word == Word("server", n, before)
              taken == Take("server", n)
  <2>3. /\ taken["client"] = <<>>
        /\ taken["server"] = SubSeq(wire["server"], n + 1, Len(wire["server"]))
        /\ taken \in [Ends -> Seq(Byte)]
    <3>1. SubSeq(wire["server"], n + 1, Len(wire["server"])) \in Seq(Byte)
      <4>1. wire["server"] \in Seq(Byte) /\ Len(wire["server"]) \in Nat
        BY <1>0, LenProperties
      <4>. QED  BY <2>2, <4>1, Dropped
    <3>. QED  BY <1>0, <1>was, <3>1 DEF Take
  <2>4. NumbersSurvive'
    <3>1. ~split' => ~split
      BY <2>1
    <3>. QED  BY <1>0, <3>1 DEF EndianInv, NumbersSurvive
  <2>5. ~split' => n = 4
    <3>1. split' = (split \/ n < 4)
      BY <2>1
    <3>2. ~split' => ~(n < 4)
      BY <3>1
    <3>. QED  BY <2>2, <3>2
  <2>. HIDE DEF word, taken
  <2>6. CASE word \notin {Magic, Reverse(Magic)} /\ wire' = taken
             /\ result' = [result EXCEPT !["server"] = "false"]
    <3>1. /\ result'["server"] = "false" /\ result'["client"] = result["client"]
          /\ wire'["client"] = <<>>
      BY <1>0, <2>3, <2>6
    <3>2. Asked' /\ Unanswered' /\ Answered' /\ Agreed'
      BY <1>was, <3>1 DEF Asked, Unanswered, Answered, Agreed
    <3>3. Silent'
      BY <1>0, <1>was, <3>1 DEF Silent
    <3>. QED  BY <1>0, <2>4, <3>2, <3>3 DEF EndianInv
  <2>7. CASE /\ Accepts(word)
             /\ result' = [result EXCEPT !["server"] = "true"]
             /\ wire' = IF broken THEN taken ELSE [taken EXCEPT !["client"] = Answer(word)]
    <3>1. /\ result'["server"] = "true" /\ result'["client"] = result["client"]
          /\ swap'["server"] = ServerSwaps(word)
          /\ wire'["server"] = taken["server"]
          /\ wire'["client"] = IF broken THEN <<>> ELSE Answer(word)
      BY <1>0, <2>3, <2>7 DEF Accepts
    <3>2. Asked' /\ Unanswered' /\ Agreed'
      BY <1>was, <3>1 DEF Asked, Unanswered, Agreed
    <3>3. Silent'
      <4>1. ASSUME ~split' PROVE wire'["server"] = <<>>
        <5>1. n = 4
          BY <2>5, <4>1
        <5>2. wire["server"] = Question /\ Len(Question) = 4
          <6>1. Len(<<>>) = 0 /\ Len(Question) = 4
            BY <1>0, EmptySeq, TheWords, MemoryOfWord DEF Question, EndianTypeOK
          <6>. QED  BY <1>was, <2>2, <5>1, <6>1
        <5>. QED  BY <2>3, <3>1, <5>1, <5>2, SubSeqEmpty
      <4>. QED  BY <1>0, <1>was, <3>1, <4>1 DEF Silent
    <3>4. Answered'
      <4>1. CASE broken
        BY <1>0, <3>1, <4>1 DEF Answered
      <4>2. CASE ~broken /\ result["client"] = "waits"
        <5>1. n # 0 /\ n \in 1..4
          BY <2>2, <4>2
        <5>2. wire["server"] = Question
          BY <1>was, <2>2, <5>1, EmptySeq
        <5>3. Answer(word) = AnswerDue /\ ServerSwaps(word) = ServerSwapsDue
          BY <1>0, <2>7, <5>1, <5>2, QuestionUnderstood DEF Accepts, word
        <5>4. /\ AnswerDue \in Seq(Byte) /\ Len(AnswerDue) = 4
              /\ SubSeq(AnswerDue, 1, 4) = AnswerDue
          <6>1. AnswerDue \in Seq(Byte) /\ Len(AnswerDue) = 4
            BY TheWords DEF AnswerDue
          <6>. QED  BY <6>1, SubSeqFull
        <5>5. wire'["client"] = AnswerDue
          BY <3>1, <4>2, <5>3
        <5>6. Stream("client", 0, 4)'
          BY <1>0, <1>was, <5>4, <5>5, TheEnds, TheStreamBegins
        <5>7. /\ result'["client"] = "waits"
              /\ swap'["server"] = ServerSwapsDue'
              /\ Len(wire'["client"]) >= 4
              /\ SubSeq(wire'["client"], 1, 4) = AnswerDue'
          <6>1. result'["client"] = "waits" /\ swap'["server"] = ServerSwapsDue'
            BY <1>due, <3>1, <4>2, <5>3, Zenon
          <6>2. Len(wire'["client"]) = 4 /\ SubSeq(wire'["client"], 1, 4) = AnswerDue'
            BY <1>due, <5>4, <5>5
          <6>. QED  BY <6>1, <6>2
        <5>. QED  BY <5>6, <5>7 DEF Answered
      <4>3. CASE ~broken /\ result["client"] = "none"
        <5>1. n = 0
          <6>1. Len(wire["server"]) = 0
            BY <1>was, <4>3, EmptySeq
          <6>. QED  BY <2>2, <6>1
        <5>. QED  BY <2>2, <4>3, <5>1
      <4>4. CASE result["client"] \notin {"none", "waits"}
        BY <3>1, <4>4 DEF Answered
      <4>. QED  BY <4>1, <4>2, <4>3, <4>4
    <3>. QED  BY <1>0, <2>4, <3>2, <3>3, <3>4 DEF EndianInv
  <2>. QED  BY <2>1, <2>6, <2>7 DEF word, taken
<1>. QED  BY <1>1, <1>2 DEF ServerReceives

LEMMA BreaksStep == ASSUME EndianInv, Breaks PROVE EndianInv'
<1>1. /\ EndianTypeOK /\ EndianTypeOK'
      /\ broken'
      /\ UNCHANGED <<big, result, swap, wire, split, out, got>>
  BY EndianTypesStep DEF EndianInv, EndianNext, Breaks
<1>2. /\ Stream("client", 0, 4) => Stream("client", 0, 4)'
      /\ (\A e \in Ends : Stream(e, Len(got[e]), 0))
             => (\A e \in Ends : Stream(e, Len(got[e]), 0))'
  BY <1>1, StreamsStay
<1>3. Question' = Question /\ AnswerDue' = AnswerDue /\ ServerSwapsDue' = ServerSwapsDue
  BY <1>1 DEF Question, Memory, AnswerDue, ServerSwapsDue
<1>4. Asked' /\ Unanswered' /\ Silent' /\ NumbersSurvive'
  BY <1>1, <1>3 DEF EndianInv, Asked, Unanswered, Silent, NumbersSurvive
<1>5. Answered'
  BY <1>1, <1>2, <1>3 DEF EndianInv, Answered
<1>6. Agreed'
  BY <1>1, <1>2, <1>3 DEF EndianInv, Agreed
<1>. QED  BY <1>1, <1>4, <1>5, <1>6 DEF EndianInv

LEMMA SendNumberStep == ASSUME EndianInv, NEW e \in Ends, SendNumber(e) PROVE EndianInv'
<1>1. /\ EndianTypeOK /\ EndianTypeOK'
      /\ result[e] = "true" /\ ~broken
      /\ UNCHANGED <<big, result, swap, broken, split, got>>
      /\ "client" \in Ends /\ "server" \in Ends
      /\ wire \in [Ends -> Seq(Byte)] /\ out \in [Ends -> Seq(Numbers)]
      /\ got \in [Ends -> Seq(Seq(Byte))]
  BY EndianTypesStep DEF EndianInv, EndianNext, EndianTypeOK, Ends, SendNumber
<1>2. PICK number \in Numbers :
         /\ wire' = [wire EXCEPT ![Peer(e)] = @ \o Code(e, number)]
         /\ out' = [out EXCEPT ![e] = Append(@, number)]
  BY DEF SendNumber, Code
<1>3. /\ Peer(e) \in Ends /\ Peer(e) # e /\ Peer(Peer(e)) = e
      /\ \A x \in Ends : x = e \/ x = Peer(e)
  BY TheEnds DEF Ends
<1>4. /\ wire'[Peer(e)] = wire[Peer(e)] \o Code(e, number)
      /\ wire'[e] = wire[e]
      /\ out'[e] = Append(out[e], number)
      /\ out'[Peer(e)] = out[Peer(e)]
  BY <1>1, <1>2, <1>3
<1>5. Question' = Question /\ AnswerDue' = AnswerDue /\ ServerSwapsDue' = ServerSwapsDue
  BY <1>1 DEF Question, Memory, AnswerDue, ServerSwapsDue
<1>6. result["server"] = "true"
  BY <1>1 DEF EndianInv, Agreed, Ends
<1>7. ASSUME NEW last \in Nat, NEW h \in Nat,
             Stream(Peer(e), last, h), last <= Len(out[e])
      PROVE  Stream(Peer(e), last, h)'
  BY <1>1, <1>3, <1>4, <1>7, TheStreamGrows
<1>8. ASSUME NEW last, NEW h, Stream(e, last, h)
      PROVE  Stream(e, last, h)'
  BY <1>1, <1>3, <1>4, <1>8, TheStreamStays
<1>9. /\ out[e] \in Seq(Seq(Byte)) /\ out[Peer(e)] \in Seq(Seq(Byte))
      /\ out'[e] \in Seq(Seq(Byte))
      /\ got[e] \in Seq(Seq(Byte)) /\ got[Peer(e)] \in Seq(Seq(Byte))
      /\ Len(out[e]) \in Nat /\ number \in Seq(Byte)
  <2>1. out'[e] \in Seq(Seq(Byte))
    <3>. HIDE DEF EndianTypeOK
    <3>1. \A x \in Ends : out[x] \in Seq(Seq(Byte))
      BY <1>1, NumbersAreBytes
    <3>2. number \in Seq(Byte)
      BY NumberBytes
    <3>. QED  BY <1>4, <3>1, <3>2, AppendProperties
  <2>. QED  BY <1>1, <1>3, <2>1, NumbersAreBytes, NumberBytes, LenProperties
<1>10. NumbersSurvive'
  <2>. SUFFICES ASSUME ~split', NEW x \in Ends
                PROVE  IsPrefix(got[x], out[Peer(x)])'
    BY DEF NumbersSurvive
  <2>1. IsPrefix(got[x], out[Peer(x)])
    BY <1>1 DEF EndianInv, NumbersSurvive
  <2>2. CASE x = e
    BY <1>1, <1>4, <2>1, <2>2
  <2>3. CASE x = Peer(e)
    <3>1. /\ Len(got[x]) <= Len(out[e])
          /\ \A i \in 1..Len(got[x]) : got[x][i] = out[e][i]
      BY <1>3, <1>9, <2>1, <2>3, PrefixOf
    <3>2. /\ Len(out'[e]) = Len(out[e]) + 1
          /\ \A i \in 1..Len(out[e]) : out'[e][i] = out[e][i]
      BY <1>4, <1>9, AppendProperties
    <3>3. Len(got[x]) \in Nat
      BY <1>9, <2>3, LenProperties
    <3>4. /\ Len(got[x]) <= Len(out'[e])
          /\ \A i \in 1..Len(got[x]) : got[x][i] = out'[e][i]
      <4>1. Len(out[e]) \in Nat
        BY <1>9
      <4>2. \A i \in 1..Len(got[x]) : i \in 1..Len(out[e])
        BY <3>1, <3>3, <4>1
      <4>3. Len(got[x]) <= Len(out'[e])
        BY <3>1, <3>2, <3>3, <4>1
      <4>. QED  BY <3>1, <3>2, <4>2, <4>3
    <3>5. IsPrefix(got[x], out'[e])
      BY <1>9, <2>3, <3>4, PrefixOf
    <3>. QED  BY <1>1, <1>3, <2>3, <3>5
  <2>. QED  BY <1>3, <2>2, <2>3
<1>11. Asked' /\ Unanswered'
  BY <1>1, <1>6 DEF Asked, Unanswered
<1>12. Silent'
  <2>1. CASE e = "client"
    BY <1>1, <1>6, <2>1 DEF Silent
  <2>2. CASE e = "server"
    BY <1>1, <1>4, <1>6, <2>2, TheEnds DEF EndianInv, Silent
  <2>. QED  BY <2>1, <2>2 DEF Ends
<1>13. Answered'
  <2>. SUFFICES ASSUME result["client"] \in {"none", "waits"} PROVE Answered'
    BY <1>1 DEF Answered
  <2>1. e = "server" /\ Peer(e) = "client"
    BY <1>1, TheEnds DEF Ends
  <2>2. /\ result["client"] = "waits"
        /\ swap["server"] = ServerSwapsDue
        /\ SubSeq(wire["client"], 1, 4) = AnswerDue
        /\ ~split => Stream("client", 0, 4)
        /\ ~(broken /\ wire["client"] = <<>>)
        /\ Len(wire["client"]) >= 4
    BY <1>1, <1>6 DEF EndianInv, Answered
  <2>3. /\ wire["client"] \in Seq(Byte) /\ Code(e, number) \in Seq(Byte)
        /\ Len(wire["client"]) \in Nat /\ Len(Code(e, number)) \in Nat
    BY <1>1, CodeBytes, LenProperties
  <2>4. wire'["client"] = wire["client"] \o Code(e, number)
    BY <1>4, <2>1
  <2>5. SubSeq(wire'["client"], 1, 4) = AnswerDue
    <3>1. 1 \in 1..Len(wire["client"]) /\ 4 \in 1..Len(wire["client"])
      BY <2>2, <2>3
    <3>. QED  BY <2>2, <2>3, <2>4, <3>1, SubSeqOfConcat1
  <2>6. Len(wire'["client"]) >= 4
    <3>1. Len(wire'["client"]) = Len(wire["client"]) + Len(Code(e, number))
      BY <2>3, <2>4, ConcatProperties
    <3>. QED  BY <2>2, <2>3, <3>1
  <2>7. ~split => Stream("client", 0, 4)'
    <3>1. 0 \in Nat /\ 4 \in Nat /\ 0 <= Len(out[e])
      BY <1>9
    <3>2. Stream(Peer(e), 0, 4) => Stream(Peer(e), 0, 4)'
      BY <1>7, <3>1
    <3>. QED  BY <2>1, <2>2, <3>2
  <2>. QED  BY <1>1, <1>5, <2>2, <2>5, <2>6, <2>7 DEF Answered
<1>14. Agreed'
  <2>. SUFFICES ASSUME result["client"] = "true" PROVE Agreed'
    BY <1>1 DEF Agreed
  <2>1. /\ swap["server"] = ServerSwapsDue
        /\ swap["client"] = (AnswerDue = Swap)
        /\ ~split => \A x \in Ends : Stream(x, Len(got[x]), 0)
    BY DEF EndianInv, Agreed
  <2>2. ASSUME ~split PROVE (\A x \in Ends : Stream(x, Len(got[x]), 0))'
    <3>1. Stream(e, Len(got[e]), 0)'
      <4>1. PICK last : last = Len(got[e])
        OBVIOUS
      <4>2. Stream(e, last, 0)'
        BY <1>8, <2>1, <2>2, <4>1
      <4>. QED  BY <1>1, <4>1, <4>2 DEF Stream
    <3>2. Stream(Peer(e), Len(got[Peer(e)]), 0)'
      <4>1. Len(got[Peer(e)]) \in Nat
        BY <1>9, LenProperties
      <4>2. PICK last \in Nat : last = Len(got[Peer(e)])
        BY <4>1
      <4>3. last <= Len(out[e])
        <5>1. IsPrefix(got[Peer(e)], out[Peer(Peer(e))])
          BY <1>3, <2>2 DEF EndianInv, NumbersSurvive
        <5>. QED  BY <1>3, <4>2, <5>1 DEF IsPrefix
      <4>4. Stream(Peer(e), last, 0)'
        BY <1>3, <1>7, <2>1, <2>2, <4>2, <4>3
      <4>. QED  BY <1>1, <4>2, <4>4 DEF Stream
    <3>. QED  BY <1>3, <3>1, <3>2
  <2>. QED  BY <1>1, <1>5, <1>6, <2>1, <2>2 DEF Agreed
<1>. QED  BY <1>1, <1>10, <1>11, <1>12, <1>13, <1>14 DEF EndianInv

LEMMA RecvNumberStep == ASSUME EndianInv, NEW e \in Ends, RecvNumber(e) PROVE EndianInv'
<1>1. /\ EndianTypeOK /\ EndianTypeOK'
      /\ result[e] = "true"
      /\ Len(got[e]) < Len(out[Peer(e)])
      /\ UNCHANGED <<big, result, swap, broken, split, out>>
      /\ "client" \in Ends /\ "server" \in Ends
      /\ wire \in [Ends -> Seq(Byte)] /\ got \in [Ends -> Seq(Seq(Byte))]
  BY EndianTypesStep DEF EndianInv, EndianNext, EndianTypeOK, Ends, RecvNumber
<1>2. /\ Peer(e) \in Ends /\ Peer(e) # e /\ Peer(Peer(e)) = e
      /\ \A x \in Ends : x = e \/ x = Peer(e)
  BY TheEnds DEF Ends
<1>3. result["client"] = "true"
  <2>. SUFFICES ASSUME result["client"] # "true" PROVE FALSE
    OBVIOUS
  <2>1. e = "server" /\ out["client"] = <<>>
    BY <1>1 DEF EndianInv, Silent, Ends
  <2>2. Len(out[Peer(e)]) = 0 /\ Len(got[e]) \in Nat
    BY <1>1, <2>1, TheEnds, EmptySeq, LenProperties
  <2>. QED  BY <1>1, <2>2
<1>4. /\ result["server"] = "true"
      /\ swap["server"] = ServerSwapsDue
      /\ swap["client"] = (AnswerDue = Swap)
      /\ ~split => \A x \in Ends : Stream(x, Len(got[x]), 0)
  BY <1>3 DEF EndianInv, Agreed
<1>5. AnswerDue' = AnswerDue /\ ServerSwapsDue' = ServerSwapsDue
  BY <1>1 DEF AnswerDue, ServerSwapsDue
<1>6. Asked' /\ Unanswered' /\ Answered' /\ Silent'
  BY <1>1, <1>3, <1>4 DEF Asked, Unanswered, Answered, Silent
<1>last. PICK last : last = Len(got[e])
  OBVIOUS
<1>number. PICK number : number = out[Peer(e)][last + 1]
  OBVIOUS
<1>. DEFINE size   == Len(number)
            bytes  == SubSeq(wire[e], 1, size)
            value  == Memory(e, Swapped(e, bytes))
<1>7. /\ got' = [got EXCEPT ![e] = Append(@, value)]
      /\ wire' = [wire EXCEPT ![e] = SubSeq(@, size + 1, Len(@))]
  BY <1>last, <1>number DEF RecvNumber, Take
<1>8. last \in Nat /\ last < Len(out[Peer(e)])
  BY <1>1, <1>last, LenProperties
<1>. HIDE DEF value
<1>9. /\ got'[e] = Append(got[e], value) /\ got'[Peer(e)] = got[Peer(e)]
      /\ wire'[e] = SubSeq(wire[e], size + 1, Len(wire[e]))
      /\ wire'[Peer(e)] = wire[Peer(e)]
  BY <1>1, <1>2, <1>7
<1>10. ASSUME ~split
       PROVE  /\ value = number /\ number \in Seq(Byte)
              /\ Stream(e, last + 1, 0)'
  <2>1. Stream(e, last, 0)
    BY <1>4, <1>10, <1>last
  <2>2. /\ number \in Numbers
        /\ bytes = Code(Peer(e), number)
        /\ Stream(e, last + 1, size)
    BY <1>1, <1>8, <1>number, <2>1, TheNextNumber
  <2>3. value = number
    <3>1. Agreed
      BY DEF EndianInv
    <3>. HIDE DEF bytes
    <3>. QED  BY <1>1, <1>3, <2>2, <3>1, NumberSurvives DEF value
  <2>4. size \in Nat /\ number \in Seq(Byte)
    BY <2>2, NumberBytes
  <2>5. Stream(e, last + 1, size - size)'
    <3>1. size \in 0..size /\ last + 1 \in Nat /\ last + 1 <= Len(out[Peer(e)])
      <4>1. Len(out[Peer(e)]) \in Nat
        BY <1>1, TheCodes
      <4>2. last + 1 \in Nat /\ last + 1 <= Len(out[Peer(e)])
        BY <1>8, <4>1
      <4>. HIDE DEF size
      <4>. QED  BY <2>4, <4>2
    <3>2. /\ out'[Peer(e)] = out[Peer(e)]
          /\ swap'[Peer(e)] = swap[Peer(e)] /\ big' = big
      BY <1>1
    <3>. HIDE DEF size
    <3>. QED  BY <1>1, <1>9, <2>2, <2>4, <3>1, <3>2, TheStreamShrinks
  <2>6. size - size = 0
    BY <2>4
  <2>7. Stream(e, last + 1, 0)'
    <3>. HIDE DEF size
    <3>. QED  BY <2>5, <2>6 DEF Stream
  <2>. QED  BY <2>3, <2>4, <2>7
<1>11. NumbersSurvive'
  <2>. SUFFICES ASSUME ~split', NEW x \in Ends
                PROVE  IsPrefix(got[x], out[Peer(x)])'
    BY DEF NumbersSurvive
  <2>1. ~split /\ IsPrefix(got[x], out[Peer(x)])
    BY <1>1 DEF EndianInv, NumbersSurvive
  <2>2. CASE x = Peer(e)
    BY <1>1, <1>9, <2>1, <2>2
  <2>3. CASE x = e
    <3>. DEFINE sent == out[Peer(e)]
    <3>1. /\ sent \in Seq(Seq(Byte)) /\ got[e] \in Seq(Seq(Byte))
          /\ Len(sent) \in Nat /\ value = number /\ value \in Seq(Byte)
      BY <1>1, <1>2, <1>10, <2>1, NumbersAreBytes, LenProperties
    <3>2. \A i \in 1..last : got[e][i] = sent[i]
      BY <1>last, <2>1, <2>3, <3>1, PrefixOf
    <3>3. /\ got'[e] \in Seq(Seq(Byte))
          /\ Len(got'[e]) = last + 1
          /\ \A i \in 1..last : got'[e][i] = got[e][i]
          /\ got'[e][last + 1] = value
      BY <1>9, <1>last, <3>1, AppendProperties
    <3>4. \A i \in 1..(last + 1) : i \in 1..last \/ i = last + 1
      BY <1>8
    <3>5. \A i \in 1..Len(got'[e]) : got'[e][i] = sent[i]
      BY <1>number, <3>1, <3>2, <3>3, <3>4
    <3>6. Len(got'[e]) <= Len(sent)
      BY <1>8, <3>1, <3>3
    <3>7. IsPrefix(got'[e], sent)
      <4>. HIDE DEF sent
      <4>. QED  BY <3>1, <3>3, <3>5, <3>6, PrefixOf
    <3>. QED  BY <1>1, <2>3, <3>7
  <2>. QED  BY <1>2, <2>2, <2>3
<1>12. Agreed'
  <2>1. ASSUME ~split PROVE (\A x \in Ends : Stream(x, Len(got[x]), 0))'
    <3>1. Stream(e, Len(got[e]), 0)'
      <4>2. Stream(e, last + 1, 0)'
        BY <1>10, <2>1
      <4>3. Len(got'[e]) = last + 1
        <5>1. got[e] \in Seq(Seq(Byte)) /\ value \in Seq(Byte)
          BY <1>1, <1>10, <2>1
        <5>. QED  BY <1>9, <1>last, <5>1, AppendProperties
      <4>. QED  BY <4>2, <4>3 DEF Stream
    <3>2. Stream(Peer(e), Len(got[Peer(e)]), 0)'
      <4>1. PICK n : n = Len(got[Peer(e)])
        OBVIOUS
      <4>2. Stream(Peer(e), n, 0)'
        BY <1>1, <1>2, <1>4, <1>9, <2>1, <4>1, TheStreamStays
      <4>. QED  BY <1>9, <4>1, <4>2 DEF Stream
    <3>. QED  BY <1>2, <3>1, <3>2
  <2>. QED  BY <1>1, <1>4, <1>5, <2>1 DEF Agreed
<1>. QED  BY <1>1, <1>6, <1>11, <1>12 DEF EndianInv

-------------------------------------------------------------------------------
(* The theorems.                                                           *)

\* What is on the wire of the negotiation and of the numbers after it, at every
\* moment (negotiateEndianClient, negotiateEndianServer, send, recv).
THEOREM EndianAlways == EndianSpec => []EndianInv
<1>1. EndianInit => EndianInv
  BY EndianInvInit
<1>2. EndianInv /\ [EndianNext]_endianVars => EndianInv'
  <2>. SUFFICES ASSUME EndianInv, [EndianNext]_endianVars PROVE EndianInv'
    OBVIOUS
  <2>1. CASE EndianNext
    BY <2>1, ClientSendsStep, ClientReceivesStep, ServerReceivesStep, SendNumberStep,
       RecvNumberStep, BreaksStep DEF EndianNext
  <2>2. CASE UNCHANGED endianVars
    <3>1. UNCHANGED <<big, result, swap, wire, broken, split, out, got>>
      BY <2>2 DEF endianVars
    <3>2. /\ Stream("client", 0, 4) => Stream("client", 0, 4)'
          /\ (\A e \in Ends : Stream(e, Len(got[e]), 0))
                => (\A e \in Ends : Stream(e, Len(got[e]), 0))'
      BY <3>1, StreamsStay
    <3>3. Question' = Question /\ AnswerDue' = AnswerDue /\ ServerSwapsDue' = ServerSwapsDue
      BY <3>1 DEF Question, Memory, AnswerDue, ServerSwapsDue
    <3>4. EndianTypeOK' /\ Asked' /\ Unanswered' /\ Silent' /\ NumbersSurvive'
      BY <3>1, <3>3
      DEF EndianInv, EndianTypeOK, Asked, Unanswered, Silent, NumbersSurvive
    <3>5. Answered' /\ Agreed'
      BY <3>1, <3>2, <3>3 DEF EndianInv, Answered, Agreed
    <3>. QED  BY <3>4, <3>5 DEF EndianInv
  <2>. QED  BY <2>1, <2>2
<1>. QED  BY <1>1, <1>2, PTL DEF EndianSpec

\* The two ends agree, for every set of numbers, in whatever lumps the words come
\* and whatever was in memory (negotiateEndianClient, negotiateEndianServer).
THEOREM EndsAlwaysAgree == EndianSpec => []EndsAgree
<1>1. EndianInv => EndsAgree
  <2>. SUFFICES ASSUME EndianInv, result["client"] = "true"
                PROVE  /\ result["server"] = "true"
                       /\ (swap["client"] # swap["server"]) <=> (big["client"] # big["server"])
    BY DEF EndsAgree
  <2>1. /\ result["server"] = "true"
        /\ swap["server"] = (big["client"] /\ ~big["server"])
        /\ swap["client"] = (AnswerDue = Swap)
    BY DEF EndianInv, Agreed, ServerSwapsDue
  <2>2. (AnswerDue = Swap) = (~big["client"] /\ big["server"])
    BY DEF AnswerDue, Swap, Keep
  <2>3. big["client"] \in BOOLEAN /\ big["server"] \in BOOLEAN
    BY DEF EndianInv, EndianTypeOK, Ends
  <2>. QED  BY <2>1, <2>2, <2>3, Zenon
<1>. QED  BY <1>1, EndianAlways, PTL

\* The numbers of one, two and four bytes arrive as they were sent, in their
\* order, for every set of such numbers (send, recv).
THEOREM NumbersAlwaysSurvive == EndianSpec => []NumbersSurvive
<1>1. EndianInv => NumbersSurvive
  BY DEF EndianInv
<1>. QED  BY <1>1, EndianAlways, PTL
=============================================================================
