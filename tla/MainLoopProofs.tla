----------------------------- MODULE MainLoopProofs -----------------------------
(***************************************************************************)
(* Proofs about MainLoop.tla, for any number of users, descriptors and     *)
(* providers: types, the agreement of the client list with the select set, *)
(* the validity of the iterator, the marks, accept, what a scan steps      *)
(* over, the password, and the end of the program.                         *)
(***************************************************************************)
EXTENDS MainLoop, SequenceTheorems, TLAPS

-------------------------------------------------------------------------------
(* Sequences without repetition.                                           *)

NoTwice(s) == \A i, j \in 1..Len(s) : s[i] = s[j] => i = j

\* What ToSet of the community modules holds, in terms of indices.
LEMMA Elements ==
    ASSUME NEW S, NEW s \in Seq(S)
    PROVE  /\ ToSet(s) \subseteq S
           /\ \A x : x \in ToSet(s) <=> \E i \in 1..Len(s) : s[i] = x
<1>1. DOMAIN s = 1..Len(s) /\ \A i \in 1..Len(s) : s[i] \in S
  BY LenProperties, ElementOfSeq
<1>. QED  BY <1>1 DEF ToSet

\* Appending something new to a sequence without repetition (addReader, accept).
LEMMA Appending ==
    ASSUME NEW S, NEW s \in Seq(S), NEW e \in S
    PROVE  /\ Append(s, e) \in Seq(S)
           /\ ToSet(Append(s, e)) = ToSet(s) \cup {e}
           /\ NoTwice(s) /\ e \notin ToSet(s) => NoTwice(Append(s, e))
<1>. DEFINE t == Append(s, e)
<1>1. /\ t \in Seq(S)
      /\ Len(t) = Len(s) + 1
      /\ \A i \in 1..Len(s) : t[i] = s[i]
      /\ t[Len(s) + 1] = e
      /\ Len(s) \in Nat
  BY AppendProperties, LenProperties
<1>2. \A x : x \in ToSet(t) <=> \E i \in 1..Len(t) : t[i] = x
  BY <1>1, Elements
<1>3. \A x : x \in ToSet(s) <=> \E i \in 1..Len(s) : s[i] = x
  BY Elements
<1>. HIDE DEF t
<1>4. 1..Len(t) = 1..Len(s) \cup {Len(s) + 1}
  BY <1>1
<1>5. \A x : x \in ToSet(t) <=> x \in ToSet(s) \cup {e}
  BY <1>1, <1>2, <1>3, <1>4
<1>6. ASSUME NoTwice(s), e \notin ToSet(s)
      PROVE  NoTwice(t)
  <2>1. \A i \in 1..Len(s) : s[i] # e
    BY <1>3, <1>6
  <2>. QED  BY <1>1, <1>4, <1>6, <2>1 DEF NoTwice
<1>. QED  BY <1>1, <1>5, <1>6 DEF t

\* Taking away the first of a sequence without repetition (accept).
LEMMA TakingHead ==
    ASSUME NEW S, NEW s \in Seq(S), s # <<>>, NoTwice(s)
    PROVE  /\ Head(s) \in S /\ Head(s) \in ToSet(s)
           /\ Tail(s) \in Seq(S)
           /\ ToSet(Tail(s)) = ToSet(s) \ {Head(s)}
           /\ NoTwice(Tail(s))
<1>. DEFINE t == Tail(s)
<1>1. /\ t \in Seq(S)
      /\ Len(t) = Len(s) - 1
      /\ \A i \in 1..Len(t) : t[i] = s[i + 1]
      /\ Head(s) \in S
  BY HeadTailProperties
<1>2. Len(s) \in Nat \ {0} /\ Head(s) = s[1]
  BY EmptySeq
<1>3. \A x : x \in ToSet(t) <=> \E i \in 1..Len(t) : t[i] = x
  BY <1>1, Elements
<1>4. \A x : x \in ToSet(s) <=> \E i \in 1..Len(s) : s[i] = x
  BY Elements
<1>. HIDE DEF t
<1>5. \A i \in 1..Len(s) : i # 1 => i - 1 \in 1..Len(t) /\ t[i - 1] = s[i]
  BY <1>1, <1>2
<1>6. \A i \in 1..Len(t) : i + 1 \in 1..Len(s) /\ i + 1 # 1
  BY <1>1, <1>2
<1>7. 1 \in 1..Len(s)
  BY <1>2
<1>8. \A x : x \in ToSet(t) <=> x \in ToSet(s) \ {Head(s)}
  <2>1. ASSUME NEW x, x \in ToSet(t)
        PROVE  x \in ToSet(s) \ {Head(s)}
    BY <1>1, <1>2, <1>3, <1>4, <1>6, <1>7, <2>1 DEF NoTwice
  <2>2. ASSUME NEW x, x \in ToSet(s) \ {Head(s)}
        PROVE  x \in ToSet(t)
    BY <1>2, <1>3, <1>4, <1>5, <2>2
  <2>. QED  BY <2>1, <2>2
<1>9. NoTwice(t)
  BY <1>1, <1>2, <1>6 DEF NoTwice
<1>. QED  BY <1>1, <1>2, <1>4, <1>7, <1>8, <1>9 DEF t

\* Taking an element out of a sequence without repetition (erase).
LEMMA Removing ==
    ASSUME NEW S, NEW s \in Seq(S), NEW p \in 1..Len(s)
    PROVE  /\ RemoveAt(s, p) \in Seq(S)
           /\ Len(RemoveAt(s, p)) = Len(s) - 1
           /\ \A i \in 1..(Len(s) - 1) :
                 RemoveAt(s, p)[i] = IF i < p THEN s[i] ELSE s[i + 1]
<1>. DEFINE a == SubSeq(s, 1, p - 1)
            b == SubSeq(s, p + 1, Len(s))
<1>1. Len(s) \in Nat /\ \A i \in 1..Len(s) : s[i] \in S
  BY LenProperties, ElementOfSeq
<1>2. /\ a \in Seq(S)
      /\ Len(a) = p - 1
      /\ \A i \in 1..(p - 1) : a[i] = s[i]
  <2>1. \A i \in 1..(p - 1) : s[i] \in S
    BY <1>1
  <2>2. /\ a \in Seq(S)
        /\ Len(a) = IF 1 <= p - 1 THEN p - 1 - 1 + 1 ELSE 0
        /\ \A i \in 1..(p - 1 - 1 + 1) : a[i] = s[1 + i - 1]
    BY <1>1, <2>1, SubSeqProperties
  <2>. HIDE DEF a
  <2>. QED  BY <1>1, <2>2
<1>3. /\ b \in Seq(S)
      /\ Len(b) = Len(s) - p
      /\ \A i \in 1..(Len(s) - p) : b[i] = s[p + i]
  <2>1. \A i \in (p + 1)..Len(s) : s[i] \in S
    BY <1>1
  <2>2. /\ b \in Seq(S)
        /\ Len(b) = IF p + 1 <= Len(s) THEN Len(s) - (p + 1) + 1 ELSE 0
        /\ \A i \in 1..(Len(s) - (p + 1) + 1) : b[i] = s[p + 1 + i - 1]
    BY <1>1, <2>1, SubSeqProperties
  <2>. HIDE DEF b
  <2>. QED  BY <1>1, <2>2
<1>4. RemoveAt(s, p) = a \o b
  BY DEF RemoveAt
<1>5. /\ a \o b \in Seq(S)
      /\ Len(a \o b) = Len(a) + Len(b)
      /\ \A i \in 1..(Len(a) + Len(b)) :
            (a \o b)[i] = IF i <= Len(a) THEN a[i] ELSE b[i - Len(a)]
  BY <1>2, <1>3, ConcatProperties
<1>. HIDE DEF a, b
<1>. QED  BY <1>1, <1>2, <1>3, <1>4, <1>5

LEMMA RemovingOne ==
    ASSUME NEW S, NEW s \in Seq(S), NEW p \in 1..Len(s), NoTwice(s)
    PROVE  /\ ToSet(RemoveAt(s, p)) = ToSet(s) \ {s[p]}
           /\ NoTwice(RemoveAt(s, p))
<1>. DEFINE t == RemoveAt(s, p)
<1>1. /\ t \in Seq(S)
      /\ Len(t) = Len(s) - 1
      /\ \A i \in 1..(Len(s) - 1) : t[i] = IF i < p THEN s[i] ELSE s[i + 1]
  BY Removing
<1>2. Len(s) \in Nat
  BY LenProperties
<1>3. \A x : x \in ToSet(t) <=> \E i \in 1..Len(t) : t[i] = x
  BY <1>1, Elements
<1>4. \A x : x \in ToSet(s) <=> \E i \in 1..Len(s) : s[i] = x
  BY Elements
<1>. HIDE DEF t
<1>5. \A i \in 1..Len(t) : \E j \in 1..Len(s) :
          /\ t[i] = s[j] /\ j # p
          /\ (i < p /\ j = i) \/ (i >= p /\ j = i + 1)
  BY <1>1, <1>2
<1>6. \A j \in 1..Len(s) : j # p => \E i \in 1..Len(t) : t[i] = s[j]
  <2>. SUFFICES ASSUME NEW j \in 1..Len(s), j # p
                PROVE  \E i \in 1..Len(t) : t[i] = s[j]
    OBVIOUS
  <2>1. CASE j < p
    BY <1>1, <1>2, <2>1
  <2>2. CASE j > p
    <3>1. j - 1 \in 1..Len(t) /\ ~(j - 1 < p) /\ (j - 1) + 1 = j
      BY <1>1, <1>2, <2>2
    <3>. QED  BY <1>1, <3>1
  <2>. QED  BY <1>2, <2>1, <2>2
<1>7. \A x : x \in ToSet(t) <=> x \in ToSet(s) \ {s[p]}
  <2>1. ASSUME NEW x, x \in ToSet(t)
        PROVE  x \in ToSet(s) \ {s[p]}
    BY <1>3, <1>4, <1>5, <2>1 DEF NoTwice
  <2>2. ASSUME NEW x, x \in ToSet(s) \ {s[p]}
        PROVE  x \in ToSet(t)
    <3>1. PICK j \in 1..Len(s) : s[j] = x
      BY <1>4, <2>2
    <3>2. j # p
      BY <2>2, <3>1
    <3>3. PICK i \in 1..Len(t) : t[i] = s[j]
      BY <1>6, <3>2
    <3>. QED  BY <1>3, <3>1, <3>3
  <2>. QED  BY <2>1, <2>2
<1>8. NoTwice(t)
  <2>. SUFFICES ASSUME NEW i \in 1..Len(t), NEW j \in 1..Len(t), t[i] = t[j]
                PROVE  i = j
    BY DEF NoTwice
  <2>1. PICK k \in 1..Len(s) :
          t[i] = s[k] /\ ((i < p /\ k = i) \/ (i >= p /\ k = i + 1))
    BY <1>5
  <2>2. PICK l \in 1..Len(s) :
          t[j] = s[l] /\ ((j < p /\ l = j) \/ (j >= p /\ l = j + 1))
    BY <1>5
  <2>3. k = l
    BY <2>1, <2>2 DEF NoTwice
  <2>. QED  BY <1>1, <1>2, <2>1, <2>2, <2>3
<1>. QED  BY <1>7, <1>8 DEF t

-------------------------------------------------------------------------------
(* The inductive invariant.                                                *)

\* A connection waits or is a client, once; whoever is neither can dial.
Connections ==
    /\ NoTwice(vec)
    /\ NoTwice(backlog)
    /\ \A u \in ToSet(vec) : net[u] # "out" /\ u \notin ToSet(backlog)
    /\ \A u \in ToSet(backlog) : net[u] # "out"

\* Clients and no others have a descriptor, each one its own.
Descriptors ==
    /\ \A u \in Users : u \in ToSet(vec) <=> fd[u] # NoFd
    /\ \A u, v \in ToSet(vec) : fd[u] = fd[v] => u = v

Watched == listening => readers = OpenFds

Ending ==
    /\ listening <=> phase \notin {"exit", "done"}
    /\ ~listening => /\ vec = <<>>
                     /\ backlog = <<>>
                     /\ \A p \in Providers : link[p] # "connected"

SomeoneWaits ==
    (phase \in {"reconnect", "accept"} /\ ListenFd \in ready) => backlog # <<>>

BatchBegun == phase = "input" => batch # <<>>

\* Everybody before the iterator who was ready has been served, but the first.
Passed ==
    /\ phase \in {"scan", "input", "after"} =>
          \A i \in 2..Len(vec) :
              i < pos /\ fd[vec[i]] \in ready => vec[i] \in served
    /\ phase \in {"input", "after"} => vec[pos] \in served

Authenticated == \A u \in ToSet(vec) : auth[u] => proved[u]

IInv ==
    /\ TypeOK
    /\ Connections
    /\ Descriptors
    /\ Watched
    /\ Ending
    /\ SomeoneWaits
    /\ BatchBegun
    /\ IteratorValid
    /\ NoStaleFlag
    /\ Passed
    /\ OnlyHeadSkipped
    /\ Authenticated


-------------------------------------------------------------------------------
(* Initial states.                                                         *)

LEMMA InitInv == Init => IInv
<1>. SUFFICES ASSUME Init PROVE IInv
  OBVIOUS
<1>1. ToSet(vec) = {} /\ ToSet(backlog) = {}
  BY DEF Init, ToSet
<1>2. TypeOK
  <2>1. <<>> \in Seq(Users) /\ <<>> \in Seq(Lines)
    BY EmptySeq
  <2>2. /\ vec \in Seq(Users) /\ backlog \in Seq(Users) /\ batch \in Seq(Lines)
        /\ inbox \in [Users -> Seq(Lines)]
    BY <2>1 DEF Init
  <2>3. /\ fd \in [Users -> Fds \cup {NoFd}] /\ auth \in [Users -> BOOLEAN]
        /\ disc \in [Users -> BOOLEAN] /\ proved \in [Users -> BOOLEAN]
        /\ net \in [Users -> {"out", "open", "gone"}]
        /\ link \in [Providers -> LinkStates]
    BY DEF Init, LinkStates
  <2>4. phase \in Phases /\ pos \in Nat \ {0}
    BY DEF Init, Phases
  <2>5. /\ readers \subseteq Fds \cup {ListenFd, NoFd}
        /\ ready \subseteq Fds \cup {ListenFd, NoFd}
        /\ served \subseteq Users
    BY DEF Init
  <2>6. shutdown \in BOOLEAN /\ listening \in BOOLEAN
    BY DEF Init
  <2>. QED  BY <2>2, <2>3, <2>4, <2>5, <2>6 DEF TypeOK
<1>3. Connections /\ Descriptors /\ Watched
  BY <1>1 DEF Init, Connections, NoTwice, Descriptors, Watched, OpenFds
<1>4. Ending /\ SomeoneWaits /\ BatchBegun /\ IteratorValid
  BY DEF Init, Ending, SomeoneWaits, BatchBegun, IteratorValid
<1>5. NoStaleFlag /\ Passed /\ OnlyHeadSkipped /\ Authenticated
  BY <1>1 DEF Init, NoStaleFlag, Passed, OnlyHeadSkipped, Authenticated
<1>. QED  BY <1>2, <1>3, <1>4, <1>5 DEF IInv

-------------------------------------------------------------------------------
(* Where the program is and what it looks at.                              *)

\* The client the scan has come to is one of g_clients.
LEMMA Current ==
    ASSUME TypeOK, pos \in 1..Len(vec)
    PROVE  cur \in Users /\ cur \in ToSet(vec)
BY Elements, ElementOfSeq DEF TypeOK, cur

\* Handlers run with a client at the iterator and lines in hand.
LEMMA InHandler ==
    ASSUME IInv, phase = "input"
    PROVE  /\ pos \in 1..Len(vec) /\ cur \in Users /\ cur \in ToSet(vec)
           /\ Head(batch) \in Lines /\ Tail(batch) \in Seq(Lines)
<1>1. pos \in 1..Len(vec)
  BY DEF IInv, IteratorValid
<1>2. batch # <<>> /\ batch \in Seq(Lines)
  BY DEF IInv, BatchBegun, TypeOK
<1>. QED  BY <1>1, <1>2, Current, HeadTailProperties DEF IInv

\* The lists and the descriptors change in six places only.
LEMMA Elsewhere ==
    ASSUME Next, ~(\E u \in Users : Dial(u) \/ HangUp(u)),
           ~AcceptClient, ~DropClient, ~LeaveLoop, ~AtExit
    PROVE  UNCHANGED <<vec, backlog, net, fd, readers, listening>>
<1>1. CASE \E u \in Users : Type(u)
  BY <1>1 DEF Type, clientVars, progVars
<1>2. CASE Select \/ Reconnect \/ NoNewClient \/ AcceptFails
  BY <1>2 DEF Select, Reconnect, NoNewClient, AcceptFails, clientVars, userVars, progVars
<1>3. CASE ScanEnds \/ ScanSkips \/ ReadInput \/ KeepClient
  BY <1>3 DEF ScanEnds, ScanSkips, ReadInput, KeepClient, clientVars, userVars, progVars
<1>4. CASE Login \/ Leave \/ Blank \/ Refuse
  BY <1>4 DEF Login, Leave, Blank, Refuse, clientVars, userVars, progVars
<1>5. CASE Shutdown \/ Reload \/ Help \/ Forward
  BY <1>5 DEF Shutdown, Reload, Help, Forward, clientVars, userVars, progVars
<1>6. CASE Tick \/ IdleDisconnect \/ Terminated
  BY <1>6 DEF Tick, IdleDisconnect, Terminated, clientVars, userVars, progVars, vars
<1>. QED  BY <1>1, <1>2, <1>3, <1>4, <1>5, <1>6 DEF Next, Program, Scan, Handle, User

-------------------------------------------------------------------------------
(* Types.                                                                  *)

LEMMA TypeStep == IInv /\ [Next]_vars => TypeOK'
<1>. SUFFICES ASSUME IInv, [Next]_vars PROVE TypeOK'
  OBVIOUS
<1>0. TypeOK
  BY DEF IInv
<1>1. ASSUME NEW u \in Users, Dial(u) PROVE TypeOK'
  <2>1. backlog' \in Seq(Users) /\ <<>> \in Seq(Lines)
    BY <1>0, <1>1, AppendProperties, EmptySeq DEF Dial, TypeOK
  <2>2. inbox' \in [Users -> Seq(Lines)]
    BY <1>0, <1>1, <2>1 DEF Dial, TypeOK
  <2>. QED  BY <1>0, <1>1, <2>1, <2>2 DEF Dial, TypeOK, clientVars, progVars
<1>2. ASSUME NEW u \in Users, Type(u) PROVE TypeOK'
  <2>1. inbox' \in [Users -> Seq(Lines)]
    <3>1. PICK l \in Lines : inbox' = [inbox EXCEPT ![u] = Append(@, l)]
      BY <1>2 DEF Type
    <3>2. Append(inbox[u], l) \in Seq(Lines)
      BY <1>0, AppendProperties DEF TypeOK
    <3>. QED  BY <1>0, <3>1, <3>2 DEF TypeOK
  <2>. QED  BY <1>0, <1>2, <2>1 DEF Type, TypeOK, clientVars, progVars
<1>3. ASSUME NEW u \in Users, HangUp(u) PROVE TypeOK'
  BY <1>0, <1>3 DEF HangUp, TypeOK, clientVars, progVars
<1>4. CASE Select
  <2>1. ready' \subseteq Fds \cup {ListenFd, NoFd}
    BY <1>0, <1>4 DEF Select, TypeOK
  <2>. QED  BY <1>0, <1>4, <2>1 DEF Select, TypeOK, Phases, clientVars, userVars, progVars
<1>5. CASE Reconnect
  BY <1>0, <1>5 DEF Reconnect, TypeOK, Phases, LinkStates, clientVars, userVars
<1>6. CASE NoNewClient \/ AcceptFails
  BY <1>0, <1>6 DEF NoNewClient, AcceptFails, TypeOK, Phases, clientVars, userVars, progVars
<1>7. CASE AcceptClient
  <2>. DEFINE u == Head(backlog)
  <2>1. u \in Users /\ backlog' \in Seq(Users)
    BY <1>0, <1>7, HeadTailProperties DEF AcceptClient, TypeOK
  <2>2. PICK f \in FreeFds : /\ fd' = [fd EXCEPT ![u] = f]
                             /\ Ctor(u)
                             /\ vec' = Append(vec, u)
                             /\ readers' = AddReader(f)
    BY <1>7 DEF AcceptClient
  <2>. HIDE DEF u
  <2>3. vec' \in Seq(Users)
    BY <1>0, <2>1, <2>2, AppendProperties DEF TypeOK
  <2>4. /\ fd' \in [Users -> Fds \cup {NoFd}]
        /\ readers' \subseteq Fds \cup {ListenFd, NoFd}
    BY <1>0, <2>1, <2>2 DEF TypeOK, FreeFds, AddReader
  <2>5. auth' \in [Users -> BOOLEAN] /\ disc' \in [Users -> BOOLEAN]
    BY <1>0, <2>1, <2>2 DEF TypeOK, Ctor
  <2>. QED  BY <1>0, <1>7, <2>1, <2>3, <2>4, <2>5 DEF AcceptClient, TypeOK, Phases, progVars
<1>8. CASE ScanEnds \/ ScanSkips \/ KeepClient
  BY <1>0, <1>8 DEF ScanEnds, ScanSkips, KeepClient, TypeOK, Phases, clientVars, userVars, progVars
<1>9. CASE ReadInput
  <2>1. cur \in Users
    <3>1. pos \in 1..Len(vec)
      BY <1>0, <1>9, LenProperties DEF ReadInput, TypeOK
    <3>. QED  BY <1>0, <3>1, Current
  <2>2. /\ inbox' \in [Users -> Seq(Lines)]
        /\ batch' \in Seq(Lines)
        /\ disc' \in [Users -> BOOLEAN]
    <3>1. <<>> \in Seq(Lines)
      BY EmptySeq
    <3>. QED  BY <1>0, <1>9, <2>1, <3>1 DEF ReadInput, TypeOK
  <2>. QED  BY <1>0, <1>9, <2>1, <2>2 DEF ReadInput, TypeOK, Phases, progVars
<1>10. CASE Handle
  <2>1. phase = "input"
    BY <1>10 DEF Handle, Login, Leave, Blank, Refuse, Shutdown, Reload, Help,
                 Forward, Handles, Privileged
  <2>2. cur \in Users /\ Tail(batch) \in Seq(Lines) /\ <<>> \in Seq(Lines)
    BY <2>1, InHandler, EmptySeq
  <2>3. ReplySent => disc' \in [Users -> BOOLEAN]
    BY <1>0, <2>2 DEF ReplySent, TypeOK
  <2>4. Return \/ Continue => batch' \in Seq(Lines) /\ phase' \in Phases
    BY <2>2 DEF Return, Continue, Phases
  <2>5. CASE Login
    BY <1>0, <2>2, <2>3, <2>4, <2>5 DEF Login, TypeOK, progVars
  <2>6. CASE Leave
    BY <1>0, <2>2, <2>4, <2>6 DEF Leave, TypeOK, userVars, progVars
  <2>7. CASE Blank \/ Shutdown \/ Reload
    BY <1>0, <2>4, <2>7 DEF Blank, Shutdown, Reload, TypeOK, clientVars, userVars, progVars
  <2>8. CASE Refuse \/ Help
    BY <1>0, <2>3, <2>4, <2>8 DEF Refuse, Help, TypeOK, userVars, progVars
  <2>9. CASE Forward
    <3>1. link' \in [Providers -> LinkStates]
      BY <1>0, <2>9 DEF Forward, TypeOK, AfterCommand, LinkStates
    <3>. QED  BY <1>0, <2>3, <2>4, <2>9, <3>1 DEF Forward, TypeOK, userVars
  <2>. QED  BY <1>10, <2>5, <2>6, <2>7, <2>8, <2>9 DEF Handle
<1>11. CASE DropClient
  <2>1. pos \in 1..Len(vec) /\ cur \in Users
    BY <1>0, <1>11, Current DEF DropClient, IInv, IteratorValid
  <2>2. vec' \in Seq(Users)
    BY <1>0, <1>11, <2>1, Removing DEF DropClient, TypeOK
  <2>3. fd' \in [Users -> Fds \cup {NoFd}] /\ inbox' \in [Users -> Seq(Lines)]
    <3>1. <<>> \in Seq(Lines)
      BY EmptySeq
    <3>. QED  BY <1>0, <1>11, <2>1, <3>1 DEF DropClient, TypeOK
  <2>. QED  BY <1>0, <1>11, <2>1, <2>2, <2>3 DEF DropClient, TypeOK, Phases, RemoveReader,
                                              Resume, AfterErase, progVars
<1>12. CASE Tick
  BY <1>0, <1>12 DEF Tick, TypeOK, Phases, clientVars, userVars
<1>13. CASE IdleDisconnect
  BY <1>0, <1>13 DEF IdleDisconnect, Closed, TypeOK, Phases, LinkStates, clientVars, userVars
<1>14. CASE LeaveLoop \/ AtExit
  <2>1. /\ fd' \in [Users -> Fds \cup {NoFd}]
        /\ link' \in [Providers -> LinkStates]
        /\ vec' \in Seq(Users) /\ backlog' \in Seq(Users)
    <3>1. <<>> \in Seq(Users)
      BY EmptySeq
    <3>. QED  BY <1>0, <1>14, <3>1 DEF LeaveLoop, AtExit, Cleanup, CloseProviders, Closed,
                                    TypeOK, LinkStates
  <2>. QED  BY <1>0, <1>14, <2>1 DEF LeaveLoop, AtExit, Cleanup, TypeOK, Phases
<1>15. CASE UNCHANGED vars
  BY <1>0, <1>15 DEF TypeOK, vars
<1>. QED  BY <1>1, <1>2, <1>3, <1>4, <1>5, <1>6, <1>7, <1>8, <1>9, <1>10, <1>11,
             <1>12, <1>13, <1>14, <1>15 DEF Next, Program, Scan, User, Terminated

-------------------------------------------------------------------------------
(* The client list, the backlog, the descriptors and the select set.       *)

Lists == Connections /\ Descriptors /\ Watched

LEMMA DialLists ==
    ASSUME IInv, NEW u \in Users, Dial(u)
    PROVE  Lists'
<1>1. u \notin ToSet(vec) /\ u \notin ToSet(backlog)
  BY DEF IInv, Connections, Dial
<1>2. ToSet(backlog') = ToSet(backlog) \cup {u} /\ NoTwice(backlog')
  BY <1>1, Appending DEF IInv, TypeOK, Connections, Dial
<1>3. net' = [net EXCEPT ![u] = "open"] /\ net \in [Users -> {"out", "open", "gone"}]
  BY DEF IInv, TypeOK, Dial
<1>4. vec' = vec /\ fd' = fd /\ readers' = readers /\ listening' = listening
  BY DEF Dial, clientVars, progVars
<1>5. ToSet(vec) \subseteq Users /\ ToSet(backlog) \subseteq Users
  BY Elements DEF IInv, TypeOK
<1>6. Connections'
  <2>1. \A v \in ToSet(vec)' : net'[v] # "out" /\ v \notin ToSet(backlog')
    BY <1>1, <1>2, <1>3, <1>4, <1>5 DEF IInv, Connections
  <2>2. \A v \in ToSet(backlog') : net'[v] # "out"
    BY <1>2, <1>3, <1>5 DEF IInv, Connections
  <2>3. NoTwice(vec')
    BY <1>4 DEF IInv, Connections
  <2>. QED  BY <1>2, <2>1, <2>2, <2>3 DEF Connections
<1>7. Descriptors' /\ Watched'
  BY <1>4 DEF IInv, Descriptors, Watched, OpenFds
<1>. QED  BY <1>6, <1>7 DEF Lists

LEMMA HangUpLists ==
    ASSUME IInv, NEW u \in Users, HangUp(u)
    PROVE  Lists'
<1>1. net' = [net EXCEPT ![u] = "gone"] /\ net \in [Users -> {"out", "open", "gone"}]
  BY DEF IInv, TypeOK, HangUp
<1>2. UNCHANGED <<vec, fd, readers, listening, backlog>>
  BY DEF HangUp, clientVars, progVars
<1>3. ToSet(vec) \subseteq Users /\ ToSet(backlog) \subseteq Users
  BY Elements DEF IInv, TypeOK
<1>4. Connections'
  BY <1>1, <1>2, <1>3 DEF IInv, Connections
<1>5. Descriptors' /\ Watched'
  BY <1>2 DEF IInv, Descriptors, Watched, OpenFds
<1>. QED  BY <1>4, <1>5 DEF Lists

LEMMA AcceptLists ==
    ASSUME IInv, AcceptClient
    PROVE  Lists'
<1>. DEFINE u == Head(backlog)
<1>1. /\ u \in Users /\ u \in ToSet(backlog)
      /\ backlog' = Tail(backlog)
      /\ ToSet(backlog') = ToSet(backlog) \ {u}
      /\ NoTwice(backlog')
  BY TakingHead DEF IInv, TypeOK, Connections, AcceptClient
<1>2. PICK f \in FreeFds : /\ fd' = [fd EXCEPT ![u] = f]
                           /\ vec' = Append(vec, u)
                           /\ readers' = readers \cup {f}
  BY DEF AcceptClient, AddReader
<1>. HIDE DEF u
<1>3. u \notin ToSet(vec) /\ net[u] # "out"
  BY <1>1 DEF IInv, Connections
<1>4. ToSet(vec') = ToSet(vec) \cup {u} /\ NoTwice(vec')
  BY <1>1, <1>2, <1>3, Appending DEF IInv, TypeOK, Connections
<1>5. f # NoFd /\ \A v \in ToSet(vec) : fd[v] # f
  BY FdAssumption DEF FreeFds
<1>6. net' = net /\ listening' = listening
  BY DEF AcceptClient, progVars
<1>7. ToSet(vec) \subseteq Users
  BY Elements DEF IInv, TypeOK
<1>8. fd'[u] = f /\ \A v \in Users : v # u => fd'[v] = fd[v]
  BY <1>1, <1>2 DEF IInv, TypeOK
<1>9. Connections'
  BY <1>1, <1>3, <1>4, <1>6 DEF IInv, Connections
<1>10. Descriptors'
  <2>1. \A v \in Users : v \in ToSet(vec') <=> fd'[v] # NoFd
    BY <1>1, <1>4, <1>5, <1>8 DEF IInv, Descriptors
  <2>2. \A v, w \in ToSet(vec') : fd'[v] = fd'[w] => v = w
    BY <1>3, <1>4, <1>5, <1>7, <1>8 DEF IInv, Descriptors
  <2>. QED  BY <2>1, <2>2 DEF Descriptors
<1>11. Watched'
  <2>1. {fd'[v] : v \in ToSet(vec')} = {fd[v] : v \in ToSet(vec)} \cup {f}
    BY <1>3, <1>4, <1>7, <1>8
  <2>. QED  BY <1>2, <1>6, <2>1 DEF IInv, Watched, OpenFds
<1>. QED  BY <1>9, <1>10, <1>11 DEF Lists

\* removeReader comes before close: what leaves the set is what was open.
LEMMA DropLists ==
    ASSUME IInv, DropClient
    PROVE  Lists'
<1>. DEFINE u == cur
<1>1. pos \in 1..Len(vec) /\ u \in Users /\ u \in ToSet(vec) /\ u = vec[pos]
  BY Current DEF DropClient, IInv, IteratorValid, cur
<1>2. /\ fd' = [fd EXCEPT ![u] = NoFd]
      /\ net' = [net EXCEPT ![u] = "out"]
      /\ vec' = RemoveAt(vec, pos)
      /\ readers' = readers \ {fd[u]}
      /\ backlog' = backlog /\ listening' = listening
  BY DEF DropClient, RemoveReader, progVars
<1>. HIDE DEF u
<1>3. ToSet(vec') = ToSet(vec) \ {u} /\ NoTwice(vec')
  BY <1>1, <1>2, RemovingOne DEF IInv, TypeOK, Connections
<1>4. ToSet(vec) \subseteq Users /\ ToSet(backlog) \subseteq Users
  BY Elements DEF IInv, TypeOK
<1>5. /\ fd'[u] = NoFd /\ \A v \in Users : v # u => fd'[v] = fd[v]
      /\ net'[u] = "out" /\ \A v \in Users : v # u => net'[v] = net[v]
  BY <1>1, <1>2 DEF IInv, TypeOK
<1>6. Connections'
  <2>1. u \notin ToSet(backlog)
    BY <1>1 DEF IInv, Connections
  <2>. QED  BY <1>2, <1>3, <1>4, <1>5, <2>1 DEF IInv, Connections
<1>7. Descriptors'
  BY <1>3, <1>4, <1>5 DEF IInv, Descriptors
<1>8. Watched'
  <2>1. fd[u] \in Fds /\ fd[u] # ListenFd
    BY <1>1, FdAssumption DEF IInv, TypeOK, Descriptors
  <2>2. {fd'[v] : v \in ToSet(vec')} = {fd[v] : v \in ToSet(vec)} \ {fd[u]}
    <3>1. \A v \in ToSet(vec') : fd'[v] = fd[v] /\ fd[v] # fd[u]
      BY <1>1, <1>3, <1>4, <1>5 DEF IInv, Descriptors
    <3>2. \A v \in ToSet(vec) : fd[v] # fd[u] => v \in ToSet(vec')
      BY <1>3
    <3>. QED  BY <1>3, <3>1, <3>2
  <2>. QED  BY <1>2, <2>1, <2>2 DEF IInv, Watched, OpenFds
<1>. QED  BY <1>6, <1>7, <1>8 DEF Lists

LEMMA CleanupLists ==
    ASSUME IInv, Cleanup
    PROVE  Lists'
<1>1. vec' = <<>> /\ backlog' = <<>> /\ listening' = FALSE
  BY DEF Cleanup
<1>2. ToSet(vec') = {} /\ ToSet(backlog') = {} /\ Len(vec') = 0 /\ Len(backlog') = 0
  BY <1>1 DEF ToSet
<1>3. \A u \in Users : fd'[u] = NoFd
  BY DEF Cleanup, IInv, Descriptors
<1>4. Connections'
  BY <1>2 DEF Connections, NoTwice
<1>5. Descriptors' /\ Watched'
  BY <1>1, <1>2, <1>3 DEF Descriptors, Watched
<1>. QED  BY <1>4, <1>5 DEF Lists

LEMMA ListsStep == IInv /\ [Next]_vars => Lists'
<1>. SUFFICES ASSUME IInv, [Next]_vars PROVE Lists'
  OBVIOUS
<1>1. CASE UNCHANGED <<vec, backlog, net, fd, readers, listening>>
  BY <1>1 DEF IInv, Lists, Connections, Descriptors, Watched, OpenFds
<1>2. CASE UNCHANGED vars
  BY <1>1, <1>2 DEF vars
<1>3. ASSUME NEW u \in Users, Dial(u) \/ HangUp(u) PROVE Lists'
  BY <1>3, DialLists, HangUpLists
<1>4. CASE AcceptClient \/ DropClient
  BY <1>4, AcceptLists, DropLists
<1>5. CASE LeaveLoop \/ AtExit
  BY <1>5, CleanupLists DEF LeaveLoop, AtExit
<1>. QED  BY <1>1, <1>2, <1>3, <1>4, <1>5, Elsewhere

-------------------------------------------------------------------------------
(* The place of the program.                                               *)

\* What the user does leaves the program where it is.
LEMMA UserFrame ==
    ASSUME NEW u \in Users, Dial(u) \/ Type(u) \/ HangUp(u)
    PROVE  UNCHANGED <<phase, vec, pos, batch, readers, ready, fd, auth, disc,
                       shutdown, listening, link, served>>
BY DEF Dial, Type, HangUp, clientVars, progVars

\* The steps of a pass that neither begin nor leave it.
LEMMA PassStep ==
    ASSUME Next, ~User, ~LeaveLoop, ~AtExit, ~Terminated
    PROVE  /\ phase \notin {"exit", "done"}
           /\ listening' = listening
           /\ phase' \in {"reconnect", "accept"} => Select \/ Reconnect
           /\ phase' \notin {"exit", "done"}
           /\ phase' = "select" => phase = "idle"
<1>1. CASE Select \/ Reconnect \/ NoNewClient \/ AcceptClient \/ AcceptFails
  BY <1>1 DEF Select, Reconnect, NoNewClient, AcceptClient, AcceptFails, progVars
<1>2. CASE ScanEnds \/ ScanSkips \/ ReadInput \/ KeepClient \/ DropClient
  BY <1>2 DEF ScanEnds, ScanSkips, ReadInput, KeepClient, DropClient, Resume, progVars
<1>3. CASE Login \/ Leave \/ Blank \/ Refuse
  BY <1>3 DEF Login, Leave, Blank, Refuse, Handles, Privileged, Return, progVars
<1>4. CASE Shutdown \/ Reload \/ Help \/ Forward
  BY <1>4 DEF Shutdown, Reload, Help, Forward, Handles, Return, Continue, progVars
<1>5. CASE Tick \/ IdleDisconnect
  BY <1>5 DEF Tick, IdleDisconnect
<1>. QED  BY <1>1, <1>2, <1>3, <1>4, <1>5 DEF Next, Program, Scan, Handle

LEMMA EndingStep == IInv /\ [Next]_vars => Ending'
<1>. SUFFICES ASSUME IInv, [Next]_vars PROVE Ending'
  OBVIOUS
<1>1. CASE UNCHANGED vars
  BY <1>1 DEF vars, IInv, Ending
<1>2. ASSUME NEW u \in Users, Dial(u) PROVE Ending'
  BY <1>2, UserFrame DEF Dial, IInv, Ending
<1>3. ASSUME NEW u \in Users, Type(u) \/ HangUp(u) PROVE Ending'
  BY <1>3, UserFrame DEF Type, HangUp, IInv, Ending
<1>4. CASE LeaveLoop \/ AtExit
  <2>1. /\ phase' \in {"exit", "done"} /\ listening' = FALSE
        /\ vec' = <<>> /\ backlog' = <<>>
        /\ link' = [p \in Providers |-> Closed(link[p])]
    BY <1>4 DEF LeaveLoop, AtExit, Cleanup, CloseProviders
  <2>2. \A p \in Providers : link'[p] # "connected"
    BY <2>1 DEF Closed
  <2>. QED  BY <2>1, <2>2 DEF Ending
<1>5. CASE ~User /\ ~LeaveLoop /\ ~AtExit /\ ~UNCHANGED vars
  <2>1. /\ phase \notin {"exit", "done"} /\ phase' \notin {"exit", "done"}
        /\ listening' = listening
    BY <1>5, PassStep DEF Terminated
  <2>. QED  BY <2>1 DEF IInv, Ending
<1>. QED  BY <1>1, <1>2, <1>3, <1>4, <1>5 DEF User

\* The listener is ready only when somebody waits, since select never fails.
LEMMA SomeoneWaitsStep == IInv /\ [Next]_vars => SomeoneWaits'
<1>. SUFFICES ASSUME IInv, [Next]_vars PROVE SomeoneWaits'
  OBVIOUS
<1>1. CASE UNCHANGED vars
  BY <1>1 DEF vars, IInv, SomeoneWaits
<1>2. ASSUME NEW u \in Users, Dial(u) PROVE SomeoneWaits'
  <2>1. backlog' = Append(backlog, u) /\ backlog \in Seq(Users)
    BY <1>2 DEF Dial, IInv, TypeOK
  <2>2. backlog' # <<>>
    BY <2>1, AppendProperties
  <2>. QED  BY <2>2 DEF SomeoneWaits
<1>3. ASSUME NEW u \in Users, Type(u) \/ HangUp(u) PROVE SomeoneWaits'
  BY <1>3, UserFrame DEF Type, HangUp, IInv, SomeoneWaits
<1>4. CASE Select
  <2>1. listening
    BY <1>4 DEF Select, IInv, Ending
  <2>2. readers = OpenFds
    BY <2>1 DEF IInv, Watched
  <2>3. ready' = {f \in readers : Readable(f)} /\ backlog' = backlog
    BY <1>4, <2>2 DEF Select, userVars
  <2>4. \A u \in ToSet(vec) : fd[u] # ListenFd
    BY Elements, FdAssumption DEF IInv, TypeOK, Descriptors
  <2>. QED  BY <2>3, <2>4 DEF SomeoneWaits, Readable
<1>5. CASE Reconnect
  BY <1>5 DEF Reconnect, IInv, SomeoneWaits, userVars
<1>6. CASE LeaveLoop \/ AtExit
  BY <1>6 DEF LeaveLoop, AtExit, SomeoneWaits
<1>7. CASE ~User /\ ~LeaveLoop /\ ~AtExit /\ ~Select /\ ~Reconnect /\ ~UNCHANGED vars
  <2>1. phase' \notin {"reconnect", "accept"}
    BY <1>7, PassStep DEF Terminated
  <2>. QED  BY <2>1 DEF SomeoneWaits
<1>. QED  BY <1>1, <1>2, <1>3, <1>4, <1>5, <1>6, <1>7 DEF User

-------------------------------------------------------------------------------
(* The scan.                                                               *)

\* What handle_client_input leaves alone, and how it goes on.
LEMMA HandleFrame ==
    ASSUME Handle
    PROVE  /\ phase = "input"
           /\ UNCHANGED <<vec, pos, ready, served, fd, listening>>
           /\ phase' \in {"input", "after"}
           /\ phase' = "input" => batch' # <<>>
           /\ disc' \in {disc, [disc EXCEPT ![cur] = TRUE]}
<1>1. CASE Login \/ Leave \/ Blank
  BY <1>1 DEF Login, Leave, Blank, Handles, Return, ReplySent, clientVars, progVars
<1>2. CASE Refuse \/ Shutdown
  BY <1>2 DEF Refuse, Shutdown, Handles, Privileged, Return, ReplySent, clientVars, progVars
<1>3. CASE Reload \/ Help \/ Forward
  BY <1>3 DEF Reload, Help, Forward, Handles, Continue, ReplySent, clientVars, progVars
<1>. QED  BY <1>1, <1>2, <1>3 DEF Handle

\* Every step outside the scan ends outside of it, or at the first client.
LEMMA ScanBegins ==
    ASSUME Next, ~User, ~Scan, ~Handle, ~Terminated
    PROVE  /\ phase' \notin {"input", "after", "tick"}
           /\ phase' = "scan" => pos' = 1
           /\ phase \notin {"input", "after"}
<1>1. CASE Select \/ Reconnect \/ NoNewClient \/ AcceptClient \/ AcceptFails
  BY <1>1 DEF Select, Reconnect, NoNewClient, AcceptClient, AcceptFails
<1>2. CASE Tick \/ IdleDisconnect \/ LeaveLoop \/ AtExit
  BY <1>2 DEF Tick, IdleDisconnect, LeaveLoop, AtExit
<1>. QED  BY <1>1, <1>2 DEF Next, Program

\* erase makes the list one shorter; begin() and "continue" stay inside.
LEMMA IteratorStep == IInv /\ [Next]_vars => (BatchBegun /\ IteratorValid)'
<1>. SUFFICES ASSUME IInv, [Next]_vars PROVE (BatchBegun /\ IteratorValid)'
  OBVIOUS
<1>1. /\ Len(vec) \in Nat /\ pos \in Nat \ {0}
      /\ phase = "scan" => pos \in 1..(Len(vec) + 1)
      /\ phase \in {"input", "after"} => pos \in 1..Len(vec)
  BY LenProperties DEF IInv, TypeOK, IteratorValid
<1>2. CASE UNCHANGED vars
  BY <1>2 DEF vars, IInv, BatchBegun, IteratorValid
<1>3. ASSUME NEW u \in Users, Dial(u) \/ Type(u) \/ HangUp(u)
      PROVE  (BatchBegun /\ IteratorValid)'
  BY <1>3, UserFrame DEF IInv, BatchBegun, IteratorValid
<1>4. CASE ~User /\ ~Scan /\ ~Handle /\ ~UNCHANGED vars
  <2>1. /\ phase' \notin {"input", "after", "tick"}
        /\ phase' = "scan" => pos' = 1
    BY <1>4, ScanBegins DEF Terminated
  <2>2. Len(vec') \in Nat
    BY TypeStep, LenProperties DEF TypeOK
  <2>3. phase' = "scan" => pos' \in 1..(Len(vec') + 1)
    BY <2>1, <2>2
  <2>. QED  BY <2>1, <2>3 DEF BatchBegun, IteratorValid
<1>5. CASE ScanEnds \/ ScanSkips \/ ReadInput \/ KeepClient
  <2>1. vec' = vec /\ (phase' = "input" => batch' # <<>>)
    BY <1>5 DEF ScanEnds, ScanSkips, ReadInput, KeepClient, clientVars
  <2>2. \/ phase' = "tick"
        \/ phase' = "scan" /\ pos' = pos + 1 /\ pos \in 1..Len(vec)
        \/ phase' \in {"input", "after"} /\ pos' = pos /\ pos \in 1..Len(vec)
    BY <1>1, <1>5 DEF ScanEnds, ScanSkips, ReadInput, KeepClient
  <2>. QED  BY <1>1, <2>1, <2>2 DEF BatchBegun, IteratorValid
<1>6. CASE DropClient
  <2>1. Len(vec') = Len(vec) - 1 /\ vec' \in Seq(Users) /\ pos' = 2
    BY <1>1, <1>6, Removing DEF DropClient, AfterErase, IInv, TypeOK
  <2>2. phase' = "tick" \/ (phase' = "scan" /\ vec' # <<>>)
    BY <1>6 DEF DropClient, Resume
  <2>3. vec' # <<>> => Len(vec') \in Nat \ {0}
    BY <2>1, EmptySeq
  <2>. QED  BY <2>1, <2>2, <2>3 DEF BatchBegun, IteratorValid
<1>7. CASE Handle
  <2>1. UNCHANGED <<vec, pos>> /\ phase' \in {"input", "after"} /\ phase = "input"
        /\ (phase' = "input" => batch' # <<>>)
    BY <1>7, HandleFrame
  <2>. QED  BY <1>1, <2>1 DEF BatchBegun, IteratorValid
<1>. QED  BY <1>2, <1>3, <1>4, <1>5, <1>6, <1>7 DEF Scan, User

\* A mark is set on the client at the iterator only, and it goes before the
\* iterator does.
LEMMA FlagStep == IInv /\ [Next]_vars => NoStaleFlag'
<1>. SUFFICES ASSUME IInv, [Next]_vars PROVE NoStaleFlag'
  OBVIOUS
<1>0. /\ vec \in Seq(Users) /\ Len(vec) \in Nat
      /\ \A i \in 1..Len(vec) : vec[i] \in Users /\ vec[i] \in ToSet(vec)
      /\ disc \in [Users -> BOOLEAN]
  BY LenProperties, ElementOfSeq, Elements DEF IInv, TypeOK
<1>1. /\ \A i \in 1..Len(vec) : disc[vec[i]] => phase \in {"input", "after"} /\ i = pos
      /\ NoTwice(vec)
  BY DEF IInv, NoStaleFlag, Connections
<1>2. CASE UNCHANGED vars
  BY <1>2 DEF vars, IInv, NoStaleFlag
<1>3. ASSUME NEW u \in Users, Dial(u) \/ Type(u) \/ HangUp(u) PROVE NoStaleFlag'
  BY <1>3, UserFrame DEF IInv, NoStaleFlag
<1>4. CASE AcceptClient
  <2>. DEFINE u == Head(backlog)
  <2>1. u \in Users /\ vec' = Append(vec, u) /\ disc' = [disc EXCEPT ![u] = FALSE]
        /\ phase = "accept"
    BY <1>4, HeadTailProperties DEF AcceptClient, Ctor, IInv, TypeOK
  <2>. HIDE DEF u
  <2>2. /\ Len(vec') = Len(vec) + 1
        /\ \A i \in 1..Len(vec) : vec'[i] = vec[i]
        /\ vec'[Len(vec) + 1] = u
    BY <1>0, <2>1, AppendProperties
  <2>3. \A i \in 1..Len(vec) : ~disc'[vec[i]]
    BY <1>0, <1>1, <2>1
  <2>4. ~disc'[u]
    BY <1>0, <2>1
  <2>5. \A i \in 1..Len(vec') : i \in 1..Len(vec) \/ i = Len(vec) + 1
    BY <1>0, <2>2
  <2>6. \A i \in 1..Len(vec') : ~disc'[vec'[i]]
    BY <2>2, <2>3, <2>4, <2>5
  <2>. QED  BY <2>6 DEF NoStaleFlag
<1>5. CASE Select \/ Reconnect \/ NoNewClient \/ AcceptFails \/ Tick \/ IdleDisconnect
  <2>1. UNCHANGED <<vec, disc>> /\ phase \notin {"input", "after"}
    BY <1>5 DEF Select, Reconnect, NoNewClient, AcceptFails, Tick, IdleDisconnect, clientVars
  <2>. QED  BY <1>1, <2>1 DEF NoStaleFlag
<1>6. CASE LeaveLoop \/ AtExit
  BY <1>6 DEF LeaveLoop, AtExit, Cleanup, NoStaleFlag
<1>7. CASE ScanEnds \/ ScanSkips
  <2>1. UNCHANGED <<vec, disc>> /\ phase = "scan"
    BY <1>7 DEF ScanEnds, ScanSkips, clientVars
  <2>. QED  BY <1>1, <2>1 DEF NoStaleFlag
<1>8. CASE KeepClient
  <2>1. UNCHANGED <<vec, disc>> /\ ~disc[vec[pos]]
    BY <1>8 DEF KeepClient, clientVars, cur
  <2>. QED  BY <1>1, <2>1 DEF NoStaleFlag
<1>9. CASE DropClient
  <2>1. pos \in 1..Len(vec) /\ disc' = disc /\ vec' = RemoveAt(vec, pos)
    BY <1>9 DEF DropClient, IInv, IteratorValid
  <2>2. /\ Len(vec') = Len(vec) - 1
        /\ \A i \in 1..(Len(vec) - 1) : vec'[i] = IF i < pos THEN vec[i] ELSE vec[i + 1]
    BY <1>0, <2>1, Removing
  <2>3. \A i \in 1..Len(vec') : \E j \in 1..Len(vec) : j # pos /\ vec'[i] = vec[j]
    BY <1>0, <2>1, <2>2
  <2>. QED  BY <1>1, <2>1, <2>3 DEF NoStaleFlag
<1>10. CASE ReadInput \/ Handle
  <2>1. /\ UNCHANGED <<vec, pos>> /\ phase' \in {"input", "after"}
        /\ disc' \in {disc, [disc EXCEPT ![cur] = TRUE]}
    BY <1>10, HandleFrame DEF ReadInput
  <2>2. pos \in 1..Len(vec)
    <3>1. CASE ReadInput
      BY <1>0, <3>1 DEF ReadInput, IInv, TypeOK
    <3>. QED  BY <1>10, <3>1, HandleFrame DEF IInv, IteratorValid
  <2>3. \A i \in 1..Len(vec) : i # pos => vec[i] # cur /\ ~disc[vec[i]]
    BY <1>1, <2>2 DEF cur, NoTwice
  <2>4. \A i \in 1..Len(vec) : i # pos => ~disc'[vec[i]]
    BY <1>0, <2>1, <2>3
  <2>. QED  BY <2>1, <2>4 DEF NoStaleFlag
<1>. QED  BY <1>2, <1>3, <1>4, <1>5, <1>6, <1>7, <1>8, <1>9, <1>10
          DEF Next, Program, Scan, User, Terminated

\* The iterator passes a client that is ready only when it has been served; a
\* restart of the scan steps over nobody but the first.
LEMMA PassedStep == IInv /\ [Next]_vars => (Passed /\ OnlyHeadSkipped)'
<1>. SUFFICES ASSUME IInv, [Next]_vars PROVE (Passed /\ OnlyHeadSkipped)'
  OBVIOUS
<1>0. Len(vec) \in Nat /\ pos \in Nat \ {0}
  BY LenProperties DEF IInv, TypeOK
<1>1. CASE UNCHANGED vars
  BY <1>1 DEF vars, IInv, Passed, OnlyHeadSkipped
<1>2. ASSUME NEW u \in Users, Dial(u) \/ Type(u) \/ HangUp(u)
      PROVE  (Passed /\ OnlyHeadSkipped)'
  BY <1>2, UserFrame DEF IInv, Passed, OnlyHeadSkipped
<1>3. CASE ~User /\ ~Scan /\ ~Handle /\ ~UNCHANGED vars
  <2>1. /\ phase' \notin {"input", "after", "tick"}
        /\ phase' = "scan" => pos' = 1
    BY <1>3, ScanBegins DEF Terminated
  <2>. QED  BY <2>1 DEF Passed, OnlyHeadSkipped
<1>4. CASE ScanEnds
  <2>1. UNCHANGED <<vec, fd, ready, served>> /\ phase = "scan" /\ phase' = "tick"
        /\ pos > Len(vec)
    BY <1>4 DEF ScanEnds, clientVars
  <2>2. \A i \in 2..Len(vec) : i < pos
    BY <1>0, <2>1
  <2>. QED  BY <2>1, <2>2 DEF IInv, Passed, OnlyHeadSkipped
<1>5. CASE ScanSkips \/ KeepClient
  <2>1. /\ UNCHANGED <<vec, fd, ready, served>>
        /\ phase \in {"scan", "after"} /\ phase' = "scan" /\ pos' = pos + 1
        /\ fd[vec[pos]] \in ready => vec[pos] \in served
    BY <1>5 DEF ScanSkips, KeepClient, cur, IInv, Passed, clientVars
  <2>2. \A i \in 2..Len(vec) : i < pos + 1 => i < pos \/ i = pos
    BY <1>0
  <2>. QED  BY <2>1, <2>2 DEF IInv, Passed, OnlyHeadSkipped
<1>6. CASE ReadInput
  <2>1. /\ UNCHANGED <<vec, fd, ready, pos>> /\ phase = "scan"
        /\ phase' \in {"input", "after"} /\ served' = served \cup {vec[pos]}
    BY <1>6 DEF ReadInput, cur
  <2>. QED  BY <2>1 DEF IInv, Passed, OnlyHeadSkipped
<1>7. CASE Handle
  <2>1. UNCHANGED <<vec, fd, ready, pos, served>> /\ phase = "input"
        /\ phase' \in {"input", "after"}
    BY <1>7, HandleFrame
  <2>. QED  BY <2>1 DEF IInv, Passed, OnlyHeadSkipped
<1>8. CASE DropClient
  <2>1. pos' = 2 /\ ((vec' = <<>> /\ phase' = "tick") \/ phase' = "scan")
    BY <1>8 DEF DropClient, AfterErase, Resume
  <2>2. \A i \in 2..Len(vec') : ~(i < 2)
    BY TypeStep, LenProperties DEF TypeOK
  <2>. QED  BY <2>1, <2>2 DEF Passed, OnlyHeadSkipped
<1>. QED  BY <1>1, <1>2, <1>3, <1>4, <1>5, <1>6, <1>7, <1>8 DEF Scan, User

\* Who dials again is no client any more, and the constructor of Client forgets.
LEMMA AuthenticatedStep == IInv /\ [Next]_vars => Authenticated'
<1>. SUFFICES ASSUME IInv, [Next]_vars PROVE Authenticated'
  OBVIOUS
<1>0. /\ ToSet(vec) \subseteq Users
      /\ auth \in [Users -> BOOLEAN] /\ proved \in [Users -> BOOLEAN]
      /\ \A u \in ToSet(vec) : auth[u] => proved[u]
  BY Elements DEF IInv, TypeOK, Authenticated
<1>1. CASE UNCHANGED <<vec, auth, proved>>
  BY <1>1 DEF IInv, Authenticated
<1>2. ASSUME NEW u \in Users, Dial(u) PROVE Authenticated'
  <2>1. u \notin ToSet(vec) /\ proved' = [proved EXCEPT ![u] = FALSE]
    BY <1>2 DEF Dial, IInv, Connections
  <2>2. vec' = vec /\ auth' = auth
    BY <1>2, UserFrame
  <2>. QED  BY <1>0, <2>1, <2>2 DEF Authenticated
<1>3. CASE AcceptClient
  <2>. DEFINE u == Head(backlog)
  <2>1. /\ u \in Users /\ vec' = Append(vec, u) /\ proved' = proved
        /\ auth' = [auth EXCEPT ![u] = FALSE]
    BY <1>3, HeadTailProperties DEF AcceptClient, Ctor, IInv, TypeOK
  <2>. HIDE DEF u
  <2>2. ToSet(vec') = ToSet(vec) \cup {u}
    BY <2>1, Appending DEF IInv, TypeOK
  <2>. QED  BY <1>0, <2>1, <2>2 DEF Authenticated
<1>4. CASE Login
  <2>1. cur \in Users /\ vec' = vec
    BY <1>4, InHandler DEF Login, Handles
  <2>2. auth' = [auth EXCEPT ![cur] = TRUE] /\ proved' = [proved EXCEPT ![cur] = TRUE]
    BY <1>4 DEF Login
  <2>. QED  BY <1>0, <2>1, <2>2 DEF Authenticated
<1>5. CASE DropClient
  <2>1. pos \in 1..Len(vec) /\ vec' = RemoveAt(vec, pos) /\ auth' = auth /\ proved' = proved
    BY <1>5 DEF DropClient, IInv, IteratorValid
  <2>2. ToSet(vec') \subseteq ToSet(vec)
    BY <2>1, RemovingOne DEF IInv, TypeOK, Connections
  <2>. QED  BY <1>0, <2>1, <2>2 DEF Authenticated
<1>6. CASE LeaveLoop \/ AtExit
  <2>1. ToSet(vec') = {}
    BY <1>6 DEF LeaveLoop, AtExit, Cleanup, ToSet
  <2>. QED  BY <2>1 DEF Authenticated
<1>7. ASSUME NEW u \in Users, Type(u) \/ HangUp(u)
      PROVE  UNCHANGED <<vec, auth, proved>>
  BY <1>7 DEF Type, HangUp, clientVars
<1>8. CASE Select \/ Reconnect \/ NoNewClient \/ AcceptFails \/ Tick \/ IdleDisconnect
  BY <1>1, <1>8 DEF Select, Reconnect, NoNewClient, AcceptFails, Tick, IdleDisconnect,
                    clientVars, userVars
<1>9. CASE ScanEnds \/ ScanSkips \/ ReadInput \/ KeepClient
  BY <1>1, <1>9 DEF ScanEnds, ScanSkips, ReadInput, KeepClient, clientVars, userVars
<1>10. CASE Leave \/ Blank \/ Refuse \/ Shutdown \/ Reload \/ Help \/ Forward
  BY <1>1, <1>10 DEF Leave, Blank, Refuse, Shutdown, Reload, Help, Forward,
                     clientVars, userVars
<1>11. CASE UNCHANGED vars
  BY <1>1, <1>11 DEF vars
<1>. QED  BY <1>1, <1>2, <1>3, <1>4, <1>5, <1>6, <1>7, <1>8, <1>9, <1>10, <1>11
          DEF Next, Program, Scan, Handle, User, Terminated

-------------------------------------------------------------------------------
(* The theorems.                                                           *)

LEMMA NextInv == IInv /\ [Next]_vars => IInv'
BY TypeStep, ListsStep, EndingStep, SomeoneWaitsStep, IteratorStep, FlagStep,
   PassedStep, AuthenticatedStep DEF IInv, Lists

LEMMA Invariance == Spec => []IInv
BY InitInv, NextInv, PTL DEF Spec

\* Every variable of the main loop stays in its type, for any number of users,
\* descriptors and lines.
THEOREM TypeCorrect == Spec => []TypeOK
<1>1. IInv => TypeOK
  BY DEF IInv
<1>. QED  BY <1>1, Invariance, PTL

\* While the loop runs, the select set holds the listener and each client once,
\* under a descriptor of its own (accept_client, main_loop, select.cpp).
THEOREM SelectSetIsExact == Spec => []SelectSetExact
<1>1. IInv => SelectSetExact
  <2>. SUFFICES ASSUME IInv, listening PROVE SelectSetExact
    BY DEF SelectSetExact
  <2>1. \A i \in 1..Len(vec) : vec[i] \in ToSet(vec)
    BY Elements DEF IInv, TypeOK
  <2>2. readers = OpenFds /\ NoFd \notin OpenFds
    BY FdAssumption, Elements DEF IInv, TypeOK, Watched, OpenFds, Descriptors
  <2>3. \A i, j \in 1..Len(vec) : fd[vec[i]] = fd[vec[j]] => i = j
    BY <2>1 DEF IInv, Descriptors, Connections, NoTwice
  <2>. QED  BY <2>2, <2>3 DEF SelectSetExact
<1>. QED  BY <1>1, Invariance, PTL

\* accept is called on a blocking socket, but only when somebody waits
\* (accept_client).
THEOREM AcceptDoesNotBlock == Spec => []AcceptNeverBlocks
<1>1. IInv => AcceptNeverBlocks
  BY DEF IInv, SomeoneWaits, AcceptNeverBlocks
<1>. QED  BY <1>1, Invariance, PTL

\* The iterator over g_clients survives every erase (main_loop).
THEOREM IteratorIsValid == Spec => []IteratorValid
<1>1. IInv => IteratorValid
  BY DEF IInv
<1>. QED  BY <1>1, Invariance, PTL

\* A client marked for disconnection is gone before another one is looked at
\* (handle_client_input, main_loop).
THEOREM NoFlagIsStale == Spec => []NoStaleFlag
<1>1. IInv => NoStaleFlag
  BY DEF IInv
<1>. QED  BY <1>1, Invariance, PTL

\* A pass leaves nobody unread who was ready, except the first client
\* (main_loop).
THEOREM OnlyHeadIsSkipped == Spec => []OnlyHeadSkipped
<1>1. IInv => OnlyHeadSkipped
  BY DEF IInv
<1>. QED  BY <1>1, Invariance, PTL

\* When the process ends everything is closed (cleanup, on_exit).
THEOREM ExitIsClean == Spec => []CleanExit
<1>1. IInv => CleanExit
  <2>. SUFFICES ASSUME IInv, phase = "done" PROVE CleanExit
    BY DEF CleanExit
  <2>1. /\ vec = <<>> /\ ~listening
        /\ \A p \in Providers : link[p] # "connected"
    BY DEF IInv, Ending
  <2>2. ToSet(vec) = {}
    BY <2>1 DEF ToSet
  <2>3. \A u \in Users : fd[u] = NoFd
    BY <2>2 DEF IInv, Descriptors
  <2>. QED  BY <2>1, <2>3 DEF CleanExit
<1>. QED  BY <1>1, Invariance, PTL

\* Only a user who gave the password on this very connection shuts the program
\* down or makes it use a provider (auth_user, handle_client_input).
THEOREM OnlyProvedUsersAct == Spec => OnlyProvedActs
<1>1. IInv /\ [Next]_vars =>
        [(phase = "input" /\ (shutdown' # shutdown \/ link' # link)) => proved[cur]]_vars
  <2>. SUFFICES ASSUME IInv, Next, phase = "input",
                       shutdown' # shutdown \/ link' # link
                PROVE  proved[cur]
    OBVIOUS
  <2>1. ~User
    BY UserFrame DEF User
  <2>2. Handle
    BY <2>1, ScanBegins DEF Scan, ScanEnds, ScanSkips, ReadInput, KeepClient, DropClient,
                            Terminated
  <2>3. auth[cur]
    BY <2>2 DEF Handle, Login, Leave, Blank, Refuse, Shutdown, Reload, Help, Forward,
                progVars
  <2>4. cur \in ToSet(vec)
    BY InHandler
  <2>. QED  BY <2>3, <2>4 DEF IInv, Authenticated
<1>. QED  BY <1>1, Invariance, PTL DEF Spec, OnlyProvedActs

===============================================================================
