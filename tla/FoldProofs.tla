------------------------------ MODULE FoldProofs ------------------------------
(***************************************************************************)
(* Induction over the natural numbers, what FoldLeft computes, and that a   *)
(* loop computes something.  The step of a fold is given as a function      *)
(* here: where it is an operator, it is one of these functions on the sets  *)
(* at hand.                                                                 *)
(***************************************************************************)
EXTENDS Integers, Sequences, SequencesExt, FiniteSetsExt, SequenceTheorems,
        WellFoundedInduction, TLAPS

Below == {p \in Nat \X Nat : p[1] < p[2]}

LEMMA BelowWellFounded == IsWellFoundedOn(Below, Nat)
BY NatLessThanWellFounded DEF OpToRel, Below

\* Every set of natural numbers has a least one: induction, with the set of the
\* numbers for which something fails.
LEMMA LeastNumber ==
    ASSUME NEW T \in SUBSET Nat, T # {}
    PROVE  \E n \in T : \A m \in T : n <= m
<1>1. PICK n \in T : \A m \in T : <<m, n>> \notin Below
  BY BelowWellFounded, WFMin
<1>2. \A m \in T : ~(m < n)
  BY <1>1 DEF Below
<1>. QED  BY <1>2

\* Induction as a statement about sets.
LEMMA Induction ==
    ASSUME NEW T, 0 \in T, \A n \in Nat : n \in T => n + 1 \in T
    PROVE  Nat \subseteq T
<1>. SUFFICES ASSUME Nat \ T # {} PROVE FALSE
  OBVIOUS
<1>1. PICK n \in Nat \ T : \A m \in Nat \ T : n <= m
  BY LeastNumber
<1>2. n - 1 \in Nat /\ n - 1 \in T
  BY <1>1
<1>. QED  BY <1>1, <1>2

\* The greatest number of an interval and of a set below a bound.
LEMMA MaxOfInterval == \A n \in Nat : Max(1..(n + 1)) = n + 1
<1>. TAKE n \in Nat
<1>1. n + 1 \in 1..(n + 1) /\ \A y \in 1..(n + 1) : n + 1 >= y
  OBVIOUS
<1>. QED  BY <1>1 DEF Max

LEMMA GreatestNumber ==
    ASSUME NEW n \in Nat, NEW S \in SUBSET (0..n), S # {}
    PROVE  Max(S) \in S /\ \A y \in S : y <= Max(S)
<1>. DEFINE U == {m \in Nat : \A y \in S : y <= m}
<1>1. n \in U
  OBVIOUS
<1>2. PICK x \in U : \A m \in U : x <= m
  BY <1>1, LeastNumber
<1>3. x \in S
  <2>. SUFFICES ASSUME x \notin S PROVE FALSE
    OBVIOUS
  <2>1. x # 0
    <3>1. PICK y \in S : TRUE
      OBVIOUS
    <3>2. y \in 0..n /\ y <= x /\ x \in Nat
      BY <1>2, <3>1
    <3>. QED  BY <3>2
  <2>2. x - 1 \in U
    BY <1>2, <2>1
  <2>. QED  BY <1>2, <2>2
<1>4. \A y \in S : x >= y
  BY <1>2
<1>. QED  BY <1>3, <1>4 DEF Max

LEMMA MaxOfSet ==
    ASSUME NEW n \in Nat, NEW S \in SUBSET (1..n), S # {}
    PROVE  Max(S) \in S /\ \A y \in S : y <= Max(S)
<1>1. S \in SUBSET (0..n)
  OBVIOUS
<1>. QED  BY <1>1, GreatestNumber

LEMMA LeastOfSet ==
    ASSUME NEW T \in SUBSET Nat, T # {}
    PROVE  Min(T) \in T /\ \A y \in T : Min(T) <= y
<1>1. \E x \in T : \A y \in T : x <= y
  BY LeastNumber
<1>. QED  BY <1>1 DEF Min

-------------------------------------------------------------------------------
(* FoldLeft.  It is defined by way of sets of indices, of which it takes   *)
(* the greatest; such an iteration exists, and on the sets 1..i it is the  *)
(* fold of the first i elements.                                           *)

\* it is an iteration of G over subsets of 1..n.
Iterates(it, G, base, s, n) ==
    it = [T \in SUBSET (1..n) |->
             IF T = {} THEN base ELSE G[<<it[T \ {Max(T)}], s[Max(T)]>>]]

LEMMA IterationExists ==
    ASSUME NEW A, NEW B, NEW G \in [A \X B -> A], NEW base \in A, NEW s \in Seq(B)
    PROVE  \E it \in [SUBSET (1..Len(s)) -> A] : Iterates(it, G, base, s, Len(s))
<1>. DEFINE Fits(n) == n <= Len(s) =>
                          \E it \in [SUBSET (1..n) -> A] : Iterates(it, G, base, s, n)
            Fine == {n \in Nat : Fits(n)}
<1>0. Len(s) \in Nat /\ \A i \in 1..Len(s) : s[i] \in B
  BY LenProperties, ElementOfSeq
<1>1. 0 \in Fine
  <2>. DEFINE it == [T \in SUBSET (1..0) |-> base]
  <2>1. it \in [SUBSET (1..0) -> A]
    OBVIOUS
  <2>2. \A T \in SUBSET (1..0) : T = {}
    OBVIOUS
  <2>3. Iterates(it, G, base, s, 0)
    BY <2>2 DEF Iterates
  <2>. QED  BY <2>1, <2>3
<1>2. ASSUME NEW n \in Nat, n \in Fine, n + 1 <= Len(s)
      PROVE  \E it \in [SUBSET (1..(n + 1)) -> A] : Iterates(it, G, base, s, n + 1)
  <2>0. Fits(n) /\ n <= Len(s)
    <3>. HIDE DEF Fits
    <3>. QED  BY <1>0, <1>2
  <2>1. PICK it \in [SUBSET (1..n) -> A] : Iterates(it, G, base, s, n)
    BY <2>0
  <2>. DEFINE new == [T \in SUBSET (1..(n + 1)) |->
                         IF n + 1 \in T THEN G[<<it[T \ {n + 1}], s[n + 1]>>] ELSE it[T]]
  <2>2. \A T \in SUBSET (1..(n + 1)) : n + 1 \notin T => T \in SUBSET (1..n)
    OBVIOUS
  <2>3. \A T \in SUBSET (1..(n + 1)) : T \ {n + 1} \in SUBSET (1..n)
    OBVIOUS
  <2>4. s[n + 1] \in B
    BY <1>0, <1>2
  <2>5. new \in [SUBSET (1..(n + 1)) -> A]
    BY <2>2, <2>3, <2>4
  <2>6. ASSUME NEW T \in SUBSET (1..(n + 1))
        PROVE  new[T] = IF T = {} THEN base ELSE G[<<new[T \ {Max(T)}], s[Max(T)]>>]
    <3>1. CASE T = {}
      <4>1. new[T] = it[T] /\ T \in SUBSET (1..n)
        BY <3>1
      <4>. QED  BY <2>1, <3>1, <4>1 DEF Iterates
    <3>2. CASE n + 1 \in T
      <4>1. Max(T) = n + 1
        <5>1. T # {} /\ n + 1 \in Nat
          BY <3>2
        <5>2. Max(T) \in T /\ \A y \in T : y <= Max(T)
          BY <5>1, MaxOfSet
        <5>3. Max(T) \in 1..(n + 1) /\ n + 1 <= Max(T)
          BY <3>2, <5>2
        <5>. QED  BY <5>3
      <4>2. new[T \ {n + 1}] = it[T \ {n + 1}]
        BY <2>3
      <4>. QED  BY <3>2, <4>1, <4>2
    <3>3. CASE T # {} /\ n + 1 \notin T
      <4>1. T \in SUBSET (1..n) /\ Max(T) \in T
        BY <2>2, <3>3, MaxOfSet
      <4>2. T \ {Max(T)} \in SUBSET (1..n) /\ n + 1 \notin T \ {Max(T)}
            /\ T \ {Max(T)} \in SUBSET (1..(n + 1))
        BY <3>3, <4>1
      <4>3. new[T] = it[T] /\ new[T \ {Max(T)}] = it[T \ {Max(T)}]
        BY <3>3, <4>2
      <4>4. it[T] = G[<<it[T \ {Max(T)}], s[Max(T)]>>]
        BY <2>1, <3>3, <4>1 DEF Iterates
      <4>. QED  BY <3>3, <4>3, <4>4
    <3>. QED  BY <3>1, <3>2, <3>3
  <2>. HIDE DEF new
  <2>7. new = [T \in SUBSET (1..(n + 1)) |-> new[T]]
    BY <2>5
  <2>8. Iterates(new, G, base, s, n + 1)
    BY <2>6, <2>7 DEF Iterates
  <2>. QED  BY <2>5, <2>8
<1>3. \A n \in Nat : n \in Fine => n + 1 \in Fine
  <2>. SUFFICES ASSUME NEW n \in Nat, n \in Fine PROVE n + 1 \in Fine
    OBVIOUS
  <2>1. Fits(n + 1)
    BY <1>2
  <2>. HIDE DEF Fits
  <2>. QED  BY <2>1
<1>4. Nat \subseteq Fine
  <2>. HIDE DEF Fine
  <2>. QED  BY <1>1, <1>3, Induction
<1>5. Fits(Len(s))
  <2>. HIDE DEF Fits
  <2>. QED  BY <1>0, <1>4
<1>6. Len(s) <= Len(s)
  BY <1>0
<1>. QED  BY <1>5, <1>6

\* The values along the sets 1..i, where only those in A matter.
RunsAlong(it, A, G, base, s) ==
    /\ it[1..0] = base
    /\ \A i \in 1..Len(s) : it[1..(i - 1)] \in A =>
           it[1..i] = G[<<it[1..(i - 1)], s[i]>>]

LEMMA AlongTheSequence ==
    ASSUME NEW A, NEW B, NEW G \in [A \X B -> A], NEW base \in A, NEW s \in Seq(B),
           NEW it, RunsAlong(it, A, G, base, s)
    PROVE  \A i \in 0..Len(s) : it[1..i] \in A
<1>. USE DEF RunsAlong
<1>. DEFINE Fine == {i \in Nat : i <= Len(s) => it[1..i] \in A}
<1>0. Len(s) \in Nat /\ \A i \in 1..Len(s) : s[i] \in B
  BY LenProperties, ElementOfSeq
<1>1. 0 \in Fine
  OBVIOUS
<1>2. ASSUME NEW i \in Nat, i \in Fine
      PROVE  i + 1 \in Fine
  <2>. SUFFICES ASSUME i + 1 <= Len(s) PROVE it[1..(i + 1)] \in A
    OBVIOUS
  <2>1. it[1..i] \in A /\ i + 1 \in 1..Len(s) /\ (i + 1) - 1 = i
    BY <1>0, <1>2
  <2>2. it[1..(i + 1)] = G[<<it[1..i], s[i + 1]>>]
    BY <2>1
  <2>. QED  BY <1>0, <2>1, <2>2
<1>3. Nat \subseteq Fine
  <2>. HIDE DEF Fine
  <2>. QED  BY <1>1, <1>2, Induction
<1>. QED  BY <1>0, <1>3

\* An iteration that goes on as G does, as long as its values are in A, is a
\* sequence of values: what the fold of an operator is shown to be with the
\* function G that the operator is on A and B.
FoldsAs(it, A, B, G, base, s) ==
    /\ G \in [A \X B -> A] /\ base \in A /\ s \in Seq(B)
    /\ it[{}] = base
    /\ \A T \in SUBSET (1..Len(s)) :
          (T # {} /\ it[T \ {Max(T)}] \in A) =>
              it[T] = G[<<it[T \ {Max(T)}], s[Max(T)]>>]

LEMMA FoldRuns ==
    ASSUME NEW A, NEW B, NEW G, NEW base, NEW s, NEW it, FoldsAs(it, A, B, G, base, s)
    PROVE  \E f \in [0..Len(s) -> A] :
              /\ f[0] = base
              /\ \A i \in 1..Len(s) : f[i] = G[<<f[i - 1], s[i]>>]
              /\ f[Len(s)] = it[1..Len(s)]
<1>0. G \in [A \X B -> A] /\ base \in A /\ s \in Seq(B)
  BY DEF FoldsAs
<1>1. Len(s) \in Nat
  BY <1>0, LenProperties
<1>2. it[1..0] = base
  <2>1. 1..0 = {}
    OBVIOUS
  <2>. QED  BY <2>1 DEF FoldsAs
<1>3. ASSUME NEW i \in 1..Len(s), it[1..(i - 1)] \in A
      PROVE  it[1..i] = G[<<it[1..(i - 1)], s[i]>>]
  <2>1. 1..i \in SUBSET (1..Len(s)) /\ 1..i # {} /\ (1..i) \ {i} = 1..(i - 1)
    <3>1. \A j \in Int : (j \in 1..i /\ j # i) <=> j \in 1..(i - 1)
      BY <1>1
    <3>2. (1..i) \ {i} = 1..(i - 1)
      BY <3>1
    <3>3. 1..i \subseteq 1..Len(s) /\ i \in 1..i
      BY <1>1
    <3>. QED  BY <3>2, <3>3
  <2>2. Max(1..i) = i
    <3>1. PICK j \in Nat : j + 1 = i
      <4>1. i - 1 \in Nat /\ (i - 1) + 1 = i
        BY <1>1
      <4>. QED  BY <4>1
    <3>. QED  BY <3>1, MaxOfInterval
  <2>. QED  BY <1>3, <2>1, <2>2 DEF FoldsAs
<1>4. \A i \in 0..Len(s) : it[1..i] \in A
  <2>1. RunsAlong(it, A, G, base, s)
    BY <1>2, <1>3 DEF RunsAlong
  <2>. QED  BY <1>0, <2>1, AlongTheSequence
<1>. DEFINE f == [i \in 0..Len(s) |-> it[1..i]]
<1>5. f \in [0..Len(s) -> A]
  BY <1>4
<1>6. f[0] = base
  BY <1>1, <1>2
<1>7. ASSUME NEW i \in 1..Len(s) PROVE f[i] = G[<<f[i - 1], s[i]>>]
  <2>1. i \in 0..Len(s) /\ i - 1 \in 0..Len(s)
    BY <1>1
  <2>2. f[i] = it[1..i] /\ f[i - 1] = it[1..(i - 1)] /\ it[1..(i - 1)] \in A
    BY <1>4, <2>1
  <2>. QED  BY <1>3, <2>2
<1>8. f[Len(s)] = it[1..Len(s)]
  BY <1>1
<1>. QED  BY <1>5, <1>6, <1>7, <1>8

\* Two computations that begin alike and go on alike are the same.
GoAlike(n, f, g) ==
    /\ f[0] = g[0]
    /\ \A i \in 1..n : f[i - 1] = g[i - 1] => f[i] = g[i]

LEMMA SameAlong ==
    ASSUME NEW n \in Nat, NEW f, NEW g, GoAlike(n, f, g)
    PROVE  \A i \in 0..n : f[i] = g[i]
<1>. USE DEF GoAlike
<1>. DEFINE T == {i \in Nat : i <= n => f[i] = g[i]}
<1>1. 0 \in T
  OBVIOUS
<1>2. ASSUME NEW i \in Nat, i \in T PROVE i + 1 \in T
  <2>. SUFFICES ASSUME i + 1 <= n PROVE f[i + 1] = g[i + 1]
    OBVIOUS
  <2>1. f[i] = g[i] /\ i + 1 \in 1..n /\ (i + 1) - 1 = i
    BY <1>2
  <2>. QED  BY <2>1
<1>3. Nat \subseteq T
  <2>. HIDE DEF T
  <2>. QED  BY <1>1, <1>2, Induction
<1>. QED  BY <1>3

-------------------------------------------------------------------------------
(* A loop.  That it ends is not assumed: there is a function that satisfies *)
(* its recursive equation wherever it begins.                               *)

\* W has what the loop returns where it is done, and what it returns after a
\* step it returns before it.
ClosedUnder(W, X, Done, Out, Step) ==
    \A x \in X : /\ x \in Done => <<x, Out[x]>> \in W
                 /\ x \notin Done => \A y : <<Step[x], y>> \in W => <<x, y>> \in W

\* f is what the loop returns, from each state on.
Returns(f, X, Done, Out, Step) ==
    f = [x \in X |-> IF x \in Done THEN Out[x] ELSE f[Step[x]]]

LEMMA LoopFunction ==
    ASSUME NEW X, NEW Y, NEW Done, NEW Out \in [X -> Y], NEW Step \in [X -> X],
           NEW y0 \in Y
    PROVE  \E f \in [X -> Y] : Returns(f, X, Done, Out, Step)
<1>. DEFINE All == X \X Y
            Closed(W) == ClosedUnder(W, X, Done, Out, Step)
            R == {p \in All : \A W \in SUBSET All : Closed(W) => p \in W}
<1>1. Closed(R)
  <2>. SUFFICES ASSUME NEW x \in X
                PROVE  /\ x \in Done => <<x, Out[x]>> \in R
                       /\ x \notin Done => \A y : <<Step[x], y>> \in R => <<x, y>> \in R
    BY DEF ClosedUnder
  <2>1. ASSUME x \in Done PROVE <<x, Out[x]>> \in R
    <3>1. \A W \in SUBSET All : Closed(W) => <<x, Out[x]>> \in W
      BY <2>1 DEF ClosedUnder
    <3>2. <<x, Out[x]>> \in All
      OBVIOUS
    <3>. QED  BY <3>1, <3>2
  <2>2. ASSUME x \notin Done, NEW y, <<Step[x], y>> \in R PROVE <<x, y>> \in R
    <3>1. <<x, y>> \in All
      BY <2>2
    <3>2. \A W \in SUBSET All : Closed(W) => <<Step[x], y>> \in W
      BY <2>2
    <3>3. \A W \in SUBSET All : Closed(W) => <<x, y>> \in W
      BY <2>2, <3>2 DEF ClosedUnder
    <3>. QED  BY <3>1, <3>3
  <2>. QED  BY <2>1, <2>2
<1>2. \A W \in SUBSET All : Closed(W) => R \subseteq W
  OBVIOUS
<1>3. R \subseteq All
  OBVIOUS
<1>. HIDE DEF R
<1>4. ASSUME NEW x \in X, NEW y, <<x, y>> \in R
      PROVE  /\ x \in Done => y = Out[x]
             /\ x \notin Done => <<Step[x], y>> \in R
  <2>. DEFINE Wrong == /\ x \in Done => y = Out[x]
                       /\ x \notin Done => <<Step[x], y>> \in R
              W == R \ {<<x, y>>}
  <2>. SUFFICES ASSUME ~Wrong PROVE FALSE
    OBVIOUS
  <2>1. Closed(W)
    <3>. SUFFICES ASSUME NEW z \in X
                  PROVE  /\ z \in Done => <<z, Out[z]>> \in W
                         /\ z \notin Done => \A u : <<Step[z], u>> \in W => <<z, u>> \in W
      BY DEF ClosedUnder
    <3>1. ASSUME z \in Done PROVE <<z, Out[z]>> \in W
      <4>1. <<z, Out[z]>> \in R
        BY <1>1, <3>1 DEF ClosedUnder
      <4>2. <<z, Out[z]>> # <<x, y>>
        BY <3>1
      <4>. QED  BY <4>1, <4>2
    <3>2. ASSUME z \notin Done, NEW u, <<Step[z], u>> \in W PROVE <<z, u>> \in W
      <4>1. <<z, u>> \in R
        BY <1>1, <3>2 DEF ClosedUnder
      <4>2. <<z, u>> # <<x, y>>
        BY <3>2
      <4>. QED  BY <4>1, <4>2
    <3>. QED  BY <3>1, <3>2
  <2>2. W \in SUBSET All /\ <<x, y>> \notin W
    BY <1>3
  <2>. HIDE DEF W
  <2>. QED  BY <1>2, <1>4, <2>1, <2>2
<1>5. \A x \in X : \A y, z : <<x, y>> \in R /\ <<x, z>> \in R => y = z
  <2>. DEFINE W == {p \in R : \A z : <<p[1], z>> \in R => z = p[2]}
  <2>1. Closed(W)
    <3>. SUFFICES ASSUME NEW x \in X
                  PROVE  /\ x \in Done => <<x, Out[x]>> \in W
                         /\ x \notin Done => \A u : <<Step[x], u>> \in W => <<x, u>> \in W
      BY DEF ClosedUnder
    <3>1. ASSUME x \in Done PROVE <<x, Out[x]>> \in W
      <4>1. <<x, Out[x]>> \in R
        BY <1>1, <3>1 DEF ClosedUnder
      <4>2. \A z : <<x, z>> \in R => z = Out[x]
        BY <1>4, <3>1
      <4>. QED  BY <4>1, <4>2
    <3>2. ASSUME x \notin Done, NEW u, <<Step[x], u>> \in W PROVE <<x, u>> \in W
      <4>1. <<x, u>> \in R
        BY <1>1, <3>2 DEF ClosedUnder
      <4>2. \A z : <<Step[x], z>> \in R => z = u
        BY <3>2
      <4>3. \A z : <<x, z>> \in R => z = u
        BY <1>4, <3>2, <4>2
      <4>. QED  BY <4>1, <4>3
    <3>. QED  BY <3>1, <3>2
  <2>2. W \in SUBSET All
    BY <1>3
  <2>3. R \subseteq W
    <3>. HIDE DEF W
    <3>. QED  BY <1>2, <2>1, <2>2
  <2>4. \A p \in R : \A z : <<p[1], z>> \in R => z = p[2]
    BY <2>3
  <2>. QED  BY <2>4
<1>. DEFINE Ends(x) == \E y : <<x, y>> \in R
            f == [x \in X |-> IF Ends(x) THEN CHOOSE y : <<x, y>> \in R ELSE y0]
<1>6. \A x \in X : \A y : <<x, y>> \in R => f[x] = y
  BY <1>5
<1>7. \A x \in X : ~Ends(x) => f[x] = y0
  OBVIOUS
<1>8. f \in [X -> Y]
  <2>1. \A x \in X : f[x] \in Y
    BY <1>3, <1>6, <1>7
  <2>. QED  BY <2>1
<1>9. ASSUME NEW x \in X PROVE f[x] = IF x \in Done THEN Out[x] ELSE f[Step[x]]
  <2>. HIDE DEF f
  <2>1. CASE x \in Done
    <3>1. <<x, Out[x]>> \in R
      BY <1>1, <2>1 DEF ClosedUnder
    <3>. QED  BY <1>6, <2>1, <3>1
  <2>2. CASE x \notin Done
    <3>0. Step[x] \in X
      OBVIOUS
    <3>1. CASE Ends(x)
      <4>1. PICK y : <<x, y>> \in R
        BY <3>1
      <4>2. <<Step[x], y>> \in R
        BY <1>4, <2>2, <4>1
      <4>. QED  BY <1>6, <2>2, <3>0, <4>1, <4>2
    <3>2. CASE ~Ends(x)
      <4>1. ~Ends(Step[x])
        BY <1>1, <2>2, <3>2 DEF ClosedUnder
      <4>. QED  BY <1>7, <2>2, <3>0, <3>2, <4>1
    <3>. QED  BY <3>1, <3>2
  <2>. QED  BY <2>1, <2>2
<1>. HIDE DEF f
<1>10. Returns(f, X, Done, Out, Step)
  BY <1>8, <1>9 DEF Returns
<1>. QED  BY <1>8, <1>10
===============================================================================
