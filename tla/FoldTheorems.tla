----------------------------- MODULE FoldTheorems ------------------------------
(***************************************************************************)
(* What a loop does: theorems about FoldLeft, the form that the modules    *)
(* of the streams give the loops of the Go code, and about functions that  *)
(* are defined by their own values for smaller arguments.  An instance of  *)
(* this module takes the body of one loop for Step, and what holds before  *)
(* each of its turns for Good; the theorems have no operator for a         *)
(* parameter, so that an instance's can be cited.                          *)
(***************************************************************************)
EXTENDS Integers, SequencesExt, WellFoundedInduction, SequenceTheorems, TLAPS

CONSTANTS
  Step(_, _),       \* the state after a turn, of the state and the element
  Good(_, _, _, _)  \* of the state at first, the sequence, the turns done, the state

-------------------------------------------------------------------------------
(* Induction, over a set: an operator could not be given.                     *)

LEMMA NatSetInduction ==
  ASSUME NEW T, 0 \in T, \A n \in Nat : n \in T => n + 1 \in T
  PROVE  \A n \in Nat : n \in T
<1> DEFINE B == Nat \ T
           R == OpToRel(<, Nat)
<1> SUFFICES ASSUME B # {} PROVE FALSE
  OBVIOUS
<1>1. IsWellFoundedOn(R, Nat)
  BY NatLessThanWellFounded
<1>2. \A x, y \in Nat : y < x => <<y, x>> \in R
  BY DEF OpToRel
<1> HIDE DEF R
<1>3. PICK x \in B : \A y \in B : ~ (<<y, x>> \in R)
  BY <1>1, WFMin
<1>4. x \in Nat /\ x # 0 /\ x - 1 \in Nat
  BY <1>3
<1>5. x - 1 \in B
  BY <1>4
<1>6. <<x - 1, x>> \in R
  <2>1. x - 1 < x
    BY <1>4
  <2> QED BY <1>2, <1>4, <2>1
<1> QED BY <1>3, <1>5, <1>6, Zenon

LEMMA LeastOfSet ==
  ASSUME NEW S, S \subseteq Nat, S # {}
  PROVE  \E i \in S : \A j \in S : i <= j
<1> SUFFICES ASSUME \A i \in S : \E j \in S : j < i PROVE FALSE
  OBVIOUS
<1> DEFINE T == {n \in Nat : \A i \in S : n <= i}
<1>1. 0 \in T
  OBVIOUS
<1>2. ASSUME NEW n \in Nat, n \in T PROVE n + 1 \in T
  <2>1. \A i \in S : n <= i /\ i # n
    BY <1>2
  <2> QED BY <2>1
<1>3. \A n \in T : n \in Nat /\ \A i \in S : n <= i
  OBVIOUS
<1> HIDE DEF T
<1>4. \A n \in Nat : n \in T
  BY <1>1, <1>2, NatSetInduction
<1>5. PICK i \in S : TRUE
  OBVIOUS
<1>6. i + 1 \in Nat /\ i + 1 \in T
  BY <1>4
<1> QED BY <1>3, <1>5, <1>6

-------------------------------------------------------------------------------
(* FoldLeft is a function that CHOOSE picks, on the initial segments of the   *)
(* sequence: there is one, and any two agree where both are defined.          *)

Run(s, q) == FoldLeft(Step, s, q)

IsIter(f, s, q, n) ==
  f = [S \in SUBSET (1..n) |-> IF S = {} THEN s ELSE Step(f[S \ {Max(S)}], q[Max(S)])]

LEMMA RunIter ==
  ASSUME NEW s, NEW q, NEW n, DOMAIN q = 1..n
  PROVE  Run(s, q) = (CHOOSE f : IsIter(f, s, q, n))[1..n]
BY DEF Run, IsIter, FoldLeft, MapThenFoldSet

LEMMA MaxUpTo ==
  ASSUME NEW n \in Nat, NEW S \in SUBSET (1..n + 1), n + 1 \in S
  PROVE  Max(S) = n + 1
<1>1. \A y \in S : n + 1 >= y
  OBVIOUS
<1>2. \A x \in S : (\A y \in S : x >= y) => x = n + 1
  OBVIOUS
<1> QED BY <1>1, <1>2 DEF Max

LEMMA IterExists ==
  ASSUME NEW s, NEW q
  PROVE  \A n \in Nat : \E f : IsIter(f, s, q, n)
<1> DEFINE T == {n \in Nat : \E f : IsIter(f, s, q, n)}
<1>1. 0 \in T
  <2> DEFINE g == [S \in SUBSET (1..0) |-> s]
  <2>1. 1..0 = {}
    OBVIOUS
  <2>2. \A S \in SUBSET (1..0) : S = {}
    BY <2>1
  <2>3. g = [S \in SUBSET (1..0) |-> IF S = {} THEN s ELSE Step(g[S \ {Max(S)}], q[Max(S)])]
    BY <2>2
  <2> QED BY <2>3 DEF IsIter
<1>2. ASSUME NEW n \in Nat, n \in T PROVE n + 1 \in T
  <2>1. PICK f : IsIter(f, s, q, n)
    BY <1>2
  <2> DEFINE g == [S \in SUBSET (1..n + 1) |->
                     IF n + 1 \in S THEN Step(f[S \ {n + 1}], q[n + 1]) ELSE f[S]]
             h(S) == IF S = {} THEN s ELSE Step(g[S \ {Max(S)}], q[Max(S)])
  <2>2. ASSUME NEW S \in SUBSET (1..n + 1) PROVE g[S] = h(S)
    <3>1. CASE n + 1 \in S
      <4>1. Max(S) = n + 1 /\ S # {}
        BY <3>1, MaxUpTo
      <4>2. S \ {n + 1} \in SUBSET (1..n + 1) /\ n + 1 \notin S \ {n + 1}
        OBVIOUS
      <4>3. g[S \ {n + 1}] = f[S \ {n + 1}]
        BY <4>2
      <4>4. g[S] = Step(f[S \ {n + 1}], q[n + 1])
        BY <3>1
      <4> HIDE DEF g
      <4> QED BY <4>1, <4>3, <4>4
    <3>2. CASE n + 1 \notin S
      <4>1. S \in SUBSET (1..n)
        BY <3>2
      <4>2. f[S] = IF S = {} THEN s ELSE Step(f[S \ {Max(S)}], q[Max(S)])
        BY <2>1, <4>1 DEF IsIter
      <4>3. S \ {Max(S)} \in SUBSET (1..n + 1) /\ n + 1 \notin S \ {Max(S)}
        BY <3>2
      <4>4. g[S \ {Max(S)}] = f[S \ {Max(S)}] /\ g[S] = f[S]
        BY <3>2, <4>3
      <4> HIDE DEF g
      <4> QED BY <4>2, <4>4
    <3> QED BY <3>1, <3>2
  <2>3. g = [S \in SUBSET (1..n + 1) |-> h(S)]
    BY <2>2
  <2>4. IsIter(g, s, q, n + 1)
    BY <2>3 DEF IsIter
  <2> QED BY <2>4
<1> HIDE DEF T
<1>3. \A n \in Nat : n \in T
  BY <1>1, <1>2, NatSetInduction
<1> QED BY <1>3 DEF T

Agree(p, q, n) == \A i \in 1..n : p[i] = q[i]

\* What two of them say of the same places they say alike.
LEMMA IterUnique ==
  ASSUME NEW s, NEW p, NEW q, NEW m \in Nat, NEW k \in Nat, m <= k,
         NEW f, IsIter(f, s, p, m), NEW g, IsIter(g, s, q, k),
         Agree(p, q, m)
  PROVE  f[1..m] = g[1..m]
<1> DEFINE T == {n \in Nat : n <= m => f[1..n] = g[1..n]}
<1>1. 0 \in T
  <2>1. 1..0 = {} /\ {} \in SUBSET (1..m) /\ {} \in SUBSET (1..k)
    OBVIOUS
  <2>2. f[{}] = s /\ g[{}] = s
    BY <2>1 DEF IsIter
  <2> QED BY <2>1, <2>2
<1>2. ASSUME NEW n \in Nat, n \in T, n + 1 <= m PROVE f[1..n + 1] = g[1..n + 1]
  <2> DEFINE S == 1..n + 1
  <2>1. f[1..n] = g[1..n] /\ p[n + 1] = q[n + 1]
    BY <1>2 DEF Agree
  <2>2. S \in SUBSET (1..m) /\ S \in SUBSET (1..k) /\ n + 1 \in S /\ S # {}
    <3>1. \A i \in S : i \in 1..m /\ i \in 1..k
      BY <1>2
    <3>2. n + 1 \in S
      OBVIOUS
    <3> HIDE DEF S
    <3> QED BY <3>1, <3>2, Zenon
  <2>3. Max(S) = n + 1
    BY <2>2, MaxUpTo
  <2>4. S \ {n + 1} = 1..n
    OBVIOUS
  <2> HIDE DEF S
  <2>5. f[S] = Step(f[S \ {n + 1}], p[n + 1])
    BY <2>2, <2>3 DEF IsIter
  <2>6. g[S] = Step(g[S \ {n + 1}], q[n + 1])
    BY <2>2, <2>3 DEF IsIter
  <2>7. f[S] = g[S]
    BY <2>1, <2>4, <2>5, <2>6
  <2> QED BY <2>7 DEF S
<1>3. \A n \in Nat : n \in T => n + 1 \in T
  <2> SUFFICES ASSUME NEW n \in Nat, n \in T PROVE n + 1 \in T
    OBVIOUS
  <2> QED BY <1>2
<1> HIDE DEF T
<1>4. \A n \in Nat : n \in T
  BY <1>1, <1>3, NatSetInduction
<1> QED BY <1>4 DEF T

\* Hence the fold is one of them.
LEMMA RunIsIter ==
  ASSUME NEW s, NEW q, NEW n \in Nat, DOMAIN q = 1..n
  PROVE  \E f : IsIter(f, s, q, n) /\ Run(s, q) = f[1..n]
BY IterExists, RunIter

-------------------------------------------------------------------------------
(* The loop, turn by turn.                                                     *)

LEMMA RunEmpty == ASSUME NEW s PROVE Run(s, <<>>) = s
<1>1. DOMAIN <<>> = 1..0 /\ 1..0 = {} /\ {} \in SUBSET (1..0)
  OBVIOUS
<1>2. PICK f : IsIter(f, s, <<>>, 0) /\ Run(s, <<>>) = f[1..0]
  BY <1>1, RunIsIter
<1>4. f[{}] = s
  BY <1>1, <1>2 DEF IsIter
<1> QED BY <1>1, <1>2, <1>4

LEMMA RunAppend ==
  ASSUME NEW s, NEW S, NEW q \in Seq(S), NEW x \in S
  PROVE  Run(s, Append(q, x)) = Step(Run(s, q), x)
<1> DEFINE n == Len(q)
           r == Append(q, x)
<1>1. /\ n \in Nat /\ DOMAIN q = 1..n
      /\ r \in Seq(S) /\ Len(r) = n + 1 /\ DOMAIN r = 1..n + 1
      /\ \A i \in 1..n : r[i] = q[i]
      /\ r[n + 1] = x
  BY AppendProperties, LenProperties
<1> HIDE DEF n, r
<1>2. PICK f : IsIter(f, s, q, n) /\ Run(s, q) = f[1..n]
  BY <1>1, RunIsIter
<1>3. PICK g : IsIter(g, s, r, n + 1) /\ Run(s, r) = g[1..n + 1]
  <2>1. n + 1 \in Nat /\ DOMAIN r = 1..n + 1
    BY <1>1
  <2> QED BY <2>1, RunIsIter
<1>4. f[1..n] = g[1..n]
  <2>1. n \in Nat /\ n + 1 \in Nat /\ n <= n + 1 /\ n \in 0..n
    BY <1>1
  <2>2. Agree(q, r, n)
    BY <1>1 DEF Agree
  <2>3. IsIter(f, s, q, n) /\ IsIter(g, s, r, n + 1)
    BY <1>2, <1>3
  <2> QED BY <2>1, <2>2, <2>3, IterUnique
<1> DEFINE D == 1..n + 1
<1>5. D \in SUBSET (1..n + 1) /\ n + 1 \in D /\ D # {} /\ D \ {n + 1} = 1..n
  <2>1. n \in Nat
    BY <1>1
  <2> QED BY <2>1
<1>6. Max(D) = n + 1
  BY <1>1, <1>5, MaxUpTo
<1> HIDE DEF D
<1>7. g[D] = Step(g[D \ {n + 1}], r[n + 1])
  BY <1>3, <1>5, <1>6 DEF IsIter
<1>8. Run(s, r) = Step(Run(s, q), x)
  BY <1>1, <1>2, <1>3, <1>4, <1>5, <1>7 DEF D
<1> QED BY <1>8 DEF r

\* Loops that are short.
LEMMA RunOne == ASSUME NEW s, NEW x PROVE Run(s, <<x>>) = Step(s, x)
<1>1. <<>> \in Seq({x}) /\ Append(<<>>, x) = <<x>>
  OBVIOUS
<1>2. Run(s, Append(<<>>, x)) = Step(Run(s, <<>>), x)
  BY <1>1, RunAppend
<1> QED BY <1>1, <1>2, RunEmpty

LEMMA RunThree ==
  ASSUME NEW s, NEW x, NEW y, NEW z
  PROVE  Run(s, <<x, y, z>>) = Step(Step(Step(s, x), y), z)
<1> DEFINE S == {x, y, z}
<1>1. <<x>> \in Seq(S) /\ <<x, y>> \in Seq(S) /\ x \in S /\ y \in S /\ z \in S
  OBVIOUS
<1>2. Append(<<x>>, y) = <<x, y>>
  <2> DEFINE p == Append(<<x>>, y)
  <2>1. p \in Seq(S) /\ <<x, y>> \in Seq(S) /\ Len(p) = 2 /\ Len(<<x, y>>) = 2
    OBVIOUS
  <2>2. \A i \in 1..2 : p[i] = <<x, y>>[i]
    OBVIOUS
  <2> HIDE DEF p
  <2>3. p = <<x, y>>
    BY <2>1, <2>2, SeqEqual
  <2> QED BY <2>3 DEF p
<1>t. Append(<<x, y>>, z) = <<x, y, z>>
  <2> DEFINE p == Append(<<x, y>>, z)
  <2>1. p \in Seq(S) /\ <<x, y, z>> \in Seq(S) /\ Len(p) = 3 /\ Len(<<x, y, z>>) = 3
    OBVIOUS
  <2>2. \A i \in 1..3 : p[i] = <<x, y, z>>[i]
    OBVIOUS
  <2> HIDE DEF p
  <2>3. p = <<x, y, z>>
    BY <2>1, <2>2, SeqEqual
  <2> QED BY <2>3 DEF p
<1> HIDE DEF S
<1>3. Run(s, Append(<<x>>, y)) = Step(Run(s, <<x>>), y)
  BY <1>1, RunAppend
<1>4. Run(s, Append(<<x, y>>, z)) = Step(Run(s, <<x, y>>), z)
  BY <1>1, RunAppend
<1> QED BY <1>2, <1>t, <1>3, <1>4, RunOne

\* One turn more, over a longer part of the same sequence.
LEMMA RunTurn ==
  ASSUME NEW s, NEW S, NEW q \in Seq(S), NEW i \in 0..Len(q) - 1
  PROVE  Run(s, SubSeq(q, 1, i + 1)) = Step(Run(s, SubSeq(q, 1, i)), q[i + 1])
<1>1. Len(q) \in Nat /\ i + 1 \in 1..Len(q) /\ \A j \in 1..Len(q) : q[j] \in S
  BY LenProperties, ElementOfSeq
<1> DEFINE p == SubSeq(q, 1, i)
<1>2. p \in Seq(S) /\ q[i + 1] \in S
  BY <1>1, SubSeqProperties
<1>3. SubSeq(q, 1, i + 1) = p \o <<q[i + 1]>>
  <2>1. 1 \in 1..Len(q) /\ i + 1 \in 1..Len(q) /\ (i + 1) - 1 = i
    BY <1>1
  <2> QED BY <2>1, SubSeqRecursiveSecond
<1> HIDE DEF p
<1>4. SubSeq(q, 1, i + 1) = Append(p, q[i + 1])
  BY <1>2, <1>3, AppendIsConcat
<1>5. Run(s, Append(p, q[i + 1])) = Step(Run(s, p), q[i + 1])
  BY <1>2, RunAppend
<1> QED BY <1>4, <1>5 DEF p

(***************************************************************************)
(* The rule for loops: what holds at first, and is kept by every turn,     *)
(* holds in the end.                                                       *)
(***************************************************************************)
THEOREM LoopInvariant ==
  ASSUME NEW s, NEW S, NEW q \in Seq(S), Good(s, q, 0, s),
         \A i \in 0..Len(q) - 1 : \A t : Good(s, q, i, t) => Good(s, q, i + 1, Step(t, q[i + 1]))
  PROVE  Good(s, q, Len(q), Run(s, q))
<1> DEFINE T == {i \in Nat : i <= Len(q) => Good(s, q, i, Run(s, SubSeq(q, 1, i)))}
<1>1. Len(q) \in Nat
  BY LenProperties
<1>2. 0 \in T
  <2>1. SubSeq(q, 1, 0) = <<>>
    BY SubSeqEmpty
  <2> QED BY <2>1, RunEmpty
<1>3. ASSUME NEW i \in Nat, i \in T PROVE i + 1 \in T
  <2> SUFFICES ASSUME i + 1 <= Len(q) PROVE Good(s, q, i + 1, Run(s, SubSeq(q, 1, i + 1)))
    OBVIOUS
  <2>1. i \in 0..Len(q) - 1 /\ i <= Len(q)
    BY <1>1
  <2>2. Good(s, q, i, Run(s, SubSeq(q, 1, i)))
    BY <1>3, <2>1
  <2>3. Run(s, SubSeq(q, 1, i + 1)) = Step(Run(s, SubSeq(q, 1, i)), q[i + 1])
    BY <2>1, RunTurn
  <2> QED BY <2>1, <2>2, <2>3
<1> HIDE DEF T
<1>4. \A i \in Nat : i \in T
  BY <1>2, <1>3, NatSetInduction
<1>5. Len(q) <= Len(q) /\ SubSeq(q, 1, Len(q)) = q
  BY <1>1, SubSeqFull
<1> QED BY <1>1, <1>4, <1>5 DEF T
-------------------------------------------------------------------------------
(* Recursive functions.                                                        *)

\* Phi, the right side of a definition f[x] == ..., as a function of f, gives
\* the elements of S values of T, and looks at f at smaller elements only.
Recursion(S, T, size, Phi) ==
  /\ T # {}
  /\ size \in [S -> Nat]
  /\ Phi \in [[S -> T] -> [S -> T]]
  /\ \A f, g \in [S -> T] : \A x \in S :
       (\A y \in S : size[y] < size[x] => f[y] = g[y]) => Phi[f][x] = Phi[g][x]

\* Such a definition defines a function.
LEMMA RecursionExists ==
  ASSUME NEW S, NEW T, NEW size, NEW Phi, Recursion(S, T, size, Phi)
  PROVE  \E f \in [S -> T] : f = Phi[f]
<1> SUFFICES ASSUME T # {}, size \in [S -> Nat], Phi \in [[S -> T] -> [S -> T]],
                    \A f, g \in [S -> T] : \A x \in S :
                      (\A y \in S : size[y] < size[x] => f[y] = g[y]) => Phi[f][x] = Phi[g][x]
             PROVE  \E f \in [S -> T] : f = Phi[f]
  BY Zenon DEF Recursion
<1> DEFINE Upto(f, n) == \A x \in S : size[x] < n => f[x] = Phi[f][x]
<1>1. \A f, g \in [S -> T] : \A n \in Nat : Upto(f, n) /\ Upto(g, n) =>
        \A x \in S : size[x] < n => f[x] = g[x]
  <2> SUFFICES ASSUME NEW f \in [S -> T], NEW g \in [S -> T], NEW n \in Nat, Upto(f, n), Upto(g, n)
               PROVE  \A x \in S : size[x] < n => f[x] = g[x]
    OBVIOUS
  <2> DEFINE A == {k \in Nat : \A x \in S : size[x] < k /\ size[x] < n => f[x] = g[x]}
  <2>1. 0 \in A
    OBVIOUS
  <2>2. ASSUME NEW k \in Nat, k \in A PROVE k + 1 \in A
    <3> SUFFICES ASSUME NEW x \in S, size[x] < k + 1, size[x] < n PROVE f[x] = g[x]
      OBVIOUS
    <3>0. size[x] \in Nat
      OBVIOUS
    <3>1. \A y \in S : size[y] < size[x] => f[y] = g[y]
      <4> SUFFICES ASSUME NEW y \in S, size[y] < size[x] PROVE f[y] = g[y]
        OBVIOUS
      <4>1. size[y] \in Nat /\ size[y] < k /\ size[y] < n
        BY <3>0
      <4> QED BY <4>1, <2>2
    <3>2. Phi[f][x] = Phi[g][x]
      BY <3>1
    <3> QED BY <3>2
  <2>3. \A k \in Nat : k \in A
    <3> HIDE DEF A
    <3> QED BY <2>1, <2>2, NatSetInduction
  <2>4. n \in A
    BY <2>3
  <2> QED BY <2>4
<1> DEFINE E == {n \in Nat : \E f \in [S -> T] : Upto(f, n)}
<1>2. 0 \in E
  <2> PICK t : t \in T
    OBVIOUS
  <2>1. [x \in S |-> t] \in [S -> T] /\ Upto([x \in S |-> t], 0)
    OBVIOUS
  <2> QED BY <2>1
<1>3. ASSUME NEW n \in Nat, n \in E PROVE n + 1 \in E
  <2> PICK g \in [S -> T] : Upto(g, n)
    BY <1>3
  <2> DEFINE h == Phi[g]
  <2>1. h \in [S -> T]
    OBVIOUS
  <2>2. ASSUME NEW x \in S, size[x] < n + 1 PROVE h[x] = Phi[h][x]
    <3>0. size[x] \in Nat
      OBVIOUS
    <3>1. \A y \in S : size[y] < size[x] => h[y] = g[y]
      <4> SUFFICES ASSUME NEW y \in S, size[y] < size[x] PROVE h[y] = g[y]
        OBVIOUS
      <4>1. size[y] \in Nat /\ size[y] < n
        BY <3>0, <2>2
      <4> QED BY <4>1
    <3> HIDE DEF h
    <3>2. Phi[h][x] = Phi[g][x]
      BY <3>1, <2>1
    <3> QED BY <3>2 DEF h
  <2>3. Upto(h, n + 1)
    BY <2>2
  <2> HIDE DEF h, Upto
  <2> QED BY <2>1, <2>3
<1>4. \A n \in Nat : n \in E
  <2> HIDE DEF E
  <2> QED BY <1>2, <1>3, NatSetInduction
<1> DEFINE at(n) == CHOOSE g \in [S -> T] : Upto(g, n)
           f == [x \in S |-> at(size[x] + 1)[x]]
<1>5. ASSUME NEW n \in Nat PROVE at(n) \in [S -> T] /\ Upto(at(n), n)
  <2> \E g \in [S -> T] : Upto(g, n)
    BY <1>4
  <2> HIDE DEF Upto
  <2> QED OBVIOUS
<1>6. f \in [S -> T]
  <2> SUFFICES ASSUME NEW x \in S PROVE at(size[x] + 1)[x] \in T
    OBVIOUS
  <2> size[x] + 1 \in Nat
    OBVIOUS
  <2> HIDE DEF at
  <2> QED BY <1>5
<1>7. ASSUME NEW x \in S PROVE f[x] = Phi[f][x]
  <2> DEFINE n == size[x] + 1
  <2>1. n \in Nat /\ size[x] \in Nat
    OBVIOUS
  <2> HIDE DEF at, n
  <2>2. at(n) \in [S -> T] /\ Upto(at(n), n)
    BY <1>5, <2>1
  <2>3. ASSUME NEW y \in S, size[y] < n PROVE f[y] = at(n)[y]
    <3> DEFINE m == size[y] + 1
    <3>1. m \in Nat /\ m <= n /\ size[y] < m
      BY <2>1, <2>3
    <3>2. at(m) \in [S -> T] /\ Upto(at(m), m)
      BY <3>1, <1>5
    <3>3. Upto(at(n), m)
      <4> SUFFICES ASSUME NEW z \in S, size[z] < m PROVE at(n)[z] = Phi[at(n)][z]
        OBVIOUS
      <4>1. size[z] \in Nat /\ size[z] < n
        BY <3>1, <2>1
      <4> QED BY <4>1, <2>2
    <3>4. at(m)[y] = at(n)[y]
      <4> HIDE DEF m, Upto
      <4> QED BY <1>1, <3>1, <3>2, <3>3, <2>2
    <3> QED BY <3>4
  <2>4. \A y \in S : size[y] < size[x] => f[y] = at(n)[y]
    <3> SUFFICES ASSUME NEW y \in S, size[y] < size[x] PROVE f[y] = at(n)[y]
      OBVIOUS
    <3>1. size[y] < n
      BY <2>1 DEF n
    <3> HIDE DEF f
    <3> QED BY <3>1, <2>3
  <2> HIDE DEF f
  <2>5. Phi[f][x] = Phi[at(n)][x]
    BY <2>4, <2>2, <1>6
  <2>6. size[x] < n
    BY <2>1 DEF n
  <2>7. f[x] = at(n)[x] /\ at(n)[x] = Phi[at(n)][x]
    BY <2>6, <2>3, <2>2
  <2> QED BY <2>5, <2>7
<1>8. f = Phi[f]
  <2> HIDE DEF f
  <2> Phi[f] \in [S -> T]
    BY <1>6
  <2> QED BY <1>6, <1>7
<1> HIDE DEF f
<1> QED BY <1>6, <1>8
-------------------------------------------------------------------------------
(* The same for a function whose values are in no set that could be named:     *)
(* Step(f, x) is the right side of f[x] == ....                                *)

LEMMA RecursiveExists ==
  ASSUME NEW S, NEW size \in [S -> Nat],
         \A f, g : \A x \in S :
           (\A y \in S : size[y] < size[x] => f[y] = g[y]) => Step(f, x) = Step(g, x)
  PROVE  \E f : f = [x \in S |-> Step(f, x)]
<1> DEFINE Upto(f, n) == \A x \in S : size[x] < n => f[x] = Step(f, x)
<1>0. \A x \in S : size[x] \in Nat
  OBVIOUS
<1>1. ASSUME NEW f, NEW g, NEW n \in Nat, Upto(f, n), Upto(g, n)
      PROVE  \A x \in S : size[x] < n => f[x] = g[x]
  <2> DEFINE A == {k \in Nat : \A x \in S : size[x] < k /\ size[x] < n => f[x] = g[x]}
  <2>1. 0 \in A
    BY <1>0
  <2>2. ASSUME NEW k \in Nat, k \in A PROVE k + 1 \in A
    <3> SUFFICES ASSUME NEW x \in S, size[x] < k + 1, size[x] < n PROVE f[x] = g[x]
      OBVIOUS
    <3>1. \A y \in S : size[y] < size[x] => f[y] = g[y]
      <4> SUFFICES ASSUME NEW y \in S, size[y] < size[x] PROVE f[y] = g[y]
        OBVIOUS
      <4>1. size[y] \in Nat /\ size[x] \in Nat
        BY <1>0
      <4>2. size[y] < k /\ size[y] < n
        BY <4>1
      <4> QED BY <4>2, <2>2
    <3>2. Step(f, x) = Step(g, x)
      BY <3>1
    <3>3. f[x] = Step(f, x) /\ g[x] = Step(g, x)
      BY <1>1
    <3> QED BY <3>2, <3>3
  <2>3. \A k \in Nat : k \in A
    <3> HIDE DEF A
    <3> QED BY <2>1, <2>2, NatSetInduction
  <2>4. n \in A
    BY <2>3
  <2> QED BY <2>4
<1> DEFINE E == {n \in Nat : \E f : Upto(f, n)}
<1>2. 0 \in E
  <2>1. Upto([x \in S |-> x], 0)
    BY <1>0
  <2> HIDE DEF Upto
  <2> QED BY <2>1
<1>3. ASSUME NEW n \in Nat, n \in E PROVE n + 1 \in E
  <2>0. PICK g : Upto(g, n)
    BY <1>3
  <2> DEFINE h == [x \in S |-> Step(g, x)]
  <2>2. ASSUME NEW x \in S, size[x] < n + 1 PROVE h[x] = Step(h, x)
    <3>1. \A y \in S : size[y] < size[x] => g[y] = h[y]
      <4> SUFFICES ASSUME NEW y \in S, size[y] < size[x] PROVE g[y] = h[y]
        OBVIOUS
      <4>1. size[y] \in Nat /\ size[x] \in Nat
        BY <1>0
      <4>2. size[y] < n
        BY <4>1, <2>2
      <4>3. g[y] = Step(g, y)
        BY <4>2, <2>0
      <4> QED BY <4>3
    <3>2. h[x] = Step(g, x)
      OBVIOUS
    <3> HIDE DEF h
    <3>3. Step(g, x) = Step(h, x)
      BY <3>1
    <3> QED BY <3>2, <3>3
  <2>3. Upto(h, n + 1)
    BY <2>2
  <2> HIDE DEF h, Upto
  <2> QED BY <2>3
<1>4. \A n \in Nat : n \in E
  <2> HIDE DEF E
  <2> QED BY <1>2, <1>3, NatSetInduction
<1> DEFINE at(n) == CHOOSE g : Upto(g, n)
           f == [x \in S |-> at(size[x] + 1)[x]]
<1>5. ASSUME NEW n \in Nat PROVE Upto(at(n), n)
  <2>1. \E g : Upto(g, n)
    BY <1>4
  <2> HIDE DEF Upto
  <2> QED BY <2>1
<1>6. ASSUME NEW x \in S PROVE f[x] = Step(f, x)
  <2> DEFINE n == size[x] + 1
  <2>1. n \in Nat /\ size[x] \in Nat /\ size[x] < n
    BY <1>0
  <2>2. Upto(at(n), n)
    <3> HIDE DEF at, n, Upto
    <3> QED BY <1>5, <2>1
  <2>3. ASSUME NEW y \in S, size[y] < n PROVE f[y] = at(n)[y]
    <3> DEFINE m == size[y] + 1
    <3>1. m \in Nat /\ m <= n /\ size[y] < m /\ size[y] \in Nat
      BY <1>0, <2>1, <2>3
    <3> HIDE DEF n, at
    <3>2. Upto(at(m), m)
      <4> HIDE DEF m, Upto
      <4> QED BY <1>5, <3>1
    <3>3. Upto(at(n), m)
      <4> SUFFICES ASSUME NEW z \in S, size[z] < m PROVE at(n)[z] = Step(at(n), z)
        OBVIOUS
      <4>1. size[z] \in Nat
        BY <1>0
      <4> HIDE DEF m
      <4>2. size[z] < n
        BY <4>1, <2>1, <3>1
      <4> QED BY <4>2, <2>2
    <3>4. at(m)[y] = at(n)[y]
      <4> HIDE DEF m, Upto
      <4> QED BY <1>1, <3>1, <3>2, <3>3
    <3>5. f[y] = at(m)[y]
      OBVIOUS
    <3> QED BY <3>4, <3>5
  <2>4. \A y \in S : size[y] < size[x] => f[y] = at(n)[y]
    <3> SUFFICES ASSUME NEW y \in S, size[y] < size[x] PROVE f[y] = at(n)[y]
      OBVIOUS
    <3>0. size[y] \in Nat
      BY <1>0
    <3>1. size[y] < n
      BY <2>1, <3>0
    <3> HIDE DEF f, n
    <3> QED BY <3>1, <2>3
  <2>5. f[x] = at(n)[x]
    OBVIOUS
  <2>6. at(n)[x] = Step(at(n), x)
    <3> HIDE DEF n, at
    <3> QED BY <2>1, <2>2
  <2> HIDE DEF f, n, at
  <2>7. Step(f, x) = Step(at(n), x)
    BY <2>4
  <2> QED BY <2>5, <2>6, <2>7
<1>7. f = [x \in S |-> f[x]]
  <2> HIDE DEF at
  <2> QED OBVIOUS
<1> HIDE DEF f
<1>8. f = [x \in S |-> Step(f, x)]
  BY <1>6, <1>7
<1> QED BY <1>8
================================================================================
