----------------------------- MODULE Induction -----------------------------
(***************************************************************************)
(* Induction and recursion on numbers with sets and functions for the      *)
(* predicates and operators, so that the other proof modules can use them. *)
(***************************************************************************)
EXTENDS Integers, WellFoundedInduction, TLAPS

\* A set of numbers has a least one.
LEMMA Least ==
    ASSUME NEW S, S \subseteq Nat, S # {}
    PROVE  \E n \in S : \A m \in S : n <= m
<1> DEFINE R == OpToRel(<, Nat)
<1>1. \A a, b \in Nat : <<a, b>> \in R <=> a < b
  BY DEF OpToRel
<1>2. IsWellFoundedOn(R, Nat)
  BY NatLessThanWellFounded
<1> HIDE DEF R
<1>3. PICK n \in S : \A m \in S : <<m, n>> \notin R
  <2>1. \E n \in S : \A m \in S : <<m, n>> \notin R
    BY <1>2, WFMin, Zenon
  <2> QED
    BY <2>1
<1>4. ASSUME NEW m \in S PROVE n <= m
  <2>1. m \in Nat /\ n \in Nat /\ ~(m < n)
    BY <1>1, <1>3
  <2> QED
    BY <2>1
<1> QED
  BY <1>4

\* A set of numbers that does not go beyond some number has a greatest one.
LEMMA Greatest ==
    ASSUME NEW n \in Nat, NEW S, S \subseteq 0 .. n, S # {}
    PROVE  \E g \in S : \A m \in S : m <= g
<1> DEFINE bounds == {b \in Nat : \A m \in S : m <= b}
<1>1. bounds \subseteq Nat /\ n \in bounds
  OBVIOUS
<1>2. PICK b \in bounds : \A c \in bounds : b <= c
  BY <1>1, Least
<1>3. b \in S
  <2> SUFFICES ASSUME b \notin S PROVE FALSE
    OBVIOUS
  <2>1. PICK m \in S : TRUE
    OBVIOUS
  <2>2. b - 1 \in bounds
    BY <2>1
  <2> QED
    BY <1>2, <2>2
<1> QED
  BY <1>2, <1>3

\* A set that has 0, and with each number the next, has every number.
LEMMA EveryNumber ==
    ASSUME NEW S, 0 \in S, \A n \in Nat : n \in S => n + 1 \in S
    PROVE  \A n \in Nat : n \in S
<1> DEFINE missed == {n \in Nat : n \notin S}
<1> SUFFICES ASSUME missed # {} PROVE FALSE
  OBVIOUS
<1>1. PICK n \in missed : \A m \in missed : n <= m
  BY Least
<1>2. n - 1 \in Nat /\ n - 1 \in S
  BY <1>1
<1> QED
  BY <1>2

\* f starts with a, and step F[k] leads from its value at k - 1 to the one at k.
Iterates(f, F, a, n) == f[0] = a /\ \A k \in 1 .. n : f[k] = F[k][f[k - 1]]

StepsIn(T) == [Nat -> [T -> T]]
ValuesIn(T, n) == [0 .. n -> T]

\* Steps that stay in a set can be iterated from any value in it.
LEMMA Recursion ==
    ASSUME NEW T, NEW a \in T, NEW F \in StepsIn(T), NEW n \in Nat
    PROVE  \E f \in ValuesIn(T, n) : Iterates(f, F, a, n)
<1> USE DEF StepsIn, ValuesIn, Iterates
<1> DEFINE defines(m, f) == f[0] = a /\ \A k \in 1 .. m : f[k] = F[k][f[k - 1]]
           defined == {m \in Nat : \E f \in [0 .. m -> T] : defines(m, f)}
<1>1. 0 \in defined
  <2>1. [k \in 0 .. 0 |-> a] \in [0 .. 0 -> T] /\ defines(0, [k \in 0 .. 0 |-> a])
    OBVIOUS
  <2> QED
    BY <2>1
<1>2. ASSUME NEW m \in Nat, m \in defined PROVE m + 1 \in defined
  <2>1. PICK f \in [0 .. m -> T] : defines(m, f)
    BY <1>2
  <2> DEFINE g == [k \in 0 .. m + 1 |-> IF k = m + 1 THEN F[k][f[m]] ELSE f[k]]
  <2>2. /\ g \in [0 .. m + 1 -> T]
        /\ \A k \in 0 .. m : g[k] = f[k]
        /\ g[m + 1] = F[m + 1][f[m]]
    OBVIOUS
  <2> HIDE DEF g
  <2>3. defines(m + 1, g)
    <3>1. g[0] = a
      BY <2>1, <2>2
    <3>2. ASSUME NEW k \in 1 .. m + 1 PROVE g[k] = F[k][g[k - 1]]
      <4>1. k - 1 \in 0 .. m /\ (k \in 1 .. m \/ k = m + 1)
        OBVIOUS
      <4> QED
        BY <2>1, <2>2, <4>1
    <3> QED
      BY <3>1, <3>2
  <2> QED
    BY <2>2, <2>3
<1>3. n \in defined
  <2> HIDE DEF defined
  <2> QED
    BY <1>1, <1>2, EveryNumber
<1> QED
  BY <1>3

\* What leads to a number from a lesser one: from[k] < k is the place f's value at k comes
\* from, and F[k] the step.
LesserOnes(n) == {from \in [1 .. n -> Nat] : \A k \in 1 .. n : from[k] < k}

Descends(f, F, from, a, n) == f[0] = a /\ \A k \in 1 .. n : f[k] = F[k][f[from[k]]]

\* Recursion that goes back by any number of places.
LEMMA Descent ==
    ASSUME NEW T, NEW a \in T, NEW F \in StepsIn(T), NEW n \in Nat, NEW from \in LesserOnes(n)
    PROVE  \E f \in ValuesIn(T, n) : Descends(f, F, from, a, n)
<1> USE DEF StepsIn, ValuesIn, Descends, LesserOnes
<1> DEFINE defined == {m \in Nat : m <= n => \E f \in [0 .. m -> T] : Descends(f, F, from, a, m)}
<1>1. 0 \in defined
  <2>1. [k \in 0 .. 0 |-> a] \in [0 .. 0 -> T] /\ Descends([k \in 0 .. 0 |-> a], F, from, a, 0)
    OBVIOUS
  <2> QED
    BY <2>1
<1>2. ASSUME NEW m \in Nat, m \in defined, m + 1 <= n
      PROVE  \E f \in [0 .. m + 1 -> T] : Descends(f, F, from, a, m + 1)
  <2>1. PICK f \in [0 .. m -> T] : Descends(f, F, from, a, m)
    BY <1>2
  <2>a. ASSUME NEW k \in 1 .. m + 1
        PROVE  k \in 1 .. n /\ from[k] \in 0 .. k - 1 /\ (k \in 1 .. m \/ k = m + 1)
    <3>1. k \in 1 .. n
      BY m + 1 <= n
    <3>2. from[k] \in Nat /\ from[k] < k
      BY <3>1
    <3> QED
      BY <3>1, <3>2
  <2>b. \A k \in 1 .. m : from[k] \in 0 .. m
    BY <2>a
  <2> DEFINE g == [k \in 0 .. m + 1 |-> IF k = m + 1 THEN F[k][f[from[k]]] ELSE f[k]]
  <2>2. \A k \in 0 .. m : g[k] = f[k]
    OBVIOUS
  <2>3. g[m + 1] = F[m + 1][f[from[m + 1]]]
    OBVIOUS
  <2>4. g \in [0 .. m + 1 -> T]
    <3>1. F[m + 1][f[from[m + 1]]] \in T
      <4>1. from[m + 1] \in 0 .. m
        BY <2>a
      <4> QED
        BY <4>1
    <3> QED
      BY <3>1
  <2> HIDE DEF g
  <2>5. g[0] = a
    BY <2>1, <2>2
  <2>6. ASSUME NEW k \in 1 .. m + 1 PROVE g[k] = F[k][g[from[k]]]
    <3>1. g[from[k]] = f[from[k]]
      BY <2>2, <2>a
    <3>2. CASE k = m + 1
      BY <2>3, <3>1, <3>2
    <3>3. CASE k \in 1 .. m
      <4>1. g[k] = f[k]
        BY <2>2, <3>3
      <4> QED
        BY <2>1, <3>1, <3>3, <4>1
    <3> QED
      BY <2>a, <3>2, <3>3
  <2> QED
    BY <2>4, <2>5, <2>6
<1>3. \A m \in Nat : m \in defined => m + 1 \in defined
  <2> HIDE DEF Descends
  <2> QED
    BY <1>2
<1>4. n \in defined
  <2> HIDE DEF defined
  <2> QED
    BY <1>1, <1>3, EveryNumber
<1> QED
  BY <1>4

=============================================================================
