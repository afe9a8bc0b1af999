------------------------------- MODULE Induction -------------------------------
(***************************************************************************)
(* Induction over the naturals for sets instead of predicates: what the    *)
(* library states with an operator for a parameter follows here from the   *)
(* well-foundedness of < and the minimum it gives.  The proof modules use  *)
(* it to reason about the recursive functions of the models.               *)
(***************************************************************************)
EXTENDS Integers, TLAPS, WellFoundedInduction

\* A set of naturals that is not empty has a least element.
LEMMA Least ==
  ASSUME NEW T, T \subseteq Nat, T # {}
  PROVE  \E x \in T : \A y \in T : x <= y
<1> DEFINE R == OpToRel(<, Nat)
<1>1. IsWellFoundedOn(R, Nat)
  BY NatLessThanWellFounded
<1>2. \E x \in T : \A y \in T : ~ (<<y, x>> \in R)
  <2> HIDE DEF R
  <2> QED
    BY <1>1, WFMin, Zenon
<1>3. \A x, y \in Nat : ~ (<<y, x>> \in R) => x <= y
  BY DEF OpToRel
<1> QED
  <2> HIDE DEF R
  <2> QED
    BY <1>2, <1>3

\* A set that holds 0 and with each natural the next one holds all of them.
LEMMA Induct ==
  ASSUME NEW T, 0 \in T, \A n \in Nat : n \in T => n + 1 \in T
  PROVE  Nat \subseteq T
<1> SUFFICES ASSUME Nat \ T # {} PROVE FALSE
  OBVIOUS
<1>1. PICK x \in Nat \ T : \A y \in Nat \ T : x <= y
  BY Least
<1> QED
  BY <1>1

\* What is so of a function at 0, and after a place when it is so there, is so
\* of it everywhere.
LEMMA Everywhere ==
  ASSUME NEW m \in Nat, NEW f, NEW V, f[0] \in V,
         \A k \in 1 .. m : f[k - 1] \in V => f[k] \in V
  PROVE  \A k \in 0 .. m : f[k] \in V
<1> DEFINE T == {n \in Nat : n <= m => f[n] \in V}
<1>1. 0 \in T
  OBVIOUS
<1>2. ASSUME NEW n \in Nat, n \in T PROVE n + 1 \in T
  <2> SUFFICES ASSUME n + 1 <= m PROVE f[n + 1] \in V
    OBVIOUS
  <2>1. n + 1 \in 1 .. m /\ (n + 1) - 1 = n /\ n <= m
    OBVIOUS
  <2> QED
    BY <1>2, <2>1
<1>3. Nat \subseteq T
  <2> HIDE DEF T
  <2> QED
    BY <1>1, <1>2, Induct
<1> QED
  BY <1>3

\* There is a function that begins with a and goes on as g says.
Iterable(m, V, a, g) == m \in Nat /\ a \in V /\ \A k \in 1 .. m, v \in V : g[k][v] \in V
Iterated(f, m, V, a, g) ==
  /\ f \in [0 .. m -> V]
  /\ \A k \in 0 .. m : f[k] = IF k = 0 THEN a ELSE g[k][f[k - 1]]

LEMMA Iterates ==
  ASSUME NEW m, NEW V, NEW a, NEW g, Iterable(m, V, a, g)
  PROVE  \E f : Iterated(f, m, V, a, g)
<1> DEFINE Is(f, n) ==
             /\ f \in [0 .. n -> V] /\ f[0] = a
             /\ \A k \in 1 .. n : f[k] = g[k][f[k - 1]]
           T == {n \in Nat : n <= m => \E f : Is(f, n)}
<1>0. m \in Nat /\ a \in V /\ \A k \in 1 .. m, v \in V : g[k][v] \in V
  BY DEF Iterable
<1>1. 0 \in T
  <2> DEFINE f == [k \in 0 .. 0 |-> a]
  <2>1. Is(f, 0)
    BY <1>0
  <2> QED
    BY <2>1
<1>2. ASSUME NEW n \in Nat, n \in T PROVE n + 1 \in T
  <2> SUFFICES ASSUME n + 1 <= m PROVE \E h : Is(h, n + 1)
    OBVIOUS
  <2>0. n <= m
    BY <1>0
  <2>1. PICK f : Is(f, n)
    BY <1>2, <2>0
  <2> DEFINE v == g[n + 1][f[n]]
             h == [k \in 0 .. n + 1 |-> IF k = n + 1 THEN v ELSE f[k]]
  <2>2. v \in V
    <3>1. f[n] \in V /\ n + 1 \in 1 .. m
      BY <1>0, <2>1
    <3> QED
      BY <1>0, <3>1
  <2> HIDE DEF v
  <2>3. h \in [0 .. n + 1 -> V] /\ h[0] = a
    BY <2>1, <2>2
  <2>4. ASSUME NEW k \in 1 .. n + 1 PROVE h[k] = g[k][h[k - 1]]
    <3>1. k - 1 \in 0 .. n /\ k - 1 # n + 1 /\ k - 1 \in 0 .. n + 1 /\ k \in 0 .. n + 1
      OBVIOUS
    <3>2. h[k - 1] = f[k - 1]
      BY <3>1
    <3>3. CASE k = n + 1
      BY <3>1, <3>2, <3>3 DEF v
    <3>4. CASE k # n + 1
      <4>1. k \in 1 .. n /\ h[k] = f[k]
        BY <3>1, <3>4
      <4> QED
        BY <2>1, <3>2, <4>1
    <3> QED
      BY <3>3, <3>4
  <2> HIDE DEF h
  <2> QED
    BY <2>3, <2>4
<1>3. PICK f : Is(f, m)
  <2>1. m \in T
    <3> HIDE DEF T
    <3> QED
      BY <1>0, <1>1, <1>2, Induct
  <2> QED
    BY <2>1
<1>4. \A k \in 0 .. m : f[k] = IF k = 0 THEN a ELSE g[k][f[k - 1]]
  <2>1. \A k \in 0 .. m : k # 0 => k \in 1 .. m
    OBVIOUS
  <2> QED
    BY <1>3, <2>1
<1> QED
  BY <1>3, <1>4 DEF Iterated

=============================================================================
