---------------------------- MODULE DataInduction ----------------------------
(***************************************************************************)
(* Induction on natural numbers and functions defined by recursion on      *)
(* them, stated with sets in place of predicates: what the loops of the    *)
(* code compute, which the modules write as recursive functions, is proved *)
(* from these.  A recursive function f[i \in S] == e is some f that equals *)
(* [i \in S |-> e], if there is one, so that its properties need both that *)
(* there is one and that all of them have the property.                    *)
(***************************************************************************)
EXTENDS Integers, WellFoundedInduction, TLAPS

\* Every nonempty set of natural numbers has a least element.
LEMMA LeastNumber ==
  ASSUME NEW T, T \subseteq Nat, T # {}
  PROVE  \E x \in T : \A y \in T : x <= y
<1>1. \E x \in T : \A y \in T : ~ (<<y, x>> \in OpToRel(<, Nat))
  BY NatLessThanWellFounded, WFMin, Zenon
<1>2. PICK x \in T : \A y \in T : ~ (<<y, x>> \in OpToRel(<, Nat))
  BY <1>1
<1>3. \A y \in T : x <= y
  <2> TAKE y \in T
  <2>1. ~ (<<y, x>> \in OpToRel(<, Nat))
    BY <1>2
  <2>2. y \in Nat /\ x \in Nat
    OBVIOUS
  <2>3. ~ (y < x)
    BY <2>1, <2>2 DEF OpToRel
  <2> QED BY <2>2, <2>3
<1> QED BY <1>3

\* A set that has 0 and with each number the next one has them all.
LEMMA SetInduction ==
  ASSUME NEW T, 0 \in T, \A n \in Nat : n \in T => n + 1 \in T
  PROVE  Nat \subseteq T
<1> SUFFICES ASSUME Nat \ T # {} PROVE FALSE
  OBVIOUS
<1>1. PICK x \in Nat \ T : \A y \in Nat \ T : x <= y
  BY LeastNumber
<1>2. x # 0
  OBVIOUS
<1>3. x - 1 \in Nat /\ (x - 1) + 1 = x /\ ~ (x <= x - 1)
  BY <1>2
<1>4. x - 1 \in T
  BY <1>1, <1>3
<1> QED BY <1>3, <1>4

\* The same up to a bound.
LEMMA BoundedInduction ==
  ASSUME NEW n \in Nat, NEW T, 0 \in T, \A i \in 0 .. n - 1 : i \in T => i + 1 \in T
  PROVE  0 .. n \subseteq T
<1> DEFINE U == {i \in Nat : i <= n => i \in T}
<1>1. 0 \in U
  OBVIOUS
<1>2. \A i \in Nat : i \in U => i + 1 \in U
  OBVIOUS
<1> HIDE DEF U
<1>3. Nat \subseteq U
  BY <1>1, <1>2, SetInduction
<1> QED BY <1>3 DEF U

\* The function f on 0 .. n starts with a and goes on by the function step.
Recursion(n, a, step, f) ==
  f = [i \in 0 .. n |-> IF i = 0 THEN a ELSE step[<<i, f[i - 1]>>]]

\* From G[0] on, the i-th step leads into the set G[i].
Leads(n, a, step, G) ==
  /\ n \in Nat /\ a \in G[0]
  /\ \A i \in 1 .. n : \A x \in G[i - 1] : step[<<i, x>>] \in G[i]

\* Such a recursion has a solution, of which the i-th value is in G[i].
LEMMA RecursionExists ==
  ASSUME NEW n, NEW G, NEW a, NEW step, Leads(n, a, step, G)
  PROVE  \E f : Recursion(n, a, step, f) /\ \A i \in 0 .. n : f[i] \in G[i]
<1> DEFINE Solves(f, k) == /\ f[0] = a
                           /\ \A i \in 1 .. k : f[i] = step[<<i, f[i - 1]>>]
                           /\ \A i \in 0 .. k : f[i] \in G[i]
           T == {k \in Nat : \E f : Solves(f, k)}
<1> USE DEF Leads
<1>1. 0 \in T
  <2>1. Solves([i \in 0 .. 0 |-> a], 0)
    OBVIOUS
  <2> QED BY <2>1
<1>2. ASSUME NEW k \in 0 .. n - 1, k \in T
      PROVE  k + 1 \in T
  <2>1. PICK f : Solves(f, k)
    BY <1>2
  <2> DEFINE g == [i \in 0 .. k + 1 |-> IF i = k + 1 THEN step[<<k + 1, f[k]>>] ELSE f[i]]
  <2>2. f[k] \in G[k] /\ k + 1 \in 1 .. n /\ (k + 1) - 1 = k
    BY <2>1
  <2>3. step[<<k + 1, f[k]>>] \in G[k + 1]
    BY <2>2
  <2>4. \A i \in 0 .. k : g[i] = f[i]
    OBVIOUS
  <2>5. g[k + 1] = step[<<k + 1, f[k]>>]
    OBVIOUS
  <2>6. g[0] = a
    BY <2>1, <2>4, 0 \in 0 .. k
  <2> HIDE DEF g
  <2>7. ASSUME NEW i \in 1 .. k + 1
        PROVE  g[i] = step[<<i, g[i - 1]>>]
    <3>1. CASE i = k + 1
      <4>1. g[i - 1] = f[k]
        BY <3>1, <2>4, i - 1 = k, k \in 0 .. k
      <4> QED BY <3>1, <4>1, <2>5
    <3>2. CASE i \in 1 .. k
      <4>1. g[i] = f[i] /\ g[i - 1] = f[i - 1]
        BY <3>2, <2>4, i - 1 \in 0 .. k
      <4> QED BY <3>2, <4>1, <2>1
    <3> QED BY <3>1, <3>2
  <2>8. \A i \in 0 .. k + 1 : g[i] \in G[i]
    <3> TAKE i \in 0 .. k + 1
    <3>1. CASE i = k + 1
      BY <3>1, <2>3, <2>5
    <3>2. CASE i \in 0 .. k
      BY <3>2, <2>1, <2>4
    <3> QED BY <3>1, <3>2
  <2>9. Solves(g, k + 1)
    BY <2>1, <2>4, <2>6, <2>7, <2>8
  <2> QED BY <2>9
<1> HIDE DEF T
<1>3. n \in T
  BY <1>1, <1>2, BoundedInduction
<1>4. PICK f : Solves(f, n)
  BY <1>3 DEF T
<1> DEFINE h == [i \in 0 .. n |-> f[i]]
<1>5. \A i \in 0 .. n : h[i] = f[i]
  OBVIOUS
<1>6. \A i \in 0 .. n : f[i] = IF i = 0 THEN a ELSE step[<<i, h[i - 1]>>]
  <2> TAKE i \in 0 .. n
  <2>1. CASE i = 0
    BY <1>4, <2>1
  <2>2. CASE i # 0
    <3>1. i \in 1 .. n /\ i - 1 \in 0 .. n
      BY <2>2
    <3>2. f[i] = step[<<i, f[i - 1]>>] /\ h[i - 1] = f[i - 1]
      BY <1>4, <1>5, <3>1
    <3> QED BY <2>2, <3>2
  <2> QED BY <2>1, <2>2
<1>7. h = [i \in 0 .. n |-> IF i = 0 THEN a ELSE step[<<i, h[i - 1]>>]]
  <2> HIDE DEF Solves
  <2> QED BY <1>6, Zenon
<1>8. \A i \in 0 .. n : h[i] \in G[i]
  BY <1>4, <1>5
<1> HIDE DEF h
<1> QED BY <1>7, <1>8 DEF Recursion

=============================================================================
