----------------------------- MODULE Recursion -----------------------------
(***************************************************************************)
(* Facts about the numbers that the proofs of this project use to reason   *)
(* about loops.  A loop over the entries of a sector or the characters of  *)
(* a string is written in the models as a recursive function f, where f[i] *)
(* is what the loop has computed after i rounds.  What f computes is       *)
(* proved by induction on i; that there is such an f has to be proved too. *)
(* Induction is stated for the set T of the numbers that have the          *)
(* property, so that the lemmas have no operators for parameters.          *)
(***************************************************************************)
EXTENDS Integers, TLAPS, WellFoundedInduction

(* Every set of natural numbers that is not empty has a least element.     *)
LEMMA LeastNumber ==
  ASSUME NEW T, T \subseteq Nat, T # {}
  PROVE  \E m \in T : \A n \in T : m <= n
<1>. DEFINE R == OpToRel(<, Nat)
<1>1. IsWellFoundedOn(R, Nat)
  BY NatLessThanWellFounded
<1>2. \A i, j \in Nat : <<i, j>> \in R <=> i < j
  BY DEF OpToRel
<1>. HIDE DEF R
<1>3. PICK m \in T : \A n \in T : ~(<<n, m>> \in R)
  BY <1>1, WFMin
<1>4. m \in Nat /\ \A n \in T : n \in Nat
  OBVIOUS
<1>5. ASSUME NEW n \in T
      PROVE  m <= n
  <2>1. ~(<<n, m>> \in R)
    BY <1>3, Zenon
  <2>. QED
    BY <1>2, <1>4, <2>1
<1>. QED
  BY <1>5

(* Induction up to n, the number of rounds of a loop.                      *)
LEMMA RoundInduction ==
  ASSUME NEW n \in Nat, NEW T, 0 \in T,
         \A i \in 0 .. n - 1 : i \in T => i + 1 \in T
  PROVE  \A i \in 0 .. n : i \in T
<1>. SUFFICES ASSUME (0 .. n) \ T # {} PROVE FALSE
  OBVIOUS
<1>. DEFINE U == (0 .. n) \ T
<1>1. U \subseteq Nat /\ U # {}
  OBVIOUS
<1>. HIDE DEF U
<1>2. PICK m \in U : \A i \in U : m <= i
  BY <1>1, LeastNumber
<1>3. m \in 0 .. n /\ m \notin T /\ \A i \in 0 .. n : i \notin T => m <= i
  BY <1>2 DEF U
<1>4. m - 1 \in 0 .. n - 1 /\ m - 1 \in T
  BY <1>3
<1>. QED
  BY <1>3, <1>4

(* A loop of n rounds starts with a and computes g[<<i, v>>] from v in     *)
(* round i; f[i] is the value after round i.                               *)
LoopBodies(n, S) == [(1 .. n) \X S -> S]
LoopValues(f, n, S, a, g) ==
  /\ f \in [0 .. n -> S]
  /\ f[0] = a
  /\ \A i \in 1 .. n : f[i] = g[<<i, f[i - 1]>>]

(* Every loop has a value after each of its rounds.                        *)
LEMMA LoopFunction ==
  ASSUME NEW n \in Nat, NEW S, NEW a \in S, NEW g \in LoopBodies(n, S)
  PROVE  \E f : LoopValues(f, n, S, a, g)
<1>. DEFINE T == {m \in 0 .. n : \E f : LoopValues(f, m, S, a, g)}
<1>0. \A i \in 1 .. n, v \in S : g[<<i, v>>] \in S
  BY DEF LoopBodies
<1>1. 0 \in T
  <2>. DEFINE f == [i \in 0 .. 0 |-> a]
  <2>1. LoopValues(f, 0, S, a, g)
    BY DEF LoopValues
  <2>. HIDE DEF f
  <2>. QED
    BY <2>1
<1>2. ASSUME NEW m \in 0 .. n - 1, m \in T
      PROVE  m + 1 \in T
  <2>1. PICK f : LoopValues(f, m, S, a, g)
    BY <1>2
  <2>2. f \in [0 .. m -> S] /\ f[0] = a /\ \A i \in 1 .. m : f[i] = g[<<i, f[i - 1]>>]
    BY <2>1 DEF LoopValues
  <2>3. f[m] \in S /\ m + 1 \in 1 .. n
    BY <2>2
  <2>4. g[<<m + 1, f[m]>>] \in S
    BY <1>0, <2>3
  <2>. DEFINE h == [i \in 0 .. m + 1 |-> IF i = m + 1 THEN g[<<m + 1, f[m]>>] ELSE f[i]]
  <2>5. h \in [0 .. m + 1 -> S]
    BY <2>2, <2>4
  <2>6. h[0] = a
    BY <2>2
  <2>7. ASSUME NEW i \in 1 .. m + 1
        PROVE  h[i] = g[<<i, h[i - 1]>>]
    <3>1. CASE i = m + 1
      <4>1. h[i - 1] = f[m] /\ h[i] = g[<<m + 1, f[m]>>]
        BY <3>1
      <4>. QED
        BY <3>1, <4>1
    <3>2. CASE i # m + 1
      <4>1. i \in 1 .. m /\ h[i] = f[i] /\ h[i - 1] = f[i - 1]
        BY <3>2
      <4>. QED
        BY <2>2, <4>1
    <3>. QED
      BY <3>1, <3>2
  <2>. HIDE DEF h
  <2>8. LoopValues(h, m + 1, S, a, g)
    BY <2>5, <2>6, <2>7 DEF LoopValues
  <2>. QED
    BY <2>3, <2>8
<1>. HIDE DEF T
<1>3. \A m \in 0 .. n : m \in T
  BY <1>1, <1>2, RoundInduction
<1>4. n \in T
  BY <1>3
<1>. QED
  BY <1>4 DEF T
=============================================================================
