---------------------------- MODULE SharedLemmas ----------------------------
(***************************************************************************)
(* Facts the other proofs share.  Of natural numbers: the least element of *)
(* a set, induction up to a bound, and the functions defined by recursion  *)
(* up to a bound.  Of machines that step by a function: what they reach.   *)
(* The predicate of an induction is a set, and the step of a recursion or  *)
(* a machine a function, so that they can be instantiated.                 *)
(***************************************************************************)
EXTENDS Naturals, WellFoundedInduction, TLAPS

NatLess == {x \in Nat \X Nat : x[1] < x[2]}

LEMMA NatLessWellFounded == IsWellFoundedOn(NatLess, Nat)
<1>1. OpToRel(<, Nat) = NatLess BY DEF OpToRel, NatLess
<1> QED BY <1>1, NatLessThanWellFounded

LEMMA LeastOf ==
  ASSUME NEW S \in SUBSET Nat, S # {}
  PROVE  \E m \in S : \A n \in S : m <= n
<1>1. PICK m \in S : \A n \in S : ~(<<n, m>> \in NatLess)
  BY NatLessWellFounded, WFMin
<1>2. ASSUME NEW n \in S PROVE m <= n
  <2>1. ~(<<n, m>> \in NatLess) BY <1>1
  <2> QED BY <2>1 DEF NatLess
<1> QED BY <1>2

(* Induction from lo to n.                                                 *)
LEMMA UpTo ==
  ASSUME NEW lo \in Nat, NEW n \in Nat, NEW S, lo \in S,
         \A i \in lo .. n - 1 : i \in S => i + 1 \in S
  PROVE  \A i \in lo .. n : i \in S
<1> DEFINE Bad == {i \in lo .. n : i \notin S}
<1> SUFFICES ASSUME Bad # {} PROVE FALSE OBVIOUS
<1>1. PICK m \in Bad : \A i \in Bad : m <= i
  <2>1. Bad \in SUBSET Nat OBVIOUS
  <2> HIDE DEF Bad
  <2> QED BY <2>1, LeastOf
<1>2. m \in lo .. n /\ m # lo BY <1>1
<1>3. m - 1 \in lo .. n - 1 /\ m - 1 \notin Bad BY <1>1, <1>2
<1>4. m - 1 \in S BY <1>3
<1>5. (m - 1) + 1 \in S BY <1>3, <1>4
<1> QED BY <1>1, <1>2, <1>5

(* A recursion over the numbers up to n has a solution.                    *)
Steps(A, n) == [A \X (1 .. n) -> A]
Solution(r, A, n, base, step) ==
  /\ r \in [0 .. n -> A]
  /\ \A i \in 0 .. n : r[i] = IF i = 0 THEN base ELSE step[<<r[i - 1], i>>]

LEMMA RecursionSolved ==
  ASSUME NEW n \in Nat, NEW A, NEW base \in A, NEW step \in Steps(A, n)
  PROVE  \E r : Solution(r, A, n, base, step)
<1> USE DEF Steps
<1> DEFINE Solves(r, k) ==
             \A i \in 0 .. k : r[i] = IF i = 0 THEN base ELSE step[<<r[i - 1], i>>]
           S == {k \in 0 .. n : \E r \in [0 .. k -> A] : Solves(r, k)}
<1>1. 0 \in S
  <2> DEFINE r0 == [i \in 0 .. 0 |-> base]
  <2>1. r0 \in [0 .. 0 -> A] /\ Solves(r0, 0) OBVIOUS
  <2> HIDE DEF r0, Solves
  <2>2. \E r \in [0 .. 0 -> A] : Solves(r, 0) BY <2>1
  <2> QED BY <2>2
<1>2. ASSUME NEW k \in 0 .. n - 1, k \in S PROVE k + 1 \in S
  <2>1. PICK r \in [0 .. k -> A] : Solves(r, k) BY <1>2
  <2> DEFINE q == [i \in 0 .. k + 1 |-> IF i <= k THEN r[i]
                                        ELSE step[<<r[k], k + 1>>]]
  <2>2. step[<<r[k], k + 1>>] \in A
    <3>1. k \in 0 .. k /\ k + 1 \in 1 .. n BY <1>2
    <3>2. r[k] \in A BY <2>1, <3>1
    <3> QED BY <3>1, <3>2
  <2>3. q \in [0 .. k + 1 -> A] BY <2>1, <2>2
  <2>4. ASSUME NEW i \in 0 .. k + 1
        PROVE  q[i] = IF i = 0 THEN base ELSE step[<<q[i - 1], i>>]
    <3>1. CASE i <= k
      <4>1. i \in 0 .. k /\ q[i] = r[i] BY <3>1
      <4>2. i # 0 => q[i - 1] = r[i - 1] BY <3>1
      <4> HIDE DEF q
      <4> QED BY <2>1, <4>1, <4>2
    <3>2. CASE i = k + 1
      <4>1. q[i] = step[<<r[k], k + 1>>] /\ q[k] = r[k] BY <1>2, <3>2
      <4>2. i # 0 /\ i - 1 = k BY <1>2, <3>2
      <4> HIDE DEF q
      <4> QED BY <3>2, <4>1, <4>2
    <3> QED BY <1>2, <3>1, <3>2
  <2>5. k + 1 \in 0 .. n BY <1>2
  <2> HIDE DEF q
  <2> QED BY <2>3, <2>4, <2>5
<1> HIDE DEF S
<1>3. \A i \in 0 .. n : i \in S BY <1>1, <1>2, UpTo
<1>4. n \in S BY <1>3
<1>5. PICK r \in [0 .. n -> A] : Solves(r, n) BY <1>4 DEF S
<1> QED BY <1>5 DEF Solution

-----------------------------------------------------------------------------
(* Machines that step by a function.                                       *)

(* c is among the states a machine that steps by f reaches from a: it is   *)
(* in every set of states that holds a and that no step within f's domain  *)
(* leaves.                                                                 *)
ClosedUnder(f, S) == \A x \in S : f[x] \in DOMAIN f => f[x] \in S
Reached(f, a, c) == \A S \in SUBSET DOMAIN f : a \in S /\ ClosedUnder(f, S) => c \in S

LEMMA ReachedSelf == ASSUME NEW f, NEW a PROVE Reached(f, a, a)
BY DEF Reached

LEMMA ReachedInDomain ==
  ASSUME NEW f, NEW a \in DOMAIN f, NEW c, Reached(f, a, c) PROVE c \in DOMAIN f
BY DEF Reached, ClosedUnder

LEMMA ReachedStep ==
  ASSUME NEW f, NEW a, NEW c, Reached(f, a, c), f[c] \in DOMAIN f
  PROVE  Reached(f, a, f[c])
BY DEF Reached, ClosedUnder

LEMMA ReachedTrans ==
  ASSUME NEW f, NEW a, NEW b, NEW c, Reached(f, a, b), Reached(f, b, c)
  PROVE  Reached(f, a, c)
BY DEF Reached

(* The first step from a is the only way to anything but a.                *)
LEMMA ReachedBeyond ==
  ASSUME NEW f, NEW a \in DOMAIN f, NEW c, Reached(f, a, c), c # a
  PROVE  f[a] \in DOMAIN f /\ Reached(f, f[a], c)
<1> DEFINE S == {x \in DOMAIN f : x = a \/ (f[a] \in DOMAIN f /\ Reached(f, f[a], x))}
<1>1. ClosedUnder(f, S)
  <2> SUFFICES ASSUME NEW x \in S, f[x] \in DOMAIN f PROVE f[x] \in S
    BY DEF ClosedUnder
  <2>1. CASE x = a BY <2>1, ReachedSelf
  <2>2. CASE x # a BY <2>2, ReachedStep
  <2> QED BY <2>1, <2>2
<1>2. c \in S BY <1>1 DEF Reached
<1> QED BY <1>2

(* There are no forks: of two states reached from one, the one reaches the *)
(* other.                                                                  *)
LEMMA ReachedLinear ==
  ASSUME NEW f, NEW a \in DOMAIN f, NEW c, NEW d, Reached(f, a, c), Reached(f, a, d)
  PROVE  Reached(f, c, d) \/ Reached(f, d, c)
<1> DEFINE S == {x \in DOMAIN f : Reached(f, x, d) \/ Reached(f, d, x)}
<1>1. ClosedUnder(f, S)
  <2> SUFFICES ASSUME NEW x \in S, f[x] \in DOMAIN f PROVE f[x] \in S
    BY DEF ClosedUnder
  <2>1. CASE Reached(f, d, x) BY <2>1, ReachedStep
  <2>2. CASE Reached(f, x, d) /\ x # d BY <2>2, ReachedBeyond
  <2>3. CASE x = d BY <2>3, ReachedSelf, ReachedStep
  <2> QED BY <2>1, <2>2, <2>3
<1>2. a \in S OBVIOUS
<1>3. c \in S BY <1>1, <1>2 DEF Reached
<1> QED BY <1>3

(* A state that steps to itself is the last one.                           *)
LEMMA ReachedFixed ==
  ASSUME NEW f, NEW a \in DOMAIN f, NEW c, f[a] = a, Reached(f, a, c) PROVE c = a
<1> DEFINE S == {a}
<1>1. ClosedUnder(f, S) BY DEF ClosedUnder
<1> QED BY <1>1 DEF Reached

(* Two runs from one state that both end, end alike.                       *)
LEMMA ReachedEnd ==
  ASSUME NEW f, NEW a \in DOMAIN f, NEW c, NEW d, Reached(f, a, c), Reached(f, a, d),
         f[c] = c, f[d] = d
  PROVE  c = d
<1>1. c \in DOMAIN f /\ d \in DOMAIN f BY ReachedInDomain
<1> QED BY <1>1, ReachedLinear, ReachedFixed

=============================================================================
