---------------------------- MODULE Induction_proofs ----------------------------
(***************************************************************************)
(* Induction over natural numbers as facts about sets and functions: what  *)
(* the other proofs use where the model computes along a sequence.  A      *)
(* property is the set of the numbers that have it, and a recursion the    *)
(* function that makes each value of the one before.                       *)
(***************************************************************************)
EXTENDS Integers, FiniteSetsExt, WellFoundedInduction, TLAPS

\* The relation of <, which is well-founded on Nat.
LEMMA LessInRelation ==
  ASSUME NEW x \in Nat, NEW y \in Nat, y < x
  PROVE  <<y, x>> \in OpToRel(<, Nat)
<1>1. <<y, x>> \in Nat \X Nat /\ <<y, x>>[1] = y /\ <<y, x>>[2] = x
  OBVIOUS
<1> QED
  BY <1>1 DEF OpToRel

\* A nonempty set of natural numbers has a smallest element.
LEMMA SmallestExists ==
  ASSUME NEW S, S \subseteq Nat, S # {}
  PROVE  \E x \in S : \A y \in S : x <= y
<1>1. IsWellFoundedOn(OpToRel(<, Nat), Nat)
  BY NatLessThanWellFounded
<1>2. PICK x \in S : \A y \in S : ~ (<<y, x>> \in OpToRel(<, Nat))
  BY <1>1, WFMin
<1>3. \A y \in S : x <= y
  <2> SUFFICES ASSUME NEW y \in S, y < x PROVE FALSE
    OBVIOUS
  <2> QED
    BY <1>2, LessInRelation
<1> QED
  BY <1>3

\* Min of the community modules is that element.
LEMMA MinIsSmallest ==
  ASSUME NEW S, S \subseteq Nat, S # {}
  PROVE  Min(S) \in S /\ \A y \in S : Min(S) <= y
BY SmallestExists DEF Min

\* Max of the community modules is the largest element, of a nonempty set of bounded numbers.
LEMMA LargestExists ==
  ASSUME NEW bound \in Nat, NEW S, S \subseteq 0..bound, S # {}
  PROVE  Max(S) \in S /\ \A y \in S : Max(S) >= y
<1> DEFINE T == {bound - y : y \in S}
<1>1. T \subseteq Nat
  <2> SUFFICES ASSUME NEW y \in S PROVE bound - y \in Nat
    OBVIOUS
  <2>1. y \in 0..bound
    OBVIOUS
  <2> QED
    BY <2>1
<1>2. T # {}
  OBVIOUS
<1>3. PICK x \in T : \A y \in T : x <= y
  <2> HIDE DEF T
  <2> QED
    BY <1>1, <1>2, SmallestExists
<1>4. PICK z \in S : x = bound - z
  BY <1>3
<1>5. \A y \in S : z >= y
  <2> SUFFICES ASSUME NEW y \in S PROVE z >= y
    OBVIOUS
  <2>1. y \in 0..bound /\ z \in 0..bound
    OBVIOUS
  <2>2. x <= bound - y
    BY <1>3
  <2> QED
    BY <1>4, <2>1, <2>2
<1> QED
  BY <1>5 DEF Max

\* Induction, for the elements of a set: the smallest number outside it would be a successor.
LEMMA InductionUpTo ==
  ASSUME NEW N \in Nat, NEW S, 0 \in S, \A n \in 1..N : n - 1 \in S => n \in S
  PROVE  0..N \subseteq S
<1> DEFINE Bad == {n \in 0..N : n \notin S}
<1> SUFFICES ASSUME Bad # {} PROVE FALSE
  OBVIOUS
<1>1. Bad \subseteq Nat
  OBVIOUS
<1>2. PICK m \in Bad : \A y \in Bad : m <= y
  <2> HIDE DEF Bad
  <2> QED
    BY <1>1, SmallestExists
<1>3. m \in 1..N
  OBVIOUS
<1>4. m - 1 \in S
  BY <1>2, <1>3
<1> QED
  BY <1>3, <1>4

\* f begins with start, and step makes each value of the one before.
Iterates(f, N, S, start, step) ==
  /\ f \in [0..N -> S]
  /\ f[0] = start
  /\ \A n \in 1..N : f[n] = step[<<n, f[n - 1]>>]

\* f and g are functions on 0..N that begin alike and go on alike.
Agree(f, g, N) ==
  /\ f = [n \in 0..N |-> f[n]] /\ g = [n \in 0..N |-> g[n]]
  /\ f[0] = g[0]
  /\ \A n \in 1..N : f[n - 1] = g[n - 1] => f[n] = g[n]

\* A function given by its value at 0 and by what step makes of each value exists.
LEMMA IterationExists ==
  ASSUME NEW N \in Nat, NEW S, NEW start \in S, NEW step \in [(1..N) \X S -> S]
  PROVE  \E f : Iterates(f, N, S, start, step)
<1> DEFINE Upto(f, m) == /\ f \in [0..m -> S]
                         /\ f[0] = start
                         /\ \A n \in 1..m : f[n] = step[<<n, f[n - 1]>>]
           Reached == {m \in 0..N : \E f : Upto(f, m)}
<1>1. 0 \in Reached
  <2>1. Upto([n \in 0..0 |-> start], 0)
    OBVIOUS
  <2> HIDE DEF Upto
  <2> QED
    BY <2>1
<1>2. ASSUME NEW m \in 1..N, m - 1 \in Reached
      PROVE  m \in Reached
  <2>1. PICK f : Upto(f, m - 1)
    BY <1>2
  <2> DEFINE g == [n \in 0..m |-> IF n = m THEN step[<<m, f[m - 1]>>] ELSE f[n]]
  <2>2. f[m - 1] \in S /\ step[<<m, f[m - 1]>>] \in S
    BY <2>1
  <2>3. g \in [0..m -> S] /\ g[0] = start
    BY <2>1, <2>2
  <2>4. ASSUME NEW n \in 1..m
        PROVE  g[n] = step[<<n, g[n - 1]>>]
    <3>1. g[n - 1] = f[n - 1]
      BY <2>4
    <3>2. CASE n = m
      <4>1. g[m] = step[<<m, f[m - 1]>>]
        BY <1>2
      <4> QED
        BY <3>1, <3>2, <4>1
    <3>3. CASE n # m
      <4>1. n \in 1..(m - 1)
        BY <3>3
      <4>2. f[n] = step[<<n, f[n - 1]>>]
        BY <2>1, <4>1
      <4>3. g[n] = f[n]
        BY <3>3
      <4> QED
        BY <3>1, <4>2, <4>3
    <3> QED
      BY <3>2, <3>3
  <2>5. Upto(g, m)
    BY <2>3, <2>4
  <2> HIDE DEF g, Upto
  <2> QED
    BY <2>5
<1>3. 0..N \subseteq Reached
  <2> HIDE DEF Reached
  <2> QED
    BY <1>1, <1>2, InductionUpTo
<1>4. PICK f : Upto(f, N)
  <2> HIDE DEF Upto
  <2>1. N \in 0..N
    OBVIOUS
  <2> QED
    BY <1>3, <2>1
<1> QED
  BY <1>4 DEF Iterates

\* Two functions that start alike and go on alike are equal.
LEMMA AgreeingAreEqual ==
  ASSUME NEW N \in Nat, NEW f, NEW g, Agree(f, g, N)
  PROVE  f = g
<1> USE DEF Agree
<1> DEFINE Same == {n \in 0..N : f[n] = g[n]}
<1>1. 0 \in Same
  OBVIOUS
<1>2. ASSUME NEW n \in 1..N, n - 1 \in Same
      PROVE  n \in Same
  <2>1. n \in 0..N /\ f[n - 1] = g[n - 1]
    BY <1>2
  <2>2. f[n] = g[n]
    BY <2>1
  <2> QED
    BY <2>1, <2>2
<1>3. 0..N \subseteq Same
  <2> HIDE DEF Same
  <2> QED
    BY <1>1, <1>2, InductionUpTo
<1>4. \A n \in 0..N : f[n] = g[n]
  BY <1>3
<1> QED
  BY <1>4
=================================================================================
