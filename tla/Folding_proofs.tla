---------------------------- MODULE Folding_proofs ----------------------------
(***************************************************************************)
(* Induction, and folds over the places of a sequence.                     *)
(*                                                                         *)
(* The induction theorems of the library have an operator as a parameter,  *)
(* for which the provers find no instance.  That every set of numbers has  *)
(* a least element has none, and induction follows from it for a set of    *)
(* numbers instead of a predicate on them.                                 *)
(*                                                                         *)
(* A fold of the community modules goes over the subsets of 1..n and takes *)
(* the greatest place away each time.  FoldExists and FoldUnique say that  *)
(* there is one function that does so, for a step given as a function;     *)
(* what a particular fold does with a longer sequence follows from them in *)
(* the modules that use it.                                                *)
(***************************************************************************)
EXTENDS Integers, FiniteSetsExt, WellFoundedInduction, TLAPS

\* Every set of numbers that is not empty has a least element.
LEMMA LeastOf ==
  ASSUME NEW S, S \subseteq Nat, S # {}
  PROVE  \E n \in S : \A m \in S : n \leq m
<1>1. IsWellFoundedOn(OpToRel(<, Nat), Nat)
  BY NatLessThanWellFounded
<1>2. PICK n \in S : \A m \in S : <<m, n>> \notin OpToRel(<, Nat)
  BY <1>1, WFMin
<1>3. \A m \in S : ~(m < n)
  BY <1>2 DEF OpToRel
<1> QED
  BY <1>3

\* Induction, for a set of numbers.
LEMMA Induction ==
  ASSUME NEW S, 0 \in S, \A n \in Nat : n \in S => n + 1 \in S
  PROVE  Nat \subseteq S
<1>1. SUFFICES ASSUME Nat \ S # {} PROVE FALSE
  OBVIOUS
<1>2. PICK n \in Nat \ S : \A m \in Nat \ S : n \leq m
  BY <1>1, LeastOf
<1>3. n # 0 /\ n - 1 \in Nat /\ n - 1 \notin S
  BY <1>2
<1> QED
  BY <1>2, <1>3

\* The greatest of some places.
LEMMA GreatestOf ==
  ASSUME NEW n \in Nat, NEW T \in SUBSET (1..n), T # {}
  PROVE  Max(T) \in T /\ \A k \in T : k \leq Max(T)
<1> DEFINE S == {n - k : k \in T}
<1>1. S \subseteq Nat /\ S # {}
  <2>1. \A k \in T : k \in 1..n /\ n - k \in Nat
    OBVIOUS
  <2> QED
    BY <2>1
<1>2. PICK m \in S : \A k \in S : m \leq k
  BY <1>1, LeastOf
<1>3. PICK x \in T : m = n - x
  BY <1>2
<1>4. \A k \in T : x >= k
  BY <1>2, <1>3
<1> QED
  BY <1>4 DEF Max

LEMMA GreatestIsLast ==
  ASSUME NEW n \in Nat, NEW T \in SUBSET (1..(n + 1)), n + 1 \in T
  PROVE  Max(T) = n + 1 /\ T \ {Max(T)} \in SUBSET (1..n)
<1> DEFINE m == n + 1
<1>1. Max(T) \in T /\ n + 1 \leq Max(T)
  <2>1. m \in Nat /\ T \in SUBSET (1..m) /\ T # {} /\ m \in T
    OBVIOUS
  <2> HIDE DEF m
  <2>2. Max(T) \in T /\ m \leq Max(T)
    BY <2>1, GreatestOf
  <2> QED
    BY <2>2 DEF m
<1>2. Max(T) = n + 1
  <2>1. Max(T) \in 1..(n + 1)
    BY <1>1
  <2> QED
    BY <1>1, <2>1
<1> QED
  BY <1>2

\* What is left without the greatest place is of the same kind.
LEMMA WithoutGreatest ==
  ASSUME NEW n \in Nat, NEW T \in SUBSET (1..n), T # {}
  PROVE  T \ {Max(T)} \in SUBSET (1..n) /\ Max(T) \in 1..n
BY GreatestOf

\* h folds F over the subsets of 1..n, from b.
IsFold(h, n, b, F) ==
  h = [T \in SUBSET (1..n) |-> IF T = {} THEN b ELSE F[<<h[T \ {Max(T)}], Max(T)>>]]

\* There is a fold for every step that stays within a set.
LEMMA FoldExists ==
  ASSUME NEW n \in Nat, NEW A, NEW b \in A, NEW F \in [A \X (1..n) -> A]
  PROVE  \E h \in [SUBSET (1..n) -> A] : IsFold(h, n, b, F)
<1> DEFINE S == {k \in Nat : k \leq n => \E h \in [SUBSET (1..k) -> A] : IsFold(h, k, b, F)}
<1>1. 0 \in S
  <2> DEFINE h == [T \in SUBSET (1..0) |-> b]
  <2>1. \A T \in SUBSET (1..0) : T = {}
    OBVIOUS
  <2>2. h \in [SUBSET (1..0) -> A] /\ IsFold(h, 0, b, F)
    BY <2>1 DEF IsFold
  <2> QED
    BY <2>2
<1>2. ASSUME NEW k \in Nat, k \in S, k + 1 \leq n PROVE k + 1 \in S
  <2>1. PICK h \in [SUBSET (1..k) -> A] : IsFold(h, k, b, F)
    <3>1. k \leq n
      BY <1>2
    <3> QED
      BY <1>2, <3>1
  <2> DEFINE g == [T \in SUBSET (1..(k + 1)) |->
                     IF k + 1 \in T THEN F[<<h[T \ {k + 1}], k + 1>>] ELSE h[T]]
  <2>2. ASSUME NEW T \in SUBSET (1..(k + 1))
        PROVE  /\ g[T] \in A
               /\ g[T] = IF T = {} THEN b ELSE F[<<g[T \ {Max(T)}], Max(T)>>]
    <3>1. CASE k + 1 \in T
      <4>1. Max(T) = k + 1 /\ T \ {Max(T)} \in SUBSET (1..k)
        BY <3>1, GreatestIsLast
      <4>2. g[T \ {Max(T)}] = h[T \ {k + 1}] /\ h[T \ {k + 1}] \in A
        BY <4>1
      <4>3. g[T] = F[<<g[T \ {Max(T)}], Max(T)>>]
        BY <3>1, <4>1, <4>2
      <4>4. <<g[T \ {Max(T)}], Max(T)>> \in A \X (1..n)
        BY <1>2, <4>1, <4>2
      <4> QED
        BY <3>1, <4>3, <4>4
    <3>2. CASE k + 1 \notin T
      <4>1. T \in SUBSET (1..k)
        BY <3>2
      <4>2. g[T] = h[T] /\ h[T] \in A
        BY <3>2, <4>1
      <4>3. T # {} => T \ {Max(T)} \in SUBSET (1..k)
        BY <4>1, WithoutGreatest
      <4>4. T # {} => g[T \ {Max(T)}] = h[T \ {Max(T)}]
        BY <4>3
      <4>5. h[T] = IF T = {} THEN b ELSE F[<<h[T \ {Max(T)}], Max(T)>>]
        BY <2>1, <4>1 DEF IsFold
      <4> QED
        BY <4>2, <4>4, <4>5
    <3> QED
      BY <3>1, <3>2
  <2>3. g \in [SUBSET (1..(k + 1)) -> A]
    BY <2>2
  <2>4. IsFold(g, k + 1, b, F)
    BY <2>2 DEF IsFold
  <2>5. k + 1 \in Nat
    OBVIOUS
  <2> HIDE DEF g
  <2> QED
    BY <2>3, <2>4, <2>5
<1>3. \A k \in Nat : k \in S => k + 1 \in S
  <2>1. \A k \in Nat : ~(k + 1 \leq n) => k + 1 \in S
    OBVIOUS
  <2> HIDE DEF S
  <2> QED
    BY <1>2, <2>1
<1>4. Nat \subseteq S
  <2> HIDE DEF S
  <2> QED
    BY <1>1, <1>3, Induction
<1>5. n \in S /\ n \leq n
  <2> HIDE DEF S
  <2> QED
    BY <1>4
<1> QED
  BY <1>5

\* g and h agree on the subsets of 1..n, and on each of them if they do without its
\* greatest place.
Agree(n, g, h) == \A T \in SUBSET (1..n) : g[T] = h[T]

AgreeByStep(n, g, h) ==
  \A T \in SUBSET (1..n) : T = {} \/ g[T \ {Max(T)}] = h[T \ {Max(T)}] => g[T] = h[T]

\* Two functions with the same step agree.
LEMMA FoldUnique ==
  ASSUME NEW n \in Nat, NEW g, NEW h, AgreeByStep(n, g, h)
  PROVE  Agree(n, g, h)
<1> USE DEF Agree, AgreeByStep
<1> DEFINE S == {k \in Nat : k \leq n => \A T \in SUBSET (1..k) : g[T] = h[T]}
<1>1. 0 \in S
  <2>1. \A T \in SUBSET (1..0) : T = {} /\ T \in SUBSET (1..n)
    OBVIOUS
  <2> QED
    BY <2>1
<1>2. ASSUME NEW k \in Nat, k \in S, k + 1 \leq n, NEW T \in SUBSET (1..(k + 1))
      PROVE  g[T] = h[T]
  <2>1. T \in SUBSET (1..n)
    BY <1>2
  <2>2. CASE k + 1 \in T
    <3>1. T \ {Max(T)} \in SUBSET (1..k)
      BY <2>2, GreatestIsLast
    <3>2. T \ {Max(T)} \in SUBSET (1..n) /\ k \leq n
      BY <1>2, <3>1
    <3>3. g[T \ {Max(T)}] = h[T \ {Max(T)}]
      BY <1>2, <3>1, <3>2
    <3> QED
      BY <2>1, <3>3
  <2>3. CASE k + 1 \notin T
    <3>1. T \in SUBSET (1..k)
      BY <2>3
    <3> QED
      BY <1>2, <3>1
  <2> QED
    BY <2>2, <2>3
<1>3. \A k \in Nat : k \in S => k + 1 \in S
  BY <1>2
<1>4. Nat \subseteq S
  <2> HIDE DEF S
  <2> QED
    BY <1>1, <1>3, Induction
<1> QED
  BY <1>4
=============================================================================
