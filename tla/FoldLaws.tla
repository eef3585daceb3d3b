------------------------------ MODULE FoldLaws ------------------------------
(***************************************************************************)
(* Induction and folds, as facts about sets and functions.                 *)
(***************************************************************************)
EXTENDS Integers, FiniteSetsExt, FiniteSetTheorems, WellFoundedInduction, TLAPS

\* If a set is good whenever its proper subsets are, every finite set is.
LEMMA SubsetInduction ==
    ASSUME NEW S, IsFiniteSet(S), NEW Good,
           \A A \in SUBSET S : (\A B \in SUBSET A : B # A => B \in Good) => A \in Good
    PROVE  \A A \in SUBSET S : A \in Good
  <1> DEFINE Bad == {A \in SUBSET S : A \notin Good}
  <1>1. IsWellFoundedOn(StrictSubsetOrdering(S), FiniteSubsetsOf(S))
    BY FS_StrictSubsetOrderingWellFounded
  <1>2. SUBSET S = FiniteSubsetsOf(S)
    BY FS_Subset DEF FiniteSubsetsOf
  <1> SUFFICES ASSUME Bad # {} PROVE FALSE
    OBVIOUS
  <1>3. PICK A \in Bad : \A B \in Bad : <<B, A>> \notin StrictSubsetOrdering(S)
    <2> HIDE DEF Bad
    <2>1. Bad \subseteq FiniteSubsetsOf(S) BY <1>2 DEF Bad
    <2> QED BY <1>1, <2>1, WFMin
  <1>4. \A B \in SUBSET A : B # A => B \in Good
    BY <1>3 DEF StrictSubsetOrdering
  <1> QED BY <1>3, <1>4

\* If 0 is good, and with a number the next, every natural number is.
LEMMA NumberInduction ==
    ASSUME NEW Good, 0 \in Good, \A n \in Nat : n \in Good => n + 1 \in Good
    PROVE  \A n \in Nat : n \in Good
  <1> SUFFICES ASSUME NEW n \in Nat PROVE n \in Good
    OBVIOUS
  <1> DEFINE Up == {A \in SUBSET (0..n) : \A m \in Nat : A = 0..m => m \in Good}
  <1>1. IsFiniteSet(0..n)
    BY FS_Interval
  <1>2. ASSUME NEW A \in SUBSET (0..n), \A B \in SUBSET A : B # A => B \in Up
        PROVE  A \in Up
    <2> SUFFICES ASSUME NEW m \in Nat, A = 0..m PROVE m \in Good
      OBVIOUS
    <2>0. A = 0..m /\ m \in Nat OBVIOUS
    <2>1. CASE m = 0 BY <2>1
    <2>2. CASE m # 0
      <3>1. m - 1 \in Nat /\ m = (m - 1) + 1 BY <2>2
      <3>2. 0..(m - 1) \in SUBSET A /\ 0..(m - 1) # A
        <4>1. m \in A /\ m \notin 0..(m - 1) BY <2>0, <3>1
        <4>2. \A k \in 0..(m - 1) : k \in 0..m BY <3>1
        <4> QED BY <2>0, <4>1, <4>2
      <3>3. 0..(m - 1) \in Up
        <4> HIDE DEF Up
        <4> QED BY <1>2, <3>2
      <3>4. m - 1 \in Good BY <3>1, <3>3
      <3> QED BY <3>1, <3>4
    <2> QED BY <2>1, <2>2
  <1>3. 0..n \in Up
    <2> HIDE DEF Up
    <2> DEFINE S == 0..n
    <2>1. \A A \in SUBSET S : (\A B \in SUBSET A : B # A => B \in Up) => A \in Up
      BY <1>2
    <2>2. IsFiniteSet(S) /\ S \in SUBSET S
      BY <1>1
    <2> HIDE DEF S
    <2>3. \A A \in SUBSET S : A \in Up
      BY <2>1, <2>2, SubsetInduction
    <2>4. S \in Up
      BY <2>2, <2>3
    <2> QED BY <2>4 DEF S
  <1> QED BY <1>3

\* Taking an element away leaves one less.
LEMMA OneLess ==
    ASSUME NEW A, IsFiniteSet(A), NEW x \in A
    PROVE  Cardinality(A \ {x}) = Cardinality(A) - 1
  BY FS_RemoveElement

\* g is the fold of step from base over every part of S, in the order pick has.
IsFold(g, S, V, base, step, pick) ==
    /\ g \in [SUBSET S -> V]
    /\ \A A \in SUBSET S :
          g[A] = IF A = {} THEN base ELSE step[<<g[A \ {pick[A]}], pick[A]>>]

\* A fold over a finite set exists, whatever order its elements are picked in.
LEMMA FoldExists ==
    ASSUME NEW S, IsFiniteSet(S), NEW V, NEW base \in V, NEW step \in [V \X S -> V],
           NEW pick, \A A \in SUBSET S : A # {} => pick[A] \in A
    PROVE  \E g : IsFold(g, S, V, base, step, pick)
  <1> DEFINE Folds(g, n) == \A A \in SUBSET S : Cardinality(A) <= n =>
                g[A] = IF A = {} THEN base ELSE step[<<g[A \ {pick[A]}], pick[A]>>]
             Good == {n \in Nat : \E g \in [SUBSET S -> V] : Folds(g, n)}
  <1>1. \A A \in SUBSET S : /\ IsFiniteSet(A) /\ Cardinality(A) \in Nat
                            /\ Cardinality(A) <= Cardinality(S)
    BY FS_Subset, FS_CardinalityType
  <1>2. 0 \in Good
    <2> DEFINE g == [A \in SUBSET S |-> base]
    <2>1. Folds(g, 0)
      BY <1>1, FS_EmptySet
    <2> QED BY <2>1
  <1>3. ASSUME NEW n \in Nat, n \in Good PROVE n + 1 \in Good
    <2>1. PICK g \in [SUBSET S -> V] : Folds(g, n)
      BY <1>3
    <2> DEFINE h == [A \in SUBSET S |->
                        IF Cardinality(A) = n + 1 THEN step[<<g[A \ {pick[A]}], pick[A]>>] ELSE g[A]]
    <2>2. ASSUME NEW A \in SUBSET S, A # {}
          PROVE  /\ A \ {pick[A]} \in SUBSET S /\ pick[A] \in S
                 /\ Cardinality(A \ {pick[A]}) = Cardinality(A) - 1
      <3>1. pick[A] \in A BY <2>2
      <3>2. IsFiniteSet(A) BY <1>1
      <3>3. Cardinality(A \ {pick[A]}) = Cardinality(A) - 1 BY <3>1, <3>2, OneLess
      <3> QED BY <3>1, <3>3
    <2>3. \A A \in SUBSET S : Cardinality(A) = n + 1 => A # {}
      <3> SUFFICES ASSUME Cardinality({}) = n + 1 PROVE FALSE OBVIOUS
      <3>1. Cardinality({}) = 0 BY FS_EmptySet
      <3>2. 0 = n + 1 BY <3>1
      <3> QED BY <3>2
    <2>4. h \in [SUBSET S -> V]
      BY <2>2, <2>3
    <2>5. Folds(h, n + 1)
      <3> SUFFICES ASSUME NEW A \in SUBSET S, Cardinality(A) <= n + 1
                   PROVE  h[A] = IF A = {} THEN base ELSE step[<<h[A \ {pick[A]}], pick[A]>>]
        OBVIOUS
      <3>1. CASE A = {}
        BY <1>1, <2>1, <2>3, <3>1, FS_EmptySet
      <3>2. CASE A # {}
        <4>1. h[A \ {pick[A]}] = g[A \ {pick[A]}]
          BY <1>1, <2>2, <3>2
        <4>2. CASE Cardinality(A) = n + 1 BY <3>2, <4>1, <4>2
        <4>3. CASE Cardinality(A) # n + 1
          <5>1. Cardinality(A) <= n BY <1>1, <4>3
          <5>2. g[A] = step[<<g[A \ {pick[A]}], pick[A]>>] BY <2>1, <3>2, <5>1
          <5> QED BY <3>2, <4>1, <4>3, <5>2
        <4> QED BY <4>2, <4>3
      <3> QED BY <3>1, <3>2
    <2> HIDE DEF h, Folds
    <2> QED BY <2>4, <2>5
  <1>4. Cardinality(S) \in Good
    <2> HIDE DEF Good
    <2> QED BY <1>1, <1>2, <1>3, NumberInduction
  <1>5. PICK g \in [SUBSET S -> V] : Folds(g, Cardinality(S))
    BY <1>4
  <1> QED BY <1>1, <1>5 DEF IsFold

\* The first n numbers are n.
LEMMA FirstNumbers ==
    ASSUME NEW n \in Nat
    PROVE  IsFiniteSet(1..n) /\ Cardinality(1..n) = n
  <1>1. /\ IsFiniteSet(1..n)
        /\ Cardinality(1..n) = IF 1 > n THEN 0 ELSE n - 1 + 1
    BY FS_Interval
  <1> QED BY <1>1

\* Sets that do not meet have as many elements together as one by one.
LEMMA DisjointUnion ==
    ASSUME NEW S, NEW T, IsFiniteSet(S), IsFiniteSet(T), S \cap T = {}
    PROVE  /\ IsFiniteSet(S \cup T)
           /\ Cardinality(S \cup T) = Cardinality(S) + Cardinality(T)
  <1>1. Cardinality(S \cup T) = Cardinality(S) + Cardinality(T) - Cardinality(S \cap T)
    BY FS_Union
  <1>2. Cardinality(S \cap T) = 0 /\ Cardinality(S) \in Nat /\ Cardinality(T) \in Nat
    BY FS_EmptySet, FS_CardinalityType
  <1> QED BY <1>1, <1>2, FS_Union

-----------------------------------------------------------------------------
(* Folds over a sequence, which pick the last place that is left.          *)

\* Places are compared, so the greatest of some is the greatest.
LEMMA MaxIsGreatest ==
    ASSUME NEW n \in Nat
    PROVE  \A A \in SUBSET (1..n) : A # {} => Max(A) \in A /\ \A y \in A : y <= Max(A)
  <1> DEFINE Good == {A \in SUBSET (1..n) : A # {} => \E x \in A : \A y \in A : x >= y}
  <1>1. ASSUME NEW A \in SUBSET (1..n), \A B \in SUBSET A : B # A => B \in Good
        PROVE  A \in Good
    <2> SUFFICES ASSUME NEW z \in A PROVE \E x \in A : \A y \in A : x >= y
      OBVIOUS
    <2>1. A \ {z} \in Good
      <3> HIDE DEF Good
      <3> QED BY <1>1
    <2>2. CASE A \ {z} = {}
      BY <2>2
    <2>3. CASE A \ {z} # {}
      <3>1. PICK x \in A \ {z} : \A y \in A \ {z} : x >= y
        BY <2>1, <2>3
      <3>2. CASE x >= z BY <3>1, <3>2
      <3>3. CASE ~(x >= z)
        <4>1. x \in Int /\ z \in Int /\ \A y \in A : y \in Int OBVIOUS
        <4>2. \A y \in A : z >= y BY <3>1, <3>3, <4>1
        <4> QED BY <4>2
      <3> QED BY <3>2, <3>3
    <2> QED BY <2>2, <2>3
  <1>2. \A A \in SUBSET (1..n) : A \in Good
    <2>1. IsFiniteSet(1..n) BY FS_Interval
    <2> HIDE DEF Good
    <2> QED BY <1>1, <2>1, SubsetInduction
  <1> SUFFICES ASSUME NEW A \in SUBSET (1..n), A # {}
               PROVE  Max(A) \in A /\ \A y \in A : y <= Max(A)
    OBVIOUS
  <1>3. \E x \in A : \A y \in A : x >= y
    BY <1>2
  <1>4. Max(A) \in A /\ \A y \in A : Max(A) >= y
    BY <1>3 DEF Max
  <1> QED BY <1>4

\* The function over sets of places that a fold over a sequence computes.
IsLeftFold(g, n, V, base, step) ==
    /\ g \in [SUBSET (1..n) -> V]
    /\ \A A \in SUBSET (1..n) :
          g[A] = IF A = {} THEN base ELSE step[<<g[A \ {Max(A)}], Max(A)>>]

\* A fold over the places of a sequence exists.
LEMMA LeftFoldExists ==
    ASSUME NEW n \in Nat, NEW V, NEW base \in V, NEW step \in [V \X (1..n) -> V]
    PROVE  \E g : IsLeftFold(g, n, V, base, step)
  <1> DEFINE pick == [A \in SUBSET (1..n) |-> Max(A)]
  <1>1. \A A \in SUBSET (1..n) : pick[A] = Max(A)
    OBVIOUS
  <1>2. \A A \in SUBSET (1..n) : A # {} => pick[A] \in A
    BY MaxIsGreatest
  <1> HIDE DEF pick
  <1>3. PICK g : IsFold(g, 1..n, V, base, step, pick)
    <2>1. IsFiniteSet(1..n) BY FS_Interval
    <2> QED BY <1>2, <2>1, FoldExists
  <1> QED BY <1>1, <1>3 DEF IsFold, IsLeftFold

\* iter folds place after place for as long as it stays within V.
FoldsOn(iter, n, V, base, step) ==
    /\ iter[{}] = base
    /\ \A A \in SUBSET (1..n) : A # {} /\ iter[A \ {Max(A)}] \in V
           => iter[A] = step[<<iter[A \ {Max(A)}], Max(A)>>]

\* acc is what iter has folded after each place.
Unrolls(acc, iter, n, V, base, step) ==
    /\ acc \in [0..n -> V] /\ acc[0] = base /\ acc[n] = iter[1..n]
    /\ \A i \in 1..n : acc[i - 1] \in V /\ acc[i] = step[<<acc[i - 1], i>>]

\* A fold over a sequence is made place by place, from the first to the last.
LEMMA LeftFoldUnrolls ==
    ASSUME NEW n \in Nat, NEW V, NEW base \in V, NEW step \in [V \X (1..n) -> V], NEW iter,
           FoldsOn(iter, n, V, base, step)
    PROVE  \E acc : Unrolls(acc, iter, n, V, base, step)
  <1> DEFINE Good == {k \in Nat : k <= n => iter[1..k] \in V}
  <1>1. ASSUME NEW k \in 1..n PROVE Max(1..k) = k /\ (1..k) \ {Max(1..k)} = 1..(k - 1)
    <2>1. 1..k \in SUBSET (1..n) /\ k \in 1..k
      OBVIOUS
    <2>2. Max(1..k) \in 1..k /\ k <= Max(1..k)
      BY <2>1, MaxIsGreatest
    <2>3. Max(1..k) = k
      BY <2>2
    <2> QED BY <2>3
  <1>2. ASSUME NEW k \in 1..n, iter[1..(k - 1)] \in V
        PROVE  iter[1..k] = step[<<iter[1..(k - 1)], k>>] /\ iter[1..k] \in V
    <2>1. 1..k \in SUBSET (1..n) /\ 1..k # {}
      OBVIOUS
    <2>2. iter[1..k] = step[<<iter[1..(k - 1)], k>>]
      BY <1>1, <1>2, <2>1 DEF FoldsOn
    <2> QED BY <1>2, <2>2
  <1>3. 0 \in Good
    <2>1. 1..0 = {} OBVIOUS
    <2> QED BY <2>1 DEF FoldsOn
  <1>4. ASSUME NEW k \in Nat, k \in Good PROVE k + 1 \in Good
    <2> SUFFICES ASSUME k + 1 <= n PROVE iter[1..(k + 1)] \in V
      OBVIOUS
    <2>1. (k + 1) - 1 = k /\ k + 1 \in 1..n OBVIOUS
    <2>2. iter[1..k] \in V BY <1>4
    <2> QED BY <1>2, <2>1, <2>2
  <1>5. \A k \in Nat : k \in Good
    <2> HIDE DEF Good
    <2> QED BY <1>3, <1>4, NumberInduction
  <1> DEFINE acc == [k \in 0..n |-> iter[1..k]]
  <1>6. acc \in [0..n -> V]
    BY <1>5
  <1>7. acc[0] = base /\ acc[n] = iter[1..n]
    <2>1. 1..0 = {} OBVIOUS
    <2> QED BY <2>1 DEF FoldsOn
  <1>8. \A i \in 1..n : acc[i - 1] \in V /\ acc[i] = step[<<acc[i - 1], i>>]
    <2> SUFFICES ASSUME NEW i \in 1..n
                 PROVE  iter[1..(i - 1)] \in V /\ iter[1..i] = step[<<iter[1..(i - 1)], i>>]
      OBVIOUS
    <2>1. iter[1..(i - 1)] \in V BY <1>5
    <2> QED BY <1>2, <2>1
  <1> HIDE DEF acc
  <1> QED BY <1>6, <1>7, <1>8 DEF Unrolls
=============================================================================
