------------------------ MODULE FindingReport_proofs ------------------------
(***************************************************************************)
(* Theorems about FindingReport, for any files, any analyzers' output, any *)
(* candidates of the AI and any caps.  What a fold over a list comes to is *)
(* said by an invariant of the fold (FoldLaws); then come the sort, the    *)
(* two passes and the cut, then the steps, then the properties.            *)
(***************************************************************************)
EXTENDS FindingReport, FoldLaws

\* Each of the four steps makes a list of a list.
LEMMA KeepOneTyped ==
    ASSUME NEW kept \in Seq(Entries), NEW f \in Entries
    PROVE  KeepOne(kept, f) \in Seq(Entries)
  <1> DEFINE twins == {i \in DOMAIN kept : Same(kept[i], f)}
             swapped == [i \in DOMAIN kept |->
                            IF i \in twins /\ f.severity < kept[i].severity THEN f ELSE kept[i]]
  <1>1. Append(kept, f) \in Seq(Entries)
    OBVIOUS
  <1>2. swapped \in Seq(Entries)
    <2> HIDE DEF twins
    <2> QED OBVIOUS
  <1> QED BY <1>1, <1>2 DEF KeepOne

LEMMA NotAiTyped ==
    ASSUME NEW list \in Seq(Entries), NEW f \in Entries
    PROVE  NotAi(list, f) \in Seq(Entries)
  BY DEF NotAi

LEMMA MergeOneTyped ==
    ASSUME NEW list \in Seq(Entries), NEW ai \in Entries
    PROVE  MergeOne(list, ai) \in Seq(Entries)
  <1> DEFINE target == MergeTarget(ai, list)
             Noted(f) == [f EXCEPT !.source = "hybrid", !.notes = @ \cup {ai.id},
                                   !.confidence = IF ai.confidence < @ THEN ai.confidence ELSE @]
             merged == [i \in DOMAIN list |-> IF i \notin target THEN list[i] ELSE Noted(list[i])]
  <1>1. Append(list, ai) \in Seq(Entries)
    OBVIOUS
  <1>2. \A f \in Entries : Noted(f) \in Entries
    BY DEF Entries
  <1>3. merged \in Seq(Entries)
    <2> HIDE DEF target, Noted
    <2> QED BY <1>2
  <1> QED BY <1>1, <1>3 DEF MergeOne

Parted == [first : Seq(Entries), held : Seq(Entries)]

LEMMA PassTyped ==
    ASSUME NEW acc \in Parted, NEW f \in Entries
    PROVE  Pass(acc, f) \in Parted
  <1>1. acc.first \in Seq(Entries) /\ acc.held \in Seq(Entries)
    BY DEF Parted
  <1>2. Append(acc.first, f) \in Seq(Entries) /\ Append(acc.held, f) \in Seq(Entries)
    BY <1>1
  <1>3. \/ Pass(acc, f) = [acc EXCEPT !.held = Append(acc.held, f)]
        \/ Pass(acc, f) = [acc EXCEPT !.first = Append(acc.first, f)]
    BY DEF Pass
  <1> QED BY <1>2, <1>3 DEF Parted

\* by_fp is made finding by finding, and so are the other three.
LEMMA KeptUnrolls ==
    ASSUME NEW list \in Seq(Entries)
    PROVE  \E acc \in [0..Len(list) -> Seq(Entries)] :
              /\ acc[0] = <<>> /\ acc[Len(list)] = Kept(list)
              /\ \A i \in 1..Len(list) : acc[i] = KeepOne(acc[i - 1], list[i])
  <1> DEFINE n == Len(list)
             V == Seq(Entries)
             step == [vi \in V \X (1..n) |-> KeepOne(vi[1], list[vi[2]])]
             Folds(g) == g = [A \in SUBSET DOMAIN list |->
                                 IF A = {} THEN <<>>
                                 ELSE KeepOne(g[A \ {Max(A)}], list[Max(A)])]
             iter == CHOOSE g : Folds(g)
  <1>1. n \in Nat /\ DOMAIN list = 1..n /\ \A i \in 1..n : list[i] \in Entries
    OBVIOUS
  <1>2. <<>> \in V /\ \A v \in V, i \in 1..n : KeepOne(v, list[i]) \in V
    BY <1>1, KeepOneTyped
  <1>3. step \in [V \X (1..n) -> V] /\ \A v \in V, i \in 1..n : step[<<v, i>>] = KeepOne(v, list[i])
    BY <1>2
  <1>4. \A A \in SUBSET (1..n) : A # {} => Max(A) \in 1..n
    BY <1>1, MaxIsGreatest
  <1>5. Kept(list) = iter[1..n]
    BY <1>1 DEF Kept, FoldLeft, MapThenFoldSet
  <1> HIDE DEF step, V, n
  <1>6. PICK g : IsLeftFold(g, n, V, <<>>, step)
    BY <1>1, <1>2, <1>3, LeftFoldExists
  <1>7. Folds(g)
    BY <1>1, <1>3, <1>4, <1>6 DEF IsLeftFold
  <1>8. Folds(iter)
    <2> HIDE DEF Folds
    <2> QED BY <1>7
  <1> HIDE DEF iter
  <1>9. FoldsOn(iter, n, V, <<>>, step)
    BY <1>1, <1>3, <1>4, <1>8 DEF FoldsOn
  <1>10. PICK acc : Unrolls(acc, iter, n, V, <<>>, step)
    <2>1. n \in Nat /\ <<>> \in V /\ step \in [V \X (1..n) -> V]
      BY <1>1, <1>2, <1>3
    <2> QED BY <2>1, <1>9, LeftFoldUnrolls
  <1>11. /\ acc \in [0..n -> V] /\ acc[0] = <<>> /\ acc[n] = iter[1..n]
         /\ \A i \in 1..n : acc[i] = KeepOne(acc[i - 1], list[i])
    BY <1>3, <1>10 DEF Unrolls
  <1> QED BY <1>5, <1>11 DEF n, V

LEMMA RestUnrolls ==
    ASSUME NEW list \in Seq(Entries)
    PROVE  \E acc \in [0..Len(list) -> Seq(Entries)] :
              /\ acc[0] = <<>> /\ acc[Len(list)] = FoldLeft(NotAi, <<>>, list)
              /\ \A i \in 1..Len(list) : acc[i] = NotAi(acc[i - 1], list[i])
  <1> DEFINE n == Len(list)
             V == Seq(Entries)
             step == [vi \in V \X (1..n) |-> NotAi(vi[1], list[vi[2]])]
             Folds(g) == g = [A \in SUBSET DOMAIN list |->
                                 IF A = {} THEN <<>>
                                 ELSE NotAi(g[A \ {Max(A)}], list[Max(A)])]
             iter == CHOOSE g : Folds(g)
  <1>1. n \in Nat /\ DOMAIN list = 1..n /\ \A i \in 1..n : list[i] \in Entries
    OBVIOUS
  <1>2. <<>> \in V /\ \A v \in V, i \in 1..n : NotAi(v, list[i]) \in V
    BY <1>1, NotAiTyped
  <1>3. step \in [V \X (1..n) -> V] /\ \A v \in V, i \in 1..n : step[<<v, i>>] = NotAi(v, list[i])
    BY <1>2
  <1>4. \A A \in SUBSET (1..n) : A # {} => Max(A) \in 1..n
    BY <1>1, MaxIsGreatest
  <1>5. FoldLeft(NotAi, <<>>, list) = iter[1..n]
    BY <1>1 DEF FoldLeft, MapThenFoldSet
  <1> HIDE DEF step, V, n
  <1>6. PICK g : IsLeftFold(g, n, V, <<>>, step)
    BY <1>1, <1>2, <1>3, LeftFoldExists
  <1>7. Folds(g)
    BY <1>1, <1>3, <1>4, <1>6 DEF IsLeftFold
  <1>8. Folds(iter)
    <2> HIDE DEF Folds
    <2> QED BY <1>7
  <1> HIDE DEF iter
  <1>9. FoldsOn(iter, n, V, <<>>, step)
    BY <1>1, <1>3, <1>4, <1>8 DEF FoldsOn
  <1>10. PICK acc : Unrolls(acc, iter, n, V, <<>>, step)
    <2>1. n \in Nat /\ <<>> \in V /\ step \in [V \X (1..n) -> V]
      BY <1>1, <1>2, <1>3
    <2> QED BY <2>1, <1>9, LeftFoldUnrolls
  <1>11. /\ acc \in [0..n -> V] /\ acc[0] = <<>> /\ acc[n] = iter[1..n]
         /\ \A i \in 1..n : acc[i] = NotAi(acc[i - 1], list[i])
    BY <1>3, <1>10 DEF Unrolls
  <1> QED BY <1>5, <1>11 DEF n, V

LEMMA MergeUnrolls ==
    ASSUME NEW rest \in Seq(Entries), NEW list \in Seq(Entries)
    PROVE  \E acc \in [0..Len(list) -> Seq(Entries)] :
              /\ acc[0] = rest /\ acc[Len(list)] = FoldLeft(MergeOne, rest, list)
              /\ \A i \in 1..Len(list) : acc[i] = MergeOne(acc[i - 1], list[i])
  <1> DEFINE n == Len(list)
             V == Seq(Entries)
             step == [vi \in V \X (1..n) |-> MergeOne(vi[1], list[vi[2]])]
             Folds(g) == g = [A \in SUBSET DOMAIN list |->
                                 IF A = {} THEN rest
                                 ELSE MergeOne(g[A \ {Max(A)}], list[Max(A)])]
             iter == CHOOSE g : Folds(g)
  <1>1. n \in Nat /\ DOMAIN list = 1..n /\ \A i \in 1..n : list[i] \in Entries
    OBVIOUS
  <1>2. rest \in V /\ \A v \in V, i \in 1..n : MergeOne(v, list[i]) \in V
    BY <1>1, MergeOneTyped
  <1>3. step \in [V \X (1..n) -> V] /\ \A v \in V, i \in 1..n : step[<<v, i>>] = MergeOne(v, list[i])
    BY <1>2
  <1>4. \A A \in SUBSET (1..n) : A # {} => Max(A) \in 1..n
    BY <1>1, MaxIsGreatest
  <1>5. FoldLeft(MergeOne, rest, list) = iter[1..n]
    BY <1>1 DEF FoldLeft, MapThenFoldSet
  <1> HIDE DEF step, V, n
  <1>6. PICK g : IsLeftFold(g, n, V, rest, step)
    BY <1>1, <1>2, <1>3, LeftFoldExists
  <1>7. Folds(g)
    BY <1>1, <1>3, <1>4, <1>6 DEF IsLeftFold
  <1>8. Folds(iter)
    <2> HIDE DEF Folds
    <2> QED BY <1>7
  <1> HIDE DEF iter
  <1>9. FoldsOn(iter, n, V, rest, step)
    BY <1>1, <1>3, <1>4, <1>8 DEF FoldsOn
  <1>10. PICK acc : Unrolls(acc, iter, n, V, rest, step)
    <2>1. n \in Nat /\ rest \in V /\ step \in [V \X (1..n) -> V]
      BY <1>1, <1>2, <1>3
    <2> QED BY <2>1, <1>9, LeftFoldUnrolls
  <1>11. /\ acc \in [0..n -> V] /\ acc[0] = rest /\ acc[n] = iter[1..n]
         /\ \A i \in 1..n : acc[i] = MergeOne(acc[i - 1], list[i])
    BY <1>3, <1>10 DEF Unrolls
  <1> QED BY <1>5, <1>11 DEF n, V

LEMMA PassUnrolls ==
    ASSUME NEW list \in Seq(Entries)
    PROVE  \E acc \in [0..Len(list) -> Parted] :
              /\ acc[0] = [first |-> <<>>, held |-> <<>>]
              /\ acc[Len(list)] = FoldLeft(Pass, [first |-> <<>>, held |-> <<>>], list)
              /\ \A i \in 1..Len(list) : acc[i] = Pass(acc[i - 1], list[i])
  <1> DEFINE n == Len(list)
             V == Parted
             step == [vi \in V \X (1..n) |-> Pass(vi[1], list[vi[2]])]
             Folds(g) == g = [A \in SUBSET DOMAIN list |->
                                 IF A = {} THEN [first |-> <<>>, held |-> <<>>]
                                 ELSE Pass(g[A \ {Max(A)}], list[Max(A)])]
             iter == CHOOSE g : Folds(g)
  <1>1. n \in Nat /\ DOMAIN list = 1..n /\ \A i \in 1..n : list[i] \in Entries
    OBVIOUS
  <1>2. [first |-> <<>>, held |-> <<>>] \in V /\ \A v \in V, i \in 1..n : Pass(v, list[i]) \in V
    <2>1. [first |-> <<>>, held |-> <<>>] \in V
      BY DEF Parted
    <2> QED BY <1>1, <2>1, PassTyped
  <1>3. step \in [V \X (1..n) -> V] /\ \A v \in V, i \in 1..n : step[<<v, i>>] = Pass(v, list[i])
    BY <1>2
  <1>4. \A A \in SUBSET (1..n) : A # {} => Max(A) \in 1..n
    BY <1>1, MaxIsGreatest
  <1>5. FoldLeft(Pass, [first |-> <<>>, held |-> <<>>], list) = iter[1..n]
    BY <1>1 DEF FoldLeft, MapThenFoldSet
  <1> HIDE DEF step, V, n
  <1>6. PICK g : IsLeftFold(g, n, V, [first |-> <<>>, held |-> <<>>], step)
    BY <1>1, <1>2, <1>3, LeftFoldExists
  <1>7. Folds(g)
    BY <1>1, <1>3, <1>4, <1>6 DEF IsLeftFold
  <1>8. Folds(iter)
    <2> HIDE DEF Folds
    <2> QED BY <1>7
  <1> HIDE DEF iter
  <1>9. FoldsOn(iter, n, V, [first |-> <<>>, held |-> <<>>], step)
    BY <1>1, <1>3, <1>4, <1>8 DEF FoldsOn
  <1>10. PICK acc : Unrolls(acc, iter, n, V, [first |-> <<>>, held |-> <<>>], step)
    <2>1. n \in Nat /\ [first |-> <<>>, held |-> <<>>] \in V /\ step \in [V \X (1..n) -> V]
      BY <1>1, <1>2, <1>3
    <2> QED BY <2>1, <1>9, LeftFoldUnrolls
  <1>11. /\ acc \in [0..n -> V] /\ acc[0] = [first |-> <<>>, held |-> <<>>] /\ acc[n] = iter[1..n]
         /\ \A i \in 1..n : acc[i] = Pass(acc[i - 1], list[i])
    BY <1>3, <1>10 DEF Unrolls
  <1> QED BY <1>5, <1>11 DEF n, V

-----------------------------------------------------------------------------
(* One of each fingerprint.                                                *)

\* kept has the most severe finding of every fingerprint among the first k.
Holds(kept, list, k) ==
    /\ \A i \in DOMAIN kept : \E n \in 1..k : kept[i] = list[n]
    /\ \A i, j \in DOMAIN kept : Same(kept[i], kept[j]) => i = j
    /\ \A n \in 1..k : \E i \in DOMAIN kept :
          Same(kept[i], list[n]) /\ kept[i].severity <= list[n].severity

LEMMA KeepOneHolds ==
    ASSUME NEW list \in Seq(Entries), NEW k \in 1..Len(list), NEW kept \in Seq(Entries),
           Holds(kept, list, k - 1)
    PROVE  Holds(KeepOne(kept, list[k]), list, k)
  <1> DEFINE f == list[k]
             twins == {i \in DOMAIN kept : Same(kept[i], f)}
             new == KeepOne(kept, f)
  <1>0. /\ f \in Entries /\ f.severity \in Nat /\ \A i \in DOMAIN kept : kept[i].severity \in Nat
        /\ \A n \in 1..k : list[n].severity \in Nat
        /\ 1..k = 1..(k - 1) \cup {k} /\ k \in Nat
    <2>1. \A g \in Entries : g.severity \in Nat
      BY DEF Entries
    <2>2. f \in Entries /\ (\A i \in DOMAIN kept : kept[i] \in Entries) /\ \A n \in 1..k : list[n] \in Entries
      OBVIOUS
    <2> QED BY <2>1, <2>2
  <1>1. \A g \in {list[n] : n \in 1..k} : Same(g, g)
    BY DEF Same
  <1>2. CASE twins = {}
    <2>1. /\ DOMAIN new = DOMAIN kept \cup {Len(kept) + 1} /\ new[Len(kept) + 1] = f
          /\ \A i \in DOMAIN kept : new[i] = kept[i]
      BY <1>0, <1>2 DEF KeepOne
    <2>2. \A i \in DOMAIN kept : ~Same(kept[i], f) /\ ~Same(f, kept[i])
      BY <1>2 DEF Same
    <2> HIDE DEF new, twins
    <2>3. ASSUME NEW i \in DOMAIN new PROVE \E n \in 1..k : new[i] = list[n]
      <3>1. CASE i \in DOMAIN kept
        <4>1. PICK n \in 1..(k - 1) : kept[i] = list[n]
          BY <3>1 DEF Holds
        <4>2. new[i] = list[n] /\ n \in 1..k
          BY <1>0, <2>1, <3>1, <4>1
        <4> QED BY <4>2
      <3>2. CASE i = Len(kept) + 1
        <4>1. new[i] = list[k] /\ k \in 1..k
          BY <1>0, <2>1, <3>2
        <4> QED BY <4>1
      <3> QED BY <2>1, <3>1, <3>2
    <2>4. \A i, j \in DOMAIN new : Same(new[i], new[j]) => i = j
      BY <2>1, <2>2 DEF Holds
    <2>5. ASSUME NEW n \in 1..k
          PROVE  \E i \in DOMAIN new : Same(new[i], list[n]) /\ new[i].severity <= list[n].severity
      <3>1. CASE n = k
        BY <1>0, <1>1, <2>1, <3>1
      <3>2. CASE n # k
        <4>1. PICK i \in DOMAIN kept : Same(kept[i], list[n]) /\ kept[i].severity <= list[n].severity
          BY <1>0, <3>2 DEF Holds
        <4> QED BY <2>1, <4>1
      <3> QED BY <3>1, <3>2
    <2> QED BY <2>3, <2>4, <2>5 DEF Holds, new
  <1>3. CASE twins # {}
    <2>1. PICK t \in DOMAIN kept : Same(kept[t], f)
      BY <1>3
    <2>2. \A i \in DOMAIN kept : Same(kept[i], f) => i = t
      BY <2>1 DEF Same, Holds
    <2>3. /\ DOMAIN new = DOMAIN kept
          /\ \A i \in DOMAIN kept \ {t} : new[i] = kept[i]
          /\ new[t] = IF f.severity < kept[t].severity THEN f ELSE kept[t]
      BY <1>3, <2>1, <2>2 DEF KeepOne
    <2>4. /\ \A i \in DOMAIN kept : \A g : Same(kept[i], g) <=> Same(new[i], g)
          /\ \A i \in DOMAIN kept : \A g : Same(g, kept[i]) <=> Same(g, new[i])
          /\ new[t].severity <= kept[t].severity /\ new[t].severity <= f.severity
      <3>1. \A i \in DOMAIN kept : Fingerprint(kept[i], Text) = Fingerprint(new[i], Text)
        BY <2>1, <2>3 DEF Same
      <3>2. new[t].severity <= kept[t].severity /\ new[t].severity <= f.severity
        <4> HIDE DEF f, new
        <4> QED BY <1>0, <2>1, <2>3
      <3> QED BY <3>1, <3>2 DEF Same
    <2>5. \A i \in DOMAIN new : \E n \in 1..k : new[i] = list[n]
      <3> HIDE DEF new
      <3>1. \A i \in DOMAIN kept : \E n \in 1..k : kept[i] = list[n]
        BY <1>0 DEF Holds
      <3>2. k \in 1..k /\ f = list[k]
        BY <1>0
      <3> QED BY <2>3, <3>1, <3>2
    <2> HIDE DEF new, twins
    <2>6. \A i, j \in DOMAIN new : Same(new[i], new[j]) => i = j
      BY <2>3, <2>4 DEF Holds
    <2>7. ASSUME NEW n \in 1..k
          PROVE  \E i \in DOMAIN new : Same(new[i], list[n]) /\ new[i].severity <= list[n].severity
      <3>1. CASE n = k
        BY <2>1, <2>3, <2>4, <3>1
      <3>2. CASE n # k
        <4>1. PICK i \in DOMAIN kept : Same(kept[i], list[n]) /\ kept[i].severity <= list[n].severity
          BY <1>0, <3>2 DEF Holds
        <4>2. Same(new[i], list[n])
          BY <2>4, <4>1
        <4>3. new[i].severity <= list[n].severity
          <5>1. CASE i = t
            <6>1. new[t].severity \in Nat
              BY <1>0, <2>1, <2>3
            <6> QED BY <1>0, <2>1, <2>4, <4>1, <5>1, <6>1
          <5>2. CASE i # t BY <2>3, <4>1, <5>2
          <5> QED BY <5>1, <5>2
        <4> QED BY <2>3, <4>2, <4>3
      <3> QED BY <3>1, <3>2
    <2> QED BY <2>5, <2>6, <2>7 DEF Holds, new
  <1> QED BY <1>2, <1>3

\* by_fp keeps the most severe of every fingerprint and nothing else (dedup.py:138-142).
LEMMA KeptHolds ==
    ASSUME NEW list \in Seq(Entries)
    PROVE  Kept(list) \in Seq(Entries) /\ Holds(Kept(list), list, Len(list))
  <1>1. PICK acc \in [0..Len(list) -> Seq(Entries)] :
           /\ acc[0] = <<>> /\ acc[Len(list)] = Kept(list)
           /\ \A i \in 1..Len(list) : acc[i] = KeepOne(acc[i - 1], list[i])
    BY KeptUnrolls
  <1> DEFINE Good == {k \in Nat : k <= Len(list) => Holds(acc[k], list, k)}
  <1>2. 0 \in Good
    BY <1>1 DEF Holds
  <1>3. ASSUME NEW k \in Nat, k \in Good PROVE k + 1 \in Good
    <2> SUFFICES ASSUME k + 1 <= Len(list) PROVE Holds(acc[k + 1], list, k + 1)
      OBVIOUS
    <2>1. (k + 1) - 1 = k /\ k + 1 \in 1..Len(list) /\ k \in 0..Len(list)
      OBVIOUS
    <2>2. Holds(acc[(k + 1) - 1], list, (k + 1) - 1) /\ acc[(k + 1) - 1] \in Seq(Entries)
      BY <1>3, <2>1
    <2>3. acc[k + 1] = KeepOne(acc[(k + 1) - 1], list[k + 1])
      BY <1>1, <2>1
    <2> QED BY <2>1, <2>2, <2>3, KeepOneHolds
  <1>4. \A k \in Nat : k \in Good
    <2> HIDE DEF Good
    <2> QED BY <1>2, <1>3, NumberInduction
  <1>5. Len(list) \in Nat /\ Len(list) \in 0..Len(list)
    OBVIOUS
  <1> QED BY <1>1, <1>4, <1>5

-----------------------------------------------------------------------------
(* The merge.                                                              *)

\* No two findings of a list have one fingerprint.
Apart(list) == \A i, j \in DOMAIN list : Same(list[i], list[j]) => i = j

\* rest has what is not the AI's among the first k of a list.
IsRest(rest, list, k) ==
    /\ \A i \in DOMAIN rest : \E n \in 1..k : rest[i] = list[n] /\ ~IsAi(list[n])
    /\ \A n \in 1..k : ~IsAi(list[n]) => \E i \in DOMAIN rest : rest[i] = list[n]
    /\ Apart(rest)

LEMMA NotAiKeeps ==
    ASSUME NEW list \in Seq(Entries), Apart(list), NEW k \in 1..Len(list),
           NEW rest \in Seq(Entries), IsRest(rest, list, k - 1)
    PROVE  IsRest(NotAi(rest, list[k]), list, k)
  <1>0. 1..k = 1..(k - 1) \cup {k} /\ k \in DOMAIN list /\ 1..(k - 1) \subseteq DOMAIN list
        /\ k \notin 1..(k - 1)
    OBVIOUS
  <1>1. CASE IsAi(list[k])
    BY <1>0, <1>1 DEF NotAi, IsRest
  <1>2. CASE ~IsAi(list[k])
    <2> DEFINE new == NotAi(rest, list[k])
    <2>1. /\ DOMAIN new = DOMAIN rest \cup {Len(rest) + 1} /\ new[Len(rest) + 1] = list[k]
          /\ \A i \in DOMAIN rest : new[i] = rest[i]
      BY <1>2 DEF NotAi
    <2>2. \A i \in DOMAIN rest : ~Same(rest[i], list[k]) /\ ~Same(list[k], rest[i])
      <3> SUFFICES ASSUME NEW i \in DOMAIN rest PROVE ~Same(rest[i], list[k]) /\ ~Same(list[k], rest[i])
        OBVIOUS
      <3>1. PICK n \in 1..(k - 1) : rest[i] = list[n]
        BY DEF IsRest
      <3>2. n \in DOMAIN list /\ k \in DOMAIN list /\ n # k
        BY <1>0
      <3>3. ~Same(list[n], list[k]) /\ ~Same(list[k], list[n])
        BY <3>2 DEF Apart
      <3> QED BY <3>1, <3>3
    <2> HIDE DEF new
    <2>3. Apart(new)
      BY <2>1, <2>2 DEF Apart, IsRest
    <2>4. \A i \in DOMAIN new : \E n \in 1..k : new[i] = list[n] /\ ~IsAi(list[n])
      <3>1. \A i \in DOMAIN rest : \E n \in 1..k : rest[i] = list[n] /\ ~IsAi(list[n])
        BY <1>0 DEF IsRest
      <3>2. k \in 1..k
        BY <1>0
      <3> QED BY <1>2, <2>1, <3>1, <3>2
    <2>5. \A n \in 1..k : ~IsAi(list[n]) => \E i \in DOMAIN new : new[i] = list[n]
      BY <1>0, <2>1 DEF IsRest
    <2> QED BY <2>3, <2>4, <2>5 DEF IsRest, new
  <1> QED BY <1>1, <1>2

LEMMA RestHolds ==
    ASSUME NEW list \in Seq(Entries), Apart(list)
    PROVE  /\ FoldLeft(NotAi, <<>>, list) \in Seq(Entries)
           /\ IsRest(FoldLeft(NotAi, <<>>, list), list, Len(list))
  <1>1. PICK acc \in [0..Len(list) -> Seq(Entries)] :
           /\ acc[0] = <<>> /\ acc[Len(list)] = FoldLeft(NotAi, <<>>, list)
           /\ \A i \in 1..Len(list) : acc[i] = NotAi(acc[i - 1], list[i])
    BY RestUnrolls
  <1> DEFINE Good == {k \in Nat : k <= Len(list) => IsRest(acc[k], list, k)}
  <1>2. 0 \in Good
    BY <1>1 DEF IsRest, Apart
  <1>3. ASSUME NEW k \in Nat, k \in Good PROVE k + 1 \in Good
    <2> SUFFICES ASSUME k + 1 <= Len(list) PROVE IsRest(acc[k + 1], list, k + 1)
      OBVIOUS
    <2>1. (k + 1) - 1 = k /\ k + 1 \in 1..Len(list) /\ k \in 0..Len(list)
      OBVIOUS
    <2>2. IsRest(acc[(k + 1) - 1], list, (k + 1) - 1) /\ acc[(k + 1) - 1] \in Seq(Entries)
      BY <1>3, <2>1
    <2>3. acc[k + 1] = NotAi(acc[(k + 1) - 1], list[k + 1])
      BY <1>1, <2>1
    <2> QED BY <2>1, <2>2, <2>3, NotAiKeeps
  <1>4. \A k \in Nat : k \in Good
    <2> HIDE DEF Good
    <2> QED BY <1>2, <1>3, NumberInduction
  <1>5. Len(list) \in Nat /\ Len(list) \in 0..Len(list)
    OBVIOUS
  <1> QED BY <1>1, <1>4, <1>5

\* Two findings that differ in what a merge changes only.
Alike(f, g) ==
    /\ f.id = g.id /\ f.tool = g.tool /\ f.rule = g.rule /\ f.file = g.file
    /\ f.start = g.start /\ f.end = g.end /\ f.severity = g.severity /\ f.category = g.category
    /\ IsAi(f) <=> IsAi(g)

LEMMA AlikeIsSame ==
    ASSUME NEW f, NEW g, Alike(f, g)
    PROVE  Fingerprint(f, Text) = Fingerprint(g, Text)
  BY DEF Alike, Fingerprint

\* What counts for a merge stays as it was.
LEMMA AlikeMerges ==
    ASSUME NEW f \in Entries, NEW g \in Entries, Alike(f, g), NEW ai \in Entries
    PROVE  /\ Mergeable(ai, f) <=> Mergeable(ai, g)
           /\ Gap(ai, f) = Gap(ai, g) /\ f.category = g.category
  BY DEF Alike, Mergeable, Gap, IsAi, Entries

\* Of several that match, the one that is left is closer than any other.
LEMMA TargetIsClosest ==
    ASSUME NEW list \in Seq(Entries), NEW ai \in Entries, MergeTarget(ai, list) # {}
    PROVE  \E t \in DOMAIN list :
              /\ MergeTarget(ai, list) = {t} /\ Mergeable(ai, list[t])
              /\ \A q \in DOMAIN list \ {t} : Mergeable(ai, list[q]) => Closer(ai, list[t], list[q])
  <1> DEFINE matches == {i \in DOMAIN list : Mergeable(ai, list[i])}
             best == {i \in matches : \A j \in matches : ~Closer(ai, list[j], list[i])}
  <1>1. MergeTarget(ai, list) = best /\ Cardinality(best) = 1
    BY DEF MergeTarget
  <1>2. PICK t \in best : best = {t}
    <2>1. IsFiniteSet(best)
      <3>1. IsFiniteSet(1..Len(list)) /\ best \subseteq 1..Len(list)
        BY FirstNumbers
      <3> HIDE DEF best
      <3> QED BY <3>1, FS_Subset
    <2> HIDE DEF best
    <2>2. \E x : best = {x}
      BY <1>1, <2>1, FS_Singleton
    <2> QED BY <2>2
  <1>3. ASSUME NEW q \in matches, q # t PROVE Closer(ai, list[t], list[q])
    <2> SUFFICES ASSUME ~Closer(ai, list[t], list[q]) PROVE FALSE
      OBVIOUS
    <2>1. \A i \in matches : Gap(ai, list[i]) \in Int
      <3>1. \A f \in Entries : f.start \in Int /\ f.end \in Int
        BY DEF Entries
      <3>2. \A f \in Entries : Gap(ai, f) \in Int
        BY <3>1 DEF Gap
      <3> QED BY <3>2
    <2>2. q \notin best /\ t \in matches
      <3>1. best \subseteq matches
        OBVIOUS
      <3> HIDE DEF best, matches
      <3> QED BY <1>2, <1>3, <3>1
    <2>3. PICK j \in matches : Closer(ai, list[j], list[q])
      BY <2>2
    <2>4. ~Closer(ai, list[q], list[t]) /\ ~Closer(ai, list[j], list[t])
      BY <1>2, <1>3
    <2>5. q \in matches
      BY <1>3
    <2> DEFINE gap(i) == Gap(ai, list[i])
               own(i) == list[i].category = ai.category
    <2>6. \A i, l \in matches : Closer(ai, list[i], list[l]) <=>
             (gap(i) < gap(l) \/ (gap(i) = gap(l) /\ own(i) /\ ~own(l)))
      BY DEF Closer
    <2>7. gap(t) \in Int /\ gap(q) \in Int /\ gap(j) \in Int
      BY <2>1, <2>2, <2>5
    <2> HIDE DEF matches, best, gap, own
    <2> QED BY <1>3, <2>2, <2>3, <2>4, <2>5, <2>6, <2>7
  <1> QED BY <1>1, <1>2, <1>3

\* list is merged from the findings of all, the first k of kept among them.
Merges(list, kept, all, k) ==
    /\ \A p \in DOMAIN list : list[p].id \in DOMAIN all /\ Alike(list[p], all[list[p].id])
    /\ Apart(list)
    /\ \A p \in DOMAIN list : \E m \in DOMAIN kept :
          list[p].id = kept[m].id /\ (IsAi(kept[m]) => m <= k)
    /\ \A m \in DOMAIN kept : (IsAi(kept[m]) => m <= k) => \E p \in DOMAIN list :
          \/ list[p].id = kept[m].id
          \/ IsAi(kept[m]) /\ kept[m].id \in list[p].notes /\ list[p].file = kept[m].file
    /\ \A p \in DOMAIN list : \A n \in list[p].notes :
          /\ n \in DOMAIN all /\ Mergeable(all[n], list[p])
          /\ \A q \in DOMAIN list \ {p} :
                Mergeable(all[n], list[q]) => Closer(all[n], list[p], list[q])

\* What is kept of all are findings of it, as they came.
Picked(kept, all) ==
    /\ kept \in Seq(Entries) /\ Apart(kept) /\ all \in Seq(Entries) /\ AsFound(all)
    /\ \A m \in DOMAIN kept : kept[m].id \in DOMAIN all /\ kept[m] = all[kept[m].id]

\* No finding of a list of merged ones is a twin of a candidate still to come.
LEMMA NextIsApart ==
    ASSUME NEW kept, NEW all, Picked(kept, all), NEW k \in 1..Len(kept), IsAi(kept[k]),
           NEW list \in Seq(Entries), Merges(list, kept, all, k - 1), NEW p \in DOMAIN list
    PROVE  ~Same(list[p], kept[k]) /\ ~Same(kept[k], list[p])
  <1>1. PICK m \in DOMAIN kept : list[p].id = kept[m].id /\ (IsAi(kept[m]) => m <= k - 1)
    BY DEF Merges
  <1>2. Alike(list[p], kept[m])
    BY <1>1 DEF Merges, Picked
  <1>3. m # k /\ k \in DOMAIN kept
    BY <1>1 DEF Picked
  <1>4. ~Same(kept[m], kept[k]) /\ ~Same(kept[k], kept[m])
    BY <1>3 DEF Apart, Picked
  <1> QED BY <1>2, <1>4, AlikeIsSame DEF Same

\* Merging one candidate keeps the list merged (dedup.py:145-157).
LEMMA MergeOneMerges ==
    ASSUME NEW kept, NEW all, Picked(kept, all), NEW k \in 1..Len(kept),
           NEW list \in Seq(Entries), Merges(list, kept, all, k - 1)
    PROVE  Merges(MergeOne(list, kept[k]), kept, all, k)
  <1> DEFINE ai == kept[k]
             new == MergeOne(list, ai)
  <1>0. /\ Len(kept) \in Nat /\ k \in DOMAIN kept /\ k \in Nat /\ \A m \in DOMAIN kept : m \in Nat
        /\ ai \in Entries /\ ai.id \in DOMAIN all /\ ai = all[ai.id] /\ ai.notes = {}
    BY DEF Picked, AsFound
  <1>1. CASE ~IsAi(ai)
    <2>1. new = list
      BY <1>1 DEF MergeOne
    <2>2. \A m \in DOMAIN kept : (IsAi(kept[m]) => m <= k) <=> (IsAi(kept[m]) => m <= k - 1)
      BY <1>0, <1>1
    <2> HIDE DEF new, ai
    <2> QED BY <2>1, <2>2 DEF Merges, new, ai
  <1>2. CASE IsAi(ai) /\ MergeTarget(ai, list) = {}
    <2> DEFINE z == Len(list) + 1
    <2>1. /\ DOMAIN new = DOMAIN list \cup {z} /\ new[z] = ai
          /\ \A p \in DOMAIN list : new[p] = list[p]
      BY <1>2 DEF MergeOne
    <2> HIDE DEF new, ai, z
    <2>2. \A p \in DOMAIN new : new[p].id \in DOMAIN all /\ Alike(new[p], all[new[p].id])
      BY <1>0, <2>1 DEF Merges, Alike
    <2>3. Apart(new)
      <3>1. \A p \in DOMAIN list : ~Same(list[p], ai) /\ ~Same(ai, list[p])
        BY <1>2, NextIsApart DEF ai
      <3>2. Apart(list)
        BY DEF Merges
      <3> QED BY <2>1, <3>1, <3>2 DEF Apart
    <2>4. \A p \in DOMAIN new : \E m \in DOMAIN kept :
             new[p].id = kept[m].id /\ (IsAi(kept[m]) => m <= k)
      <3>1. CASE TRUE
        <4>1. \A p \in DOMAIN list : \E m \in DOMAIN kept :
                 list[p].id = kept[m].id /\ (IsAi(kept[m]) => m <= k - 1)
          BY DEF Merges
        <4>2. ai.id = kept[k].id
          BY DEF ai
        <4> QED BY <1>0, <2>1, <4>1, <4>2
      <3> QED BY <3>1
    <2>5. ASSUME NEW m \in DOMAIN kept, IsAi(kept[m]) => m <= k
          PROVE  \E p \in DOMAIN new :
                    \/ new[p].id = kept[m].id
                    \/ IsAi(kept[m]) /\ kept[m].id \in new[p].notes /\ new[p].file = kept[m].file
      <3>1. CASE m = k
        BY <2>1, <3>1 DEF ai
      <3>2. CASE m # k
        <4>1. IsAi(kept[m]) => m <= k - 1
          BY <1>0, <2>5, <3>2
        <4>2. PICK p \in DOMAIN list :
                    \/ list[p].id = kept[m].id
                    \/ IsAi(kept[m]) /\ kept[m].id \in list[p].notes /\ list[p].file = kept[m].file
          BY <4>1 DEF Merges
        <4> QED BY <2>1, <4>2
      <3> QED BY <3>1, <3>2
    <2>6. \A n : ~Mergeable(all[n], ai)
      BY <1>2 DEF Mergeable, IsAi
    <2>7. ASSUME NEW p \in DOMAIN new, NEW n \in new[p].notes
          PROVE  /\ n \in DOMAIN all /\ Mergeable(all[n], new[p])
                 /\ \A q \in DOMAIN new \ {p} :
                       Mergeable(all[n], new[q]) => Closer(all[n], new[p], new[q])
      <3>1. p \in DOMAIN list /\ new[p] = list[p]
        BY <1>0, <2>1, <2>7
      <3>2. /\ n \in DOMAIN all /\ Mergeable(all[n], list[p])
            /\ \A q \in DOMAIN list \ {p} :
                  Mergeable(all[n], list[q]) => Closer(all[n], list[p], list[q])
        BY <2>7, <3>1 DEF Merges
      <3> QED BY <2>1, <2>6, <3>1, <3>2
    <2> QED BY <2>2, <2>3, <2>4, <2>5, <2>7 DEF Merges, new, ai
  <1>3. CASE IsAi(ai) /\ MergeTarget(ai, list) # {}
    <2>1. PICK t \in DOMAIN list :
             /\ MergeTarget(ai, list) = {t} /\ Mergeable(ai, list[t])
             /\ \A q \in DOMAIN list \ {t} : Mergeable(ai, list[q]) => Closer(ai, list[t], list[q])
      BY <1>0, <1>3, TargetIsClosest
    <2> DEFINE c == IF ai.confidence < list[t].confidence THEN ai.confidence ELSE list[t].confidence
    <2>2. /\ DOMAIN new = DOMAIN list /\ \A p \in DOMAIN list \ {t} : new[p] = list[p]
          /\ new[t] = [list[t] EXCEPT !.source = "hybrid", !.notes = list[t].notes \cup {ai.id},
                                      !.confidence = c]
      BY <1>3, <2>1 DEF MergeOne
    <2> HIDE DEF new, ai, c
    <2>3. list[t] \in Entries /\ ~IsAi(list[t])
      BY <2>1 DEF Mergeable, IsAi
    <2>4. Alike(new[t], list[t]) /\ new[t].notes = list[t].notes \cup {ai.id}
      BY <2>2, <2>3 DEF Entries, Alike, IsAi
    <2>5. \A p \in DOMAIN list : Alike(new[p], list[p])
      BY <2>2, <2>4 DEF Alike
    <2>6. new \in Seq(Entries)
      BY <1>0, MergeOneTyped DEF new
    <2>7. ASSUME NEW n \in DOMAIN all, NEW p \in DOMAIN list, NEW q \in DOMAIN list
          PROVE  /\ Mergeable(all[n], new[p]) <=> Mergeable(all[n], list[p])
                 /\ Closer(all[n], new[p], new[q]) <=> Closer(all[n], list[p], list[q])
      <3>1. /\ all[n] \in Entries /\ new[p] \in Entries /\ new[q] \in Entries
            /\ list[p] \in Entries /\ list[q] \in Entries
        BY <2>2, <2>6 DEF Picked
      <3>2. Alike(new[p], list[p]) /\ Alike(new[q], list[q])
        BY <2>5
      <3> QED BY <3>1, <3>2, AlikeMerges DEF Closer
    <2>8. \A p \in DOMAIN new : new[p].id \in DOMAIN all /\ Alike(new[p], all[new[p].id])
      <3> SUFFICES ASSUME NEW p \in DOMAIN list
                   PROVE  new[p].id \in DOMAIN all /\ Alike(new[p], all[new[p].id])
        BY <2>2
      <3>1. list[p].id \in DOMAIN all /\ Alike(list[p], all[list[p].id])
        BY DEF Merges
      <3>2. Alike(new[p], list[p]) /\ new[p].id = list[p].id
        BY <2>5 DEF Alike
      <3> QED BY <3>1, <3>2 DEF Alike
    <2>9. Apart(new)
      <3>1. \A p \in DOMAIN list : Fingerprint(new[p], Text) = Fingerprint(list[p], Text)
        BY <2>5, AlikeIsSame
      <3> QED BY <2>2, <3>1 DEF Apart, Same, Merges
    <2>10. \A p \in DOMAIN new : \E m \in DOMAIN kept :
              new[p].id = kept[m].id /\ (IsAi(kept[m]) => m <= k)
      <3>1. \A p \in DOMAIN list : \E m \in DOMAIN kept :
               list[p].id = kept[m].id /\ (IsAi(kept[m]) => m <= k - 1)
        BY DEF Merges
      <3>2. \A p \in DOMAIN list : new[p].id = list[p].id
        BY <2>5 DEF Alike
      <3> QED BY <1>0, <2>2, <3>1, <3>2
    <2>11. ASSUME NEW m \in DOMAIN kept, IsAi(kept[m]) => m <= k
           PROVE  \E p \in DOMAIN new :
                     \/ new[p].id = kept[m].id
                     \/ IsAi(kept[m]) /\ kept[m].id \in new[p].notes /\ new[p].file = kept[m].file
      <3>1. CASE m = k
        <4>1. new[t].file = ai.file
          BY <2>1, <2>5 DEF Mergeable, Alike
        <4> QED BY <1>3, <2>2, <2>4, <3>1, <4>1 DEF ai
      <3>2. CASE m # k
        <4>1. IsAi(kept[m]) => m <= k - 1
          BY <1>0, <2>11, <3>2
        <4>2. PICK p \in DOMAIN list :
                    \/ list[p].id = kept[m].id
                    \/ IsAi(kept[m]) /\ kept[m].id \in list[p].notes /\ list[p].file = kept[m].file
          BY <4>1 DEF Merges
        <4>3. list[p].notes \subseteq new[p].notes /\ new[p].id = list[p].id /\ new[p].file = list[p].file
          BY <2>2, <2>4, <2>5 DEF Alike
        <4> QED BY <2>2, <4>2, <4>3
      <3> QED BY <3>1, <3>2
    <2>12. ASSUME NEW p \in DOMAIN new, NEW n \in new[p].notes
           PROVE  /\ n \in DOMAIN all /\ Mergeable(all[n], list[p])
                  /\ \A q \in DOMAIN list \ {p} :
                        Mergeable(all[n], list[q]) => Closer(all[n], list[p], list[q])
      <3>1. CASE n \in list[p].notes
        BY <2>2, <3>1 DEF Merges
      <3>2. CASE n \notin list[p].notes
        <4>1. p = t /\ n = ai.id
          BY <2>2, <2>4, <2>12, <3>2
        <4>2. all[n] = ai /\ n \in DOMAIN all
          BY <1>0, <4>1
        <4> QED BY <2>1, <4>1, <4>2
      <3> QED BY <3>1, <3>2
    <2>13. ASSUME NEW p \in DOMAIN new, NEW n \in new[p].notes
           PROVE  /\ n \in DOMAIN all /\ Mergeable(all[n], new[p])
                  /\ \A q \in DOMAIN new \ {p} :
                        Mergeable(all[n], new[q]) => Closer(all[n], new[p], new[q])
      BY <2>2, <2>7, <2>12, <2>13
    <2> QED BY <2>8, <2>9, <2>10, <2>11, <2>13 DEF Merges, new, ai
  <1> QED BY <1>1, <1>2, <1>3

\* merged is merged from all the findings that were kept (dedup.py:144-157).
LEMMA MergedMerges ==
    ASSUME NEW all \in Seq(Entries), AsFound(all)
    PROVE  /\ Picked(Kept(all), all) /\ Holds(Kept(all), all, Len(all))
           /\ Merged(all) \in Seq(Entries)
           /\ Merges(Merged(all), Kept(all), all, Len(Kept(all)))
  <1> DEFINE kept == Kept(all)
             rest == FoldLeft(NotAi, <<>>, kept)
  <1>1. kept \in Seq(Entries) /\ Holds(kept, all, Len(all))
    BY KeptHolds
  <1>2. Picked(kept, all)
    <2>1. Apart(kept)
      BY <1>1 DEF Holds, Apart
    <2>2. ASSUME NEW m \in DOMAIN kept
          PROVE  kept[m].id \in DOMAIN all /\ kept[m] = all[kept[m].id]
      <3>1. PICK n \in 1..Len(all) : kept[m] = all[n]
        BY <1>1 DEF Holds
      <3>2. n \in DOMAIN all
        OBVIOUS
      <3>3. kept[m].id = n
        BY <3>1, <3>2 DEF AsFound
      <3> QED BY <3>1, <3>2, <3>3
    <2> QED BY <1>1, <2>1, <2>2 DEF Picked
  <1> HIDE DEF kept
  <1>3. rest \in Seq(Entries) /\ IsRest(rest, kept, Len(kept))
    BY <1>2, RestHolds DEF Picked
  <1>4. Merged(all) = FoldLeft(MergeOne, rest, kept)
    BY DEF Merged, kept
  <1> HIDE DEF rest
  <1>5. PICK acc \in [0..Len(kept) -> Seq(Entries)] :
           /\ acc[0] = rest /\ acc[Len(kept)] = FoldLeft(MergeOne, rest, kept)
           /\ \A i \in 1..Len(kept) : acc[i] = MergeOne(acc[i - 1], kept[i])
    BY <1>1, <1>3, MergeUnrolls
  <1>6. Merges(rest, kept, all, 0)
    <2>1. /\ Len(kept) \in Nat /\ DOMAIN kept = 1..Len(kept)
          /\ \A m \in DOMAIN kept : m \in Nat /\ ~(m <= 0)
      BY <1>1
    <2>2. ASSUME NEW p \in DOMAIN rest
          PROVE  \E m \in DOMAIN kept : rest[p] = kept[m] /\ ~IsAi(kept[m])
      BY <1>3, <2>1 DEF IsRest
    <2>3. ASSUME NEW p \in DOMAIN rest
          PROVE  /\ rest[p].id \in DOMAIN all /\ Alike(rest[p], all[rest[p].id]) /\ rest[p].notes = {}
      <3>1. PICK m \in DOMAIN kept : rest[p] = kept[m] /\ ~IsAi(kept[m])
        BY <2>2
      <3>2. kept[m].id \in DOMAIN all /\ kept[m] = all[kept[m].id]
        BY <1>2 DEF Picked
      <3>3. all[kept[m].id].notes = {}
        BY <3>2 DEF AsFound
      <3> QED BY <3>1, <3>2, <3>3 DEF Alike
    <2>4. Apart(rest)
      BY <1>3 DEF IsRest
    <2>5. \A p \in DOMAIN rest : \E m \in DOMAIN kept :
             rest[p].id = kept[m].id /\ (IsAi(kept[m]) => m <= 0)
      BY <2>2
    <2>6. \A m \in DOMAIN kept : (IsAi(kept[m]) => m <= 0) => \E p \in DOMAIN rest :
             rest[p].id = kept[m].id
      BY <1>3, <2>1 DEF IsRest
    <2> QED BY <2>3, <2>4, <2>5, <2>6 DEF Merges
  <1> DEFINE Good == {k \in Nat : k <= Len(kept) => Merges(acc[k], kept, all, k)}
  <1>7. 0 \in Good
    BY <1>5, <1>6
  <1>8. ASSUME NEW k \in Nat, k \in Good PROVE k + 1 \in Good
    <2> SUFFICES ASSUME k + 1 <= Len(kept) PROVE Merges(acc[k + 1], kept, all, k + 1)
      OBVIOUS
    <2>1. Len(kept) \in Nat
      BY <1>1
    <2>2. (k + 1) - 1 = k /\ k + 1 \in 1..Len(kept) /\ k \in 0..Len(kept)
      BY <2>1
    <2>3. Merges(acc[(k + 1) - 1], kept, all, (k + 1) - 1) /\ acc[(k + 1) - 1] \in Seq(Entries)
      BY <1>8, <2>1, <2>2
    <2>4. acc[k + 1] = MergeOne(acc[(k + 1) - 1], kept[k + 1])
      BY <1>5, <2>2
    <2> QED BY <1>2, <2>2, <2>3, <2>4, MergeOneMerges
  <1>9. \A k \in Nat : k \in Good
    <2> HIDE DEF Good
    <2> QED BY <1>7, <1>8, NumberInduction
  <1>10. Len(kept) \in Nat /\ Len(kept) \in 0..Len(kept)
    BY <1>1
  <1> QED BY <1>1, <1>2, <1>4, <1>5, <1>9, <1>10 DEF kept

\* Every finding is in the merged list, or a twin as severe as it, or a note of one.
LEMMA MergedStands ==
    ASSUME NEW all \in Seq(Entries), AsFound(all), NEW i \in DOMAIN all
    PROVE  \E p \in DOMAIN Merged(all) : \E n \in DOMAIN all :
              /\ Same(all[n], all[i]) /\ all[n].severity <= all[i].severity
              /\ \/ Merged(all)[p].id = n
                 \/ IsAi(all[n]) /\ n \in Merged(all)[p].notes /\ Merged(all)[p].file = all[i].file
  <1> DEFINE kept == Kept(all)
  <1>1. Picked(kept, all) /\ Holds(kept, all, Len(all)) /\ Merges(Merged(all), kept, all, Len(kept))
    BY MergedMerges
  <1> HIDE DEF kept
  <1>2. PICK m \in DOMAIN kept : Same(kept[m], all[i]) /\ kept[m].severity <= all[i].severity
    <2>1. i \in 1..Len(all)
      OBVIOUS
    <2> QED BY <1>1, <2>1 DEF Holds
  <1> DEFINE n == kept[m].id
  <1>3. n \in DOMAIN all /\ kept[m] = all[n] /\ m <= Len(kept)
    BY <1>1 DEF Picked
  <1> HIDE DEF n
  <1>4. PICK p \in DOMAIN Merged(all) :
           \/ Merged(all)[p].id = kept[m].id
           \/ IsAi(kept[m]) /\ kept[m].id \in Merged(all)[p].notes /\ Merged(all)[p].file = kept[m].file
    BY <1>1, <1>3 DEF Merges
  <1>5. kept[m].file = all[i].file
    BY <1>2 DEF Same, Fingerprint
  <1> QED BY <1>2, <1>3, <1>4, <1>5 DEF n

-----------------------------------------------------------------------------
(* The sort.                                                               *)

\* before[i] holds those of the numbers up to n that come before i, in an order of all of
\* them, and rank counts them.
Orders(before, n) ==
    /\ before \in [1..n -> SUBSET (1..n)]
    /\ \A i \in 1..n : i \notin before[i]
    /\ \A i, j, k \in 1..n : i \in before[j] /\ j \in before[k] => i \in before[k]
    /\ \A i, j \in 1..n : i # j => i \in before[j] \/ j \in before[i]
IsRank(rank, before, n) == rank = [i \in 1..n |-> 1 + Cardinality(before[i])]

\* Those who are counted by how many come before them have every number once.
LEMMA RanksAreNumbers ==
    ASSUME NEW n \in Nat, NEW before, Orders(before, n), NEW rank, IsRank(rank, before, n)
    PROVE  rank \in Injection(1..n, 1..n) /\ rank \in Surjection(1..n, 1..n)
  <1>1. IsFiniteSet(1..n) /\ Cardinality(1..n) = n
    BY FirstNumbers
  <1>2. ASSUME NEW i \in 1..n
        PROVE  /\ IsFiniteSet(before[i]) /\ Cardinality(before[i]) \in Nat
               /\ Cardinality(before[i]) <= n - 1
    <2> DEFINE others == (1..n) \ {i}
    <2>1. IsFiniteSet(others) /\ Cardinality(others) = n - 1
      BY <1>1, FS_RemoveElement
    <2>2. before[i] \subseteq others
      BY DEF Orders
    <2> HIDE DEF others
    <2>3. IsFiniteSet(before[i]) /\ Cardinality(before[i]) <= Cardinality(others)
      BY <2>1, <2>2, FS_Subset
    <2> QED BY <2>1, <2>3, FS_CardinalityType
  <1>3. ASSUME NEW i \in 1..n, NEW k \in 1..n, i \in before[k]
        PROVE  Cardinality(before[i]) < Cardinality(before[k])
    <2>1. before[i] \cup {i} \subseteq before[k] /\ i \notin before[i]
      BY <1>3 DEF Orders
    <2>2. Cardinality(before[i] \cup {i}) = Cardinality(before[i]) + 1
      BY <1>2, <2>1, FS_AddElement
    <2>3. Cardinality(before[i] \cup {i}) <= Cardinality(before[k])
      BY <1>2, <2>1, FS_Subset
    <2> QED BY <1>2, <2>2, <2>3
  <1>4. rank = [i \in 1..n |-> rank[i]] /\ \A i \in 1..n : rank[i] = 1 + Cardinality(before[i])
    BY DEF IsRank
  <1>5. rank \in [1..n -> 1..n]
    <2>1. \A i \in 1..n : rank[i] \in 1..n
      BY <1>2, <1>4
    <2> QED BY <1>4, <2>1
  <1>6. \A i, k \in 1..n : i # k => rank[i] # rank[k]
    <2> SUFFICES ASSUME NEW i \in 1..n, NEW k \in 1..n, i # k PROVE rank[i] # rank[k]
      OBVIOUS
    <2>1. Cardinality(before[i]) # Cardinality(before[k])
      <3>1. CASE i \in before[k]
        BY <1>2, <1>3, <3>1
      <3>2. CASE k \in before[i]
        BY <1>2, <1>3, <3>2
      <3> QED BY <3>1, <3>2 DEF Orders
    <2> QED BY <1>2, <1>4, <2>1
  <1>7. rank \in Injection(1..n, 1..n)
    BY <1>5, <1>6 DEF Injection, IsInjective
  <1> QED BY <1>1, <1>7, FS_Injection

\* Where a finding goes, part by part.
LEMMA KeysCompare ==
    ASSUME NEW f \in Entries, NEW g \in Entries
    PROVE  LET s == f.start = 0  t == g.start = 0 IN
           /\ Below(SortKey(f), SortKey(g)) <=>
                 \/ f.severity < g.severity
                 \/ f.severity = g.severity /\ f.category < g.category
                 \/ f.severity = g.severity /\ f.category = g.category /\ f.file < g.file
                 \/ /\ f.severity = g.severity /\ f.category = g.category /\ f.file = g.file
                    /\ ~s /\ t
                 \/ /\ f.severity = g.severity /\ f.category = g.category /\ f.file = g.file
                    /\ (s <=> t) /\ f.start < g.start
           /\ SortKey(f) = SortKey(g) <=>
                 /\ f.severity = g.severity /\ f.category = g.category /\ f.file = g.file
                 /\ f.start = g.start
  <1> DEFINE a == SortKey(f)
             b == SortKey(g)
  <1>1. /\ DOMAIN a = 1..5 /\ a[1] = f.severity /\ a[2] = f.category /\ a[3] = f.file
        /\ a[4] = (IF f.start = 0 THEN 1 ELSE 0) /\ a[5] = f.start
    BY DEF SortKey
  <1>2. /\ DOMAIN b = 1..5 /\ b[1] = g.severity /\ b[2] = g.category /\ b[3] = g.file
        /\ b[4] = (IF g.start = 0 THEN 1 ELSE 0) /\ b[5] = g.start
    BY DEF SortKey
  <1>3. a = b <=> a[1] = b[1] /\ a[2] = b[2] /\ a[3] = b[3] /\ a[4] = b[4] /\ a[5] = b[5]
    BY DEF SortKey
  <1> HIDE DEF a, b
  <1>4. 1..5 = {1, 2, 3, 4, 5} /\ 1..(1 - 1) = {} /\ 1..(2 - 1) = {1} /\ 1..(3 - 1) = {1, 2}
        /\ 1..(4 - 1) = {1, 2, 3} /\ 1..(5 - 1) = {1, 2, 3, 4}
    OBVIOUS
  <1>5. Below(a, b) <=>
           \/ a[1] < b[1]
           \/ a[1] = b[1] /\ a[2] < b[2]
           \/ a[1] = b[1] /\ a[2] = b[2] /\ a[3] < b[3]
           \/ a[1] = b[1] /\ a[2] = b[2] /\ a[3] = b[3] /\ a[4] < b[4]
           \/ a[1] = b[1] /\ a[2] = b[2] /\ a[3] = b[3] /\ a[4] = b[4] /\ a[5] < b[5]
    <2> DEFINE At(k) == a[k] < b[k] /\ \A j \in 1..(k - 1) : a[j] = b[j]
    <2>1. Below(a, b) <=> \E k \in {1, 2, 3, 4, 5} : At(k)
      BY <1>1, <1>4 DEF Below
    <2>2. /\ At(1) <=> a[1] < b[1]
          /\ At(2) <=> a[2] < b[2] /\ a[1] = b[1]
          /\ At(3) <=> a[3] < b[3] /\ a[1] = b[1] /\ a[2] = b[2]
          /\ At(4) <=> a[4] < b[4] /\ a[1] = b[1] /\ a[2] = b[2] /\ a[3] = b[3]
          /\ At(5) <=> a[5] < b[5] /\ a[1] = b[1] /\ a[2] = b[2] /\ a[3] = b[3] /\ a[4] = b[4]
      BY <1>4
    <2> HIDE DEF At
    <2> QED BY <2>1, <2>2
  <1>6. f.start \in Nat /\ g.start \in Nat
    BY DEF Entries
  <1> QED BY <1>1, <1>2, <1>3, <1>5, <1>6 DEF a, b

\* t has the findings of s, each once.
Rearranges(t, s) ==
    /\ t \in Seq(Entries) /\ Len(t) = Len(s)
    /\ \A i \in DOMAIN t : \E j \in DOMAIN s : t[i] = s[j]
    /\ \A j \in DOMAIN s : \E i \in DOMAIN t : t[i] = s[j]
    /\ \A i, j \in DOMAIN t : Same(t[i], t[j]) => i = j

\* Who comes before a finding in the sort, which is stable.
Earlier(list) ==
    [i \in DOMAIN list |-> {j \in DOMAIN list :
                             \/ Below(SortKey(list[j]), SortKey(list[i]))
                             \/ SortKey(list[j]) = SortKey(list[i]) /\ j < i}]

\* Five numbers and a place, compared one after the other.
Lex(a1, b1, c1, d1, e1, i, a2, b2, c2, d2, e2, j) ==
    \/ a1 < a2
    \/ a1 = a2 /\ b1 < b2
    \/ a1 = a2 /\ b1 = b2 /\ c1 < c2
    \/ a1 = a2 /\ b1 = b2 /\ c1 = c2 /\ d1 < d2
    \/ a1 = a2 /\ b1 = b2 /\ c1 = c2 /\ d1 = d2 /\ e1 < e2
    \/ a1 = a2 /\ b1 = b2 /\ c1 = c2 /\ d1 = d2 /\ e1 = e2 /\ i < j

LEMMA LexOrders ==
    ASSUME NEW a1 \in Int, NEW b1 \in Int, NEW c1 \in Int, NEW d1 \in Int, NEW e1 \in Int, NEW i \in Int,
           NEW a2 \in Int, NEW b2 \in Int, NEW c2 \in Int, NEW d2 \in Int, NEW e2 \in Int, NEW j \in Int,
           NEW a3 \in Int, NEW b3 \in Int, NEW c3 \in Int, NEW d3 \in Int, NEW e3 \in Int, NEW k \in Int
    PROVE  /\ ~Lex(a1, b1, c1, d1, e1, i, a1, b1, c1, d1, e1, i)
           /\ i # j => \/ Lex(a1, b1, c1, d1, e1, i, a2, b2, c2, d2, e2, j)
                       \/ Lex(a2, b2, c2, d2, e2, j, a1, b1, c1, d1, e1, i)
           /\ Lex(a1, b1, c1, d1, e1, i, a2, b2, c2, d2, e2, j)
              /\ Lex(a2, b2, c2, d2, e2, j, a3, b3, c3, d3, e3, k)
              => Lex(a1, b1, c1, d1, e1, i, a3, b3, c3, d3, e3, k)
  BY DEF Lex

LEMMA KeysOrder ==
    ASSUME NEW list \in Seq(Entries)
    PROVE  Orders(Earlier(list), Len(list))
  <1> DEFINE n == Len(list)
             R == Earlier(list)
             sev(i) == list[i].severity
             cat(i) == list[i].category
             file(i) == list[i].file
             whole(i) == IF list[i].start = 0 THEN 1 ELSE 0
             line(i) == list[i].start
             Comes(i, j) == Lex(sev(i), cat(i), file(i), whole(i), line(i), i,
                                sev(j), cat(j), file(j), whole(j), line(j), j)
  <1>0. n \in Nat /\ DOMAIN list = 1..n /\ \A i \in 1..n : list[i] \in Entries
    OBVIOUS
  <1>1. ASSUME NEW i \in 1..n
        PROVE  /\ sev(i) \in Int /\ cat(i) \in Int /\ file(i) \in Int /\ line(i) \in Int /\ i \in Int
               /\ whole(i) \in Int
    <2>1. list[i] \in Entries /\ Files \subseteq Nat
      BY <1>0, ReportAssumption
    <2>2. \A f \in Entries : /\ f.severity \in Nat /\ f.category \in Nat /\ f.start \in Nat
                             /\ f.file \in Files
      BY DEF Entries
    <2>3. i \in Int
      BY <1>0
    <2>4. /\ list[i].severity \in Nat /\ list[i].category \in Nat /\ list[i].start \in Nat
          /\ list[i].file \in Nat
      <3> DEFINE f == list[i]
      <3>1. f \in Entries
        BY <2>1
      <3> HIDE DEF f
      <3>2. f.severity \in Nat /\ f.category \in Nat /\ f.start \in Nat /\ f.file \in Files
        BY <2>2, <3>1
      <3> QED BY <2>1, <3>2 DEF f
    <2> QED BY <2>3, <2>4
  <1>2. ASSUME NEW i \in 1..n, NEW j \in 1..n
        PROVE  i \in R[j] <=> Comes(i, j)
    <2>1. i \in DOMAIN list /\ j \in DOMAIN list
      BY <1>0
    <2>2. i \in R[j] <=> \/ Below(SortKey(list[i]), SortKey(list[j]))
                         \/ SortKey(list[i]) = SortKey(list[j]) /\ i < j
      BY <2>1 DEF Earlier
    <2>3. list[i] \in Entries /\ list[j] \in Entries
      BY <1>0
    <2>4. list[i].start \in Nat /\ list[j].start \in Nat
      BY <2>3 DEF Entries
    <2> HIDE DEF R, n
    <2> QED BY <2>2, <2>3, <2>4, KeysCompare DEF Lex
  <1>3. R \in [1..n -> SUBSET (1..n)]
    BY <1>0 DEF Earlier
  <1> HIDE DEF n, R, sev, cat, file, whole, line
  <1>4. ASSUME NEW i \in 1..n PROVE i \notin R[i]
    <2>1. ~Comes(i, i)
      BY <1>1, LexOrders
    <2> QED BY <1>2, <2>1
  <1>5. ASSUME NEW i \in 1..n, NEW j \in 1..n, NEW k \in 1..n, i \in R[j], j \in R[k]
        PROVE  i \in R[k]
    <2>1. Comes(i, j) /\ Comes(j, k)
      BY <1>2, <1>5
    <2>2. Comes(i, k)
      <3>1. /\ sev(i) \in Int /\ cat(i) \in Int /\ file(i) \in Int /\ line(i) \in Int
            /\ whole(i) \in Int /\ i \in Int
        BY <1>1
      <3>2. /\ sev(j) \in Int /\ cat(j) \in Int /\ file(j) \in Int /\ line(j) \in Int
            /\ whole(j) \in Int /\ j \in Int
        BY <1>1
      <3>3. /\ sev(k) \in Int /\ cat(k) \in Int /\ file(k) \in Int /\ line(k) \in Int
            /\ whole(k) \in Int /\ k \in Int
        BY <1>1
      <3> QED BY <2>1, <3>1, <3>2, <3>3, LexOrders
    <2> QED BY <1>2, <2>2
  <1>6. ASSUME NEW i \in 1..n, NEW j \in 1..n, i # j PROVE i \in R[j] \/ j \in R[i]
    <2>1. Comes(i, j) \/ Comes(j, i)
      <3>1. /\ sev(i) \in Int /\ cat(i) \in Int /\ file(i) \in Int /\ line(i) \in Int
            /\ whole(i) \in Int /\ i \in Int
        BY <1>1
      <3>2. /\ sev(j) \in Int /\ cat(j) \in Int /\ file(j) \in Int /\ line(j) \in Int
            /\ whole(j) \in Int /\ j \in Int
        BY <1>1
      <3> QED BY <1>6, <3>1, <3>2, LexOrders
    <2> QED BY <1>2, <2>1
  <1> QED BY <1>3, <1>4, <1>5, <1>6 DEF Orders, n, R

\* merged.sort neither adds nor loses a finding (dedup.py:159).
LEMMA SortedRearranges ==
    ASSUME NEW list \in Seq(Entries), Apart(list)
    PROVE  Rearranges(Sorted(list), list)
  <1> DEFINE n == Len(list)
             R == Earlier(list)
             rank == [i \in 1..n |-> 1 + Cardinality(R[i])]
             at == [k \in 1..n |-> CHOOSE i \in 1..n : rank[i] = k]
  <1>1. n \in Nat /\ DOMAIN list = 1..n /\ \A i \in 1..n : list[i] \in Entries
    OBVIOUS
  <1>2. rank \in Injection(1..n, 1..n) /\ rank \in Surjection(1..n, 1..n)
    <2>1. Orders(R, n)
      BY KeysOrder
    <2>2. IsRank(rank, R, n)
      BY DEF IsRank
    <2> HIDE DEF rank, R, n
    <2> QED BY <1>1, <2>1, <2>2, RanksAreNumbers
  <1>3. Sorted(list) = [k \in 1..n |-> list[at[k]]]
    <2> DEFINE Place(i) == 1 + Cardinality({j \in DOMAIN list :
                             \/ Below(SortKey(list[j]), SortKey(list[i]))
                             \/ SortKey(list[j]) = SortKey(list[i]) /\ j < i})
    <2>1. Sorted(list) = [k \in 1..n |-> list[CHOOSE i \in 1..n : Place(i) = k]]
      BY <1>1 DEF Sorted
    <2>2. \A i \in 1..n : Place(i) = rank[i]
      BY <1>1 DEF Earlier
    <2> HIDE DEF Place, rank
    <2>3. \A k \in 1..n : (CHOOSE i \in 1..n : Place(i) = k) = (CHOOSE i \in 1..n : rank[i] = k)
      BY <2>2
    <2> QED BY <2>1, <2>3
  <1> HIDE DEF R, rank, n
  <1>4. \A k \in 1..n : at[k] \in 1..n /\ rank[at[k]] = k
    BY <1>2 DEF Surjection
  <1>5. \A i \in 1..n : rank[i] \in 1..n /\ at[rank[i]] = i
    BY <1>2, <1>4 DEF Injection, IsInjective
  <1> HIDE DEF at
  <1>6. Sorted(list) \in Seq(Entries) /\ Len(Sorted(list)) = n /\ DOMAIN Sorted(list) = 1..n
    BY <1>1, <1>3, <1>4
  <1>7. \A k \in 1..n : Sorted(list)[k] = list[at[k]]
    BY <1>3
  <1>8. ASSUME NEW i \in 1..n, NEW j \in 1..n, Same(Sorted(list)[i], Sorted(list)[j])
        PROVE  i = j
    <2>1. at[i] \in DOMAIN list /\ at[j] \in DOMAIN list
      BY <1>1, <1>4
    <2>2. Same(list[at[i]], list[at[j]])
      BY <1>7, <1>8
    <2>3. at[i] = at[j]
      BY <2>1, <2>2 DEF Apart
    <2> QED BY <1>4, <2>3
  <1> DEFINE t == Sorted(list)
  <1>9. \A i \in 1..n : \E j \in 1..n : t[i] = list[j]
    BY <1>4, <1>7
  <1>10. \A j \in 1..n : \E i \in 1..n : t[i] = list[j]
    <2> SUFFICES ASSUME NEW j \in 1..n PROVE \E i \in 1..n : t[i] = list[j]
      OBVIOUS
    <2>1. rank[j] \in 1..n /\ t[rank[j]] = list[j]
      BY <1>5, <1>7
    <2> QED BY <2>1
  <1>11. Len(list) = n
    BY DEF n
  <1> HIDE DEF t
  <1> QED BY <1>1, <1>6, <1>8, <1>9, <1>10, <1>11 DEF Rearranges, t

-----------------------------------------------------------------------------
(* The caps.                                                               *)

\* t has some of the findings of s, each once.
Within(t, s) ==
    /\ t \in Seq(Entries) /\ s \in Seq(Entries)
    /\ \A i \in DOMAIN t : \E j \in DOMAIN s : t[i] = s[j]
    /\ \A i, j \in DOMAIN t : t[i] = t[j] => i = j

\* The findings that count against a cap are places of a list.
LEMMA CapsCount ==
    ASSUME NEW list \in Seq(Entries), NEW f
    PROVE  /\ IsFiniteSet(OfRule(list, f)) /\ Cardinality(OfRule(list, f)) \in Nat
           /\ IsFiniteSet(OfFile(list, f)) /\ Cardinality(OfFile(list, f)) \in Nat
  <1>1. IsFiniteSet(1..Len(list))
    BY FirstNumbers
  <1>2. OfRule(list, f) \in SUBSET (1..Len(list)) /\ OfFile(list, f) \in SUBSET (1..Len(list))
    BY DEF OfRule, OfFile
  <1>3. IsFiniteSet(OfRule(list, f)) /\ IsFiniteSet(OfFile(list, f))
    BY <1>1, <1>2, FS_Subset
  <1> QED BY <1>3, FS_CardinalityType

\* Some of the findings count for no more than all of them.
LEMMA CapsWithin ==
    ASSUME NEW t, NEW s, Within(t, s), NEW f
    PROVE  /\ Cardinality(OfRule(t, f)) <= Cardinality(OfRule(s, f))
           /\ Cardinality(OfFile(t, f)) <= Cardinality(OfFile(s, f))
  <1> DEFINE at == [i \in DOMAIN t |-> CHOOSE j \in DOMAIN s : t[i] = s[j]]
  <1>1. \A i \in DOMAIN t : at[i] \in DOMAIN s /\ t[i] = s[at[i]]
    BY DEF Within
  <1> HIDE DEF at
  <1>2. \A i, j \in DOMAIN t : at[i] = at[j] => i = j
    BY <1>1 DEF Within
  <1>3. IsFiniteSet(OfRule(s, f)) /\ IsFiniteSet(OfFile(s, f))
    BY CapsCount DEF Within
  <1>4. ASSUME NEW A \in SUBSET DOMAIN t, NEW B, IsFiniteSet(B), \A i \in A : at[i] \in B
        PROVE  Cardinality(A) <= Cardinality(B)
    <2> DEFINE g == [i \in A |-> at[i]]
    <2>1. g \in [A -> B]
      BY <1>4
    <2>2. \A i, j \in A : g[i] = g[j] => i = j
      BY <1>2
    <2> HIDE DEF g
    <2>3. g \in Injection(A, B)
      BY <2>1, <2>2 DEF Injection, IsInjective
    <2> QED BY <1>4, <2>3, FS_Injection
  <1>5. OfRule(t, f) \in SUBSET DOMAIN t /\ \A i \in OfRule(t, f) : at[i] \in OfRule(s, f)
    BY <1>1 DEF OfRule
  <1>6. OfFile(t, f) \in SUBSET DOMAIN t /\ \A i \in OfFile(t, f) : at[i] \in OfFile(s, f)
    BY <1>1 DEF OfFile
  <1> QED BY <1>3, <1>4, <1>5, <1>6

\* One finding more is one more against its own caps.
LEMMA CapsGrow ==
    ASSUME NEW list \in Seq(Entries), NEW f \in Entries, NEW g
    PROVE  LET new == Append(list, f) IN
           /\ Cardinality(OfRule(new, g)) = Cardinality(OfRule(list, g)) +
                 IF Deterministic(f) /\ f.tool = g.tool /\ f.rule = g.rule THEN 1 ELSE 0
           /\ Cardinality(OfFile(new, g)) = Cardinality(OfFile(list, g)) +
                 IF Deterministic(f) /\ f.file = g.file THEN 1 ELSE 0
  <1> DEFINE new == Append(list, f)
             last == Len(list) + 1
  <1>1. /\ DOMAIN new = DOMAIN list \cup {last} /\ last \notin DOMAIN list /\ new[last] = f
        /\ \A i \in DOMAIN list : new[i] = list[i]
    OBVIOUS
  <1>2. /\ IsFiniteSet(OfRule(list, g)) /\ Cardinality(OfRule(list, g)) \in Nat
        /\ IsFiniteSet(OfFile(list, g)) /\ Cardinality(OfFile(list, g)) \in Nat
    BY CapsCount
  <1> HIDE DEF new, last
  <1>3. /\ OfRule(new, g) = OfRule(list, g) \cup
              (IF Deterministic(f) /\ f.tool = g.tool /\ f.rule = g.rule THEN {last} ELSE {})
        /\ last \notin OfRule(list, g)
    BY <1>1 DEF OfRule
  <1>4. /\ OfFile(new, g) = OfFile(list, g) \cup
              (IF Deterministic(f) /\ f.file = g.file THEN {last} ELSE {})
        /\ last \notin OfFile(list, g)
    BY <1>1 DEF OfFile
  <1>5. ASSUME NEW A, IsFiniteSet(A), Cardinality(A) \in Nat, last \notin A, NEW more \in BOOLEAN
        PROVE  Cardinality(A \cup (IF more THEN {last} ELSE {})) =
                  Cardinality(A) + IF more THEN 1 ELSE 0
    <2>1. CASE more
      <3>1. Cardinality(A \cup {last}) = Cardinality(A) + 1
        BY <1>5, FS_AddElement
      <3> QED BY <2>1, <3>1
    <2>2. CASE ~more
      <3>1. A \cup (IF more THEN {last} ELSE {}) = A
        BY <2>2
      <3> QED BY <1>5, <2>2, <3>1
    <2> QED BY <2>1, <2>2
  <1>6. Cardinality(OfRule(new, g)) = Cardinality(OfRule(list, g)) +
           IF Deterministic(f) /\ f.tool = g.tool /\ f.rule = g.rule THEN 1 ELSE 0
    BY <1>2, <1>3, <1>5
  <1>7. Cardinality(OfFile(new, g)) = Cardinality(OfFile(list, g)) +
           IF Deterministic(f) /\ f.file = g.file THEN 1 ELSE 0
    BY <1>2, <1>4, <1>5
  <1> QED BY <1>6, <1>7 DEF new

\* What the first pass has made of the first k findings of a list.
Passes(acc, list, k) ==
    /\ Len(acc.first) + Len(acc.held) = k
    /\ \A p \in DOMAIN acc.first : \E n \in 1..k : acc.first[p] = list[n]
    /\ \A p \in DOMAIN acc.held : \E n \in 1..k : acc.held[p] = list[n]
    /\ \A n \in 1..k : \/ \E p \in DOMAIN acc.first : acc.first[p] = list[n]
                       \/ \E p \in DOMAIN acc.held : acc.held[p] = list[n]
    /\ \A p, q \in DOMAIN acc.first : acc.first[p] = acc.first[q] => p = q
    /\ \A p, q \in DOMAIN acc.held : acc.held[p] = acc.held[q] => p = q
    /\ \A p \in DOMAIN acc.first, q \in DOMAIN acc.held : acc.first[p] # acc.held[q]
    /\ \A f \in Entries : /\ Cardinality(OfRule(acc.first, f)) <= MaxPerRule
                          /\ Cardinality(OfFile(acc.first, f)) <= MaxPerFile
    /\ \A p \in DOMAIN acc.held : Capped(acc.held[p], list)

LEMMA PassPasses ==
    ASSUME NEW list \in Seq(Entries), Apart(list), NEW k \in 1..Len(list), NEW acc \in Parted,
           Passes(acc, list, k - 1)
    PROVE  Passes(Pass(acc, list[k]), list, k)
  <1> DEFINE f == list[k]
             first == acc.first
             held == acc.held
             full == /\ Deterministic(f)
                     /\ \/ Cardinality(OfRule(first, f)) >= MaxPerRule
                        \/ Cardinality(OfFile(first, f)) >= MaxPerFile
             more == Append(first, f)
             put == Append(held, f)
  <1>0. /\ f \in Entries /\ first \in Seq(Entries) /\ held \in Seq(Entries)
        /\ 1..k = 1..(k - 1) \cup {k} /\ k \in Nat /\ k \notin 1..(k - 1)
        /\ MaxPerRule \in Nat /\ MaxPerFile \in Nat
    BY ReportAssumption DEF Parted
  <1>1. /\ DOMAIN more = DOMAIN first \cup {Len(first) + 1} /\ more[Len(first) + 1] = f
        /\ Len(first) + 1 \notin DOMAIN first /\ Len(more) = Len(first) + 1
        /\ \A p \in DOMAIN first : more[p] = first[p]
    BY <1>0
  <1>2. /\ DOMAIN put = DOMAIN held \cup {Len(held) + 1} /\ put[Len(held) + 1] = f
        /\ Len(held) + 1 \notin DOMAIN held /\ Len(put) = Len(held) + 1
        /\ \A p \in DOMAIN held : put[p] = held[p]
    BY <1>0
  <1>3. /\ full => Pass(acc, f).first = first /\ Pass(acc, f).held = put
        /\ ~full => Pass(acc, f).first = more /\ Pass(acc, f).held = held
    BY DEF Pass, Parted
  <1>4. \A n \in 1..(k - 1) : list[n] # f
    <2> SUFFICES ASSUME NEW n \in 1..(k - 1), list[n] = f PROVE FALSE
      OBVIOUS
    <2>1. n \in DOMAIN list /\ k \in DOMAIN list /\ n # k
      OBVIOUS
    <2>2. Same(list[n], list[k])
      BY DEF Same
    <2> QED BY <2>1, <2>2 DEF Apart
  <1> DEFINE new == Pass(acc, f)
  <1>5. Len(first) \in Nat /\ Len(held) \in Nat
    BY <1>0
  <1> HIDE DEF f, first, held, more, put, new
  <1>6. /\ Len(first) + Len(held) = k - 1
        /\ \A n \in 1..(k - 1) : \/ \E p \in DOMAIN first : first[p] = list[n]
                                 \/ \E p \in DOMAIN held : held[p] = list[n]
        /\ \A p \in DOMAIN held : Capped(held[p], list)
    BY DEF Passes, first, held
  <1>15. /\ \A p \in DOMAIN first : \E n \in 1..(k - 1) : first[p] = list[n]
         /\ \A p \in DOMAIN held : \E n \in 1..(k - 1) : held[p] = list[n]
    BY DEF Passes, first, held
  <1>16. /\ \A p, q \in DOMAIN first : first[p] = first[q] => p = q
         /\ \A p, q \in DOMAIN held : held[p] = held[q] => p = q
         /\ \A p \in DOMAIN first, q \in DOMAIN held : first[p] # held[q]
    BY DEF Passes, first, held
  <1>17. \A g \in Entries : /\ Cardinality(OfRule(first, g)) <= MaxPerRule
                            /\ Cardinality(OfFile(first, g)) <= MaxPerFile
    BY DEF Passes, first
  <1>18. /\ \A p \in DOMAIN first : \E n \in 1..k : first[p] = list[n]
         /\ \A p \in DOMAIN held : \E n \in 1..k : held[p] = list[n]
         /\ \E n \in 1..k : f = list[n]
    BY <1>0, <1>15 DEF f
  <1>7. (\A p \in DOMAIN first : first[p] # f) /\ (\A p \in DOMAIN held : held[p] # f)
    BY <1>4, <1>15
  <1>8. f = list[k]
    BY DEF f
  <1>9. Within(more, list)
    <2>1. more \in Seq(Entries)
      BY <1>0 DEF more
    <2>2. \A p \in DOMAIN more : \E n \in 1..k : more[p] = list[n]
      BY <1>1, <1>18
    <2>3. \A n \in 1..k : n \in DOMAIN list
      OBVIOUS
    <2>4. \A p, q \in DOMAIN more : more[p] = more[q] => p = q
      BY <1>1, <1>7, <1>16
    <2> QED BY <2>1, <2>2, <2>3, <2>4 DEF Within
  <1>10. /\ Cardinality(OfRule(more, f)) <= Cardinality(OfRule(list, f))
         /\ Cardinality(OfFile(more, f)) <= Cardinality(OfFile(list, f))
    BY <1>9, CapsWithin
  <1>11. \A g : /\ Cardinality(OfRule(first, g)) \in Nat /\ Cardinality(OfFile(first, g)) \in Nat
                /\ Cardinality(OfRule(list, g)) \in Nat /\ Cardinality(OfFile(list, g)) \in Nat
    BY <1>0, CapsCount
  <1>12. \A g : /\ Cardinality(OfRule(more, g)) = Cardinality(OfRule(first, g)) +
                      IF Deterministic(f) /\ f.tool = g.tool /\ f.rule = g.rule THEN 1 ELSE 0
                /\ Cardinality(OfFile(more, g)) = Cardinality(OfFile(first, g)) +
                      IF Deterministic(f) /\ f.file = g.file THEN 1 ELSE 0
    BY <1>0, CapsGrow DEF more
  <1>13. CASE full
    <2>1. new.first = first /\ new.held = put
      BY <1>3, <1>13 DEF new
    <2>2. Capped(f, list)
      <3>1. /\ Cardinality(OfRule(more, f)) = Cardinality(OfRule(first, f)) + 1
            /\ Cardinality(OfFile(more, f)) = Cardinality(OfFile(first, f)) + 1
        BY <1>12, <1>13
      <3>2. \/ Cardinality(OfRule(first, f)) >= MaxPerRule
            \/ Cardinality(OfFile(first, f)) >= MaxPerFile
        BY <1>13
      <3> QED BY <1>0, <1>10, <1>11, <1>13, <3>1, <3>2 DEF Capped
    <2>3. \A p \in DOMAIN put : \E n \in 1..k : put[p] = list[n]
      BY <1>2, <1>18
    <2>9. \A p \in DOMAIN put : Capped(put[p], list)
      BY <1>2, <1>6, <2>2
    <2>4. \A n \in 1..k : \/ \E p \in DOMAIN first : first[p] = list[n]
                          \/ \E p \in DOMAIN put : put[p] = list[n]
      <3>1. \A n \in 1..(k - 1) : \/ \E p \in DOMAIN first : first[p] = list[n]
                                  \/ \E p \in DOMAIN put : put[p] = list[n]
        <4>1. \A p \in DOMAIN held : p \in DOMAIN put /\ put[p] = held[p]
          BY <1>2
        <4> QED BY <1>6, <4>1
      <3> QED BY <1>0, <1>2, <1>8, <3>1
    <2>5. \A p, q \in DOMAIN put : put[p] = put[q] => p = q
      BY <1>2, <1>7, <1>16
    <2>6. \A p \in DOMAIN first, q \in DOMAIN put : first[p] # put[q]
      BY <1>2, <1>7, <1>16
    <2>7. Len(first) + Len(put) = k
      BY <1>0, <1>2, <1>5, <1>6
    <2>8. \A p \in DOMAIN first : \E n \in 1..k : first[p] = list[n]
      BY <1>18
    <2> QED BY <1>16, <1>17, <2>1, <2>9, <2>3, <2>4, <2>5, <2>6, <2>7, <2>8 DEF Passes, new, f
  <1>14. CASE ~full
    <2>1. new.first = more /\ new.held = held
      BY <1>3, <1>14 DEF new
    <2>2. ASSUME NEW g \in Entries
          PROVE  /\ Cardinality(OfRule(more, g)) <= MaxPerRule
                 /\ Cardinality(OfFile(more, g)) <= MaxPerFile
      <3>1. Cardinality(OfRule(more, g)) <= MaxPerRule
        <4>1. CASE Deterministic(f) /\ f.tool = g.tool /\ f.rule = g.rule
          <5>1. OfRule(first, g) = OfRule(first, f)
            BY <4>1 DEF OfRule
          <5>2. Cardinality(OfRule(first, g)) < MaxPerRule
            BY <1>0, <1>11, <1>14, <4>1, <5>1
          <5> QED BY <1>0, <1>11, <1>12, <4>1, <5>2
        <4>2. CASE ~(Deterministic(f) /\ f.tool = g.tool /\ f.rule = g.rule)
          <5>1. Cardinality(OfRule(more, g)) = Cardinality(OfRule(first, g)) + 0
            BY <1>12, <4>2
          <5> QED BY <1>11, <1>17, <5>1
        <4> QED BY <4>1, <4>2
      <3>2. Cardinality(OfFile(more, g)) <= MaxPerFile
        <4>1. CASE Deterministic(f) /\ f.file = g.file
          <5>1. OfFile(first, g) = OfFile(first, f)
            BY <4>1 DEF OfFile
          <5>2. Cardinality(OfFile(first, g)) < MaxPerFile
            BY <1>0, <1>11, <1>14, <4>1, <5>1
          <5> QED BY <1>0, <1>11, <1>12, <4>1, <5>2
        <4>2. CASE ~(Deterministic(f) /\ f.file = g.file)
          <5>1. Cardinality(OfFile(more, g)) = Cardinality(OfFile(first, g)) + 0
            BY <1>12, <4>2
          <5> QED BY <1>11, <1>17, <5>1
        <4> QED BY <4>1, <4>2
      <3> QED BY <3>1, <3>2
    <2>3. \A p \in DOMAIN more : \E n \in 1..k : more[p] = list[n]
      BY <1>1, <1>18
    <2>4. \A n \in 1..k : \/ \E p \in DOMAIN more : more[p] = list[n]
                          \/ \E p \in DOMAIN held : held[p] = list[n]
      <3>1. \A n \in 1..(k - 1) : \/ \E p \in DOMAIN more : more[p] = list[n]
                                  \/ \E p \in DOMAIN held : held[p] = list[n]
        <4>1. \A p \in DOMAIN first : p \in DOMAIN more /\ more[p] = first[p]
          BY <1>1
        <4> QED BY <1>6, <4>1
      <3> QED BY <1>0, <1>1, <1>8, <3>1
    <2>5. \A p, q \in DOMAIN more : more[p] = more[q] => p = q
      BY <1>1, <1>7, <1>16
    <2>6. \A p \in DOMAIN more, q \in DOMAIN held : more[p] # held[q]
      BY <1>1, <1>7, <1>16
    <2>7. Len(more) + Len(held) = k
      BY <1>0, <1>1, <1>5, <1>6
    <2>8. \A p \in DOMAIN held : \E n \in 1..k : held[p] = list[n]
      BY <1>18
    <2> QED BY <1>6, <1>16, <2>1, <2>2, <2>3, <2>4, <2>5, <2>6, <2>7, <2>8 DEF Passes, new, f
  <1> QED BY <1>13, <1>14

\* Both passes together have every finding once; the first keeps to the caps, and what it
\* holds back is over one (dedup.py:164-194).
LEMMA PrioritizedPasses ==
    ASSUME NEW list \in Seq(Entries), Apart(list)
    PROVE  \E acc \in Parted : /\ Passes(acc, list, Len(list))
                               /\ Prioritized(list) = acc.first \o acc.held
  <1> DEFINE none == [first |-> <<>>, held |-> <<>>]
  <1>1. PICK acc \in [0..Len(list) -> Parted] :
           /\ acc[0] = none /\ acc[Len(list)] = FoldLeft(Pass, none, list)
           /\ \A i \in 1..Len(list) : acc[i] = Pass(acc[i - 1], list[i])
    BY PassUnrolls
  <1> DEFINE Good == {k \in Nat : k <= Len(list) => Passes(acc[k], list, k)}
  <1>2. 0 \in Good
    <2>1. none.first = <<>> /\ none.held = <<>>
      OBVIOUS
    <2> HIDE DEF none
    <2>2. \A f \in Entries : OfRule(<<>>, f) = {} /\ OfFile(<<>>, f) = {}
      BY DEF OfRule, OfFile
    <2>3. \A f \in Entries : /\ Cardinality(OfRule(<<>>, f)) <= MaxPerRule
                             /\ Cardinality(OfFile(<<>>, f)) <= MaxPerFile
      <3>1. Cardinality({}) = 0 /\ MaxPerRule \in Nat /\ MaxPerFile \in Nat
        BY FS_EmptySet, ReportAssumption
      <3> QED BY <2>2, <3>1
    <2>4. Passes(none, list, 0)
      BY <2>1, <2>3 DEF Passes
    <2> QED BY <1>1, <2>4
  <1>3. ASSUME NEW k \in Nat, k \in Good PROVE k + 1 \in Good
    <2> SUFFICES ASSUME k + 1 <= Len(list) PROVE Passes(acc[k + 1], list, k + 1)
      OBVIOUS
    <2>1. (k + 1) - 1 = k /\ k + 1 \in 1..Len(list) /\ k \in 0..Len(list)
      OBVIOUS
    <2>2. Passes(acc[(k + 1) - 1], list, (k + 1) - 1) /\ acc[(k + 1) - 1] \in Parted
      BY <1>3, <2>1
    <2>3. acc[k + 1] = Pass(acc[(k + 1) - 1], list[k + 1])
      BY <1>1, <2>1
    <2> QED BY <2>1, <2>2, <2>3, PassPasses
  <1>4. \A k \in Nat : k \in Good
    <2> HIDE DEF Good
    <2> QED BY <1>2, <1>3, NumberInduction
  <1>5. Len(list) \in Nat /\ Len(list) \in 0..Len(list)
    OBVIOUS
  <1>6. Passes(acc[Len(list)], list, Len(list)) /\ acc[Len(list)] \in Parted
    BY <1>4, <1>5
  <1>7. Prioritized(list) = acc[Len(list)].first \o acc[Len(list)].held
    BY <1>1 DEF Prioritized
  <1> QED BY <1>6, <1>7

\* One list after another.
LEMMA Concatenation ==
    ASSUME NEW S, NEW a \in Seq(S), NEW b \in Seq(S)
    PROVE  /\ a \o b \in Seq(S) /\ Len(a \o b) = Len(a) + Len(b) /\ Len(a) \in Nat /\ Len(b) \in Nat
           /\ \A p \in DOMAIN a : p \in DOMAIN (a \o b) /\ (a \o b)[p] = a[p]
           /\ \A q \in DOMAIN b : q + Len(a) \in DOMAIN (a \o b) /\ (a \o b)[q + Len(a)] = b[q]
           /\ \A i \in DOMAIN (a \o b) :
                 \/ i \in DOMAIN a /\ (a \o b)[i] = a[i]
                 \/ i - Len(a) \in DOMAIN b /\ (a \o b)[i] = b[i - Len(a)]
  <1>1. a \o b \in Seq(S) /\ Len(a \o b) = Len(a) + Len(b) /\ Len(a) \in Nat /\ Len(b) \in Nat
    OBVIOUS
  <1>2. /\ DOMAIN (a \o b) = 1..(Len(a) + Len(b)) /\ DOMAIN a = 1..Len(a) /\ DOMAIN b = 1..Len(b)
    OBVIOUS
  <1>3. \A i \in 1..(Len(a) + Len(b)) :
           (a \o b)[i] = IF i <= Len(a) THEN a[i] ELSE b[i - Len(a)]
    OBVIOUS
  <1> DEFINE t == a \o b
  <1> HIDE DEF t
  <1>4. \A p \in DOMAIN a : p \in DOMAIN t /\ t[p] = a[p]
    BY <1>1, <1>2, <1>3 DEF t
  <1>5. ASSUME NEW q \in DOMAIN b PROVE q + Len(a) \in DOMAIN t /\ t[q + Len(a)] = b[q]
    <2>1. q + Len(a) \in 1..(Len(a) + Len(b)) /\ ~(q + Len(a) <= Len(a)) /\ (q + Len(a)) - Len(a) = q
      BY <1>1, <1>2
    <2> QED BY <1>2, <1>3, <2>1 DEF t
  <1>6. ASSUME NEW i \in DOMAIN t
        PROVE  \/ i \in DOMAIN a /\ t[i] = a[i]
               \/ i - Len(a) \in DOMAIN b /\ t[i] = b[i - Len(a)]
    <2>1. i \in 1..(Len(a) + Len(b)) /\ t[i] = IF i <= Len(a) THEN a[i] ELSE b[i - Len(a)]
      BY <1>2, <1>3 DEF t
    <2>2. i \in 1..Len(a) \/ i - Len(a) \in 1..Len(b)
      BY <1>1, <2>1
    <2>3. CASE i <= Len(a)
      BY <1>1, <1>2, <2>1, <2>3
    <2>4. CASE ~(i <= Len(a))
      BY <1>1, <1>2, <2>1, <2>4
    <2> QED BY <2>3, <2>4
  <1> QED BY <1>1, <1>4, <1>5, <1>6 DEF t

LEMMA PrioritizedRearranges ==
    ASSUME NEW list \in Seq(Entries), Apart(list), NEW acc \in Parted, Passes(acc, list, Len(list))
    PROVE  Rearranges(acc.first \o acc.held, list)
  <1> DEFINE first == acc.first
             held == acc.held
             t == first \o held
             m == Len(first)
  <1>1. first \in Seq(Entries) /\ held \in Seq(Entries)
    BY DEF Parted
  <1> HIDE DEF first, held
  <1>2. /\ t \in Seq(Entries) /\ Len(t) = m + Len(held) /\ m \in Nat /\ Len(held) \in Nat
        /\ \A p \in DOMAIN first : p \in DOMAIN t /\ t[p] = first[p]
        /\ \A q \in DOMAIN held : q + m \in DOMAIN t /\ t[q + m] = held[q]
        /\ \A i \in DOMAIN t : \/ i \in DOMAIN first /\ t[i] = first[i]
                               \/ i - m \in DOMAIN held /\ t[i] = held[i - m]
    BY <1>1, Concatenation
  <1>3. ASSUME NEW i \in DOMAIN t
        PROVE  \/ i \in DOMAIN first /\ t[i] = first[i]
               \/ i - m \in DOMAIN held /\ t[i] = held[i - m]
    BY <1>2
  <1> HIDE DEF t, m
  <1>4. /\ m + Len(held) = Len(list)
        /\ \A p \in DOMAIN first : \E n \in DOMAIN list : first[p] = list[n]
        /\ \A p \in DOMAIN held : \E n \in DOMAIN list : held[p] = list[n]
        /\ \A n \in DOMAIN list : \/ \E p \in DOMAIN first : first[p] = list[n]
                                  \/ \E p \in DOMAIN held : held[p] = list[n]
    <2>1. DOMAIN list = 1..Len(list)
      OBVIOUS
    <2> QED BY <2>1 DEF Passes, m, first, held
  <1>5. /\ \A p, q \in DOMAIN first : first[p] = first[q] => p = q
        /\ \A p, q \in DOMAIN held : held[p] = held[q] => p = q
        /\ \A p \in DOMAIN first, q \in DOMAIN held : first[p] # held[q]
    BY DEF Passes, first, held
  <1>6. ASSUME NEW i \in DOMAIN t PROVE \E n \in DOMAIN list : t[i] = list[n]
    <2>1. CASE i \in DOMAIN first /\ t[i] = first[i]
      BY <1>4, <2>1
    <2>2. CASE i - m \in DOMAIN held /\ t[i] = held[i - m]
      <3>1. PICK n \in DOMAIN list : held[i - m] = list[n]
        BY <1>4, <2>2
      <3> QED BY <2>2, <3>1
    <2> QED BY <1>3, <2>1, <2>2
  <1>7. ASSUME NEW n \in DOMAIN list PROVE \E i \in DOMAIN t : t[i] = list[n]
    <2>1. CASE \E p \in DOMAIN first : first[p] = list[n]
      BY <1>2, <2>1
    <2>2. CASE \E p \in DOMAIN held : held[p] = list[n]
      <3>1. PICK p \in DOMAIN held : held[p] = list[n]
        BY <2>2
      <3>2. p + m \in DOMAIN t /\ t[p + m] = list[n]
        BY <1>2, <3>1
      <3> QED BY <3>2
    <2> QED BY <1>4, <2>1, <2>2
  <1>8. ASSUME NEW i \in DOMAIN t, NEW j \in DOMAIN t, Same(t[i], t[j]) PROVE i = j
    <2>1. PICK n \in DOMAIN list : t[i] = list[n]
      BY <1>6
    <2>2. PICK o \in DOMAIN list : t[j] = list[o]
      BY <1>6
    <2>3. t[i] = t[j]
      BY <1>8, <2>1, <2>2 DEF Apart
    <2>4. CASE i \in DOMAIN first /\ t[i] = first[i]
      <3>1. j \in DOMAIN first /\ t[j] = first[j]
        BY <1>3, <1>5, <2>3, <2>4
      <3> QED BY <1>5, <2>3, <2>4, <3>1
    <2>5. CASE i - m \in DOMAIN held /\ t[i] = held[i - m]
      <3>1. j - m \in DOMAIN held /\ t[j] = held[j - m]
        BY <1>3, <1>5, <2>3, <2>5
      <3>2. i - m = j - m
        BY <1>5, <2>3, <2>5, <3>1
      <3>3. i \in Int /\ j \in Int /\ m \in Int
        BY <1>2
      <3> QED BY <3>2, <3>3
    <2> QED BY <1>3, <2>4, <2>5
  <1> QED BY <1>2, <1>4, <1>6, <1>7, <1>8 DEF Rearranges, t, first, held

LEMMA RearrangesTwice ==
    ASSUME NEW t, NEW s, NEW list, Rearranges(t, s), Rearranges(s, list)
    PROVE  Rearranges(t, list)
  <1>1. \A i \in DOMAIN t : \E j \in DOMAIN list : t[i] = list[j]
    BY DEF Rearranges
  <1>2. \A j \in DOMAIN list : \E i \in DOMAIN t : t[i] = list[j]
    <2> SUFFICES ASSUME NEW j \in DOMAIN list PROVE \E i \in DOMAIN t : t[i] = list[j]
      OBVIOUS
    <2>1. PICK k \in DOMAIN s : s[k] = list[j]
      BY DEF Rearranges
    <2>2. PICK i \in DOMAIN t : t[i] = s[k]
      BY DEF Rearranges
    <2> QED BY <2>1, <2>2
  <1> QED BY <1>1, <1>2 DEF Rearranges

\* What is shown is a list of the merged findings in some order.
LEMMA RankedRearranges ==
    ASSUME NEW all \in Seq(Entries), AsFound(all)
    PROVE  /\ Apart(Merged(all)) /\ Rearranges(Ranked(all), Merged(all))
           /\ \E acc \in Parted : /\ Passes(acc, Sorted(Merged(all)), Len(Merged(all)))
                                  /\ Ranked(all) = acc.first \o acc.held
  <1> DEFINE list == Merged(all)
             sorted == Sorted(list)
  <1>1. list \in Seq(Entries) /\ Apart(list)
    BY MergedMerges DEF Merges
  <1> HIDE DEF list
  <1>2. Rearranges(sorted, list)
    BY <1>1, SortedRearranges
  <1>3. sorted \in Seq(Entries) /\ Apart(sorted) /\ Len(sorted) = Len(list)
    BY <1>2 DEF Rearranges, Apart
  <1>4. Ranked(all) = Prioritized(sorted)
    BY DEF Ranked, list
  <1> HIDE DEF sorted
  <1>5. PICK acc \in Parted : Passes(acc, sorted, Len(sorted)) /\ Prioritized(sorted) = acc.first \o acc.held
    BY <1>3, PrioritizedPasses
  <1>6. Rearranges(acc.first \o acc.held, sorted)
    BY <1>3, <1>5, PrioritizedRearranges
  <1>7. Rearranges(Ranked(all), list)
    BY <1>2, <1>4, <1>5, <1>6, RearrangesTwice
  <1> QED BY <1>1, <1>3, <1>4, <1>5, <1>7 DEF list, sorted

-----------------------------------------------------------------------------
(* The specification.                                                      *)

\* What is shown is the head of the list, and the whole of it unless it is cut.
LEMMA ShownIsHead ==
    ASSUME NEW list \in Seq(Entries)
    PROVE  /\ Shown(list) \in Seq(Entries) /\ Len(Shown(list)) \in Nat /\ Len(Shown(list)) <= Len(list)
           /\ \A i \in DOMAIN Shown(list) : i \in DOMAIN list /\ Shown(list)[i] = list[i]
           /\ DOMAIN Shown(list) = 1..Len(Shown(list))
           /\ Cut(list) => Len(Shown(list)) = MaxFindings
           /\ ~Cut(list) => Len(Shown(list)) = Len(list)
           /\ Cut(list) \in BOOLEAN /\ MaxFindings \in Nat
  <1> DEFINE n == IF Cut(list) THEN MaxFindings ELSE Len(list)
  <1>1. MaxFindings \in Nat /\ Len(list) \in Nat
    BY ReportAssumption
  <1>2. n \in Nat /\ n <= Len(list)
    BY <1>1 DEF Cut
  <1>3. (Cut(list) => n = MaxFindings) /\ (~Cut(list) => n = Len(list)) /\ Shown(list) = SubSeq(list, 1, n)
    BY DEF Shown
  <1> HIDE DEF n
  <1>4. SubSeq(list, 1, n) \in Seq(Entries) /\ Len(SubSeq(list, 1, n)) = n
    BY <1>1, <1>2
  <1>5. DOMAIN SubSeq(list, 1, n) = 1..n /\ DOMAIN list = 1..Len(list)
    BY <1>1, <1>2, <1>4
  <1>6. \A i \in 1..n : i \in DOMAIN list /\ SubSeq(list, 1, n)[i] = list[i]
    <2> SUFFICES ASSUME NEW i \in 1..n PROVE i \in DOMAIN list /\ SubSeq(list, 1, n)[i] = list[i]
      OBVIOUS
    <2> QED BY <1>1, <1>2, <1>5
  <1>7. Cut(list) \in BOOLEAN
    BY DEF Cut
  <1> QED BY <1>1, <1>2, <1>3, <1>4, <1>5, <1>6, <1>7

\* The findings of the AI in a list.
OfAi(list) == {i \in DOMAIN list : IsAi(list[i])}

LEMMA OneMore ==
    ASSUME NEW list \in Seq(Entries), NEW f \in Entries
    PROVE  Cardinality(OfAi(Append(list, f))) =
              Cardinality(OfAi(list)) + IF IsAi(f) THEN 1 ELSE 0
  <1> DEFINE new == Append(list, f)
             last == Len(list) + 1
  <1>1. /\ DOMAIN new = DOMAIN list \cup {last} /\ last \notin DOMAIN list /\ new[last] = f
        /\ \A i \in DOMAIN list : new[i] = list[i]
    OBVIOUS
  <1>2. IsFiniteSet(OfAi(list)) /\ Cardinality(OfAi(list)) \in Nat
    <2>1. IsFiniteSet(1..Len(list)) /\ OfAi(list) \in SUBSET (1..Len(list))
      BY FirstNumbers DEF OfAi
    <2>2. IsFiniteSet(OfAi(list))
      BY <2>1, FS_Subset
    <2> QED BY <2>2, FS_CardinalityType
  <1> HIDE DEF new, last
  <1>3. last \notin OfAi(list)
    BY <1>1 DEF OfAi
  <1>4. CASE IsAi(f)
    <2>1. OfAi(new) = OfAi(list) \cup {last}
      BY <1>1, <1>4 DEF OfAi
    <2>2. Cardinality(OfAi(list) \cup {last}) = Cardinality(OfAi(list)) + 1
      BY <1>2, <1>3, FS_AddElement
    <2> QED BY <1>4, <2>1, <2>2 DEF new
  <1>5. CASE ~IsAi(f)
    <2>1. OfAi(new) = OfAi(list)
      BY <1>1, <1>5 DEF OfAi
    <2> QED BY <1>2, <1>5, <2>1 DEF new
  <1> QED BY <1>4, <1>5

\* The two halves of AiIsAnchored.
Anchored(f) ==
    /\ index[f.file].status \in {"added", "modified", "renamed"} /\ f.file \in Plain
    /\ f.start # 0 =>
          /\ f.end \in DOMAIN Text[f.file]
          /\ index[f.file].all_changed \/ \E n \in index[f.file].changed :
                n \in (f.start - ContextPad)..(f.end + ContextPad)
Accounted ==
    candidates = Cardinality(OfAi(found)) + discards["invalid_shape"]
          + discards["unreviewable_file"] + discards["bad_location"] + discards["outside_change"]

LEMMA AnchoredTwice ==
    AiIsAnchored <=> (\A i \in DOMAIN found : IsAi(found[i]) => Anchored(found[i])) /\ Accounted
  BY DEF AiIsAnchored, Anchored, Accounted, OfAi

\* A finding of a tool changes nothing about those of the AI.
LEMMA ReportKeeps ==
    ASSUME ReportIInv, NEW r \in Reports, NEW confidence \in Nat, AddReport(r, confidence),
           stage = "analyze", UNCHANGED <<stage, index, candidates, discards, report, truncated>>
    PROVE  ReportIInv'
  <1> DEFINE f == Finding(r, r.tool, r.rule, "deterministic", confidence)
  <1>1. f \in Entries /\ f.id = Len(found) + 1 /\ f.notes = {} /\ f.source = "deterministic"
    <2>1. /\ r.tool \in {"ruff", "eslint", "detect-secrets", "missing-tests", "ai"}
          /\ r.rule \in Nat /\ r.file \in Files /\ r.start \in Nat /\ r.end \in Int
          /\ r.severity \in Nat /\ r.category \in Nat
      <3> DEFINE Printed == [tool : {"ruff", "eslint", "detect-secrets", "missing-tests"},
                             rule : Nat, file : Files, start : Nat, end : Nat,
                             severity : Nat, category : Nat, confidence : Nat]
      <3>1. r \in Printed
        BY ReportAssumption
      <3>2. \A x \in Printed :
               /\ x.tool \in {"ruff", "eslint", "detect-secrets", "missing-tests"} /\ x.rule \in Nat
               /\ x.file \in Files /\ x.start \in Nat /\ x.end \in Nat
               /\ x.severity \in Nat /\ x.category \in Nat
        OBVIOUS
      <3> HIDE DEF Printed
      <3>3. r.tool \in {"ruff", "eslint", "detect-secrets", "missing-tests"} /\ r.end \in Nat
        BY <3>1, <3>2
      <3>4. r.tool \in {"ruff", "eslint", "detect-secrets", "missing-tests", "ai"} /\ r.end \in Int
        BY <3>3
      <3>5. r.rule \in Nat /\ r.file \in Files /\ r.start \in Nat /\ r.severity \in Nat /\ r.category \in Nat
        BY <3>1, <3>2
      <3> QED BY <3>4, <3>5
    <2>2. Len(found) + 1 \in Nat
      BY DEF ReportIInv, ReportTypeOK
    <2> QED BY <2>1, <2>2 DEF Finding, Entries
  <1>2. found' = Append(found, f) /\ found \in Seq(Entries)
    BY DEF AddReport, Add, ReportIInv, ReportTypeOK
  <1> HIDE DEF f
  <1>3. /\ found' \in Seq(Entries) /\ DOMAIN found' = DOMAIN found \cup {Len(found) + 1}
        /\ found'[Len(found) + 1] = f /\ \A i \in DOMAIN found : found'[i] = found[i]
    BY <1>1, <1>2
  <1>4. AsFound(found)'
    BY <1>1, <1>3 DEF ReportIInv, AsFound
  <1>5. ~IsAi(f)
    BY <1>1 DEF IsAi
  <1>6. AiIsAnchored'
    <2>1. Accounted /\ \A i \in DOMAIN found : IsAi(found[i]) => Anchored(found[i])
      BY AnchoredTwice DEF ReportIInv
    <2>2. OfAi(found)' = OfAi(found') /\ OfAi(found') = OfAi(found)
      BY <1>3, <1>5 DEF OfAi
    <2> QED BY <1>3, <1>5, <2>1, <2>2 DEF AiIsAnchored, Anchored, Accounted, OfAi
  <1> QED BY <1>3, <1>4, <1>6 DEF ReportIInv, ReportTypeOK

\* A candidate that is kept has its place in the change, and one that is refused is counted.
LEMMA ValidateKeeps ==
    ASSUME ReportIInv, NEW c \in Candidates, Validate(c)
    PROVE  ReportIInv'
  <1> DEFINE f == Finding(c, "ai", c.category, "ai", c.confidence)
  <1>0. /\ found \in Seq(Entries) /\ AsFound(found) /\ index \in Diffs /\ candidates \in Nat
        /\ discards \in [Reasons -> Nat] /\ report = <<>> /\ stage = "ai"
        /\ Accounted /\ \A i \in DOMAIN found : IsAi(found[i]) => Anchored(found[i])
    BY AnchoredTwice DEF ReportIInv, ReportTypeOK, Validate
  <1>1. /\ c.file \in Files /\ c.start \in Int /\ c.end \in Int /\ c.severity \in Nat
        /\ c.category \in Nat /\ c.confidence \in Nat
    <2> DEFINE Returned == [shape : {"ok", "bad", "unkeyed"}, file : Files, start : Int, end : Int,
                            severity : Nat, category : Nat, confidence : Nat]
    <2>1. c \in Returned
      BY ReportAssumption
    <2>2. \A x \in Returned :
             /\ x.file \in Files /\ x.start \in Int /\ x.end \in Int
             /\ x.severity \in Nat /\ x.category \in Nat /\ x.confidence \in Nat
      OBVIOUS
    <2> HIDE DEF Returned
    <2> QED BY <2>1, <2>2
  <1>2. Cardinality(OfAi(found)) \in Nat
    <2>1. IsFiniteSet(1..Len(found)) /\ OfAi(found) \in SUBSET (1..Len(found))
      BY <1>0, FirstNumbers DEF OfAi
    <2>2. IsFiniteSet(OfAi(found))
      BY <2>1, FS_Subset
    <2> QED BY <2>2, FS_CardinalityType
  <1>3. UNCHANGED <<stage, index, report, truncated>> /\ candidates' = candidates + 1
    BY DEF Validate
  <1>4. CASE Refusal(c) = "none"
    <2>1. found' = Append(found, f) /\ discards' = discards
      BY <1>4 DEF Validate, Add
    <2>2. IsReviewable(c.file) /\ (c.start # 0 => LocationExists(c.file, c.start, c.end)
                                                 /\ TouchesChange(c.file, c.start, c.end, ContextPad))
      BY <1>4 DEF Refusal
    <2>3. c.start \in Nat
      BY <1>1, <2>2 DEF LocationExists
    <2>4. /\ f \in Entries /\ f.id = Len(found) + 1 /\ f.notes = {} /\ f.source = "ai"
          /\ f.file = c.file /\ f.start = c.start /\ f.end = c.end
      <3>1. Len(found) + 1 \in Nat
        BY <1>0
      <3>2. f = [id |-> Len(found) + 1, tool |-> "ai", rule |-> c.category, file |-> c.file,
                 start |-> c.start, end |-> c.end, severity |-> c.severity,
                 category |-> c.category, confidence |-> c.confidence, source |-> "ai", notes |-> {}]
        BY DEF Finding
      <3>3. /\ "ai" \in {"ruff", "eslint", "detect-secrets", "missing-tests", "ai"}
            /\ "ai" \in {"deterministic", "ai", "hybrid"} /\ {} \in SUBSET Nat
        OBVIOUS
      <3>4. f \in Entries
        BY <1>1, <2>3, <3>1, <3>2, <3>3 DEF Entries
      <3> QED BY <3>2, <3>4
    <2> HIDE DEF f
    <2>5. /\ found' \in Seq(Entries) /\ DOMAIN found' = DOMAIN found \cup {Len(found) + 1}
          /\ found'[Len(found) + 1] = f /\ \A i \in DOMAIN found : found'[i] = found[i]
      BY <1>0, <2>1, <2>4
    <2>6. Anchored(f)
      <3>1. index[c.file].status \in {"added", "modified", "renamed"} /\ c.file \in Plain
        <4>1. index[c.file].status \in {"absent", "added", "modified", "renamed", "deleted"}
          <5> DEFINE Entry == [status : {"absent", "added", "modified", "renamed", "deleted"},
                               changed : SUBSET Nat, all_changed : BOOLEAN]
          <5>1. index[c.file] \in Entry
            BY <1>0, <1>1, ReportAssumption
          <5> QED BY <5>1
        <4> QED BY <2>2, <4>1 DEF IsReviewable
      <3>2. ASSUME c.start # 0
            PROVE  /\ c.end \in DOMAIN Text[c.file]
                   /\ index[c.file].all_changed \/ \E n \in index[c.file].changed :
                         n \in (c.start - ContextPad)..(c.end + ContextPad)
        <4>1. c.end \in DOMAIN Text[c.file]
          <5>1. Text[c.file] \in Seq(STRING)
            BY <1>1, ReportAssumption
          <5>2. 1 <= c.end /\ c.end <= Len(Text[c.file])
            BY <1>1, <2>2, <3>2, <5>1 DEF LocationExists
          <5> QED BY <1>1, <5>1, <5>2
        <4>2. CASE ~index[c.file].all_changed
          <5>1. PICK n \in index[c.file].changed : c.start - ContextPad <= n /\ n <= c.end + ContextPad
            BY <2>2, <3>2, <4>2 DEF TouchesChange
          <5>2. n \in Nat
            <6> DEFINE Entry == [status : {"absent", "added", "modified", "renamed", "deleted"},
                                 changed : SUBSET Nat, all_changed : BOOLEAN]
            <6>1. index[c.file] \in Entry
              BY <1>0, <1>1, ReportAssumption
            <6> QED BY <5>1, <6>1
          <5>3. ContextPad \in Nat
            BY ReportAssumption
          <5>4. n \in (c.start - ContextPad)..(c.end + ContextPad)
            BY <1>1, <5>1, <5>2, <5>3
          <5> QED BY <4>1, <5>1, <5>4
        <4> QED BY <4>1, <4>2
      <3> QED BY <2>4, <3>1, <3>2 DEF Anchored
    <2>7. Cardinality(OfAi(found')) = Cardinality(OfAi(found)) + 1
      <3>1. IsAi(f) /\ f \in Entries /\ found \in Seq(Entries)
        BY <1>0, <2>4 DEF IsAi
      <3> QED BY <2>1, <3>1, OneMore
    <2>8. Accounted'
      <3>1. /\ discards["invalid_shape"] \in Nat /\ discards["unreviewable_file"] \in Nat
            /\ discards["bad_location"] \in Nat /\ discards["outside_change"] \in Nat
        BY <1>0 DEF Reasons
      <3>2. candidates = Cardinality(OfAi(found)) + discards["invalid_shape"]
               + discards["unreviewable_file"] + discards["bad_location"] + discards["outside_change"]
        BY <1>0 DEF Accounted
      <3>3. candidates + 1 = Cardinality(OfAi(found)) + 1 + discards["invalid_shape"]
               + discards["unreviewable_file"] + discards["bad_location"] + discards["outside_change"]
        BY <1>2, <3>1, <3>2
      <3> QED BY <1>3, <2>1, <2>7, <3>3 DEF Accounted
    <2>9. AsFound(found)'
      BY <1>0, <2>4, <2>5 DEF AsFound
    <2>10. (\A i \in DOMAIN found : IsAi(found[i]) => Anchored(found[i]))'
      <3>1. \A i \in DOMAIN found : IsAi(found'[i]) => Anchored(found[i])
        BY <1>0, <2>5
      <3> QED BY <1>3, <2>5, <2>6, <3>1 DEF Anchored, IsAi
    <2>11. AiIsAnchored'
      BY <2>8, <2>10, AnchoredTwice, PTL
    <2> QED BY <1>0, <1>3, <2>1, <2>5, <2>9, <2>11 DEF ReportIInv, ReportTypeOK
  <1>5. CASE Refusal(c) # "none"
    <2>1. found' = found /\ discards' = [discards EXCEPT ![Refusal(c)] = @ + 1] /\ Refusal(c) \in Reasons
      BY <1>5 DEF Validate, Refusal, Reasons
    <2>2. discards' \in [Reasons -> Nat] /\ candidates' \in Nat
      BY <1>0, <1>3, <2>1
    <2>3. AiIsAnchored'
      <3>1. /\ discards["invalid_shape"] \in Nat /\ discards["unreviewable_file"] \in Nat
            /\ discards["bad_location"] \in Nat /\ discards["outside_change"] \in Nat
        BY <1>0 DEF Reasons
      <3>2. OfAi(found)' = OfAi(found)
        BY <2>1 DEF OfAi
      <3>3. Accounted'
        <4>1. candidates = Cardinality(OfAi(found)) + discards["invalid_shape"]
                 + discards["unreviewable_file"] + discards["bad_location"] + discards["outside_change"]
          BY <1>0 DEF Accounted
        <4>2. \A why \in Reasons :
                 discards'[why] = IF why = Refusal(c) THEN discards[why] + 1 ELSE discards[why]
          BY <1>0, <2>1
        <4>3. /\ discards'["invalid_shape"] = IF Refusal(c) = "invalid_shape"
                    THEN discards["invalid_shape"] + 1 ELSE discards["invalid_shape"]
              /\ discards'["unreviewable_file"] = IF Refusal(c) = "unreviewable_file"
                    THEN discards["unreviewable_file"] + 1 ELSE discards["unreviewable_file"]
              /\ discards'["bad_location"] = IF Refusal(c) = "bad_location"
                    THEN discards["bad_location"] + 1 ELSE discards["bad_location"]
              /\ discards'["outside_change"] = IF Refusal(c) = "outside_change"
                    THEN discards["outside_change"] + 1 ELSE discards["outside_change"]
          BY <4>2 DEF Reasons
        <4>4. candidates + 1 = Cardinality(OfAi(found)) + discards'["invalid_shape"]
                 + discards'["unreviewable_file"] + discards'["bad_location"] + discards'["outside_change"]
          <5>1. Refusal(c) \in {"invalid_shape", "unreviewable_file", "bad_location", "outside_change"}
            BY <2>1 DEF Reasons
          <5> DEFINE n == Cardinality(OfAi(found))
                     v == discards["invalid_shape"]
                     w == discards["unreviewable_file"]
                     x == discards["bad_location"]
                     y == discards["outside_change"]
          <5>2. /\ candidates + 1 = n + (v + 1) + w + x + y
                /\ candidates + 1 = n + v + (w + 1) + x + y
                /\ candidates + 1 = n + v + w + (x + 1) + y
                /\ candidates + 1 = n + v + w + x + (y + 1)
            <6>1. candidates = n + v + w + x + y
              BY <4>1
            <6>2. n \in Nat /\ v \in Nat /\ w \in Nat /\ x \in Nat /\ y \in Nat
              BY <1>2, <3>1
            <6> HIDE DEF n, v, w, x, y
            <6> QED BY <6>1, <6>2
          <5>3. CASE Refusal(c) = "invalid_shape"
            BY <4>3, <5>2, <5>3
          <5>4. CASE Refusal(c) = "unreviewable_file"
            BY <4>3, <5>2, <5>4
          <5>5. CASE Refusal(c) = "bad_location"
            BY <4>3, <5>2, <5>5
          <5>6. CASE Refusal(c) = "outside_change"
            BY <4>3, <5>2, <5>6
          <5> QED BY <5>1, <5>3, <5>4, <5>5, <5>6
        <4> QED BY <1>3, <3>2, <4>4 DEF Accounted
      <3>4. (\A i \in DOMAIN found : IsAi(found[i]) => Anchored(found[i]))'
        BY <1>0, <1>3, <2>1 DEF Anchored, IsAi
      <3> QED BY <3>3, <3>4, AnchoredTwice, PTL
    <2>4. AsFound(found)'
      BY <1>0, <2>1 DEF AsFound
    <2> QED BY <1>0, <1>3, <2>1, <2>2, <2>3, <2>4 DEF ReportIInv, ReportTypeOK
  <1> QED BY <1>4, <1>5

\* The findings come typed and in their places, every one of the AI's is where it may be and
\* every candidate is accounted for, and the report is made of them (dedup.py:130-194,
\* ai_review.py:185-226).
THEOREM ReportInvariance == ReportSpec => []ReportIInv
  <1>1. ASSUME ReportInit PROVE ReportIInv
    <2>1. ReportTypeOK
      <3>1. discards \in [Reasons -> Nat]
        <4>1. discards = [why \in Reasons |-> 0]
          BY <1>1 DEF ReportInit
        <4> QED BY <4>1
      <3>2. <<>> \in Seq(Entries)
        OBVIOUS
      <3> QED BY <1>1, <3>1, <3>2 DEF ReportInit, ReportTypeOK
    <2>2. AsFound(found)
      BY <1>1 DEF ReportInit, AsFound
    <2>3. AiIsAnchored
      <3>1. OfAi(found) = {} /\ Cardinality({}) = 0
        BY <1>1, FS_EmptySet DEF ReportInit, OfAi
      <3>2. /\ discards["invalid_shape"] = 0 /\ discards["unreviewable_file"] = 0
            /\ discards["bad_location"] = 0 /\ discards["outside_change"] = 0 /\ candidates = 0
        BY <1>1 DEF ReportInit, Reasons
      <3>3. Accounted
        BY <3>1, <3>2 DEF Accounted
      <3>4. \A i \in DOMAIN found : IsAi(found[i]) => Anchored(found[i])
        BY <1>1 DEF ReportInit
      <3> QED BY <3>3, <3>4, AnchoredTwice
    <2> QED BY <1>1, <2>1, <2>2, <2>3 DEF ReportIInv, ReportInit
  <1>2. ASSUME ReportIInv, [ReportNext]_reportVars PROVE ReportIInv'
    <2>1. ASSUME NEW r \in Reports, Lint(r) PROVE ReportIInv'
      <3>1. r.confidence \in Nat
        <4> DEFINE Printed == [tool : {"ruff", "eslint", "detect-secrets", "missing-tests"},
                               rule : Nat, file : Files, start : Nat, end : Nat,
                               severity : Nat, category : Nat, confidence : Nat]
        <4>1. r \in Printed
          BY ReportAssumption
        <4> QED BY <4>1
      <3> QED BY <1>2, <2>1, <3>1, ReportKeeps DEF Lint
    <2>2. ASSUME NEW r \in Reports, Secret(r) PROVE ReportIInv'
      <3> DEFINE confidence == IF TouchesChange(r.file, r.start, r.end, 0) THEN r.confidence
                               ELSE IF r.confidence = 2 THEN 2 ELSE r.confidence + 1
      <3>1. r.confidence \in Nat
        <4> DEFINE Printed == [tool : {"ruff", "eslint", "detect-secrets", "missing-tests"},
                               rule : Nat, file : Files, start : Nat, end : Nat,
                               severity : Nat, category : Nat, confidence : Nat]
        <4>1. r \in Printed
          BY ReportAssumption
        <4> QED BY <4>1
      <3>2. confidence \in Nat
        BY <3>1
      <3>3. AddReport(r, confidence) /\ stage = "analyze"
            /\ UNCHANGED <<stage, index, candidates, discards, report, truncated>>
        BY <2>2 DEF Secret
      <3> HIDE DEF confidence
      <3> QED BY <1>2, <3>2, <3>3, ReportKeeps
    <2>3. ASSUME NEW r \in Reports, MissingTests(r) PROVE ReportIInv'
      <3>1. r.confidence \in Nat
        <4> DEFINE Printed == [tool : {"ruff", "eslint", "detect-secrets", "missing-tests"},
                               rule : Nat, file : Files, start : Nat, end : Nat,
                               severity : Nat, category : Nat, confidence : Nat]
        <4>1. r \in Printed
          BY ReportAssumption
        <4> QED BY <4>1
      <3> QED BY <1>2, <2>3, <3>1, ReportKeeps DEF MissingTests
    <2>4. CASE Analyzed
      BY <1>2, <2>4 DEF Analyzed, ReportIInv, ReportTypeOK, AsFound, AiIsAnchored, IsAi
    <2>5. ASSUME NEW c \in Candidates, Validate(c) PROVE ReportIInv'
      BY <1>2, <2>5, ValidateKeeps
    <2>6. ASSUME NEW c \in Candidates, Sink(c) PROVE ReportIInv'
      BY <1>2, <2>6 DEF Sink, ReportIInv, ReportTypeOK, AsFound, AiIsAnchored, IsAi
    <2>7. CASE Dedupe
      <3>1. found \in Seq(Entries) /\ AsFound(found)
        BY <1>2 DEF ReportIInv, ReportTypeOK
      <3>2. Ranked(found) \in Seq(Entries)
        BY <3>1, RankedRearranges DEF Rearranges
      <3>3. Shown(Ranked(found)) \in Seq(Entries) /\ Cut(Ranked(found)) \in BOOLEAN
        BY <3>2, ShownIsHead
      <3>4. /\ report' = Shown(Ranked(found)) /\ truncated' = Cut(Ranked(found)) /\ stage' = "done"
            /\ UNCHANGED <<index, found, candidates, discards>>
        BY <2>7 DEF Dedupe
      <3>5. ReportTypeOK'
        BY <1>2, <3>3, <3>4 DEF ReportIInv, ReportTypeOK
      <3>6. AiIsAnchored' /\ AsFound(found)'
        BY <1>2, <3>4 DEF ReportIInv, AiIsAnchored, IsAi, AsFound
      <3>7. Shown(Ranked(found))' = Shown(Ranked(found')) /\ Cut(Ranked(found))' = Cut(Ranked(found'))
        OBVIOUS
      <3> QED BY <3>4, <3>5, <3>6, <3>7 DEF ReportIInv
    <2>8. CASE UNCHANGED reportVars
      BY <1>2, <2>8 DEF reportVars, ReportIInv, ReportTypeOK, AsFound, AiIsAnchored, IsAi
    <2> QED BY <1>2, <2>1, <2>2, <2>3, <2>4, <2>5, <2>6, <2>7, <2>8 DEF ReportNext
  <1> QED BY <1>1, <1>2, PTL DEF ReportSpec

\* No finding of the AI is about what was not changed, and no candidate of it disappears
\* without being counted (ai_review.py:185-226).
THEOREM AiStaysInTheChange == ReportSpec => []AiIsAnchored
  <1>1. ReportIInv => AiIsAnchored
    BY DEF ReportIInv
  <1> QED BY <1>1, ReportInvariance, PTL

\* What the invariant says of a report.
LEMMA ReportIsRanked ==
    ASSUME ReportIInv, stage = "done"
    PROVE  /\ found \in Seq(Entries) /\ AsFound(found)
           /\ report = Shown(Ranked(found)) /\ truncated = Cut(Ranked(found))
           /\ Merged(found) \in Seq(Entries) /\ Apart(Merged(found))
           /\ Merges(Merged(found), Kept(found), found, Len(Kept(found)))
           /\ Rearranges(Ranked(found), Merged(found))
  <1>1. /\ found \in Seq(Entries) /\ AsFound(found)
        /\ report = Shown(Ranked(found)) /\ truncated = Cut(Ranked(found))
    BY DEF ReportIInv, ReportTypeOK
  <1> QED BY <1>1, MergedMerges, RankedRearranges

\* Nothing is lost, whatever the tools and the AI found: not by a twin, a merge, the sort, a
\* cap or the cut, unless the report says so (dedup.py:130-161, 164-194).
THEOREM NothingIsLost == ReportSpec => []NothingVanishes
  <1>1. ASSUME ReportIInv PROVE NothingVanishes
    <2> SUFFICES ASSUME stage = "done"
                 PROVE  /\ truncated <=> Len(report) = MaxFindings /\ Len(Merged(found)) > MaxFindings
                        /\ ~truncated => \A i \in DOMAIN found : \E j \in DOMAIN report :
                                            StandsFor(report[j], found[i])
                        /\ \A i, j \in DOMAIN report : i # j =>
                              report[i].id # report[j].id /\ ~Same(report[i], report[j])
      BY DEF NothingVanishes
    <2> DEFINE all == Ranked(found)
               merged == Merged(found)
    <2>1. /\ found \in Seq(Entries) /\ AsFound(found)
          /\ report = Shown(all) /\ truncated = Cut(all)
          /\ Merges(merged, Kept(found), found, Len(Kept(found))) /\ Rearranges(all, merged)
      BY <1>1, ReportIsRanked
    <2> HIDE DEF all, merged
    <2>2. /\ all \in Seq(Entries) /\ Len(all) = Len(merged)
          /\ \A p \in DOMAIN merged : \E i \in DOMAIN all : all[i] = merged[p]
          /\ \A i \in DOMAIN all : \E p \in DOMAIN merged : all[i] = merged[p]
          /\ \A i, j \in DOMAIN all : Same(all[i], all[j]) => i = j
      BY <2>1 DEF Rearranges
    <2>3. /\ \A i \in DOMAIN report : i \in DOMAIN all /\ report[i] = all[i]
          /\ DOMAIN report = 1..Len(report)
          /\ Cut(all) => Len(report) = MaxFindings
          /\ ~Cut(all) => Len(report) = Len(all)
      BY <2>1, <2>2, ShownIsHead
    <2>4. truncated <=> Len(report) = MaxFindings /\ Len(merged) > MaxFindings
      BY <2>1, <2>2, <2>3 DEF Cut
    <2>5. ASSUME ~truncated, NEW i \in DOMAIN found
          PROVE  \E j \in DOMAIN report : StandsFor(report[j], found[i])
      <3>1. PICK p \in DOMAIN merged : \E n \in DOMAIN found :
               /\ Same(found[n], found[i]) /\ found[n].severity <= found[i].severity
               /\ \/ merged[p].id = n
                  \/ IsAi(found[n]) /\ n \in merged[p].notes /\ merged[p].file = found[i].file
        BY <2>1, MergedStands DEF merged
      <3>2. PICK n \in DOMAIN found :
               /\ Same(found[n], found[i]) /\ found[n].severity <= found[i].severity
               /\ \/ merged[p].id = n
                  \/ IsAi(found[n]) /\ n \in merged[p].notes /\ merged[p].file = found[i].file
        BY <3>1
      <3>3. PICK j \in DOMAIN all : all[j] = merged[p]
        BY <2>2
      <3>4. j \in DOMAIN report
        <4>1. Len(report) = Len(all) /\ DOMAIN report = 1..Len(report)
          BY <2>1, <2>3, <2>5
        <4>2. DOMAIN all = 1..Len(all)
          BY <2>2
        <4> QED BY <4>1, <4>2
      <3>5. report[j] = merged[p] /\ found[n].id = n
        BY <2>1, <2>3, <3>3, <3>4 DEF AsFound
      <3>6. StandsFor(report[j], found[i])
        BY <3>2, <3>5 DEF StandsFor
      <3> QED BY <3>4, <3>6
    <2>6. ASSUME NEW i \in DOMAIN report, NEW j \in DOMAIN report, i # j
          PROVE  report[i].id # report[j].id /\ ~Same(report[i], report[j])
      <3>1. ~Same(report[i], report[j])
        BY <2>2, <2>3, <2>6
      <3>2. ASSUME report[i].id = report[j].id PROVE Same(report[i], report[j])
        <4>1. PICK p \in DOMAIN merged : report[i] = merged[p]
          BY <2>2, <2>3
        <4>2. PICK q \in DOMAIN merged : report[j] = merged[q]
          BY <2>2, <2>3
        <4>3. Alike(merged[p], found[report[i].id]) /\ Alike(merged[q], found[report[j].id])
          BY <2>1, <4>1, <4>2 DEF Merges
        <4>4. /\ Fingerprint(merged[p], Text) = Fingerprint(found[report[i].id], Text)
              /\ Fingerprint(merged[q], Text) = Fingerprint(found[report[j].id], Text)
          BY <4>3, AlikeIsSame
        <4> QED BY <3>2, <4>1, <4>2, <4>4 DEF Same
      <3> QED BY <3>1, <3>2
    <2> QED BY <2>4, <2>5, <2>6 DEF merged
  <1> QED BY <1>1, ReportInvariance, PTL

\* A note of the AI never hangs on the wrong finding of two (dedup.py:68-104).
THEOREM NotesAreClear == ReportSpec => []NotesBelong
  <1>1. ASSUME ReportIInv PROVE NotesBelong
    <2>1. CASE stage # "done"
      BY <1>1, <2>1 DEF ReportIInv, NotesBelong
    <2>2. CASE stage = "done"
      <3> SUFFICES ASSUME NEW j \in DOMAIN report, NEW n \in report[j].notes
                   PROVE  /\ Mergeable(found[n], report[j])
                          /\ \A i \in DOMAIN found :
                                (~IsAi(found[i]) /\ Mergeable(found[n], found[i]) /\ ~Same(found[i], report[j]))
                                => \/ Closer(found[n], report[j], found[i])
                                   \/ \E k \in DOMAIN found : Same(found[k], found[i]) /\ k # i
        BY DEF NotesBelong
      <3> DEFINE merged == Merged(found)
                 kept == Kept(found)
      <3>1. /\ found \in Seq(Entries) /\ AsFound(found) /\ report = Shown(Ranked(found))
            /\ Merges(merged, kept, found, Len(kept)) /\ Rearranges(Ranked(found), merged)
            /\ merged \in Seq(Entries)
        BY <1>1, <2>2, ReportIsRanked
      <3>2. Picked(kept, found) /\ Holds(kept, found, Len(found))
        BY <3>1, MergedMerges
      <3> HIDE DEF merged, kept
      <3>3. PICK p \in DOMAIN merged : report[j] = merged[p]
        <4>1. j \in DOMAIN Ranked(found) /\ report[j] = Ranked(found)[j]
          BY <3>1, ShownIsHead DEF Rearranges
        <4> QED BY <3>1, <4>1 DEF Rearranges
      <3>4. /\ n \in DOMAIN found /\ Mergeable(found[n], merged[p])
            /\ \A q \in DOMAIN merged \ {p} :
                  Mergeable(found[n], merged[q]) => Closer(found[n], merged[p], merged[q])
        BY <3>1, <3>3 DEF Merges
      <3>5. ASSUME NEW i \in DOMAIN found, ~IsAi(found[i]), Mergeable(found[n], found[i]),
                   ~Same(found[i], report[j]),
                   \A k \in DOMAIN found : Same(found[k], found[i]) => k = i
            PROVE  Closer(found[n], report[j], found[i])
        <4>1. PICK m \in DOMAIN kept : Same(kept[m], found[i])
          <5>1. i \in 1..Len(found)
            BY <3>1
          <5> QED BY <3>2, <5>1 DEF Holds
        <4>2. kept[m].id = i /\ kept[m] = found[i]
          BY <3>2, <3>5, <4>1 DEF Picked
        <4>3. PICK q \in DOMAIN merged : merged[q].id = i
          <5>1. m <= Len(kept)
            BY <3>2 DEF Picked
          <5> QED BY <3>1, <3>5, <4>2, <5>1 DEF Merges
        <4>4. Alike(merged[q], found[i])
          BY <3>1, <4>3 DEF Merges
        <4>5. q # p
          BY <3>3, <3>5, <4>4, AlikeIsSame DEF Same
        <4>6. merged[q] \in Entries /\ found[i] \in Entries /\ found[n] \in Entries
          BY <3>1, <3>4
        <4>7. /\ Mergeable(found[n], merged[q])
              /\ Gap(found[n], merged[q]) = Gap(found[n], found[i])
              /\ merged[q].category = found[i].category
          BY <3>5, <4>4, <4>6, AlikeMerges
        <4>8. Closer(found[n], merged[p], merged[q])
          BY <3>4, <4>5, <4>7
        <4> QED BY <3>3, <4>7, <4>8 DEF Closer
      <3> QED BY <3>3, <3>4, <3>5
    <2> QED BY <2>1, <2>2
  <1> QED BY <1>1, ReportInvariance, PTL

\* As long as room is missing for what no cap holds back, nothing over a cap takes room
\* (dedup.py:164-194).
THEOREM FloodsWait == ReportSpec => []NoEviction
  <1>1. ASSUME ReportIInv PROVE NoEviction
    <2> DEFINE all == Merged(found)
               ranked == Ranked(found)
               sorted == Sorted(all)
    <2> SUFFICES ASSUME stage = "done", NEW i \in DOMAIN all,
                        all[i].id \notin {report[j].id : j \in DOMAIN report}, ~Capped(all[i], all),
                        NEW j \in DOMAIN report
                 PROVE  ~Capped(report[j], report)
      BY DEF NoEviction
    <2>1. /\ found \in Seq(Entries) /\ AsFound(found) /\ report = Shown(ranked)
          /\ Rearranges(ranked, all) /\ all \in Seq(Entries) /\ Apart(all)
      BY <1>1, ReportIsRanked
    <2>2. PICK acc \in Parted : Passes(acc, sorted, Len(all)) /\ ranked = acc.first \o acc.held
      BY <2>1, RankedRearranges
    <2>3. Rearranges(sorted, all)
      BY <2>1, SortedRearranges
    <2> HIDE DEF all, ranked, sorted
    <2> DEFINE first == acc.first
               held == acc.held
               f == all[i]
    <2>4. first \in Seq(Entries) /\ held \in Seq(Entries) /\ f \in Entries
      BY <2>1 DEF Parted
    <2> HIDE DEF f
    <2>5. PICK r \in DOMAIN ranked : ranked[r] = f
      BY <2>1 DEF Rearranges, f
    <2>6. r \notin DOMAIN report
      <3>1. \A k \in DOMAIN report : report[k] = ranked[k]
        BY <2>1, ShownIsHead DEF Rearranges
      <3> QED BY <2>5, <3>1 DEF f
    <2>7. r \in DOMAIN first
      <3> SUFFICES ASSUME r \notin DOMAIN first PROVE FALSE
        OBVIOUS
      <3> HIDE DEF first, held
      <3>1. r - Len(first) \in DOMAIN held /\ ranked[r] = held[r - Len(first)]
        <4>1. ranked = first \o held
          BY <2>2 DEF first, held
        <4> QED BY <2>4, <2>5, <4>1, Concatenation
      <3>2. Capped(held[r - Len(first)], sorted)
        BY <2>2, <3>1 DEF Passes, held
      <3>3. Capped(f, sorted)
        BY <2>5, <3>1, <3>2
      <3>4. Within(sorted, all)
        <4>1. \A p, q \in DOMAIN sorted : sorted[p] = sorted[q] => p = q
          BY <2>3 DEF Rearranges, Same
        <4> QED BY <2>1, <2>3, <4>1 DEF Within, Rearranges
      <3>5. /\ Cardinality(OfRule(sorted, f)) <= Cardinality(OfRule(all, f))
            /\ Cardinality(OfFile(sorted, f)) <= Cardinality(OfFile(all, f))
        BY <3>4, CapsWithin
      <3>6. /\ Cardinality(OfRule(sorted, f)) \in Nat /\ Cardinality(OfRule(all, f)) \in Nat
            /\ Cardinality(OfFile(sorted, f)) \in Nat /\ Cardinality(OfFile(all, f)) \in Nat
        BY <3>4, CapsCount DEF Within
      <3>7. MaxPerRule \in Nat /\ MaxPerFile \in Nat
        BY ReportAssumption
      <3>8. Capped(f, all)
        BY <3>3, <3>5, <3>6, <3>7 DEF Capped
      <3> QED BY <3>8 DEF f
    <2>8. Within(report, first)
      <3> HIDE DEF first, held
      <3>1. /\ report \in Seq(Entries) /\ DOMAIN report = 1..Len(report) /\ Len(report) \in Nat
            /\ \A k \in DOMAIN report : k \in DOMAIN ranked /\ report[k] = ranked[k]
        BY <2>1, ShownIsHead DEF Rearranges
      <3>2. DOMAIN first = 1..Len(first) /\ Len(first) \in Nat
        BY <2>4
      <3>3. Len(report) < Len(first)
        BY <2>6, <2>7, <3>1, <3>2
      <3>4. \A k \in DOMAIN report : k \in DOMAIN first
        BY <3>1, <3>2, <3>3
      <3>5. \A k \in DOMAIN first : ranked[k] = first[k]
        <4>1. ranked = first \o held
          BY <2>2 DEF first, held
        <4> QED BY <2>4, <4>1, Concatenation
      <3>6. \A p, q \in DOMAIN first : first[p] = first[q] => p = q
        BY <2>2 DEF Passes, first
      <3> QED BY <2>4, <3>1, <3>4, <3>5, <3>6 DEF Within
    <2>9. report[j] \in Entries
      BY <2>8 DEF Within
    <2>10. /\ Cardinality(OfRule(first, report[j])) <= MaxPerRule
           /\ Cardinality(OfFile(first, report[j])) <= MaxPerFile
      BY <2>2, <2>9 DEF Passes
    <2> HIDE DEF first, held
    <2>11. /\ Cardinality(OfRule(report, report[j])) <= Cardinality(OfRule(first, report[j]))
           /\ Cardinality(OfFile(report, report[j])) <= Cardinality(OfFile(first, report[j]))
      BY <2>8, CapsWithin
    <2>12. /\ Cardinality(OfRule(report, report[j])) \in Nat /\ Cardinality(OfRule(first, report[j])) \in Nat
           /\ Cardinality(OfFile(report, report[j])) \in Nat /\ Cardinality(OfFile(first, report[j])) \in Nat
           /\ MaxPerRule \in Nat /\ MaxPerFile \in Nat
      BY <2>8, CapsCount, ReportAssumption DEF Within
    <2> QED BY <2>10, <2>11, <2>12 DEF Capped
  <1> QED BY <1>1, ReportInvariance, PTL

-----------------------------------------------------------------------------
(* The fingerprint.                                                        *)

\* Of the first m lines those from a place on have moved by one.
MovesOn(more, lines, at, m) ==
    /\ \A n \in 1..(at - 1) : more[n] = lines[n]
    /\ \A n \in at..m : more[n + 1] = lines[n]
With(lines, at, line) == SubSeq(lines, 1, at - 1) \o <<line>> \o SubSeq(lines, at, Len(lines))

\* A line that is put into a text moves those from its place on.
LEMMA Inserted ==
    ASSUME NEW S, NEW lines \in Seq(S), NEW at \in 1..(Len(lines) + 1), NEW line \in S
    PROVE  /\ Len(With(lines, at, line)) = Len(lines) + 1 /\ With(lines, at, line)[at] = line
           /\ MovesOn(With(lines, at, line), lines, at, Len(lines))
  <1> DEFINE head == SubSeq(lines, 1, at - 1)
             one == <<line>>
             upto == head \o one
             tail == SubSeq(lines, at, Len(lines))
             more == upto \o tail
  <1>1. Len(lines) \in Nat /\ DOMAIN lines = 1..Len(lines) /\ at \in Nat /\ at >= 1 /\ at - 1 <= Len(lines)
    OBVIOUS
  <1>2. head \in Seq(S) /\ Len(head) = at - 1 /\ DOMAIN head = 1..(at - 1)
        /\ \A n \in 1..(at - 1) : head[n] = lines[n]
    BY <1>1
  <1>3. tail \in Seq(S) /\ Len(tail) = Len(lines) - at + 1 /\ DOMAIN tail = 1..(Len(lines) - at + 1)
    BY <1>1
  <1>4. \A n \in 1..(Len(lines) - at + 1) : tail[n] = lines[at + n - 1]
    BY <1>1, <1>3
  <1>5. one \in Seq(S) /\ Len(one) = 1 /\ 1 \in DOMAIN one /\ one[1] = line
    OBVIOUS
  <1> HIDE DEF head, one, tail
  <1>6. /\ upto \in Seq(S) /\ Len(upto) = Len(head) + Len(one)
        /\ \A n \in DOMAIN head : n \in DOMAIN upto /\ upto[n] = head[n]
        /\ \A n \in DOMAIN one : n + Len(head) \in DOMAIN upto /\ upto[n + Len(head)] = one[n]
    <2>1. head \in Seq(S) /\ one \in Seq(S)
      BY <1>2, <1>5
    <2> QED BY <2>1, Concatenation
  <1> HIDE DEF upto
  <1>7. upto[at] = line /\ at \in DOMAIN upto /\ Len(upto) = at
    <2>1. 1 + Len(head) = at /\ Len(head) + 1 = at
      BY <1>1, <1>2
    <2> QED BY <1>5, <1>6, <2>1
  <1>8. /\ Len(more) = Len(upto) + Len(tail)
        /\ \A n \in DOMAIN upto : more[n] = upto[n]
        /\ \A n \in DOMAIN tail : more[n + Len(upto)] = tail[n]
    <2>1. upto \in Seq(S) /\ tail \in Seq(S)
      BY <1>3, <1>6
    <2> QED BY <2>1, Concatenation
  <1> HIDE DEF more
  <1>9. Len(more) = Len(lines) + 1 /\ more[at] = line
    BY <1>1, <1>3, <1>7, <1>8
  <1>10. \A n \in 1..(at - 1) : more[n] = lines[n]
    BY <1>2, <1>6, <1>8
  <1>11. ASSUME NEW n \in at..Len(lines) PROVE more[n + 1] = lines[n]
    <2> DEFINE k == n - at + 1
    <2>1. k \in 1..(Len(lines) - at + 1) /\ k + at = n + 1 /\ at + k - 1 = n
      BY <1>1
    <2> HIDE DEF k
    <2>2. more[k + at] = tail[k]
      BY <1>3, <1>7, <1>8, <2>1
    <2>3. tail[k] = lines[at + k - 1]
      BY <1>4, <2>1
    <2> QED BY <2>1, <2>2, <2>3
  <1>12. With(lines, at, line) = more
    BY DEF With, more, upto, head, one, tail
  <1> QED BY <1>9, <1>10, <1>11, <1>12 DEF MovesOn

\* Those of the first m lines that say a thing.
Says(lines, m, word) == {n \in 1..m : lines[n] = word}

\* How many of the first lines say a thing is the same when another line is put among them.
LEMMA SameCount ==
    ASSUME NEW lines, NEW more, NEW at \in Nat, NEW start \in Nat, 1 <= at, at <= start,
           NEW word, more[at] # word, MovesOn(more, lines, at, start - 1)
    PROVE  Cardinality(Says(more, start, word)) = Cardinality(Says(lines, start - 1, word))
  <1> DEFINE A == {n \in 1..(start - 1) : lines[n] = word}
             B == {n \in 1..start : more[n] = word}
             to == [n \in A |-> IF n < at THEN n ELSE n + 1]
  <1>0. /\ \A n \in 1..(at - 1) : more[n] = lines[n]
        /\ \A n \in at..(start - 1) : more[n + 1] = lines[n]
    BY DEF MovesOn
  <1>1. \A n \in A : n \in Nat /\ to[n] = IF n < at THEN n ELSE n + 1
    OBVIOUS
  <1>2. to \in [A -> B]
    <2> SUFFICES ASSUME NEW n \in A PROVE (IF n < at THEN n ELSE n + 1) \in B
      OBVIOUS
    <2>1. CASE n < at
      <3>1. n \in 1..(at - 1) /\ n \in 1..start
        BY <2>1
      <3> QED BY <1>0, <2>1, <3>1
    <2>2. CASE ~(n < at)
      <3>1. n \in at..(start - 1) /\ n + 1 \in 1..start
        BY <2>2
      <3> QED BY <1>0, <2>2, <3>1
    <2> QED BY <2>1, <2>2
  <1>3. \A m, n \in A : to[m] = to[n] => m = n
    BY <1>1
  <1>4. ASSUME NEW k \in B PROVE \E n \in A : to[n] = k
    <2>1. k # at /\ k \in 1..start
      OBVIOUS
    <2>2. CASE k < at
      <3>1. k \in 1..(at - 1) /\ k \in 1..(start - 1)
        BY <2>1, <2>2
      <3>2. k \in A
        BY <1>0, <3>1
      <3> QED BY <1>1, <2>2, <3>2
    <2>3. CASE k > at
      <3>1. k - 1 \in at..(start - 1) /\ (k - 1) + 1 = k /\ k - 1 \in 1..(start - 1) /\ ~(k - 1 < at)
        BY <2>1, <2>3
      <3>2. k - 1 \in A
        <4>1. more[(k - 1) + 1] = lines[k - 1]
          BY <1>0, <3>1
        <4> QED BY <3>1, <4>1
      <3> QED BY <1>1, <3>1, <3>2
    <2> QED BY <2>1, <2>2, <2>3
  <1>5. IsFiniteSet(A)
    <2>1. IsFiniteSet(1..(start - 1))
      <3>1. start - 1 \in Nat
        OBVIOUS
      <3> QED BY <3>1, FirstNumbers
    <2> QED BY <2>1, FS_Subset
  <1> HIDE DEF A, B, to
  <1>6. to \in Bijection(A, B)
    BY <1>2, <1>3, <1>4 DEF Bijection, Injection, Surjection, IsInjective
  <1>7. Cardinality(B) = Cardinality(A)
    <2>1. ExistsBijection(A, B)
      BY <1>6 DEF ExistsBijection
    <2> QED BY <1>5, <2>1, FS_Bijection
  <1> QED BY <1>7 DEF A, B, Says

\* Feedback on a finding is found again when a line is put above it (dedup.py:33-47).
THEOREM FingerprintsLast == ReportSpec => []SurvivesDrift
  <1>1. ASSUME ReportIInv PROVE SurvivesDrift
    <2> SUFFICES ASSUME NEW i \in DOMAIN found, NEW file \in Files, NEW at \in 1..(Len(Text[file]) + 1),
                        NEW line \in UNION {ToSet(Text[g]) : g \in Files},
                        ~(/\ file = found[i].file /\ at <= found[i].start
                          /\ found[i].start \in DOMAIN Text[found[i].file]
                          /\ Text[found[i].file][found[i].start] = line)
                 PROVE  Fingerprint(Moved(found[i], file, at), Insert(Text, file, at, line))
                           = Fingerprint(found[i], Text)
      BY DEF SurvivesDrift
    <2> DEFINE f == found[i]
               g == Moved(f, file, at)
               lines == Text[file]
               more == With(lines, at, line)
               new == Insert(Text, file, at, line)
    <2>1. f \in Entries
      BY <1>1 DEF ReportIInv, ReportTypeOK
    <2>2. f.file \in Files /\ f.start \in Nat /\ f.end \in Int
      BY <2>1 DEF Entries
    <2>3. Text \in [Files -> Seq(STRING)] /\ lines \in Seq(STRING)
      BY ReportAssumption
    <2>4. new = [Text EXCEPT ![file] = more]
      BY <2>3 DEF Insert, With
    <2>5. line \in STRING
      BY <2>3 DEF ToSet
    <2> HIDE DEF f, new
    <2>6. CASE f.file # file
      <3>1. g = f
        BY <2>6 DEF Moved
      <3>2. new[f.file] = Text[f.file]
        BY <2>2, <2>3, <2>4, <2>6
      <3> QED BY <3>1, <3>2 DEF Fingerprint, f, new
    <2>7. CASE f.file = file
      <3>1. /\ Len(more) = Len(lines) + 1 /\ more[at] = line
            /\ \A n \in 1..(at - 1) : more[n] = lines[n]
            /\ \A n \in at..Len(lines) : more[n + 1] = lines[n]
        <4>1. at \in 1..(Len(lines) + 1)
          OBVIOUS
        <4> HIDE DEF lines
        <4>2. Len(more) = Len(lines) + 1 /\ more[at] = line /\ MovesOn(more, lines, at, Len(lines))
          BY <2>3, <2>5, <4>1, Inserted
        <4> QED BY <4>2 DEF MovesOn
      <3>2. new[file] = more /\ Text[f.file] = lines
        BY <2>3, <2>4, <2>7
      <3> HIDE DEF more
      <3>3. Len(lines) \in Nat /\ at \in Nat /\ 1 <= at /\ at <= Len(lines) + 1 /\ DOMAIN lines = 1..Len(lines)
        BY <2>3
      <3> HIDE DEF lines
      <3>4. CASE f.start < at
        <4>1. g = f
          BY <2>2, <3>3, <3>4 DEF Moved
        <4>2. CASE f.start = 0
          BY <2>7, <4>1, <4>2 DEF Fingerprint, f, new
        <4>3. CASE f.start # 0
          <5>1. f.start \in 1..(at - 1) /\ ~(f.start > Len(lines)) /\ ~(f.start > Len(more))
            BY <2>2, <3>1, <3>3, <3>4, <4>3
          <5>2. more[f.start] = lines[f.start]
            BY <3>1, <5>1
          <5>3. \A n \in 1..(f.start - 1) : more[n] = lines[n]
            BY <2>2, <3>1, <3>3, <5>1
          <5>4. {n \in 1..(f.start - 1) : more[n] = lines[f.start]} =
                   {n \in 1..(f.start - 1) : lines[n] = lines[f.start]}
            BY <5>3
          <5>5. Fingerprint(f, new) = <<f.tool, f.rule, f.file, <<lines[f.start],
                   Cardinality({n \in 1..(f.start - 1) : more[n] = lines[f.start]})>>>>
            BY <2>7, <3>2, <4>3, <5>1, <5>2 DEF Fingerprint
          <5>6. Fingerprint(f, Text) = <<f.tool, f.rule, f.file, <<lines[f.start],
                   Cardinality({n \in 1..(f.start - 1) : lines[n] = lines[f.start]})>>>>
            BY <3>2, <4>3, <5>1 DEF Fingerprint
          <5> QED BY <4>1, <5>4, <5>5, <5>6 DEF f, new
        <4> QED BY <4>2, <4>3
      <3>5. CASE ~(f.start < at)
        <4>1. /\ g = [f EXCEPT !.start = f.start + 1, !.end = f.end + 1] /\ f.start # 0
              /\ f.start >= at
          BY <2>2, <2>7, <3>3, <3>5 DEF Moved
        <4>2. /\ g.start = f.start + 1 /\ g.tool = f.tool /\ g.rule = f.rule /\ g.file = f.file
              /\ g.start # 0
          BY <2>1, <2>2, <4>1 DEF Entries
        <4> HIDE DEF g
        <4>3. CASE f.start > Len(lines)
          <5>1. g.start > Len(more)
            BY <2>2, <3>1, <3>3, <4>2, <4>3
          <5> QED BY <2>7, <3>2, <4>1, <4>2, <4>3, <5>1 DEF Fingerprint, f, g, new
        <4>4. CASE ~(f.start > Len(lines))
          <5>1. f.start \in at..Len(lines) /\ ~(g.start > Len(more)) /\ g.start - 1 = f.start
                /\ f.start \in 1..Len(lines)
            BY <2>2, <3>1, <3>3, <4>1, <4>2, <4>4
          <5>2. more[g.start] = lines[f.start]
            BY <3>1, <4>2, <5>1
          <5>3. lines[f.start] # line
            BY <2>7, <3>2, <3>3, <4>1, <5>1 DEF f
          <5>4. Cardinality({n \in 1..f.start : more[n] = lines[f.start]}) =
                   Cardinality({n \in 1..(f.start - 1) : lines[n] = lines[f.start]})
            <6> DEFINE word == lines[f.start]
                       start == f.start
            <6>1. more[at] # word
              BY <3>1, <5>3
            <6>2. \A n \in at..(start - 1) : more[n + 1] = lines[n]
              <7> SUFFICES ASSUME NEW n \in at..(start - 1) PROVE more[n + 1] = lines[n]
                OBVIOUS
              <7>1. n \in at..Len(lines)
                BY <2>2, <3>3, <5>1
              <7> QED BY <3>1, <7>1
            <6>3. start \in Nat /\ at <= start
              BY <2>2, <4>1
            <6> HIDE DEF word, start
            <6>5. MovesOn(more, lines, at, start - 1)
              BY <3>1, <6>2 DEF MovesOn
            <6>4. Cardinality(Says(more, start, word)) = Cardinality(Says(lines, start - 1, word))
              <7>1. at \in Nat /\ 1 <= at
                BY <3>3
              <7> QED BY <6>1, <6>3, <6>5, <7>1, SameCount
            <6> QED BY <6>4 DEF word, start, Says
          <5>5. Fingerprint(g, new) = <<g.tool, g.rule, g.file, <<lines[f.start],
                   Cardinality({n \in 1..(g.start - 1) : more[n] = lines[f.start]})>>>>
            BY <2>7, <3>2, <4>2, <5>1, <5>2 DEF Fingerprint
          <5>6. Fingerprint(f, Text) = <<f.tool, f.rule, f.file, <<lines[f.start],
                   Cardinality({n \in 1..(f.start - 1) : lines[n] = lines[f.start]})>>>>
            BY <3>2, <4>1, <4>4 DEF Fingerprint
          <5> QED BY <4>2, <5>1, <5>4, <5>5, <5>6 DEF f, g, new
        <4> QED BY <4>3, <4>4
      <3> QED BY <3>4, <3>5
    <2> QED BY <2>6, <2>7
  <1> QED BY <1>1, ReportInvariance, PTL

-----------------------------------------------------------------------------
(* The order of the candidates.                                            *)

\* The i-th is what the first k of a list leave of its fingerprint: the first of the
\* most severe.
Wins(list, k, i) ==
    \A j \in 1..k : Same(list[j], list[i]) =>
        /\ list[i].severity <= list[j].severity
        /\ j < i => list[i].severity < list[j].severity

Winners(kept, list, k) ==
    /\ \A m \in DOMAIN kept : \E i \in 1..k : kept[m] = list[i] /\ Wins(list, k, i)
    /\ \A i \in 1..k : Wins(list, k, i) => \E m \in DOMAIN kept : kept[m] = list[i]

LEMMA WinnersSoFar ==
    ASSUME NEW list \in Seq(Entries), NEW k \in 1..Len(list), NEW i \in 1..(k - 1)
    PROVE  Wins(list, k, i) <=> /\ Wins(list, k - 1, i)
                                /\ Same(list[k], list[i]) => list[i].severity <= list[k].severity
  <1>1. /\ Len(list) \in Nat /\ 1..k = 1..(k - 1) \cup {k} /\ k \in Nat /\ i \in Nat /\ ~(k < i)
    OBVIOUS
  <1> QED BY <1>1 DEF Wins

LEMMA KeepOneWinners ==
    ASSUME NEW list \in Seq(Entries), NEW k \in 1..Len(list), NEW kept \in Seq(Entries),
           Holds(kept, list, k - 1), Winners(kept, list, k - 1)
    PROVE  Winners(KeepOne(kept, list[k]), list, k)
  <1> DEFINE f == list[k]
             twins == {i \in DOMAIN kept : Same(kept[i], f)}
             new == KeepOne(kept, f)
  <1>0. /\ \A n \in 1..k : list[n].severity \in Nat
        /\ 1..k = 1..(k - 1) \cup {k} /\ k \in Nat /\ k \in 1..k
        /\ \A i \in 1..(k - 1) : i \in Nat /\ i < k
    <2>1. \A g \in Entries : g.severity \in Nat
      BY DEF Entries
    <2>2. \A n \in 1..k : list[n] \in Entries
      OBVIOUS
    <2> QED BY <2>1, <2>2
  <1>1. CASE twins = {}
    <2>1. /\ DOMAIN new = DOMAIN kept \cup {Len(kept) + 1} /\ new[Len(kept) + 1] = f
          /\ \A m \in DOMAIN kept : new[m] = kept[m]
      BY <1>1 DEF KeepOne
    <2>2. \A i \in 1..(k - 1) : ~Same(list[i], f) /\ ~Same(f, list[i])
      <3> SUFFICES ASSUME NEW i \in 1..(k - 1), Same(list[i], f) \/ Same(f, list[i]) PROVE FALSE
        OBVIOUS
      <3>1. PICK m \in DOMAIN kept : Same(kept[m], list[i])
        BY DEF Holds
      <3>2. Same(kept[m], f)
        BY <3>1 DEF Same
      <3> QED BY <1>1, <3>2
    <2>3. \A i \in 1..(k - 1) : Wins(list, k, i) <=> Wins(list, k - 1, i)
      BY <2>2, WinnersSoFar
    <2>4. Wins(list, k, k)
      BY <1>0, <2>2 DEF Wins
    <2> HIDE DEF new, twins
    <2>5. \A m \in DOMAIN new : \E i \in 1..k : new[m] = list[i] /\ Wins(list, k, i)
      BY <1>0, <2>1, <2>3, <2>4 DEF Winners
    <2>6. \A i \in 1..k : Wins(list, k, i) => \E m \in DOMAIN new : new[m] = list[i]
      BY <1>0, <2>1, <2>3 DEF Winners
    <2> QED BY <2>5, <2>6 DEF Winners, new
  <1>2. CASE twins # {}
    <2>1. PICK t \in DOMAIN kept : Same(kept[t], f)
      BY <1>2
    <2>2. \A m \in DOMAIN kept : Same(kept[m], f) => m = t
      BY <2>1 DEF Same, Holds
    <2>3. /\ DOMAIN new = DOMAIN kept
          /\ \A m \in DOMAIN kept \ {t} : new[m] = kept[m]
          /\ new[t] = IF f.severity < kept[t].severity THEN f ELSE kept[t]
      BY <1>2, <2>1, <2>2 DEF KeepOne
    <2>4. PICK w \in 1..(k - 1) : kept[t] = list[w] /\ Wins(list, k - 1, w)
      BY DEF Winners
    <2>5. \A m \in DOMAIN kept \ {t} : ~Same(f, kept[m])
      BY <2>2 DEF Same
    <2> HIDE DEF new, twins, f
    <2>6. ASSUME NEW m \in DOMAIN kept \ {t}
          PROVE  \E i \in 1..k : new[m] = list[i] /\ Wins(list, k, i)
      <3>1. PICK i \in 1..(k - 1) : kept[m] = list[i] /\ Wins(list, k - 1, i)
        BY DEF Winners
      <3>2. Wins(list, k, i)
        BY <2>5, <3>1, WinnersSoFar DEF f
      <3> QED BY <1>0, <2>3, <3>1, <3>2
    <2>7. CASE f.severity < kept[t].severity
      <3>1. Wins(list, k, k)
        <4> SUFFICES ASSUME NEW j \in 1..(k - 1), Same(list[j], list[k])
                     PROVE  list[k].severity < list[j].severity
          BY <1>0 DEF Wins
        <4>1. Same(list[j], list[w])
          BY <2>1, <2>4 DEF Same, f
        <4>2. list[w].severity <= list[j].severity
          BY <2>4, <4>1 DEF Wins
        <4>3. list[k].severity < list[w].severity
          BY <2>4, <2>7 DEF f
        <4>4. /\ list[k].severity \in Nat /\ list[w].severity \in Nat
              /\ list[j].severity \in Nat
          BY <1>0
        <4> QED BY <4>2, <4>3, <4>4
      <3>2. \A m \in DOMAIN new : \E i \in 1..k : new[m] = list[i] /\ Wins(list, k, i)
        BY <1>0, <2>3, <2>6, <2>7, <3>1 DEF f
      <3>3. ASSUME NEW i \in 1..k, Wins(list, k, i)
            PROVE  \E m \in DOMAIN new : new[m] = list[i]
        <4>1. CASE i = k
          BY <2>3, <2>7, <4>1 DEF f
        <4>2. CASE i # k
          <5>1. i \in 1..(k - 1)
            BY <1>0, <4>2
          <5>2. Wins(list, k - 1, i) /\ (Same(f, list[i]) => list[i].severity <= f.severity)
            BY <3>3, <5>1, WinnersSoFar DEF f
          <5>3. PICK m \in DOMAIN kept : kept[m] = list[i]
            BY <5>1, <5>2 DEF Winners
          <5>4. m # t
            <6> SUFFICES ASSUME m = t PROVE FALSE
              OBVIOUS
            <6>1. Same(f, list[i])
              BY <2>1, <5>3 DEF Same
            <6> QED BY <1>0, <2>7, <5>2, <5>3, <6>1 DEF f
          <5> QED BY <2>3, <5>3, <5>4
        <4> QED BY <4>1, <4>2
      <3> QED BY <3>2, <3>3 DEF Winners, new, f
    <2>8. CASE ~(f.severity < kept[t].severity)
      <3>1. ~Wins(list, k, k)
        <4>1. Same(list[w], list[k]) /\ w \in 1..k /\ w < k
          BY <1>0, <2>1, <2>4 DEF f
        <4> QED BY <2>4, <2>8, <4>1 DEF Wins, f
      <3>2. Wins(list, k, w)
        BY <1>0, <2>4, <2>8, WinnersSoFar DEF f
      <3>3. new[t] = list[w] /\ w \in 1..k
        BY <1>0, <2>3, <2>4, <2>8
      <3>4. \A m \in DOMAIN new : \E i \in 1..k : new[m] = list[i] /\ Wins(list, k, i)
        BY <2>3, <2>6, <3>2, <3>3
      <3>5. ASSUME NEW i \in 1..k, Wins(list, k, i)
            PROVE  \E m \in DOMAIN new : new[m] = list[i]
        <4>1. i \in 1..(k - 1)
          BY <1>0, <3>1, <3>5
        <4>2. PICK m \in DOMAIN kept : kept[m] = list[i]
          BY <3>5, <4>1, WinnersSoFar DEF Winners
        <4> QED BY <2>3, <2>8, <4>2
      <3> QED BY <3>4, <3>5 DEF Winners, new, f
    <2> QED BY <2>7, <2>8
  <1> QED BY <1>1, <1>2

\* by_fp holds the winners (dedup.py:138-142).
LEMMA KeptWinners ==
    ASSUME NEW list \in Seq(Entries)
    PROVE  Winners(Kept(list), list, Len(list))
  <1>1. PICK acc \in [0..Len(list) -> Seq(Entries)] :
           /\ acc[0] = <<>> /\ acc[Len(list)] = Kept(list)
           /\ \A i \in 1..Len(list) : acc[i] = KeepOne(acc[i - 1], list[i])
    BY KeptUnrolls
  <1> DEFINE Good == {k \in Nat : k <= Len(list) => /\ Holds(acc[k], list, k)
                                                    /\ Winners(acc[k], list, k)}
  <1>2. 0 \in Good
    BY <1>1 DEF Holds, Winners
  <1>3. ASSUME NEW k \in Nat, k \in Good PROVE k + 1 \in Good
    <2> SUFFICES ASSUME k + 1 <= Len(list)
                 PROVE  Holds(acc[k + 1], list, k + 1) /\ Winners(acc[k + 1], list, k + 1)
      OBVIOUS
    <2>1. (k + 1) - 1 = k /\ k + 1 \in 1..Len(list) /\ k \in 0..Len(list)
      OBVIOUS
    <2>2. /\ Holds(acc[(k + 1) - 1], list, (k + 1) - 1)
          /\ Winners(acc[(k + 1) - 1], list, (k + 1) - 1)
          /\ acc[(k + 1) - 1] \in Seq(Entries)
      BY <1>3, <2>1
    <2>3. acc[k + 1] = KeepOne(acc[(k + 1) - 1], list[k + 1])
      BY <1>1, <2>1
    <2>4. Holds(acc[k + 1], list, k + 1)
      BY <2>1, <2>2, <2>3, KeepOneHolds
    <2>5. Winners(acc[k + 1], list, k + 1)
      BY <2>1, <2>2, <2>3, KeepOneWinners
    <2> QED BY <2>4, <2>5
  <1>4. \A k \in Nat : k \in Good
    <2> HIDE DEF Good
    <2> QED BY <1>2, <1>3, NumberInduction
  <1>5. Len(list) \in Nat /\ Len(list) \in 0..Len(list)
    OBVIOUS
  <1> QED BY <1>1, <1>4, <1>5

\* moved has the findings of all with the last-th at its end; place says where each was.
Shift(place, last, n) ==
    place = [k \in 1..n |-> IF k < last THEN k ELSE IF k < n THEN k + 1 ELSE last]

\* It is a permutation that keeps the order of the others.
Reorders(place, last, n) ==
    /\ \A k \in 1..n : place[k] \in 1..n
    /\ \A k \in 1..(n - 1) : place[k] # last
    /\ \A j, k \in 1..(n - 1) : place[j] < place[k] <=> j < k
    /\ place[n] = last /\ n \in 1..n /\ 1..n = 1..(n - 1) \cup {n}
    /\ \A i \in 1..n : \E k \in 1..n : place[k] = i

LEMMA ShiftMoves ==
    ASSUME NEW n \in Nat, NEW last \in 1..n, NEW place, Shift(place, last, n)
    PROVE  Reorders(place, last, n)
  <1>1. \A k \in 1..n : place[k] = IF k < last THEN k ELSE IF k < n THEN k + 1 ELSE last
    BY DEF Shift
  <1>2. /\ \A k \in 1..n : place[k] \in 1..n
        /\ \A k \in 1..(n - 1) : place[k] # last
        /\ place[n] = last /\ n \in 1..n /\ 1..n = 1..(n - 1) \cup {n}
    BY <1>1
  <1>3. \A j, k \in 1..(n - 1) : place[j] < place[k] <=> j < k
    BY <1>1
  <1>4. ASSUME NEW i \in 1..n PROVE \E k \in 1..n : place[k] = i
    <2>1. CASE i < last
      BY <1>1, <2>1
    <2>2. CASE i = last
      BY <1>2, <2>2
    <2>3. CASE i > last
      <3>1. i - 1 \in 1..n /\ ~(i - 1 < last) /\ i - 1 < n /\ (i - 1) + 1 = i
        BY <2>3
      <3> QED BY <1>1, <3>1
    <2> QED BY <2>1, <2>2, <2>3
  <1> QED BY <1>2, <1>3, <1>4 DEF Reorders

LEMMA MovedToTheEnd ==
    ASSUME NEW all \in Seq(Entries), NEW last \in DOMAIN all
    PROVE  /\ Append(RemoveAt(all, last), all[last]) \in Seq(Entries)
           /\ Len(Append(RemoveAt(all, last), all[last])) = Len(all)
           /\ \E place : /\ Shift(place, last, Len(all))
                         /\ \A k \in 1..Len(all) :
                               Append(RemoveAt(all, last), all[last])[k] = all[place[k]]
  <1> DEFINE n == Len(all)
             head == SubSeq(all, 1, last - 1)
             tail == SubSeq(all, last + 1, n)
             moved == Append(head \o tail, all[last])
  <1>1. n \in Nat /\ last \in 1..n /\ DOMAIN all = 1..n
    OBVIOUS
  <1>2. /\ head \in Seq(Entries) /\ Len(head) = last - 1
        /\ \A k \in 1..(last - 1) : head[k] = all[k]
    OBVIOUS
  <1>3. /\ tail \in Seq(Entries) /\ Len(tail) = n - last
        /\ \A k \in 1..(n - last) : tail[k] = all[last + k]
    <2>1. tail \in Seq(Entries)
      OBVIOUS
    <2>2. Len(tail) = n - last
      OBVIOUS
    <2>3. ASSUME NEW k \in 1..(n - last) PROVE tail[k] = all[last + k]
      <3>1. tail[k] = all[(last + 1) + k - 1] /\ (last + 1) + k - 1 = last + k
        OBVIOUS
      <3> QED BY <3>1
    <2> QED BY <2>1, <2>2, <2>3
  <1> HIDE DEF head, tail, n
  <1>4. /\ head \o tail \in Seq(Entries) /\ Len(head \o tail) = n - 1
        /\ \A k \in 1..(n - 1) :
              (head \o tail)[k] = IF k < last THEN head[k] ELSE tail[k - (last - 1)]
    <2> DEFINE body == head \o tail
    <2>1. /\ body \in Seq(Entries) /\ Len(body) = Len(head) + Len(tail)
          /\ \A p \in DOMAIN head : body[p] = head[p]
          /\ \A q \in DOMAIN tail : body[q + Len(head)] = tail[q]
      <3>1. head \in Seq(Entries) /\ tail \in Seq(Entries)
        BY <1>2, <1>3
      <3>2. /\ head \o tail \in Seq(Entries) /\ Len(head \o tail) = Len(head) + Len(tail)
            /\ \A p \in DOMAIN head : p \in DOMAIN (head \o tail) /\ (head \o tail)[p] = head[p]
            /\ \A q \in DOMAIN tail : q + Len(head) \in DOMAIN (head \o tail)
                                      /\ (head \o tail)[q + Len(head)] = tail[q]
        <4> HIDE DEF body, n
        <4> QED BY <3>1, Concatenation
      <3> QED BY <3>2
    <2> HIDE DEF body
    <2>2. DOMAIN head = 1..(last - 1) /\ DOMAIN tail = 1..(n - last)
      BY <1>2, <1>3
    <2>3. Len(body) = n - 1
      BY <1>1, <1>2, <1>3, <2>1
    <2>4. ASSUME NEW k \in 1..(n - 1)
          PROVE  body[k] = IF k < last THEN head[k] ELSE tail[k - (last - 1)]
      <3>1. CASE k < last
        BY <1>1, <2>1, <2>2, <3>1
      <3>2. CASE ~(k < last)
        <4>1. k - (last - 1) \in DOMAIN tail /\ (k - (last - 1)) + Len(head) = k
          BY <1>1, <1>2, <2>2, <3>2
        <4> QED BY <2>1, <3>2, <4>1
      <3> QED BY <3>1, <3>2
    <2> QED BY <2>1, <2>3, <2>4 DEF body
  <1>5. moved \in Seq(Entries) /\ Len(moved) = n
        /\ moved[n] = all[last] /\ \A k \in 1..(n - 1) : moved[k] = (head \o tail)[k]
    <2>1. all[last] \in Entries /\ (n - 1) + 1 = n
      BY <1>1
    <2> DEFINE body == head \o tail
    <2>2. body \in Seq(Entries) /\ Len(body) = n - 1
      BY <1>4
    <2> HIDE DEF body
    <2>3. /\ Append(body, all[last]) \in Seq(Entries) /\ Len(Append(body, all[last])) = n
          /\ Append(body, all[last])[n] = all[last]
          /\ \A k \in 1..(n - 1) : Append(body, all[last])[k] = body[k]
      BY <1>1, <2>1, <2>2
    <2> QED BY <2>3 DEF body
  <1> HIDE DEF moved
  <1> DEFINE place == [k \in 1..n |-> IF k < last THEN k ELSE IF k < n THEN k + 1 ELSE last]
  <1>6. Shift(place, last, n)
    BY DEF Shift
  <1>7. ASSUME NEW k \in 1..n PROVE moved[k] = all[place[k]]
    <2>1. CASE k < last
      <3>1. k \in 1..(n - 1) /\ k \in 1..(last - 1) /\ place[k] = k
        BY <1>1, <2>1
      <3> QED BY <1>2, <1>4, <1>5, <2>1, <3>1
    <2>2. CASE ~(k < last) /\ k < n
      <3>1. /\ k \in 1..(n - 1) /\ k - (last - 1) \in 1..(n - last)
            /\ last + (k - (last - 1)) = k + 1 /\ place[k] = k + 1
        BY <1>1, <2>2
      <3> HIDE DEF place
      <3> QED BY <1>3, <1>4, <1>5, <2>2, <3>1
    <2>3. CASE ~(k < n)
      <3>1. k = n /\ ~(n < last) /\ ~(n < n) /\ place[k] = last
        BY <1>1, <2>3
      <3> QED BY <1>5, <3>1
    <2> QED BY <2>1, <2>2, <2>3
  <1>8. Append(RemoveAt(all, last), all[last]) = moved
    BY DEF RemoveAt, moved, head, tail, n
  <1> HIDE DEF place
  <1> QED BY <1>5, <1>6, <1>7, <1>8 DEF n

\* No candidate is a twin of another finding.
Lone(list) == \A i, j \in DOMAIN list : i # j /\ IsAi(list[i]) => ~Same(list[i], list[j])

\* What is kept of a list does not depend on where a candidate without twins stands.
LEMMA KeptStays ==
    ASSUME NEW all \in Seq(Entries), Lone(all), NEW last \in DOMAIN all, IsAi(all[last]),
           NEW moved \in Seq(Entries), Len(moved) = Len(all),
           NEW place, Shift(place, last, Len(all)),
           \A k \in 1..Len(all) : moved[k] = all[place[k]]
    PROVE  \A f : (\E m \in DOMAIN Kept(moved) : Kept(moved)[m] = f)
                  <=> (\E m \in DOMAIN Kept(all) : Kept(all)[m] = f)
  <1> DEFINE n == Len(all)
  <1>0. /\ n \in Nat /\ last \in 1..n /\ DOMAIN all = 1..n
        /\ \A i \in 1..n : all[i].severity \in Nat
    <2>1. \A g \in Entries : g.severity \in Nat
      BY DEF Entries
    <2> QED BY <2>1
  <1> HIDE DEF n
  <1>1. /\ \A k \in 1..n : place[k] \in 1..n
        /\ \A k \in 1..(n - 1) : place[k] # last
        /\ \A j, k \in 1..(n - 1) : place[j] < place[k] <=> j < k
        /\ place[n] = last /\ n \in 1..n /\ 1..n = 1..(n - 1) \cup {n}
        /\ \A i \in 1..n : \E k \in 1..n : place[k] = i
    <2>1. n \in Nat /\ last \in 1..n /\ Shift(place, last, n)
      BY <1>0 DEF n
    <2>2. Reorders(place, last, n)
      BY <2>1, ShiftMoves
    <2> QED BY <2>2 DEF Reorders
  <1>2. \A j \in 1..n : j # last => ~Same(all[j], all[last]) /\ ~Same(all[last], all[j])
    BY <1>0 DEF Lone, Same
  <1>3. \A k \in 1..n : moved[k] = all[place[k]]
    BY DEF n
  <1>4. ASSUME NEW k \in 1..(n - 1) PROVE Wins(moved, n, k) <=> Wins(all, n, place[k])
    <2>1. k \in 1..n /\ place[k] \in 1..n /\ place[k] # last /\ moved[k] = all[place[k]]
      BY <1>1, <1>3
    <2>2. ASSUME Wins(moved, n, k), NEW i \in 1..n, Same(all[i], all[place[k]])
          PROVE  /\ all[place[k]].severity <= all[i].severity
                 /\ i < place[k] => all[place[k]].severity < all[i].severity
      <3>1. PICK j \in 1..n : place[j] = i
        BY <1>1
      <3>2. i # last
        BY <1>2, <2>1, <2>2
      <3>3. j \in 1..(n - 1)
        BY <1>1, <3>1, <3>2
      <3>4. moved[j] = all[i] /\ Same(moved[j], moved[k]) /\ (i < place[k] <=> j < k)
        BY <1>1, <1>3, <2>1, <2>2, <3>1, <3>3
      <3> QED BY <2>1, <2>2, <3>4 DEF Wins
    <2>3. ASSUME Wins(all, n, place[k]), NEW j \in 1..n, Same(moved[j], moved[k])
          PROVE  /\ moved[k].severity <= moved[j].severity
                 /\ j < k => moved[k].severity < moved[j].severity
      <3>1. place[j] \in 1..n /\ moved[j] = all[place[j]] /\ Same(all[place[j]], all[place[k]])
        BY <1>1, <1>3, <2>1, <2>3
      <3>2. place[j] # last
        BY <1>2, <2>1, <3>1
      <3>3. j \in 1..(n - 1)
        BY <1>1, <3>2
      <3>4. place[j] < place[k] <=> j < k
        BY <1>1, <3>3
      <3> QED BY <2>1, <2>3, <3>1, <3>4 DEF Wins
    <2> QED BY <2>2, <2>3 DEF Wins
  <1>5. Wins(moved, n, n)
    <2> SUFFICES ASSUME NEW j \in 1..n, Same(moved[j], moved[n])
                 PROVE  /\ moved[n].severity <= moved[j].severity
                        /\ j < n => moved[n].severity < moved[j].severity
      BY DEF Wins
    <2>1. moved[n] = all[last] /\ place[j] \in 1..n /\ moved[j] = all[place[j]]
      BY <1>1, <1>3
    <2>2. place[j] = last
      BY <1>2, <2>1
    <2>3. j = n
      BY <1>1, <2>2
    <2> QED BY <1>0, <2>1, <2>3
  <1>6. Wins(all, n, last)
    BY <1>0, <1>2 DEF Wins
  <1>7. \A k \in 1..n : Wins(moved, n, k) <=> Wins(all, n, place[k])
    BY <1>1, <1>4, <1>5, <1>6
  <1>8. Winners(Kept(moved), moved, n) /\ Winners(Kept(all), all, n)
    BY KeptWinners DEF n
  <1>9. ASSUME NEW m \in DOMAIN Kept(moved)
        PROVE  \E l \in DOMAIN Kept(all) : Kept(all)[l] = Kept(moved)[m]
    <2>1. PICK k \in 1..n : Kept(moved)[m] = moved[k] /\ Wins(moved, n, k)
      BY <1>8 DEF Winners
    <2>2. place[k] \in 1..n /\ Wins(all, n, place[k]) /\ moved[k] = all[place[k]]
      BY <1>1, <1>3, <1>7, <2>1
    <2> QED BY <1>8, <2>1, <2>2 DEF Winners
  <1>10. ASSUME NEW l \in DOMAIN Kept(all)
         PROVE  \E m \in DOMAIN Kept(moved) : Kept(moved)[m] = Kept(all)[l]
    <2>1. PICK i \in 1..n : Kept(all)[l] = all[i] /\ Wins(all, n, i)
      BY <1>8 DEF Winners
    <2>2. PICK k \in 1..n : place[k] = i
      BY <1>1
    <2>3. Wins(moved, n, k) /\ moved[k] = all[i]
      BY <1>3, <1>7, <2>1, <2>2
    <2> QED BY <1>8, <2>1, <2>3 DEF Winners
  <1> QED BY <1>9, <1>10

\* The finding of a tool that a candidate is merged into, among some of them.
Takes(f, ai, some) ==
    /\ IsAi(ai) /\ f \in some /\ Mergeable(ai, f)
    /\ \A g \in some \ {f} : Mergeable(ai, g) => Closer(ai, f, g)
Alone(ai, some) == IsAi(ai) /\ \A f \in some : ~Takes(f, ai, some)

Values(list) == {list[i] : i \in DOMAIN list}
Single(list) == \A p, q \in DOMAIN list : list[p] = list[q] => p = q

\* list has the findings of rest in their places, merged or not, and then candidates.
Follows(list, rest) ==
    /\ DOMAIN rest \subseteq DOMAIN list
    /\ \A p \in DOMAIN rest : Alike(list[p], rest[p]) /\ ~IsAi(rest[p])
    /\ \A p \in DOMAIN list \ DOMAIN rest : IsAi(list[p])

\* Who is closer than all others is the target.
LEMMA ClosestIsTarget ==
    ASSUME NEW list \in Seq(Entries), NEW ai \in Entries, NEW t \in DOMAIN list,
           Mergeable(ai, list[t]),
           \A q \in DOMAIN list \ {t} : Mergeable(ai, list[q]) => Closer(ai, list[t], list[q])
    PROVE  MergeTarget(ai, list) = {t}
  <1> DEFINE matches == {i \in DOMAIN list : Mergeable(ai, list[i])}
             best == {i \in matches : \A j \in matches : ~Closer(ai, list[j], list[i])}
  <1>1. \A i \in DOMAIN list : Gap(ai, list[i]) \in Int
    <2>1. \A f \in Entries : f.start \in Int /\ f.end \in Int
      BY DEF Entries
    <2>2. \A f \in Entries : Gap(ai, f) \in Int
      BY <2>1 DEF Gap
    <2> QED BY <2>2
  <1>2. \A i, j \in DOMAIN list : Closer(ai, list[i], list[j]) => ~Closer(ai, list[j], list[i])
    BY <1>1 DEF Closer
  <1>3. t \in best
    BY <1>1, <1>2 DEF Closer
  <1>4. \A q \in best : q = t
    OBVIOUS
  <1>5. best = {t}
    <2> HIDE DEF best
    <2> QED BY <1>3, <1>4
  <1>6. Cardinality(best) = 1
    BY <1>5, FS_Singleton
  <1> HIDE DEF best, matches
  <1> QED BY <1>5, <1>6 DEF MergeTarget, best, matches

\* The target of a candidate is the finding that takes it, whatever was merged before.
LEMMA TargetTakes ==
    ASSUME NEW list \in Seq(Entries), NEW rest \in Seq(Entries), Follows(list, rest),
           Single(rest),
           NEW ai \in Entries, IsAi(ai)
    PROVE  /\ \A p \in DOMAIN rest :
                 MergeTarget(ai, list) = {p} <=> Takes(rest[p], ai, Values(rest))
           /\ MergeTarget(ai, list) = {} <=> Alone(ai, Values(rest))
           /\ MergeTarget(ai, list) # {} => \E p \in DOMAIN rest : MergeTarget(ai, list) = {p}
  <1>1. \A p \in DOMAIN list \ DOMAIN rest : ~Mergeable(ai, list[p])
    BY DEF Follows, Mergeable, IsAi
  <1>2. ASSUME NEW p \in DOMAIN rest
        PROVE  Mergeable(ai, list[p]) <=> Mergeable(ai, rest[p])
    <2>1. list[p] \in Entries /\ rest[p] \in Entries /\ Alike(list[p], rest[p])
      BY DEF Follows
    <2> QED BY <2>1, AlikeMerges
  <1>3. ASSUME NEW p \in DOMAIN rest, NEW q \in DOMAIN rest
        PROVE  Closer(ai, list[p], list[q]) <=> Closer(ai, rest[p], rest[q])
    <2>1. list[p] \in Entries /\ rest[p] \in Entries /\ Alike(list[p], rest[p])
      BY DEF Follows
    <2>2. list[q] \in Entries /\ rest[q] \in Entries /\ Alike(list[q], rest[q])
      BY DEF Follows
    <2>3. /\ Gap(ai, list[p]) = Gap(ai, rest[p]) /\ list[p].category = rest[p].category
          /\ Gap(ai, list[q]) = Gap(ai, rest[q]) /\ list[q].category = rest[q].category
      BY <2>1, <2>2, AlikeMerges
    <2> QED BY <2>3 DEF Closer
  <1>4. ASSUME NEW p \in DOMAIN rest, Takes(rest[p], ai, Values(rest))
        PROVE  MergeTarget(ai, list) = {p}
    <2>1. p \in DOMAIN list /\ Mergeable(ai, list[p])
      BY <1>2, <1>4 DEF Follows, Takes
    <2>2. ASSUME NEW q \in DOMAIN list \ {p}, Mergeable(ai, list[q])
          PROVE  Closer(ai, list[p], list[q])
      <3>1. q \in DOMAIN rest
        BY <1>1, <2>2
      <3>2. rest[q] \in Values(rest) \ {rest[p]}
        BY <3>1 DEF Values, Single
      <3>3. Closer(ai, rest[p], rest[q])
        BY <1>2, <1>4, <2>2, <3>1, <3>2 DEF Takes
      <3> QED BY <1>3, <3>1, <3>3
    <2> QED BY <2>1, <2>2, ClosestIsTarget
  <1>5. ASSUME MergeTarget(ai, list) # {}
        PROVE  \E p \in DOMAIN rest :
                  MergeTarget(ai, list) = {p} /\ Takes(rest[p], ai, Values(rest))
    <2>1. PICK t \in DOMAIN list :
             /\ MergeTarget(ai, list) = {t} /\ Mergeable(ai, list[t])
             /\ \A q \in DOMAIN list \ {t} : Mergeable(ai, list[q]) => Closer(ai, list[t], list[q])
      BY <1>5, TargetIsClosest
    <2>2. t \in DOMAIN rest
      BY <1>1, <2>1
    <2>3. ASSUME NEW g \in Values(rest) \ {rest[t]}, Mergeable(ai, g)
          PROVE  Closer(ai, rest[t], g)
      <3>1. PICK q \in DOMAIN rest : g = rest[q]
        BY DEF Values
      <3>2. q \in DOMAIN list \ {t}
        BY <3>1 DEF Follows
      <3> QED BY <1>2, <1>3, <2>1, <2>2, <2>3, <3>1, <3>2
    <2>4. Takes(rest[t], ai, Values(rest))
      BY <1>2, <2>1, <2>2, <2>3 DEF Takes, Values
    <2> QED BY <2>1, <2>2, <2>4
  <1>6. \A p \in DOMAIN rest : MergeTarget(ai, list) = {p} => Takes(rest[p], ai, Values(rest))
    BY <1>5
  <1>7. MergeTarget(ai, list) = {} <=> Alone(ai, Values(rest))
    <2>1. ASSUME MergeTarget(ai, list) # {} PROVE ~Alone(ai, Values(rest))
      BY <1>5, <2>1 DEF Alone, Values
    <2>2. ASSUME MergeTarget(ai, list) = {} PROVE Alone(ai, Values(rest))
      <3> SUFFICES ASSUME NEW f \in Values(rest), Takes(f, ai, Values(rest)) PROVE FALSE
        BY DEF Alone
      <3>1. PICK p \in DOMAIN rest : f = rest[p]
        BY DEF Values
      <3> QED BY <1>4, <2>2, <3>1
    <2> QED BY <2>1, <2>2
  <1> QED BY <1>4, <1>5, <1>6, <1>7

\* g is f with what it takes of the first k that were kept.
Dressed(g, f, kept, k, some) ==
    /\ Alike(g, f)
    /\ \A n : n \in g.notes <=> \E j \in 1..k : kept[j].id = n /\ Takes(f, kept[j], some)
    /\ g.confidence <= f.confidence
    /\ \A j \in 1..k : Takes(f, kept[j], some) => g.confidence <= kept[j].confidence
    /\ \/ g.confidence = f.confidence
       \/ \E j \in 1..k : Takes(f, kept[j], some) /\ g.confidence = kept[j].confidence

\* list is rest with the first k that were kept: each is taken, or stands alone.
Gathers(list, rest, kept, k) ==
    /\ Follows(list, rest)
    /\ \A p \in DOMAIN rest : Dressed(list[p], rest[p], kept, k, Values(rest))
    /\ \A p \in DOMAIN list \ DOMAIN rest : \E j \in 1..k :
          list[p] = kept[j] /\ Alone(kept[j], Values(rest))
    /\ \A j \in 1..k : Alone(kept[j], Values(rest)) =>
          \E p \in DOMAIN list \ DOMAIN rest : list[p] = kept[j]

\* A finding that does not take the next stays dressed as it is.
LEMMA DressedStill ==
    ASSUME NEW g, NEW f, NEW kept, NEW k \in Nat \ {0}, NEW some,
           Dressed(g, f, kept, k - 1, some), ~Takes(f, kept[k], some)
    PROVE  Dressed(g, f, kept, k, some)
  <1>1. 1..k = 1..(k - 1) \cup {k}
    OBVIOUS
  <1> QED BY <1>1 DEF Dressed

\* One that takes it has its note, and no less confidence.
LEMMA DressedMore ==
    ASSUME NEW g \in Entries, NEW f \in Entries, NEW kept \in Seq(Entries), NEW k \in 1..Len(kept),
           NEW some, Dressed(g, f, kept, k - 1, some), Takes(f, kept[k], some),
           NEW h \in Entries, Alike(h, g), h.notes = g.notes \cup {kept[k].id},
           h.confidence = IF kept[k].confidence < g.confidence THEN kept[k].confidence ELSE g.confidence
    PROVE  Dressed(h, f, kept, k, some)
  <1>1. 1..k = 1..(k - 1) \cup {k} /\ k \in 1..k
    OBVIOUS
  <1>2. /\ g.confidence \in Nat /\ f.confidence \in Nat /\ h.confidence \in Nat
        /\ \A j \in 1..k : kept[j].confidence \in Nat
    <2>1. \A e \in Entries : e.confidence \in Nat
      BY DEF Entries
    <2>2. \A j \in 1..k : kept[j] \in Entries
      OBVIOUS
    <2> QED BY <2>1, <2>2
  <1>3. Alike(h, f)
    BY DEF Dressed, Alike
  <1>4. \A n : n \in h.notes <=> \E j \in 1..k : kept[j].id = n /\ Takes(f, kept[j], some)
    BY <1>1 DEF Dressed
  <1>5. h.confidence <= g.confidence /\ h.confidence <= kept[k].confidence
    BY <1>1, <1>2
  <1>6. h.confidence <= f.confidence
    BY <1>2, <1>5 DEF Dressed
  <1>7. ASSUME NEW j \in 1..k, Takes(f, kept[j], some) PROVE h.confidence <= kept[j].confidence
    <2>1. CASE j = k
      BY <1>5, <2>1
    <2>2. CASE j # k
      <3>1. j \in 1..(k - 1)
        BY <1>1, <2>2
      <3>2. g.confidence <= kept[j].confidence
        BY <1>7, <3>1 DEF Dressed
      <3>3. kept[j].confidence \in Nat
        BY <1>2
      <3> QED BY <1>2, <1>5, <3>2, <3>3
    <2> QED BY <2>1, <2>2
  <1>8. \/ h.confidence = f.confidence
        \/ \E j \in 1..k : Takes(f, kept[j], some) /\ h.confidence = kept[j].confidence
    <2>1. CASE h.confidence = kept[k].confidence
      BY <1>1, <2>1
    <2>2. CASE h.confidence = g.confidence
      BY <1>1, <2>2 DEF Dressed
    <2> QED BY <2>1, <2>2
  <1> QED BY <1>3, <1>4, <1>6, <1>7, <1>8 DEF Dressed

LEMMA MergeOneGathers ==
    ASSUME NEW kept \in Seq(Entries), NEW k \in 1..Len(kept), NEW rest \in Seq(Entries),
           Single(rest),
           NEW list \in Seq(Entries), Gathers(list, rest, kept, k - 1)
    PROVE  Gathers(MergeOne(list, kept[k]), rest, kept, k)
  <1> DEFINE ai == kept[k]
             new == MergeOne(list, ai)
             some == Values(rest)
  <1>0. /\ 1..k = 1..(k - 1) \cup {k} /\ k \in 1..k /\ k \in Nat \ {0} /\ ai \in Entries
        /\ Follows(list, rest)
    BY DEF Gathers
  <1>1. CASE ~IsAi(ai)
    <2>1. new = list
      BY <1>1 DEF MergeOne
    <2>2. ~Alone(kept[k], Values(rest)) /\ \A f : ~Takes(f, kept[k], Values(rest))
      BY <1>1 DEF Alone, Takes
    <2> HIDE DEF new, ai, some
    <2>3. \A p \in DOMAIN rest : Dressed(new[p], rest[p], kept, k, Values(rest))
      BY <1>0, <2>1, <2>2, DressedStill DEF Gathers
    <2>4. \A p \in DOMAIN new \ DOMAIN rest : \E j \in 1..k :
             new[p] = kept[j] /\ Alone(kept[j], Values(rest))
      BY <1>0, <2>1 DEF Gathers
    <2>5. \A j \in 1..k : Alone(kept[j], Values(rest)) =>
             \E p \in DOMAIN new \ DOMAIN rest : new[p] = kept[j]
      BY <1>0, <2>1, <2>2 DEF Gathers
    <2> QED BY <1>0, <2>1, <2>3, <2>4, <2>5 DEF Gathers, new, ai
  <1>2. CASE IsAi(ai) /\ MergeTarget(ai, list) = {}
    <2> DEFINE z == Len(list) + 1
    <2>1. /\ DOMAIN new = DOMAIN list \cup {z} /\ new[z] = ai /\ z \notin DOMAIN list
          /\ \A p \in DOMAIN list : new[p] = list[p]
      BY <1>2 DEF MergeOne
    <2>2. Alone(kept[k], Values(rest))
      BY <1>0, <1>2, TargetTakes
    <2> HIDE DEF new, ai, z, some
    <2>3. \A f \in Values(rest) : ~Takes(f, kept[k], Values(rest))
      BY <2>2 DEF Alone
    <2>4. DOMAIN rest \subseteq DOMAIN list /\ z \in DOMAIN new \ DOMAIN rest
      BY <1>0, <2>1 DEF Follows
    <2>5. Follows(new, rest)
      BY <1>0, <1>2, <2>1, <2>4 DEF Follows
    <2>6. ASSUME NEW p \in DOMAIN rest PROVE Dressed(new[p], rest[p], kept, k, Values(rest))
      <3>1. Dressed(list[p], rest[p], kept, k - 1, Values(rest)) /\ new[p] = list[p]
        BY <2>1, <2>4 DEF Gathers
      <3>2. ~Takes(rest[p], kept[k], Values(rest))
        BY <2>3 DEF Values
      <3> QED BY <1>0, <3>1, <3>2, DressedStill
    <2>7. \A p \in DOMAIN new \ DOMAIN rest : \E j \in 1..k :
             new[p] = kept[j] /\ Alone(kept[j], Values(rest))
      BY <1>0, <2>1, <2>2 DEF Gathers, ai
    <2>8. ASSUME NEW j \in 1..k, Alone(kept[j], Values(rest))
          PROVE  \E p \in DOMAIN new \ DOMAIN rest : new[p] = kept[j]
      <3>1. CASE j = k
        BY <2>1, <2>4, <3>1 DEF ai
      <3>2. CASE j # k
        <4>1. PICK p \in DOMAIN list \ DOMAIN rest : list[p] = kept[j]
          BY <1>0, <2>8, <3>2 DEF Gathers
        <4> QED BY <2>1, <4>1
      <3> QED BY <3>1, <3>2
    <2> QED BY <2>5, <2>6, <2>7, <2>8 DEF Gathers, new, ai
  <1>3. CASE IsAi(ai) /\ MergeTarget(ai, list) # {}
    <2>1. PICK t \in DOMAIN rest : MergeTarget(ai, list) = {t}
      BY <1>0, <1>3, TargetTakes
    <2>2. /\ ~Alone(kept[k], Values(rest))
          /\ \A p \in DOMAIN rest : Takes(rest[p], kept[k], Values(rest)) <=> p = t
      <3>1. /\ \A p \in DOMAIN rest :
                  MergeTarget(ai, list) = {p} <=> Takes(rest[p], ai, Values(rest))
            /\ MergeTarget(ai, list) = {} <=> Alone(ai, Values(rest))
        BY <1>0, <1>3, TargetTakes
      <3> QED BY <1>3, <2>1, <3>1
    <2> DEFINE c == IF ai.confidence < list[t].confidence THEN ai.confidence ELSE list[t].confidence
    <2>3. /\ DOMAIN new = DOMAIN list /\ \A p \in DOMAIN list \ {t} : new[p] = list[p]
          /\ new[t] = [list[t] EXCEPT !.source = "hybrid", !.notes = list[t].notes \cup {ai.id},
                                      !.confidence = c]
      BY <1>0, <1>3, <2>1 DEF MergeOne, Follows
    <2>4. new \in Seq(Entries)
      BY <1>0, MergeOneTyped
    <2>5. DOMAIN rest \subseteq DOMAIN list /\ ~IsAi(rest[t]) /\ Alike(list[t], rest[t])
      BY <1>0 DEF Follows
    <2>6. list[t] \in Entries /\ new[t] \in Entries /\ rest[t] \in Entries /\ ~IsAi(list[t])
      BY <2>3, <2>4, <2>5 DEF Alike
    <2> HIDE DEF new, ai, some, c
    <2>7. /\ Alike(new[t], list[t]) /\ new[t].notes = list[t].notes \cup {ai.id}
          /\ new[t].confidence = c
      BY <2>3, <2>6 DEF Entries, Alike, IsAi
    <2>8. Follows(new, rest)
      <3>1. ASSUME NEW p \in DOMAIN rest PROVE Alike(new[p], rest[p]) /\ ~IsAi(rest[p])
        <4>1. Alike(list[p], rest[p]) /\ ~IsAi(rest[p])
          BY <1>0 DEF Follows
        <4>2. CASE p = t
          BY <2>7, <4>1, <4>2 DEF Alike
        <4>3. CASE p # t
          BY <2>3, <2>5, <4>1, <4>3
        <4> QED BY <4>2, <4>3
      <3>2. \A p \in DOMAIN new \ DOMAIN rest : IsAi(new[p])
        BY <1>0, <2>3 DEF Follows
      <3> QED BY <2>3, <2>5, <3>1, <3>2 DEF Follows
    <2>9. ASSUME NEW p \in DOMAIN rest PROVE Dressed(new[p], rest[p], kept, k, Values(rest))
      <3>0. Dressed(list[p], rest[p], kept, k - 1, Values(rest))
        BY DEF Gathers
      <3>1. CASE p = t
        <4>1. Takes(rest[t], kept[k], Values(rest))
          BY <2>2
        <4>2. /\ new[t].notes = list[t].notes \cup {kept[k].id}
              /\ new[t].confidence = IF kept[k].confidence < list[t].confidence
                                     THEN kept[k].confidence ELSE list[t].confidence
          BY <2>7 DEF c, ai
        <4> QED BY <2>6, <2>7, <3>0, <3>1, <4>1, <4>2, DressedMore
      <3>2. CASE p # t
        <4>1. new[p] = list[p] /\ ~Takes(rest[p], kept[k], Values(rest))
          BY <2>2, <2>3, <2>5, <3>2
        <4> QED BY <1>0, <3>0, <4>1, DressedStill
      <3> QED BY <3>1, <3>2
    <2>10. \A p \in DOMAIN new \ DOMAIN rest : \E j \in 1..k :
              new[p] = kept[j] /\ Alone(kept[j], Values(rest))
      BY <1>0, <2>3 DEF Gathers
    <2>11. ASSUME NEW j \in 1..k, Alone(kept[j], Values(rest))
           PROVE  \E p \in DOMAIN new \ DOMAIN rest : new[p] = kept[j]
      <3>1. j \in 1..(k - 1)
        BY <1>0, <2>2, <2>11
      <3>2. PICK p \in DOMAIN list \ DOMAIN rest : list[p] = kept[j]
        BY <2>11, <3>1 DEF Gathers
      <3> QED BY <2>3, <3>2
    <2> QED BY <2>8, <2>9, <2>10, <2>11 DEF Gathers, new, ai
  <1> QED BY <1>1, <1>2, <1>3

\* What merged comes to: every finding of a tool with its notes, and the lone ones of the AI
\* (dedup.py:144-157).
LEMMA MergedGathers ==
    ASSUME NEW list \in Seq(Entries), \A i \in DOMAIN list : list[i].notes = {}
    PROVE  Merged(list) \in Seq(Entries) /\ \E rest \in Seq(Entries) :
              /\ \A f : f \in Values(rest) <=> f \in Values(Kept(list)) /\ ~IsAi(f)
              /\ Gathers(Merged(list), rest, Kept(list), Len(Kept(list)))
  <1> DEFINE kept == Kept(list)
             rest == FoldLeft(NotAi, <<>>, kept)
  <1>1. kept \in Seq(Entries) /\ Holds(kept, list, Len(list))
    BY KeptHolds
  <1>2. Apart(kept)
    BY <1>1 DEF Holds, Apart
  <1>3. \A m \in DOMAIN kept : kept[m].notes = {}
    BY <1>1 DEF Holds
  <1> HIDE DEF kept
  <1>4. rest \in Seq(Entries) /\ IsRest(rest, kept, Len(kept))
    BY <1>1, <1>2, RestHolds
  <1>5. Merged(list) = FoldLeft(MergeOne, rest, kept)
    BY DEF Merged, kept
  <1> HIDE DEF rest
  <1>6. PICK acc \in [0..Len(kept) -> Seq(Entries)] :
           /\ acc[0] = rest /\ acc[Len(kept)] = FoldLeft(MergeOne, rest, kept)
           /\ \A i \in 1..Len(kept) : acc[i] = MergeOne(acc[i - 1], kept[i])
    BY <1>1, <1>4, MergeUnrolls
  <1>7. Len(kept) \in Nat /\ DOMAIN kept = 1..Len(kept)
    BY <1>1
  <1>8. \A f : f \in Values(rest) <=> f \in Values(kept) /\ ~IsAi(f)
    <2>1. ASSUME NEW p \in DOMAIN rest PROVE rest[p] \in Values(kept) /\ ~IsAi(rest[p])
      <3>1. PICK n \in 1..Len(kept) : rest[p] = kept[n] /\ ~IsAi(kept[n])
        BY <1>4 DEF IsRest
      <3> QED BY <1>7, <3>1 DEF Values
    <2>2. ASSUME NEW n \in DOMAIN kept, ~IsAi(kept[n]) PROVE kept[n] \in Values(rest)
      <3>1. \E p \in DOMAIN rest : rest[p] = kept[n]
        BY <1>4, <1>7, <2>2 DEF IsRest
      <3> QED BY <3>1 DEF Values
    <2> QED BY <2>1, <2>2 DEF Values
  <1>9. Single(rest)
    BY <1>4 DEF IsRest, Apart, Same, Single
  <1>10. Gathers(rest, rest, kept, 0)
    <2>1. ASSUME NEW p \in DOMAIN rest
          PROVE  ~IsAi(rest[p]) /\ rest[p].notes = {} /\ rest[p].confidence \in Nat
      <3>1. rest[p] \in Values(kept) /\ ~IsAi(rest[p])
        BY <1>8 DEF Values
      <3>2. rest[p].notes = {}
        BY <1>3, <3>1 DEF Values
      <3>3. rest[p].confidence \in Nat
        <4>1. \A e \in Entries : e.confidence \in Nat
          BY DEF Entries
        <4> QED BY <1>4, <4>1
      <3> QED BY <3>1, <3>2, <3>3
    <2>2. \A p \in DOMAIN rest : Dressed(rest[p], rest[p], kept, 0, Values(rest))
      BY <2>1 DEF Dressed, Alike
    <2>3. Follows(rest, rest)
      BY <2>1 DEF Follows, Alike
    <2> QED BY <2>2, <2>3 DEF Gathers
  <1> DEFINE Good == {k \in Nat : k <= Len(kept) => Gathers(acc[k], rest, kept, k)}
  <1>11. 0 \in Good
    BY <1>6, <1>10
  <1>12. ASSUME NEW k \in Nat, k \in Good PROVE k + 1 \in Good
    <2> SUFFICES ASSUME k + 1 <= Len(kept) PROVE Gathers(acc[k + 1], rest, kept, k + 1)
      OBVIOUS
    <2>1. (k + 1) - 1 = k /\ k + 1 \in 1..Len(kept) /\ k \in 0..Len(kept)
      BY <1>7
    <2>2. Gathers(acc[(k + 1) - 1], rest, kept, (k + 1) - 1) /\ acc[(k + 1) - 1] \in Seq(Entries)
      BY <1>7, <1>12, <2>1
    <2>3. acc[k + 1] = MergeOne(acc[(k + 1) - 1], kept[k + 1])
      BY <1>6, <2>1
    <2> QED BY <1>1, <1>4, <1>9, <2>1, <2>2, <2>3, MergeOneGathers
  <1>13. \A k \in Nat : k \in Good
    <2> HIDE DEF Good
    <2> QED BY <1>11, <1>12, NumberInduction
  <1>14. Gathers(Merged(list), rest, kept, Len(kept)) /\ Merged(list) \in Seq(Entries)
    BY <1>5, <1>6, <1>7, <1>13
  <1> QED BY <1>4, <1>8, <1>14 DEF kept

\* What was kept twice, in whatever order.
AsMany(kept, again) ==
    /\ \A j \in 1..Len(kept) : \E l \in 1..Len(again) : again[l] = kept[j]
    /\ \A l \in 1..Len(again) : \E j \in 1..Len(kept) : kept[j] = again[l]

\* The order of what was kept does not decide what a finding is dressed with.
LEMMA DressedAlike ==
    ASSUME NEW kept, NEW again, AsMany(kept, again), NEW some, NEW f,
           NEW g \in Entries, NEW h \in Entries,
           Dressed(g, f, kept, Len(kept), some), Dressed(h, f, again, Len(again), some)
    PROVE  g.id = h.id /\ g.notes = h.notes /\ g.confidence = h.confidence
  <1>1. g.id = h.id
    BY DEF Dressed, Alike
  <1>2. g.notes = h.notes
    <2>1. ASSUME NEW n \in g.notes PROVE n \in h.notes
      <3>1. PICK j \in 1..Len(kept) : kept[j].id = n /\ Takes(f, kept[j], some)
        BY DEF Dressed
      <3>2. PICK l \in 1..Len(again) : again[l] = kept[j]
        BY DEF AsMany
      <3> QED BY <3>1, <3>2 DEF Dressed
    <2>2. ASSUME NEW n \in h.notes PROVE n \in g.notes
      <3>1. PICK l \in 1..Len(again) : again[l].id = n /\ Takes(f, again[l], some)
        BY DEF Dressed
      <3>2. PICK j \in 1..Len(kept) : kept[j] = again[l]
        BY DEF AsMany
      <3> QED BY <3>1, <3>2 DEF Dressed
    <2>3. \A n : n \in g.notes <=> n \in h.notes
      BY <2>1, <2>2
    <2>4. g.notes \in SUBSET Nat /\ h.notes \in SUBSET Nat
      BY DEF Entries
    <2> QED BY <2>3, <2>4
  <1>3. g.confidence \in Nat /\ h.confidence \in Nat
    BY DEF Entries
  <1>4. g.confidence <= h.confidence
    <2>1. CASE h.confidence = f.confidence
      BY <2>1 DEF Dressed
    <2>2. CASE h.confidence # f.confidence
      <3>1. PICK l \in 1..Len(again) : Takes(f, again[l], some) /\ h.confidence = again[l].confidence
        BY <2>2 DEF Dressed
      <3>2. PICK j \in 1..Len(kept) : kept[j] = again[l]
        BY DEF AsMany
      <3> QED BY <3>1, <3>2 DEF Dressed
    <2> QED BY <2>1, <2>2
  <1>5. h.confidence <= g.confidence
    <2>1. CASE g.confidence = f.confidence
      BY <2>1 DEF Dressed
    <2>2. CASE g.confidence # f.confidence
      <3>1. PICK j \in 1..Len(kept) : Takes(f, kept[j], some) /\ g.confidence = kept[j].confidence
        BY <2>2 DEF Dressed
      <3>2. PICK l \in 1..Len(again) : again[l] = kept[j]
        BY DEF AsMany
      <3> QED BY <3>1, <3>2 DEF Dressed
    <2> QED BY <2>1, <2>2
  <1> QED BY <1>1, <1>2, <1>3, <1>4, <1>5

\* Two lists that keep the same come to the same.
LEMMA SameFindings ==
    ASSUME NEW all \in Seq(Entries), \A i \in DOMAIN all : all[i].notes = {},
           NEW moved \in Seq(Entries), \A i \in DOMAIN moved : moved[i].notes = {},
           AsMany(Kept(all), Kept(moved))
    PROVE  \A p \in DOMAIN Merged(all) : \E q \in DOMAIN Merged(moved) :
              /\ Merged(all)[p].id = Merged(moved)[q].id
              /\ Merged(all)[p].notes = Merged(moved)[q].notes
              /\ Merged(all)[p].confidence = Merged(moved)[q].confidence
  <1> DEFINE kept == Kept(all)
             again == Kept(moved)
             one == Merged(all)
             two == Merged(moved)
  <1>1. PICK rest \in Seq(Entries) :
           /\ \A f : f \in Values(rest) <=> f \in Values(kept) /\ ~IsAi(f)
           /\ Gathers(one, rest, kept, Len(kept))
    BY MergedGathers
  <1>2. PICK left \in Seq(Entries) :
           /\ \A f : f \in Values(left) <=> f \in Values(again) /\ ~IsAi(f)
           /\ Gathers(two, left, again, Len(again))
    BY MergedGathers
  <1>3. /\ kept \in Seq(Entries) /\ again \in Seq(Entries) /\ AsMany(kept, again)
    BY KeptHolds
  <1>4. one \in Seq(Entries) /\ two \in Seq(Entries)
    BY MergedGathers
  <1> HIDE DEF kept, again, one, two
  <1>5. DOMAIN kept = 1..Len(kept) /\ DOMAIN again = 1..Len(again)
    BY <1>3
  <1>6. \A f : f \in Values(kept) <=> f \in Values(again)
    <2>1. ASSUME NEW j \in DOMAIN kept PROVE kept[j] \in Values(again)
      <3>1. \E l \in DOMAIN again : again[l] = kept[j]
        BY <1>3, <1>5 DEF AsMany
      <3> QED BY <3>1 DEF Values
    <2>2. ASSUME NEW l \in DOMAIN again PROVE again[l] \in Values(kept)
      <3>1. \E j \in DOMAIN kept : kept[j] = again[l]
        BY <1>3, <1>5 DEF AsMany
      <3> QED BY <3>1 DEF Values
    <2> QED BY <2>1, <2>2 DEF Values
  <1>7. Values(rest) = Values(left)
    <2>1. \A f : f \in Values(rest) <=> f \in Values(left)
      BY <1>1, <1>2, <1>6
    <2> QED BY <2>1
  <1> SUFFICES ASSUME NEW p \in DOMAIN one
               PROVE  \E q \in DOMAIN two : /\ one[p].id = two[q].id /\ one[p].notes = two[q].notes
                                            /\ one[p].confidence = two[q].confidence
    BY DEF one, two
  <1>8. CASE p \in DOMAIN rest
    <2>1. rest[p] \in Values(left)
      BY <1>7, <1>8 DEF Values
    <2>2. PICK q \in DOMAIN left : left[q] = rest[p]
      BY <2>1 DEF Values
    <2>3. q \in DOMAIN two /\ Dressed(two[q], left[q], again, Len(again), Values(left))
      BY <1>2 DEF Gathers, Follows
    <2>4. Dressed(one[p], rest[p], kept, Len(kept), Values(rest))
      BY <1>1, <1>8 DEF Gathers
    <2>5. /\ Dressed(one[p], rest[p], kept, Len(kept), Values(rest))
          /\ Dressed(two[q], rest[p], again, Len(again), Values(rest))
          /\ one[p] \in Entries /\ two[q] \in Entries
      BY <1>4, <1>7, <2>2, <2>3, <2>4
    <2>6. /\ one[p].id = two[q].id /\ one[p].notes = two[q].notes
          /\ one[p].confidence = two[q].confidence
      BY <1>3, <2>5, DressedAlike
    <2> QED BY <2>3, <2>6
  <1>9. CASE p \notin DOMAIN rest
    <2>1. PICK j \in 1..Len(kept) : one[p] = kept[j] /\ Alone(kept[j], Values(rest))
      BY <1>1, <1>9 DEF Gathers
    <2>2. PICK l \in 1..Len(again) : again[l] = kept[j]
      BY <1>3 DEF AsMany
    <2>3. Alone(again[l], Values(left))
      BY <1>7, <2>1, <2>2
    <2>4. PICK q \in DOMAIN two : two[q] = again[l]
      BY <1>2, <2>3 DEF Gathers
    <2> QED BY <2>1, <2>2, <2>4
  <1> QED BY <1>8, <1>9

\* The order in which the passes of the AI come back does not decide what is merged into
\* what (dedup.py:84-104, 140-153).
THEOREM OrderDoesNotMatter == ReportSpec => []OrderIsIrrelevant
  <1>1. ASSUME ReportIInv PROVE OrderIsIrrelevant
    <2> SUFFICES ASSUME Lone(found), NEW list \in Reordered
                 PROVE  Findings(list) = Findings(found)
      BY DEF OrderIsIrrelevant, Lone
    <2>0. PICK last \in DOMAIN found :
             IsAi(found[last]) /\ list = Append(RemoveAt(found, last), found[last])
      BY DEF Reordered
    <2> DEFINE moved == Append(RemoveAt(found, last), found[last])
    <2>1. found \in Seq(Entries) /\ AsFound(found) /\ Lone(found)
      BY <1>1 DEF ReportIInv, ReportTypeOK
    <2>2. PICK place : /\ Shift(place, last, Len(found))
                       /\ \A k \in 1..Len(found) : moved[k] = found[place[k]]
      BY <2>1, MovedToTheEnd
    <2>3. moved \in Seq(Entries) /\ Len(moved) = Len(found)
      BY <2>1, MovedToTheEnd
    <2> HIDE DEF moved
    <2>4. \A i \in DOMAIN found : found[i].notes = {}
      BY <2>1 DEF AsFound
    <2>5. \A k \in DOMAIN moved : moved[k].notes = {}
      <3>1. Len(found) \in Nat /\ last \in 1..Len(found)
        BY <2>1
      <3>2. \A k \in 1..Len(found) : place[k] \in 1..Len(found)
        BY <2>2, <3>1, ShiftMoves DEF Reorders
      <3> QED BY <2>1, <2>2, <2>3, <2>4, <3>2
    <2>6. \A f : (\E m \in DOMAIN Kept(moved) : Kept(moved)[m] = f)
                 <=> (\E m \in DOMAIN Kept(found) : Kept(found)[m] = f)
      BY <2>0, <2>1, <2>2, <2>3, KeptStays
    <2>7. Kept(found) \in Seq(Entries) /\ Kept(moved) \in Seq(Entries)
      BY <2>1, <2>3, KeptHolds
    <2>8. AsMany(Kept(found), Kept(moved)) /\ AsMany(Kept(moved), Kept(found))
      <3>1. /\ DOMAIN Kept(found) = 1..Len(Kept(found))
            /\ DOMAIN Kept(moved) = 1..Len(Kept(moved))
        BY <2>7
      <3> QED BY <2>6, <3>1 DEF AsMany
    <2>9. \A p \in DOMAIN Merged(found) : \E q \in DOMAIN Merged(moved) :
             /\ Merged(found)[p].id = Merged(moved)[q].id
             /\ Merged(found)[p].notes = Merged(moved)[q].notes
             /\ Merged(found)[p].confidence = Merged(moved)[q].confidence
      BY <2>1, <2>3, <2>4, <2>5, <2>8, SameFindings
    <2>10. \A q \in DOMAIN Merged(moved) : \E p \in DOMAIN Merged(found) :
              /\ Merged(moved)[q].id = Merged(found)[p].id
              /\ Merged(moved)[q].notes = Merged(found)[p].notes
              /\ Merged(moved)[q].confidence = Merged(found)[p].confidence
      BY <2>1, <2>3, <2>4, <2>5, <2>8, SameFindings
    <2>11. Findings(moved) = Findings(found)
      <3>1. \A x \in Findings(found) : x \in Findings(moved)
        BY <2>9 DEF Findings, ToSet
      <3>2. \A x \in Findings(moved) : x \in Findings(found)
        BY <2>10 DEF Findings, ToSet
      <3> QED BY <3>1, <3>2
    <2> QED BY <2>0, <2>11 DEF moved
  <1> QED BY <1>1, ReportInvariance, PTL
=============================================================================
