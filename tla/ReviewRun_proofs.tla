-------------------------- MODULE ReviewRun_proofs --------------------------
(***************************************************************************)
(* Theorems about a claimed job, for any files, sizes, ceilings, analyzers *)
(* and number of attempts.                                                 *)
(***************************************************************************)
EXTENDS ReviewRun, FoldLaws

-----------------------------------------------------------------------------
(* What files weigh together.                                              *)

\* The sum that BytesOf is, over all the sets of paths at once.
IsTotal(g) ==
    /\ g \in [SUBSET Paths -> Nat]
    /\ \A A \in SUBSET Paths :
          g[A] = IF A = {} THEN 0
                 ELSE SizeOf[CHOOSE x \in A : TRUE] + g[A \ {CHOOSE x \in A : TRUE}]

LEMMA TotalExists == \E g : IsTotal(g)
  <1> DEFINE pick == [A \in SUBSET Paths |-> CHOOSE x \in A : TRUE]
             step == [vx \in Nat \X Paths |-> SizeOf[vx[2]] + vx[1]]
  <1>1. IsFiniteSet(Paths) /\ SizeOf \in [Paths -> Nat]
    BY ExtractionAssumption
  <1>2. step \in [Nat \X Paths -> Nat]
    BY <1>1
  <1>3. \A A \in SUBSET Paths : A # {} => pick[A] \in A
    OBVIOUS
  <1>4. PICK g : IsFold(g, Paths, Nat, 0, step, pick)
    <2> HIDE DEF pick, step
    <2> QED BY <1>1, <1>2, <1>3, FoldExists
  <1>5. ASSUME NEW A \in SUBSET Paths
        PROVE  g[A] = IF A = {} THEN 0
                      ELSE SizeOf[CHOOSE x \in A : TRUE] + g[A \ {CHOOSE x \in A : TRUE}]
    <2>1. CASE A = {} BY <1>4, <2>1 DEF IsFold
    <2>2. CASE A # {}
      <3>1. pick[A] \in Paths /\ g[A \ {pick[A]}] \in Nat
        BY <1>3, <1>4, <2>2 DEF IsFold
      <3>2. \A n \in Nat, p \in Paths : step[<<n, p>>] = SizeOf[p] + n
        OBVIOUS
      <3>3. g[A] = step[<<g[A \ {pick[A]}], pick[A]>>]
        <4> HIDE DEF step, pick
        <4> QED BY <1>4, <2>2 DEF IsFold
      <3>4. g[A] = SizeOf[pick[A]] + g[A \ {pick[A]}]
        <4> DEFINE n == g[A \ {pick[A]}]
                   p == pick[A]
        <4>1. p \in Paths /\ n \in Nat /\ g[A] = step[<<n, p>>] BY <3>1, <3>3
        <4> HIDE DEF step, n, p
        <4>2. g[A] = SizeOf[p] + n BY <3>2, <4>1
        <4> QED BY <4>2 DEF n, p
      <3>5. pick[A] = CHOOSE x \in A : TRUE OBVIOUS
      <3> HIDE DEF pick
      <3> QED BY <2>2, <3>4, <3>5
    <2> QED BY <2>1, <2>2
  <1>6. g \in [SUBSET Paths -> Nat]
    BY <1>4 DEF IsFold
  <1>7. IsTotal(g)
    BY <1>5, <1>6 DEF IsTotal
  <1> QED BY <1>7

LEMMA BytesAreTotal ==
    ASSUME NEW g, IsTotal(g), NEW S \in SUBSET Paths
    PROVE  BytesOf(S) = g[S]
  <1> DEFINE Sums(iter) == iter = [s \in SUBSET S |->
                 IF s = {} THEN 0
                 ELSE SizeOf[CHOOSE x \in s : TRUE] + iter[s \ {CHOOSE x \in s : TRUE}]]
             iter == CHOOSE i : Sums(i)
  <1>1. BytesOf(S) = iter[S]
    BY DEF BytesOf, MapThenSumSet, MapThenFoldSet
  <1>2. Sums([s \in SUBSET S |-> g[s]])
    <2> DEFINE h == [s \in SUBSET S |-> g[s]]
    <2> SUFFICES ASSUME NEW s \in SUBSET S
                 PROVE  g[s] = IF s = {} THEN 0
                 ELSE SizeOf[CHOOSE x \in s : TRUE] + h[s \ {CHOOSE x \in s : TRUE}]
      OBVIOUS
    <2> QED BY DEF IsTotal
  <1>3. Sums(iter)
    <2> HIDE DEF Sums
    <2> QED BY <1>2
  <1> DEFINE Good == {s \in SUBSET S : iter[s] = g[s]}
  <1>4. ASSUME NEW A \in SUBSET S, \A B \in SUBSET A : B # A => B \in Good
        PROVE  A \in Good
    <2>1. CASE A = {}
      BY <1>3, <2>1 DEF IsTotal
    <2>2. CASE A # {}
      <3> DEFINE x == CHOOSE x \in A : TRUE
      <3>1. x \in A BY <2>2
      <3>2. iter[A \ {x}] = g[A \ {x}]
        <4>1. A \ {x} \in SUBSET A /\ A \ {x} # A BY <3>1
        <4> QED BY <1>4, <4>1
      <3>3. iter[A] = SizeOf[x] + iter[A \ {x}] 
        <4> HIDE DEF iter
        <4> QED BY <1>3, <2>2
      <3>4. g[A] = SizeOf[x] + g[A \ {x}] BY <2>2 DEF IsTotal
      <3> QED BY <3>2, <3>3, <3>4
    <2> QED BY <2>1, <2>2
  <1>5. IsFiniteSet(S)
    BY ExtractionAssumption, FS_Subset
  <1>6. \A A \in SUBSET S : A \in Good
    <2> HIDE DEF Good
    <2> QED BY <1>4, <1>5, SubsetInduction
  <1> QED BY <1>1, <1>6

\* One path may be taken out of the sum, whichever it is.
LEMMA TotalWithout ==
    ASSUME NEW g, IsTotal(g)
    PROVE  \A S \in SUBSET Paths : \A x \in S : g[S] = SizeOf[x] + g[S \ {x}]
  <1> DEFINE Good == {S \in SUBSET Paths : \A x \in S : g[S] = SizeOf[x] + g[S \ {x}]}
  <1>1. ASSUME NEW S \in SUBSET Paths, \A B \in SUBSET S : B # S => B \in Good
        PROVE  S \in Good
    <2> SUFFICES ASSUME NEW x \in S PROVE g[S] = SizeOf[x] + g[S \ {x}]
      OBVIOUS
    <2> DEFINE y == CHOOSE y \in S : TRUE
    <2>1. y \in S OBVIOUS
    <2>2. g[S] = SizeOf[y] + g[S \ {y}] BY DEF IsTotal
    <2>3. CASE x = y BY <2>2, <2>3
    <2>4. CASE x # y
      <3> HIDE DEF y
      <3>1. S \ {y} \in Good /\ S \ {x} \in Good /\ x \in S \ {y} /\ y \in S \ {x}
        <4> HIDE DEF Good
        <4>1. S \ {y} \in SUBSET S /\ S \ {y} # S /\ S \ {x} \in SUBSET S /\ S \ {x} # S BY <2>1
        <4> QED BY <1>1, <2>1, <2>4, <4>1
      <3>2. g[S \ {y}] = SizeOf[x] + g[(S \ {y}) \ {x}] BY <3>1
      <3>3. g[S \ {x}] = SizeOf[y] + g[(S \ {x}) \ {y}] BY <3>1
      <3>4. (S \ {y}) \ {x} = (S \ {x}) \ {y} OBVIOUS
      <3>5. SizeOf[x] \in Nat /\ SizeOf[y] \in Nat /\ g[(S \ {x}) \ {y}] \in Nat
        BY <2>1, ExtractionAssumption DEF IsTotal
      <3>6. g[S] = SizeOf[y] + (SizeOf[x] + g[(S \ {x}) \ {y}]) BY <2>2, <3>2, <3>4
      <3>7. SizeOf[x] + g[S \ {x}] = SizeOf[x] + (SizeOf[y] + g[(S \ {x}) \ {y}]) BY <3>3
      <3> QED BY <3>5, <3>6, <3>7
    <2> QED BY <2>3, <2>4
  <1>2. \A S \in SUBSET Paths : S \in Good
    <2> HIDE DEF Good
    <2> QED BY <1>1, ExtractionAssumption, SubsetInduction
  <1> QED BY <1>2

LEMMA BytesOfNone == BytesOf({}) = 0
  BY TotalExists, BytesAreTotal DEF IsTotal

LEMMA BytesOfOneMore ==
    ASSUME NEW S \in SUBSET Paths, NEW x \in Paths \ S
    PROVE  BytesOf(S \cup {x}) = BytesOf(S) + SizeOf[x] /\ BytesOf(S) \in Nat
  <1>1. PICK g : IsTotal(g) BY TotalExists
  <1>2. (S \cup {x}) \ {x} = S /\ S \cup {x} \in SUBSET Paths OBVIOUS
  <1>3. g[S \cup {x}] = SizeOf[x] + g[S]
    <2>1. g[S \cup {x}] = SizeOf[x] + g[(S \cup {x}) \ {x}] BY <1>1, <1>2, TotalWithout
    <2> QED BY <1>2, <2>1
  <1>4. g[S] \in Nat /\ SizeOf[x] \in Nat BY <1>1, ExtractionAssumption DEF IsTotal
  <1>5. BytesOf(S \cup {x}) = g[S \cup {x}] /\ BytesOf(S) = g[S] BY <1>1, <1>2, BytesAreTotal
  <1> QED BY <1>3, <1>4, <1>5

-----------------------------------------------------------------------------
(* The walk.                                                               *)

\* The files to account for, at any moment of the walk, and those it has lost.
Lost == (Wanted \ todo) \ Whole

LEMMA PathsAreFinite ==
    ASSUME NEW S, S \subseteq Paths
    PROVE  IsFiniteSet(S) /\ Cardinality(S) \in Nat
  BY ExtractionAssumption, FS_Subset, FS_CardinalityType

LEMMA OneMore ==
    ASSUME NEW S, S \subseteq Paths, NEW x, x \notin S
    PROVE  Cardinality(S \cup {x}) = Cardinality(S) + 1 /\ Cardinality(S) \in Nat
  BY PathsAreFinite, FS_AddElement

LEMMA CountersAreNat ==
    ASSUME IngestionTypeOK
    PROVE  /\ DOMAIN counts = {"entries", "extracted", "bytes", "large", "unwritable", "skipped"}
           /\ counts.entries \in Nat /\ counts.extracted \in Nat /\ counts.bytes \in Nat
           /\ counts.large \in Nat /\ counts.unwritable \in Nat /\ counts.skipped \in Nat
  <1>1. DOMAIN Start = {"entries", "extracted", "bytes", "large", "unwritable", "skipped"}
    BY DEF Start
  <1>2. counts \in [{"entries", "extracted", "bytes", "large", "unwritable", "skipped"} -> Nat]
    BY <1>1 DEF IngestionTypeOK
  <1> QED BY <1>2

\* Before a walk nothing is passed and nothing lost.
LEMMA FreshCounts ==
    ASSUME target \in {"repository", "pull_request"}, todo = Listed,
           disk = [p \in Paths |-> "none"], counts = Start
    PROVE  Accounted
  <1>1. Wanted \ todo = {} /\ Whole = {}
    BY DEF Wanted, Listed, Whole
  <1>2. Missed = 0 /\ counts.extracted = 0 /\ counts.bytes = 0
    BY DEF Missed, Start
  <1> QED BY <1>1, <1>2, FS_EmptySet, BytesOfNone DEF Accounted

LEMMA IngestionStarts == IngestionInit => IngestionIInv
  <1> SUFFICES ASSUME IngestionInit PROVE IngestionIInv
    OBVIOUS
  <1>1. Accounted
    BY FreshCounts DEF IngestionInit
  <1>2. counts \in [DOMAIN Start -> Nat]
    BY DEF IngestionInit, Start
  <1>3. target \in {"repository", "pull_request"} /\ kind \in [Paths -> MemberKinds \cup ChangedKinds]
    BY DEF IngestionInit
  <1>4. target = "pull_request" => kind \in [Paths -> ChangedKinds]
    BY DEF IngestionInit
  <1>5. todo \subseteq Paths /\ todo \subseteq Listed
        /\ disk \in [Paths -> {"none", "cut", "whole"}] /\ \A p \in todo : disk[p] = "none"
    BY DEF IngestionInit, Listed
  <1> QED BY <1>1, <1>2, <1>3, <1>4, <1>5 DEF IngestionIInv, IngestionTypeOK

LEMMA EmptiedKeeps == IngestionIInv /\ Emptied => IngestionIInv'
  <1> SUFFICES ASSUME IngestionIInv, Emptied PROVE IngestionIInv'
    OBVIOUS
  <1>0. Listed' = Listed
    BY DEF Emptied, Listed
  <1>1. Wanted' \ todo' = {} /\ Whole' = {}
    BY <1>0 DEF Emptied, Wanted, Listed, Whole
  <1>2. Accounted'
    <2>1. Missed' = 0 /\ counts'.extracted = 0 /\ counts'.bytes = 0
      BY DEF Emptied, Missed, Start
    <2> QED BY <1>1, <2>1, FS_EmptySet, BytesOfNone DEF Accounted
  <1>3. counts' \in [DOMAIN Start -> Nat]
    BY DEF Emptied, Start
  <1>4. todo' \subseteq Paths /\ todo' \subseteq Listed'
        /\ disk' \in [Paths -> {"none", "cut", "whole"}] /\ \A p \in todo' : disk'[p] = "none"
    BY <1>0 DEF Emptied, Listed
  <1> QED BY <1>2, <1>3, <1>4 DEF IngestionIInv, IngestionTypeOK, Emptied

LEMMA IdleIngestionKeeps == IngestionIInv /\ UNCHANGED ingestion => IngestionIInv'
  BY DEF IngestionIInv, IngestionTypeOK, ingestion, Accounted, Missed, Wanted, Whole, Listed

\* A step of the walk over a tarball counts the member, unless it is in the workspace
\* now or was not for review (snapshot.py:55-117).
LEMMA WalkKeeps ==
    ASSUME IngestionIInv, target = "repository", NEW p \in todo,
           LeaveOut(p) \/ Extract(p) \/ WriteFails(p)
    PROVE  IngestionIInv'
  <1>1. /\ target' = target /\ kind' = kind /\ todo' = todo \ {p}
        /\ p \in Paths /\ kind[p] # "absent" /\ disk[p] = "none"
        /\ disk \in [Paths -> {"none", "cut", "whole"}] /\ todo \subseteq Paths
    BY DEF LeaveOut, Extract, WriteFails, Visit, IngestionIInv, IngestionTypeOK, Listed
  <1>2. Wanted' = Wanted /\ Listed' = Listed
    BY <1>1 DEF Wanted, Listed
  <1>3. /\ Lost \subseteq Paths /\ Whole \subseteq Paths /\ p \notin Lost /\ p \notin Whole
        /\ counts.large + counts.unwritable = Cardinality(Lost)
        /\ counts.extracted = Cardinality(Whole) /\ counts.bytes = BytesOf(Whole)
    BY <1>1 DEF Lost, Wanted, Whole, IngestionIInv, Accounted, Missed
  <1>4. /\ counts.entries \in Nat /\ counts.extracted \in Nat /\ counts.bytes \in Nat
        /\ counts.large \in Nat /\ counts.unwritable \in Nat /\ counts.skipped \in Nat
        /\ DOMAIN counts = {"entries", "extracted", "bytes", "large", "unwritable", "skipped"}
        /\ SizeOf[p] \in Nat /\ counts \in [DOMAIN Start -> Nat]
    BY <1>1, CountersAreNat, ExtractionAssumption DEF IngestionIInv, IngestionTypeOK
  <1>5. /\ Cardinality(Lost \cup {p}) = Cardinality(Lost) + 1
        /\ Cardinality(Whole \cup {p}) = Cardinality(Whole) + 1
        /\ BytesOf(Whole \cup {p}) = BytesOf(Whole) + SizeOf[p]
    BY <1>1, <1>3, OneMore, BytesOfOneMore
  <1>6. SUFFICES /\ counts' \in [DOMAIN Start -> Nat]
                 /\ disk' \in [Paths -> {"none", "cut", "whole"}]
                 /\ \A q \in todo' : disk'[q] = "none"
                 /\ counts'.large + counts'.unwritable = Cardinality(Lost')
                 /\ counts'.extracted = Cardinality(Whole')
                 /\ counts'.bytes = BytesOf(Whole')
    BY <1>1, <1>2 DEF IngestionIInv, IngestionTypeOK, Accounted, Missed, Lost
  <1>7. \A q \in todo : disk[q] = "none"
    BY DEF IngestionIInv
  <1>8. DOMAIN Start = {"entries", "extracted", "bytes", "large", "unwritable", "skipped"}
    BY DEF Start
  <1>9. CASE Extract(p)
    <2>1. /\ disk' = [disk EXCEPT ![p] = "whole"] /\ kind[p] = "plain"
          /\ counts' = [counts EXCEPT !.entries = @ + 1, !.extracted = @ + 1, !.bytes = @ + SizeOf[p]]
      BY <1>9 DEF Extract
    <2>2. Whole' = Whole \cup {p} /\ Lost' = Lost
      BY <1>1, <1>2, <2>1 DEF Whole, Lost
    <2>3. /\ counts' \in [DOMAIN Start -> Nat]
          /\ counts'.large = counts.large /\ counts'.unwritable = counts.unwritable
          /\ counts'.extracted = counts.extracted + 1
          /\ counts'.bytes = counts.bytes + SizeOf[p]
      <3>1. counts' = [k \in DOMAIN Start |->
                         CASE k = "entries" -> counts.entries + 1
                           [] k = "extracted" -> counts.extracted + 1
                           [] k = "bytes" -> counts.bytes + SizeOf[p]
                           [] OTHER -> counts[k]]
        BY <1>4, <1>8, <2>1
      <3>2. \A k \in DOMAIN Start : counts'[k] \in Nat
        BY <1>4, <1>8, <3>1
      <3> QED BY <1>8, <3>1, <3>2
    <2> QED BY <1>1, <1>3, <1>5, <1>7, <2>1, <2>2, <2>3
  <1>10. CASE LeaveOut(p) \/ WriteFails(p)
    <2>1. PICK more \in SUBSET {"large", "unwritable"} :
             /\ Seen(more)
             /\ more = {} => p \notin Wanted
             /\ more # {} => more \in {{"large"}, {"unwritable"}} /\ p \in Wanted
      BY <1>1, <1>10 DEF LeaveOut, WriteFails, Wanted
    <2>2. disk' \in {disk, [disk EXCEPT ![p] = "cut"]}
      BY <1>10 DEF LeaveOut, WriteFails
    <2>3. Whole' = Whole
      BY <1>1, <2>2 DEF Whole
    <2>4. Lost' = IF p \in Wanted THEN Lost \cup {p} ELSE Lost
      BY <1>1, <1>2, <1>3, <2>3 DEF Lost
    <2>5. /\ counts' \in [DOMAIN Start -> Nat]
          /\ counts'.extracted = counts.extracted /\ counts'.bytes = counts.bytes
          /\ counts'.large = counts.large + (IF "large" \in more THEN 1 ELSE 0)
          /\ counts'.unwritable = counts.unwritable + (IF "unwritable" \in more THEN 1 ELSE 0)
      BY <1>4, <1>8, <2>1 DEF Seen
    <2>6. counts'.large + counts'.unwritable = Cardinality(Lost')
      BY <1>3, <1>4, <1>5, <2>1, <2>4, <2>5
    <2> QED BY <1>1, <1>3, <1>7, <2>2, <2>3, <2>5, <2>6
  <1> QED BY <1>9, <1>10

\* So does a step over the files of a comparison (runner.py:118-152, 481-490).
LEMMA FillKeeps ==
    ASSUME IngestionIInv, target = "pull_request", NEW p \in todo, Skip(p) \/ Fetch(p)
    PROVE  IngestionIInv'
  <1>1. /\ target' = target /\ kind' = kind /\ todo' = todo \ {p}
        /\ p \in Paths /\ kind[p] \in ChangedKinds \ {"absent"} /\ disk[p] = "none"
        /\ disk \in [Paths -> {"none", "cut", "whole"}] /\ todo \subseteq Paths
    BY DEF Skip, Fetch, Visit, IngestionIInv, IngestionTypeOK, Listed
  <1>2. Wanted' = Wanted /\ Listed' = Listed
    BY <1>1 DEF Wanted, Listed
  <1>3. /\ Lost \subseteq Paths /\ p \notin Lost /\ p \notin Whole
        /\ counts.skipped = Cardinality(Lost)
    BY <1>1 DEF Lost, Wanted, Whole, IngestionIInv, Accounted, Missed
  <1>4. /\ counts \in [DOMAIN Start -> Nat] /\ counts.skipped \in Nat
        /\ "skipped" \in DOMAIN Start
    BY CountersAreNat DEF IngestionIInv, IngestionTypeOK, Start
  <1>5. Cardinality(Lost \cup {p}) = Cardinality(Lost) + 1
    BY <1>3, OneMore
  <1>6. SUFFICES /\ counts' \in [DOMAIN Start -> Nat]
                 /\ disk' \in [Paths -> {"none", "cut", "whole"}]
                 /\ \A q \in todo' : disk'[q] = "none"
                 /\ counts'.skipped = Cardinality(Lost')
    BY <1>1, <1>2 DEF IngestionIInv, IngestionTypeOK, Accounted, Missed, Lost
  <1>7. \A q \in todo : disk[q] = "none"
    BY DEF IngestionIInv
  <1>8. CASE Fetch(p)
    <2>1. disk' = [disk EXCEPT ![p] = "whole"] /\ counts' = counts
      BY <1>8 DEF Fetch
    <2>2. Lost' = Lost
      BY <1>1, <1>2, <2>1 DEF Whole, Lost
    <2> QED BY <1>1, <1>3, <1>4, <1>7, <2>1, <2>2
  <1>9. CASE Skip(p)
    <2>1. /\ disk' = disk /\ kind[p] \notin {"plain", "large"}
          /\ counts' = [counts EXCEPT !.skipped = @ + (IF Changed(p) THEN 1 ELSE 0)]
      BY <1>9 DEF Skip
    <2>2. Changed(p) <=> p \in Wanted
      BY <1>1, <2>1 DEF Changed, Wanted, ChangedKinds
    <2>3. Lost' = IF p \in Wanted THEN Lost \cup {p} ELSE Lost
      BY <1>1, <1>2, <1>3, <2>1 DEF Lost, Whole
    <2>4. counts' \in [DOMAIN Start -> Nat]
          /\ counts'.skipped = counts.skipped + (IF p \in Wanted THEN 1 ELSE 0)
      BY <1>4, <2>1, <2>2
    <2>5. counts'.skipped = Cardinality(Lost')
      BY <1>3, <1>4, <1>5, <2>3, <2>4
    <2> QED BY <1>1, <1>7, <2>1, <2>4, <2>5
  <1> QED BY <1>8, <1>9

-----------------------------------------------------------------------------
(* The job.                                                                *)

LEMMA ToolsExist == IngestionIInv => Tools \subseteq AllTools
  BY RunAssumption DEF Tools, Analyzers, ToSet, IngestionIInv, IngestionTypeOK

LEMMA InitIInv == Init => IInv
  <1> SUFFICES ASSUME Init PROVE IInv
    OBVIOUS
  <1>1. IngestionIInv
    BY IngestionStarts DEF Init
  <1>2. Places
    BY DEF Init, Places
  <1>3. Results
    BY DEF Init, Results, Idle
  <1>4. Telling
    BY DEF Init, Telling
  <1> QED BY <1>1, <1>2, <1>3, <1>4 DEF IInv

\* What the invariant says of the attempt is a matter of these variables.
LEMMA TalkKeeps ==
    ASSUME UNCHANGED <<ingestion, analysis>>
    PROVE  /\ Tools' = Tools /\ AiOutcomes' = AiOutcomes
           /\ Sentences' = Sentences /\ Notices' = Notices
  BY DEF ingestion, analysis, Tools, Analyzers, AiOutcomes, Sentences, Notices, Headline,
         FoundAny, Skipped, Missed

\* An attempt that fails for good leaves everything as it was.
LEMMA FailKeeps ==
    ASSUME IInv, NEW message, Fail(message), message # "completed" \/ at = "told"
    PROVE  IInv'
  <1>1. /\ UNCHANGED <<ingestion, analysis, told>>
        /\ at' = "over" /\ verdict' = message
    BY DEF Fail, End
  <1>2. IngestionIInv'
    BY <1>1, IdleIngestionKeeps DEF IInv
  <1>3. Places'
    BY <1>1 DEF IInv, Places, ingestion
  <1>4. Results'
    BY <1>1, TalkKeeps DEF IInv, Results, analysis
  <1>5. Telling'
    BY <1>1, TalkKeeps DEF IInv, Telling, analysis, told
  <1> QED BY <1>2, <1>3, <1>4, <1>5 DEF IInv

\* One that is tried again starts from nothing.
LEMMA RetryKeeps ==
    ASSUME IInv, RetryOrFail
    PROVE  IInv'
  <1>1. CASE Fail("exhausted")
    BY <1>1, FailKeeps
  <1>2. CASE ~Fail("exhausted")
    <2>1. /\ at' = "start" /\ verdict' = "none" /\ Emptied
          /\ tool' = Idle /\ found' = FALSE /\ ran' = {} /\ aiFound' = FALSE
      BY <1>2 DEF RetryOrFail
    <2>2. IngestionIInv'
      BY <2>1, EmptiedKeeps DEF IInv
    <2>3. Places'
      BY <2>1 DEF Places
    <2>4. Results'
      BY <2>1 DEF Results, Idle
    <2>5. Telling'
      BY <2>1 DEF Telling
    <2> QED BY <2>2, <2>3, <2>4, <2>5 DEF IInv
  <1> QED BY <1>1, <1>2

\* A step that only moves on.
LEMMA GotoKeeps ==
    ASSUME IInv, NEW place, Goto(place), UNCHANGED <<analysis, told>>,
           IngestionIInv', target' = target, at # "over",
           at \notin {"analyze", "ai", "tell", "told"}, place \notin {"analyze", "ai", "tell", "told", "over"},
           place \in {"compare", "compared", "fetch"} => target = "pull_request",
           place \in {"download", "downloaded", "unpack"} => target = "repository",
           place = "filled" => todo' = {}
    PROVE  IInv'
  <1>1. at' = place /\ verdict' = verdict /\ verdict # "completed"
    BY DEF Goto, IInv, Places
  <1>2. Places'
    BY <1>1 DEF Places
  <1>3. Results'
    BY <1>1 DEF IInv, Results, analysis, Tools, Analyzers
  <1>4. Telling'
    BY <1>1 DEF Telling
  <1> QED BY <1>2, <1>3, <1>4 DEF IInv

\* The analyzers: what the worker takes from a thread is what it ended with.
LEMMA AnalyzersKeep ==
    ASSUME IInv, NEW t \in Tools, Collect(t) \/ TimeOut(t) \/ ToolEnds(t)
    PROVE  IInv'
  <1>1. /\ UNCHANGED <<ingestion, at, verdict, ai, aiFound, told>>
        /\ at = "analyze" /\ verdict # "completed"
    BY DEF Collect, TimeOut, ToolEnds, Take, IInv, Places
  <1>2. IngestionIInv' /\ Tools' = Tools /\ t \in AllTools
    BY <1>1, IdleIngestionKeeps, ToolsExist DEF IInv, ingestion, Tools, Analyzers
  <1>3. Places' /\ Telling'
    BY <1>1 DEF IInv, Places, Telling, ingestion
  <1>4. Results'
    <2>1. CASE Collect(t)
      <3>1. /\ tool' = tool /\ tool[t] # "running" /\ found' = (found \/ tool[t] = "hit")
            /\ ran' = IF tool[t] = "crashed" THEN ran ELSE ran \cup {t}
        BY <2>1 DEF Collect, Take
      <3>2. found \in BOOLEAN /\ aiFound \in BOOLEAN /\ ran \subseteq Tools
        BY DEF IInv, Results
      <3>3. found' \in BOOLEAN
        BY <3>1
      <3>4. (found \/ tool[t] = "hit") => found'
        BY <3>1
      <3>5. t \notin ran => tool[t] \in {"clean", "hit", "crashed"}
        BY <1>1, <1>2, <3>1 DEF IInv, Results
      <3> QED BY <1>1, <1>2, <3>1, <3>2, <3>3, <3>4, <3>5 DEF IInv, Results
    <2>2. CASE TimeOut(t)
      BY <1>1, <1>2, <2>2 DEF TimeOut, Take, IInv, Results
    <2>3. CASE ToolEnds(t)
      <3>1. PICK how \in {"clean", "hit", "crashed"} : tool' = [tool EXCEPT ![t] = how]
        BY <2>3 DEF ToolEnds
      <3>2. t \notin ran
        BY <2>3 DEF ToolEnds, IInv, Results
      <3>3. UNCHANGED <<found, ran>>
        BY <2>3 DEF ToolEnds
      <3> QED BY <1>1, <1>2, <3>1, <3>2, <3>3 DEF IInv, Results
    <2> QED BY <2>1, <2>2, <2>3
  <1> QED BY <1>2, <1>3, <1>4 DEF IInv

LEMMA NextIInv == IInv /\ [Next]_vars => IInv'
  <1> SUFFICES ASSUME IInv, [Next]_vars PROVE IInv'
    OBVIOUS
  <1>1. CASE UNCHANGED vars
    <2>1. UNCHANGED <<ingestion, at, verdict, analysis, told>>
      BY <1>1 DEF vars
    <2>2. IngestionIInv'
      BY <2>1, IdleIngestionKeeps DEF IInv
    <2>3. Places' /\ Results' /\ Telling'
      BY <2>1, TalkKeeps DEF IInv, Places, Results, Telling, ingestion, analysis, told
    <2> QED BY <2>2, <2>3 DEF IInv
  <1>2. CASE Stop \/ GithubFails \/ NotConfigured \/ TooManyFiles \/ PopulateFails
             \/ DownloadTooLarge \/ BadTarball \/ Refuse \/ BadDiff \/ AiFails \/ Complete
    BY <1>2, FailKeeps, RetryKeeps
    DEF Stop, GithubFails, NotConfigured, TooManyFiles, PopulateFails, DownloadTooLarge,
        BadTarball, Refuse, BadDiff, AiFails, Complete
  <1>3. CASE Begin \/ Compare \/ BuildDiff \/ Download \/ Open
    <2>1. UNCHANGED <<ingestion, analysis, told>> /\ target' = target
      BY <1>3 DEF Begin, Compare, BuildDiff, Download, Open, ingestion
    <2>2. IngestionIInv'
      BY <2>1, IdleIngestionKeeps DEF IInv
    <2>3. target \in {"repository", "pull_request"}
      BY DEF IInv, IngestionIInv, IngestionTypeOK
    <2>4. CASE Begin
      BY <2>1, <2>2, <2>3, <2>4, GotoKeeps DEF Begin
    <2>5. CASE Compare
      BY <2>1, <2>2, <2>5, GotoKeeps DEF Compare, IInv, Places
    <2>6. CASE BuildDiff
      BY <2>1, <2>2, <2>3, <2>6, GotoKeeps DEF BuildDiff, IInv, Places
    <2>7. CASE Download
      BY <2>1, <2>2, <2>7, GotoKeeps DEF Download, IInv, Places
    <2>8. CASE Open
      BY <2>1, <2>2, <2>8, GotoKeeps DEF Open, IInv, Places
    <2> QED BY <1>3, <2>4, <2>5, <2>6, <2>7, <2>8
  <1>4. CASE Populate
    <2>1. PICK p \in todo : Skip(p) \/ Fetch(p)
      BY <1>4 DEF Populate
    <2>2. target = "pull_request" /\ at = "fetch" /\ Goto("fetch") /\ UNCHANGED <<analysis, told>>
      BY <1>4 DEF Populate, IInv, Places
    <2>3. IngestionIInv' /\ target' = target
      BY <2>1, <2>2, FillKeeps DEF IInv, Skip, Fetch, Visit
    <2> QED BY <2>2, <2>3, GotoKeeps
  <1>5. CASE Unpack
    <2>1. PICK p \in todo : LeaveOut(p) \/ Extract(p) \/ WriteFails(p)
      BY <1>5 DEF Unpack
    <2>2. target = "repository" /\ at = "unpack" /\ Goto("unpack") /\ UNCHANGED <<analysis, told>>
      BY <1>5 DEF Unpack, IInv, Places
    <2>3. IngestionIInv' /\ target' = target
      BY <2>1, <2>2, WalkKeeps DEF IInv, LeaveOut, Extract, WriteFails, Visit
    <2> QED BY <2>2, <2>3, GotoKeeps
  <1>6. CASE Filled
    <2>1. /\ UNCHANGED <<ingestion, analysis, told>> /\ target' = target /\ todo' = todo
          /\ todo = {} /\ at \in {"fetch", "unpack"} /\ Goto("filled")
      BY <1>6 DEF Filled, ingestion
    <2>2. IngestionIInv'
      BY <2>1, IdleIngestionKeeps DEF IInv
    <2> QED BY <2>1, <2>2, GotoKeeps
  <1>7. CASE Analyze
    <2>1. /\ UNCHANGED <<ingestion, found, ran, ai, aiFound, told>>
          /\ at = "filled" /\ at' = "analyze" /\ verdict' = verdict
          /\ tool' = [t \in AllTools |-> IF t \in Tools THEN "running" ELSE "idle"]
      BY <1>7 DEF Analyze, Goto
    <2>2. IngestionIInv' /\ Tools' = Tools /\ Tools \subseteq AllTools
      BY <2>1, IdleIngestionKeeps, ToolsExist DEF IInv, ingestion, Tools, Analyzers
    <2>3. Places'
      BY <2>1 DEF IInv, Places, ingestion
    <2>4. Results'
      BY <2>1, <2>2 DEF IInv, Results
    <2>5. Telling'
      BY <2>1 DEF IInv, Places, Telling
    <2> QED BY <2>2, <2>3, <2>4, <2>5 DEF IInv
  <1>8. CASE \E t \in Tools : Collect(t) \/ TimeOut(t) \/ ToolEnds(t)
    BY <1>8, AnalyzersKeep
  <1>9. CASE Analyzed
    <2>1. /\ UNCHANGED <<ingestion, found, ran, ai, aiFound, told>>
          /\ at = "analyze" /\ at' = "ai" /\ verdict' = verdict
          /\ tool' = [t \in AllTools |-> IF tool[t] = "running" THEN "abandoned" ELSE tool[t]]
      BY <1>9 DEF Analyzed, Goto
    <2>2. IngestionIInv' /\ Tools' = Tools /\ Tools \subseteq AllTools
      BY <2>1, IdleIngestionKeeps, ToolsExist DEF IInv, ingestion, Tools, Analyzers
    <2>3. Places'
      BY <2>1 DEF IInv, Places, ingestion
    <2>4. Results'
      BY <2>1, <2>2 DEF IInv, Results
    <2>5. Telling'
      BY <2>1 DEF IInv, Places, Telling
    <2> QED BY <2>2, <2>3, <2>4, <2>5 DEF IInv
  <1>10. CASE AiStage
    <2>1. /\ UNCHANGED <<ingestion, tool, found, ran, told>>
          /\ at = "ai" /\ at' = "tell" /\ verdict' = verdict
          /\ ai' \in AiOutcomes /\ aiFound' \in BOOLEAN
      BY <1>10 DEF AiStage, Goto
    <2>2. IngestionIInv' /\ Tools' = Tools /\ AiOutcomes' = AiOutcomes
      BY <2>1, IdleIngestionKeeps DEF IInv, ingestion, Tools, Analyzers, AiOutcomes
    <2>3. Places'
      BY <2>1 DEF IInv, Places, ingestion
    <2>4. Results'
      BY <2>1, <2>2 DEF IInv, Results
    <2>5. Telling'
      BY <2>1, <2>2 DEF IInv, Places, Telling
    <2> QED BY <2>2, <2>3, <2>4, <2>5 DEF IInv
  <1>11. CASE Tell
    <2>1. /\ UNCHANGED <<ingestion, analysis>>
          /\ at = "tell" /\ at' = "told" /\ verdict' = verdict
          /\ summary' = Sentences /\ banners' = Notices
      BY <1>11 DEF Tell, Goto
    <2>2. IngestionIInv'
      BY <2>1, IdleIngestionKeeps DEF IInv
    <2>3. Places'
      BY <2>1 DEF IInv, Places, ingestion
    <2>4. Results'
      BY <2>1, TalkKeeps DEF IInv, Results, analysis
    <2>5. Telling'
      BY <2>1, TalkKeeps DEF IInv, Telling, analysis
    <2> QED BY <2>2, <2>3, <2>4, <2>5 DEF IInv
  <1> QED BY <1>1, <1>2, <1>3, <1>4, <1>5, <1>6, <1>7, <1>8, <1>9, <1>10, <1>11
      DEF Next, Worker

\* The inductive invariant holds of every behaviour of a job.
THEOREM RunInvariance == Spec => []IInv
  BY InitIInv, NextIInv, PTL DEF Spec

-----------------------------------------------------------------------------
(* What the reader may rely on.                                            *)

\* What was told of a completed review, word for word.
LEMMA Told ==
    ASSUME IInv, verdict = "completed"
    PROVE  /\ summary = Sentences /\ banners = Notices /\ ai \in AiOutcomes
           /\ "analyzers did not finish" \in banners <=> Tools \ ran # {}
           /\ "clean" \in summary => ran # {} /\ ~found /\ ~aiFound
  <1>1. summary = Sentences /\ banners = Notices /\ ai \in AiOutcomes
    BY DEF IInv, Telling
  <1>2. ai \notin {"clean", "analyzers did not finish"}
    BY <1>1 DEF AiOutcomes
  <1>3. "analyzers did not finish" \in banners <=> Tools \ ran # {}
    BY <1>1, <1>2 DEF Notices, Skipped
  <1>4. "clean" \in summary => Headline = "clean"
    BY <1>1, <1>2 DEF Sentences
  <1>5. Headline = "clean" => ran # {} /\ ~found /\ ~aiFound
    BY DEF Headline, FoundAny
  <1> QED BY <1>1, <1>3, <1>4, <1>5

\* Once a walk is over the files for review that are not whole in the workspace are
\* exactly as many as the reader is told of, and of a repository the files and the bytes
\* counted as extracted are those that are there (snapshot.py:55-117, runner.py:118-152,
\* 481-490).
THEOREM WalksAccount == Spec => []CountsAreExact
  <1>1. IInv => CountsAreExact
    <2> SUFFICES ASSUME IInv, todo = {} PROVE CountsAreExact
      BY DEF CountsAreExact, FilesAreAccounted
    <2>1. (Wanted \ todo) \ Whole = Wanted \ Whole
      OBVIOUS
    <2> QED BY <2>1 DEF IInv, IngestionIInv, Accounted, FilesAreAccounted, CountsAreExact
  <1> QED BY <1>1, RunInvariance, PTL

\* The page names every review with an analyzer that did not finish, and "passes all
\* checks" is never said of one in which none did (base.py:23-49, pipeline.py:67-81).
THEOREM ToolsAreNamed == Spec => []EveryToolIsNamed
  <1>1. IInv => EveryToolIsNamed
    <2> SUFFICES ASSUME IInv, verdict = "completed" PROVE EveryToolIsNamed
      BY DEF EveryToolIsNamed
    <2>1. \A t \in ran : t \in Tools /\ (tool[t] = "clean" \/ (tool[t] = "hit" /\ found))
      BY DEF IInv, Results
    <2>2. (\E t \in Tools : tool[t] \in {"crashed", "abandoned"} \/ t \notin ran) <=> Tools \ ran # {}
      BY <2>1
    <2>3. "clean" \in summary => ran # {} /\ \A t \in ran : tool[t] # "hit"
      BY <2>1, Told
    <2> QED BY <2>2, <2>3, Told DEF EveryToolIsNamed
  <1> QED BY <1>1, RunInvariance, PTL

\* A review that is clean and says nothing besides had every analyzer finish, the AI
\* reviewer read what it was given, and every file for review in the workspace
\* (snapshot.py:6-10, pipeline.py:67-85, 296-333, runner.py:481-490).
THEOREM SilenceIsEarned == Spec => []SilenceMeansChecked
  <1>1. IInv => SilenceMeansChecked
    <2> SUFFICES ASSUME IInv, verdict = "completed", summary = {"clean"}, banners = {}
                 PROVE  (\A t \in Tools : tool[t] = "clean") /\ ai = "complete" /\ Wanted \subseteq Whole
      BY DEF SilenceMeansChecked
    <2>1. summary = Sentences /\ banners = Notices /\ ai \in AiOutcomes /\ Tools \subseteq ran /\ ~found
      BY Told
    <2>2. ai = "complete"
      <3>1. ai # "complete" => ai \in summary
        BY <2>1 DEF Sentences
      <3> QED BY <2>1, <3>1 DEF AiOutcomes
    <2>3. \A t \in Tools : tool[t] = "clean"
      BY <2>1 DEF IInv, Results
    <2>4. target \in {"repository", "pull_request"} /\ todo = {} /\ IngestionTypeOK
      BY DEF IInv, Places, IngestionIInv, IngestionTypeOK
    <2>5. /\ Missed = Cardinality(Wanted \ Whole)
          /\ IsFiniteSet(Wanted \ Whole)
      <3>1. (Wanted \ todo) \ Whole = Wanted \ Whole /\ Wanted \subseteq Paths
        BY <2>4 DEF Wanted
      <3> QED BY <3>1, PathsAreFinite DEF IInv, IngestionIInv, Accounted
    <2>6. Missed = 0
      <3>1. CASE target = "repository"
        <4>1. ~(Missed > 0)
          BY <2>1, <2>2, <3>1 DEF Notices
        <4> QED BY <2>4, <3>1, <4>1, CountersAreNat DEF Missed
      <3>2. CASE target = "pull_request"
        <4>1. ~(counts.skipped > 0)
          <5>1. counts.skipped > 0 => "files not reviewed" \in summary
            BY <2>1, <3>2 DEF Sentences
          <5> QED BY <5>1
        <4> QED BY <2>4, <3>2, <4>1, CountersAreNat DEF Missed
      <3> QED BY <2>4, <3>1, <3>2
    <2>7. Wanted \subseteq Whole
      BY <2>5, <2>6, FS_EmptySet
    <2> QED BY <2>2, <2>3, <2>7
  <1> QED BY <1>1, RunInvariance, PTL
=============================================================================
