-------------------------- MODULE AiReview_proofs ---------------------------
(***************************************************************************)
(* Theorems about the AI part of a review: the account's key (AiKey), for  *)
(* any number of saves, removals and providers, and the AI stage of a      *)
(* repository review (RepoAiStage), for any files, chunks, budgets and     *)
(* answers.                                                                *)
(***************************************************************************)
EXTENDS RepoAiStage, AiKey, FoldLaws, TLAPS

\* A stored row is a full record, and its id is never that of NoRow.
LEMMA StoredRows ==
    ASSUME NEW n \in Nat, NEW r \in Rows(n)
    PROVE  /\ r # NoRow => r \in [id : 1..n, provider : Providers, key : Saves]
           /\ r # NoRow <=> r.id # 0
           /\ r \in Rows(n + 1)
  BY DEF Rows, NoRow

\* What an update leaves in the row it finds under the id it loaded.
LEMMA UpdateWrites ==
    ASSUME KeyIInv, NEW s \in Saves, Update(s)
    PROVE  /\ row' \in Rows(lastId) /\ row' # NoRow /\ row # NoRow
           /\ row'.id = row.id /\ row'.key = s
           /\ row = loaded[s] => row'.provider = chosen[s]
  <1>1. /\ row \in Rows(lastId) /\ loaded[s] \in Rows(lastId) /\ loaded[s] # NoRow
        /\ row.id = loaded[s].id /\ chosen[s] \in Providers /\ lastId \in Nat
    BY DEF KeyIInv, KeyTypeOK, Update, Requests
  <1>2. loaded[s] \in [id : 1..lastId, provider : Providers, key : Saves]
    BY <1>1, StoredRows
  <1>3. row # NoRow /\ row \in [id : 1..lastId, provider : Providers, key : Saves]
    BY <1>1, StoredRows
  <1>4. loaded[s].key # s
    BY <1>1 DEF KeyIInv, Unsaved, Update, Writing, Requests
  <1>5. row' = [c \in {"id", "provider", "key"} |->
                   IF Assigned(s, loaded[s])[c] # loaded[s][c]
                   THEN Assigned(s, loaded[s])[c] ELSE row[c]]
    BY <1>3 DEF Update, NetChange
  <1>6. /\ row'.id = row.id /\ row'.key = s
        /\ row'.provider = IF chosen[s] # loaded[s].provider THEN chosen[s] ELSE row.provider
    BY <1>1, <1>4, <1>5 DEF Assigned
  <1>7. row' = [id |-> row'.id, provider |-> row'.provider, key |-> row'.key]
    BY <1>5
  <1>8. row' \in [id : 1..lastId, provider : Providers, key : Saves]
    BY <1>1, <1>3, <1>6, <1>7
  <1>9. row' \in Rows(lastId) /\ row' # NoRow
    <2>1. row'.id # 0
      BY <1>1, <1>8
    <2> QED BY <1>8, <2>1 DEF Rows, NoRow
  <1> QED BY <1>3, <1>6, <1>9

\* An account without a key.
LEMMA KeyStarts == KeyInit => KeyIInv
  <1> SUFFICES ASSUME KeyInit PROVE KeyIInv
    OBVIOUS
  <1>1. KeyTypeOK
    BY DEF KeyInit, KeyTypeOK, Rows
  <1>2. Unsaved /\ KeyIsTheLast /\ MixNeedsARace
    BY DEF KeyInit, Unsaved, KeyIsTheLast, MixNeedsARace
  <1>3. OnlyRemovalsBreakSaves /\ Loaded
    BY DEF KeyInit, OnlyRemovalsBreakSaves, Loaded, Requests
  <1> QED BY <1>1, <1>2, <1>3 DEF KeyIInv

\* No step of a request leads out of the invariant.
LEMMA KeyKeeps == KeyIInv /\ [KeyNext]_keyVars => KeyIInv'
  <1> SUFFICES ASSUME KeyIInv, [KeyNext]_keyVars PROVE KeyIInv'
    OBVIOUS
  <1>0. /\ KeyTypeOK /\ Unsaved /\ Loaded /\ KeyIsTheLast /\ MixNeedsARace
        /\ OnlyRemovalsBreakSaves /\ lastId \in Nat
    BY DEF KeyIInv, KeyTypeOK
  <1>1. ASSUME NEW r \in Requests, Load(r) PROVE KeyIInv'
    <2>1. KeyTypeOK'
      BY <1>0, <1>1 DEF Load, GoTo, known, KeyTypeOK
    <2>2. Unsaved' /\ KeyIsTheLast' /\ MixNeedsARace'
      BY <1>0, <1>1 DEF Load, GoTo, known, KeyTypeOK, Unsaved, KeyIsTheLast, MixNeedsARace, Requests
    <2>3. OnlyRemovalsBreakSaves' /\ Loaded'
      BY <1>0, <1>1
      DEF Load, GoTo, known, KeyTypeOK, OnlyRemovalsBreakSaves, Loaded, Requests
    <2> QED BY <2>1, <2>2, <2>3 DEF KeyIInv
  <1>2. ASSUME NEW s \in Requests, InsertRow(s) PROVE KeyIInv'
    <2>0. /\ s \in Saves /\ lastId' = lastId + 1
          /\ row' = [id |-> lastId', provider |-> chosen[s], key |-> s]
          /\ row' \in Rows(lastId') /\ row' # NoRow /\ row'.key = s /\ row'.provider = chosen[s]
          /\ row'.id = lastId + 1
      <3>1. /\ s \in Saves /\ lastId' = lastId + 1 /\ chosen[s] \in Providers
            /\ row' = [id |-> lastId', provider |-> chosen[s], key |-> s]
        BY <1>0, <1>2 DEF InsertRow, Writing, KeyTypeOK
      <3>2. row'.id = lastId + 1 /\ lastId + 1 # 0
        BY <1>0, <3>1
      <3>3. row' \in [id : 1..lastId', provider : Providers, key : Saves]
        BY <1>0, <3>1
      <3> QED BY <3>1, <3>2, <3>3 DEF Rows, NoRow
    <2>1. \A r \in Requests : loaded'[r] \in Rows(lastId')
      BY <1>0, <1>2, <2>0, StoredRows DEF InsertRow, KeyTypeOK
    <2>2. KeyTypeOK'
      BY <1>0, <1>2, <2>0, <2>1 DEF InsertRow, GoTo, KeyTypeOK
    <2>3. Unsaved' /\ KeyIsTheLast' /\ MixNeedsARace'
      BY <1>0, <1>2, <2>0
      DEF InsertRow, GoTo, Writing, KeyTypeOK, Unsaved, KeyIsTheLast, MixNeedsARace, Requests
    <2>4. \A r \in Requests : loaded[r] # NoRow => removed
      BY <1>0, <1>2 DEF InsertRow, Loaded
    <2>5. OnlyRemovalsBreakSaves' /\ Loaded'
      BY <1>0, <1>2, <2>0, <2>4
      DEF InsertRow, GoTo, Writing, KeyTypeOK, OnlyRemovalsBreakSaves, Loaded, Requests
    <2> QED BY <2>2, <2>3, <2>5 DEF KeyIInv
  <1>3. ASSUME NEW s \in Requests, InsertRefused(s) PROVE KeyIInv'
    <2>0. s \in Saves /\ lastId > 0
      BY <1>0, <1>3 DEF InsertRefused, Writing, KeyTypeOK, Rows, NoRow
    <2>1. KeyTypeOK'
      BY <1>0, <1>3 DEF InsertRefused, GoTo, known, KeyTypeOK
    <2>2. Unsaved' /\ KeyIsTheLast' /\ MixNeedsARace'
      BY <1>0, <1>3
      DEF InsertRefused, GoTo, Writing, known, KeyTypeOK, Unsaved, KeyIsTheLast, MixNeedsARace,
      Requests
    <2>3. OnlyRemovalsBreakSaves' /\ Loaded'
      BY <1>0, <1>3, <2>0
      DEF InsertRefused, GoTo, Writing, known, KeyTypeOK, OnlyRemovalsBreakSaves, Loaded, Requests
    <2> QED BY <2>1, <2>2, <2>3 DEF KeyIInv
  <1>4. ASSUME NEW s \in Requests, Update(s) PROVE KeyIInv'
    <2>0. /\ s \in Saves /\ row' \in Rows(lastId) /\ row' # NoRow /\ row # NoRow
          /\ row'.id = row.id /\ row'.key = s
          /\ row = loaded[s] => row'.provider = chosen[s]
      <3>1. s \in Saves
        BY <1>4 DEF Update, Writing
      <3> QED BY <1>4, <3>1, UpdateWrites
    <2>1. KeyTypeOK'
      BY <1>0, <1>4, <2>0 DEF Update, GoTo, KeyTypeOK
    <2>2. Unsaved' /\ KeyIsTheLast' /\ MixNeedsARace'
      BY <1>0, <1>4, <2>0
      DEF Update, GoTo, Writing, KeyTypeOK, Unsaved, KeyIsTheLast, MixNeedsARace, Requests
    <2>3. OnlyRemovalsBreakSaves' /\ Loaded'
      BY <1>0, <1>4, <2>0
      DEF Update, GoTo, Writing, KeyTypeOK, OnlyRemovalsBreakSaves, Loaded, Requests
    <2> QED BY <2>1, <2>2, <2>3 DEF KeyIInv
  <1>5. ASSUME NEW s \in Requests, UpdateMisses(s) PROVE KeyIInv'
    <2>0. s \in Saves /\ removed
      BY <1>0, <1>5 DEF UpdateMisses, Writing, Loaded
    <2>1. KeyTypeOK'
      BY <1>0, <1>5 DEF UpdateMisses, GoTo, known, KeyTypeOK
    <2>2. Unsaved' /\ KeyIsTheLast' /\ MixNeedsARace'
      BY <1>0, <1>5
      DEF UpdateMisses, GoTo, Writing, known, KeyTypeOK, Unsaved, KeyIsTheLast, MixNeedsARace,
      Requests
    <2>3. OnlyRemovalsBreakSaves' /\ Loaded'
      BY <1>0, <1>5, <2>0
      DEF UpdateMisses, GoTo, Writing, known, KeyTypeOK, OnlyRemovalsBreakSaves, Loaded, Requests
    <2> QED BY <2>1, <2>2, <2>3 DEF KeyIInv
  <1>6. ASSUME NEW d \in Requests, RemoveKey(d) PROVE KeyIInv'
    <2>0. d \notin Saves
      BY <1>6, RequestsApart DEF RemoveKey
    <2>1. KeyTypeOK'
      <3>1. row' \in Rows(lastId) /\ UNCHANGED <<lastId, chosen, loaded, raced>>
        BY <1>0, <1>6 DEF RemoveKey, KeyTypeOK, Rows
      <3>2. last' \subseteq Saves /\ removed' \in BOOLEAN
        BY <1>0, <1>6, Zenon DEF RemoveKey, KeyTypeOK
      <3>3. pc' \in [Requests -> {"idle", "commit", "reload", "retry", "saved", "server_error"}]
        BY <1>0, <1>6 DEF RemoveKey, GoTo, KeyTypeOK
      <3> QED BY <1>0, <3>1, <3>2, <3>3 DEF KeyTypeOK
    <2>2. Unsaved' /\ KeyIsTheLast' /\ MixNeedsARace'
      BY <1>0, <1>6, <2>0
      DEF RemoveKey, GoTo, KeyTypeOK, Unsaved, KeyIsTheLast, MixNeedsARace, Requests
    <2>3. OnlyRemovalsBreakSaves' /\ Loaded'
      BY <1>0, <1>6, <2>0
      DEF RemoveKey, GoTo, KeyTypeOK, OnlyRemovalsBreakSaves, Loaded, Requests
    <2> QED BY <2>1, <2>2, <2>3 DEF KeyIInv
  <1>7. CASE UNCHANGED keyVars
    BY <1>0, <1>7 DEF keyVars, known, KeyIInv, KeyTypeOK, Unsaved, Loaded, KeyIsTheLast,
       MixNeedsARace,
                      OnlyRemovalsBreakSaves, Writing
  <1> QED BY <1>1, <1>2, <1>3, <1>4, <1>5, <1>6, <1>7 DEF KeyNext

\* The invariant holds however many tabs save and remove at once.  A request is a PUT or a
\* DELETE, never both (RequestsApart, which the model's runs evaluate).
THEOREM AiKeyInvariance == KeySpec => []KeyIInv
  <1> QED BY KeyStarts, KeyKeeps, PTL DEF KeySpec

\* The stored key is that of the last save to be committed.
THEOREM LastKeyWins == KeySpec => []KeyIsTheLast
  <1>1. KeyIInv => KeyIsTheLast
    BY DEF KeyIInv
  <1> QED BY <1>1, AiKeyInvariance, PTL

\* Saves that take turns store the provider with its key.
THEOREM TurnsDoNotMix == KeySpec => []MixNeedsARace
  <1>1. KeyIInv => MixNeedsARace
    BY DEF KeyIInv
  <1> QED BY <1>1, AiKeyInvariance, PTL

\* Saves alone, however they race, never end in a 500.
THEOREM RacesAreAnswered == KeySpec => []OnlyRemovalsBreakSaves
  <1>1. KeyIInv => OnlyRemovalsBreakSaves
    BY DEF KeyIInv
  <1> QED BY <1>1, AiKeyInvariance, PTL

-----------------------------------------------------------------------------
(* The AI stage of a repository review.                                    *)

-----------------------------------------------------------------------------
(* The plan.                                                               *)

\* A plan of the first k files: every one that fits is in one chunk, once.
Packs(f, plan, k) ==
    /\ plan \in Seq(Seq(1..k))
    /\ \A c, d \in DOMAIN plan : \A i \in DOMAIN plan[c], j \in DOMAIN plan[d] :
          plan[c][i] = plan[d][j] => c = d /\ i = j
    /\ \A n \in 1..k : f[n] <= Budget => \E c \in DOMAIN plan : n \in ToSet(plan[c])

\* Placing a file makes a plan of a plan.
LEMMA PlaceTyped ==
    ASSUME NEW f, NEW n \in Nat, NEW plan \in Seq(Seq(1..n)), NEW i \in 1..n
    PROVE  Place(f, plan, i) \in Seq(Seq(1..n))
  <1>1. <<i>> \in Seq(1..n)
    OBVIOUS
  <1>4. Append(plan, <<i>>) \in Seq(Seq(1..n))
    BY <1>1
  <1>2. CASE plan # <<>>
    <2>1. Len(plan) \in DOMAIN plan /\ plan[Len(plan)] \in Seq(1..n)
      BY <1>2
    <2>2. Append(plan[Len(plan)], i) \in Seq(1..n)
      BY <2>1
    <2>3. JoinLast(plan, i) \in Seq(Seq(1..n))
      BY <2>1, <2>2 DEF JoinLast
    <2> QED BY <1>4, <2>3 DEF Place
  <1>3. CASE plan = <<>>
    BY <1>4, <1>3 DEF Place
  <1> QED BY <1>2, <1>3

\* The plan is made file by file.
LEMMA PlanUnrolls ==
    ASSUME NEW f \in Seq(Nat)
    PROVE  \E acc \in [0..Len(f) -> Seq(Seq(1..Len(f)))] :
              /\ acc[0] = <<>> /\ acc[Len(f)] = PlanChunks(f)
              /\ \A i \in 1..Len(f) : acc[i] = Place(f, acc[i - 1], i)
  <1> DEFINE n == Len(f)
             V == Seq(Seq(1..n))
             step == [vi \in V \X (1..n) |-> Place(f, vi[1], vi[2])]
             Folds(g) == g = [A \in SUBSET DOMAIN [i \in DOMAIN f |-> i] |->
                                 IF A = {} THEN <<>>
                                 ELSE Place(f, g[A \ {Max(A)}], [i \in DOMAIN f |-> i][Max(A)])]
             iter == CHOOSE g : Folds(g)
  <1>1. n \in Nat /\ DOMAIN f = 1..n /\ DOMAIN [i \in DOMAIN f |-> i] = 1..n
    OBVIOUS
  <1>2. \A v \in V, i \in 1..n : Place(f, v, i) \in V
    BY PlaceTyped
  <1>3. step \in [V \X (1..n) -> V] /\ <<>> \in V /\ \A v \in V, i \in 1..n : step[<<v, i>>] = Place(f, v, i)
    BY <1>2
  <1>4. \A A \in SUBSET (1..n) : A # {} => Max(A) \in 1..n /\ [i \in DOMAIN f |-> i][Max(A)] = Max(A)
    BY <1>1, MaxIsGreatest
  <1>5. PlanChunks(f) = iter[1..n]
    BY <1>1 DEF PlanChunks, FoldLeft, MapThenFoldSet
  <1> HIDE DEF step, V, n
  <1>6. PICK g : IsLeftFold(g, n, V, <<>>, step)
    BY <1>1, <1>3, LeftFoldExists
  <1>7. Folds(g)
    BY <1>1, <1>3, <1>4, <1>6 DEF IsLeftFold
  <1>8. Folds(iter)
    <2> HIDE DEF Folds
    <2> QED BY <1>7
  <1> HIDE DEF iter
  <1>9. FoldsOn(iter, n, V, <<>>, step)
    BY <1>1, <1>3, <1>4, <1>8 DEF FoldsOn
  <1>10. PICK acc : Unrolls(acc, iter, n, V, <<>>, step)
    <2>1. n \in Nat /\ <<>> \in V /\ step \in [V \X (1..n) -> V]
      BY <1>1, <1>3
    <2> QED BY <2>1, <1>9, LeftFoldUnrolls
  <1>11. acc \in [0..n -> V] /\ acc[0] = <<>> /\ acc[n] = iter[1..n] /\ \A i \in 1..n : acc[i] = Place(f, acc[i - 1], i)
    BY <1>3, <1>10 DEF Unrolls
  <1> QED BY <1>5, <1>11 DEF n, V

\* Placing a file keeps what is packed and packs it too, if it fits.
LEMMA PlacePacks ==
    ASSUME NEW f, NEW k \in Nat \ {0}, NEW plan, Packs(f, plan, k - 1), f[k] \in Nat
    PROVE  Packs(f, Place(f, plan, k), k)
  <1>1. /\ plan \in Seq(Seq(1..k)) /\ Budget \in Nat
        /\ \A c \in DOMAIN plan : plan[c] \in Seq(1..(k - 1)) /\ plan[c] \in Seq(1..k)
        /\ \A c \in DOMAIN plan : \A i \in DOMAIN plan[c] : plan[c][i] # k
    <2>1. plan \in Seq(Seq(1..(k - 1)))
      BY DEF Packs
    <2>2. \A s \in Seq(1..(k - 1)) : s \in Seq(1..k) /\ \A i \in DOMAIN s : s[i] # k
      OBVIOUS
    <2>3. Budget \in Nat
      BY StageAssumption
    <2> QED BY <2>1, <2>2, <2>3
  <1>2. /\ \A c, d \in DOMAIN plan : \A i \in DOMAIN plan[c], j \in DOMAIN plan[d] :
             plan[c][i] = plan[d][j] => c = d /\ i = j
        /\ \A n \in 1..(k - 1) : f[n] <= Budget => \E c \in DOMAIN plan : n \in ToSet(plan[c])
    BY DEF Packs
  <1>3. CASE f[k] > Budget
    <2>1. Place(f, plan, k) = plan
      BY <1>3 DEF Place
    <2>2. \A n \in 1..k : f[n] <= Budget => n \in 1..(k - 1)
      BY <1>1, <1>3
    <2> QED BY <1>1, <1>2, <2>1, <2>2 DEF Packs
  <1>4. CASE ~(f[k] > Budget) /\ plan # <<>> /\ SizeOf(f, Last(plan)) + f[k] <= Budget
    <2> DEFINE m == Len(plan)
               new == Place(f, plan, k)
    <2>1. m \in DOMAIN plan /\ plan[m] \in Seq(1..k)
      BY <1>1, <1>4
    <2>2. new = [plan EXCEPT ![m] = Append(plan[m], k)]
      BY <1>4, <2>1 DEF Place, JoinLast
    <2> HIDE DEF m, new
    <2>3. /\ new \in Seq(Seq(1..k)) /\ DOMAIN new = DOMAIN plan
          /\ new[m] = Append(plan[m], k) /\ \A c \in DOMAIN plan \ {m} : new[c] = plan[c]
      <3>1. Append(plan[m], k) \in Seq(1..k)
        BY <2>1
      <3> QED BY <1>1, <2>1, <2>2, <3>1
    <2>4. /\ DOMAIN new[m] = DOMAIN plan[m] \cup {Len(plan[m]) + 1}
          /\ new[m][Len(plan[m]) + 1] = k
          /\ \A i \in DOMAIN plan[m] : new[m][i] = plan[m][i]
      <3>1. \A t \in Seq(1..k) : /\ DOMAIN Append(t, k) = DOMAIN t \cup {Len(t) + 1}
                                 /\ Append(t, k)[Len(t) + 1] = k
                                 /\ \A i \in DOMAIN t : Append(t, k)[i] = t[i]
        OBVIOUS
      <3> QED BY <2>1, <2>3, <3>1
    <2>5. ASSUME NEW c \in DOMAIN new, NEW i \in DOMAIN new[c]
          PROVE  \/ i \in DOMAIN plan[c] /\ new[c][i] = plan[c][i] /\ new[c][i] # k
                 \/ c = m /\ i = Len(plan[m]) + 1 /\ new[c][i] = k
      BY <1>1, <2>3, <2>4
    <2>6. \A c, d \in DOMAIN new : \A i \in DOMAIN new[c], j \in DOMAIN new[d] :
             new[c][i] = new[d][j] => c = d /\ i = j
      <3> SUFFICES ASSUME NEW c \in DOMAIN new, NEW d \in DOMAIN new,
                          NEW i \in DOMAIN new[c], NEW j \in DOMAIN new[d], new[c][i] = new[d][j]
                   PROVE  c = d /\ i = j
        OBVIOUS
      <3>1. CASE new[c][i] = k
        BY <2>5, <3>1
      <3>2. CASE new[c][i] # k
        <4>1. /\ i \in DOMAIN plan[c] /\ new[c][i] = plan[c][i]
              /\ j \in DOMAIN plan[d] /\ new[d][j] = plan[d][j]
          BY <2>5, <3>2
        <4>2. c \in DOMAIN plan /\ d \in DOMAIN plan
          BY <2>3
        <4>3. plan[c][i] = plan[d][j]
          BY <4>1
        <4> QED BY <1>2, <4>1, <4>2, <4>3
      <3> QED BY <3>1, <3>2
    <2>7. ASSUME NEW n \in 1..k, f[n] <= Budget PROVE \E c \in DOMAIN new : n \in ToSet(new[c])
      <3>1. CASE n = k
        BY <2>1, <2>3, <2>4, <3>1 DEF ToSet
      <3>2. CASE n # k
        <4>1. PICK c \in DOMAIN plan : n \in ToSet(plan[c])
          BY <1>2, <2>7, <3>2
        <4>2. PICK i \in DOMAIN plan[c] : n = plan[c][i]
          BY <4>1 DEF ToSet
        <4>3. i \in DOMAIN new[c] /\ new[c][i] = n
          BY <2>3, <2>4, <4>2
        <4> QED BY <2>3, <4>3 DEF ToSet
      <3> QED BY <3>1, <3>2
    <2> QED BY <2>3, <2>6, <2>7 DEF Packs, new
  <1>5. CASE ~(f[k] > Budget) /\ ~(plan # <<>> /\ SizeOf(f, Last(plan)) + f[k] <= Budget)
    <2> DEFINE m == Len(plan) + 1
               new == Place(f, plan, k)
    <2>1. new = Append(plan, <<k>>)
      BY <1>5 DEF Place
    <2> HIDE DEF new
    <2>2. <<k>> \in Seq(1..k) /\ DOMAIN <<k>> = {1} /\ <<k>>[1] = k
      OBVIOUS
    <2>3. /\ new \in Seq(Seq(1..k)) /\ DOMAIN new = DOMAIN plan \cup {m} /\ m \notin DOMAIN plan
          /\ new[m] = <<k>> /\ \A c \in DOMAIN plan : new[c] = plan[c]
      BY <1>1, <2>1, <2>2
    <2> HIDE DEF m
    <2>4. \A c, d \in DOMAIN new : \A i \in DOMAIN new[c], j \in DOMAIN new[d] :
             new[c][i] = new[d][j] => c = d /\ i = j
      BY <1>1, <1>2, <2>2, <2>3
    <2>5. ASSUME NEW n \in 1..k, f[n] <= Budget PROVE \E c \in DOMAIN new : n \in ToSet(new[c])
      <3>1. CASE n = k
        BY <2>2, <2>3, <3>1 DEF ToSet
      <3>2. CASE n # k
        BY <1>2, <2>3, <2>5, <3>2
      <3> QED BY <3>1, <3>2
    <2> QED BY <2>3, <2>4, <2>5 DEF Packs, new
  <1> QED BY <1>3, <1>4, <1>5

\* plan_chunks puts every file that fits into one chunk, once (repo_review.py:140-147).
LEMMA PlanPacks ==
    ASSUME NEW f \in Seq(Nat)
    PROVE  Packs(f, PlanChunks(f), Len(f))
  <1>1. PICK acc \in [0..Len(f) -> Seq(Seq(1..Len(f)))] :
           /\ acc[0] = <<>> /\ acc[Len(f)] = PlanChunks(f)
           /\ \A i \in 1..Len(f) : acc[i] = Place(f, acc[i - 1], i)
    BY PlanUnrolls
  <1> DEFINE Good == {k \in Nat : k <= Len(f) => Packs(f, acc[k], k)}
  <1>2. 0 \in Good
    BY <1>1 DEF Packs
  <1>3. ASSUME NEW k \in Nat, k \in Good PROVE k + 1 \in Good
    <2> SUFFICES ASSUME k + 1 <= Len(f) PROVE Packs(f, acc[k + 1], k + 1)
      OBVIOUS
    <2>1. (k + 1) - 1 = k /\ k + 1 \in 1..Len(f) /\ k + 1 \in Nat \ {0} /\ f[k + 1] \in Nat
      OBVIOUS
    <2>2. Packs(f, acc[(k + 1) - 1], (k + 1) - 1)
      BY <1>3, <2>1
    <2>3. acc[k + 1] = Place(f, acc[(k + 1) - 1], k + 1)
      BY <1>1, <2>1
    <2> QED BY <2>1, <2>2, <2>3, PlacePacks
  <1>4. \A k \in Nat : k \in Good
    <2> HIDE DEF Good
    <2> QED BY <1>2, <1>3, NumberInduction
  <1>5. Len(f) \in Nat
    OBVIOUS
  <1> QED BY <1>1, <1>4, <1>5

\* The files of a chunk are as many as its length, and no other chunk has them.
LEMMA ChunkFiles ==
    ASSUME NEW f, NEW k \in Nat, NEW plan, Packs(f, plan, k), NEW c \in DOMAIN plan
    PROVE  /\ ToSet(plan[c]) \subseteq 1..k /\ IsFiniteSet(ToSet(plan[c]))
           /\ Cardinality(ToSet(plan[c])) = Len(plan[c]) /\ Len(plan[c]) \in Nat
           /\ \A d \in DOMAIN plan \ {c} : ToSet(plan[c]) \cap ToSet(plan[d]) = {}
  <1>1. plan[c] \in Seq(1..k)
    BY DEF Packs
  <1>2. /\ Len(plan[c]) \in Nat /\ DOMAIN plan[c] = 1..Len(plan[c])
        /\ plan[c] \in [1..Len(plan[c]) -> ToSet(plan[c])] /\ ToSet(plan[c]) \subseteq 1..k
    BY <1>1 DEF ToSet
  <1>3. plan[c] \in Surjection(1..Len(plan[c]), ToSet(plan[c]))
    BY <1>2 DEF Surjection, ToSet
  <1>4. plan[c] \in Injection(1..Len(plan[c]), ToSet(plan[c]))
    BY <1>2 DEF Injection, IsInjective, Packs
  <1>5. IsFiniteSet(1..Len(plan[c])) /\ Cardinality(1..Len(plan[c])) = Len(plan[c])
    BY <1>2, FirstNumbers
  <1>6. IsFiniteSet(ToSet(plan[c])) /\ Cardinality(ToSet(plan[c])) = Len(plan[c])
    BY <1>3, <1>4, <1>5, FS_Surjection
  <1>7. ASSUME NEW d \in DOMAIN plan, d # c PROVE ToSet(plan[c]) \cap ToSet(plan[d]) = {}
    BY <1>7 DEF ToSet, Packs
  <1> QED BY <1>2, <1>6, <1>7

\* Files are counted chunk by chunk.
LEMMA FilesOfChunks ==
    ASSUME Packs(files, chunks, Len(files)), Len(files) \in Nat, NEW set \in SUBSET DOMAIN chunks
    PROVE  /\ FilesIn(set) \subseteq 1..Len(files) /\ IsFiniteSet(FilesIn(set))
           /\ Cardinality(FilesIn(set)) \in 0..Len(files)
           /\ Cardinality(FilesIn(set)) = Len(files) => FilesIn(set) = 1..Len(files)
           /\ \A c \in DOMAIN chunks \ set :
                 Cardinality(FilesIn(set \cup {c})) = Cardinality(FilesIn(set)) + Len(chunks[c])
  <1>1. FilesIn(set) \subseteq 1..Len(files)
    BY ChunkFiles DEF FilesIn
  <1>2. IsFiniteSet(1..Len(files)) /\ Cardinality(1..Len(files)) = Len(files)
    BY FirstNumbers
  <1>3. /\ IsFiniteSet(FilesIn(set)) /\ Cardinality(FilesIn(set)) <= Len(files)
        /\ Cardinality(FilesIn(set)) = Len(files) => FilesIn(set) = 1..Len(files)
    BY <1>1, <1>2, FS_Subset
  <1>4. Cardinality(FilesIn(set)) \in Nat
    BY <1>3, FS_CardinalityType
  <1>5. ASSUME NEW c \in DOMAIN chunks \ set
        PROVE  Cardinality(FilesIn(set \cup {c})) = Cardinality(FilesIn(set)) + Len(chunks[c])
    <2>1. FilesIn(set \cup {c}) = FilesIn(set) \cup ToSet(chunks[c])
      BY DEF FilesIn
    <2>2. FilesIn(set) \cap ToSet(chunks[c]) = {}
      BY ChunkFiles DEF FilesIn
    <2>3. IsFiniteSet(ToSet(chunks[c])) /\ Cardinality(ToSet(chunks[c])) = Len(chunks[c]) /\ Len(chunks[c]) \in Nat
      BY ChunkFiles
    <2> QED BY <1>3, <2>1, <2>2, <2>3, DisjointUnion
  <1> QED BY <1>1, <1>3, <1>4, <1>5

-----------------------------------------------------------------------------
(* The loop.                                                               *)

\* What the plan of a workspace is.
LEMMA PlanFacts ==
    ASSUME chunks = PlanChunks(files), files \in BoundedSeq(Sizes, MaxFiles), tier \in {"user", "server"}
    PROVE  /\ files \in Seq(Nat) /\ Len(files) \in 0..MaxFiles /\ ToSet(files) \subseteq Sizes
           /\ DOMAIN files = 1..Len(files)
           /\ Packs(files, chunks, Len(files))
           /\ Len(ToRun) \in 0..MaxChunks /\ DOMAIN ToRun = 1..Len(ToRun)
           /\ 1..Len(ToRun) \subseteq DOMAIN chunks
           /\ \A c \in 1..Len(ToRun) : ToRun[c] = chunks[c]
  <1>1. PICK m \in 0..MaxFiles : files \in [1..m -> Sizes]
    BY DEF BoundedSeq, SeqOf
  <1>2. /\ files \in Seq(Nat) /\ Len(files) = m /\ m \in Nat /\ DOMAIN files = 1..m
        /\ ToSet(files) \subseteq Sizes
    <2>1. m \in Nat /\ MaxFiles \in Nat /\ Sizes \subseteq Nat
      BY StageAssumption
    <2>2. files \in [1..m -> Nat]
      BY <1>1, <2>1
    <2>3. files \in Seq(Nat) /\ Len(files) = m /\ DOMAIN files = 1..m
      BY <2>1, <2>2
    <2>4. ToSet(files) \subseteq Sizes
      BY <1>1, <2>3 DEF ToSet
    <2> QED BY <2>1, <2>3, <2>4
  <1>3. Packs(files, chunks, Len(files))
    BY <1>2, PlanPacks
  <1>4. chunks \in Seq(Seq(1..Len(files))) /\ Len(chunks) \in Nat /\ DOMAIN chunks = 1..Len(chunks)
    BY <1>3 DEF Packs
  <1> DEFINE n == Least(Cap, Len(chunks))
  <1>5. n \in Nat /\ n <= Len(chunks) /\ n <= MaxChunks
    BY <1>4, StageAssumption DEF Least, Cap
  <1>6. ToRun = SubSeq(chunks, 1, n)
    BY DEF ToRun
  <1> HIDE DEF n
  <1>7. Len(ToRun) = n /\ DOMAIN ToRun = 1..n /\ \A c \in 1..n : ToRun[c] = chunks[c]
    BY <1>4, <1>5, <1>6
  <1> QED BY <1>1, <1>2, <1>3, <1>4, <1>5, <1>7

\* What failing chunks cost grows with their number.
LEMMA Costs ==
    /\ CostOf(0) = 0
    /\ \A n \in Nat : CostOf(n) \in Nat /\ CostOf(n + 1) = CostOf(n) + Retries + 1
    /\ \A m, n \in Nat : m <= n => CostOf(m) <= CostOf(n)
  <1>1. Retries \in Nat
    BY StageAssumption
  <1>2. ASSUME NEW m \in Nat, NEW n \in Nat, m <= n PROVE CostOf(m) <= CostOf(n)
    <2>1. PICK d \in Nat : n = m + d
      <3>1. n - m \in Nat /\ n = m + (n - m) BY <1>2
      <3> QED BY <3>1
    <2>2. n * (Retries + 1) = m * (Retries + 1) + d * (Retries + 1) /\ d * (Retries + 1) \in Nat
      BY <1>1, <2>1
    <2> QED BY <1>1, <2>2 DEF CostOf
  <1>3. ASSUME NEW n \in Nat PROVE CostOf(n) \in Nat /\ CostOf(n + 1) = CostOf(n) + Retries + 1
    BY <1>1 DEF CostOf
  <1>4. CostOf(0) = 0
    BY <1>1 DEF CostOf
  <1> QED BY <1>2, <1>3, <1>4

\* Before the first chunk.
LEMMA StageStarts == Init => IInv
  <1> SUFFICES ASSUME Init PROVE IInv
    OBVIOUS
  <1>1. /\ files \in BoundedSeq(Sizes, MaxFiles) /\ chunks = PlanChunks(files) /\ unread \in 0..MaxUnread
        /\ tier \in {"user", "server"} /\ phase = "boundary" /\ shown = {} /\ note = {}
        /\ pos = 0 /\ tries = 0 /\ strikes = 0 /\ wasted = 0
        /\ stats = [total |-> Len(files), covered |-> 0, run |-> 0, failed |-> 0,
                    capped |-> FALSE, truncated |-> FALSE, config |-> FALSE]
    BY DEF Init
  <1>2. /\ Len(files) \in 0..MaxFiles /\ ToSet(files) \subseteq Sizes
        /\ Len(ToRun) \in 0..MaxChunks
    BY <1>1, PlanFacts
  <1>3. Retries \in Nat /\ MaxStrikes \in Nat \ {0} /\ {MaxFiles, MaxUnread, MaxChunks} \subseteq Nat
    BY StageAssumption
  <1>4. TypeOK
    BY <1>1, <1>2, <1>3 DEF TypeOK
  <1>5. Spending
    <2>1. 0 <= CostOf(0) /\ 0 <= CostOf(MaxStrikes)
      BY <1>3, Costs
    <2> QED BY <1>1, <2>1 DEF Spending, WasteBounded
  <1>6. Books
    <2>1. FilesIn(shown) = {} /\ shown \subseteq 1..pos
      BY <1>1 DEF FilesIn
    <2>2. Cardinality(FilesIn(shown)) = 0 /\ Cardinality(shown) = 0
      BY <1>1, <2>1, FS_EmptySet
    <2>3. /\ stats.run = 0 /\ stats.total = Len(files) /\ stats.config = FALSE
          /\ stats.covered = 0 /\ stats.failed = 0 /\ pos = 0 /\ phase = "boundary"
      BY <1>1
    <2> QED BY <1>1, <2>1, <2>2, <2>3 DEF Books, Looping
  <1>7. Telling
    BY <1>1 DEF Telling, SilenceMeansComplete
  <1> QED BY <1>4, <1>5, <1>6, <1>7 DEF IInv

\* What the invariant says of the plan, of the loop's numbers, of what was shown and of
\* the books.
LEMMA PlanStands ==
    ASSUME IInv
    PROVE  /\ Packs(files, chunks, Len(files)) /\ DOMAIN files = 1..Len(files)
           /\ Len(files) \in Nat /\ Len(files) <= MaxFiles
           /\ Len(ToRun) \in Nat /\ Len(ToRun) <= MaxChunks /\ DOMAIN ToRun = 1..Len(ToRun)
           /\ \A c \in 1..Len(ToRun) : ToRun[c] = chunks[c] /\ c \in DOMAIN chunks
  <1>1. /\ chunks = PlanChunks(files) /\ files \in BoundedSeq(Sizes, MaxFiles)
        /\ tier \in {"user", "server"} /\ MaxFiles \in Nat /\ MaxChunks \in Nat
    BY StageAssumption DEF IInv, Books, TypeOK
  <1>2. /\ Len(files) \in 0..MaxFiles /\ DOMAIN files = 1..Len(files)
        /\ Packs(files, chunks, Len(files)) /\ Len(ToRun) \in 0..MaxChunks
        /\ DOMAIN ToRun = 1..Len(ToRun) /\ 1..Len(ToRun) \subseteq DOMAIN chunks
        /\ \A c \in 1..Len(ToRun) : ToRun[c] = chunks[c]
    BY <1>1, PlanFacts
  <1> QED BY <1>1, <1>2

\* The counters of the loop and the bounds they stay within.
LEMMA LoopNumbers ==
    ASSUME IInv
    PROVE  /\ pos \in Nat /\ tries \in Nat /\ strikes \in Nat /\ wasted \in Nat /\ unread \in Nat
           /\ strikes <= MaxStrikes /\ tries <= Retries /\ pos <= Len(ToRun) /\ unread <= MaxUnread
           /\ Retries \in Nat /\ MaxStrikes \in Nat /\ MaxStrikes > 0
           /\ MaxFiles \in Nat /\ MaxUnread \in Nat /\ MaxChunks \in Nat
           /\ Len(ToRun) \in Nat /\ Len(ToRun) <= MaxChunks
           /\ Len(files) \in Nat /\ Len(files) <= MaxFiles
  <1>1. /\ Retries \in Nat /\ MaxStrikes \in Nat /\ MaxStrikes > 0
        /\ MaxFiles \in Nat /\ MaxUnread \in Nat /\ MaxChunks \in Nat
    BY StageAssumption
  <1>2. /\ pos \in 0..Len(ToRun) /\ tries \in 0..Retries /\ strikes \in 0..MaxStrikes
        /\ unread \in 0..MaxUnread /\ wasted \in Nat
    BY DEF IInv, TypeOK, Spending
  <1>3. /\ Len(ToRun) \in Nat /\ Len(ToRun) <= MaxChunks
        /\ Len(files) \in Nat /\ Len(files) <= MaxFiles
    BY PlanStands
  <1> QED BY <1>1, <1>2, <1>3

\* Only chunks behind the loop are shown, and they are finitely many.
LEMMA ShownChunks ==
    ASSUME IInv
    PROVE  /\ shown \subseteq 1..pos /\ shown \in SUBSET DOMAIN chunks
           /\ IsFiniteSet(shown) /\ Cardinality(shown) \in Nat
  <1>1. shown \in SUBSET (1..pos) /\ shown \subseteq 1..Len(ToRun)
    BY LoopNumbers DEF IInv, Books
  <1>2. IsFiniteSet(1..pos)
    BY LoopNumbers, FirstNumbers
  <1>3. IsFiniteSet(shown)
    BY <1>1, <1>2, FS_Subset
  <1> QED BY <1>1, <1>3, PlanStands, FS_CardinalityType

\* The counters of the result.
LEMMA BookedNumbers ==
    ASSUME IInv
    PROVE  /\ stats.total \in Nat /\ stats.covered \in Nat /\ stats.run \in Nat /\ stats.failed \in Nat
           /\ stats.run <= pos
  <1>1. stats \in [total : 0..(MaxFiles + MaxUnread), covered : 0..MaxFiles,
                   run : 0..MaxChunks, failed : 0..MaxChunks,
                   capped : BOOLEAN, truncated : BOOLEAN, config : BOOLEAN]
    BY DEF IInv, TypeOK
  <1>2. stats.run <= pos
    BY DEF IInv, Books
  <1> QED BY <1>1, <1>2

\* What the counters and flags may be.
Counters == [total : 0..(MaxFiles + MaxUnread), covered : 0..MaxFiles,
             run : 0..MaxChunks, failed : 0..MaxChunks,
             capped : BOOLEAN, truncated : BOOLEAN, config : BOOLEAN]

\* The counters and flags keep within their bounds.
LEMMA BooksTyped == IInv => stats \in Counters
  BY DEF IInv, TypeOK, Counters

\* There is room for what one more failing chunk costs.
StrikeFits ==
    /\ CostOf(strikes) \in Nat /\ CostOf(MaxStrikes) \in Nat
    /\ CostOf(strikes + 1) = CostOf(strikes) + Retries + 1
    /\ CostOf(strikes) + Retries + 1 <= CostOf(MaxStrikes)

\* A chunk that may still fail has its cost covered.
LEMMA OneMoreStrike == IInv /\ strikes < MaxStrikes => StrikeFits
  <1> SUFFICES ASSUME IInv, strikes < MaxStrikes PROVE StrikeFits
    OBVIOUS
  <1>1. strikes \in Nat /\ strikes + 1 \in Nat /\ MaxStrikes \in Nat /\ strikes + 1 <= MaxStrikes
    BY LoopNumbers
  <1>2. CostOf(strikes + 1) <= CostOf(MaxStrikes)
    BY <1>1, Costs
  <1> QED BY <1>1, <1>2, Costs DEF StrikeFits

\* The plan and what follows from it stay.
LEMMA InputStays ==
    ASSUME UNCHANGED input
    PROVE  /\ ToRun' = ToRun /\ files' = files /\ chunks' = chunks /\ unread' = unread /\ tier' = tier
           /\ FilesIn(shown)' = FilesIn(shown')
  BY DEF input, ToRun, Cap, FilesIn

\* A step that leaves findings and books alone and goes on to a place of the loop or out
\* of it.
LEMMA AskKeeps ==
    ASSUME IInv, Stop \/ Raise \/ Try \/ RunOut \/ Retry
    PROVE  IInv'
  <1>1. /\ UNCHANGED input /\ UNCHANGED <<pos, strikes, shown, stats, note>>
        /\ phase \in {"boundary", "call"} /\ phase' \in {"boundary", "call", "leave", "stopped"}
    BY DEF Stop, Raise, Try, RunOut, Retry
  <1>2. ToRun' = ToRun /\ FilesIn(shown)' = FilesIn(shown)
    BY <1>1, InputStays
  <1>3. tries' \in 0..Retries
    <2>1. tries \in Nat /\ Retries \in Nat /\ tries <= Retries
      BY LoopNumbers
    <2>2. CASE Stop \/ Raise \/ RunOut
      BY <2>1, <2>2 DEF Stop, Raise, RunOut
    <2>3. CASE Try
      BY <2>1, <2>3 DEF Try
    <2>4. CASE Retry
      BY <2>1, <2>4 DEF Retry
    <2> QED BY <2>2, <2>3, <2>4
  <1>4. TypeOK'
    BY <1>1, <1>2, <1>3, InputStays DEF IInv, TypeOK
  <1>5. Spending'
    <2>1. CASE Stop \/ Raise \/ RunOut
      BY <1>1, <2>1 DEF Stop, Raise, RunOut, IInv, Spending, WasteBounded
    <2>2. CASE Try
      <3>1. /\ phase = "boundary" /\ phase' = "call" /\ strikes < MaxStrikes /\ tries' = 0 /\ wasted' = wasted
            /\ wasted \in Nat /\ wasted <= CostOf(strikes) /\ wasted <= CostOf(MaxStrikes)
        BY <2>2 DEF Try, IInv, Spending, WasteBounded
      <3>2. wasted <= CostOf(strikes) + tries'
        <4>1. strikes \in Nat /\ CostOf(strikes) \in Nat
          BY LoopNumbers, Costs
        <4> QED BY <3>1, <4>1
      <3> QED BY <1>1, <3>1, <3>2 DEF Spending, WasteBounded
    <2>3. CASE Retry
      <3>1. /\ wasted' = wasted + 1 /\ tries' = tries + 1 /\ tries < Retries /\ phase' = phase
            /\ phase = "call" /\ strikes < MaxStrikes /\ wasted <= CostOf(strikes) + tries
        BY <2>3 DEF Retry, IInv, Spending
      <3>2. StrikeFits
        BY <3>1, OneMoreStrike
      <3>3. wasted' \in Nat /\ wasted' <= CostOf(strikes) + tries' /\ wasted' <= CostOf(MaxStrikes)
        <4>1. /\ CostOf(strikes) \in Nat /\ CostOf(MaxStrikes) \in Nat
              /\ CostOf(strikes) + Retries + 1 <= CostOf(MaxStrikes)
          BY <3>2 DEF StrikeFits
        <4>2. wasted \in Nat /\ tries \in Nat /\ Retries \in Nat
          BY LoopNumbers
        <4> QED BY <3>1, <4>1, <4>2
      <3> QED BY <1>1, <3>1, <3>3 DEF Spending, WasteBounded
    <2> QED BY <2>1, <2>2, <2>3
  <1>6. Books'
    <2>1. ~stats.config
      BY <1>1 DEF IInv, Books
    <2>2. phase' = "call" => pos < Len(ToRun)
      BY DEF Stop, Raise, Try, RunOut, Retry, IInv, Books
    <2>3. phase' = "leave" => pos = Len(ToRun)
      BY DEF Stop, Raise, Try, RunOut, Retry
    <2>4. stats.failed + Cardinality(shown) = pos
      BY <1>1, <2>1 DEF IInv, Books, Looping
    <2> QED BY <1>1, <1>2, <2>1, <2>2, <2>3, <2>4, InputStays DEF IInv, Books, Looping
  <1>7. Telling'
    BY <1>1 DEF Telling, SilenceMeansComplete
  <1> QED BY <1>4, <1>5, <1>6, <1>7 DEF IInv

\* The chunks that are not tried any more are counted as failed.
LEMMA GiveUpKeeps == IInv /\ GiveUp => IInv'
  <1> SUFFICES ASSUME IInv, GiveUp PROVE IInv'
    OBVIOUS
  <1>1. /\ phase = "boundary" /\ phase' = "leave" /\ UNCHANGED input
        /\ UNCHANGED <<pos, tries, strikes, wasted, shown, note>>
        /\ stats' = [stats EXCEPT !.failed = @ + (Len(ToRun) - pos)]
    BY DEF GiveUp
  <1>2. ToRun' = ToRun /\ FilesIn(shown)' = FilesIn(shown)
    BY <1>1, InputStays
  <1>3. ~stats.config /\ stats.failed + Cardinality(shown) = pos
    BY <1>1 DEF IInv, Books, Looping
  <1>4. /\ stats'.failed + Cardinality(shown) = Len(ToRun) /\ stats'.failed \in 0..MaxChunks
        /\ stats'.total = stats.total /\ stats'.covered = stats.covered /\ stats'.run = stats.run
        /\ stats'.config = stats.config
    <2>1. /\ stats'.failed = stats.failed + (Len(ToRun) - pos)
          /\ stats'.total = stats.total /\ stats'.covered = stats.covered /\ stats'.run = stats.run
          /\ stats'.config = stats.config
      BY <1>1, BooksTyped DEF Counters
    <2>2. pos \in Nat /\ pos <= Len(ToRun) /\ Len(ToRun) \in Nat /\ Len(ToRun) <= MaxChunks /\ MaxChunks \in Nat
      BY LoopNumbers
    <2>3. stats.failed \in Nat /\ Cardinality(shown) \in Nat
      BY BookedNumbers, ShownChunks
    <2>4. stats.failed + (Len(ToRun) - pos) + Cardinality(shown) = Len(ToRun)
      BY <1>3, <2>2, <2>3
    <2>5. stats.failed + (Len(ToRun) - pos) \in 0..MaxChunks
      BY <1>3, <2>2, <2>3
    <2> QED BY <2>1, <2>4, <2>5
  <1>5. TypeOK'
    <2>1. stats' \in [total : 0..(MaxFiles + MaxUnread), covered : 0..MaxFiles,
                      run : 0..MaxChunks, failed : 0..MaxChunks,
                      capped : BOOLEAN, truncated : BOOLEAN, config : BOOLEAN]
      BY <1>1, <1>4 DEF IInv, TypeOK
    <2> QED BY <1>1, <1>2, <2>1, InputStays DEF IInv, TypeOK
  <1>6. Spending'
    BY <1>1 DEF IInv, Spending, WasteBounded
  <1>7. Books'
    BY <1>1, <1>2, <1>3, <1>4, InputStays DEF IInv, Books, Looping
  <1>8. Telling'
    BY <1>1 DEF Telling, SilenceMeansComplete
  <1> QED BY <1>5, <1>6, <1>7, <1>8 DEF IInv

\* A usable answer puts the chunk's files in the books.
LEMMA AnswerKeeps == IInv /\ Answered => IInv'
  <1> SUFFICES ASSUME IInv, Answered PROVE IInv'
    OBVIOUS
  <1>1. /\ phase = "call" /\ phase' = "boundary" /\ pos' = pos + 1 /\ shown' = shown \cup {pos + 1}
        /\ strikes' = 0 /\ wasted' = 0 /\ UNCHANGED input /\ UNCHANGED <<tries, note>>
    BY DEF Answered
  <1>2. ToRun' = ToRun /\ FilesIn(shown)' = FilesIn(shown \cup {pos + 1})
    BY <1>1, InputStays
  <1>3. /\ ~stats.config /\ stats.failed + Cardinality(shown) = pos /\ pos < Len(ToRun)
        /\ stats.covered = Cardinality(FilesIn(shown))
    BY <1>1 DEF IInv, Books, Looping
  <1>4. pos + 1 \in DOMAIN chunks \ shown /\ pos + 1 \in 1..Len(ToRun) /\ ToRun[pos + 1] = chunks[pos + 1]
    <2>1. pos \in Nat /\ Len(ToRun) \in Nat
      BY LoopNumbers
    <2>2. pos + 1 \in 1..Len(ToRun) /\ pos + 1 \notin 1..pos
      BY <1>3, <2>1
    <2>3. shown \subseteq 1..pos
      BY ShownChunks
    <2> QED BY <2>2, <2>3, PlanStands
  <1>5. /\ Cardinality(FilesIn(shown \cup {pos + 1})) = Cardinality(FilesIn(shown)) + Len(ToRun[pos + 1])
        /\ Cardinality(FilesIn(shown \cup {pos + 1})) \in 0..Len(files)
    <2>1. shown \in SUBSET DOMAIN chunks /\ shown \cup {pos + 1} \in SUBSET DOMAIN chunks
      BY <1>4, ShownChunks
    <2>2. Packs(files, chunks, Len(files)) /\ Len(files) \in Nat
      BY PlanStands
    <2> QED BY <1>4, <2>1, <2>2, FilesOfChunks
  <1>6. Cardinality(shown \cup {pos + 1}) = Cardinality(shown) + 1
    BY <1>4, ShownChunks, FS_AddElement
  <1>7. PICK short \in BOOLEAN :
           stats' = [stats EXCEPT !.run = @ + 1, !.truncated = @ \/ short, !.covered = @ + Len(ToRun[pos + 1])]
    BY DEF Answered
  <1>8. /\ stats'.run = stats.run + 1 /\ stats'.covered = Cardinality(FilesIn(shown \cup {pos + 1}))
        /\ stats'.failed = stats.failed /\ stats'.total = stats.total /\ stats'.config = stats.config
    <2>1. /\ stats'.run = stats.run + 1 /\ stats'.covered = stats.covered + Len(ToRun[pos + 1])
          /\ stats'.failed = stats.failed /\ stats'.total = stats.total /\ stats'.config = stats.config
      BY <1>7, BooksTyped DEF Counters
    <2> QED BY <1>3, <1>5, <2>1
  <1>9. TypeOK'
    <2>1. stats'.run \in 0..MaxChunks /\ stats'.covered \in 0..MaxFiles
      <3>1. stats.run \in Nat /\ stats.run <= pos
        BY BookedNumbers
      <3>2. pos \in Nat /\ Len(ToRun) \in Nat /\ Len(ToRun) <= MaxChunks /\ MaxChunks \in Nat
        BY LoopNumbers
      <3>3. stats'.run \in 0..MaxChunks
        BY <1>3, <1>8, <3>1, <3>2
      <3>4. Len(files) \in Nat /\ Len(files) <= MaxFiles /\ MaxFiles \in Nat
        BY LoopNumbers
      <3>5. stats'.covered \in 0..MaxFiles
        BY <1>5, <1>8, <3>4
      <3> QED BY <3>3, <3>5
    <2>2. stats' \in [total : 0..(MaxFiles + MaxUnread), covered : 0..MaxFiles,
                      run : 0..MaxChunks, failed : 0..MaxChunks,
                      capped : BOOLEAN, truncated : BOOLEAN, config : BOOLEAN]
      <3>1. /\ stats.run + 1 = stats'.run /\ stats.covered + Len(ToRun[pos + 1]) = stats'.covered
        BY <1>3, <1>5, <1>8
      <3>2. stats \in Counters
        BY BooksTyped
      <3>3. stats' = [stats EXCEPT !.run = stats'.run, !.truncated = stats'.truncated, !.covered = stats'.covered]
        BY <1>7, <3>1, <3>2 DEF Counters
      <3>4. stats'.truncated \in BOOLEAN
        BY <1>7, <3>2 DEF Counters
      <3> QED BY <2>1, <3>2, <3>3, <3>4 DEF Counters
    <2>3. pos' \in 0..Len(ToRun) /\ shown' \subseteq DOMAIN ToRun /\ strikes' \in 0..MaxStrikes
      <3>1. pos \in Nat /\ Len(ToRun) \in Nat /\ MaxStrikes \in Nat
        BY LoopNumbers
      <3>2. shown \subseteq DOMAIN ToRun /\ DOMAIN ToRun = 1..Len(ToRun)
        BY PlanStands DEF IInv, TypeOK
      <3> QED BY <1>1, <1>3, <1>4, <3>1, <3>2
    <2> QED BY <1>1, <1>2, <2>2, <2>3, InputStays DEF IInv, TypeOK
  <1>10. Spending'
    <2>1. CostOf(0) = 0 /\ 0 <= CostOf(MaxStrikes)
      BY LoopNumbers, Costs
    <2> QED BY <1>1, <2>1 DEF Spending, WasteBounded
  <1>11. Books'
    <2>1. shown' \subseteq 1..pos' /\ stats'.run <= pos'
      <3>1. pos \in Nat /\ stats.run \in Nat /\ stats.run <= pos /\ shown \subseteq 1..pos
        BY LoopNumbers, BookedNumbers, ShownChunks
      <3> QED BY <1>1, <1>8, <3>1
    <2>2. stats'.failed + Cardinality(shown') = pos'
      <3>1. pos \in Nat /\ stats.failed \in Nat /\ Cardinality(shown) \in Nat
        BY LoopNumbers, BookedNumbers, ShownChunks
      <3> QED BY <1>1, <1>3, <1>6, <1>8, <3>1
    <2> QED BY <1>1, <1>2, <1>3, <1>8, <2>1, <2>2, InputStays DEF IInv, Books, Looping
  <1>12. Telling'
    BY <1>1 DEF Telling, SilenceMeansComplete
  <1> QED BY <1>9, <1>10, <1>11, <1>12 DEF IInv

\* A chunk that fails is a strike, and costs no more than its retries and itself.
LEMMA FailureKeeps == IInv /\ (Unusable \/ Degrade) => IInv'
  <1> SUFFICES ASSUME IInv, Unusable \/ Degrade PROVE IInv'
    OBVIOUS
  <1>1. /\ phase = "call" /\ phase' = "boundary" /\ pos' = pos + 1 /\ strikes' = strikes + 1
        /\ wasted' = wasted + 1 /\ UNCHANGED input /\ UNCHANGED <<tries, shown, note>>
    BY DEF Unusable, Degrade, ChunkFailed
  <1>2. ToRun' = ToRun /\ FilesIn(shown)' = FilesIn(shown)
    BY <1>1, InputStays
  <1>3. /\ ~stats.config /\ stats.failed + Cardinality(shown) = pos /\ pos < Len(ToRun)
        /\ stats.covered = Cardinality(FilesIn(shown))
    BY <1>1 DEF IInv, Books, Looping
  <1>4. /\ stats'.failed = stats.failed + 1 /\ stats'.run \in {stats.run, stats.run + 1}
        /\ stats'.total = stats.total /\ stats'.covered = stats.covered /\ stats'.config = stats.config
        /\ stats' = [stats EXCEPT !.run = stats'.run, !.failed = stats'.failed, !.truncated = stats'.truncated]
        /\ stats'.truncated \in BOOLEAN
    <2>0. stats \in Counters
      BY BooksTyped
    <2>1. CASE Unusable
      <3>1. PICK short \in BOOLEAN :
               stats' = [stats EXCEPT !.run = @ + 1, !.failed = @ + 1, !.truncated = @ \/ short]
        BY <2>1 DEF Unusable
      <3> QED BY <2>0, <3>1 DEF Counters
    <2>2. CASE Degrade
      <3>1. stats' = [stats EXCEPT !.failed = @ + 1]
        BY <2>2 DEF Degrade
      <3> QED BY <2>0, <3>1 DEF Counters
    <2> QED BY <2>1, <2>2
  <1>5. TypeOK'
    <2>1. stats'.run \in 0..MaxChunks /\ stats'.failed \in 0..MaxChunks
      <3>1. /\ pos \in Nat /\ Len(ToRun) \in Nat /\ Len(ToRun) <= MaxChunks /\ MaxChunks \in Nat
        BY LoopNumbers
      <3>2. /\ stats.run \in Nat /\ stats.run <= pos /\ stats.failed \in Nat /\ Cardinality(shown) \in Nat
        BY BookedNumbers, ShownChunks
      <3>3. stats'.run \in 0..MaxChunks
        BY <1>3, <1>4, <3>1, <3>2
      <3>4. stats'.failed \in 0..MaxChunks
        BY <1>3, <1>4, <3>1, <3>2
      <3> QED BY <3>3, <3>4
    <2>2. stats \in Counters
      BY BooksTyped
    <2>3. stats' \in [total : 0..(MaxFiles + MaxUnread), covered : 0..MaxFiles,
                      run : 0..MaxChunks, failed : 0..MaxChunks,
                      capped : BOOLEAN, truncated : BOOLEAN, config : BOOLEAN]
      BY <1>4, <2>1, <2>2 DEF Counters
    <2>4. pos' \in 0..Len(ToRun) /\ strikes' \in 0..MaxStrikes
      <3>1. pos \in Nat /\ Len(ToRun) \in Nat /\ strikes \in Nat /\ MaxStrikes \in Nat
        BY LoopNumbers
      <3>2. strikes < MaxStrikes
        BY <1>1 DEF IInv, Spending
      <3> QED BY <1>1, <1>3, <3>1, <3>2
    <2> QED BY <1>1, <1>2, <2>3, <2>4, InputStays DEF IInv, TypeOK
  <1>6. Spending'
    <2>1. strikes < MaxStrikes /\ wasted <= CostOf(strikes) + tries
      BY <1>1 DEF IInv, Spending
    <2>2. StrikeFits
      BY <2>1, OneMoreStrike
    <2>3. wasted' <= CostOf(strikes') /\ wasted' <= CostOf(MaxStrikes) /\ wasted' \in Nat
      <3>1. /\ CostOf(strikes) \in Nat /\ CostOf(MaxStrikes) \in Nat
            /\ CostOf(strikes') = CostOf(strikes) + Retries + 1
            /\ CostOf(strikes) + Retries + 1 <= CostOf(MaxStrikes)
        BY <1>1, <2>2 DEF StrikeFits
      <3>2. wasted \in Nat /\ tries \in Nat /\ Retries \in Nat /\ tries <= Retries
        BY LoopNumbers
      <3> HIDE DEF CostOf
      <3> QED BY <1>1, <2>1, <3>1, <3>2
    <2> QED BY <1>1, <2>3 DEF Spending, WasteBounded
  <1>7. Books'
    <2>1. shown' \subseteq 1..pos' /\ stats'.run <= pos'
      <3>1. pos \in Nat /\ stats.run \in Nat /\ stats.run <= pos /\ shown \subseteq 1..pos
        BY LoopNumbers, BookedNumbers, ShownChunks
      <3> QED BY <1>1, <1>4, <3>1
    <2>2. stats'.failed + Cardinality(shown') = pos'
      <3>1. pos \in Nat /\ stats.failed \in Nat /\ Cardinality(shown) \in Nat
        BY LoopNumbers, BookedNumbers, ShownChunks
      <3> QED BY <1>1, <1>3, <1>4, <3>1
    <2> QED BY <1>1, <1>2, <1>3, <1>4, <2>1, <2>2, InputStays DEF IInv, Books, Looping
  <1>8. Telling'
    BY <1>1 DEF Telling, SilenceMeansComplete
  <1> QED BY <1>5, <1>6, <1>7, <1>8 DEF IInv

\* A rejected key, model or quota: the findings are gone and the books stay.
LEMMA ConfigKeeps == IInv /\ ConfigError => IInv'
  <1> SUFFICES ASSUME IInv, ConfigError PROVE IInv'
    OBVIOUS
  <1>1. /\ phase = "call" /\ phase' = "summary" /\ shown' = {} /\ UNCHANGED input
        /\ UNCHANGED <<pos, tries, strikes, wasted, note>> /\ stats' = [stats EXCEPT !.config = TRUE]
    BY DEF ConfigError
  <1>2. ToRun' = ToRun
    BY <1>1, InputStays
  <1>3. /\ stats'.config = TRUE /\ stats'.total = stats.total /\ stats'.run = stats.run
        /\ stats' \in Counters
    BY <1>1, BooksTyped DEF Counters
  <1>4. TypeOK'
    BY <1>1, <1>2, <1>3, InputStays DEF IInv, TypeOK, Counters
  <1>5. Spending'
    BY <1>1 DEF IInv, Spending, WasteBounded
  <1>6. Books'
    BY <1>1, <1>2, <1>3, InputStays DEF IInv, Books
  <1>7. Telling'
    BY <1>1 DEF Telling, SilenceMeansComplete
  <1> QED BY <1>4, <1>5, <1>6, <1>7 DEF IInv

\* The cap is noted, the books stay.
LEMMA LeaveKeeps == IInv /\ Leave => IInv'
  <1> SUFFICES ASSUME IInv, Leave PROVE IInv'
    OBVIOUS
  <1>1. /\ phase = "leave" /\ phase' = "summary" /\ UNCHANGED input
        /\ UNCHANGED <<pos, tries, strikes, wasted, shown, note>>
    BY DEF Leave
  <1>2. ToRun' = ToRun /\ FilesIn(shown)' = FilesIn(shown)
    BY <1>1, InputStays
  <1>3. PICK more \in BOOLEAN : stats' = [stats EXCEPT !.capped = more]
    BY DEF Leave
  <1>4. /\ stats' \in Counters /\ stats'.config = stats.config /\ stats'.total = stats.total
        /\ stats'.covered = stats.covered /\ stats'.run = stats.run /\ stats'.failed = stats.failed
    BY <1>3, BooksTyped DEF Counters
  <1>5. TypeOK'
    BY <1>1, <1>2, <1>4, InputStays DEF IInv, TypeOK, Counters
  <1>6. Spending'
    BY <1>1 DEF IInv, Spending, WasteBounded
  <1>7. Books'
    BY <1>1, <1>2, <1>4, InputStays DEF IInv, Books, Looping
  <1>8. Telling'
    BY <1>1 DEF Telling, SilenceMeansComplete
  <1> QED BY <1>5, <1>6, <1>7, <1>8 DEF IInv

\* With nothing capped, cut short or failed, what is covered is what there is.
LEMMA SummaryKeeps == IInv /\ Summarize => IInv'
  <1> SUFFICES ASSUME IInv, Summarize PROVE IInv'
    OBVIOUS
  <1>1. /\ phase = "summary" /\ phase' = "fold" /\ UNCHANGED input /\ note' = RepoAiNote
        /\ UNCHANGED <<pos, tries, strikes, wasted, shown, stats>>
    BY DEF Summarize
  <1>2. ToRun' = ToRun /\ FilesIn(shown)' = FilesIn(shown)
    BY <1>1, InputStays
  <1>3. RepoAiNote \subseteq {"config", "capped", "larger", "failed", "short"}
    BY DEF RepoAiNote
  <1>4. TypeOK'
    BY <1>1, <1>2, <1>3, InputStays DEF IInv, TypeOK
  <1>5. Spending'
    BY <1>1 DEF IInv, Spending, WasteBounded
  <1>6. Books'
    BY <1>1, <1>2, InputStays DEF IInv, Books, Looping
  <1>7. ASSUME note' = {} PROVE FilesIn(shown) = DOMAIN files /\ ~stats.truncated
    <2>1. ~stats.config /\ ~stats.capped /\ ~(stats.failed > 0) /\ ~stats.truncated
      BY <1>1, <1>7 DEF RepoAiNote
    <2>2. ~(stats.covered < stats.total)
      <3>1. stats.failed \in Nat
        BY BookedNumbers
      <3> QED BY <1>1, <1>7, <2>1, <3>1 DEF RepoAiNote
    <2>3. stats.covered = Cardinality(FilesIn(shown)) /\ stats.total = Len(files)
      BY <1>1, <2>1 DEF IInv, Books
    <2>4. /\ Cardinality(FilesIn(shown)) \in 0..Len(files)
          /\ Cardinality(FilesIn(shown)) = Len(files) => FilesIn(shown) = 1..Len(files)
      BY PlanStands, ShownChunks, FilesOfChunks
    <2>5. Cardinality(FilesIn(shown)) = Len(files)
      <3>1. Len(files) \in Nat
        BY LoopNumbers
      <3> QED BY <2>2, <2>3, <2>4, <3>1
    <2> QED BY <2>1, <2>4, <2>5, PlanStands
  <1>8. "config" \in note' => shown = {}
    <2>1. "config" \in RepoAiNote => stats.config
      BY DEF RepoAiNote
    <2> QED BY <1>1, <2>1 DEF IInv, Books
  <1>9. Telling'
    <2>1. RepoAiNote' = RepoAiNote
      BY <1>1 DEF RepoAiNote
    <2>2. FilesIn(shown)' = FilesIn(shown) /\ (DOMAIN files)' = DOMAIN files
      BY <1>1, <1>2, InputStays
    <2> QED BY <1>1, <1>7, <1>8, <2>1, <2>2 DEF Telling, SilenceMeansComplete
  <1> QED BY <1>4, <1>5, <1>6, <1>9 DEF IInv

\* The total grows by the files the extraction dropped, after the note is written.
LEMMA FoldKeeps == IInv /\ Fold => IInv'
  <1> SUFFICES ASSUME IInv, Fold PROVE IInv'
    OBVIOUS
  <1>1. /\ phase = "fold" /\ phase' = "done" /\ UNCHANGED input
        /\ UNCHANGED <<pos, tries, strikes, wasted, shown, note>>
        /\ stats' = [stats EXCEPT !.total = @ + unread]
    BY DEF Fold
  <1>2. ToRun' = ToRun /\ FilesIn(shown)' = FilesIn(shown)
    BY <1>1, InputStays
  <1>3. stats.total = Len(files)
    BY <1>1 DEF IInv, Books
  <1>4. stats.total + unread \in 0..(MaxFiles + MaxUnread)
    <2>1. /\ unread \in Nat /\ unread <= MaxUnread /\ MaxUnread \in Nat
          /\ Len(files) \in Nat /\ Len(files) <= MaxFiles /\ MaxFiles \in Nat
      BY LoopNumbers
    <2> QED BY <1>3, <2>1
  <1>5. /\ stats' \in Counters /\ stats'.config = stats.config /\ stats'.total = Len(files) + unread
        /\ stats'.covered = stats.covered /\ stats'.run = stats.run /\ stats'.failed = stats.failed
        /\ stats'.truncated = stats.truncated
    BY <1>1, <1>3, <1>4, BooksTyped DEF Counters
  <1>6. TypeOK'
    BY <1>1, <1>2, <1>5, InputStays DEF IInv, TypeOK, Counters
  <1>7. Spending'
    BY <1>1 DEF IInv, Spending, WasteBounded
  <1>8. Books'
    BY <1>1, <1>2, <1>5, InputStays DEF IInv, Books, Looping
  <1>9. Telling'
    BY <1>1, <1>2, <1>5, InputStays DEF IInv, Telling, SilenceMeansComplete
  <1> QED BY <1>6, <1>7, <1>8, <1>9 DEF IInv

\* No step of the stage leads out of the invariant.
LEMMA StageKeeps == IInv /\ [Next]_vars => IInv'
  <1> SUFFICES ASSUME IInv, [Next]_vars PROVE IInv'
    OBVIOUS
  <1>1. CASE Stop \/ Raise \/ Try \/ RunOut \/ Retry
    BY <1>1, AskKeeps
  <1>2. CASE GiveUp
    BY <1>2, GiveUpKeeps
  <1>3. CASE Answered
    BY <1>3, AnswerKeeps
  <1>4. CASE Unusable \/ Degrade
    BY <1>4, FailureKeeps
  <1>5. CASE ConfigError
    BY <1>5, ConfigKeeps
  <1>6. CASE Leave
    BY <1>6, LeaveKeeps
  <1>7. CASE Summarize
    BY <1>7, SummaryKeeps
  <1>8. CASE Fold
    BY <1>8, FoldKeeps
  <1>9. CASE UNCHANGED vars
    <2>1. /\ UNCHANGED input /\ UNCHANGED <<phase, pos, tries, strikes, wasted, shown, stats, note>>
      BY <1>9 DEF vars, loop
    <2>2. ToRun' = ToRun /\ FilesIn(shown)' = FilesIn(shown)
      BY <2>1, InputStays
    <2>3. TypeOK'
      BY <2>1, <2>2, InputStays DEF IInv, TypeOK
    <2>4. Spending'
      BY <2>1 DEF IInv, Spending, WasteBounded
    <2>5. Books'
      BY <2>1, <2>2, InputStays DEF IInv, Books, Looping
    <2>6. Telling'
      BY <2>1, <2>2, InputStays DEF IInv, Telling, SilenceMeansComplete, RepoAiNote
    <2> QED BY <2>3, <2>4, <2>5, <2>6 DEF IInv
  <1> QED BY <1>1, <1>2, <1>3, <1>4, <1>5, <1>6, <1>7, <1>8, <1>9 DEF Next

-----------------------------------------------------------------------------
(* The theorems.                                                           *)

\* The invariant holds whatever the provider answers and whenever the job is lost.
THEOREM StageInvariance == Spec => []IInv
  BY StageStarts, StageKeeps, PTL DEF Spec

\* The loop's counters stay within the files there are and the chunks it may run.
THEOREM StageTyped == Spec => []TypeOK
  <1>1. IInv => TypeOK
    BY DEF IInv
  <1> QED BY <1>1, StageInvariance, PTL

\* The plan has each file that fits once (plan_chunks, repo_review.py:140-167), in every
\* state, for files of any size and number.
THEOREM PlanIsAPartition == Spec => []FilesPlannedOnce
  <1>1. IInv => FilesPlannedOnce
    <2> SUFFICES ASSUME IInv PROVE FilesPlannedOnce
      OBVIOUS
    <2>1. Packs(files, chunks, Len(files)) /\ Len(files) \in Nat /\ DOMAIN files = 1..Len(files)
      BY PlanStands
    <2>2. ASSUME NEW c \in DOMAIN chunks, NEW d \in DOMAIN chunks, c # d
          PROVE  ToSet(chunks[c]) \cap ToSet(chunks[d]) = {}
      BY <2>1, <2>2, ChunkFiles
    <2>3. \A n \in DOMAIN files : files[n] \in Nat /\ Budget \in Nat
      <3>1. chunks = PlanChunks(files) /\ files \in BoundedSeq(Sizes, MaxFiles) /\ tier \in {"user", "server"}
        BY DEF IInv, Books, TypeOK
      <3>2. files \in Seq(Nat)
        BY <3>1, PlanFacts
      <3> QED BY <3>2, StageAssumption
    <2>4. \A n \in DOMAIN files \ TooLarge : files[n] <= Budget
      BY <2>3 DEF TooLarge
    <2> QED BY <2>1, <2>2, <2>4 DEF FilesPlannedOnce, Packs
  <1> QED BY <1>1, StageInvariance, PTL

\* However the loop ends, each chunk is answered or counted as failed, and the covered
\* files are those of the answered ones (repo_review.py:119-135).
THEOREM LedgerBalances == Spec => []ChunkLedger
  <1>1. IInv => ChunkLedger
    BY DEF IInv, Books, ChunkLedger, Looping
  <1> QED BY <1>1, StageInvariance, PTL

\* A provider that is down is called a bounded number of times (repo_review.py:8-12, 48-50).
THEOREM WasteIsBounded == Spec => []WasteBounded
  <1>1. IInv => WasteBounded
    BY DEF IInv, Spending
  <1> QED BY <1>1, StageInvariance, PTL

\* A summary that says nothing of the AI comes of a workspace that was read in full
\* (pipeline.py:138-141, 186-187).
THEOREM SilenceIsComplete == Spec => []SilenceMeansComplete
  <1>1. IInv => SilenceMeansComplete
    BY DEF IInv, Telling
  <1> QED BY <1>1, StageInvariance, PTL

\* A page without a banner comes of a repository that was read in full, the files the
\* extraction dropped included (runner.py:380-386).
THEOREM NoBannerNoGap == Spec => []BannerIsHonest
  <1>1. IInv => BannerIsHonest
    <2> SUFFICES ASSUME IInv, phase = "done", Banner = "none"
                 PROVE  Cardinality(FilesIn(shown)) = Len(files) + unread
      BY DEF BannerIsHonest
    <2>1. ~stats.config /\ ~(stats.covered < stats.total)
      BY DEF Banner
    <2>2. stats.covered = Cardinality(FilesIn(shown)) /\ stats.total = Len(files) + unread
      BY <2>1 DEF IInv, Books
    <2>3. Cardinality(FilesIn(shown)) \in 0..Len(files)
      BY PlanStands, ShownChunks, FilesOfChunks
    <2>4. Len(files) \in Nat /\ unread \in Nat
      BY LoopNumbers
    <2> QED BY <2>1, <2>2, <2>3, <2>4
  <1> QED BY <1>1, StageInvariance, PTL

=============================================================================
