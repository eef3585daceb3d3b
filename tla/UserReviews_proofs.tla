------------------------- MODULE UserReviews_proofs -------------------------
(***************************************************************************)
(* Theorems about the reviews of signed-in users: the requests that        *)
(* create, rerun and cancel them (ReviewCreation), for any users,          *)
(* requests, commits and number of reviews, and the page that shows one    *)
(* (ReviewPage), for any verdicts, any allowance of failed polls and any   *)
(* bound on a job's attempts.                                              *)
(***************************************************************************)
EXTENDS ReviewPage, ReviewCreation, FiniteSetTheorems, TLAPS

\* Setting one row's status keeps the table and its other rows (ReviewRows has
\* the UPDATE ... WHERE id = ... of review_service.py).
LEMMA RowStatusKeeps ==
    ASSUME rows \in Seq(Rows), NEW i \in DOMAIN rows, NEW next,
           [rows[i] EXCEPT !.status = next] \in Rows
    PROVE  LET after == SetStatus(rows, i, next) IN
           /\ after \in Seq(Rows) /\ Len(after) = Len(rows)
           /\ \A k \in DOMAIN rows :
                 after[k] = IF k = i THEN [rows[k] EXCEPT !.status = next] ELSE rows[k]
  <1> DEFINE row == [rows[i] EXCEPT !.status = next]
             after == [rows EXCEPT ![i] = row]
  <1>1. SetStatus(rows, i, next) = after
    BY DEF SetStatus
  <1>2. after \in Seq(Rows) /\ Len(after) = Len(rows)
    <2> HIDE DEF row
    <2>1. row \in Rows BY DEF row
    <2> QED BY <2>1
  <1>3. \A k \in DOMAIN rows : after[k] = IF k = i THEN row ELSE rows[k]
    OBVIOUS
  <1> QED BY <1>1, <1>2, <1>3

\* The rows a request writes over are the table, but for the row it frees.
LEMMA FreedKeeps ==
    ASSUME CreationIInv, NEW c \in Requests
    PROVE  /\ Freed(c) \in Seq(Rows) /\ Len(Freed(c)) = Len(rows)
           /\ \A k \in DOMAIN rows :
                 \/ Freed(c)[k] = rows[k]
                 \/ /\ k = old[c] /\ old[c] # 0 /\ rows[k].status = "completed"
                    /\ Freed(c)[k] = [rows[k] EXCEPT !.status = "superseded"]
  <1>1. CASE old[c] = 0
    BY <1>1 DEF Freed, CreationIInv, CreationTypeOK
  <1>2. CASE old[c] # 0
    <2>1. old[c] \in DOMAIN rows /\ rows \in Seq(Rows)
      BY <1>2 DEF CreationIInv, CreationTypeOK, ReadsHold
    <2>2. [rows[old[c]] EXCEPT !.status = "superseded"] \in Rows
      <3>1. rows[old[c]] \in Rows BY <2>1
      <3> QED BY <3>1 DEF Rows, RowStatuses, TerminalStatuses
    <2>3. CASE Supersedes(rows, old[c], saw[c])
      <3>1. Freed(c) = SetStatus(rows, old[c], "superseded")
        BY <1>2, <2>3 DEF Freed, AfterSupersede
      <3>2. rows[old[c]].status = "completed"
        BY <2>3 DEF Supersedes
      <3> QED BY <1>2, <2>1, <2>2, <3>1, <3>2, RowStatusKeeps
    <2>4. CASE ~Supersedes(rows, old[c], saw[c])
      BY <1>2, <2>1, <2>4 DEF Freed, AfterSupersede
    <2> QED BY <2>3, <2>4
  <1> QED BY <1>1, <1>2

-----------------------------------------------------------------------------
(* What each kind of step does to the rows.                                *)

\* A worker's step takes one active row to a status that is not a new end of
\* a superseded row, and never makes a row live that was not.
LEMMA WorkKeeps ==
    ASSUME CreationIInv, NEW i \in DOMAIN rows, Work(i)
    PROVE  /\ rows' \in Seq(Rows) /\ Len(rows') = Len(rows)
           /\ UNCHANGED <<pc, old, saw, sha>>
           /\ \A k \in DOMAIN rows :
                 \/ rows'[k] = rows[k]
                 \/ /\ rows[k].status \in ActiveStatuses
                    /\ rows'[k].status # "superseded"
                    /\ rows'[k].user = rows[k].user /\ rows'[k].sha = rows[k].sha
  <1>1. rows[i].status \in ActiveStatuses /\ rows \in Seq(Rows)
    BY DEF Work, CreationIInv, CreationTypeOK
  <1>2. PICK to \in WorkerMove[rows[i].status] : rows' = SetStatus(rows, i, to)
    BY DEF Work
  <1>3. to \in RowStatuses \ {"superseded"}
    BY <1>1, <1>2 DEF WorkerMove, ActiveStatuses, RowStatuses, TerminalStatuses
  <1>4. UNCHANGED <<pc, old, saw, sha>>
    BY DEF Work
  <1>5. \A k \in DOMAIN rows : rows[k] \in Rows
    BY <1>1
  <1>6. /\ rows' \in Seq(Rows) /\ Len(rows') = Len(rows)
        /\ \A k \in DOMAIN rows :
              rows'[k] = IF k = i THEN [rows[k] EXCEPT !.status = to] ELSE rows[k]
    <2>1. [rows[i] EXCEPT !.status = to] \in Rows
      BY <1>3, <1>5 DEF Rows
    <2> QED BY <1>1, <1>2, <2>1, RowStatusKeeps
  <1> QED BY <1>1, <1>3, <1>4, <1>5, <1>6 DEF Rows

\* A write leaves the table alone, or appends a queued review of the request's
\* user after freeing the commit for it.
LEMMA WriteKeeps ==
    ASSUME CreationIInv, NEW c \in Requests, Write(c)
    PROVE  /\ rows' \in Seq(Rows) /\ Len(rows') <= MaxReviews
           /\ \/ rows' = rows
              \/ /\ rows' = Append(Freed(c), Fresh(c))
                 /\ ~Conflict(Freed(c), UserOf[c], sha[c])
  <1>1. Freed(c) \in Seq(Rows) /\ Len(Freed(c)) = Len(rows)
    BY FreedKeeps
  <1>2. Fresh(c) \in Rows
    BY RequestsAssumption
    DEF Write, Fresh, Rows, RowStatuses, ActiveStatuses, CreationIInv, ReadsHold
  <1>3. Len(rows) < MaxReviews /\ rows \in Seq(Rows) /\ Len(rows) <= MaxReviews
    BY DEF Write, CreationIInv, CreationTypeOK
  <1>4. CASE Conflict(Freed(c), UserOf[c], sha[c])
    BY <1>3, <1>4 DEF Write
  <1>5. CASE ~Conflict(Freed(c), UserOf[c], sha[c])
    <2>1. rows' = Append(Freed(c), Fresh(c))
      BY <1>5 DEF Write
    <2> QED BY <2>1, <1>1, <1>2, <1>3, <1>5, ReviewsAssumption
  <1> QED BY <1>4, <1>5

\* What a write's append looks like, row by row.
LEMMA AppendedRows ==
    ASSUME CreationIInv, NEW c \in Requests, rows' = Append(Freed(c), Fresh(c))
    PROVE  /\ Len(rows') = Len(rows) + 1 /\ DOMAIN rows' = 1..(Len(rows) + 1)
           /\ rows'[Len(rows) + 1] = Fresh(c)
           /\ \A k \in DOMAIN rows : rows'[k] = Freed(c)[k]
  BY FreedKeeps DEF CreationIInv, CreationTypeOK

-----------------------------------------------------------------------------
\* No step of the system takes the table out of IInv.
LEMMA CreationKeeps ==
    ASSUME CreationIInv, [CreationNext]_creationVars
    PROVE  CreationIInv'
  <1> USE RequestsAssumption, ReviewsAssumption, ShaAssumption
  <1>1. ASSUME NEW i \in DOMAIN rows, Work(i) PROVE CreationIInv'
    <2>1. CreationTypeOK' BY <1>1, WorkKeeps DEF CreationIInv, CreationTypeOK
    <2>2. ReadsHold' BY <1>1, WorkKeeps DEF CreationIInv, ReadsHold, CreationTypeOK
    <2>3. \A k \in DOMAIN rows' :
             /\ k \in DOMAIN rows
             /\ rows'[k].user = rows[k].user /\ rows'[k].sha = rows[k].sha
             /\ rows'[k].status \in LiveStatuses => rows[k].status \in LiveStatuses
      BY <1>1, WorkKeeps DEF CreationIInv, CreationTypeOK, ActiveStatuses, LiveStatuses
    <2>4. OneLivePerSnapshot'
      BY <2>3 DEF CreationIInv, OneLivePerSnapshot, LiveRows
    <2> QED BY <2>1, <2>2, <2>4 DEF CreationIInv
  <1>2. ASSUME NEW c \in Requests, BeginCreate(c) PROVE CreationIInv'
    BY <1>2 DEF BeginCreate, Begin, CreationIInv, CreationTypeOK, OneLivePerSnapshot, ReadsHold,
                LiveRows, TerminalStatuses
  <1>3. ASSUME NEW c \in Requests, BeginRerun(c) PROVE CreationIInv'
    <2>1. PICK i \in DOMAIN rows : /\ rows[i].user = UserOf[c]
                                   /\ rows[i].status \in TerminalStatuses
                                   /\ Begin(c, i, rows[i].status)
      BY <1>3 DEF BeginRerun
    <2>2. i \in 0..MaxReviews BY DEF CreationIInv, CreationTypeOK
    <2>3. CreationTypeOK' BY <2>1, <2>2 DEF Begin, CreationIInv, CreationTypeOK
    <2>4. OneLivePerSnapshot' BY <2>1 DEF Begin, CreationIInv, OneLivePerSnapshot, LiveRows
    <2>5. ReadsHold' BY <2>1 DEF Begin, CreationIInv, ReadsHold, CreationTypeOK
    <2> QED BY <2>3, <2>4, <2>5 DEF CreationIInv
  <1>4. ASSUME NEW c \in Requests, Fetch(c) PROVE CreationIInv'
    <2>1. rows' = rows BY <1>4 DEF Fetch
    <2>2. CreationTypeOK'
      <3>1. CASE Answered(c)
        BY <2>1, <3>1 DEF Answered, CreationIInv, CreationTypeOK, TerminalStatuses
      <3>2. CASE /\ \E head \in Shas : sha' = [sha EXCEPT ![c] = head]
                 /\ pc' = [pc EXCEPT ![c] = "write"]
                 /\ UNCHANGED <<old, saw>>
        BY <2>1, <3>2 DEF CreationIInv, CreationTypeOK
      <3> QED BY <1>4, <3>1, <3>2 DEF Fetch
    <2>3. OneLivePerSnapshot' BY <2>1 DEF CreationIInv, OneLivePerSnapshot, LiveRows
    <2>4. ReadsHold' BY <1>4, <2>1 DEF Fetch, Answered, CreationIInv, ReadsHold, CreationTypeOK
    <2> QED BY <2>2, <2>3, <2>4 DEF CreationIInv
  <1>5. ASSUME NEW c \in Requests, Die(c) PROVE CreationIInv'
    <2>1. rows' = rows BY <1>5 DEF Die
    <2>2. CreationTypeOK' BY <1>5 DEF Die, Answered, CreationIInv, CreationTypeOK, TerminalStatuses
    <2>3. OneLivePerSnapshot' BY <2>1 DEF CreationIInv, OneLivePerSnapshot, LiveRows
    <2>4. ReadsHold' BY <1>5, <2>1 DEF Die, Answered, CreationIInv, ReadsHold, CreationTypeOK
    <2> QED BY <2>2, <2>3, <2>4 DEF CreationIInv
  <1>6. ASSUME NEW c \in Requests, Write(c) PROVE CreationIInv'
    <2>1. Answered(c) BY <1>6 DEF Write
    <2>2. CreationTypeOK'
      BY <1>6, <2>1, WriteKeeps DEF Answered, CreationIInv, CreationTypeOK, TerminalStatuses
    <2>3. CASE rows' = rows
      <3>1. OneLivePerSnapshot' BY <2>3 DEF CreationIInv, OneLivePerSnapshot, LiveRows
      <3>2. ReadsHold' BY <2>1, <2>3 DEF Answered, CreationIInv, ReadsHold, CreationTypeOK
      <3> QED BY <2>2, <3>1, <3>2 DEF CreationIInv
    <2>4. CASE rows' = Append(Freed(c), Fresh(c)) /\ ~Conflict(Freed(c), UserOf[c], sha[c])
      <3>1. /\ Len(rows') = Len(rows) + 1 /\ DOMAIN rows' = 1..(Len(rows) + 1)
            /\ rows'[Len(rows) + 1] = Fresh(c)
            /\ \A k \in DOMAIN rows : rows'[k] = Freed(c)[k]
        BY <2>4, AppendedRows
      <3>2. \A k \in DOMAIN rows :
               /\ rows'[k].user = rows[k].user /\ rows'[k].sha = rows[k].sha
               /\ rows'[k].status \in LiveStatuses => rows[k].status \in LiveStatuses
        <4>1. \A k \in DOMAIN rows : rows[k] \in Rows
          BY DEF CreationIInv, CreationTypeOK
        <4>2. \A k \in DOMAIN rows :
                 rows'[k] = rows[k] \/ rows'[k] = [rows[k] EXCEPT !.status = "superseded"]
          BY <3>1, FreedKeeps
        <4> QED BY <4>1, <4>2 DEF Rows, LiveStatuses
      <3>3. \A k \in DOMAIN rows :
               ~ /\ rows'[k].user = UserOf[c] /\ rows'[k].sha = sha[c]
                 /\ rows'[k].status \in LiveStatuses
        BY <2>4, <3>1, FreedKeeps DEF Conflict, LiveRows, CreationIInv, CreationTypeOK
      <3>4. DOMAIN rows = 1..Len(rows) /\ Len(rows) \in Nat
        BY DEF CreationIInv, CreationTypeOK
      <3>5. OneLivePerSnapshot'
        <4> SUFFICES ASSUME NEW i \in DOMAIN rows', NEW k \in DOMAIN rows', i # k,
                            rows'[i].user = rows'[k].user, rows'[i].sha = rows'[k].sha,
                            rows'[i].status \in LiveStatuses, rows'[k].status \in LiveStatuses
                     PROVE  FALSE
          BY DEF OneLivePerSnapshot, LiveRows
        <4>1. CASE i \in DOMAIN rows /\ k \in DOMAIN rows
          BY <4>1, <3>2 DEF CreationIInv, OneLivePerSnapshot, LiveRows
        <4>2. CASE i = Len(rows) + 1 /\ k \in DOMAIN rows
          BY <4>2, <3>1, <3>3 DEF Fresh
        <4>3. CASE k = Len(rows) + 1 /\ i \in DOMAIN rows
          BY <4>3, <3>1, <3>3 DEF Fresh
        <4> QED BY <4>1, <4>2, <4>3, <3>1, <3>4
      <3>6. ReadsHold'
        BY <2>1, <3>1, <3>2, <3>4 DEF Answered, CreationIInv, ReadsHold, CreationTypeOK
      <3> QED BY <2>2, <3>5, <3>6 DEF CreationIInv
    <2> QED BY <1>6, <2>3, <2>4, WriteKeeps
  <1>7. CASE UNCHANGED creationVars
    BY <1>7 DEF creationVars, CreationIInv, CreationTypeOK, OneLivePerSnapshot, ReadsHold, LiveRows
  <1> QED BY <1>1, <1>2, <1>3, <1>4, <1>5, <1>6, <1>7 DEF CreationNext

\* IInv holds in every reachable state.
THEOREM CreationInvariance == CreationSpec => []CreationIInv
  <1>1. CreationInit => CreationIInv
    BY RequestsAssumption, ReviewsAssumption
    DEF CreationInit, CreationIInv, CreationTypeOK, OneLivePerSnapshot, ReadsHold, LiveRows,
    TerminalStatuses
  <1>2. CreationIInv /\ [CreationNext]_creationVars => CreationIInv' BY CreationKeeps
  <1> QED BY <1>1, <1>2, PTL DEF CreationSpec

\* Two live reviews of one user never cover one commit (models.py:218-238).
THEOREM OneLivePerCommit == CreationSpec => []OneLivePerSnapshot
  <1>1. CreationIInv => OneLivePerSnapshot BY DEF CreationIInv
  <1> QED BY <1>1, CreationInvariance, PTL

\* What one step does to the rows that were there.
LEMMA StepOnRows ==
    ASSUME CreationIInv, [CreationNext]_creationVars, NEW i \in DOMAIN rows
    PROVE  EndKept(i) /\ Replaced(i)
  <1> USE DEF EndKept, Replaced
  <1>1. CASE rows' = rows BY <1>1
  <1>2. ASSUME NEW k \in DOMAIN rows, Work(k) PROVE EndKept(i) /\ Replaced(i)
    BY <1>2, WorkKeeps DEF ActiveStatuses, TerminalStatuses
  <1>3. ASSUME NEW c \in Requests, rows' = Append(Freed(c), Fresh(c))
        PROVE  EndKept(i) /\ Replaced(i)
    <2>1. /\ Len(rows') = Len(rows) + 1
          /\ rows'[Len(rows')] = Fresh(c) /\ rows'[i] = Freed(c)[i]
      BY <1>3, AppendedRows
    <2>2. CASE Freed(c)[i] = rows[i]
      BY <2>1, <2>2
    <2>3. CASE /\ i = old[c] /\ old[c] # 0 /\ rows[i].status = "completed"
               /\ Freed(c)[i] = [rows[i] EXCEPT !.status = "superseded"]
      <3>1. rows[i].user = UserOf[c] BY <2>3 DEF CreationIInv, ReadsHold
      <3>2. rows[i] \in Rows BY DEF CreationIInv, CreationTypeOK
      <3> QED BY <2>1, <2>3, <3>1, <3>2 DEF Fresh, Rows
    <2> QED BY <2>2, <2>3, FreedKeeps
  <1>4. ASSUME NEW c \in Requests, Write(c) PROVE EndKept(i) /\ Replaced(i)
    BY <1>1, <1>3, <1>4, WriteKeeps
  <1>5. ASSUME NEW c \in Requests, BeginCreate(c) \/ BeginRerun(c) \/ Fetch(c) \/ Die(c)
        PROVE  rows' = rows
    BY <1>5 DEF BeginCreate, BeginRerun, Begin, Fetch, Die
  <1> QED BY <1>1, <1>2, <1>4, <1>5 DEF CreationNext, creationVars

\* A review is superseded only together with the insert of its replacement
\* (review_service.py:297-299, 323-325).
THEOREM NothingReplacedByNothing == CreationSpec => ReplacedInOneCommit
  <1>1. CreationIInv /\ [CreationNext]_creationVars => \A i \in DOMAIN rows : Replaced(i)
    BY StepOnRows
  <1>2. CreationSpec => [][\A i \in DOMAIN rows : Replaced(i)]_creationVars
    BY <1>1, CreationInvariance, PTL DEF CreationSpec
  <1> QED BY <1>2 DEF ReplacedInOneCommit

\* How a review ended is never rewritten (review_service.py:289-292).
THEOREM EndIsKept == CreationSpec => EndStaysOnRecord
  <1>1. CreationIInv /\ [CreationNext]_creationVars => \A i \in DOMAIN rows : EndKept(i)
    BY StepOnRows
  <1>2. CreationSpec => [][\A i \in DOMAIN rows : EndKept(i)]_creationVars
    BY <1>1, CreationInvariance, PTL DEF CreationSpec
  <1> QED BY <1>2 DEF EndStaysOnRecord

-----------------------------------------------------------------------------
(* The page that shows a review.                                           *)

USE DEF review, screen, polling, cancelling, feedback,
        Active, HasFindings, Terminal, ShowsFindings

LEMMA NothingIsASnapshot == Nothing \in Snapshots
  BY DEF Nothing, Snapshots

\* A read yields a snapshot, and the rest leaves the status alone.
LEMMA ReadsAreSnapshots ==
    ASSUME TypeOK, NEW snap \in Snapshots
    PROVE  /\ Read(1, snap) \in Snapshots /\ Read(1, snap).status = status
           /\ Read(2, snap) \in Snapshots /\ Read(2, snap).status = snap.status
           /\ Read(2, snap).findings <=> status \in HasFindings
           /\ Read(2, snap).verdict = verdict
  <1>1. /\ status \in Active \cup Terminal /\ asked \in BOOLEAN
        /\ verdict \in Verdicts \cup {"none"}
        /\ (status \in HasFindings) \in BOOLEAN
    BY DEF TypeOK, FlagsOK
  <1>2. Read(1, snap) = [snap EXCEPT !.status = status]
    BY DEF Read
  <1>3. Read(2, snap) = [snap EXCEPT !.asked = asked, !.findings = status \in HasFindings,
                                     !.verdict = verdict]
    BY DEF Read
  <1>4. Read(1, snap) \in Snapshots /\ Read(1, snap).status = status
    BY <1>1, <1>2 DEF Snapshots
  <1>5. /\ Read(2, snap).status = snap.status /\ Read(2, snap).asked = asked
        /\ Read(2, snap).findings = (status \in HasFindings)
        /\ Read(2, snap).verdict = verdict
    BY <1>3 DEF Snapshots
  <1>6. Read(2, snap) \in Snapshots
    BY <1>1, <1>3 DEF Snapshots
  <1> QED BY <1>4, <1>5, <1>6

LEMMA IInvInit == Init => IInv
  <1> SUFFICES ASSUME Init PROVE IInv
    OBVIOUS
  <1>1. TypeOK
    <2>1. CountersOK
      BY PageConstants DEF Init, CountersOK
    <2>2. /\ shown \in Snapshots /\ pollSnap \in Snapshots /\ cancelSnap \in Snapshots
      BY NothingIsASnapshot DEF Init
    <2>3. /\ kind \in {"loading", "waking", "ready", "error"}
          /\ confirming \in {"none", "cancel", "rerun"}
          /\ poll \in {"off", "timer", "sent", "row", "answer"}
          /\ cancel \in {"idle", "sent", "loaded", "applied", "answer", "refused"}
          /\ rerun \in {"idle", "sent", "created", "refused"}
          /\ save \in {"idle", "sent", "stored"}
      BY DEF Init
    <2>4. status \in Active \cup Terminal /\ FlagsOK
      BY Zenon DEF Init, FlagsOK
    <2>5. /\ verdict \in Verdicts \cup {"none"} /\ saving \in Verdicts \cup {"none"}
          /\ previous \in Verdicts \cup {"none"} /\ late \subseteq Verdicts \cup {"none"}
      BY DEF Init
    <2> QED BY <2>1, <2>2, <2>3, <2>4, <2>5 DEF TypeOK
  <1>2. Watching /\ Answers /\ Saving
    BY PageConstants DEF Init, Watching, Answers, Saving
  <1>3. WatchedWhileActive /\ CompletedShowsFindings /\ CancellingIsTrue /\ FeedbackIsShown
    BY DEF Init, WatchedWhileActive, CompletedShowsFindings, CancellingIsTrue, FeedbackIsShown
  <1> QED BY <1>1, <1>2, <1>3 DEF IInv

LEMMA IInvStep == IInv /\ [Next]_vars => IInv'
  <1> SUFFICES ASSUME IInv, [Next]_vars PROVE IInv'
    OBVIOUS
  <1> USE NothingIsASnapshot, PageConstants
  <1>1. CASE ReviewMoves
    <2>0. CountersOK'
      BY <1>1 DEF ReviewMoves, Claimed, Worked, IInv, TypeOK, CountersOK, Watching
    <2>f. FlagsOK'
      BY <1>1, Zenon DEF ReviewMoves, Claimed, Worked, IInv, TypeOK, FlagsOK
    <2>1. TypeOK'
      BY <1>1, <2>0, <2>f DEF ReviewMoves, Claimed, Worked, IInv, TypeOK
    <2>2. Watching' /\ WatchedWhileActive'
      BY <1>1 DEF ReviewMoves, Claimed, Worked, IInv, TypeOK, Watching, WatchedWhileActive,
         Answers, Saving
    <2>3. Answers' /\ CancellingIsTrue'
      BY <1>1 DEF ReviewMoves, Claimed, Worked, IInv, TypeOK, Watching, Answers, CancellingIsTrue,
         Saving
    <2>4. Saving' /\ CompletedShowsFindings' /\ FeedbackIsShown'
      BY <1>1 DEF ReviewMoves, Claimed, Worked, IInv, TypeOK, Watching, Answers, Saving,
                    CompletedShowsFindings, FeedbackIsShown
    <2> QED BY <2>1, <2>2, <2>3, <2>4 DEF IInv
  <1>2. CASE PollTimer
    <2>0. CountersOK'
      BY <1>2 DEF PollTimer, IInv, TypeOK, CountersOK, Watching
    <2>f. FlagsOK'
      BY <1>2, Zenon DEF PollTimer, IInv, TypeOK, FlagsOK
    <2>1. TypeOK'
      BY <1>2, <2>0, <2>f DEF PollTimer, IInv, TypeOK
    <2>2. Watching' /\ WatchedWhileActive'
      BY <1>2 DEF PollTimer, IInv, TypeOK, Watching, WatchedWhileActive, Answers, Saving
    <2>3. Answers' /\ CancellingIsTrue'
      BY <1>2 DEF PollTimer, IInv, TypeOK, Watching, Answers, CancellingIsTrue, Saving
    <2>4. Saving' /\ CompletedShowsFindings' /\ FeedbackIsShown'
      BY <1>2 DEF PollTimer, IInv, TypeOK, Watching, Answers, Saving,
                    CompletedShowsFindings, FeedbackIsShown
    <2> QED BY <2>1, <2>2, <2>3, <2>4 DEF IInv
  <1>3. CASE PollReads
    <2>0. CountersOK'
      BY <1>3 DEF PollReads, Read, IInv, TypeOK, CountersOK, Watching
    <2>f. FlagsOK'
      BY <1>3, Zenon DEF PollReads, Read, IInv, TypeOK, FlagsOK
    <2>1. TypeOK'
      BY <1>3, <2>0, <2>f, ReadsAreSnapshots DEF PollReads, IInv, TypeOK
    <2>2. Watching' /\ WatchedWhileActive'
      BY <1>3 DEF PollReads, Read, IInv, TypeOK, Watching, WatchedWhileActive, Answers, Saving
    <2>r. /\ pollSnap' \in Snapshots
          /\ \/ poll = "sent" /\ poll' = "row" /\ pollSnap'.status = status
             \/ /\ poll = "row" /\ poll' = "answer" /\ pollSnap'.status = pollSnap.status
                /\ pollSnap'.findings <=> status \in HasFindings
                /\ pollSnap'.verdict = verdict
      BY <1>3, ReadsAreSnapshots DEF PollReads, IInv, TypeOK
    <2>u. UNCHANGED <<review, screen, confirming, cancelling, rerun, feedback>>
      BY <1>3 DEF PollReads
    <2>3. Answers' /\ CancellingIsTrue'
      BY <2>r, <2>u DEF IInv, Answers, CancellingIsTrue
    <2>4. Saving' /\ CompletedShowsFindings' /\ FeedbackIsShown'
      BY <1>3 DEF PollReads, Read, IInv, TypeOK, Watching, Answers, Saving,
                    CompletedShowsFindings, FeedbackIsShown
    <2> QED BY <2>1, <2>2, <2>3, <2>4 DEF IInv
  <1>4. CASE PollArrives
    <2>0. CountersOK'
      BY <1>4 DEF PollArrives, ApplyServerReview, IInv, TypeOK, CountersOK, Watching
    <2>f. FlagsOK'
      BY <1>4, Zenon DEF PollArrives, ApplyServerReview, IInv, TypeOK, FlagsOK
    <2>1. TypeOK'
      BY <1>4, <2>0, <2>f DEF PollArrives, ApplyServerReview, IInv, TypeOK
    <2>2. Watching' /\ WatchedWhileActive'
      BY <1>4 DEF PollArrives, ApplyServerReview, IInv, TypeOK, Watching, WatchedWhileActive,
         Answers, Saving
    <2>3. Answers' /\ CancellingIsTrue'
      BY <1>4 DEF PollArrives, ApplyServerReview, IInv, TypeOK, Watching, Answers,
         CancellingIsTrue, Saving
    <2>4. Saving' /\ CompletedShowsFindings' /\ FeedbackIsShown'
      BY <1>4 DEF PollArrives, ApplyServerReview, IInv, TypeOK, Watching, Answers, Saving,
                    CompletedShowsFindings, FeedbackIsShown
    <2> QED BY <2>1, <2>2, <2>3, <2>4 DEF IInv
  <1>5. CASE PollFails
    <2>0. CountersOK'
      BY <1>5 DEF PollFails, IInv, TypeOK, CountersOK, Watching
    <2>f. FlagsOK'
      BY <1>5, Zenon DEF PollFails, IInv, TypeOK, FlagsOK
    <2>1. TypeOK'
      BY <1>5, <2>0, <2>f DEF PollFails, IInv, TypeOK
    <2>w. /\ poll' # "off" => failedPolls' <= MaxWakePolls
          /\ poll' = "off" => stalled' /\ kind' \in {"ready", "error"}
          /\ kind' # kind => kind # "ready" /\ kind' # "ready"
          /\ ~left /\ poll # "off" /\ UNCHANGED <<shown, left, confirming, cancelling, rerun>>
      <3>1. failedPolls' \in Nat /\ MaxWakePolls \in Nat
        BY <2>0 DEF CountersOK
      <3>2. CASE failedPolls' > MaxWakePolls
        <4>1. stalled' = (stalled \/ TRUE) /\ poll' = "off"
          BY <1>5, <3>2 DEF PollFails
        <4>2. kind' = IF kind = "ready" THEN kind ELSE "error"
          BY <1>5, <3>2 DEF PollFails
        <4> QED BY <1>5, <4>1, <4>2 DEF PollFails
      <3>3. CASE ~(failedPolls' > MaxWakePolls)
        <4>1. failedPolls' <= MaxWakePolls
          BY <3>1, <3>3
        <4>2. poll' = "timer" /\ kind' = IF kind = "ready" THEN kind ELSE "waking"
          BY <1>5, <3>3 DEF PollFails
        <4> QED BY <1>5, <4>1, <4>2 DEF PollFails
      <3> QED BY <3>2, <3>3
    <2>2. Watching' /\ WatchedWhileActive'
      BY <2>w DEF IInv, TypeOK, Watching, WatchedWhileActive
    <2>3. Answers' /\ CancellingIsTrue'
      BY <1>5 DEF PollFails, IInv, TypeOK, Watching, Answers, CancellingIsTrue, Saving
    <2>4. Saving' /\ CompletedShowsFindings' /\ FeedbackIsShown'
      BY <1>5 DEF PollFails, IInv, TypeOK, Watching, Answers, Saving,
                    CompletedShowsFindings, FeedbackIsShown
    <2> QED BY <2>1, <2>2, <2>3, <2>4 DEF IInv
  <1>6. CASE Retry
    <2>0. CountersOK'
      BY <1>6 DEF Retry, IInv, TypeOK, CountersOK, Watching
    <2>f. FlagsOK'
      BY <1>6, Zenon DEF Retry, IInv, TypeOK, FlagsOK
    <2>1. TypeOK'
      BY <1>6, <2>0, <2>f DEF Retry, IInv, TypeOK
    <2>2. Watching' /\ WatchedWhileActive'
      BY <1>6 DEF Retry, IInv, TypeOK, Watching, WatchedWhileActive, Answers, Saving
    <2>3. Answers' /\ CancellingIsTrue'
      BY <1>6 DEF Retry, IInv, TypeOK, Watching, Answers, CancellingIsTrue, Saving
    <2>4. Saving' /\ CompletedShowsFindings' /\ FeedbackIsShown'
      BY <1>6 DEF Retry, IInv, TypeOK, Watching, Answers, Saving,
                    CompletedShowsFindings, FeedbackIsShown
    <2> QED BY <2>1, <2>2, <2>3, <2>4 DEF IInv
  <1>7. CASE SessionLost
    <2>0. CountersOK'
      BY <1>7 DEF SessionLost, IInv, TypeOK, CountersOK, Watching
    <2>f. FlagsOK'
      BY <1>7, Zenon DEF SessionLost, IInv, TypeOK, FlagsOK
    <2>1. TypeOK'
      BY <1>7, <2>0, <2>f DEF SessionLost, IInv, TypeOK
    <2>2. Watching' /\ WatchedWhileActive'
      BY <1>7 DEF SessionLost, IInv, TypeOK, Watching, WatchedWhileActive, Answers, Saving
    <2>3. Answers' /\ CancellingIsTrue'
      BY <1>7 DEF SessionLost, IInv, TypeOK, Watching, Answers, CancellingIsTrue, Saving
    <2>4. Saving' /\ CompletedShowsFindings' /\ FeedbackIsShown'
      BY <1>7 DEF SessionLost, IInv, TypeOK, Watching, Answers, Saving,
                    CompletedShowsFindings, FeedbackIsShown
    <2> QED BY <2>1, <2>2, <2>3, <2>4 DEF IInv
  <1>8. CASE OpenCancel
    <2>0. CountersOK'
      BY <1>8 DEF OpenCancel, IInv, TypeOK, CountersOK, Watching
    <2>f. FlagsOK'
      BY <1>8, Zenon DEF OpenCancel, IInv, TypeOK, FlagsOK
    <2>1. TypeOK'
      BY <1>8, <2>0, <2>f DEF OpenCancel, IInv, TypeOK
    <2>2. Watching' /\ WatchedWhileActive'
      BY <1>8 DEF OpenCancel, IInv, TypeOK, Watching, WatchedWhileActive, Answers, Saving
    <2>3. Answers' /\ CancellingIsTrue'
      BY <1>8 DEF OpenCancel, IInv, TypeOK, Watching, Answers, CancellingIsTrue, Saving
    <2>4. Saving' /\ CompletedShowsFindings' /\ FeedbackIsShown'
      BY <1>8 DEF OpenCancel, IInv, TypeOK, Watching, Answers, Saving,
                    CompletedShowsFindings, FeedbackIsShown
    <2> QED BY <2>1, <2>2, <2>3, <2>4 DEF IInv
  <1>9. CASE ConfirmCancel
    <2>0. CountersOK'
      BY <1>9 DEF ConfirmCancel, IInv, TypeOK, CountersOK, Watching
    <2>f. FlagsOK'
      BY <1>9, Zenon DEF ConfirmCancel, IInv, TypeOK, FlagsOK
    <2>1. TypeOK'
      BY <1>9, <2>0, <2>f DEF ConfirmCancel, IInv, TypeOK
    <2>2. Watching' /\ WatchedWhileActive'
      BY <1>9 DEF ConfirmCancel, IInv, TypeOK, Watching, WatchedWhileActive, Answers, Saving
    <2>3. Answers' /\ CancellingIsTrue'
      BY <1>9 DEF ConfirmCancel, IInv, TypeOK, Watching, Answers, CancellingIsTrue, Saving
    <2>4. Saving' /\ CompletedShowsFindings' /\ FeedbackIsShown'
      BY <1>9 DEF ConfirmCancel, IInv, TypeOK, Watching, Answers, Saving,
                    CompletedShowsFindings, FeedbackIsShown
    <2> QED BY <2>1, <2>2, <2>3, <2>4 DEF IInv
  <1>10. CASE CancelLoads
    <2>0. CountersOK'
      BY <1>10 DEF CancelLoads, Read, IInv, TypeOK, CountersOK, Watching
    <2>f. FlagsOK'
      BY <1>10, Zenon DEF CancelLoads, Read, IInv, TypeOK, FlagsOK
    <2>1. TypeOK'
      BY <1>10, <2>0, <2>f, ReadsAreSnapshots DEF CancelLoads, IInv, TypeOK
    <2>2. Watching' /\ WatchedWhileActive'
      BY <1>10 DEF CancelLoads, Read, IInv, TypeOK, Watching, WatchedWhileActive, Answers, Saving
    <2>3. Answers' /\ CancellingIsTrue'
      BY <1>10 DEF CancelLoads, Read, IInv, TypeOK, Watching, Answers, CancellingIsTrue, Saving
    <2>4. Saving' /\ CompletedShowsFindings' /\ FeedbackIsShown'
      BY <1>10 DEF CancelLoads, Read, IInv, TypeOK, Watching, Answers, Saving,
                    CompletedShowsFindings, FeedbackIsShown
    <2> QED BY <2>1, <2>2, <2>3, <2>4 DEF IInv
  <1>11. CASE CancelApplies
    <2>0. CountersOK'
      BY <1>11 DEF CancelApplies, IInv, TypeOK, CountersOK, Watching
    <2>f. FlagsOK'
      BY <1>11, Zenon DEF CancelApplies, IInv, TypeOK, FlagsOK
    <2>c. cancelSnap' \in Snapshots /\ cancelSnap'.status \in {cancelSnap.status, "cancelled"}
      BY <1>11 DEF CancelApplies, IInv, TypeOK, Snapshots
    <2>u. UNCHANGED <<shown, polling, confirming, kind, rerun, feedback>> /\ cancel' = "applied"
      BY <1>11 DEF CancelApplies
    <2>s. status' \in {status, "cancelled"}
      BY <1>11 DEF CancelApplies
    <2>1. TypeOK'
      BY <2>0, <2>f, <2>c, <2>u, <2>s DEF IInv, TypeOK
    <2>2. Watching' /\ WatchedWhileActive'
      BY <1>11 DEF CancelApplies, IInv, TypeOK, Watching, WatchedWhileActive, Answers, Saving
    <2>a. /\ asked' \/ status' \in Terminal
          /\ cancel = "loaded" /\ cancelSent' = cancelSent
          /\ status \in HasFindings => status' \in HasFindings
      BY <1>11 DEF CancelApplies, IInv, TypeOK
    <2>3. Answers' /\ CancellingIsTrue'
      BY <2>a, <2>c, <2>u DEF IInv, Answers, CancellingIsTrue
    <2>4. Saving' /\ CompletedShowsFindings' /\ FeedbackIsShown'
      BY <1>11 DEF CancelApplies, IInv, TypeOK, Watching, Answers, Saving,
                    CompletedShowsFindings, FeedbackIsShown
    <2> QED BY <2>1, <2>2, <2>3, <2>4 DEF IInv
  <1>12. CASE CancelReadsRest
    <2>0. CountersOK'
      BY <1>12 DEF CancelReadsRest, Read, IInv, TypeOK, CountersOK, Watching
    <2>f. FlagsOK'
      BY <1>12, Zenon DEF CancelReadsRest, Read, IInv, TypeOK, FlagsOK
    <2>1. TypeOK'
      BY <1>12, <2>0, <2>f, ReadsAreSnapshots DEF CancelReadsRest, IInv, TypeOK
    <2>2. Watching' /\ WatchedWhileActive'
      BY <1>12 DEF CancelReadsRest, Read, IInv, TypeOK, Watching, WatchedWhileActive, Answers,
         Saving
    <2>3. Answers' /\ CancellingIsTrue'
      BY <1>12 DEF CancelReadsRest, Read, IInv, TypeOK, Watching, Answers, CancellingIsTrue, Saving
    <2>4. Saving' /\ CompletedShowsFindings' /\ FeedbackIsShown'
      BY <1>12 DEF CancelReadsRest, Read, IInv, TypeOK, Watching, Answers, Saving,
                    CompletedShowsFindings, FeedbackIsShown
    <2> QED BY <2>1, <2>2, <2>3, <2>4 DEF IInv
  <1>13. CASE CancelArrives
    <2>0. CountersOK'
      BY <1>13 DEF CancelArrives, ApplyServerReview, IInv, TypeOK, CountersOK, Watching
    <2>f. FlagsOK'
      BY <1>13, Zenon DEF CancelArrives, ApplyServerReview, IInv, TypeOK, FlagsOK
    <2>1. TypeOK'
      BY <1>13, <2>0, <2>f DEF CancelArrives, ApplyServerReview, IInv, TypeOK
    <2>2. Watching' /\ WatchedWhileActive'
      BY <1>13 DEF CancelArrives, ApplyServerReview, IInv, TypeOK, Watching, WatchedWhileActive,
         Answers, Saving
    <2>3. Answers' /\ CancellingIsTrue'
      BY <1>13 DEF CancelArrives, ApplyServerReview, IInv, TypeOK, Watching, Answers,
         CancellingIsTrue, Saving
    <2>4. Saving' /\ CompletedShowsFindings' /\ FeedbackIsShown'
      BY <1>13 DEF CancelArrives, ApplyServerReview, IInv, TypeOK, Watching, Answers, Saving,
                    CompletedShowsFindings, FeedbackIsShown
    <2> QED BY <2>1, <2>2, <2>3, <2>4 DEF IInv
  <1>14. CASE CancelRefused
    <2>0. CountersOK'
      BY <1>14 DEF CancelRefused, IInv, TypeOK, CountersOK, Watching
    <2>f. FlagsOK'
      BY <1>14, Zenon DEF CancelRefused, IInv, TypeOK, FlagsOK
    <2>1. TypeOK'
      BY <1>14, <2>0, <2>f DEF CancelRefused, IInv, TypeOK
    <2>2. Watching' /\ WatchedWhileActive'
      BY <1>14 DEF CancelRefused, IInv, TypeOK, Watching, WatchedWhileActive, Answers, Saving
    <2>3. Answers' /\ CancellingIsTrue'
      BY <1>14 DEF CancelRefused, IInv, TypeOK, Watching, Answers, CancellingIsTrue, Saving
    <2>4. Saving' /\ CompletedShowsFindings' /\ FeedbackIsShown'
      BY <1>14 DEF CancelRefused, IInv, TypeOK, Watching, Answers, Saving,
                    CompletedShowsFindings, FeedbackIsShown
    <2> QED BY <2>1, <2>2, <2>3, <2>4 DEF IInv
  <1>15. CASE CancelFails
    <2>0. CountersOK'
      BY <1>15 DEF CancelFails, IInv, TypeOK, CountersOK, Watching
    <2>f. FlagsOK'
      BY <1>15, Zenon DEF CancelFails, IInv, TypeOK, FlagsOK
    <2>1. TypeOK'
      BY <1>15, <2>0, <2>f DEF CancelFails, IInv, TypeOK
    <2>2. Watching' /\ WatchedWhileActive'
      BY <1>15 DEF CancelFails, IInv, TypeOK, Watching, WatchedWhileActive, Answers, Saving
    <2>3. Answers' /\ CancellingIsTrue'
      BY <1>15 DEF CancelFails, IInv, TypeOK, Watching, Answers, CancellingIsTrue, Saving
    <2>4. Saving' /\ CompletedShowsFindings' /\ FeedbackIsShown'
      BY <1>15 DEF CancelFails, IInv, TypeOK, Watching, Answers, Saving,
                    CompletedShowsFindings, FeedbackIsShown
    <2> QED BY <2>1, <2>2, <2>3, <2>4 DEF IInv
  <1>16. CASE CancelDropped
    <2>0. CountersOK'
      BY <1>16 DEF CancelDropped, IInv, TypeOK, CountersOK, Watching
    <2>f. FlagsOK'
      BY <1>16, Zenon DEF CancelDropped, IInv, TypeOK, FlagsOK
    <2>1. TypeOK'
      BY <1>16, <2>0, <2>f DEF CancelDropped, IInv, TypeOK
    <2>2. Watching' /\ WatchedWhileActive'
      BY <1>16 DEF CancelDropped, IInv, TypeOK, Watching, WatchedWhileActive, Answers, Saving
    <2>3. Answers' /\ CancellingIsTrue'
      BY <1>16 DEF CancelDropped, IInv, TypeOK, Watching, Answers, CancellingIsTrue, Saving
    <2>4. Saving' /\ CompletedShowsFindings' /\ FeedbackIsShown'
      BY <1>16 DEF CancelDropped, IInv, TypeOK, Watching, Answers, Saving,
                    CompletedShowsFindings, FeedbackIsShown
    <2> QED BY <2>1, <2>2, <2>3, <2>4 DEF IInv
  <1>17. CASE CloseDialog
    <2>0. CountersOK'
      BY <1>17 DEF CloseDialog, IInv, TypeOK, CountersOK, Watching
    <2>f. FlagsOK'
      BY <1>17, Zenon DEF CloseDialog, IInv, TypeOK, FlagsOK
    <2>1. TypeOK'
      BY <1>17, <2>0, <2>f DEF CloseDialog, IInv, TypeOK
    <2>2. Watching' /\ WatchedWhileActive'
      BY <1>17 DEF CloseDialog, IInv, TypeOK, Watching, WatchedWhileActive, Answers, Saving
    <2>3. Answers' /\ CancellingIsTrue'
      BY <1>17 DEF CloseDialog, IInv, TypeOK, Watching, Answers, CancellingIsTrue, Saving
    <2>4. Saving' /\ CompletedShowsFindings' /\ FeedbackIsShown'
      BY <1>17 DEF CloseDialog, IInv, TypeOK, Watching, Answers, Saving,
                    CompletedShowsFindings, FeedbackIsShown
    <2> QED BY <2>1, <2>2, <2>3, <2>4 DEF IInv
  <1>18. CASE OpenRerun
    <2>0. CountersOK'
      BY <1>18 DEF OpenRerun, IInv, TypeOK, CountersOK, Watching
    <2>f. FlagsOK'
      BY <1>18, Zenon DEF OpenRerun, IInv, TypeOK, FlagsOK
    <2>1. TypeOK'
      BY <1>18, <2>0, <2>f DEF OpenRerun, IInv, TypeOK
    <2>2. Watching' /\ WatchedWhileActive'
      BY <1>18 DEF OpenRerun, IInv, TypeOK, Watching, WatchedWhileActive, Answers, Saving
    <2>3. Answers' /\ CancellingIsTrue'
      BY <1>18 DEF OpenRerun, IInv, TypeOK, Watching, Answers, CancellingIsTrue, Saving
    <2>4. Saving' /\ CompletedShowsFindings' /\ FeedbackIsShown'
      BY <1>18 DEF OpenRerun, IInv, TypeOK, Watching, Answers, Saving,
                    CompletedShowsFindings, FeedbackIsShown
    <2> QED BY <2>1, <2>2, <2>3, <2>4 DEF IInv
  <1>19. CASE ConfirmRerun
    <2>0. CountersOK'
      BY <1>19 DEF ConfirmRerun, IInv, TypeOK, CountersOK, Watching
    <2>f. FlagsOK'
      BY <1>19, Zenon DEF ConfirmRerun, IInv, TypeOK, FlagsOK
    <2>1. TypeOK'
      BY <1>19, <2>0, <2>f DEF ConfirmRerun, IInv, TypeOK
    <2>2. Watching' /\ WatchedWhileActive'
      BY <1>19 DEF ConfirmRerun, IInv, TypeOK, Watching, WatchedWhileActive, Answers, Saving
    <2>3. Answers' /\ CancellingIsTrue'
      BY <1>19 DEF ConfirmRerun, IInv, TypeOK, Watching, Answers, CancellingIsTrue, Saving
    <2>4. Saving' /\ CompletedShowsFindings' /\ FeedbackIsShown'
      BY <1>19 DEF ConfirmRerun, IInv, TypeOK, Watching, Answers, Saving,
                    CompletedShowsFindings, FeedbackIsShown
    <2> QED BY <2>1, <2>2, <2>3, <2>4 DEF IInv
  <1>20. CASE RerunServed
    <2>0. CountersOK'
      BY <1>20 DEF RerunServed, IInv, TypeOK, CountersOK, Watching
    <2>f. FlagsOK'
      BY <1>20, Zenon DEF RerunServed, IInv, TypeOK, FlagsOK
    <2>1. TypeOK'
      BY <1>20, <2>0, <2>f DEF RerunServed, IInv, TypeOK
    <2>2. Watching' /\ WatchedWhileActive'
      BY <1>20 DEF RerunServed, IInv, TypeOK, Watching, WatchedWhileActive, Answers, Saving
    <2>3. Answers' /\ CancellingIsTrue'
      BY <1>20 DEF RerunServed, IInv, TypeOK, Watching, Answers, CancellingIsTrue, Saving
    <2>4. Saving' /\ CompletedShowsFindings' /\ FeedbackIsShown'
      BY <1>20 DEF RerunServed, IInv, TypeOK, Watching, Answers, Saving,
                    CompletedShowsFindings, FeedbackIsShown
    <2> QED BY <2>1, <2>2, <2>3, <2>4 DEF IInv
  <1>21. CASE RerunArrives
    <2>0. CountersOK'
      BY <1>21 DEF RerunArrives, IInv, TypeOK, CountersOK, Watching
    <2>f. FlagsOK'
      BY <1>21, Zenon DEF RerunArrives, IInv, TypeOK, FlagsOK
    <2>1. TypeOK'
      BY <1>21, <2>0, <2>f DEF RerunArrives, IInv, TypeOK
    <2>2. Watching' /\ WatchedWhileActive'
      BY <1>21 DEF RerunArrives, IInv, TypeOK, Watching, WatchedWhileActive, Answers, Saving
    <2>3. Answers' /\ CancellingIsTrue'
      BY <1>21 DEF RerunArrives, IInv, TypeOK, Watching, Answers, CancellingIsTrue, Saving
    <2>4. Saving' /\ CompletedShowsFindings' /\ FeedbackIsShown'
      BY <1>21 DEF RerunArrives, IInv, TypeOK, Watching, Answers, Saving,
                    CompletedShowsFindings, FeedbackIsShown
    <2> QED BY <2>1, <2>2, <2>3, <2>4 DEF IInv
  <1>22. CASE RerunNoted
    <2>0. CountersOK'
      BY <1>22 DEF RerunNoted, IInv, TypeOK, CountersOK, Watching
    <2>f. FlagsOK'
      BY <1>22, Zenon DEF RerunNoted, IInv, TypeOK, FlagsOK
    <2>1. TypeOK'
      BY <1>22, <2>0, <2>f DEF RerunNoted, IInv, TypeOK
    <2>2. Watching' /\ WatchedWhileActive'
      BY <1>22 DEF RerunNoted, IInv, TypeOK, Watching, WatchedWhileActive, Answers, Saving
    <2>3. Answers' /\ CancellingIsTrue'
      BY <1>22 DEF RerunNoted, IInv, TypeOK, Watching, Answers, CancellingIsTrue, Saving
    <2>4. Saving' /\ CompletedShowsFindings' /\ FeedbackIsShown'
      BY <1>22 DEF RerunNoted, IInv, TypeOK, Watching, Answers, Saving,
                    CompletedShowsFindings, FeedbackIsShown
    <2> QED BY <2>1, <2>2, <2>3, <2>4 DEF IInv
  <1>23. CASE SaveStored
    <2>0. CountersOK'
      BY <1>23 DEF SaveStored, IInv, TypeOK, CountersOK, Watching
    <2>f. FlagsOK'
      BY <1>23, Zenon DEF SaveStored, IInv, TypeOK, FlagsOK
    <2>1. TypeOK'
      BY <1>23, <2>0, <2>f DEF SaveStored, IInv, TypeOK
    <2>2. Watching' /\ WatchedWhileActive'
      BY <1>23 DEF SaveStored, IInv, TypeOK, Watching, WatchedWhileActive, Answers, Saving
    <2>3. Answers' /\ CancellingIsTrue'
      BY <1>23 DEF SaveStored, IInv, TypeOK, Watching, Answers, CancellingIsTrue, Saving
    <2>4. Saving' /\ CompletedShowsFindings' /\ FeedbackIsShown'
      BY <1>23 DEF SaveStored, IInv, TypeOK, Watching, Answers, Saving,
                    CompletedShowsFindings, FeedbackIsShown
    <2> QED BY <2>1, <2>2, <2>3, <2>4 DEF IInv
  <1>24. CASE SaveArrives
    <2>0. CountersOK'
      BY <1>24 DEF SaveArrives, IInv, TypeOK, CountersOK, Watching
    <2>f. FlagsOK'
      BY <1>24, Zenon DEF SaveArrives, IInv, TypeOK, FlagsOK
    <2>1. TypeOK'
      BY <1>24, <2>0, <2>f DEF SaveArrives, IInv, TypeOK
    <2>2. Watching' /\ WatchedWhileActive'
      BY <1>24 DEF SaveArrives, IInv, TypeOK, Watching, WatchedWhileActive, Answers, Saving
    <2>3. Answers' /\ CancellingIsTrue'
      BY <1>24 DEF SaveArrives, IInv, TypeOK, Watching, Answers, CancellingIsTrue, Saving
    <2>4. Saving' /\ CompletedShowsFindings' /\ FeedbackIsShown'
      BY <1>24 DEF SaveArrives, IInv, TypeOK, Watching, Answers, Saving,
                    CompletedShowsFindings, FeedbackIsShown
    <2> QED BY <2>1, <2>2, <2>3, <2>4 DEF IInv
  <1>25. CASE SaveFails
    <2>0. CountersOK'
      BY <1>25 DEF SaveFails, ShowVerdict, IInv, TypeOK, CountersOK, Watching
    <2>f. FlagsOK'
      BY <1>25, Zenon DEF SaveFails, ShowVerdict, IInv, TypeOK, FlagsOK
    <2>1. TypeOK'
      BY <1>25, <2>0, <2>f DEF SaveFails, ShowVerdict, IInv, TypeOK, Snapshots
    <2>2. Watching' /\ WatchedWhileActive'
      BY <1>25 DEF SaveFails, ShowVerdict, IInv, TypeOK, Watching, WatchedWhileActive, Answers,
         Saving
    <2>3. Answers' /\ CancellingIsTrue'
      BY <1>25 DEF SaveFails, ShowVerdict, IInv, TypeOK, Watching, Answers, CancellingIsTrue, Saving
    <2>4. Saving' /\ CompletedShowsFindings' /\ FeedbackIsShown'
      BY <1>25 DEF SaveFails, ShowVerdict, IInv, TypeOK, Watching, Answers, Saving,
                    CompletedShowsFindings, FeedbackIsShown
    <2> QED BY <2>1, <2>2, <2>3, <2>4 DEF IInv
  <1>26. CASE LateSave
    <2>0. CountersOK'
      BY <1>26 DEF LateSave, IInv, TypeOK, CountersOK, Watching
    <2>f. FlagsOK'
      BY <1>26, Zenon DEF LateSave, IInv, TypeOK, FlagsOK
    <2>1. TypeOK'
      BY <1>26, <2>0, <2>f DEF LateSave, IInv, TypeOK
    <2>2. Watching' /\ WatchedWhileActive'
      BY <1>26 DEF LateSave, IInv, TypeOK, Watching, WatchedWhileActive, Answers, Saving
    <2>3. Answers' /\ CancellingIsTrue'
      BY <1>26 DEF LateSave, IInv, TypeOK, Watching, Answers, CancellingIsTrue, Saving
    <2>4. Saving' /\ CompletedShowsFindings' /\ FeedbackIsShown'
      BY <1>26 DEF LateSave, IInv, TypeOK, Watching, Answers, Saving,
                    CompletedShowsFindings, FeedbackIsShown
    <2> QED BY <2>1, <2>2, <2>3, <2>4 DEF IInv
  <1>27. ASSUME NEW v \in Verdicts, GiveFeedback(v) PROVE IInv'
    <2>0. CountersOK'
      BY <1>27 DEF GiveFeedback, IInv, TypeOK, CountersOK
    <2>f. FlagsOK'
      BY <1>27, Zenon DEF GiveFeedback, IInv, TypeOK, FlagsOK
    <2>1. TypeOK'
      BY <1>27, <2>0, <2>f DEF GiveFeedback, CanSave, ShowVerdict, IInv, TypeOK, Snapshots
    <2>2. Watching' /\ WatchedWhileActive'
      BY <1>27 DEF GiveFeedback, CanSave, ShowVerdict, IInv, TypeOK, Snapshots, Watching,
         WatchedWhileActive
    <2>3. Answers' /\ CancellingIsTrue'
      BY <1>27 DEF GiveFeedback, CanSave, ShowVerdict, IInv, Watching, Answers, CancellingIsTrue
    <2>4. Saving' /\ CompletedShowsFindings' /\ FeedbackIsShown'
      BY <1>27 DEF GiveFeedback, CanSave, ShowVerdict, IInv, TypeOK, Snapshots, Saving,
                    CompletedShowsFindings, FeedbackIsShown
    <2> QED BY <2>1, <2>2, <2>3, <2>4 DEF IInv
  <1>28. CASE UNCHANGED vars
    BY <1>28 DEF vars, IInv, TypeOK, CountersOK, FlagsOK, Watching, Answers, Saving,
       WatchedWhileActive,
                 CompletedShowsFindings, CancellingIsTrue, FeedbackIsShown
  <1> QED
    BY <1>1, <1>2, <1>3, <1>4, <1>5, <1>6, <1>7, <1>8, <1>9, <1>10, <1>11, <1>12, <1>13, <1>14,
       <1>15, <1>16, <1>17, <1>18, <1>19, <1>20, <1>21, <1>22, <1>23, <1>24, <1>25, <1>26, <1>27, <1>28
    DEF Next, Poll, Cancel, Rerun, Feedback

\* The invariant, and with it every part of it, holds for ever.
THEOREM PageInvariance == Spec => []IInv
  <1> QED BY IInvInit, IInvStep, PTL DEF Spec

\* No order of polls and cancel answers leaves a live review on screen that
\* nobody refreshes and no banner disowns.
THEOREM NeverUnwatched == Spec => []WatchedWhileActive
  <1>1. IInv => WatchedWhileActive
    BY DEF IInv
  <1> QED BY <1>1, PageInvariance, PTL

\* A finished review is shown with its findings, wherever the worker's commit
\* falls between the reads of one poll.
THEOREM FindingsWithTheStatus == Spec => []CompletedShowsFindings
  <1>1. IInv => CompletedShowsFindings
    BY DEF IInv
  <1> QED BY <1>1, PageInvariance, PTL

\* The page says "Cancelling..." only of a flagged or finished review.
THEOREM NoFalseCancelling == Spec => []CancellingIsTrue
  <1>1. IInv => CancellingIsTrue
    BY DEF IInv
  <1> QED BY <1>1, PageInvariance, PTL

\* The verdict on screen is the stored one, unless the last the page heard was
\* a failed save, or a save it gave up on ran after the last one it was told of.
THEOREM FeedbackAgrees == Spec => []FeedbackIsShown
  <1>1. IInv => FeedbackIsShown
    BY DEF IInv
  <1> QED BY <1>1, PageInvariance, PTL

\* A finished review on screen is changed by no snapshot: the steps that write
\* it are the two that apply one, which keep it, and those of feedback.
THEOREM EndedStaysOnScreen == Spec => TerminalStays
  <1> DEFINE Kept == [shown' EXCEPT !.verdict = "none"] = [shown EXCEPT !.verdict = "none"]
             Ended == kind = "ready" /\ shown.status \in Terminal /\ kind' = "ready"
  <1>1. IInv /\ [Next]_vars => [Ended => Kept]_vars
    <2> SUFFICES ASSUME IInv, [Next]_vars, Ended PROVE Kept \/ UNCHANGED vars
      OBVIOUS
    <2>1. CASE shown' = shown
      BY <2>1
    <2>2. ASSUME NEW v, ShowVerdict(v) PROVE Kept
      BY <2>2 DEF ShowVerdict, IInv, TypeOK, Snapshots
    <2>3. CASE PollArrives \/ CancelArrives
      BY <2>3, <2>1 DEF PollArrives, CancelArrives, ApplyServerReview
    <2>4. CASE SaveFails
      BY <2>4, <2>2 DEF SaveFails
    <2>5. ASSUME NEW v \in Verdicts, GiveFeedback(v) PROVE Kept
      BY <2>5, <2>2 DEF GiveFeedback
    <2>6. ~Retry
      BY DEF Retry
    <2> QED
      BY <2>1, <2>3, <2>4, <2>5, <2>6
      DEF Next, Poll, Cancel, Rerun, Feedback, ReviewMoves, PollTimer, PollReads, PollFails,
          SessionLost, OpenCancel, ConfirmCancel, CancelLoads, CancelApplies, CancelReadsRest,
          CancelRefused, CancelFails, CancelDropped, CloseDialog, OpenRerun, ConfirmRerun,
          RerunServed, RerunArrives, RerunNoted, SaveStored, SaveArrives, LateSave
  <1> QED BY <1>1, PageInvariance, PTL DEF Spec, TerminalStays

=============================================================================
