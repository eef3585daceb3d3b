---------------------------- MODULE ReviewCreation ----------------------------
(***************************************************************************)
(* Creating and rerunning reviews of one target (a pull request, or a      *)
(* repository's default branch) by concurrent API requests, while GitHub   *)
(* moves the head, workers run what was queued, and the live index of the  *)
(* reviews table arbitrates.                                               *)
(*                                                                         *)
(* A request is cut where its transactions and its GitHub call are: load   *)
(* the review, fetch the head, then supersede and insert in one commit.    *)
(* The row locks and the unique index serialize the last of these, so it   *)
(* is one step.                                                            *)
(***************************************************************************)
EXTENDS ReviewRows

CONSTANTS
    Users,
    Requests,     \* API requests that may be in flight at once
    UserOf,       \* the signed-in user of a request
    Shas,         \* commits the head of the target can be at
    NoSha,        \* the request has not been told a commit yet
    MaxReviews    \* bound: rows ever inserted

ASSUME RequestsAssumption == UserOf \in [Requests -> Users]
ASSUME ShaAssumption == NoSha \notin Shas
ASSUME ReviewsAssumption == MaxReviews \in Nat

VARIABLES
    rows,         \* the reviews table
    pc,           \* where each request stands
    old,          \* the review a rerun replaces, 0 for a create
    saw,          \* its status when the request loaded it
    sha           \* the head commit GitHub told the request

creationVars == <<rows, pc, old, saw, sha>>

CreationInit ==
    /\ rows = <<>>
    /\ pc = [c \in Requests |-> "idle"]
    /\ old = [c \in Requests |-> 0]
    /\ saw = [c \in Requests |-> "completed"]
    /\ sha = [c \in Requests |-> NoSha]

\* The worker, its sweep or a cancel takes a live row on.
Work(i) ==
    /\ rows[i].status \in ActiveStatuses
    /\ \E to \in WorkerMove[rows[i].status] : rows' = SetStatus(rows, i, to)
    /\ UNCHANGED <<pc, old, saw, sha>>

\* uq_reviews_pr_sha_live and uq_reviews_repo_sha_live: one live review per
\* user and target at one commit.
Conflict(table, user, commit) ==
    \E i \in LiveRows(table) : table[i].user = user /\ table[i].sha = commit

-----------------------------------------------------------------------------
(* One request.  Between its steps anything may happen to the rows it read. *)

\* A request begins: a create, or a rerun of a review it loaded.
Begin(c, review, status) ==
    /\ pc[c] = "idle"
    /\ pc' = [pc EXCEPT ![c] = "fetch"]
    /\ old' = [old EXCEPT ![c] = review]
    /\ saw' = [saw EXCEPT ![c] = status]
    /\ UNCHANGED <<rows, sha>>

BeginCreate(c) == Begin(c, 0, "completed")

\* A rerun loads a review of its own user and goes on only with a finished one.
BeginRerun(c) ==
    \E i \in DOMAIN rows :
        /\ rows[i].user = UserOf[c]
        /\ rows[i].status \in TerminalStatuses
        /\ Begin(c, i, rows[i].status)

\* The request answers; nothing of it is left.
Answered(c) ==
    /\ pc' = [pc EXCEPT ![c] = "idle"]
    /\ old' = [old EXCEPT ![c] = 0]
    /\ saw' = [saw EXCEPT ![c] = "completed"]
    /\ sha' = [sha EXCEPT ![c] = NoSha]

\* Mutant: the rerun supersedes before it asks GitHub, whose refusal commits.
Fetch_SupersedesFirst(c) ==
    /\ pc[c] = "fetch"
    /\ rows' = IF old[c] # 0 THEN AfterSupersede(rows, old[c], saw[c]) ELSE rows
    /\ \/ /\ \E head \in Shas : sha' = [sha EXCEPT ![c] = head]
          /\ pc' = [pc EXCEPT ![c] = "write"]
          /\ UNCHANGED <<old, saw>>
       \/ Answered(c)

\* refetch_open_pull or _resolve_default_branch_head: the head is wherever
\* pushes have moved it.  A closed pull request, an empty repository or a
\* failed call is refused, after a commit of the refreshed target alone.
Fetch(c) ==
    /\ pc[c] = "fetch"
    /\ \/ /\ \E head \in Shas : sha' = [sha EXCEPT ![c] = head]
          /\ pc' = [pc EXCEPT ![c] = "write"]
          /\ UNCHANGED <<old, saw>>
       \/ Answered(c)
    /\ UNCHANGED rows

\* The API process dies between two steps of a request.
Die(c) ==
    /\ pc[c] = "write"
    /\ Answered(c)
    /\ UNCHANGED rows

Fresh(c) == [status |-> "queued", user |-> UserOf[c], sha |-> sha[c]]

\* The rows as the transaction of a rerun sees them after its supersede.  One
\* that found the row moved rolls back and goes on to the insert.
Freed(c) == IF old[c] # 0 THEN AfterSupersede(rows, old[c], saw[c]) ELSE rows

\* Mutant: no index arbitrates.
Write_NoIndex(c) ==
    /\ pc[c] = "write"
    /\ Len(rows) < MaxReviews
    /\ rows' = Append(Freed(c), Fresh(c))
    /\ Answered(c)

\* supersede_completed, then _insert_queued, in one commit.  An index conflict
\* rolls both back, and the request answers 409 with the review that won, if
\* it is still live.
Write(c) ==
    /\ pc[c] = "write"
    /\ Len(rows) < MaxReviews
    /\ rows' = IF Conflict(Freed(c), UserOf[c], sha[c])
               THEN rows ELSE Append(Freed(c), Fresh(c))
    /\ Answered(c)

CreationNext ==
    \/ \E i \in DOMAIN rows : Work(i)
    \/ \E c \in Requests :
          BeginCreate(c) \/ BeginRerun(c) \/ Fetch(c) \/ Die(c) \/ Write(c)

CreationSpec == CreationInit /\ [][CreationNext]_creationVars

-----------------------------------------------------------------------------
(* Properties.                                                             *)

Rows == [status : RowStatuses, user : Users, sha : Shas]

CreationTypeOK ==
    /\ rows \in Seq(Rows) /\ Len(rows) <= MaxReviews
    /\ pc \in [Requests -> {"idle", "fetch", "write"}]
    /\ old \in [Requests -> 0..MaxReviews]
    /\ saw \in [Requests -> TerminalStatuses]
    /\ sha \in [Requests -> Shas \cup {NoSha}]

\* However creates, reruns, pushes and workers interleave, a user has at most
\* one live review of the target at one commit (models.py:218-238): a rerun
\* frees the commit only for its own replacement.
OneLivePerSnapshot ==
    \A i, k \in DOMAIN rows :
        (/\ i # k /\ rows[i].user = rows[k].user /\ rows[i].sha = rows[k].sha
         /\ i \in LiveRows(rows))
        => k \notin LiveRows(rows)

\* What a rerun holds across its GitHub call stays good: the review it loaded
\* is still there and its own user's, and it inserts at the commit it was told.
ReadsHold ==
    \A c \in Requests :
        /\ old[c] # 0 => old[c] \in DOMAIN rows /\ rows[old[c]].user = UserOf[c]
        /\ pc[c] = "write" => sha[c] \in Shas

\* The inductive invariant behind the theorems of UserReviews_proofs.
CreationIInv == CreationTypeOK /\ OneLivePerSnapshot /\ ReadsHold

\* A review is superseded only in the commit that inserts its replacement for
\* the same user: no refusal, conflict, closed pull request or crash leaves it
\* replaced by nothing (review_service.py:297-299, 323-325).
Replaced(i) ==
    (rows[i].status # "superseded" /\ rows'[i].status = "superseded") =>
        /\ Len(rows') = Len(rows) + 1
        /\ rows'[Len(rows')].user = rows[i].user
        /\ rows'[Len(rows')].status = "queued"

\* How a review ended stays on record: failed, cancelled and superseded rows
\* are never rewritten, a completed one only superseded (review_service.py:289-292),
\* even by a request that loaded the row before it was replaced.
EndKept(i) ==
    rows[i].status \in TerminalStatuses =>
        \/ rows'[i].status = rows[i].status
        \/ rows[i].status = "completed" /\ rows'[i].status = "superseded"

\* review_service.py:285-287: "of two concurrent re-runs only one wins the row
\* and the loser's create attempt hits the index and surfaces as
\* ReviewAlreadyExists": a rerun that finds its review already superseded
\* inserts nothing.
Loses(c) ==
    /\ pc[c] = "write" /\ pc'[c] = "idle"
    /\ old[c] # 0 /\ saw[c] = "completed" /\ rows[old[c]].status # "completed"

\* Replaced and EndKept of every row, in every step.
ReplacedInOneCommit == [][\A i \in DOMAIN rows : Replaced(i)]_creationVars
EndStaysOnRecord == [][\A i \in DOMAIN rows : EndKept(i)]_creationVars

\* Loses as a property of the steps; the head, or the first rerun's end, may
\* have moved on, and the code then inserts.
LoserIsRefused == [][\A c \in Requests : Loses(c) => Len(rows') = Len(rows)]_creationVars
=============================================================================
