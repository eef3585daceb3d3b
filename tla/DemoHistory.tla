----------------------------- MODULE DemoHistory -----------------------------
(***************************************************************************)
(* The public demo: one pull request at one commit, reviewed again by any  *)
(* visitor, with a history that is pruned after every rerun.               *)
(*                                                                         *)
(* A rerun is cut at its statements: the transaction starts (which is what *)
(* reviews.created_at records), reads the current review, supersedes and   *)
(* inserts in one commit, selects what to prune, deletes it.  Other        *)
(* visitors and the workers run between any two.  The seed of a booting    *)
(* container is a rerun that inserts only when it reads no review at all   *)
(* and ends before the prune: a Start, a Load and a Write, or a Die.       *)
(***************************************************************************)
EXTENDS ReviewRows, FiniteSets

CONSTANTS
    Visitors,     \* reruns (or seeds) that may be in flight at once
    Keep,         \* HISTORY_KEEP
    MaxRows,      \* bound: reviews ever inserted
    MaxStarts     \* bound: transactions ever started

ASSUME KeepAssumption == Keep \in Nat \ {0}
ASSUME DemoBounds == MaxRows \in Nat /\ MaxStarts \in Nat

VARIABLES
    rows,         \* the demo's reviews: status and created_at
    starts,       \* transactions started: their order is the clock
    pc,           \* where each request stands
    began,        \* the start of its transaction
    old, saw,     \* the review it replaces and the status it read, 0 for none
    doomed,       \* the reviews its prune selected
    claimed,      \* a review a worker claimed and has not loaded yet
    pruned        \* history: the last row whose own prune went through

request == <<pc, began, old, saw, doomed>>
vars == <<rows, starts, request, claimed, pruned>>

Kept == {i \in DOMAIN rows : rows[i].status # "deleted"}
Finished == {i \in Kept : rows[i].status \notin ActiveStatuses}

Init ==
    /\ rows = <<>>
    /\ starts = 0
    /\ pc = [v \in Visitors |-> "idle"]
    /\ began = [v \in Visitors |-> 0]
    /\ old = [v \in Visitors |-> 0]
    /\ saw = [v \in Visitors |-> "none"]
    /\ doomed = [v \in Visitors |-> {}]
    /\ claimed = 0
    /\ pruned = 0

-----------------------------------------------------------------------------
(* The worker.  Nobody can cancel a demo review.                           *)

Work(i) ==
    /\ rows[i].status \in ActiveStatuses
    /\ \E to \in WorkerMove[rows[i].status] \ {"cancelled"} :
          /\ rows' = SetStatus(rows, i, to)
          /\ claimed' = IF to = "running" THEN i ELSE claimed
    /\ UNCHANGED <<starts, request, pruned>>

\* run_claimed_job's db.get of the review it claimed.
LoadClaimed ==
    /\ claimed # 0
    /\ claimed' = 0
    /\ UNCHANGED <<rows, starts, request, pruned>>

-----------------------------------------------------------------------------
(* One rerun.                                                              *)

\* What "current" means: status first, then the latest created_at.
Rank(status) ==
    CASE status \in ActiveStatuses -> 0
      [] status = "completed" -> 1
      [] status \in {"failed", "cancelled"} -> 2
      [] OTHER -> 3

Before(i, k) ==
    \/ Rank(rows[i].status) < Rank(rows[k].status)
    \/ Rank(rows[i].status) = Rank(rows[k].status) /\ rows[i].at >= rows[k].at

\* current_review, as a set: empty when there is none.
Current == {i \in Kept : \A k \in Kept : Before(i, k)}

Forget(v) ==
    /\ pc' = [pc EXCEPT ![v] = "idle"]
    /\ began' = [began EXCEPT ![v] = 0]
    /\ old' = [old EXCEPT ![v] = 0]
    /\ saw' = [saw EXCEPT ![v] = "none"]
    /\ doomed' = [doomed EXCEPT ![v] = {}]

\* demo_context's first query starts the transaction.
Start(v) ==
    /\ pc[v] = "idle" /\ starts < MaxStarts
    /\ starts' = starts + 1
    /\ began' = [began EXCEPT ![v] = starts + 1]
    /\ pc' = [pc EXCEPT ![v] = "load"]
    /\ UNCHANGED <<rows, old, saw, doomed, claimed, pruned>>

\* What a rerun remembers of the review it read.
Replaces(v, id, status) ==
    /\ pc' = [pc EXCEPT ![v] = "write"]
    /\ old' = [old EXCEPT ![v] = id]
    /\ saw' = [saw EXCEPT ![v] = status]
    /\ UNCHANGED <<began, doomed>>

\* rerun refuses while a review is live.
Load(v) ==
    /\ pc[v] = "load"
    /\ \/ Current = {} /\ Replaces(v, 0, "none")
       \/ \E i \in Current :
             IF rows[i].status \in ActiveStatuses
             THEN Forget(v) ELSE Replaces(v, i, rows[i].status)
    /\ UNCHANGED <<rows, starts, claimed, pruned>>

\* The supersede ran and matched no row: rerun's transaction was rolled back
\* and the insert starts another.
Lost(v) == saw[v] = "completed" /\ ~Supersedes(rows, old[v], saw[v])

\* supersede_completed, then insert_review behind the live index.
Write(v) ==
    /\ pc[v] = "write"
    /\ Len(rows) < MaxRows
    /\ LET freed == IF old[v] = 0 THEN rows ELSE AfterSupersede(rows, old[v], saw[v])
           at == IF Lost(v) THEN starts + 1 ELSE began[v]
       IN IF LiveRows(freed) # {}
          THEN Forget(v) /\ UNCHANGED <<rows, starts>>
          ELSE /\ rows' = Append(freed, [status |-> "queued", at |-> at])
               /\ starts' = IF Lost(v) THEN at ELSE starts
               /\ pc' = [pc EXCEPT ![v] = "select"]
               /\ began' = [began EXCEPT ![v] = 0]
               /\ old' = [old EXCEPT ![v] = Len(rows) + 1]
               /\ saw' = [saw EXCEPT ![v] = "none"]
               /\ UNCHANGED doomed
    /\ UNCHANGED <<claimed, pruned>>

Newer(i, among) == Cardinality({k \in among : rows[k].at > rows[i].at})

\* Mutants of the SELECT: one kept too few, one too many.
PastKeep_OneFewer == {i \in Finished : Newer(i, Finished) >= Keep - 1}
PastKeep_OneMore == {i \in Finished : Newer(i, Finished) > Keep}

\* The finished reviews beyond the newest Keep.
PastKeep == {i \in Finished : Newer(i, Finished) >= Keep}

\* prune's SELECT.
PruneSelect(v) ==
    /\ pc[v] = "select"
    /\ pc' = [pc EXCEPT ![v] = "delete"]
    /\ doomed' = [doomed EXCEPT ![v] = PastKeep]
    /\ UNCHANGED <<rows, starts, began, old, saw, claimed, pruned>>

\* prune's DELETE, by id.
PruneDelete(v) ==
    /\ pc[v] = "delete"
    /\ rows' = [i \in DOMAIN rows |->
                   IF i \in doomed[v] THEN [status |-> "deleted", at |-> 0] ELSE rows[i]]
    /\ pruned' = IF old[v] > pruned THEN old[v] ELSE pruned
    /\ Forget(v)
    /\ UNCHANGED <<starts, claimed>>

\* The API process dies in the middle of a rerun.
Die(v) ==
    /\ pc[v] # "idle"
    /\ Forget(v)
    /\ UNCHANGED <<rows, starts, claimed, pruned>>

Next ==
    \/ LoadClaimed
    \/ \E i \in DOMAIN rows : Work(i)
    \/ \E v \in Visitors :
          Start(v) \/ Load(v) \/ Write(v) \/ PruneSelect(v) \/ PruneDelete(v) \/ Die(v)

Spec == Init /\ [][Next]_vars

-----------------------------------------------------------------------------
Row == [status : RowStatuses, at : Nat]

TypeOK ==
    /\ rows \in Seq(Row)
    /\ starts \in Nat
    /\ pc \in [Visitors -> {"idle", "load", "write", "select", "delete"}]
    /\ began \in [Visitors -> Nat]
    /\ old \in [Visitors -> 0..Len(rows)]
    /\ saw \in [Visitors -> TerminalStatuses \cup {"none"}]
    /\ doomed \in [Visitors -> SUBSET DOMAIN rows]
    /\ claimed \in 0..Len(rows) /\ pruned \in 0..Len(rows)

\* At most one demo review is live however many visitors press at once
\* (service.py:26-29).
OneLiveDemo == \A i, k \in LiveRows(rows) : i = k

\* Once seeded the page always has a review to show: overlapping prunes, each
\* with its own idea of the newest, never delete the last one between them.
PageNeverEmpty == rows # <<>> => Kept # {}

\* What makes it so: the newest review of all is kept, and a review selected
\* for deletion is finished and has a newer one that is not deleted yet.
NewestIsKept ==
    rows # <<>> => \E m \in Kept : \A k \in Kept : rows[k].at <= rows[m].at

DoomedAreOld ==
    \A v \in Visitors : \A i \in doomed[v] :
        /\ rows[i].status \notin ActiveStatuses
        /\ i \in Kept => \E k \in Kept : rows[k].at > rows[i].at

\* When the prune that belongs to the last row inserted went through, at most
\* Keep finished reviews and the running one are left (service.py:26-29), whatever
\* earlier prunes did or failed to do.
HistoryBounded ==
    (pruned = Len(rows) /\ rows # <<>>) => Cardinality(Kept) <= Keep + 1

\* What makes it so: no two reviews have one created_at, for no two transactions
\* start together, and the prune of the last row selects all but enough.
Writing(v) == pc[v] \in {"load", "write"}

StartsDiffer ==
    /\ \A i \in Kept : rows[i].at <= starts
    /\ \A i, k \in Kept : rows[i].at = rows[k].at => i = k
    /\ \A v \in Visitors : began[v] <= starts
    /\ \A v \in Visitors : Writing(v) => \A i \in Kept : rows[i].at # began[v]
    /\ \A u, v \in Visitors : Writing(u) /\ Writing(v) /\ began[u] = began[v] => u = v

LastPruneIsEnough ==
    \A v \in Visitors :
        pc[v] = "delete" /\ old[v] = Len(rows) => Cardinality(Kept \ doomed[v]) <= Keep + 1

\* The inductive invariant behind the theorems of DemoHistory_proofs.
IInv ==
    /\ TypeOK /\ OneLiveDemo /\ NewestIsKept /\ DoomedAreOld
    /\ StartsDiffer /\ LastPruneIsEnough /\ HistoryBounded

Spared(i) == rows[i].status \in ActiveStatuses => rows'[i].status # "deleted"

\* service.py:172-175: a prune never deletes a review out from under the
\* worker that owns it, even one selected before and deleted after.
PruneSparesLive ==
    [][\A i \in DOMAIN rows : Spared(i)]_vars

\* service.py:70: "superseded: never current, it has been replaced by definition".
SupersededNeverCurrent == \A i \in Current : rows[i].status # "superseded"

\* runner.py:394: "FK guarantees it; reviews are never hard-deleted", of the review
\* a worker claimed and is about to load.
ClaimedReviewExists == claimed # 0 => rows[claimed].status # "deleted"
=============================================================================
