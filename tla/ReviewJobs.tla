----------------------------- MODULE ReviewJobs -----------------------------
(***************************************************************************)
(* The review job queue: the rows of review_jobs and reviews in Postgres,  *)
(* the Redis doorbell, the API's create and cancel requests and the worker *)
(* processes that claim, run, heartbeat, sweep and finish jobs.            *)
(*                                                                         *)
(* Postgres is the truth and Redis only a doorbell: a ring may be lost or  *)
(* delivered twice.  Every action is one database transaction (or one      *)
(* Redis call), so every interleaving of two workers, a request and the    *)
(* clock between two transactions of the code is a behaviour here.         *)
(*                                                                         *)
(* Clock readings are kept as the two comparisons the code makes on them:  *)
(*   due[j]    run_after <= now                                            *)
(*   stale[j]  heartbeat_at < now - STALE_AFTER_S                          *)
(* and time passing is BecomesDue and HeartbeatAges.                       *)
(***************************************************************************)
EXTENDS Naturals, FiniteSets

CONSTANTS
    Workers,      \* worker processes (locked_by is hostname-pid)
    Jobs,         \* a job together with the one review it runs
    NoWorker,     \* locked_by IS NULL
    NoJob,        \* the worker holds no job id
    MaxAttempts,  \* review_jobs.max_attempts
    Stages,       \* stages of work between the entry and the last checkpoint
    MaxRings      \* bound: copies of one job id in the Redis list

ASSUME NoWorkerAssumption == NoWorker \notin Workers
ASSUME NoJobAssumption == NoJob \notin Jobs
ASSUME AttemptsAssumption == MaxAttempts \in Nat \ {0}
ASSUME BoundsAssumption == Stages \in Nat /\ MaxRings \in Nat

VARIABLES
    status, attempts, due, cancel, owner, stale,   \* review_jobs
    review, findings,                              \* reviews, findings
    rings,                                         \* the Redis list
    owed, asking,                                  \* API requests in flight
    pc, cur, att, stage, beat                      \* worker processes

jobRows == <<status, attempts, due, cancel, owner, stale>>
reviewRows == <<review, findings>>
requests == <<owed, asking>>
workerVars == <<pc, cur, att, stage, beat>>
vars == <<jobRows, reviewRows, rings, requests, workerVars>>

Terminal == {"completed", "failed", "cancelled"}
Status == {"absent", "queued", "running"} \cup Terminal

\* Where a worker process stands between two of its transactions.
Holding == {"check", "cancel", "work", "persist", "retry"}
WorkerPC == {"loop", "ring", "wait", "poll", "claim", "refresh"} \cup Holding

Init ==
    /\ status = [j \in Jobs |-> "absent"]
    /\ attempts = [j \in Jobs |-> 0]
    /\ due = [j \in Jobs |-> FALSE]
    /\ cancel = [j \in Jobs |-> FALSE]
    /\ owner = [j \in Jobs |-> NoWorker]
    /\ stale = [j \in Jobs |-> FALSE]
    /\ review = [j \in Jobs |-> "absent"]
    /\ findings = [j \in Jobs |-> {}]
    /\ rings = [j \in Jobs |-> 0]
    /\ owed = {}
    /\ asking = {}
    /\ pc = [w \in Workers |-> "loop"]
    /\ cur = [w \in Workers |-> NoJob]
    /\ att = [w \in Workers |-> 0]
    /\ stage = [w \in Workers |-> 0]
    /\ beat = [w \in Workers |-> FALSE]

-----------------------------------------------------------------------------
(* The clock.                                                              *)

BecomesDue(j) ==
    /\ status[j] = "queued" /\ ~due[j]
    /\ due' = [due EXCEPT ![j] = TRUE]
    /\ UNCHANGED <<status, attempts, cancel, owner, stale>>
    /\ UNCHANGED <<reviewRows, rings, requests, workerVars>>

\* STALE_AFTER_S passes without a beat reaching the row: the worker died, its
\* process is suspended, or its beats cannot reach Postgres.
HeartbeatAges(j) ==
    /\ status[j] = "running" /\ ~stale[j]
    /\ stale' = [stale EXCEPT ![j] = TRUE]
    /\ UNCHANGED <<status, attempts, due, cancel, owner>>
    /\ UNCHANGED <<reviewRows, rings, requests, workerVars>>

-----------------------------------------------------------------------------
(* The API process.                                                        *)

\* One commit inserts the review and its job; the doorbell is rung later.
Create(j) ==
    /\ status[j] = "absent"
    /\ status' = [status EXCEPT ![j] = "queued"]
    /\ due' = [due EXCEPT ![j] = TRUE]
    /\ review' = [review EXCEPT ![j] = "queued"]
    /\ owed' = owed \cup {j}
    /\ UNCHANGED <<attempts, cancel, owner, stale, findings, rings, asking>>
    /\ UNCHANGED workerVars

\* queue.notify never raises: the push lands, or Redis is down or the API
\* process dies first, and the ring is lost.  A push at the bound is lost too.
Ring(j) == [rings EXCEPT ![j] = IF @ < MaxRings THEN @ + 1 ELSE @]

Notify(j) ==
    /\ j \in owed
    /\ owed' = owed \ {j}
    /\ rings' \in {Ring(j), rings}
    /\ UNCHANGED <<jobRows, reviewRows, asking, workerVars>>

\* cancel_review's first read: a review already finished is refused.
CancelLoad(j) ==
    /\ review[j] \in {"queued", "running"}
    /\ asking' = asking \cup {j}
    /\ UNCHANGED <<jobRows, reviewRows, rings, owed, workerVars>>

\* Mutant: the review is marked cancelled whatever state the flagged job was in.
CancelApply_AnyLive(j) ==
    /\ j \in asking
    /\ asking' = asking \ {j}
    /\ cancel' = [cancel EXCEPT ![j] = @ \/ status[j] \in {"queued", "running"}]
    /\ status' = [status EXCEPT ![j] = IF @ = "queued" THEN "cancelled" ELSE @]
    /\ review' = [review EXCEPT ![j] = "cancelled"]
    /\ UNCHANGED <<attempts, due, owner, stale, findings, rings, owed>>
    /\ UNCHANGED workerVars

\* cancel_review's transaction, possibly long after that read: flag a live
\* job, and finalize it when the flagged row was still queued.
CancelApply(j) ==
    /\ j \in asking
    /\ asking' = asking \ {j}
    /\ cancel' = [cancel EXCEPT ![j] = @ \/ status[j] \in {"queued", "running"}]
    /\ IF status[j] = "queued"
       THEN /\ status' = [status EXCEPT ![j] = "cancelled"]
            /\ review' = [review EXCEPT ![j] = "cancelled"]
       ELSE UNCHANGED <<status, review>>
    /\ UNCHANGED <<attempts, due, owner, stale, findings, rings, owed>>
    /\ UNCHANGED workerVars

-----------------------------------------------------------------------------
(* The worker's main loop: sweep, wait for the doorbell, poll, claim.      *)

GoTo(w, to) == pc' = [pc EXCEPT ![w] = to]

\* Mutant: the sweep forgets the rows that have no attempt left.
SweptFailed_Never == {}

\* Mutant: the sweep takes a running row whose worker still beats.
SweptRequeued_Eager == {j \in Jobs : status[j] = "running" /\ attempts[j] < MaxAttempts}

SweptCancelled == {j \in Jobs : status[j] = "queued" /\ cancel[j]}
SweptRequeued ==
    {j \in Jobs : status[j] = "running" /\ stale[j] /\ attempts[j] < MaxAttempts}
SweptFailed ==
    {j \in Jobs : status[j] = "running" /\ stale[j] /\ attempts[j] >= MaxAttempts}

SweptStatus(j) ==
    CASE j \in SweptCancelled -> "cancelled"
      [] j \in SweptRequeued -> "queued"
      [] j \in SweptFailed -> "failed"

Swept == SweptCancelled \cup SweptRequeued \cup SweptFailed

\* One transaction over every row: cancel, requeue, fail, commit.
Sweep(w) ==
    /\ pc[w] = "loop"
    /\ status' = [j \in Jobs |-> IF j \in Swept THEN SweptStatus(j) ELSE status[j]]
    /\ review' = [j \in Jobs |-> IF j \in Swept THEN SweptStatus(j) ELSE review[j]]
    /\ due' = [j \in Jobs |-> due[j] \/ j \in SweptRequeued]
    /\ owner' = [j \in Jobs |-> IF j \in SweptRequeued THEN NoWorker ELSE owner[j]]
    /\ stale' = [j \in Jobs |-> stale[j] /\ j \notin SweptRequeued]
    /\ GoTo(w, "ring")
    /\ UNCHANGED <<attempts, cancel, findings, rings, requests>>
    /\ UNCHANGED <<cur, att, stage, beat>>

\* SWEEP_INTERVAL_S has not passed, or the sweep raised and rolled back.
SkipSweep(w) ==
    /\ pc[w] = "loop"
    /\ GoTo(w, "wait")
    /\ UNCHANGED <<jobRows, reviewRows, rings, requests, cur, att, stage, beat>>

\* After the sweep's commit, ring for every due job; any of the rings may be lost.
SweepRing(w) ==
    /\ pc[w] = "ring"
    /\ \E heard \in SUBSET {j \in Jobs : status[j] = "queued" /\ due[j]} :
          rings' = [j \in Jobs |-> IF j \in heard THEN Ring(j)[j] ELSE rings[j]]
    /\ GoTo(w, "wait")
    /\ UNCHANGED <<jobRows, reviewRows, requests, cur, att, stage, beat>>

\* BRPOP returns a job id; which one is not decided here.
Pop(w) ==
    /\ pc[w] = "wait"
    /\ \E j \in Jobs :
          /\ rings[j] > 0
          /\ rings' = [rings EXCEPT ![j] = @ - 1]
          /\ cur' = [cur EXCEPT ![w] = j]
    /\ GoTo(w, "claim")
    /\ UNCHANGED <<jobRows, reviewRows, requests, att, stage, beat>>

\* BRPOP timed out, or Redis cannot be reached.
PopNone(w) ==
    /\ pc[w] = "wait"
    /\ GoTo(w, "poll")
    /\ UNCHANGED <<jobRows, reviewRows, rings, requests, cur, att, stage, beat>>

\* Mutant: only the doorbell dispatches.
Poll_DoorbellOnly(w) ==
    /\ pc[w] = "poll"
    /\ GoTo(w, "loop")
    /\ UNCHANGED <<jobRows, reviewRows, rings, requests, cur, att, stage, beat>>

\* next_due_job_id: some due queued job, or back to the top of the loop.
Poll(w) ==
    /\ pc[w] = "poll"
    /\ LET dueJobs == {j \in Jobs : status[j] = "queued" /\ due[j]} IN
       IF dueJobs = {}
       THEN GoTo(w, "loop") /\ UNCHANGED cur
       ELSE /\ \E j \in dueJobs : cur' = [cur EXCEPT ![w] = j]
            /\ GoTo(w, "claim")
    /\ UNCHANGED <<jobRows, reviewRows, rings, requests, att, stage, beat>>

\* The poll's query raised: "due_poll_failed", next iteration.
PollFails(w) ==
    /\ pc[w] = "poll"
    /\ GoTo(w, "loop")
    /\ UNCHANGED <<jobRows, reviewRows, rings, requests, cur, att, stage, beat>>

\* The worker lets go of its job and returns to the top of the loop; the
\* heartbeat thread is stopped and joined on the way.
Release(w) ==
    /\ GoTo(w, "loop")
    /\ cur' = [cur EXCEPT ![w] = NoJob]
    /\ att' = [att EXCEPT ![w] = 0]
    /\ stage' = [stage EXCEPT ![w] = 0]
    /\ beat' = [beat EXCEPT ![w] = FALSE]

\* Mutant: the claim does not count itself.
Claim_Uncounted(w) ==
    /\ pc[w] = "claim"
    /\ LET j == cur[w] IN
       IF status[j] = "queued" /\ due[j]
       THEN /\ status' = [status EXCEPT ![j] = "running"]
            /\ owner' = [owner EXCEPT ![j] = w]
            /\ stale' = [stale EXCEPT ![j] = FALSE]
            /\ review' = [review EXCEPT ![j] = "running"]
            /\ GoTo(w, "refresh")
            /\ UNCHANGED <<attempts, due, cancel, findings, cur, att, stage, beat>>
       ELSE Release(w) /\ UNCHANGED <<jobRows, reviewRows>>
    /\ UNCHANGED <<rings, requests>>

\* claim_job's guarded UPDATE and commit.
Claim(w) ==
    /\ pc[w] = "claim"
    /\ LET j == cur[w] IN
       IF status[j] = "queued" /\ due[j]
       THEN /\ status' = [status EXCEPT ![j] = "running"]
            /\ attempts' = [attempts EXCEPT ![j] = @ + 1]
            /\ owner' = [owner EXCEPT ![j] = w]
            /\ stale' = [stale EXCEPT ![j] = FALSE]
            /\ review' = [review EXCEPT ![j] = "running"]
            /\ GoTo(w, "refresh")
            /\ UNCHANGED <<due, cancel, findings, cur, att, stage, beat>>
       ELSE Release(w) /\ UNCHANGED <<jobRows, reviewRows>>
    /\ UNCHANGED <<rings, requests>>

\* claim_job reads the row back after its commit, then the heartbeat starts.
Refresh(w) ==
    /\ pc[w] = "refresh"
    /\ beat' = [beat EXCEPT ![w] = TRUE]
    /\ GoTo(w, "check")
    /\ UNCHANGED <<jobRows, reviewRows, rings, requests, cur, att, stage>>

-----------------------------------------------------------------------------
(* Running a claimed job.                                                  *)

\* Mutant: the fence does not ask who runs the job.
Owns_AnyRunning(w) == status[cur[w]] = "running"

\* The ownership fence in the WHERE clause of every transition of a runner.
Owns(w) == status[cur[w]] = "running" /\ owner[cur[w]] = w

\* _checkpoint's read.  The last checkpoint stands before the persist.
Checkpoint(w) ==
    /\ pc[w] = "check"
    /\ IF ~Owns(w) THEN Release(w)
       ELSE /\ GoTo(w, CASE cancel[cur[w]] -> "cancel"
                         [] ~cancel[cur[w]] /\ stage[w] < Stages -> "work"
                         [] OTHER -> "persist")
            /\ UNCHANGED <<cur, att, stage, beat>>
    /\ UNCHANGED <<jobRows, reviewRows, rings, requests>>

\* A stage (GitHub calls, extraction, analyzers, an AI call) succeeds.
WorkDone(w) ==
    /\ pc[w] = "work"
    /\ stage' = [stage EXCEPT ![w] = @ + 1]
    /\ GoTo(w, "check")
    /\ UNCHANGED <<jobRows, reviewRows, rings, requests, cur, att, beat>>

\* _transition_owned: job and review move together, only behind the fence.
TransitionOwned(w, to) ==
    /\ IF Owns(w)
       THEN /\ status' = [status EXCEPT ![cur[w]] = to]
            /\ review' = [review EXCEPT ![cur[w]] = to]
            /\ owner' = [owner EXCEPT ![cur[w]] = IF to = "queued" THEN NoWorker ELSE @]
            /\ stale' = [stale EXCEPT ![cur[w]] = @ /\ to # "queued"]
            /\ due' = [due EXCEPT ![cur[w]] = @ /\ to # "queued"]
            /\ cancel' = [cancel EXCEPT ![cur[w]] = @ \/ to = "cancelled"]
       ELSE UNCHANGED <<status, review, owner, stale, due, cancel>>
    /\ Release(w)
    /\ UNCHANGED <<attempts, findings, rings, requests>>

CancelJob(w) == pc[w] = "cancel" /\ TransitionOwned(w, "cancelled")

\* A permanent error: no token, no such commit, a bad key, a tree too large.
FailJob(w) == pc[w] = "work" /\ TransitionOwned(w, "failed")

\* Any other exception, the database's own included: the rollback expires the job,
\* and its attempts are read again, by a statement of its own.
Reread(w) ==
    /\ pc[w] \in Holding \ {"retry"}
    /\ att' = [att EXCEPT ![w] = attempts[cur[w]]]
    /\ GoTo(w, "retry")
    /\ UNCHANGED <<jobRows, reviewRows, rings, requests, cur, stage, beat>>

\* Requeue with a backoff, or fail once these attempts are used up.
RetryOrFail(w) ==
    /\ pc[w] = "retry"
    /\ TransitionOwned(w, IF att[w] >= MaxAttempts THEN "failed" ELSE "queued")

\* Mutants of the persist: findings outside the gated transaction; a gate that
\* does not look at the cancel flag.
Persist_FindingsFirst(w) ==
    /\ pc[w] = "persist"
    /\ LET j == cur[w] IN
       /\ findings' = [findings EXCEPT ![j] = @ \cup {w}]
       /\ IF Owns(w) /\ ~cancel[j]
          THEN /\ status' = [status EXCEPT ![j] = "completed"]
               /\ review' = [review EXCEPT ![j] = "completed"]
          ELSE UNCHANGED <<status, review>>
    /\ Release(w)
    /\ UNCHANGED <<attempts, due, cancel, owner, stale, rings, requests>>
Persist_CancelIgnored(w) ==
    /\ pc[w] = "persist"
    /\ LET j == cur[w] IN
       IF Owns(w)
       THEN /\ status' = [status EXCEPT ![j] = "completed"]
            /\ review' = [review EXCEPT ![j] = "completed"]
            /\ findings' = [findings EXCEPT ![j] = @ \cup {w}]
       ELSE UNCHANGED <<status, review, findings>>
    /\ Release(w)
    /\ UNCHANGED <<attempts, due, cancel, owner, stale, rings, requests>>

\* _persist_success: the findings and both rows in one commit, behind the
\* fence and the cancel flag; otherwise everything rolls back.
Persist(w) ==
    /\ pc[w] = "persist"
    /\ LET j == cur[w] IN
       IF Owns(w) /\ ~cancel[j]
       THEN /\ status' = [status EXCEPT ![j] = "completed"]
            /\ review' = [review EXCEPT ![j] = "completed"]
            /\ findings' = [findings EXCEPT ![j] = @ \cup {w}]
       ELSE UNCHANGED <<status, review, findings>>
    /\ Release(w)
    /\ UNCHANGED <<attempts, due, cancel, owner, stale, rings, requests>>

\* The runner's own error handling raised: the row is left as it is.
JobCrashed(w) ==
    /\ pc[w] \in Holding
    /\ Release(w)
    /\ UNCHANGED <<jobRows, reviewRows, rings, requests>>

\* The process dies anywhere and is started again by start.sh.
Crash(w) ==
    /\ pc[w] # "loop"
    /\ Release(w)
    /\ UNCHANGED <<jobRows, reviewRows, rings, requests>>

\* One tick of the heartbeat thread: beat, or stop for good when the row is
\* no longer this worker's.
Heartbeat(w) ==
    /\ beat[w]
    /\ IF Owns(w)
       THEN stale' = [stale EXCEPT ![cur[w]] = FALSE] /\ UNCHANGED beat
       ELSE beat' = [beat EXCEPT ![w] = FALSE] /\ UNCHANGED stale
    /\ UNCHANGED <<status, attempts, due, cancel, owner>>
    /\ UNCHANGED <<reviewRows, rings, requests, pc, cur, att, stage>>

-----------------------------------------------------------------------------
Clock(j) == BecomesDue(j) \/ HeartbeatAges(j)

Api(j) == Create(j) \/ Notify(j) \/ CancelLoad(j) \/ CancelApply(j)

\* The steps a worker process takes by itself when nothing fails.
Progress(w) ==
    \/ Sweep(w) \/ SkipSweep(w) \/ SweepRing(w) \/ Pop(w) \/ PopNone(w) \/ Poll(w)
    \/ Claim(w) \/ Refresh(w)
    \/ Checkpoint(w) \/ WorkDone(w) \/ CancelJob(w) \/ FailJob(w)
    \/ Reread(w) \/ RetryOrFail(w) \/ Persist(w)

Fault(w) == PollFails(w) \/ JobCrashed(w) \/ Crash(w)

Next ==
    \/ \E j \in Jobs : Clock(j) \/ Api(j)
    \/ \E w \in Workers : Progress(w) \/ Fault(w) \/ Heartbeat(w)

Spec == Init /\ [][Next]_vars

-----------------------------------------------------------------------------
(* Fairness.  A worker process keeps taking steps (its calls to GitHub, the *)
(* analyzers and the AI provider all carry timeouts), sweeps again and      *)
(* again, a backoff runs out, and a row nobody beats for goes stale.        *)
(* Nothing is assumed of Redis, of the API's rings, of the heartbeats or of *)
(* how a stage ends.  Faults stop at some point.                            *)

Beating(w, j) == beat[w] /\ cur[w] = j /\ owner[j] = w

Abandoned(j) == HeartbeatAges(j) /\ \A w \in Workers : ~Beating(w, j)

Fairness ==
    /\ \A j \in Jobs : WF_vars(BecomesDue(j)) /\ WF_vars(Abandoned(j))
    /\ \A w \in Workers : WF_vars(Progress(w)) /\ SF_vars(Sweep(w))

\* A step a working process could have taken as well (an idle poll, a claim
\* someone else won) is no fault.
FaultsStop == <>[][\A w \in Workers : Fault(w) => Progress(w)]_vars

LiveSpec == Spec /\ Fairness /\ FaultsStop

-----------------------------------------------------------------------------
(* Properties.                                                             *)

TypeOK ==
    /\ status \in [Jobs -> Status]
    /\ attempts \in [Jobs -> 0..MaxAttempts]
    /\ due \in [Jobs -> BOOLEAN]
    /\ cancel \in [Jobs -> BOOLEAN]
    /\ owner \in [Jobs -> Workers \cup {NoWorker}]
    /\ stale \in [Jobs -> BOOLEAN]
    /\ review \in [Jobs -> Status]
    /\ findings \in [Jobs -> SUBSET Workers]
    /\ rings \in [Jobs -> 0..MaxRings]
    /\ owed \in SUBSET Jobs
    /\ asking \in SUBSET Jobs
    /\ pc \in [Workers -> WorkerPC]
    /\ cur \in [Workers -> Jobs \cup {NoJob}]
    /\ att \in [Workers -> 0..MaxAttempts]
    /\ stage \in [Workers -> 0..Stages]
    /\ beat \in [Workers -> BOOLEAN]

\* The job row and the review row a user sees never disagree, whoever wrote
\* last: worker, sweep, cancel request or a worker the sweep had given up on
\* (jobs.py:97-101, "so the pair can never diverge").
JobReviewInSync == \A j \in Jobs : review[j] = status[j]

\* Findings are exactly those of the one run that completed the job: none
\* from a run that was reclaimed, cancelled, failed or crashed (runner.py:166-168).
FindingsOfTheOwner ==
    \A j \in Jobs :
        findings[j] = IF status[j] = "completed" THEN {owner[j]} ELSE {}

\* A queued job has an attempt left and a running one is owned, so no
\* interleaving of retries, sweeps and crashes runs a job more than
\* MaxAttempts times or leaves a queued job that may never run.
AttemptsLeft ==
    \A j \in Jobs :
        /\ status[j] = "queued" => attempts[j] < MaxAttempts /\ owner[j] = NoWorker
        /\ status[j] = "running" => attempts[j] \in 1..MaxAttempts /\ owner[j] \in Workers

\* What a runner holds in memory can be trusted as long as the fence holds: the
\* attempts it read again after an error are still the row's when the transition
\* it chose by them is written (runner.py:596 against jobs.py:44 and 102), and
\* only a runner beats.
RunnerAgrees ==
    \A w \in Workers :
        /\ pc[w] \in Holding \cup {"claim", "refresh"} => cur[w] \in Jobs
        /\ beat[w] => pc[w] \in Holding
        /\ pc[w] = "work" => stage[w] < Stages
        /\ pc[w] = "retry" /\ Owns(w) => att[w] = attempts[cur[w]]

\* A job nobody created carries nothing over: no attempt, flag or owner.
AbsentIsFresh ==
    \A j \in Jobs : status[j] = "absent" =>
        attempts[j] = 0 /\ ~cancel[j] /\ owner[j] = NoWorker

\* The inductive invariant behind the theorems of ReviewJobs_proofs.
IInv ==
    /\ TypeOK /\ JobReviewInSync /\ FindingsOfTheOwner /\ AttemptsLeft
    /\ RunnerAgrees /\ AbsentIsFresh

KeepsCancel(j) ==
    cancel[j] => /\ cancel'[j]
                 /\ status'[j] = "completed" => status[j] = "completed"

KeepsEnd(j) ==
    status[j] \in Terminal =>
        /\ status'[j] = status[j] /\ review'[j] = review[j]
        /\ findings'[j] = findings[j] /\ attempts'[j] = attempts[j]

\* The step is w's: it ends its run of j, or its sweep of the stale rows.
EndsItsRun(w, j) == owner[j] = w /\ cur[w] = j /\ pc[w] \in Holding /\ pc'[w] = "loop"
SweepsStale(w, j) == stale[j] /\ pc[w] = "loop" /\ pc'[w] = "ring"

KeepsOwner(j) ==
    status[j] = "running" =>
        \/ status'[j] = "running" /\ owner'[j] = owner[j] /\ attempts'[j] = attempts[j]
        \/ \E w \in Workers : EndsItsRun(w, j) \/ SweepsStale(w, j)

\* A cancel request that reached a live job is never forgotten by a retry, a
\* sweep or a reclaim, and from then on the job cannot complete (runner.py:170-174).
CancelSticks == [][\A j \in Jobs : KeepsCancel(j)]_vars

\* A finished job is finished: the late writes of a worker whose job was
\* reclaimed, and of a sweep or a cancel that overlaps it, change neither the
\* rows nor the findings (jobs.py:97-101).
FinishedIsFinal == [][\A j \in Jobs : KeepsEnd(j)]_vars

\* A running job is taken from its owner only by the step with which the owner
\* ends its run, or by that of a sweep after its heartbeat went stale: never by
\* another worker's late write, stale or not, a cancel request, a second claim or
\* an eager sweep, while its owner is alive or not (jobs.py:38-39, 97-101, 226-232).
OwnerNotRobbed == [][\A j \in Jobs : KeepsOwner(j)]_vars

\* review_service.py:371-372 on a flagged job: "either this function, the
\* worker's checkpoint, or the sweep finishes the cancellation".
CancelFinishes == \A j \in Jobs : cancel[j] => status[j] # "failed"
-----------------------------------------------------------------------------
\* What the API shows of a job: its review's status, the attempts spent, the
\* cancel flag, and whether it has findings.
Lifecycle == INSTANCE ReviewLifecycle WITH
    Reviews <- Jobs, MaxTries <- MaxAttempts,
    phase <- review, tries <- attempts, asked <- cancel,
    published <- [j \in Jobs |-> findings[j] # {}]

\* Seen through the review rows, the workers, the sweep and the doorbell
\* implement the life cycle a caller is promised.
ImplementsLifecycle == Lifecycle!Spec

\* Every queued review ends, whatever is lost on the way: rings, Redis,
\* heartbeats, workers (jobs.py:181-187, 202-204).
EveryReviewEnds == Lifecycle!EveryReviewEnds
=============================================================================
