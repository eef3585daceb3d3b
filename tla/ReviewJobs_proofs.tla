-------------------------- MODULE ReviewJobs_proofs --------------------------
(***************************************************************************)
(* Proofs about ReviewJobs for any number of workers and jobs, any number  *)
(* of attempts and stages and any capacity of the Redis list.              *)
(*                                                                         *)
(* IInv is inductive: one lemma per action, one step per conjunct of IInv. *)
(* The safety invariants are its conjuncts; the action properties and the  *)
(* refinement examine one step from a state that satisfies it.             *)
(***************************************************************************)
EXTENDS ReviewJobs, TLAPS

USE DEF jobRows, reviewRows, requests, workerVars

\* Letting go of a job leaves the worker's own variables well typed.
WorkerTyped ==
    /\ pc \in [Workers -> WorkerPC]
    /\ cur \in [Workers -> Jobs \cup {NoJob}]
    /\ att \in [Workers -> 0..MaxAttempts]
    /\ stage \in [Workers -> 0..Stages]
    /\ beat \in [Workers -> BOOLEAN]

LEMMA ReleaseTyped ==
  ASSUME TypeOK, NEW w \in Workers, Release(w)
  PROVE  WorkerTyped'
  BY AttemptsAssumption, BoundsAssumption DEF TypeOK, Release, GoTo, WorkerTyped, WorkerPC

LEMMA InitIInv == Init => IInv
  BY NoWorkerAssumption, NoJobAssumption, AttemptsAssumption, BoundsAssumption
     DEF Init, IInv, TypeOK, JobReviewInSync, FindingsOfTheOwner, AttemptsLeft,
         RunnerAgrees, AbsentIsFresh, Status, Terminal, WorkerPC, Holding, Owns

\* A step that writes no row has only its own variables to answer for.
LEMMA RowsAlone ==
  ASSUME IInv, UNCHANGED <<jobRows, reviewRows>>, TypeOK', RunnerAgrees'
  PROVE  IInv'
  BY DEF IInv, JobReviewInSync, FindingsOfTheOwner, AttemptsLeft, AbsentIsFresh

\* The clock only turns the two flags a comparison is made on.
LEMMA BecomesDueKeeps ==
  ASSUME IInv, NEW j \in Jobs, BecomesDue(j)
  PROVE  IInv'
  <1> USE DEF IInv, TypeOK, BecomesDue
  <1>1. TypeOK'
    BY DEF Status
  <1>2. JobReviewInSync'
    BY DEF JobReviewInSync
  <1>3. FindingsOfTheOwner'
    BY DEF FindingsOfTheOwner
  <1>4. AttemptsLeft'
    BY DEF AttemptsLeft
  <1>5. RunnerAgrees'
    BY DEF RunnerAgrees, Owns, Holding
  <1>6. AbsentIsFresh'
    BY DEF AbsentIsFresh
  <1> QED
    BY <1>1, <1>2, <1>3, <1>4, <1>5, <1>6

LEMMA HeartbeatAgesKeeps ==
  ASSUME IInv, NEW j \in Jobs, HeartbeatAges(j)
  PROVE  IInv'
  <1> USE DEF IInv, TypeOK, HeartbeatAges
  <1>1. TypeOK'
    BY DEF Status
  <1>2. JobReviewInSync'
    BY DEF JobReviewInSync
  <1>3. FindingsOfTheOwner'
    BY DEF FindingsOfTheOwner
  <1>4. AttemptsLeft'
    BY DEF AttemptsLeft
  <1>5. RunnerAgrees'
    BY DEF RunnerAgrees, Owns, Holding
  <1>6. AbsentIsFresh'
    BY DEF AbsentIsFresh
  <1> QED
    BY <1>1, <1>2, <1>3, <1>4, <1>5, <1>6

\* A fresh job has every attempt left, because an absent one is fresh.
LEMMA CreateKeeps ==
  ASSUME IInv, NEW j \in Jobs, Create(j)
  PROVE  IInv'
  <1> USE DEF IInv, TypeOK, Create
  <1>1. TypeOK'
    BY DEF Status
  <1>2. JobReviewInSync'
    BY DEF JobReviewInSync
  <1>3. FindingsOfTheOwner'
    BY DEF FindingsOfTheOwner
  <1>4. AttemptsLeft'
    BY AttemptsAssumption DEF AttemptsLeft, AbsentIsFresh
  <1>5. RunnerAgrees'
    BY DEF RunnerAgrees, Owns, Holding
  <1>6. AbsentIsFresh'
    BY DEF AbsentIsFresh
  <1> QED
    BY <1>1, <1>2, <1>3, <1>4, <1>5, <1>6

LEMMA NotifyKeeps ==
  ASSUME IInv, NEW j \in Jobs, Notify(j)
  PROVE  IInv'
  <1> USE DEF IInv, TypeOK, Notify, Ring
  <1>1. TypeOK'
    BY BoundsAssumption
  <1>2. RunnerAgrees'
    BY DEF RunnerAgrees, Owns, Holding
  <1> QED
    BY <1>1, <1>2, RowsAlone

LEMMA CancelLoadKeeps ==
  ASSUME IInv, NEW j \in Jobs, CancelLoad(j)
  PROVE  IInv'
  <1> USE DEF IInv, TypeOK, CancelLoad
  <1>1. TypeOK'
    BY DEF Status
  <1>2. RunnerAgrees'
    BY DEF RunnerAgrees, Owns, Holding
  <1> QED
    BY <1>1, <1>2, RowsAlone

LEMMA CancelApplyKeeps ==
  ASSUME IInv, NEW j \in Jobs, CancelApply(j)
  PROVE  IInv'
  <1> USE DEF IInv, TypeOK, CancelApply
  <1>1. TypeOK'
    BY DEF Status, Terminal
  <1>2. JobReviewInSync'
    BY DEF JobReviewInSync
  <1>3. FindingsOfTheOwner'
    BY DEF FindingsOfTheOwner
  <1>4. AttemptsLeft'
    BY DEF AttemptsLeft
  <1>5. RunnerAgrees'
    BY DEF RunnerAgrees, Owns, Holding
  <1>6. AbsentIsFresh'
    BY DEF AbsentIsFresh
  <1> QED
    BY <1>1, <1>2, <1>3, <1>4, <1>5, <1>6

LEMMA SkipSweepKeeps ==
  ASSUME IInv, NEW w \in Workers, SkipSweep(w)
  PROVE  IInv'
  <1> USE DEF IInv, TypeOK, SkipSweep, GoTo
  <1>1. TypeOK'
    BY DEF WorkerPC, Holding
  <1>2. RunnerAgrees'
    BY DEF RunnerAgrees, WorkerPC, Owns, Holding
  <1> QED
    BY <1>1, <1>2, RowsAlone

LEMMA SweepRingKeeps ==
  ASSUME IInv, NEW w \in Workers, SweepRing(w)
  PROVE  IInv'
  <1> USE DEF IInv, TypeOK, SweepRing, GoTo, Ring
  <1>1. TypeOK'
    BY BoundsAssumption DEF WorkerPC, Holding
  <1>2. RunnerAgrees'
    BY DEF RunnerAgrees, WorkerPC, Owns, Holding
  <1> QED
    BY <1>1, <1>2, RowsAlone

LEMMA PopKeeps ==
  ASSUME IInv, NEW w \in Workers, Pop(w)
  PROVE  IInv'
  <1> USE DEF IInv, TypeOK, Pop, GoTo
  <1>1. TypeOK'
    BY BoundsAssumption DEF WorkerPC, Holding
  <1>2. RunnerAgrees'
    BY DEF RunnerAgrees, WorkerPC, Owns, Holding
  <1> QED
    BY <1>1, <1>2, RowsAlone

LEMMA PopNoneKeeps ==
  ASSUME IInv, NEW w \in Workers, PopNone(w)
  PROVE  IInv'
  <1> USE DEF IInv, TypeOK, PopNone, GoTo
  <1>1. TypeOK'
    BY DEF WorkerPC, Holding
  <1>2. RunnerAgrees'
    BY DEF RunnerAgrees, WorkerPC, Owns, Holding
  <1> QED
    BY <1>1, <1>2, RowsAlone

LEMMA PollKeeps ==
  ASSUME IInv, NEW w \in Workers, Poll(w)
  PROVE  IInv'
  <1> USE DEF IInv, TypeOK, Poll, GoTo
  <1>1. TypeOK'
    BY DEF WorkerPC, Holding
  <1>2. RunnerAgrees'
    BY DEF RunnerAgrees, WorkerPC, Owns, Holding
  <1> QED
    BY <1>1, <1>2, RowsAlone

LEMMA PollFailsKeeps ==
  ASSUME IInv, NEW w \in Workers, PollFails(w)
  PROVE  IInv'
  <1> USE DEF IInv, TypeOK, PollFails, GoTo
  <1>1. TypeOK'
    BY DEF WorkerPC, Holding
  <1>2. RunnerAgrees'
    BY DEF RunnerAgrees, WorkerPC, Owns, Holding
  <1> QED
    BY <1>1, <1>2, RowsAlone

\* The claim spends an attempt; it is queued, so an attempt was left.
LEMMA ClaimKeeps ==
  ASSUME IInv, NEW w \in Workers, Claim(w)
  PROVE  IInv'
  <1> USE DEF IInv, TypeOK, Claim, GoTo, Release
  <1>1. TypeOK'
    <2>1. CASE status[cur[w]] = "queued" /\ due[cur[w]]
      <3>1. cur[w] \in Jobs /\ attempts[cur[w]] < MaxAttempts
        BY <2>1 DEF RunnerAgrees, AttemptsLeft
      <3>2. attempts' \in [Jobs -> 0..MaxAttempts]
        BY <2>1, <3>1, AttemptsAssumption
      <3>3. status' \in [Jobs -> Status] /\ review' \in [Jobs -> Status]
        BY <2>1, <3>1 DEF Status
      <3>4. owner' \in [Jobs -> Workers \cup {NoWorker}]
        BY <2>1, <3>1
      <3>5. stale' \in [Jobs -> BOOLEAN]
        BY <2>1, <3>1
      <3>6. pc' \in [Workers -> WorkerPC]
        BY <2>1 DEF WorkerPC
      <3> QED
        BY <2>1, <3>2, <3>3, <3>4, <3>5, <3>6
    <2>2. CASE ~(status[cur[w]] = "queued" /\ due[cur[w]])
      BY <2>2, ReleaseTyped DEF WorkerTyped
    <2> QED
      BY <2>1, <2>2
  <1>2. JobReviewInSync'
    BY DEF JobReviewInSync, RunnerAgrees
  <1>3. FindingsOfTheOwner'
    <2>1. CASE status[cur[w]] = "queued" /\ due[cur[w]]
      BY <2>1 DEF RunnerAgrees, FindingsOfTheOwner
    <2>2. CASE ~(status[cur[w]] = "queued" /\ due[cur[w]])
      BY <2>2 DEF FindingsOfTheOwner
    <2> QED
      BY <2>1, <2>2
  <1>4. AttemptsLeft'
    BY AttemptsAssumption DEF AttemptsLeft, RunnerAgrees
  <1>5. RunnerAgrees'
    BY NoWorkerAssumption DEF RunnerAgrees, AttemptsLeft, WorkerPC, Owns, Holding
  <1>6. AbsentIsFresh'
    BY DEF AbsentIsFresh, RunnerAgrees
  <1> QED
    BY <1>1, <1>2, <1>3, <1>4, <1>5, <1>6

LEMMA RefreshKeeps ==
  ASSUME IInv, NEW w \in Workers, Refresh(w)
  PROVE  IInv'
  <1> USE DEF IInv, TypeOK, Refresh, GoTo
  <1>1. TypeOK'
    BY DEF RunnerAgrees, WorkerPC, Holding
  <1>2. RunnerAgrees'
    BY DEF RunnerAgrees, WorkerPC, Owns, Holding
  <1> QED
    BY <1>1, <1>2, RowsAlone

\* The attempts read again are the row's.
LEMMA RereadKeeps ==
  ASSUME IInv, NEW w \in Workers, Reread(w)
  PROVE  IInv'
  <1> USE DEF IInv, TypeOK, Reread, GoTo
  <1>1. TypeOK'
    BY DEF RunnerAgrees, WorkerPC, Holding
  <1>2. RunnerAgrees'
    BY DEF RunnerAgrees, WorkerPC, Owns, Holding
  <1> QED
    BY <1>1, <1>2, RowsAlone

LEMMA CheckpointKeeps ==
  ASSUME IInv, NEW w \in Workers, Checkpoint(w)
  PROVE  IInv'
  <1> USE DEF IInv, TypeOK, Checkpoint, GoTo, Release
  <1>1. TypeOK'
    <2>1. CASE ~Owns(w)
      BY <2>1, ReleaseTyped DEF WorkerTyped
    <2>2. CASE Owns(w)
      BY <2>2 DEF WorkerPC, Holding
    <2> QED
      BY <2>1, <2>2
  <1>2. RunnerAgrees'
    BY DEF RunnerAgrees, WorkerPC, Owns, Holding
  <1> QED
    BY <1>1, <1>2, RowsAlone

LEMMA WorkDoneKeeps ==
  ASSUME IInv, NEW w \in Workers, WorkDone(w)
  PROVE  IInv'
  <1> USE DEF IInv, TypeOK, WorkDone, GoTo
  <1>1. TypeOK'
    BY BoundsAssumption DEF RunnerAgrees, WorkerPC, Holding
  <1>2. RunnerAgrees'
    BY DEF RunnerAgrees, WorkerPC, Owns, Holding
  <1> QED
    BY <1>1, <1>2, RowsAlone

\* Findings land only behind the fence, so they are the owner's.
LEMMA PersistKeeps ==
  ASSUME IInv, NEW w \in Workers, Persist(w)
  PROVE  IInv'
  <1> USE DEF IInv, TypeOK, Persist, GoTo, Release, Owns
  <1>1. TypeOK'
    <2>1. status' \in [Jobs -> Status] /\ review' \in [Jobs -> Status]
      BY DEF Status, Terminal
    <2>2. findings' \in [Jobs -> SUBSET Workers]
      BY DEF RunnerAgrees, Holding
    <2> QED
      BY <2>1, <2>2, ReleaseTyped DEF WorkerTyped
  <1>2. JobReviewInSync'
    <2>1. CASE Owns(w) /\ ~cancel[cur[w]]
      BY <2>1 DEF JobReviewInSync, RunnerAgrees, Holding
    <2>2. CASE ~(Owns(w) /\ ~cancel[cur[w]])
      BY <2>2 DEF JobReviewInSync
    <2> QED
      BY <2>1, <2>2
  <1>3. FindingsOfTheOwner'
    <2>1. CASE Owns(w) /\ ~cancel[cur[w]]
      BY <2>1 DEF RunnerAgrees, Holding, Status, FindingsOfTheOwner
    <2>2. CASE ~(Owns(w) /\ ~cancel[cur[w]])
      BY <2>2 DEF FindingsOfTheOwner
    <2> QED
      BY <2>1, <2>2
  <1>4. AttemptsLeft'
    BY DEF AttemptsLeft, RunnerAgrees, Holding
  <1>5. RunnerAgrees'
    BY DEF RunnerAgrees, WorkerPC, Owns, Holding
  <1>6. AbsentIsFresh'
    BY DEF AbsentIsFresh, RunnerAgrees, Holding
  <1> QED
    BY <1>1, <1>2, <1>3, <1>4, <1>5, <1>6

LEMMA JobCrashedKeeps ==
  ASSUME IInv, NEW w \in Workers, JobCrashed(w)
  PROVE  IInv'
  <1> USE DEF IInv, TypeOK, JobCrashed, GoTo, Release
  <1>1. TypeOK'
    BY BoundsAssumption, AttemptsAssumption DEF WorkerPC
  <1>2. RunnerAgrees'
    BY DEF RunnerAgrees, WorkerPC, Owns, Holding
  <1> QED
    BY <1>1, <1>2, RowsAlone

LEMMA CrashKeeps ==
  ASSUME IInv, NEW w \in Workers, Crash(w)
  PROVE  IInv'
  <1> USE DEF IInv, TypeOK, Crash, GoTo, Release
  <1>1. TypeOK'
    BY BoundsAssumption, AttemptsAssumption DEF WorkerPC
  <1>2. RunnerAgrees'
    BY DEF RunnerAgrees, WorkerPC, Owns, Holding
  <1> QED
    BY <1>1, <1>2, RowsAlone

LEMMA HeartbeatKeeps ==
  ASSUME IInv, NEW w \in Workers, Heartbeat(w)
  PROVE  IInv'
  <1> USE DEF IInv, TypeOK, Heartbeat
  <1>1. TypeOK'
    BY DEF RunnerAgrees, Owns, Holding
  <1>2. JobReviewInSync'
    BY DEF JobReviewInSync
  <1>3. FindingsOfTheOwner'
    BY DEF FindingsOfTheOwner
  <1>4. AttemptsLeft'
    BY DEF AttemptsLeft
  <1>5. RunnerAgrees'
    BY DEF RunnerAgrees, Owns, Holding
  <1>6. AbsentIsFresh'
    BY DEF AbsentIsFresh
  <1> QED
    BY <1>1, <1>2, <1>3, <1>4, <1>5, <1>6

\* Every fenced transition of a runner.  It requeues only with an attempt left,
\* and by RunnerAgrees the attempts it compares are those of the row.
LEMMA TransitionKeeps ==
  ASSUME IInv, NEW w \in Workers, NEW to \in {"queued", "failed", "cancelled"},
         pc[w] \in Holding, TransitionOwned(w, to),
         to = "queued" => pc[w] = "retry" /\ att[w] < MaxAttempts
  PROVE  IInv'
  <1> USE DEF IInv, TypeOK, TransitionOwned, GoTo, Release, Owns
  <1>1. TypeOK'
    <2>1. status' \in [Jobs -> Status] /\ review' \in [Jobs -> Status]
      BY DEF Status, Terminal
    <2>2. due' \in [Jobs -> BOOLEAN]
      OBVIOUS
    <2>3. cancel' \in [Jobs -> BOOLEAN]
      OBVIOUS
    <2>4. stale' \in [Jobs -> BOOLEAN]
      OBVIOUS
    <2>5. owner' \in [Jobs -> Workers \cup {NoWorker}]
      OBVIOUS
    <2> QED
      BY <2>1, <2>2, <2>3, <2>4, <2>5, ReleaseTyped DEF WorkerTyped
  <1>2. JobReviewInSync'
    <2>1. CASE Owns(w)
      BY <2>1 DEF JobReviewInSync, RunnerAgrees, Holding
    <2>2. CASE ~Owns(w)
      BY <2>2 DEF JobReviewInSync
    <2> QED
      BY <2>1, <2>2
  <1>3. FindingsOfTheOwner'
    BY DEF FindingsOfTheOwner, RunnerAgrees, Holding, Status
  <1>4. AttemptsLeft'
    BY DEF AttemptsLeft, RunnerAgrees, Holding
  <1>5. RunnerAgrees'
    BY DEF RunnerAgrees, WorkerPC, Owns, Holding
  <1>6. AbsentIsFresh'
    BY DEF AbsentIsFresh, RunnerAgrees, Holding
  <1> QED
    BY <1>1, <1>2, <1>3, <1>4, <1>5, <1>6

\* The sweep moves every row it matches at once.
LEMMA SweepKeeps ==
  ASSUME IInv, NEW w \in Workers, Sweep(w)
  PROVE  IInv'
  <1> USE DEF IInv, TypeOK, Sweep, GoTo, SweptStatus, Swept, SweptCancelled, SweptRequeued, SweptFailed
  <1>1. TypeOK'
    BY DEF Status, Terminal, WorkerPC, Holding
  <1>2. JobReviewInSync'
    BY DEF JobReviewInSync
  <1>3. FindingsOfTheOwner'
    BY DEF FindingsOfTheOwner, Status
  <1>4. AttemptsLeft'
    BY DEF AttemptsLeft, Status
  <1>5. RunnerAgrees'
    BY NoWorkerAssumption DEF RunnerAgrees, WorkerPC, Owns, Holding
  <1>6. AbsentIsFresh'
    BY DEF AbsentIsFresh, Status
  <1> QED
    BY <1>1, <1>2, <1>3, <1>4, <1>5, <1>6

-----------------------------------------------------------------------------
(* Every step keeps IInv.                                                  *)

LEMMA RunnerKeeps ==
  ASSUME IInv, NEW w \in Workers, CancelJob(w) \/ FailJob(w) \/ RetryOrFail(w)
  PROVE  IInv'
  <1>1. CASE CancelJob(w)
    BY <1>1, TransitionKeeps DEF CancelJob, Holding
  <1>2. CASE FailJob(w)
    BY <1>2, TransitionKeeps DEF FailJob, Holding
  <1>3. CASE RetryOrFail(w)
    <2>1. att[w] \in Nat /\ MaxAttempts \in Nat
      BY AttemptsAssumption DEF IInv, TypeOK
    <2>2. CASE att[w] >= MaxAttempts
      BY <1>3, <2>2, TransitionKeeps DEF RetryOrFail, Holding
    <2>3. CASE ~(att[w] >= MaxAttempts)
      BY <1>3, <2>1, <2>3, TransitionKeeps DEF RetryOrFail, Holding
    <2> QED
      BY <2>2, <2>3
  <1> QED
    BY <1>1, <1>2, <1>3

LEMMA NextKeeps == IInv /\ [Next]_vars => IInv'
  <1> SUFFICES ASSUME IInv, [Next]_vars PROVE IInv'
    OBVIOUS
  <1>1. ASSUME NEW j \in Jobs, Clock(j) PROVE IInv'
    BY <1>1, BecomesDueKeeps, HeartbeatAgesKeeps DEF Clock
  <1>2. ASSUME NEW j \in Jobs, Api(j) PROVE IInv'
    BY <1>2, CreateKeeps, NotifyKeeps, CancelLoadKeeps, CancelApplyKeeps DEF Api
  <1>3. ASSUME NEW w \in Workers, Progress(w) PROVE IInv'
    BY <1>3, SweepKeeps, SkipSweepKeeps, SweepRingKeeps, PopKeeps, PopNoneKeeps,
       PollKeeps, ClaimKeeps, RefreshKeeps, CheckpointKeeps, WorkDoneKeeps,
       RereadKeeps, RunnerKeeps, PersistKeeps DEF Progress
  <1>4. ASSUME NEW w \in Workers, Fault(w) PROVE IInv'
    BY <1>4, PollFailsKeeps, JobCrashedKeeps, CrashKeeps DEF Fault
  <1>5. ASSUME NEW w \in Workers, Heartbeat(w) PROVE IInv'
    BY <1>5, HeartbeatKeeps
  <1>6. CASE UNCHANGED vars
    BY <1>6 DEF vars, IInv, TypeOK, JobReviewInSync, FindingsOfTheOwner, AttemptsLeft,
                RunnerAgrees, AbsentIsFresh, Owns
  <1> QED
    BY <1>1, <1>2, <1>3, <1>4, <1>5, <1>6 DEF Next

\* The inductive invariant holds in every reachable state.
THEOREM Invariance == Spec => []IInv
  BY InitIInv, NextKeeps, PTL DEF Spec

\* Every variable stays in its domain; in particular the attempts never pass
\* max_attempts (jobs.py:44).
THEOREM TypeCorrect == Spec => []TypeOK
  <1>1. IInv => TypeOK
    BY DEF IInv
  <1> QED
    BY <1>1, Invariance, PTL

\* The job row and the review row never disagree (jobs.py:97-101).
THEOREM InSync == Spec => []JobReviewInSync
  <1>1. IInv => JobReviewInSync
    BY DEF IInv
  <1> QED
    BY <1>1, Invariance, PTL

\* Findings are those of the run that completed the job, and of no other.
THEOREM OneRunPublishes == Spec => []FindingsOfTheOwner
  <1>1. IInv => FindingsOfTheOwner
    BY DEF IInv
  <1> QED
    BY <1>1, Invariance, PTL

\* A queued job has an attempt left, a running one an owner.
THEOREM AttemptsRemain == Spec => []AttemptsLeft
  <1>1. IInv => AttemptsLeft
    BY DEF IInv
  <1> QED
    BY <1>1, Invariance, PTL

-----------------------------------------------------------------------------
(* Action properties.                                                      *)

\* A runner's fenced transition; it requeues only with an attempt left.
Transition(w, to) ==
    /\ pc[w] \in Holding /\ TransitionOwned(w, to)
    /\ to = "queued" => pc[w] = "retry" /\ att[w] < MaxAttempts

\* The steps that write a row, told apart from all the others.
LEMMA RowWrites ==
  ASSUME IInv, [Next]_vars
  PROVE  \/ UNCHANGED <<jobRows, reviewRows>>
         \/ \E j \in Jobs :
               BecomesDue(j) \/ HeartbeatAges(j) \/ Create(j) \/ CancelApply(j)
         \/ \E w \in Workers : Sweep(w) \/ Claim(w) \/ Persist(w) \/ Heartbeat(w)
         \/ \E w \in Workers : \E to \in {"queued", "failed", "cancelled"} :
               Transition(w, to)
  <1>1. ASSUME NEW j \in Jobs, Notify(j) \/ CancelLoad(j)
        PROVE  UNCHANGED <<jobRows, reviewRows>>
    BY <1>1 DEF Notify, CancelLoad
  <1>2. ASSUME NEW w \in Workers,
               \/ SkipSweep(w) \/ SweepRing(w) \/ Pop(w) \/ PopNone(w) \/ Poll(w)
               \/ PollFails(w) \/ Refresh(w) \/ WorkDone(w) \/ Reread(w) \/ JobCrashed(w) \/ Crash(w)
        PROVE  UNCHANGED <<jobRows, reviewRows>>
    BY <1>2 DEF SkipSweep, SweepRing, Pop, PopNone, Poll, PollFails, Refresh, WorkDone,
                Reread, JobCrashed, Crash
  <1>3. ASSUME NEW w \in Workers, Checkpoint(w)
        PROVE  UNCHANGED <<jobRows, reviewRows>>
    BY <1>3 DEF Checkpoint
  <1>4. ASSUME NEW w \in Workers, CancelJob(w) \/ FailJob(w) \/ RetryOrFail(w)
        PROVE  \E to \in {"queued", "failed", "cancelled"} : Transition(w, to)
    <2>1. att[w] \in Nat /\ MaxAttempts \in Nat
      BY AttemptsAssumption DEF IInv, TypeOK
    <2>2. CASE CancelJob(w)
      BY <2>2 DEF CancelJob, Transition, Holding
    <2>3. CASE FailJob(w)
      BY <2>3 DEF FailJob, Transition, Holding
    <2>4. CASE RetryOrFail(w) /\ att[w] >= MaxAttempts
      BY <2>4 DEF RetryOrFail, Transition, Holding
    <2>5. CASE RetryOrFail(w) /\ ~(att[w] >= MaxAttempts)
      BY <2>1, <2>5 DEF RetryOrFail, Transition, Holding
    <2> QED
      BY <1>4, <2>2, <2>3, <2>4, <2>5
  <1> QED
    BY <1>1, <1>2, <1>3, <1>4 DEF Next, Clock, Api, Progress, Fault, vars

LEMMA CancelStep ==
  ASSUME IInv, [Next]_vars, NEW j \in Jobs
  PROVE  KeepsCancel(j)
  <1> USE DEF IInv, TypeOK, KeepsCancel
  <1>1. CASE UNCHANGED <<jobRows, reviewRows>>
    BY <1>1
  <1>2. ASSUME NEW i \in Jobs, BecomesDue(i) \/ HeartbeatAges(i) PROVE KeepsCancel(j)
    BY <1>2 DEF BecomesDue, HeartbeatAges
  <1>3. ASSUME NEW i \in Jobs, Create(i) PROVE KeepsCancel(j)
    BY <1>3 DEF Create
  <1>4. ASSUME NEW i \in Jobs, CancelApply(i) PROVE KeepsCancel(j)
    BY <1>4 DEF CancelApply
  <1>5. ASSUME NEW w \in Workers, Sweep(w) PROVE KeepsCancel(j)
    BY <1>5 DEF Sweep, SweptStatus, Swept, SweptCancelled, SweptRequeued, SweptFailed
  <1>6. ASSUME NEW w \in Workers, Claim(w) PROVE KeepsCancel(j)
    BY <1>6 DEF Claim
  <1>7. ASSUME NEW w \in Workers, Persist(w) PROVE KeepsCancel(j)
    BY <1>7 DEF Persist
  <1>8. ASSUME NEW w \in Workers, Heartbeat(w) PROVE KeepsCancel(j)
    BY <1>8 DEF Heartbeat
  <1>9. ASSUME NEW w \in Workers, NEW to \in {"queued", "failed", "cancelled"},
               Transition(w, to)
        PROVE  KeepsCancel(j)
    BY <1>9 DEF Transition, TransitionOwned
  <1> QED
    BY <1>1, <1>2, <1>3, <1>4, <1>5, <1>6, <1>7, <1>8, <1>9, RowWrites

LEMMA EndStep ==
  ASSUME IInv, [Next]_vars, NEW j \in Jobs
  PROVE  KeepsEnd(j)
  <1> USE DEF IInv, TypeOK, KeepsEnd, Terminal
  <1>1. CASE UNCHANGED <<jobRows, reviewRows>>
    BY <1>1
  <1>2. ASSUME NEW i \in Jobs, BecomesDue(i) \/ HeartbeatAges(i) PROVE KeepsEnd(j)
    BY <1>2 DEF BecomesDue, HeartbeatAges
  <1>3. ASSUME NEW i \in Jobs, Create(i) PROVE KeepsEnd(j)
    BY <1>3 DEF Create
  <1>4. ASSUME NEW i \in Jobs, CancelApply(i) PROVE KeepsEnd(j)
    BY <1>4 DEF CancelApply
  <1>5. ASSUME NEW w \in Workers, Sweep(w) PROVE KeepsEnd(j)
    BY <1>5 DEF Sweep, SweptStatus, Swept, SweptCancelled, SweptRequeued, SweptFailed
  <1>6. ASSUME NEW w \in Workers, Claim(w) PROVE KeepsEnd(j)
    BY <1>6 DEF Claim
  <1>7. ASSUME NEW w \in Workers, Persist(w) PROVE KeepsEnd(j)
    BY <1>7 DEF Persist, Owns
  <1>8. ASSUME NEW w \in Workers, Heartbeat(w) PROVE KeepsEnd(j)
    BY <1>8 DEF Heartbeat
  <1>9. ASSUME NEW w \in Workers, NEW to \in {"queued", "failed", "cancelled"},
               Transition(w, to)
        PROVE  KeepsEnd(j)
    BY <1>9 DEF Transition, TransitionOwned, Owns
  <1> QED
    BY <1>1, <1>2, <1>3, <1>4, <1>5, <1>6, <1>7, <1>8, <1>9, RowWrites

LEMMA OwnerStep ==
  ASSUME IInv, [Next]_vars, NEW j \in Jobs
  PROVE  KeepsOwner(j)
  <1> USE DEF IInv, TypeOK, KeepsOwner
  <1>1. CASE UNCHANGED <<jobRows, reviewRows>>
    BY <1>1
  <1>2. ASSUME NEW i \in Jobs, BecomesDue(i) \/ HeartbeatAges(i) PROVE KeepsOwner(j)
    BY <1>2 DEF BecomesDue, HeartbeatAges
  <1>3. ASSUME NEW i \in Jobs, Create(i) PROVE KeepsOwner(j)
    BY <1>3 DEF Create
  <1>4. ASSUME NEW i \in Jobs, CancelApply(i) PROVE KeepsOwner(j)
    BY <1>4 DEF CancelApply
  <1>5. ASSUME NEW w \in Workers, Sweep(w) PROVE KeepsOwner(j)
    <2>1. CASE stale[j]
      BY <1>5, <2>1 DEF Sweep, GoTo, SweepsStale
    <2>2. CASE ~stale[j]
      BY <1>5, <2>2 DEF Sweep, SweptStatus, Swept, SweptCancelled, SweptRequeued, SweptFailed
    <2> QED
      BY <2>1, <2>2
  <1>6. ASSUME NEW w \in Workers, Claim(w) PROVE KeepsOwner(j)
    BY <1>6 DEF Claim
  <1>7. ASSUME NEW w \in Workers, Persist(w) PROVE KeepsOwner(j)
    <2>1. CASE Owns(w) /\ cur[w] = j
      BY <1>7, <2>1 DEF Persist, Release, GoTo, Owns, EndsItsRun, Holding
    <2>2. CASE ~(Owns(w) /\ cur[w] = j)
      BY <1>7, <2>2 DEF Persist
    <2> QED
      BY <2>1, <2>2
  <1>8. ASSUME NEW w \in Workers, Heartbeat(w) PROVE KeepsOwner(j)
    BY <1>8 DEF Heartbeat
  <1>9. ASSUME NEW w \in Workers, NEW to \in {"queued", "failed", "cancelled"},
               Transition(w, to)
        PROVE  KeepsOwner(j)
    <2>1. CASE Owns(w) /\ cur[w] = j
      BY <1>9, <2>1 DEF Transition, TransitionOwned, Release, GoTo, Owns, EndsItsRun
    <2>2. CASE ~(Owns(w) /\ cur[w] = j)
      BY <1>9, <2>2 DEF Transition, TransitionOwned
    <2> QED
      BY <2>1, <2>2
  <1> QED
    BY <1>1, <1>2, <1>3, <1>4, <1>5, <1>6, <1>7, <1>8, <1>9, RowWrites

\* A cancel request that reached a live job holds until the job ends, and the
\* job does not complete (runner.py:170-174).
THEOREM CancelHolds == Spec => CancelSticks
  <1>1. IInv /\ [Next]_vars => [\A j \in Jobs : KeepsCancel(j)]_vars
    BY CancelStep
  <1> QED
    BY <1>1, Invariance, PTL DEF Spec, CancelSticks

\* No late write changes a finished job, its review or its findings.
THEOREM EndHolds == Spec => FinishedIsFinal
  <1>1. IInv /\ [Next]_vars => [\A j \in Jobs : KeepsEnd(j)]_vars
    BY EndStep
  <1> QED
    BY <1>1, Invariance, PTL DEF Spec, FinishedIsFinal

\* Only the step with which the owner ends its run, or that of a sweep that found
\* the heartbeat stale, takes a running job away from its owner: whoever else writes
\* while the owner is alive leaves the row with it.
THEOREM OwnerHolds == Spec => OwnerNotRobbed
  <1>1. IInv /\ [Next]_vars => [\A j \in Jobs : KeepsOwner(j)]_vars
    BY OwnerStep
  <1> QED
    BY <1>1, Invariance, PTL DEF Spec, OwnerNotRobbed

-----------------------------------------------------------------------------
(* The refinement: every step is a move of the life cycle, for each job.   *)

Lives(j) == Lifecycle!Moves(j) \/ Lifecycle!Still(j)

LEMMA LifecycleStep ==
  ASSUME IInv, [Next]_vars, NEW j \in Jobs
  PROVE  Lives(j)
  <1> USE DEF IInv, TypeOK, JobReviewInSync, Lives, Lifecycle!Moves, Lifecycle!Still
  <1>1. CASE UNCHANGED <<jobRows, reviewRows>>
    BY <1>1
  <1>2. ASSUME NEW i \in Jobs, BecomesDue(i) \/ HeartbeatAges(i) PROVE Lives(j)
    BY <1>2 DEF BecomesDue, HeartbeatAges
  <1>3. ASSUME NEW i \in Jobs, Create(i) PROVE Lives(j)
    BY <1>3 DEF Create, AbsentIsFresh, FindingsOfTheOwner, Lifecycle!Submit, Lifecycle!Move
  <1>4. ASSUME NEW i \in Jobs, CancelApply(i) PROVE Lives(j)
    BY <1>4 DEF CancelApply, Lifecycle!AskToStop, Lifecycle!Stop, Lifecycle!Live
  <1>5. ASSUME NEW w \in Workers, Sweep(w) PROVE Lives(j)
    BY <1>5 DEF Sweep, SweptStatus, Swept, SweptCancelled, SweptRequeued, SweptFailed,
                Lifecycle!Stop, Lifecycle!Live, Lifecycle!PutBack, Lifecycle!GiveUp,
                Lifecycle!Move
  <1>6. ASSUME NEW w \in Workers, Claim(w) PROVE Lives(j)
    BY <1>6 DEF Claim, AttemptsLeft, RunnerAgrees, Lifecycle!Try, Lifecycle!Move
  <1>7. ASSUME NEW w \in Workers, Persist(w) PROVE Lives(j)
    <2>1. CASE Owns(w) /\ ~cancel[cur[w]] /\ j = cur[w]
      <3>1. status[j] = "running" /\ review'[j] = "completed"
        BY <1>7, <2>1 DEF Persist, Owns
      <3>2. findings'[j] = findings[j] \cup {w}
        BY <1>7, <2>1 DEF Persist
      <3>3. findings'[j] # {}
        BY <3>2
      <3> QED
        BY <1>7, <2>1, <3>1, <3>3 DEF Persist, Lifecycle!Publish, Lifecycle!Move
    <2>2. CASE ~(Owns(w) /\ ~cancel[cur[w]] /\ j = cur[w])
      BY <1>7, <2>2 DEF Persist, RunnerAgrees, Holding
    <2> QED
      BY <2>1, <2>2
  <1>8. ASSUME NEW w \in Workers, Heartbeat(w) PROVE Lives(j)
    BY <1>8 DEF Heartbeat
  <1>9. ASSUME NEW w \in Workers, NEW to \in {"queued", "failed", "cancelled"},
               Transition(w, to)
        PROVE  Lives(j)
    <2>1. CASE ~Owns(w) \/ j # cur[w]
      BY <1>9, <2>1 DEF Transition, TransitionOwned, RunnerAgrees
    <2>2. CASE Owns(w) /\ j = cur[w]
      <3>1. /\ status[j] = "running"
            /\ to = "queued" => att[w] = attempts[j]
        BY <1>9, <2>2 DEF Transition, RunnerAgrees, Owns
      <3>2. /\ review'[j] = to /\ findings' = findings /\ attempts' = attempts
            /\ cancel'[j] = (cancel[j] \/ to = "cancelled")
        BY <1>9, <2>2 DEF Transition, TransitionOwned
      <3>3. CASE to = "queued"
        BY <1>9, <3>1, <3>2, <3>3 DEF Transition, Lifecycle!PutBack, Lifecycle!Move
      <3>4. CASE to = "failed"
        BY <3>1, <3>2, <3>4 DEF Lifecycle!GiveUp, Lifecycle!Move
      <3>5. CASE to = "cancelled"
        BY <3>1, <3>2, <3>5 DEF Lifecycle!Stop, Lifecycle!Live
      <3> QED
        BY <3>3, <3>4, <3>5
    <2> QED
      BY <2>1, <2>2
  <1> QED
    BY <1>1, <1>2, <1>3, <1>4, <1>5, <1>6, <1>7, <1>8, <1>9, RowWrites

\* Through its reviews, the queue with its workers, sweeps and lost rings does
\* what the life cycle promises a caller, and nothing else.
THEOREM Refinement == Spec => ImplementsLifecycle
  <1>1. Init => Lifecycle!Init
    BY DEF Init, Lifecycle!Init
  <1>2. IInv /\ [Next]_vars => [Lifecycle!Next]_(Lifecycle!view)
    BY LifecycleStep DEF Lives, Lifecycle!Next
  <1> QED
    BY <1>1, <1>2, Invariance, PTL DEF Spec, ImplementsLifecycle, Lifecycle!Spec

=============================================================================
