----------------------------- MODULE ReviewPage -----------------------------
(***************************************************************************)
(* One open review page and the API behind it: polls, a cancel, a rerun    *)
(* and feedback, each a request that the server works on in steps while    *)
(* the review moves, and whose answer may be late, or lost.                *)
(*                                                                         *)
(* A snapshot is what get_review reads: the review's row first, then its   *)
(* findings, the cancel flag and the verdicts; each statement sees what    *)
(* had been committed when it ran.  One finding stands for all of them.    *)
(* The page is the user's only tab; following a rerun, or losing the       *)
(* session, leaves it.  A gateway may answer 5xx for a request the API     *)
(* still works on; a 4xx other than 401 does not happen to a poll.         *)
(***************************************************************************)
EXTENDS Naturals

CONSTANTS
    Verdicts,         \* useful, not_useful, dismissed
    MaxWakePolls,     \* MAX_WAKE_POLLS
    MaxTries          \* bound: attempts of the review's job

ASSUME PageConstants ==
    MaxWakePolls \in Nat /\ MaxTries \in Nat /\ "none" \notin Verdicts

VARIABLES
    status, asked, tries,       \* the review, its job's cancel flag and attempts
    verdict,                    \* the stored verdict, "none" for no row
    kind, shown,                \* LoadState and the snapshot it shows
    failedPolls, stalled, left, \* polls failed in a row; gave up; navigated away
    confirming,                 \* the dialog that covers the page
    poll, pollSnap,             \* the poll in flight and what the server read
    cancel, cancelSnap,         \* the cancel in flight and what it will answer
    cancelBusy, cancelSent,     \* the page's side of it
    rerun,                      \* the rerun in flight
    save, saving, previous,     \* the feedback in flight, its verdict, the one before
    late,                       \* a save the page was told had failed, still to run
    unsure,                     \* history: the page was last told a save failed
    overtaken                   \* history: a save given up on has run after the last one

review == <<status, asked, tries>>
screen == <<kind, shown, failedPolls, stalled, left>>
polling == <<poll, pollSnap>>
cancelling == <<cancel, cancelSnap, cancelBusy, cancelSent>>
feedback == <<verdict, save, saving, previous, late, unsure, overtaken>>
vars == <<review, screen, confirming, polling, cancelling, rerun, feedback>>

Active == {"queued", "running"}
HasFindings == {"completed", "superseded"}
Terminal == HasFindings \cup {"failed", "cancelled"}
Nothing == [status |-> "none", asked |-> FALSE, findings |-> FALSE, verdict |-> "none"]

\* The page is opened on a review just started, or on one read before.
Init ==
    /\ status \in {"queued", "completed"} /\ asked = FALSE /\ tries = 0
    /\ verdict \in Verdicts \cup {"none"}
    /\ status = "queued" => verdict = "none"
    /\ kind = "loading" /\ shown = Nothing
    /\ failedPolls = 0 /\ stalled = FALSE /\ left = FALSE
    /\ confirming = "none"
    /\ poll = "sent" /\ pollSnap = Nothing
    /\ cancel = "idle" /\ cancelSnap = Nothing
    /\ cancelBusy = FALSE /\ cancelSent = FALSE
    /\ rerun = "idle"
    /\ save = "idle" /\ saving = "none" /\ previous = "none"
    /\ late = {} /\ unsure = FALSE /\ overtaken = FALSE

-----------------------------------------------------------------------------
(* The review moves under the page: a worker, the sweep, another session.  *)

Claimed ==
    /\ status = "queued" /\ tries < MaxTries
    /\ status' = "running" /\ tries' = tries + 1

Worked ==
    /\ \/ status = "running" /\ tries < MaxTries /\ status' = "queued"
       \/ status = "running" /\ ~asked /\ status' = "completed"
       \/ status = "running" /\ status' = "failed"
       \/ status \in Active /\ asked /\ status' = "cancelled"
       \/ status = "completed" /\ status' = "superseded"
    /\ tries' = tries

ReviewMoves ==
    /\ Claimed \/ Worked
    /\ UNCHANGED <<asked, screen, confirming, polling, cancelling, rerun, feedback>>

-----------------------------------------------------------------------------
(* Polling: the effect of ReviewPage and get_review.                       *)

\* Mutant: the findings are read before the review's row.
Read_FindingsFirst(n, snap) ==
    IF n = 2 THEN [snap EXCEPT !.status = status]
    ELSE [snap EXCEPT !.asked = asked, !.findings = status \in HasFindings,
                      !.verdict = verdict]

\* The reads of one answer, in order: the review's row, then what hangs on it.
Read(n, snap) ==
    IF n = 1 THEN [snap EXCEPT !.status = status]
    ELSE [snap EXCEPT !.asked = asked, !.findings = status \in HasFindings,
                      !.verdict = verdict]

\* Mutant: the latest answer wins, whatever is on screen.
ApplyServerReview_Latest(snap) == kind' = "ready" /\ shown' = snap

\* applyServerReview: what has ended on screen stays.
ApplyServerReview(snap) ==
    IF kind = "ready" /\ shown.status \notin Active
    THEN UNCHANGED <<kind, shown>>
    ELSE kind' = "ready" /\ shown' = snap

PollTimer ==
    /\ ~left /\ poll = "timer"
    /\ poll' = "sent"
    /\ UNCHANGED <<review, screen, confirming, pollSnap, cancelling, rerun, feedback>>

PollReads ==
    /\ \/ poll = "sent" /\ poll' = "row" /\ pollSnap' = Read(1, Nothing)
       \/ poll = "row" /\ poll' = "answer" /\ pollSnap' = Read(2, pollSnap)
    /\ UNCHANGED <<review, screen, confirming, cancelling, rerun, feedback>>

\* Keep polling while the snapshot, shown or not, says the review is live.
PollArrives ==
    /\ ~left /\ poll = "answer"
    /\ failedPolls' = 0 /\ stalled' = FALSE
    /\ ApplyServerReview(pollSnap)
    /\ poll' = IF pollSnap.status \in Active THEN "timer" ELSE "off"
    /\ pollSnap' = Nothing
    /\ UNCHANGED <<review, left, confirming, cancelling, rerun, feedback>>

\* Mutant: a failed poll is retried and never counted.
PollFails_Uncounted ==
    /\ ~left /\ poll \in {"sent", "row", "answer"}
    /\ kind' = IF kind = "ready" THEN kind ELSE "waking"
    /\ poll' = "timer" /\ pollSnap' = Nothing
    /\ UNCHANGED <<review, shown, failedPolls, stalled, left, confirming>>
    /\ UNCHANGED <<cancelling, rerun, feedback>>

\* The request or its answer is lost, or a sleeping API is behind a 5xx.
PollFails ==
    /\ ~left /\ poll \in {"sent", "row", "answer"}
    /\ failedPolls' = failedPolls + 1
    /\ LET givenUp == failedPolls' > MaxWakePolls IN
       /\ stalled' = (stalled \/ givenUp)
       /\ kind' = IF kind = "ready" THEN kind
                  ELSE IF givenUp THEN "error" ELSE "waking"
       /\ poll' = IF givenUp THEN "off" ELSE "timer"
    /\ pollSnap' = Nothing
    /\ UNCHANGED <<review, shown, left, confirming, cancelling, rerun, feedback>>

\* "Try again" of the error state, "Reconnect" of the stalled banner.
Retry ==
    /\ ~left /\ confirming = "none"
    /\ kind = "error" \/ (kind = "ready" /\ stalled)
    /\ kind' = "loading" /\ shown' = Nothing
    /\ failedPolls' = 0 /\ stalled' = FALSE
    /\ poll' = "sent"
    /\ UNCHANGED <<review, left, confirming, pollSnap, cancelling, rerun, feedback>>

\* Any answer may be a 401; a poll in flight dies with the page.
SessionLost ==
    /\ ~left
    /\ poll \in {"sent", "row", "answer"} \/ cancelBusy \/ rerun # "idle" \/ save # "idle"
    /\ left' = TRUE
    /\ poll' = "off" /\ pollSnap' = Nothing
    /\ UNCHANGED <<review, kind, shown, failedPolls, stalled, confirming>>
    /\ UNCHANGED <<cancelling, rerun, feedback>>

-----------------------------------------------------------------------------
(* Cancelling: the page's cancel and the server's cancel_review.           *)

OpenCancel ==
    /\ ~left /\ kind = "ready" /\ confirming = "none"
    /\ shown.status \in Active
    /\ ~(cancelBusy \/ shown.asked \/ cancelSent)
    /\ confirming' = "cancel"
    /\ UNCHANGED <<review, screen, polling, cancelling, rerun, feedback>>

\* Mutant: "Cancelling..." as soon as the user confirms.
ConfirmCancel_Optimistic ==
    /\ ~left /\ kind = "ready" /\ confirming = "cancel" /\ ~cancelBusy
    /\ cancel = "idle"
    /\ cancel' = "sent" /\ cancelBusy' = TRUE /\ cancelSent' = TRUE
    /\ UNCHANGED <<review, screen, confirming, polling, cancelSnap, rerun, feedback>>

\* Bound: one cancel at a time reaches the server.
ConfirmCancel ==
    /\ ~left /\ kind = "ready" /\ confirming = "cancel" /\ ~cancelBusy
    /\ cancel = "idle"
    /\ cancel' = "sent" /\ cancelBusy' = TRUE
    /\ UNCHANGED <<review, screen, confirming, polling, cancelSnap, cancelSent>>
    /\ UNCHANGED <<rerun, feedback>>

CancelLoads ==
    /\ cancel = "sent"
    /\ cancel' = IF status \in Terminal THEN "refused" ELSE "loaded"
    /\ cancelSnap' = Read(1, Nothing)
    /\ UNCHANGED <<review, screen, confirming, polling, cancelBusy, cancelSent>>
    /\ UNCHANGED <<rerun, feedback>>

\* The flag goes up on a live job; only a queued one ends here and now.
CancelApplies ==
    /\ cancel = "loaded"
    /\ cancel' = "applied"
    /\ asked' = (asked \/ status \in Active)
    /\ IF status = "queued"
       THEN status' = "cancelled" /\ cancelSnap' = [cancelSnap EXCEPT !.status = "cancelled"]
       ELSE UNCHANGED <<status, cancelSnap>>
    /\ UNCHANGED <<tries, screen, confirming, polling, cancelBusy, cancelSent>>
    /\ UNCHANGED <<rerun, feedback>>

CancelReadsRest ==
    /\ cancel = "applied"
    /\ cancel' = "answer"
    /\ cancelSnap' = Read(2, cancelSnap)
    /\ UNCHANGED <<review, screen, confirming, polling, cancelBusy, cancelSent>>
    /\ UNCHANGED <<rerun, feedback>>

CancelArrives ==
    /\ ~left /\ cancel = "answer" /\ cancelBusy
    /\ cancelSent' = TRUE
    /\ ApplyServerReview(cancelSnap)
    /\ cancel' = "idle" /\ cancelSnap' = Nothing
    /\ cancelBusy' = FALSE /\ confirming' = "none"
    /\ UNCHANGED <<review, failedPolls, stalled, left, polling, rerun, feedback>>

CancelRefused ==
    /\ ~left /\ cancel = "refused" /\ cancelBusy
    /\ cancel' = "idle" /\ cancelSnap' = Nothing
    /\ cancelBusy' = FALSE /\ confirming' = "none"
    /\ UNCHANGED <<review, screen, polling, cancelSent, rerun, feedback>>

\* The page gives up on the request; the server may not have.
CancelFails ==
    /\ ~left /\ cancelBusy
    /\ cancelBusy' = FALSE /\ confirming' = "none"
    /\ UNCHANGED <<review, screen, polling, cancel, cancelSnap, cancelSent, rerun, feedback>>

\* A request nobody waits for ends anywhere before or after its work.
CancelDropped ==
    /\ cancel \in {"sent", "answer", "refused"}
    /\ left \/ ~cancelBusy
    /\ cancel' = "idle" /\ cancelSnap' = Nothing
    /\ UNCHANGED <<review, screen, confirming, polling, cancelBusy, cancelSent>>
    /\ UNCHANGED <<rerun, feedback>>

-----------------------------------------------------------------------------
(* Running the review again: the page's rerun and the server's.            *)

CloseDialog ==
    /\ ~left /\ confirming # "none" /\ ~cancelBusy /\ rerun = "idle"
    /\ confirming' = "none"
    /\ UNCHANGED <<review, screen, polling, cancelling, rerun, feedback>>

OpenRerun ==
    /\ ~left /\ kind = "ready" /\ confirming = "none"
    /\ shown.status \in Terminal \ {"superseded"}
    /\ confirming' = "rerun"
    /\ UNCHANGED <<review, screen, polling, cancelling, rerun, feedback>>

ConfirmRerun ==
    /\ ~left /\ kind = "ready" /\ confirming = "rerun" /\ rerun = "idle"
    /\ rerun' = "sent"
    /\ UNCHANGED <<review, screen, confirming, polling, cancelling, feedback>>

\* A new review takes over, or the server refuses: nothing changes.
RerunServed ==
    /\ rerun = "sent"
    /\ \/ /\ rerun' = "created"
          /\ status' = IF status = "completed" THEN "superseded" ELSE status
       \/ rerun' = "refused" /\ status' = status
    /\ UNCHANGED <<asked, tries, screen, confirming, polling, cancelling, feedback>>

\* The page follows the new review, or the one that stands in its way.
RerunArrives ==
    /\ ~left /\ rerun \in {"created", "refused"}
    /\ rerun' = "idle" /\ left' = TRUE
    /\ poll' = "off" /\ pollSnap' = Nothing
    /\ UNCHANGED <<review, kind, shown, failedPolls, stalled, confirming>>
    /\ UNCHANGED <<cancelling, feedback>>

\* The other refusals and a lost answer leave a note on the page.
RerunNoted ==
    /\ ~left /\ rerun # "idle"
    /\ rerun' = "idle" /\ confirming' = "none"
    /\ UNCHANGED <<review, screen, polling, cancelling, feedback>>

-----------------------------------------------------------------------------
(* Feedback: the page's giveFeedback, put_feedback and delete_feedback.    *)

\* mutateFinding
ShowVerdict(v) ==
    shown' = IF kind = "ready" THEN [shown EXCEPT !.verdict = v] ELSE shown

CanSave ==
    /\ ~left /\ kind = "ready" /\ confirming = "none"
    /\ shown.status \in HasFindings /\ save = "idle"

\* Mutant: the pressed button lights up also when it takes the verdict back.
GiveFeedback_AlwaysOn(v) ==
    /\ CanSave
    /\ saving' = IF shown.verdict = v THEN "none" ELSE v
    /\ previous' = shown.verdict
    /\ ShowVerdict(v)
    /\ save' = "sent"
    /\ UNCHANGED <<review, kind, failedPolls, stalled, left, confirming, polling>>
    /\ UNCHANGED <<cancelling, rerun, verdict, late, unsure, overtaken>>

\* The page shows the verdict, or its withdrawal, before the server has it.
GiveFeedback(v) ==
    /\ CanSave
    /\ saving' = IF shown.verdict = v THEN "none" ELSE v
    /\ previous' = shown.verdict
    /\ ShowVerdict(saving')
    /\ save' = "sent"
    /\ UNCHANGED <<review, kind, failedPolls, stalled, left, confirming, polling>>
    /\ UNCHANGED <<cancelling, rerun, verdict, late, unsure, overtaken>>

\* The upsert, or the DELETE of the row.
SaveStored ==
    /\ save = "sent"
    /\ save' = "stored" /\ verdict' = saving /\ overtaken' = FALSE
    /\ UNCHANGED <<review, screen, confirming, polling, cancelling, rerun>>
    /\ UNCHANGED <<saving, previous, late, unsure>>

SaveArrives ==
    /\ ~left /\ save = "stored"
    /\ save' = "idle" /\ saving' = "none" /\ previous' = "none"
    /\ unsure' = FALSE
    /\ UNCHANGED <<review, screen, confirming, polling, cancelling, rerun>>
    /\ UNCHANGED <<verdict, late, overtaken>>

\* The page rolls back.  The server may have stored the verdict, may still
\* store it, or never.  Bound: one save is late at a time.
SaveFails ==
    /\ ~left /\ save # "idle"
    /\ save' = "idle" /\ saving' = "none" /\ previous' = "none"
    /\ ShowVerdict(previous)
    /\ unsure' = TRUE
    /\ late' \in IF save = "sent" /\ late = {} THEN {{}, {saving}} ELSE {late}
    /\ UNCHANGED <<review, kind, failedPolls, stalled, left, confirming>>
    /\ UNCHANGED <<polling, cancelling, rerun, verdict, overtaken>>

\* The server runs a save the page has given up on; the page hears nothing.
LateSave ==
    /\ late # {}
    /\ verdict' \in late /\ late' = {} /\ overtaken' = TRUE
    /\ UNCHANGED <<review, screen, confirming, polling, cancelling, rerun>>
    /\ UNCHANGED <<save, saving, previous, unsure>>

-----------------------------------------------------------------------------
Poll == PollTimer \/ PollReads \/ PollArrives \/ PollFails
Cancel ==
    \/ OpenCancel \/ ConfirmCancel \/ CancelLoads \/ CancelApplies \/ CancelReadsRest
    \/ CancelArrives \/ CancelRefused \/ CancelFails \/ CancelDropped
Rerun ==
    OpenRerun \/ ConfirmRerun \/ RerunServed \/ RerunArrives \/ RerunNoted
Feedback ==
    (\E v \in Verdicts : GiveFeedback(v)) \/ SaveStored \/ SaveArrives \/ SaveFails \/ LateSave

Next ==
    \/ ReviewMoves \/ Poll \/ Retry \/ SessionLost
    \/ Cancel \/ Rerun \/ CloseDialog \/ Feedback

Spec == Init /\ [][Next]_vars

\* A timer fires, the API serves a read, and a request ends, well or badly.
\* Nothing is assumed of the network: every poll may fail.
PollsRun == WF_vars(Poll)

LiveSpec == Spec /\ PollsRun

-----------------------------------------------------------------------------
Snapshots ==
    [status : Active \cup Terminal \cup {"none"}, asked : BOOLEAN,
     findings : BOOLEAN, verdict : Verdicts \cup {"none"}]

CountersOK == tries \in 0..MaxTries /\ failedPolls \in 0..MaxWakePolls + 1

FlagsOK ==
    /\ asked \in BOOLEAN /\ stalled \in BOOLEAN /\ left \in BOOLEAN
    /\ cancelBusy \in BOOLEAN /\ cancelSent \in BOOLEAN
    /\ unsure \in BOOLEAN /\ overtaken \in BOOLEAN

TypeOK ==
    /\ CountersOK /\ FlagsOK
    /\ status \in Active \cup Terminal
    /\ kind \in {"loading", "waking", "ready", "error"}
    /\ confirming \in {"none", "cancel", "rerun"}
    /\ poll \in {"off", "timer", "sent", "row", "answer"}
    /\ cancel \in {"idle", "sent", "loaded", "applied", "answer", "refused"}
    /\ rerun \in {"idle", "sent", "created", "refused"}
    /\ save \in {"idle", "sent", "stored"}
    /\ {shown, pollSnap, cancelSnap} \subseteq Snapshots
    /\ {verdict, saving, previous} \cup late \subseteq Verdicts \cup {"none"}

ShowsFindings == kind = "ready" /\ shown.status \in HasFindings

\* A page that shows a live review is watching it, or says it has stopped: no
\* order of polls and cancel answers leaves a live status nobody refreshes
\* (applyServerReview and keepPolling, page.tsx).
WatchedWhileActive ==
    kind = "ready" /\ shown.status \in Active => poll # "off" \/ stalled \/ left

\* A review the page shows as completed or superseded is shown with its
\* findings: a poll that straddles the worker's commit cannot pair the new
\* status with the old, empty list (get_review, reviews.py).
CompletedShowsFindings == ShowsFindings => shown.findings

\* "Cancelling..." on the page's own word is true: the flag is up, or the
\* review has ended in the meantime (setCancelSent after the await, page.tsx).
CancellingIsTrue == cancelSent => asked \/ status \in Terminal

\* With no save in flight the verdict on screen is the stored one, also when a
\* verdict is taken back, pressed twice or rolled back, with two exceptions:
\* the last the page heard was that a save had failed, or a save it had given
\* up on ran after the last one it was told of (giveFeedback, put_feedback).
FeedbackIsShown ==
    ShowsFindings /\ save = "idle" /\ ~unsure /\ ~overtaken => shown.verdict = verdict

\* The watching itself: before anything is shown the page polls; polls that
\* may run are within their allowance; a page that is left, or that shows the
\* findings, has no poll that could still change it.
Watching ==
    /\ kind \in {"loading", "waking"} => poll # "off" \/ left
    /\ poll # "off" => failedPolls <= MaxWakePolls
    /\ left => poll = "off"
    /\ ShowsFindings => poll = "off" /\ ~stalled
    /\ confirming # "none" => kind = "ready"
    /\ cancelBusy => confirming = "cancel"
    /\ rerun # "idle" => confirming = "rerun"

\* What the answers under way can say.
Answers ==
    /\ poll = "row" /\ pollSnap.status \in HasFindings => status \in HasFindings
    /\ poll = "answer" /\ pollSnap.status \in HasFindings =>
           pollSnap.findings /\ pollSnap.verdict = verdict
    /\ cancel \in {"loaded", "applied", "answer"} =>
           cancelSnap.status \in Active \cup {"cancelled"}
    /\ cancel \in {"applied", "answer"} => asked \/ status \in Terminal

\* Feedback is given on findings that are on screen, optimistically.
Saving ==
    /\ save # "idle" \/ late # {} \/ unsure \/ overtaken => ShowsFindings
    /\ save # "idle" => shown.verdict = saving
    /\ save = "stored" /\ ~overtaken => verdict = saving

IInv ==
    /\ TypeOK /\ Watching /\ Answers /\ Saving
    /\ WatchedWhileActive /\ CompletedShowsFindings
    /\ CancellingIsTrue /\ FeedbackIsShown

\* What has ended on screen stays as it is until the page reloads, whatever
\* snapshot arrives late: only a verdict may still change (applyServerReview).
TerminalStays ==
    [][kind = "ready" /\ shown.status \in Terminal /\ kind' = "ready"
       => [shown' EXCEPT !.verdict = "none"] = [shown EXCEPT !.verdict = "none"]]_vars

\* When the review has ended, the page shows it ended, or admits that it has
\* lost contact, or has been left: it never waits for ever behind a review
\* that is over (MAX_WAKE_POLLS and the poll's retry, page.tsx).
PageCatchesUp ==
    status \in Terminal
    ~> (kind = "ready" /\ shown.status \in Terminal) \/ kind = "error" \/ stalled \/ left

-----------------------------------------------------------------------------
(* What the repository says and these steps do not do.                     *)

\* findings.py:4 "racing saves resolve by commit order (the UI serializes
\* per-finding clicks, so a user cannot race themselves)": with no save in
\* flight, a verdict the page was told is stored is the stored one, whatever
\* became of the saves before it.
HeardIsStored == ShowsFindings /\ save = "idle" /\ ~unsure => shown.verdict = verdict

\* page.tsx:269 "review_finished: the next poll shows the final state": when a
\* cancel is refused because the review has finished, there is a next poll, or
\* the final state is already shown.
RefusedCancelIsPolled ==
    [][CancelRefused => poll # "off" \/ shown.status \in Terminal]_vars
=============================================================================
