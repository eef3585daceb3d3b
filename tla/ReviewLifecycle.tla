--------------------------- MODULE ReviewLifecycle ---------------------------
(***************************************************************************)
(* What a caller of the review API is promised, with no workers, queue or  *)
(* heartbeats in sight: a review is queued, is tried a bounded number of   *)
(* times, may be asked to stop, and ends once, with findings exactly when  *)
(* it completed.  One sweep or rerun may move several reviews at once, so  *)
(* a step moves each review by one of the moves below or leaves it alone.  *)
(***************************************************************************)
EXTENDS Naturals

CONSTANTS Reviews, MaxTries

VARIABLES phase, tries, asked, published

view == <<phase, tries, asked, published>>

Live == {"queued", "running"}

Init ==
    /\ phase = [r \in Reviews |-> "absent"]
    /\ tries = [r \in Reviews |-> 0]
    /\ asked = [r \in Reviews |-> FALSE]
    /\ published = [r \in Reviews |-> FALSE]

Still(r) ==
    /\ phase'[r] = phase[r] /\ tries'[r] = tries[r]
    /\ asked'[r] = asked[r] /\ published'[r] = published[r]

\* The review leaves the phase `from` for `to`; the rest of it as stated.
Move(r, from, to) == phase[r] = from /\ phase'[r] = to

Submit(r) ==
    /\ Move(r, "absent", "queued")
    /\ tries'[r] = 0 /\ ~asked'[r] /\ ~published'[r]

Try(r) ==
    /\ Move(r, "queued", "running")
    /\ tries[r] < MaxTries /\ tries'[r] = tries[r] + 1
    /\ asked'[r] = asked[r] /\ published'[r] = published[r]

PutBack(r) ==
    /\ Move(r, "running", "queued")
    /\ tries[r] < MaxTries /\ tries'[r] = tries[r]
    /\ asked'[r] = asked[r] /\ published'[r] = published[r]

\* Only a review nobody asked to stop publishes its findings.
Publish(r) ==
    /\ Move(r, "running", "completed")
    /\ ~asked[r] /\ ~asked'[r]
    /\ published'[r] /\ tries'[r] = tries[r]

GiveUp(r) ==
    /\ Move(r, "running", "failed")
    /\ tries'[r] = tries[r] /\ asked'[r] = asked[r] /\ published'[r] = published[r]

AskToStop(r) ==
    /\ phase[r] \in Live /\ phase'[r] = phase[r] /\ asked'[r]
    /\ tries'[r] = tries[r] /\ published'[r] = published[r]

\* Stopping is the answer to a request, made now or earlier.
Stop(r) ==
    /\ phase[r] \in Live /\ phase'[r] = "cancelled" /\ asked'[r]
    /\ tries'[r] = tries[r] /\ published'[r] = published[r]

Moves(r) ==
    \/ Submit(r) \/ Try(r) \/ PutBack(r) \/ Publish(r) \/ GiveUp(r)
    \/ AskToStop(r) \/ Stop(r)

Next == \A r \in Reviews : Moves(r) \/ Still(r)

\* A review that was submitted ends.
EveryReviewEnds == \A r \in Reviews : phase[r] = "queued" ~> phase[r] \notin Live

Spec == Init /\ [][Next]_view
=============================================================================
