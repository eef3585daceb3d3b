---------------------------- MODULE ContactForm ----------------------------
(***************************************************************************)
(* The public contact form, from the visitor's page to the operator's      *)
(* mailbox.                                                                *)
(*                                                                         *)
(* A visitor has one message and sends it, again when the page showed an   *)
(* error.  Each submission passes the rate limiter, is stored in one       *)
(* commit, is then offered to the mail provider and at last marked in      *)
(* another commit.  A call may fail, an answer may be lost, the process    *)
(* may die between any two steps.                                          *)
(***************************************************************************)
EXTENDS RateLimiter

CONSTANTS
    Senders,    \* people and bots with the page open
    SenderOf    \* whose each submission is

ASSUME SenderAssumption == SenderOf \in [Requests -> Senders]

VARIABLES
    configured,  \* are the mail settings there?
    trapped,     \* visitors whose form fills the hidden field
    form,        \* a visitor's page
    awaited,     \* submissions whose answer a page waits for
    at,          \* where the handler of a submission stands
    reply,       \* what it answered
    stored,      \* submissions with a row
    mailed,      \* submissions the mail provider accepted
    forwarded    \* submissions whose row says so

contactVars == <<configured, trapped, form, awaited, at, reply, stored, mailed, forwarded>>
formVars == <<limiterVars, contactVars>>

settings == <<configured, trapped>>
pages == <<form, awaited>>
records == <<stored, mailed, forwarded>>

ContactInit ==
    /\ LimiterInit
    /\ configured \in BOOLEAN
    /\ trapped \in SUBSET Senders
    /\ form = [v \in Senders |-> "editing"]
    /\ awaited = {}
    /\ at = [r \in Requests |-> "unsent"]
    /\ reply = [r \in Requests |-> "none"]
    /\ stored = {} /\ mailed = {} /\ forwarded = {}

-----------------------------------------------------------------------------
(* The page.                                                               *)

\* One submission at a time: the button is disabled meanwhile.
Send(r) ==
    /\ form[SenderOf[r]] \in {"editing", "error"} /\ at[r] = "unsent"
    /\ form' = [form EXCEPT ![SenderOf[r]] = "busy"]
    /\ awaited' = awaited \cup {r}
    /\ at' = [at EXCEPT ![r] = "limit"]
    /\ UNCHANGED <<limiterVars, settings, reply, records>>

Show(r, what) ==
    /\ form' = [form EXCEPT ![SenderOf[r]] = what]
    /\ awaited' = awaited \ {r}
    /\ UNCHANGED <<limiterVars, settings, at, reply, records>>

\* Mutant: any answer is taken for success.
Hear_Any(r) ==
    /\ r \in awaited /\ at[r] = "answered"
    /\ Show(r, "sent")

\* The answer arrives: sent, or an error and the form is there again.
Hear(r) ==
    /\ r \in awaited /\ at[r] = "answered"
    /\ Show(r, IF reply[r] = "ok" THEN "sent" ELSE "error")

\* The connection breaks; the handler, if it lives, goes on.
HearNothing(r) == r \in awaited /\ Show(r, "error")

-----------------------------------------------------------------------------
(* create_contact_message and forward.                                     *)

Answer(r, what) ==
    /\ reply' = [reply EXCEPT ![r] = what]
    /\ at' = [at EXCEPT ![r] = "answered"]

Goto(r, place) == at' = [at EXCEPT ![r] = place] /\ UNCHANGED reply

\* The dependency, one of its steps at a time; a visitor may come from any address.
Limit(r) ==
    /\ at[r] = "limit"
    /\ (\E c \in Callers : Stamp(r, c)) \/ Count(r) \/ CountAgain(r) \/ CountUnheard(r) \/ Unreached(r)
    /\ UNCHANGED contactVars

TurnAway(r) ==
    /\ at[r] = "limit" /\ step[r] = "refused"
    /\ Answer(r, "refused")
    /\ UNCHANGED <<limiterVars, settings, pages, records>>

LetThrough(r) == at[r] = "limit" /\ step[r] \in {"admitted", "open"}

\* The hidden field is filled: the answer of a success, and nothing kept.
Trap(r) ==
    /\ LetThrough(r) /\ SenderOf[r] \in trapped
    /\ Answer(r, "ok")
    /\ UNCHANGED <<limiterVars, settings, pages, records>>

\* The row is committed, before any mail.
Store(r) ==
    /\ LetThrough(r) /\ SenderOf[r] \notin trapped
    /\ stored' = stored \cup {r}
    /\ IF configured THEN Goto(r, "post") ELSE Answer(r, "ok")
    /\ UNCHANGED <<limiterVars, settings, pages, mailed, forwarded>>

\* The commit fails, or happens and its answer is lost.
StoreFails(r) ==
    /\ LetThrough(r) /\ SenderOf[r] \notin trapped
    /\ stored' \in {stored, stored \cup {r}}
    /\ Answer(r, "error")
    /\ UNCHANGED <<limiterVars, settings, pages, mailed, forwarded>>

\* The provider takes the message and says so.
Post(r) ==
    /\ at[r] = "post"
    /\ mailed' = mailed \cup {r}
    /\ Goto(r, "mark")
    /\ UNCHANGED <<limiterVars, settings, pages, stored, forwarded>>

\* Mutant: an answer that says no is not looked at.
PostFails_Unchecked(r) ==
    /\ at[r] = "post"
    /\ mailed' \in {mailed, mailed \cup {r}}
    /\ Goto(r, "mark")
    /\ UNCHANGED <<limiterVars, settings, pages, stored, forwarded>>

\* It refuses or is away, or takes the message and its answer is lost.
PostFails(r) ==
    /\ at[r] = "post"
    /\ mailed' \in {mailed, mailed \cup {r}}
    /\ Answer(r, "ok")
    /\ UNCHANGED <<limiterVars, settings, pages, stored, forwarded>>

Mark(r) ==
    /\ at[r] = "mark"
    /\ forwarded' = forwarded \cup {r}
    /\ Answer(r, "ok")
    /\ UNCHANGED <<limiterVars, settings, pages, stored, mailed>>

\* So does this one, which stands outside the except clause.
MarkFails(r) ==
    /\ at[r] = "mark"
    /\ forwarded' \in {forwarded, forwarded \cup {r}}
    /\ Answer(r, "error")
    /\ UNCHANGED <<limiterVars, settings, pages, stored, mailed>>

\* The process dies with the submission in its hands.
HandlerDies(r) ==
    /\ at[r] \in {"limit", "post", "mark"}
    /\ at' = [at EXCEPT ![r] = "dead"]
    /\ step' = [step EXCEPT ![r] = IF @ = "stamped" THEN "idle" ELSE @]
    /\ UNCHANGED <<now, caller, stamp, hit, resent, counter, settings, pages, reply, records>>

Pass == Tick /\ UNCHANGED contactVars

ContactNext ==
    \/ Pass
    \/ \E r \in Requests :
          \/ Send(r) \/ Hear(r) \/ HearNothing(r)
          \/ Limit(r) \/ TurnAway(r) \/ Trap(r) \/ Store(r) \/ StoreFails(r)
          \/ Post(r) \/ PostFails(r) \/ Mark(r) \/ MarkFails(r) \/ HandlerDies(r)

ContactSpec == ContactInit /\ [][ContactNext]_formVars

-----------------------------------------------------------------------------
Places == {"unsent", "limit", "post", "mark", "answered", "dead"}

ContactTypeOK ==
    /\ LimiterTypeOK
    /\ configured \in BOOLEAN /\ trapped \subseteq Senders
    /\ form \in [Senders -> {"editing", "busy", "error", "sent"}]
    /\ awaited \subseteq Requests
    /\ at \in [Requests -> Places]
    /\ reply \in [Requests -> {"none", "ok", "refused", "error"}]
    /\ stored \subseteq Requests /\ mailed \subseteq Requests /\ forwarded \subseteq Requests

\* Only a stored message is mailed, only a mailed one is marked, and nothing of a
\* trapped form is kept.
RecordIsTrue ==
    /\ forwarded \subseteq mailed /\ mailed \subseteq stored
    /\ \A r \in stored : SenderOf[r] \notin trapped

\* A visitor who reads "Your message was sent." has a message in the table, whatever
\* became of the mail; only a form that filled the hidden field is told so in vain.
SentIsStored ==
    \A v \in Senders : form[v] = "sent" =>
        v \in trapped \/ \E r \in stored : SenderOf[r] = v

\* Storage is truth: what the visitor is told, the mailbox holds and the row says all
\* follow from a stored message, through retries, lost answers and dead processes
\* (contact_forward.py:3-8, contact.py:72-85, ContactForm.tsx:24-37).
StorageIsTruth == RecordIsTrue /\ SentIsStored

\* What makes it inductive: what a handler did before it got where it stands, and that
\* a transaction sent again belongs to a request that is past its stamp.
Trail ==
    \A r \in Requests :
        /\ at[r] \in {"post", "mark"} => r \in stored
        /\ at[r] = "mark" => r \in mailed
        /\ reply[r] = "ok" => SenderOf[r] \in trapped \/ r \in stored
        /\ (\E n \in 1..MaxResends : <<r, n>> \in resent) =>
              at[r] # "unsent" /\ (at[r] = "limit" => step[r] # "idle")
        /\ at[r] = "unsent" => step[r] = "idle"

ContactIInv == ContactTypeOK /\ LimiterIInv /\ Trail /\ StorageIsTruth

\* contact_forward.py:3-5: "the row is committed before this module is asked to do
\* anything, and nothing that happens here can fail the request."
ForwardingNeverFails ==
    \A r \in Requests : r \in mailed => reply[r] # "error"

\* contact_forward.py:36-37: "so an operator can see exactly which messages never went out".
UnmarkedNeverWent ==
    \A r \in Requests : (at[r] = "answered" /\ r \notin forwarded) => r \notin mailed
=============================================================================
