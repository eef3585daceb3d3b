---------------------------- MODULE RateLimiter ----------------------------
(***************************************************************************)
(* Fixed-window request limits, counted in Redis and failing open.         *)
(*                                                                         *)
(* A request reads the clock, which names its counter, and then sends one  *)
(* transaction (INCR, EXPIRE NX) to Redis.  Other requests, the clock and  *)
(* an outage may come in between, or between the transaction and its       *)
(* answer.  Seconds are whole, as int(time.time()) is; a key set within a  *)
(* second may go at any moment of the second its lifetime ends in.         *)
(***************************************************************************)
EXTENDS Integers, FiniteSets

CONSTANTS
    Callers,      \* identities that are limited: a user, an address
    Requests,     \* requests under one limit
    NoCaller,     \* of a request that has not been seen yet
    MaxRequests,  \* Limit.max_requests
    Window,       \* Limit.window_s
    MaxResends,   \* times the client library sends a transaction again, at most
    MaxDelay,     \* longest a request waits for Redis: its timeouts
    MaxTime       \* bound: seconds on the clock

ASSUME LimiterAssumption ==
    /\ IsFiniteSet(Requests) /\ NoCaller \notin Callers
    /\ MaxRequests \in Nat \ {0} /\ Window \in Nat \ {0}
    /\ MaxDelay \in Nat /\ MaxDelay < Window
    /\ MaxResends \in Nat /\ MaxTime \in Nat

VARIABLES
    now,      \* the clock
    step,     \* where the limiter stands with a request
    caller,   \* whose a request is taken to be
    stamp,    \* the time it read
    hit,      \* history: the time Redis counted it
    resent,   \* the sendings that were executed, unheard, and followed by another
    counter   \* Redis: per caller and window, the count and when it expires

limiterVars == <<now, step, caller, stamp, hit, resent, counter>>

Times == 0..MaxTime
WindowOf(t) == t \div Window
Windows == 0..WindowOf(MaxTime)

\* A request, and how often its transaction has been sent so far.
Sendings == Requests \X (1..MaxResends)

\* No count yet, or none any more.
NoCount == [used |-> 0, until |-> 0]

Steps == {"idle", "stamped", "admitted", "open", "refused"}

LimiterInit ==
    /\ now = 0
    /\ step = [r \in Requests |-> "idle"]
    /\ caller = [r \in Requests |-> NoCaller]
    /\ stamp = [r \in Requests |-> 0]
    /\ hit = [r \in Requests |-> 0]
    /\ resent = {}
    /\ counter = [k \in Callers \X Windows |-> NoCount]

-----------------------------------------------------------------------------
(* check: count one request against a limit.                               *)

\* Mutant: one counter for everybody.
Key_Shared(r) == <<CHOOSE c \in Callers : TRUE, WindowOf(stamp[r])>>
\* _window_key: the window is part of the key.
Key(r) == <<caller[r], WindowOf(stamp[r])>>

\* The caller is identified and the clock read; the count comes later.
Stamp(r, c) ==
    /\ step[r] = "idle"
    /\ caller' = [caller EXCEPT ![r] = c]
    /\ step' = [step EXCEPT ![r] = "stamped"]
    /\ stamp' = [stamp EXCEPT ![r] = now]
    /\ UNCHANGED <<now, hit, resent, counter>>

\* Mutant: the lifetime is half a window.
Increment_Short(k) ==
    \E fresh \in BOOLEAN :
        /\ (counter[k].used = 0 \/ now > counter[k].until) => fresh
        /\ fresh => (counter[k].used = 0 \/ now >= counter[k].until)
        /\ counter' = [counter EXCEPT ![k] =
              IF fresh THEN [used |-> 1, until |-> now + Window \div 2]
                       ELSE [used |-> @.used + 1, until |-> @.until]]

\* INCR and EXPIRE NX in one transaction: the first hit creates the counter and
\* sets its lifetime, later ones leave the lifetime alone.
Increment(k) ==
    \E fresh \in BOOLEAN :
        /\ (counter[k].used = 0 \/ now > counter[k].until) => fresh
        /\ fresh => (counter[k].used = 0 \/ now >= counter[k].until)
        /\ counter' = [counter EXCEPT ![k] =
              IF fresh THEN [used |-> 1, until |-> now + Window]
                       ELSE [used |-> @.used + 1, until |-> @.until]]

Verdict(used) == IF used > MaxRequests THEN "refused" ELSE "admitted"

\* Redis counts the request and answers.
Count(r) ==
    /\ step[r] = "stamped"
    /\ Increment(Key(r))
    /\ hit' = [hit EXCEPT ![r] = now]
    /\ step' = [step EXCEPT ![r] = Verdict(counter'[Key(r)].used)]
    /\ UNCHANGED <<now, caller, stamp, resent>>

\* Redis counts the request, its answer is lost, and the library tries again, as long
\* as its retries last.
CountAgain(r) ==
    /\ step[r] = "stamped"
    /\ \E n \in 1..MaxResends :
          /\ <<r, n>> \notin resent /\ \A m \in 1..(n - 1) : <<r, m>> \in resent
          /\ resent' = resent \cup {<<r, n>>}
    /\ Increment(Key(r))
    /\ UNCHANGED <<now, step, caller, stamp, hit>>

\* Redis counts the request, and its answer is lost: let in.
CountUnheard(r) ==
    /\ step[r] = "stamped"
    /\ Increment(Key(r))
    /\ step' = [step EXCEPT ![r] = "open"]
    /\ UNCHANGED <<now, caller, stamp, hit, resent>>

\* Redis is away: let in, uncounted.
Unreached(r) ==
    /\ step[r] = "stamped"
    /\ step' = [step EXCEPT ![r] = "open"]
    /\ UNCHANGED <<now, caller, stamp, hit, resent, counter>>

\* Time passes, but a request does not wait longer than its timeouts.
Tick ==
    /\ now < MaxTime
    /\ \A r \in Requests : step[r] = "stamped" => now < stamp[r] + MaxDelay
    /\ now' = now + 1
    /\ UNCHANGED <<step, caller, stamp, hit, resent, counter>>

\* Mutant: the rest of the window is taken for its length.
RetryAfter_Rest(t) == IF (t % Window) > 1 THEN t % Window ELSE 1

\* _retry_after_s: what a refused caller is told to wait.
RetryAfter(t) == IF Window - (t % Window) > 1 THEN Window - (t % Window) ELSE 1

-----------------------------------------------------------------------------
LimiterTypeOK ==
    /\ now \in Times
    /\ step \in [Requests -> Steps]
    /\ caller \in [Requests -> Callers \cup {NoCaller}]
    /\ stamp \in [Requests -> Times] /\ hit \in [Requests -> Times]
    /\ resent \subseteq Sendings
    /\ counter \in [Callers \X Windows -> [used : Nat, until : Nat]]

\* The requests of a caller that were stamped in window w and let in by its counter,
\* before the window was over.
InTime(c, w) ==
    {r \in Requests : /\ caller[r] = c /\ step[r] = "admitted"
                      /\ WindowOf(stamp[r]) = w /\ WindowOf(hit[r]) = w}

\* A window lets in no more of a caller's requests than the limit: no interleaving of
\* theirs and no expiry within the window gives them a second allowance
\* (rate_limit.py:53-56, 94-123).  Those an outage lets in are not counted.
WindowLimit ==
    \A c \in Callers, w \in Windows : Cardinality(InTime(c, w)) <= MaxRequests

\* The transactions Redis may have executed on the counter of c and w: those of the
\* requests that are through, and those that were followed by another sending.
Through(c, w) ==
    {q \in Requests : /\ step[q] \in {"admitted", "open", "refused"}
                      /\ caller[q] = c /\ WindowOf(stamp[q]) = w}
Again(c, w) == {s \in resent : caller[s[1]] = c /\ WindowOf(stamp[s[1]]) = w}
Sent(c, w) == Cardinality(Through(c, w)) + Cardinality(Again(c, w))

\* A request is refused only when its own caller has used up this very window, counting
\* every time a transaction was sent; and coming back after the seconds it is told, it
\* meets a new one, no later than a whole window away (rate_limit.py:53-60, 114-123).
RefusedForCause ==
    \A r \in Requests : step[r] = "refused" =>
        /\ Sent(caller[r], WindowOf(stamp[r])) > MaxRequests
        /\ WindowOf(stamp[r] + RetryAfter(stamp[r])) = WindowOf(stamp[r]) + 1
        /\ RetryAfter(stamp[r]) \in 1..Window

(* What makes them inductive.                                              *)

\* A request under way knows its caller; what it read on the clock is past.
StampsPassed ==
    \A r \in Requests :
        /\ hit[r] <= now
        /\ step[r] # "idle" => caller[r] \in Callers /\ stamp[r] <= now

\* A counter outlives the window it counts.
KeysOutlive ==
    \A c \in Callers, w \in Windows :
        counter[<<c, w>>].used > 0 => WindowOf(counter[<<c, w>>].until) > w

\* Until its window is over a counter counts every request it let in.
Counted ==
    \A c \in Callers, w \in Windows :
        WindowOf(now) <= w => Cardinality(InTime(c, w)) <= counter[<<c, w>>].used

\* A counter counts nothing but transactions that were sent.
UsedWasSent ==
    \A c \in Callers, w \in Windows : counter[<<c, w>>].used <= Sent(c, w)

LimiterIInv ==
    /\ LimiterTypeOK /\ StampsPassed /\ KeysOutlive
    /\ Counted /\ WindowLimit /\ UsedWasSent /\ RefusedForCause
=============================================================================
