-------------------------- MODULE GithubConnection --------------------------
(***************************************************************************)
(* The life of one account's GitHub token: sign-ins that store one,        *)
(* requests and workers that load it, hold it across calls to GitHub, and  *)
(* flag the connection when GitHub refuses it or it does not decrypt.      *)
(*                                                                         *)
(* A step is a statement that another process can come before: a sign-in   *)
(* is cut at its exchange with GitHub, its SELECT of the user, the flush   *)
(* that takes the user's row lock, and its commit; a request at its load,  *)
(* GitHub's answer and the two statements that flag.  A token is numbered  *)
(* by its issue and a stored secret is a token under an encryption key.    *)
(* The state cookie and the authorization code are one outcome of the      *)
(* exchange; a session's expiry is a logout.                               *)
(***************************************************************************)
EXTENDS Naturals, OrmRow

CONSTANTS
    Browsers,     \* sign-ins that may be in flight at once
    Requests,     \* API requests that talk to GitHub
    Workers,      \* worker runs that talk to GitHub
    NoBrowser,    \* nobody holds the user's row lock
    MaxTokens,    \* bound: tokens GitHub issues
    MaxKeys       \* bound: encryption keys the deployment goes through

ASSUME HoldersApart == Requests \cap Workers = {}
ASSUME NobodyIsNoBrowser == NoBrowser \notin Browsers
ASSUME ConnectionBounds == MaxTokens \in Nat /\ MaxKeys \in Nat

Holders == Requests \cup Workers
NoSecret == [token |-> 0, key |-> 0]
NoRow == [secret |-> NoSecret, invalid |-> FALSE]

VARIABLES
    issued,       \* tokens GitHub has issued: 1..issued
    accepted,     \* those it still accepts
    key,          \* the encryption key of the running processes
    account,      \* the users row exists
    conn,         \* the provider_connections row, NoRow when there is none
    sessions,     \* browsers whose session row exists
    lock,         \* the sign-in that wrote the user's row and has not committed
    step,         \* where a sign-in stands
    fresh,        \* the token it exchanged its code for
    found,        \* its SELECT found the user
    loaded,       \* the connection row as it loaded it
    page,         \* what a browser was last shown, none while it is at GitHub
    pc,           \* where a request or a worker run stands
    held,         \* the token it loaded
    flagRead      \* token_invalid as mark_token_invalid loaded it

github == <<issued, accepted>>
signIn == <<step, fresh, found, loaded, page>>
use == <<pc, held, flagRead>>
vars == <<github, key, account, conn, sessions, lock, signIn, use>>

Init ==
    /\ issued = 0 /\ accepted = {}
    /\ key = 1
    /\ account = FALSE /\ conn = NoRow /\ sessions = {}
    /\ lock = NoBrowser
    /\ step = [b \in Browsers |-> "idle"]
    /\ fresh = [b \in Browsers |-> 0]
    /\ found = [b \in Browsers |-> FALSE]
    /\ loaded = [b \in Browsers |-> NoRow]
    /\ page = [b \in Browsers |-> "none"]
    /\ pc = [h \in Holders |-> "idle"]
    /\ held = [h \in Holders |-> 0]
    /\ flagRead = [h \in Holders |-> FALSE]

-----------------------------------------------------------------------------
(* The environment.                                                        *)

\* The user revokes a grant, or GitHub drops an old token.
Revoke(t) ==
    /\ accepted' = accepted \ {t}
    /\ UNCHANGED <<issued, key, account, conn, sessions, lock, signIn, use>>

Readable == conn.secret.key = key

-----------------------------------------------------------------------------
(* A sign-in: github_callback.                                             *)

Ends(b, shown) ==
    /\ step' = [step EXCEPT ![b] = "idle"]
    /\ fresh' = [fresh EXCEPT ![b] = 0]
    /\ found' = [found EXCEPT ![b] = FALSE]
    /\ loaded' = [loaded EXCEPT ![b] = NoRow]
    /\ page' = [page EXCEPT ![b] = shown]

\* Declined, expired, or GitHub refuses the code or does not answer.
BackToLogin(b) ==
    /\ step[b] = "idle"
    /\ Ends(b, "login")
    /\ UNCHANGED <<github, key, account, conn, sessions, lock, use>>

\* GitHub exchanges the code and answers who the user is.
Exchange(b) ==
    /\ step[b] = "idle" /\ issued < MaxTokens
    /\ issued' = issued + 1
    /\ accepted' = accepted \cup {issued + 1}
    /\ fresh' = [fresh EXCEPT ![b] = issued + 1]
    /\ step' = [step EXCEPT ![b] = "find"]
    /\ page' = [page EXCEPT ![b] = "none"]
    /\ UNCHANGED <<key, account, conn, sessions, lock, found, loaded, use>>

FindUser(b) ==
    /\ step[b] = "find"
    /\ found' = [found EXCEPT ![b] = account]
    /\ step' = [step EXCEPT ![b] = "flush"]
    /\ UNCHANGED <<github, key, account, conn, sessions, lock, fresh, loaded, page, use>>

\* Mutant: the connection is loaded without the lock of the user's row.
Flush_NoLock(b) ==
    /\ step[b] = "flush"
    /\ loaded' = [loaded EXCEPT ![b] = conn]
    /\ step' = [step EXCEPT ![b] = "commit"]
    /\ UNCHANGED <<fresh, found, page, lock, github, key, account, conn, sessions, use>>

\* The INSERT or UPDATE of the user waits for another sign-in's commit; an
\* INSERT that lost to one is refused by uq_users_github_id, and nothing
\* catches that.  The connection is loaded behind it, in the same transaction.
Flush(b) ==
    /\ step[b] = "flush" /\ lock = NoBrowser
    /\ IF account /\ ~found[b]
       THEN Ends(b, "server_error") /\ lock' = lock
       ELSE /\ lock' = b
            /\ loaded' = [loaded EXCEPT ![b] = conn]
            /\ step' = [step EXCEPT ![b] = "commit"]
            /\ UNCHANGED <<fresh, found, page>>
    /\ UNCHANGED <<github, key, account, conn, sessions, use>>

Assigned(b) == [secret |-> [token |-> fresh[b], key |-> key], invalid |-> FALSE]

\* One commit: user, connection and session.
Commit(b) ==
    /\ step[b] = "commit"
    /\ account' = TRUE
    /\ conn' = IF loaded[b] = NoRow THEN Assigned(b)
               ELSE NetChange(conn, loaded[b], Assigned(b))
    /\ sessions' = sessions \cup {b}
    /\ lock' = NoBrowser
    /\ Ends(b, "dashboard")
    /\ UNCHANGED <<github, key, use>>

Logout(b) ==
    /\ b \in sessions
    /\ sessions' = sessions \ {b}
    /\ UNCHANGED <<github, key, account, conn, lock, signIn, use>>

-----------------------------------------------------------------------------
(* Using the token: get_github_client, mark_token_invalid, the worker.     *)

Done(h) ==
    /\ pc' = [pc EXCEPT ![h] = "idle"]
    /\ held' = [held EXCEPT ![h] = 0]
    /\ flagRead' = [flagRead EXCEPT ![h] = FALSE]

Flag == conn' = IF conn = NoRow THEN conn ELSE [conn EXCEPT !.invalid = TRUE]

\* A request needs a session; a worker runs whether anyone is signed in or not
\* and retries later when the secret does not decrypt.
Load(h) ==
    /\ pc[h] = "idle"
    /\ h \in Requests => sessions # {}
    /\ conn # NoRow /\ ~conn.invalid
    /\ Readable \/ h \in Requests
    /\ held' = [held EXCEPT ![h] = conn.secret.token]
    /\ pc' = [pc EXCEPT ![h] = IF Readable THEN "call" ELSE "unreadable"]
    /\ UNCHANGED <<github, key, account, conn, sessions, lock, signIn, flagRead>>

\* The flag was loaded as false, so it is a net change whatever the row is now.
FlagUnreadable(h) ==
    /\ pc[h] = "unreadable"
    /\ Flag
    /\ Done(h)
    /\ UNCHANGED <<github, key, account, sessions, lock, signIn>>

\* GitHub serves the call, or refuses it for a reason that is not the token
\* (404, rate limit, an outage).
Answered(h) ==
    /\ pc[h] = "call"
    /\ Done(h)
    /\ UNCHANGED <<github, key, account, conn, sessions, lock, signIn>>

\* Mutant: any refusal (403, 404) is taken for a dead token.
Refuses_Whatever(h) == pc[h] = "call"

Refuses(h) == pc[h] = "call" /\ held[h] \notin accepted

RequestRefused(r) ==
    /\ Refuses(r)
    /\ pc' = [pc EXCEPT ![r] = "mark"]
    /\ UNCHANGED <<github, key, account, conn, sessions, lock, signIn, held, flagRead>>

MarkLoads(r) ==
    /\ pc[r] = "mark"
    /\ flagRead' = [flagRead EXCEPT ![r] = conn.invalid]
    /\ pc' = [pc EXCEPT ![r] = "write"]
    /\ UNCHANGED <<github, key, account, conn, sessions, lock, signIn, held>>

MarkWrites(r) ==
    /\ pc[r] = "write"
    /\ IF flagRead[r] THEN conn' = conn ELSE Flag
    /\ Done(r)
    /\ UNCHANGED <<github, key, account, sessions, lock, signIn>>

\* The UPDATE and the fenced failure of the job are one transaction: a worker
\* that lost its job rolls the flag back with it.
WorkerRefused(w) ==
    /\ Refuses(w)
    /\ Flag \/ conn' = conn
    /\ Done(w)
    /\ UNCHANGED <<github, key, account, sessions, lock, signIn>>

-----------------------------------------------------------------------------
(* A process dies with what it had not committed.                          *)

SignInDies(b) ==
    /\ step[b] # "idle"
    /\ Ends(b, "none")
    /\ lock' = IF lock = b THEN NoBrowser ELSE lock
    /\ UNCHANGED <<github, key, account, conn, sessions, use>>

HolderDies(h) ==
    /\ pc[h] # "idle"
    /\ Done(h)
    /\ UNCHANGED <<github, key, account, conn, sessions, lock, signIn>>

\* The container restarts with another TOKEN_ENCRYPTION_KEY, or with none: the
\* key is then a new one each time, and a worker's own, which reads nothing.
NewKey ==
    /\ key < MaxKeys
    /\ key' = key + 1
    /\ lock' = NoBrowser
    /\ step' = [b \in Browsers |-> "idle"]
    /\ fresh' = [b \in Browsers |-> 0]
    /\ found' = [b \in Browsers |-> FALSE]
    /\ loaded' = [b \in Browsers |-> NoRow]
    /\ page' = [b \in Browsers |-> "none"]
    /\ pc' = [h \in Holders |-> "idle"]
    /\ held' = [h \in Holders |-> 0]
    /\ flagRead' = [h \in Holders |-> FALSE]
    /\ UNCHANGED <<github, account, conn, sessions>>

Next ==
    \/ \E t \in accepted : Revoke(t)
    \/ NewKey
    \/ \E b \in Browsers :
          \/ BackToLogin(b) \/ Exchange(b) \/ FindUser(b) \/ Flush(b) \/ Commit(b)
          \/ Logout(b) \/ SignInDies(b)
    \/ \E h \in Holders : Load(h) \/ Answered(h) \/ HolderDies(h)
    \/ \E r \in Requests :
          FlagUnreadable(r) \/ RequestRefused(r) \/ MarkLoads(r) \/ MarkWrites(r)
    \/ \E w \in Workers : WorkerRefused(w)

Spec == Init /\ [][Next]_vars

-----------------------------------------------------------------------------
(* Properties.                                                             *)

Row == [secret : [token : 0..issued, key : 0..key], invalid : BOOLEAN]

\* Types, and only this account's tokens: nobody holds or stores a token that
\* GitHub has not issued.
TypeOK ==
    /\ issued \in 0..MaxTokens
    /\ accepted \subseteq 1..issued
    /\ key \in Nat \ {0}
    /\ account \in BOOLEAN
    /\ conn \in Row
    /\ sessions \subseteq Browsers
    /\ lock \in Browsers \cup {NoBrowser}
    /\ step \in [Browsers -> {"idle", "find", "flush", "commit"}]
    /\ fresh \in [Browsers -> 0..issued]
    /\ found \in [Browsers -> BOOLEAN]
    /\ loaded \in [Browsers -> Row]
    /\ page \in [Browsers -> {"none", "login", "dashboard", "server_error"}]
    /\ pc \in [Holders -> {"idle", "unreadable", "call", "mark", "write"}]
    /\ held \in [Holders -> 0..issued]
    /\ flagRead \in [Holders -> BOOLEAN]

\* Whoever is signed in has a stored connection: the session, the user and the
\* connection of github_callback are one commit, whatever dies around it.
SessionsAreConnected == sessions # {} => account /\ conn # NoRow

\* A sign-in that writes the connection's changed columns works on the secret
\* it loaded: the row lock of the user, taken for another reason, keeps two
\* sign-ins apart.  Only a flag can have been set since.
LoadedUnderLock ==
    \A b \in Browsers :
        /\ lock = b <=> step[b] = "commit"
        /\ step[b] = "commit" =>
              /\ loaded[b].secret = conn.secret
              /\ loaded[b].invalid => conn.invalid

\* Whoever is about to flag has a reason: GitHub refused what it holds, or what
\* it holds was stored under another key.
FlaggingHasAReason ==
    \A h \in Holders :
        /\ pc[h] \in {"mark", "write"} => held[h] \notin accepted
        /\ pc[h] = "unreadable" /\ conn.secret.token = held[h] => ~Readable

\* A token that is given out is new to whatever is stored or held.
FreshIsNew ==
    \A b \in Browsers :
        step[b] # "idle" =>
            /\ fresh[b] # 0
            /\ fresh[b] # conn.secret.token
            /\ \A h \in Holders : fresh[b] # held[h]
            /\ \A c \in Browsers \ {b} : fresh[c] # fresh[b]

IInv ==
    /\ TypeOK
    /\ SessionsAreConnected
    /\ LoadedUnderLock
    /\ FlaggingHasAReason
    /\ FreshIsNew

\* A connection whose token works is flagged only by somebody who holds another
\* token: a request or a worker that loaded the connection before the user
\* signed in again (mark_token_invalid and the worker's UPDATE look the row up
\* by user, not by the token that was refused).
MisflagNeedsAStaleHolder ==
    [][~conn.invalid /\ conn'.invalid /\ conn.secret.token \in accepted /\ Readable
        => \E h \in Holders : pc[h] # pc'[h] /\ held[h] # conn.secret.token]_vars

\* ADR 0002, line 69: token_invalid is set only from a GitHub 401.
FlaggedOnlyByGithub ==
    [][~conn.invalid /\ conn'.invalid
        => \E h \in Holders : pc[h] # pc'[h] /\ held[h] \notin accepted]_vars

\* deps.py, line 81: reconnecting is the actual remedy, so a sign-in that ends on
\* the dashboard leaves the connection unflagged.
ReconnectingRemedies ==
    [][\A b \in Browsers : step[b] = "commit" /\ page'[b] = "dashboard" => ~conn'.invalid]_vars

\* auth.py, line 97: every way a sign-in can fail ends on a page.
FailureIsAPage == \A b \in Browsers : page[b] # "server_error"
=============================================================================
