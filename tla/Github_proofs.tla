--------------------------- MODULE Github_proofs ----------------------------
(***************************************************************************)
(* Theorems about what DiffLens keeps of GitHub: the connection of an      *)
(* account (GithubConnection), for any number of requests, workers and     *)
(* tokens, and its list of repositories (RepoSync), for any number of      *)
(* users, syncs, names and repositories.                                   *)
(***************************************************************************)
EXTENDS GithubConnection, RepoSync, TLAPS

\* What flagging leaves of the connection.
LEMMA FlagKeeps ==
    ASSUME conn \in Row, Flag
    PROVE  /\ conn' \in Row
           /\ conn'.secret = conn.secret
           /\ conn.invalid => conn'.invalid
           /\ conn' = NoRow <=> conn = NoRow
  <1>1. CASE conn = NoRow
    BY <1>1 DEF Flag
  <1>2. CASE conn # NoRow
    BY <1>2 DEF Flag, Row, NoRow
  <1> QED BY <1>1, <1>2

\* What a sign-in writes is its own secret, whatever it had loaded.
LEMMA CommitWrites ==
    ASSUME IInv, NEW b \in Browsers, Commit(b)
    PROVE  /\ conn' \in Row /\ conn'.secret = Assigned(b).secret /\ conn' # NoRow
  <1>1. /\ step[b] = "commit" /\ conn \in Row /\ fresh[b] \in 1..issued /\ key \in Nat \ {0}
        /\ loaded[b].secret = conn.secret /\ fresh[b] # conn.secret.token
    BY DEF Commit, IInv, TypeOK, LoadedUnderLock, FreshIsNew
  <1>2. Assigned(b) \in Row /\ Assigned(b) # NoRow
    BY <1>1 DEF Assigned, Row, NoRow, NoSecret
  <1>3. CASE loaded[b] = NoRow
    BY <1>2, <1>3 DEF Commit
  <1>4. CASE loaded[b] # NoRow
    <2>1. conn' = NetChange(conn, loaded[b], Assigned(b)) /\ DOMAIN conn = {"secret", "invalid"}
      BY <1>1, <1>4 DEF Commit, Row
    <2>2. Assigned(b).secret # loaded[b].secret
      BY <1>1 DEF Assigned
    <2>3. conn' = [c \in {"secret", "invalid"} |->
                     IF Assigned(b)[c] # loaded[b][c] THEN Assigned(b)[c] ELSE conn[c]]
      BY <2>1 DEF NetChange
    <2>4. conn'.secret = Assigned(b).secret /\ conn'.invalid \in BOOLEAN
      BY <1>1, <1>2, <2>2, <2>3 DEF Row
    <2>5. conn' = [secret |-> conn'.secret, invalid |-> conn'.invalid]
      BY <2>3
    <2>6. Assigned(b).secret \in [token : 0..issued, key : 0..key]
      BY <1>2 DEF Row
    <2>7. Assigned(b).secret # NoSecret
      BY <1>1 DEF Assigned, NoSecret
    <2>8. issued' = issued /\ key' = key
      BY DEF Commit, github
    <2> QED BY <2>4, <2>5, <2>6, <2>7 DEF Row, NoRow
  <1> QED BY <1>3, <1>4

\* A user who has never signed in.
LEMMA ConnectionStarts == Init => IInv
  <1> SUFFICES ASSUME Init PROVE IInv
    OBVIOUS
  <1>1. NoRow \in Row
    BY DEF Init, NoRow, NoSecret, Row
  <1>2. TypeOK
    <2>1. /\ issued \in 0..MaxTokens /\ accepted \subseteq 1..issued /\ key \in Nat \ {0}
      BY ConnectionBounds DEF Init
    <2>4. /\ account \in BOOLEAN /\ conn \in Row /\ sessions \subseteq Browsers
          /\ lock \in Browsers \cup {NoBrowser}
      BY <1>1 DEF Init
    <2>2. /\ step \in [Browsers -> {"idle", "find", "flush", "commit"}]
          /\ fresh \in [Browsers -> 0..issued] /\ found \in [Browsers -> BOOLEAN]
          /\ loaded \in [Browsers -> Row]
          /\ page \in [Browsers -> {"none", "login", "dashboard", "server_error"}]
      BY <1>1 DEF Init
    <2>3. /\ pc \in [Holders -> {"idle", "unreadable", "call", "mark", "write"}]
          /\ held \in [Holders -> 0..issued] /\ flagRead \in [Holders -> BOOLEAN]
      BY DEF Init
    <2> QED BY <2>1, <2>2, <2>3, <2>4 DEF TypeOK
  <1>3. SessionsAreConnected /\ LoadedUnderLock /\ FreshIsNew
    BY NobodyIsNoBrowser DEF Init, SessionsAreConnected, LoadedUnderLock, FreshIsNew
  <1>4. FlaggingHasAReason
    BY DEF Init, FlaggingHasAReason, Holders
  <1> QED BY <1>2, <1>3, <1>4 DEF IInv

\* No step of a sign-in, a request, a worker, GitHub or the operator leads out of the invariant.
LEMMA ConnectionKeeps == IInv /\ [Next]_vars => IInv'
  <1> SUFFICES ASSUME IInv, [Next]_vars PROVE IInv'
    OBVIOUS
  <1> USE ConnectionBounds, NobodyIsNoBrowser
  <1> USE DEF github, signIn, use
  <1>1. ASSUME NEW t \in accepted, Revoke(t) PROVE IInv'
    <2>1. TypeOK'
      BY <1>1 DEF IInv, Revoke, TypeOK, Row
    <2>2. SessionsAreConnected' /\ FlaggingHasAReason'
      BY <1>1 DEF IInv, Revoke, SessionsAreConnected, FlaggingHasAReason, Readable
    <2>3. LoadedUnderLock' /\ FreshIsNew'
      BY <1>1 DEF IInv, Revoke, LoadedUnderLock, FreshIsNew, TypeOK
    <2> QED BY <2>1, <2>2, <2>3 DEF IInv
  <1>2. ASSUME NewKey PROVE IInv'
    <2>1. TypeOK'
      BY <1>2 DEF IInv, NewKey, TypeOK, Row, NoRow, NoSecret
    <2>2. SessionsAreConnected' /\ FlaggingHasAReason'
      BY <1>2 DEF IInv, NewKey, SessionsAreConnected, FlaggingHasAReason, Readable, TypeOK
    <2>3. LoadedUnderLock' /\ FreshIsNew'
      BY <1>2 DEF IInv, NewKey, LoadedUnderLock, FreshIsNew, TypeOK
    <2> QED BY <2>1, <2>2, <2>3 DEF IInv
  <1>3. ASSUME NEW b \in Browsers, BackToLogin(b) PROVE IInv'
    <2>1. TypeOK'
      BY <1>3 DEF IInv, BackToLogin, Ends, TypeOK, Row, NoRow, NoSecret
    <2>2. SessionsAreConnected' /\ FlaggingHasAReason'
      BY <1>3 DEF IInv, BackToLogin, SessionsAreConnected, FlaggingHasAReason, Readable
    <2>3. LoadedUnderLock' /\ FreshIsNew'
      BY <1>3 DEF IInv, BackToLogin, Ends, LoadedUnderLock, FreshIsNew, TypeOK
    <2> QED BY <2>1, <2>2, <2>3 DEF IInv
  <1>4. ASSUME NEW b \in Browsers, Exchange(b) PROVE IInv'
    <2>1. TypeOK'
      BY <1>4 DEF IInv, Exchange, TypeOK, Row
    <2>2. SessionsAreConnected' /\ FlaggingHasAReason'
      BY <1>4 DEF IInv, Exchange, SessionsAreConnected, FlaggingHasAReason, Readable, TypeOK
    <2>3. LoadedUnderLock' /\ FreshIsNew'
      BY <1>4 DEF IInv, Exchange, LoadedUnderLock, FreshIsNew, TypeOK, Row
    <2> QED BY <2>1, <2>2, <2>3 DEF IInv
  <1>5. ASSUME NEW b \in Browsers, FindUser(b) PROVE IInv'
    <2>1. TypeOK'
      BY <1>5 DEF IInv, FindUser, TypeOK, Row
    <2>2. SessionsAreConnected' /\ FlaggingHasAReason'
      BY <1>5 DEF IInv, FindUser, SessionsAreConnected, FlaggingHasAReason, Readable
    <2>3. LoadedUnderLock' /\ FreshIsNew'
      BY <1>5 DEF IInv, FindUser, LoadedUnderLock, FreshIsNew, TypeOK
    <2> QED BY <2>1, <2>2, <2>3 DEF IInv
  <1>6. ASSUME NEW b \in Browsers, Flush(b) PROVE IInv'
    <2>1. NoRow \in Row /\ Row' = Row BY <1>6 DEF IInv, TypeOK, Row, NoRow, NoSecret, Flush
    <2>2. TypeOK'
      <3>1. CASE account /\ ~found[b]
        <4>1. /\ Ends(b, "server_error") /\ lock' = lock
              /\ UNCHANGED <<github, key, account, conn, sessions, use>>
          BY <1>6, <3>1 DEF Flush
        <4> QED BY <4>1, <2>1 DEF IInv, TypeOK, Ends
      <3>2. CASE ~(account /\ ~found[b])
        BY <1>6, <2>1, <3>2 DEF IInv, TypeOK, Flush
      <3> QED BY <3>1, <3>2
    <2>3. SessionsAreConnected' BY <1>6 DEF IInv, Flush, Ends, SessionsAreConnected
    <2>4. LoadedUnderLock' BY <1>6 DEF IInv, Flush, Ends, LoadedUnderLock, TypeOK
    <2>5. FlaggingHasAReason' BY <1>6 DEF IInv, Flush, FlaggingHasAReason, Readable
    <2>6. FreshIsNew' BY <1>6 DEF IInv, Flush, Ends, FreshIsNew, TypeOK
    <2> QED BY <2>2, <2>3, <2>4, <2>5, <2>6 DEF IInv
  <1>7. ASSUME NEW b \in Browsers, Commit(b) PROVE IInv'
    <2>1. /\ NoRow \in Row /\ Row' = Row
          /\ conn' \in Row /\ conn'.secret = Assigned(b).secret /\ conn' # NoRow
      BY <1>7, CommitWrites DEF IInv, TypeOK, Row, NoRow, NoSecret, Commit
    <2>2. TypeOK'
      BY <1>7, <2>1 DEF IInv, TypeOK, Commit, Ends
    <2>3. SessionsAreConnected'
      BY <1>7, <2>1 DEF Commit, Ends, SessionsAreConnected
    <2>4. LoadedUnderLock'
      BY <1>7, <2>1 DEF IInv, Commit, Ends, LoadedUnderLock, TypeOK
    <2>5. FlaggingHasAReason'
      <3>1. conn'.secret.token = fresh[b] /\ \A h \in Holders : fresh[b] # held[h]
        BY <1>7, <2>1 DEF IInv, FreshIsNew, Commit, Assigned
      <3> QED BY <1>7, <3>1 DEF IInv, FlaggingHasAReason, Commit
    <2>6. FreshIsNew'
      <3>1. conn'.secret.token = fresh[b] /\ step[b] = "commit"
        BY <1>7, <2>1 DEF Commit, Assigned
      <3> QED BY <1>7, <3>1 DEF IInv, FreshIsNew, Commit, Ends, TypeOK
    <2> QED BY <2>2, <2>3, <2>4, <2>5, <2>6 DEF IInv
  <1>8. ASSUME NEW b \in Browsers, Logout(b) PROVE IInv'
    <2>1. TypeOK'
      BY <1>8 DEF IInv, Logout, TypeOK, Row
    <2>2. SessionsAreConnected' /\ FlaggingHasAReason'
      BY <1>8 DEF IInv, Logout, SessionsAreConnected, FlaggingHasAReason, Readable
    <2>3. LoadedUnderLock' /\ FreshIsNew'
      BY <1>8 DEF IInv, Logout, LoadedUnderLock, FreshIsNew, TypeOK
    <2> QED BY <2>1, <2>2, <2>3 DEF IInv
  <1>9. ASSUME NEW b \in Browsers, SignInDies(b) PROVE IInv'
    <2>1. TypeOK'
      BY <1>9 DEF IInv, SignInDies, Ends, TypeOK, Row, NoRow, NoSecret
    <2>2. SessionsAreConnected' /\ FlaggingHasAReason'
      BY <1>9 DEF IInv, SignInDies, SessionsAreConnected, FlaggingHasAReason, Readable
    <2>3. LoadedUnderLock' /\ FreshIsNew'
      BY <1>9 DEF IInv, SignInDies, Ends, LoadedUnderLock, FreshIsNew, TypeOK
    <2> QED BY <2>1, <2>2, <2>3 DEF IInv
  <1>10. ASSUME NEW h \in Holders, Load(h) PROVE IInv'
    <2>1. TypeOK'
      BY <1>10 DEF IInv, Load, TypeOK, Row
    <2>2. SessionsAreConnected' /\ LoadedUnderLock'
      BY <1>10 DEF IInv, Load, SessionsAreConnected, LoadedUnderLock
    <2>3. FlaggingHasAReason' /\ FreshIsNew'
      BY <1>10 DEF IInv, Load, FlaggingHasAReason, FreshIsNew, Readable, TypeOK
    <2> QED BY <2>1, <2>2, <2>3 DEF IInv
  <1>11. ASSUME NEW h \in Holders, Answered(h) PROVE IInv'
    <2>1. TypeOK'
      BY <1>11 DEF IInv, Answered, Done, TypeOK, Row
    <2>2. SessionsAreConnected' /\ LoadedUnderLock'
      BY <1>11 DEF IInv, Answered, SessionsAreConnected, LoadedUnderLock
    <2>3. FlaggingHasAReason' /\ FreshIsNew'
      BY <1>11 DEF IInv, Answered, Done, FlaggingHasAReason, FreshIsNew, Readable, TypeOK
    <2> QED BY <2>1, <2>2, <2>3 DEF IInv
  <1>12. ASSUME NEW h \in Holders, HolderDies(h) PROVE IInv'
    <2>1. TypeOK'
      BY <1>12 DEF IInv, HolderDies, Done, TypeOK, Row
    <2>2. SessionsAreConnected' /\ LoadedUnderLock'
      BY <1>12 DEF IInv, HolderDies, SessionsAreConnected, LoadedUnderLock
    <2>3. FlaggingHasAReason' /\ FreshIsNew'
      BY <1>12 DEF IInv, HolderDies, Done, FlaggingHasAReason, FreshIsNew, Readable, TypeOK
    <2> QED BY <2>1, <2>2, <2>3 DEF IInv
  <1>13. ASSUME NEW h \in Requests, FlagUnreadable(h) PROVE IInv'
    <2>1. /\ Row' = Row /\ conn' \in Row /\ conn'.secret = conn.secret
          /\ conn.invalid => conn'.invalid
          /\ conn' = NoRow <=> conn = NoRow
      BY <1>13, FlagKeeps DEF IInv, TypeOK, FlagUnreadable, Row
    <2>2. TypeOK'
      BY <1>13, <2>1 DEF IInv, FlagUnreadable, Done, Holders, TypeOK
    <2>3. SessionsAreConnected' /\ LoadedUnderLock'
      BY <1>13, <2>1 DEF IInv, FlagUnreadable, SessionsAreConnected, LoadedUnderLock
    <2>4. FlaggingHasAReason' /\ FreshIsNew'
      BY <1>13, <2>1 DEF IInv, FlagUnreadable, Done, Holders, FlaggingHasAReason, FreshIsNew,
         Readable, TypeOK
    <2> QED BY <2>2, <2>3, <2>4 DEF IInv
  <1>14. ASSUME NEW h \in Requests, RequestRefused(h) PROVE IInv'
    <2>1. TypeOK'
      BY <1>14 DEF IInv, RequestRefused, Refuses, Holders, TypeOK, Row
    <2>2. SessionsAreConnected' /\ LoadedUnderLock'
      BY <1>14 DEF IInv, RequestRefused, SessionsAreConnected, LoadedUnderLock
    <2>3. FlaggingHasAReason' /\ FreshIsNew'
      BY <1>14 DEF IInv, RequestRefused, Refuses, Holders, FlaggingHasAReason, FreshIsNew,
         Readable, TypeOK
    <2> QED BY <2>1, <2>2, <2>3 DEF IInv
  <1>15. ASSUME NEW h \in Requests, MarkLoads(h) PROVE IInv'
    <2>1. TypeOK'
      BY <1>15 DEF IInv, MarkLoads, Holders, TypeOK, Row
    <2>2. SessionsAreConnected' /\ LoadedUnderLock'
      BY <1>15 DEF IInv, MarkLoads, SessionsAreConnected, LoadedUnderLock
    <2>3. FlaggingHasAReason' /\ FreshIsNew'
      BY <1>15 DEF IInv, MarkLoads, Holders, FlaggingHasAReason, FreshIsNew, Readable, TypeOK
    <2> QED BY <2>1, <2>2, <2>3 DEF IInv
  <1>16. ASSUME NEW h \in Requests, MarkWrites(h) PROVE IInv'
    <2>1. /\ Row' = Row /\ conn' \in Row /\ conn'.secret = conn.secret
          /\ conn.invalid => conn'.invalid
          /\ conn' = NoRow <=> conn = NoRow
      BY <1>16, FlagKeeps DEF IInv, TypeOK, MarkWrites, Row
    <2>2. TypeOK'
      BY <1>16, <2>1 DEF IInv, MarkWrites, Done, Holders, TypeOK
    <2>3. SessionsAreConnected' /\ LoadedUnderLock'
      BY <1>16, <2>1 DEF IInv, MarkWrites, SessionsAreConnected, LoadedUnderLock
    <2>4. FlaggingHasAReason' /\ FreshIsNew'
      BY <1>16, <2>1 DEF IInv, MarkWrites, Done, Holders, FlaggingHasAReason, FreshIsNew, Readable,
         TypeOK
    <2> QED BY <2>2, <2>3, <2>4 DEF IInv
  <1>17. ASSUME NEW h \in Workers, WorkerRefused(h) PROVE IInv'
    <2>1. /\ Row' = Row /\ conn' \in Row /\ conn'.secret = conn.secret
          /\ conn.invalid => conn'.invalid
          /\ conn' = NoRow <=> conn = NoRow
      BY <1>17, FlagKeeps DEF IInv, TypeOK, WorkerRefused, Row
    <2>2. TypeOK'
      BY <1>17, <2>1 DEF IInv, WorkerRefused, Done, Refuses, Holders, TypeOK
    <2>3. SessionsAreConnected' /\ LoadedUnderLock'
      BY <1>17, <2>1 DEF IInv, WorkerRefused, SessionsAreConnected, LoadedUnderLock
    <2>4. FlaggingHasAReason' /\ FreshIsNew'
      BY <1>17, <2>1 DEF IInv, WorkerRefused, Done, Refuses, Holders, FlaggingHasAReason,
         FreshIsNew, Readable, TypeOK
    <2> QED BY <2>2, <2>3, <2>4 DEF IInv
  <1>18. CASE UNCHANGED vars
    BY <1>18 DEF IInv, vars, TypeOK, SessionsAreConnected, LoadedUnderLock, FlaggingHasAReason,
       FreshIsNew, Row, Readable
  <1> QED BY <1>1, <1>2, <1>3, <1>4, <1>5, <1>6, <1>7, <1>8, <1>9, <1>10, <1>11, <1>12, <1>13,
             <1>14, <1>15, <1>16, <1>17, <1>18 DEF Next

\* The types, and that nobody holds or stores a token GitHub did not issue.
THEOREM TypeCorrect == Spec => []TypeOK
  <1>1. IInv => TypeOK
    BY DEF IInv
  <1> QED BY ConnectionStarts, ConnectionKeeps, <1>1, PTL DEF Spec

\* The row lock keeps overlapping sign-ins apart: what one writes back is a change to
\* the secret that is still there (auth.py:142-157).
THEOREM SignInsTakeTurns == Spec => []LoadedUnderLock
  <1>1. IInv => LoadedUnderLock
    BY DEF IInv
  <1> QED BY ConnectionStarts, ConnectionKeeps, <1>1, PTL DEF Spec

\* Whoever is signed in has a stored connection.
THEOREM SignedInIsConnected == Spec => []SessionsAreConnected
  <1>1. IInv => SessionsAreConnected
    BY DEF IInv
  <1> QED BY ConnectionStarts, ConnectionKeeps, <1>1, PTL DEF Spec

\* The strengthening itself: a sign-in writes over the secret it loaded, and
\* whoever is about to flag has a reason.
THEOREM ConnectionInvariance == Spec => []IInv
  BY ConnectionStarts, ConnectionKeeps, PTL DEF Spec

\* A working token is flagged only by somebody who holds another.
THEOREM OnlyTheStaleMisflag == Spec => MisflagNeedsAStaleHolder
  <1> DEFINE Misflag == /\ ~conn.invalid /\ conn'.invalid
                        /\ conn.secret.token \in accepted /\ Readable
  <1>1. IInv /\ [Next]_vars => [Misflag =>
            \E h \in Holders : pc[h] # pc'[h] /\ held[h] # conn.secret.token]_vars
    <2> SUFFICES ASSUME IInv, Next, Misflag
                 PROVE  \E h \in Holders : pc[h] # pc'[h] /\ held[h] # conn.secret.token
      OBVIOUS
    <2>1. ASSUME NEW h \in Holders, pc[h] \in {"mark", "write", "unreadable"}
          PROVE  held[h] # conn.secret.token
      BY <2>1 DEF IInv, FlaggingHasAReason
    <2>2. ASSUME NEW h \in Holders, Done(h), pc[h] # "idle"
          PROVE  pc'[h] # pc[h]
      BY <2>2 DEF Done, IInv, TypeOK
    <2>3. ASSUME NEW b \in Browsers, Commit(b) PROVE FALSE
      <3>1. conn' = Assigned(b) \/ conn' = NetChange(conn, loaded[b], Assigned(b))
        BY <2>3 DEF Commit
      <3>2. DOMAIN conn = {"secret", "invalid"}
        BY DEF IInv, TypeOK, Row
      <3> QED BY <3>1, <3>2 DEF Assigned, NetChange
    <2>4. ASSUME NEW h \in Requests, FlagUnreadable(h) \/ MarkWrites(h)
          PROVE  \E g \in Holders : pc[g] # pc'[g] /\ held[g] # conn.secret.token
      <3>1. h \in Holders /\ Done(h) /\ pc[h] \in {"unreadable", "write"}
        BY <2>4 DEF FlagUnreadable, MarkWrites, Holders
      <3> QED BY <3>1, <2>1, <2>2
    <2>5. ASSUME NEW w \in Workers, WorkerRefused(w)
          PROVE  \E g \in Holders : pc[g] # pc'[g] /\ held[g] # conn.secret.token
      <3>1. w \in Holders /\ Done(w) /\ pc[w] = "call" /\ held[w] \notin accepted
        BY <2>5 DEF WorkerRefused, Refuses, Holders
      <3> QED BY <3>1, <2>2
    <2>6. CASE conn' = conn
      BY <2>6
    <2>7. Next => \/ conn' = conn
                  \/ \E b \in Browsers : Commit(b)
                  \/ \E h \in Requests : FlagUnreadable(h) \/ MarkWrites(h)
                  \/ \E w \in Workers : WorkerRefused(w)
      BY DEF Next, Revoke, NewKey, BackToLogin, Exchange, FindUser, Flush, Logout, SignInDies,
             Load, Answered, HolderDies, RequestRefused, MarkLoads
    <2> QED BY <2>3, <2>4, <2>5, <2>6, <2>7
  <1> QED BY ConnectionStarts, ConnectionKeeps, <1>1, PTL DEF Spec, MisflagNeedsAStaleHolder

-----------------------------------------------------------------------------
(* The list of repositories.                                               *)

\* An account that has never been synced.
LEMMA SyncStarts == SyncInit => SyncIInv
  <1> SUFFICES ASSUME SyncInit PROVE SyncIInv
    OBVIOUS
  <1>1. SyncTypeOK /\ Offered /\ Fresh /\ FailuresHaveAReason
    BY DEF SyncInit, SyncTypeOK, NoNames, Offered, Fresh, Synced, FailuresHaveAReason
  <1>2. FirstNames
    <2>1. name \in [Repos -> Names \cup {NoName}] /\ Distinct(name)
      BY DEF SyncInit
    <2>2. \A r \in Repos : /\ {name[r], rows[r]} \subseteq {NoName, name[r]}
                           /\ \A s \in Syncs : payload[s][r] \in {NoName, name[r]}
      BY DEF SyncInit, NoNames
    <2> QED BY <2>1, <2>2 DEF FirstNames
  <1> QED BY <1>1, <1>2 DEF SyncIInv

\* A request that ends leaves nothing to vouch for.
LEMMA EndKeeps ==
    ASSUME SyncIInv, NEW s \in Syncs, SyncEnds(s)
    PROVE  /\ phase' \in [Syncs -> {"idle", "fetched", "rows", "links"}]
           /\ user' \in [Syncs -> Users] /\ skipped' \in [Syncs -> SUBSET Repos]
           /\ payload' \in [Syncs -> [Repos -> Names \cup {NoName}]]
           /\ known' \in [Syncs -> [Repos -> Names \cup {NoName}]]
           /\ linked' \in [Syncs -> SUBSET Repos]
           /\ user' = user /\ phase'[s] = "idle"
           /\ \A t \in Syncs : Synced(t)' \subseteq Synced(t)
           /\ \A t \in Syncs : \A r \in Repos : payload'[t][r] \in {NoName, payload[t][r]}
           /\ \A t \in Syncs \ {s} : /\ phase'[t] = phase[t] /\ known'[t] = known[t]
                                     /\ payload'[t] = payload[t]
  BY DEF SyncIInv, SyncTypeOK, SyncEnds, GoTo, NoNames, Synced

\* An undisturbed sync that knows the stored names writes those GitHub gave.
LEMMA UndisturbedWrite ==
    ASSUME SyncTypeOK, Fresh, NEW s \in Syncs \ raced, phase[s] = "links"
    PROVE  \A r \in Synced(s) : Written(s)[r] = payload[s][r]
  BY DEF SyncTypeOK, Fresh, Synced, Written

\* What a sync writes are names, or nothing.
LEMMA WriteTyped ==
    ASSUME SyncTypeOK, NEW s \in Syncs
    PROVE  Written(s) \in [Repos -> Names \cup {NoName}]
  BY DEF SyncTypeOK, Written

\* A sync that commits, whatever it had read: the others are told that they raced.
LEMMA WriteKeeps ==
    ASSUME SyncIInv, NEW s \in Syncs, Write(s)
    PROVE  SyncIInv'
  <1>1. /\ rows' = Written(s) /\ links' = links \cup ({user[s]} \X (Synced(s) \ linked[s]))
        /\ listing' = [listing EXCEPT ![s] = {r \in Repos : <<user[s], r>> \in links'}]
        /\ raced' = raced \cup Others(s) /\ SyncEnds(s)
        /\ UNCHANGED <<name, owner, hidden, changes, renamed, failed, listed>>
    BY DEF Write, onGithub
  <1>2. Synced(s) \subseteq Repos /\ user[s] \in Users
    BY DEF Synced, SyncIInv, SyncTypeOK
  <1>3. SyncTypeOK'
    <2>1. rows' \in [Repos -> Names \cup {NoName}]
      BY <1>1, WriteTyped DEF SyncIInv
    <2>2. links' \subseteq Users \X Repos /\ raced' \subseteq Syncs
      BY <1>1, <1>2 DEF SyncIInv, SyncTypeOK, Others
    <2>3. listing' \in [Syncs -> SUBSET Repos]
      BY <1>1 DEF SyncIInv, SyncTypeOK
    <2> QED BY <1>1, <2>1, <2>2, <2>3, EndKeeps DEF SyncIInv, SyncTypeOK
  <1>4. Offered'
    BY <1>1, EndKeeps DEF SyncIInv, Offered
  <1>5. Fresh'
    <2> SUFFICES ASSUME NEW t \in Syncs, t \notin raced', phase'[t] \in {"rows", "links"} PROVE FALSE
      BY DEF Fresh
    <2>1. t # s /\ phase[t] # "idle"
      BY <1>1, EndKeeps
    <2> QED BY <1>1, <2>1 DEF Others
  <1>6. FirstNames'
    <2> SUFFICES ASSUME ~renamed PROVE FirstNames'
      BY <1>1 DEF FirstNames
    <2>1. PICK first \in [Repos -> Names \cup {NoName}] :
             /\ Distinct(first)
             /\ \A r \in Repos : /\ {name[r], rows[r]} \subseteq {NoName, first[r]}
                                 /\ \A t \in Syncs : payload[t][r] \in {NoName, first[r]}
      BY DEF SyncIInv, FirstNames
    <2>2. \A r \in Repos : rows'[r] \in {NoName, first[r]}
      BY <1>1, <2>1 DEF Written
    <2>3. \A r \in Repos : \A t \in Syncs : payload'[t][r] \in {NoName, first[r]}
      BY <1>1, <2>1, EndKeeps
    <2>4. \A r \in Repos : {name'[r], rows'[r]} \subseteq {NoName, first[r]}
      BY <1>1, <2>1, <2>2
    <2> QED BY <2>1, <2>3, <2>4 DEF FirstNames
  <1>7. FailuresHaveAReason'
    BY <1>1 DEF SyncIInv, FailuresHaveAReason
  <1> QED BY <1>3, <1>4, <1>5, <1>6, <1>7 DEF SyncIInv

\* While names are the first ones, a sync nobody wrote under is not refused.
LEMMA NothingToRefuse ==
    ASSUME SyncIInv, NEW s \in Syncs \ raced, ~renamed, phase[s] = "links"
    PROVE  ~InsertRefused(s) /\ ~NameRefused(s) /\ ~NameMayBeTaken(s)
  <1>1. PICK first \in [Repos -> Names \cup {NoName}] :
           /\ Distinct(first)
           /\ \A r \in Repos : /\ {name[r], rows[r]} \subseteq {NoName, first[r]}
                               /\ \A t \in Syncs : payload[t][r] \in {NoName, first[r]}
    BY DEF SyncIInv, FirstNames
  <1>2. \A r \in Synced(s) : known[s][r] = rows[r]
    BY DEF SyncIInv, Fresh
  <1>3. ~InsertRefused(s)
    BY <1>2 DEF InsertRefused
  <1>4. \A r \in Repos : Written(s)[r] \in {NoName, first[r]}
    BY <1>1 DEF Written
  <1>5. Distinct(Written(s))
    BY <1>1, <1>4 DEF Distinct
  <1>6. \A r \in Moves(s) : r \in Repos /\ Written(s)[r] = first[r] /\ first[r] # NoName /\ rows[r] = NoName
    BY <1>1, <1>2 DEF Moves, Written, Synced
  <1>7. \A r \in Moves(s) : \A q \in Repos : Written(s)[r] # rows[q]
    BY <1>1, <1>6 DEF Distinct
  <1>8. ~NameRefused(s)
    BY <1>5, <1>6, <1>7 DEF NameRefused
  <1>9. ~NameMayBeTaken(s)
    BY <1>7 DEF NameMayBeTaken
  <1> QED BY <1>3, <1>8, <1>9

\* No step of GitHub's or of a request leads out of the invariant.
LEMMA SyncKeeps == SyncIInv /\ [SyncNext]_syncVars => SyncIInv'
  <1> SUFFICES ASSUME SyncIInv, [SyncNext]_syncVars PROVE SyncIInv'
    OBVIOUS
  <1> USE DEF onGithub, stored, shown, reading
  <1>1. ASSUME NEW r \in Repos, NEW u \in Users, NEW n \in Names \cup {NoName}, Rename(r, u, n)
        PROVE  SyncIInv'
    <2>1. /\ name' = [name EXCEPT ![r] = n] /\ owner' = [owner EXCEPT ![r] = u]
          /\ renamed' = (renamed \/ n \notin {name[r], NoName}) /\ changes' = changes + 1
          /\ UNCHANGED <<hidden, rows, links, phase, user, payload, skipped, known, linked, listing, failed,
                         listed, raced>>
      BY <1>1 DEF Rename
    <2>2. SyncTypeOK'
      BY <2>1 DEF SyncIInv, SyncTypeOK
    <2>3. Offered' /\ Fresh'
      BY <2>1 DEF SyncIInv, Offered, Fresh, Synced
    <2>4. FirstNames'
      <3> SUFFICES ASSUME ~renamed' PROVE FirstNames'
        BY DEF FirstNames
      <3>1. ~renamed /\ n \in {name[r], NoName}
        BY <2>1
      <3>2. PICK first \in [Repos -> Names \cup {NoName}] :
               /\ Distinct(first)
               /\ \A q \in Repos : /\ {name[q], rows[q]} \subseteq {NoName, first[q]}
                                   /\ \A t \in Syncs : payload[t][q] \in {NoName, first[q]}
        BY <3>1 DEF SyncIInv, FirstNames
      <3>3. \A q \in Repos : name'[q] \in {NoName, name[q]}
        BY <2>1, <3>1 DEF SyncIInv, SyncTypeOK
      <3> QED BY <2>1, <3>2, <3>3 DEF FirstNames
    <2>5. FailuresHaveAReason'
      BY <2>1 DEF SyncIInv, FailuresHaveAReason
    <2> QED BY <2>2, <2>3, <2>4, <2>5 DEF SyncIInv
  <1>2. ASSUME NEW r \in Repos, ChangeVisibility(r) PROVE SyncIInv'
    <2>1. /\ hidden' \in SUBSET Repos /\ changes' \in Nat
          /\ UNCHANGED <<name, owner, renamed, rows, links, phase, user, payload, skipped, known,
                         linked, listing, failed, listed, raced>>
      BY <1>2 DEF ChangeVisibility, SyncIInv, SyncTypeOK
    <2>2. SyncTypeOK' /\ Offered' /\ Fresh' /\ FailuresHaveAReason'
      BY <2>1 DEF SyncIInv, SyncTypeOK, Offered, Fresh, Synced, FailuresHaveAReason
    <2>3. FirstNames'
      BY <2>1 DEF SyncIInv, FirstNames
    <2> QED BY <2>2, <2>3 DEF SyncIInv
  <1>3. ASSUME NEW s \in Syncs, NEW u \in Users, Fetch(s, u) PROVE SyncIInv'
    <2>1. PICK part \in SUBSET Owned(u) :
             /\ payload' = [payload EXCEPT ![s] = Listing(part)]
             /\ listed' = listed \cup ({u} \X (part \ hidden))
      BY <1>3 DEF Fetch
    <2>2. /\ user' = [user EXCEPT ![s] = u] /\ skipped' = [skipped EXCEPT ![s] = hidden]
          /\ listing' = [listing EXCEPT ![s] = {}] /\ failed' = failed \ {s} /\ raced' = raced \ {s}
          /\ phase' = [phase EXCEPT ![s] = "fetched"]
          /\ UNCHANGED <<name, owner, hidden, changes, renamed, rows, links, known, linked>>
      BY <1>3 DEF Fetch, GoTo
    <2>3. /\ Listing(part) \in [Repos -> Names \cup {NoName}] /\ part \subseteq Repos
          /\ \A r \in Repos : /\ Listing(part)[r] \in {NoName, name[r]}
                              /\ Listing(part)[r] # NoName => r \in part \ hidden
      BY DEF Listing, Owned, SyncIInv, SyncTypeOK
    <2>4. SyncTypeOK'
      BY <2>1, <2>2, <2>3 DEF SyncIInv, SyncTypeOK
    <2>5. Offered'
      <3>1. \A t \in Syncs \ {s} : Synced(t)' = Synced(t) /\ user'[t] = user[t]
        BY <2>1, <2>2 DEF Synced, SyncIInv, SyncTypeOK
      <3>2. Synced(s)' \subseteq part \ hidden /\ user'[s] = u
        BY <2>1, <2>2, <2>3 DEF Synced, SyncIInv, SyncTypeOK
      <3> QED BY <2>1, <2>2, <3>1, <3>2 DEF SyncIInv, Offered
    <2>6. Fresh'
      BY <2>1, <2>2 DEF SyncIInv, SyncTypeOK, Fresh, Synced
    <2>7. FirstNames'
      <3> SUFFICES ASSUME ~renamed PROVE FirstNames'
        BY <2>2 DEF FirstNames
      <3>1. PICK first \in [Repos -> Names \cup {NoName}] :
               /\ Distinct(first)
               /\ \A q \in Repos : /\ {name[q], rows[q]} \subseteq {NoName, first[q]}
                                   /\ \A t \in Syncs : payload[t][q] \in {NoName, first[q]}
        BY DEF SyncIInv, FirstNames
      <3>2. \A q \in Repos : \A t \in Syncs : payload'[t][q] \in {NoName, first[q]}
        BY <2>1, <2>3, <3>1 DEF SyncIInv, SyncTypeOK
      <3> QED BY <2>2, <3>1, <3>2 DEF FirstNames
    <2>8. FailuresHaveAReason'
      BY <2>2 DEF SyncIInv, FailuresHaveAReason
    <2> QED BY <2>4, <2>5, <2>6, <2>7, <2>8 DEF SyncIInv
  <1>4. ASSUME NEW s \in Syncs, ReadRows(s) PROVE SyncIInv'
    <2>1. /\ phase[s] = "fetched" /\ phase' = [phase EXCEPT ![s] = "rows"]
          /\ known' = [known EXCEPT ![s] = [r \in Repos |-> IF payload[s][r] # NoName THEN rows[r] ELSE NoName]]
          /\ UNCHANGED <<name, owner, hidden, changes, renamed, rows, links, user, payload, skipped, linked,
                         listing, failed, listed, raced>>
      BY <1>4 DEF ReadRows, GoTo
    <2>2. SyncTypeOK'
      BY <2>1 DEF SyncIInv, SyncTypeOK
    <2>3. Offered' /\ FailuresHaveAReason'
      BY <2>1 DEF SyncIInv, Offered, Synced, FailuresHaveAReason
    <2>4. Fresh'
      BY <2>1 DEF SyncIInv, SyncTypeOK, Fresh, Synced
    <2>5. FirstNames'
      BY <2>1 DEF SyncIInv, FirstNames
    <2> QED BY <2>2, <2>3, <2>4, <2>5 DEF SyncIInv
  <1>5. ASSUME NEW s \in Syncs, ReadLinks(s) PROVE SyncIInv'
    <2>1. /\ phase[s] = "rows" /\ phase' = [phase EXCEPT ![s] = "links"]
          /\ linked' = [linked EXCEPT ![s] = {r \in Repos : <<user[s], r>> \in links}]
          /\ UNCHANGED <<name, owner, hidden, changes, renamed, rows, links, user, payload, skipped, known,
                         listing, failed, listed, raced>>
      BY <1>5 DEF ReadLinks, GoTo
    <2>2. SyncTypeOK'
      BY <2>1 DEF SyncIInv, SyncTypeOK
    <2>3. Offered' /\ FailuresHaveAReason'
      BY <2>1 DEF SyncIInv, Offered, Synced, FailuresHaveAReason
    <2>4. Fresh'
      BY <2>1 DEF SyncIInv, SyncTypeOK, Fresh, Synced
    <2>5. FirstNames'
      BY <2>1 DEF SyncIInv, FirstNames
    <2> QED BY <2>2, <2>3, <2>4, <2>5 DEF SyncIInv
  <1>6. ASSUME NEW s \in Syncs, WriteRefused(s) \/ SyncFails(s) PROVE SyncIInv'
    <2>1. /\ SyncEnds(s) /\ failed' \in {failed, failed \cup {s}}
          /\ UNCHANGED <<name, owner, hidden, changes, renamed, rows, links, listing, listed, raced>>
      BY <1>6 DEF WriteRefused, SyncFails
    <2>2. SyncTypeOK'
      BY <2>1, EndKeeps DEF SyncIInv, SyncTypeOK
    <2>3. Offered'
      BY <2>1, EndKeeps DEF SyncIInv, Offered
    <2>4. Fresh'
      <3> SUFFICES ASSUME NEW t \in Syncs \ raced, phase'[t] \in {"rows", "links"}
                   PROVE  \A r \in Synced(t)' : known'[t][r] = rows[r]
        BY <2>1 DEF Fresh
      <3>1. t # s
        BY <2>1, EndKeeps
      <3>2. Synced(t)' \subseteq Synced(t) /\ phase'[t] = phase[t] /\ known'[t] = known[t]
        BY <2>1, <3>1, EndKeeps
      <3>3. \A r \in Synced(t) : known[t][r] = rows[r]
        BY <3>2 DEF SyncIInv, Fresh
      <3> QED BY <3>2, <3>3
    <2>5. FirstNames'
      <3> SUFFICES ASSUME ~renamed PROVE FirstNames'
        BY <2>1 DEF FirstNames
      <3>1. PICK first \in [Repos -> Names \cup {NoName}] :
               /\ Distinct(first)
               /\ \A q \in Repos : /\ {name[q], rows[q]} \subseteq {NoName, first[q]}
                                   /\ \A t \in Syncs : payload[t][q] \in {NoName, first[q]}
        BY DEF SyncIInv, FirstNames
      <3>2. \A q \in Repos : \A t \in Syncs : payload'[t][q] \in {NoName, first[q]}
        BY <2>1, <3>1, EndKeeps
      <3> QED BY <2>1, <3>1, <3>2 DEF FirstNames
    <2>6. FailuresHaveAReason'
      <3>1. CASE WriteRefused(s)
        <4>1. s \in raced \/ renamed
          BY <3>1, NothingToRefuse DEF WriteRefused
        <4> QED BY <2>1, <4>1 DEF SyncIInv, FailuresHaveAReason
      <3>2. CASE SyncFails(s)
        BY <2>1, <3>2 DEF SyncFails, SyncIInv, FailuresHaveAReason
      <3> QED BY <1>6, <3>1, <3>2
    <2> QED BY <2>2, <2>3, <2>4, <2>5, <2>6 DEF SyncIInv
  <1>7. CASE UNCHANGED syncVars
    <2>1. UNCHANGED <<name, owner, hidden, changes, renamed, rows, links, phase, user, payload,
                      skipped, known, linked, listing, failed, listed, raced>>
      BY <1>7 DEF syncVars
    <2>2. SyncTypeOK' /\ Offered' /\ Fresh' /\ FailuresHaveAReason'
      BY <2>1 DEF SyncIInv, SyncTypeOK, Offered, Fresh, Synced, FailuresHaveAReason
    <2>3. FirstNames'
      BY <2>1 DEF SyncIInv, FirstNames
    <2> QED BY <2>2, <2>3 DEF SyncIInv
  <1> QED BY <1>1, <1>2, <1>3, <1>4, <1>5, <1>6, <1>7, WriteKeeps DEF SyncNext

\* The invariant holds however many syncs overlap and whatever changes on GitHub meanwhile.
THEOREM SyncInvariance == SyncSpec => []SyncIInv
  BY SyncStarts, SyncKeeps, PTL DEF SyncSpec

\* Nobody gets hold of a repository GitHub did not at some time list to them as a public
\* one of theirs (repo_service.py, sync_user_repositories and link_repositories).
THEOREM LinksAreListed == SyncSpec => []LinksWereListed
  <1>1. SyncIInv => LinksWereListed
    BY DEF SyncIInv, Offered, LinksWereListed
  <1> QED BY <1>1, SyncInvariance, PTL

\* A sync answers a 500 only when another sync wrote under it or GitHub gave a repository a
\* name: the unique index refuses nothing else (repo_service.py:55-78).
THEOREM ReasonsAreKnown == SyncSpec => []FailuresHaveAReason
  <1>1. SyncIInv => FailuresHaveAReason
    BY DEF SyncIInv
  <1> QED BY <1>1, SyncInvariance, PTL

\* A sync nobody wrote under leaves the names GitHub gave it (repo_service.py:55-78).
THEOREM SoleSyncsAgree == SyncSpec => SoleSyncAgrees
  <1>1. SyncIInv => \A s \in Syncs : Write(s) /\ s \notin raced => \A r \in Synced(s) : rows'[r] = payload[s][r]
    BY UndisturbedWrite DEF SyncIInv, Write
  <1> QED BY <1>1, SyncInvariance, PTL DEF SoleSyncAgrees

=============================================================================
