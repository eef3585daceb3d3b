------------------------------ MODULE RepoSync ------------------------------
(***************************************************************************)
(* The list of repositories: requests that ask GitHub what a user owns and *)
(* bring the repositories and user_repositories tables up to date, several *)
(* at once, while repositories are renamed, hidden, deleted and made anew. *)
(*                                                                         *)
(* A sync is cut at GitHub's answer, its two SELECTs and the transaction   *)
(* that writes: its row locks and unique indexes make that one step.  A    *)
(* repository is its github_id, and of its columns full_name is the one    *)
(* that is unique; private is always stored as false, for nothing else is  *)
(* stored.  GitHub lists one page: any of the repositories a user owns.    *)
(***************************************************************************)
EXTENDS Naturals

CONSTANTS
    Repos,        \* github ids
    Names,        \* full names
    Users,
    Syncs,        \* list_repositories requests in flight at once
    NoName,       \* no repository, no row
    MaxChanges    \* bound: changes made on GitHub

ASSUME NoNameIsNoName == NoName \notin Names
ASSUME ChangesAreCounted == MaxChanges \in Nat

VARIABLES
    name,         \* GitHub: the full name, NoName for no such repository
    owner,        \* GitHub: who owns it
    hidden,       \* GitHub: the private ones
    rows,         \* repositories: the stored full name, NoName for no row
    links,        \* user_repositories
    phase, user,  \* where a sync stands, and for whom
    payload,      \* the public repositories GitHub listed, with their names
    skipped,      \* the private ones it knew of when it answered
    known,        \* full names as the sync loaded them
    linked,       \* the user's links as it loaded them
    listing,      \* the list the browser was last answered
    failed,       \* the syncs answered with a 500 instead
    listed,       \* history: repositories GitHub has listed to a user as public
    changes,      \* history: changes made on GitHub
    renamed,      \* history: some of them gave a repository a name
    raced         \* history: syncs another one has written under

onGithub == <<name, owner, hidden, changes, renamed>>
stored == <<rows, links>>
shown == <<listing, failed>>
reading == <<user, payload, skipped, known, linked>>
syncVars == <<onGithub, stored, phase, reading, shown, listed, raced>>

NoNames == [r \in Repos |-> NoName]

Distinct(names) ==
    \A r, q \in Repos : r # q /\ names[r] = names[q] => names[r] = NoName

SyncInit ==
    /\ name \in [Repos -> Names \cup {NoName}] /\ Distinct(name)
    /\ owner \in [Repos -> Users]
    /\ hidden \in SUBSET Repos
    /\ rows = NoNames /\ links = {}
    /\ phase = [s \in Syncs |-> "idle"]
    /\ user \in [Syncs -> Users]
    /\ payload = [s \in Syncs |-> NoNames]
    /\ skipped = [s \in Syncs |-> {}]
    /\ known = [s \in Syncs |-> NoNames]
    /\ linked = [s \in Syncs |-> {}]
    /\ listing = [s \in Syncs |-> {}] /\ failed = {}
    /\ listed = {} /\ changes = 0 /\ renamed = FALSE /\ raced = {}

-----------------------------------------------------------------------------
(* GitHub.                                                                 *)

\* A repository is made, renamed, transferred or, with NoName, deleted.
Rename(r, u, n) ==
    /\ changes < MaxChanges
    /\ name' = [name EXCEPT ![r] = n] /\ Distinct(name')
    /\ owner' = [owner EXCEPT ![r] = u]
    /\ changes' = changes + 1
    /\ renamed' = (renamed \/ n \notin {name[r], NoName})
    /\ UNCHANGED <<hidden, stored, phase, reading, shown, listed, raced>>

ChangeVisibility(r) ==
    /\ changes < MaxChanges
    /\ hidden' = IF r \in hidden THEN hidden \ {r} ELSE hidden \cup {r}
    /\ changes' = changes + 1
    /\ UNCHANGED <<name, owner, renamed, stored, phase, reading, shown, listed, raced>>

Owned(u) == {r \in Repos : name[r] # NoName /\ owner[r] = u}

-----------------------------------------------------------------------------
(* sync_user_repositories                                                  *)

GoTo(s, to) == phase' = [phase EXCEPT ![s] = to]

\* A request that ends takes what it had read with it.
SyncEnds(s) ==
    /\ GoTo(s, "idle")
    /\ payload' = [payload EXCEPT ![s] = NoNames]
    /\ known' = [known EXCEPT ![s] = NoNames]
    /\ linked' = [linked EXCEPT ![s] = {}]
    /\ UNCHANGED <<user, skipped>>

\* Mutant: what GitHub lists is taken as it comes, private repositories too.
Listing_Unfiltered(part) == [r \in Repos |-> IF r \in part THEN name[r] ELSE NoName]

\* The private ones are passed over, whatever scope the token had.
Listing(part) ==
    [r \in Repos |-> IF r \in part \ hidden THEN name[r] ELSE NoName]

\* client.list_repos, before anything is read
Fetch(s, u) ==
    /\ phase[s] = "idle"
    /\ \E part \in SUBSET Owned(u) :
          /\ payload' = [payload EXCEPT ![s] = Listing(part)]
          /\ listed' = listed \cup ({u} \X (part \ hidden))
    /\ user' = [user EXCEPT ![s] = u]
    /\ skipped' = [skipped EXCEPT ![s] = hidden]
    /\ listing' = [listing EXCEPT ![s] = {}] /\ failed' = failed \ {s}
    /\ raced' = raced \ {s}
    /\ GoTo(s, "fetched")
    /\ UNCHANGED <<onGithub, stored, known, linked>>

ReadRows(s) ==
    /\ phase[s] = "fetched"
    /\ known' = [known EXCEPT ![s] =
          [r \in Repos |-> IF payload[s][r] # NoName THEN rows[r] ELSE NoName]]
    /\ GoTo(s, "rows")
    /\ UNCHANGED <<onGithub, stored, user, payload, skipped, linked, shown, listed, raced>>

ReadLinks(s) ==
    /\ phase[s] = "rows"
    /\ linked' = [linked EXCEPT ![s] = {r \in Repos : <<user[s], r>> \in links}]
    /\ GoTo(s, "links")
    /\ UNCHANGED <<onGithub, stored, user, payload, skipped, known, shown, listed, raced>>

Synced(s) == {r \in Repos : payload[s][r] # NoName}

\* Mutant: a stored repository keeps the name it was first seen under.
Written_FirstName(s) ==
    [r \in Repos |-> IF r \in Synced(s) /\ known[s][r] = NoName
                     THEN payload[s][r] ELSE rows[r]]

\* The INSERTs, and the UPDATEs of the names that differ from the loaded ones.
Written(s) ==
    [r \in Repos |-> IF r \in Synced(s) /\ payload[s][r] # known[s][r]
                     THEN payload[s][r] ELSE rows[r]]

Moves(s) == {r \in Repos : Written(s)[r] # rows[r]}

\* A row this sync did not find when it looked is there now.
InsertRefused(s) ==
    \E r \in Synced(s) : known[s][r] = NoName /\ rows[r] # NoName

\* uq_repositories_full_name is checked row by row: a name that is taken by a
\* row that stays, or by rows that only trade names, is refused for certain;
\* one taken by a row that moves too depends on the order of the UPDATEs.
NameRefused(s) ==
    \/ ~Distinct(Written(s))
    \/ \E T \in (SUBSET Moves(s)) \ {{}} :
          \A r \in T : \E q \in T : Written(s)[r] = rows[q]

NameMayBeTaken(s) ==
    \E r \in Moves(s) : \E q \in Repos \ {r} :
        Written(s)[r] = rows[q] /\ rows[q] # NoName

\* Who is still to write when s does.
Others(s) == {t \in Syncs \ {s} : phase[t] # "idle"}

\* link_repositories is ON CONFLICT DO NOTHING; the list is read back whole.
Write(s) ==
    /\ phase[s] = "links" /\ ~InsertRefused(s) /\ ~NameRefused(s)
    /\ rows' = Written(s)
    /\ links' = links \cup ({user[s]} \X (Synced(s) \ linked[s]))
    /\ listing' = [listing EXCEPT ![s] = {r \in Repos : <<user[s], r>> \in links'}]
    /\ raced' = raced \cup Others(s)
    /\ SyncEnds(s)
    /\ UNCHANGED <<onGithub, failed, listed>>

\* An IntegrityError of the flush, which nothing catches.
WriteRefused(s) ==
    /\ phase[s] = "links"
    /\ InsertRefused(s) \/ NameRefused(s) \/ NameMayBeTaken(s)
    /\ failed' = failed \cup {s}
    /\ SyncEnds(s)
    /\ UNCHANGED <<onGithub, stored, listing, listed, raced>>

\* GitHub refuses, or the process dies: nothing is written.
SyncFails(s) ==
    /\ phase[s] # "idle"
    /\ SyncEnds(s)
    /\ UNCHANGED <<onGithub, stored, shown, listed, raced>>

SyncNext ==
    \/ \E r \in Repos :
          \/ ChangeVisibility(r)
          \/ \E u \in Users, n \in Names \cup {NoName} : Rename(r, u, n)
    \/ \E s \in Syncs :
          \/ \E u \in Users : Fetch(s, u)
          \/ ReadRows(s) \/ ReadLinks(s) \/ Write(s) \/ WriteRefused(s) \/ SyncFails(s)

SyncSpec == SyncInit /\ [][SyncNext]_syncVars

-----------------------------------------------------------------------------
SyncTypeOK ==
    /\ name \in [Repos -> Names \cup {NoName}] /\ owner \in [Repos -> Users]
    /\ hidden \subseteq Repos /\ changes \in Nat /\ renamed \in BOOLEAN
    /\ rows \in [Repos -> Names \cup {NoName}] /\ links \subseteq Users \X Repos
    /\ phase \in [Syncs -> {"idle", "fetched", "rows", "links"}]
    /\ user \in [Syncs -> Users]
    /\ payload \in [Syncs -> [Repos -> Names \cup {NoName}]]
    /\ known \in [Syncs -> [Repos -> Names \cup {NoName}]]
    /\ skipped \in [Syncs -> SUBSET Repos] /\ linked \in [Syncs -> SUBSET Repos]
    /\ listing \in [Syncs -> SUBSET Repos] /\ failed \subseteq Syncs
    /\ listed \subseteq Users \X Repos /\ raced \subseteq Syncs

\* Nobody gets hold of a repository GitHub did not at some time list to them as
\* a public one of theirs: whatever syncs overlap, and however many accounts
\* share the rows (the private filter and the links of sync_user_repositories).
LinksWereListed == links \subseteq listed

\* A sync ends in a 500 only if another wrote after it asked GitHub, or if names
\* have moved on GitHub: accounts that take turns are served, transfers, deletions
\* and changes of visibility between them or not.
FailuresHaveAReason == \A s \in failed : s \in raced \/ renamed

\* A sync nobody wrote under leaves every repository GitHub listed to it under
\* the name GitHub gave: no stale name outlives the next undisturbed sync.
SoleSyncAgrees ==
    [][\A s \in Syncs :
          Write(s) /\ s \notin raced => \A r \in Synced(s) : rows'[r] = payload[s][r]]_syncVars

-----------------------------------------------------------------------------
(* The inductive invariant.                                                *)

\* What a sync holds GitHub has listed to its user, and so is what it links.
Offered ==
    /\ links \subseteq listed
    /\ \A s \in Syncs : \A r \in Synced(s) : <<user[s], r>> \in listed

\* The names a sync has loaded are the stored ones until another writes.
Fresh ==
    \A s \in Syncs \ raced : phase[s] \in {"rows", "links"} =>
        \A r \in Synced(s) : known[s][r] = rows[r]

\* While GitHub has given no name, every name there is anywhere is a first one.
FirstNames ==
    ~renamed => \E first \in [Repos -> Names \cup {NoName}] :
        /\ Distinct(first)
        /\ \A r \in Repos :
              /\ {name[r], rows[r]} \subseteq {NoName, first[r]}
              /\ \A s \in Syncs : payload[s][r] \in {NoName, first[r]}

SyncIInv == SyncTypeOK /\ Offered /\ Fresh /\ FirstNames /\ FailuresHaveAReason

-----------------------------------------------------------------------------
(* What the repository says and these steps do not do.                     *)

\* repo_service.py:30, of two tabs of a new account syncing at once: "the loser
\* used to escape as a raw 500 on the first page a new account ever sees".  With
\* nothing changed on GitHub, no sync ends in a 500.
FirstPageIsAList == failed = {}

\* test_repositories.py:273 test_private_repositories_are_never_listed,
\* "enforcing it here is what turns the sentence into a guarantee": a sync's
\* answer holds no repository that was private when GitHub was asked.
PrivateNeverListed == \A s \in Syncs : phase[s] = "idle" => listing[s] \cap skipped[s] = {}
=============================================================================
