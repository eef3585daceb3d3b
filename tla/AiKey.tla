------------------------------- MODULE AiKey -------------------------------
(***************************************************************************)
(* The one AI key an account may store: saves and removals from several    *)
(* tabs, each a request that loads the row and writes it back later, while *)
(* others do the same.                                                     *)
(*                                                                         *)
(* A save is cut at its load, its commit and, after a refused INSERT, the  *)
(* second load and commit.  What a save encrypts is told apart by the save *)
(* itself: encrypt_token never gives the same text twice.  The model name  *)
(* is a column that fares as the provider does and is left out.            *)
(***************************************************************************)
EXTENDS Naturals, OrmRow

CONSTANTS
    Saves,        \* PUT requests, each one made once
    Removals,     \* DELETE requests, each one made once
    Providers     \* anthropic, gemini, openai

ASSUME RequestsApart == Saves \cap Removals = {}

Requests == Saves \cup Removals
NoRow == [id |-> 0]

VARIABLES
    row,          \* the account's user_ai_keys row, NoRow when there is none
    lastId,       \* ids handed out to rows
    pc,           \* where a request stands
    chosen,       \* the provider a save asks for
    loaded,       \* the row as the request loaded it
    last,         \* history: the last save to write the row there is, as a set
    removed,      \* history: a removal has removed a row
    raced         \* history: saves that wrote over a row changed since they loaded it

known == <<last, removed, raced>>
keyVars == <<row, lastId, pc, chosen, loaded, known>>

KeyInit ==
    /\ row = NoRow /\ lastId = 0
    /\ pc = [r \in Requests |-> "idle"]
    /\ chosen \in [Saves -> Providers]
    /\ loaded = [r \in Requests |-> NoRow]
    /\ last = {} /\ removed = FALSE /\ raced = {}

GoTo(r, to) == pc' = [pc EXCEPT ![r] = to]

\* _load
Load(r) ==
    /\ \/ pc[r] = "idle" /\ GoTo(r, "commit")
       \/ pc[r] = "reload" /\ GoTo(r, "retry")
    /\ loaded' = [loaded EXCEPT ![r] = row]
    /\ UNCHANGED <<row, lastId, chosen, known>>

-----------------------------------------------------------------------------
(* put_ai_key                                                              *)

Assigned(s, old) == [id |-> old.id, provider |-> chosen[s], key |-> s]

Writing(s) == s \in Saves /\ pc[s] \in {"commit", "retry"}

\* Nobody has stored a key since the load, or ever.
InsertRow(s) ==
    /\ Writing(s) /\ loaded[s] = NoRow /\ row = NoRow
    /\ lastId' = lastId + 1
    /\ row' = [id |-> lastId + 1, provider |-> chosen[s], key |-> s]
    /\ last' = {s}
    /\ GoTo(s, "saved")
    /\ UNCHANGED <<chosen, loaded, removed, raced>>

\* Mutant: nothing catches the refusal.
InsertRefused_Uncaught(s) ==
    /\ Writing(s) /\ loaded[s] = NoRow /\ row # NoRow
    /\ GoTo(s, "server_error")
    /\ UNCHANGED <<row, lastId, chosen, loaded, known>>

\* uq_user_ai_keys_user_id: the first refusal is caught and retried as an
\* update of the winner's row, a second one is not.
InsertRefused(s) ==
    /\ Writing(s) /\ loaded[s] = NoRow /\ row # NoRow
    /\ GoTo(s, IF pc[s] = "commit" THEN "reload" ELSE "server_error")
    /\ UNCHANGED <<row, lastId, chosen, loaded, known>>

\* Mutant: an existing row gets the new key and keeps its provider.
Update_KeyOnly(s) ==
    /\ Writing(s) /\ loaded[s] # NoRow /\ row.id = loaded[s].id
    /\ row' = [row EXCEPT !.key = s]
    /\ last' = {s}
    /\ raced' = IF row = loaded[s] THEN raced ELSE raced \cup {s}
    /\ GoTo(s, "saved")
    /\ UNCHANGED <<lastId, chosen, loaded, removed>>

\* The UPDATE names the provider only if it is not the one that was loaded.
Update(s) ==
    /\ Writing(s) /\ loaded[s] # NoRow /\ row.id = loaded[s].id
    /\ row' = NetChange(row, loaded[s], Assigned(s, loaded[s]))
    /\ last' = {s}
    /\ raced' = IF row = loaded[s] THEN raced ELSE raced \cup {s}
    /\ GoTo(s, "saved")
    /\ UNCHANGED <<lastId, chosen, loaded, removed>>

\* The row that was loaded is gone: StaleDataError, which nothing catches.
UpdateMisses(s) ==
    /\ Writing(s) /\ loaded[s] # NoRow /\ row.id # loaded[s].id
    /\ GoTo(s, "server_error")
    /\ UNCHANGED <<row, lastId, chosen, loaded, known>>

-----------------------------------------------------------------------------
(* delete_ai_key: a row that is gone already is no error.                  *)

RemoveKey(d) ==
    /\ d \in Removals /\ pc[d] = "commit"
    /\ IF row # NoRow /\ row.id = loaded[d].id
       THEN row' = NoRow /\ last' = {} /\ removed' = TRUE
       ELSE UNCHANGED <<row, last, removed>>
    /\ GoTo(d, "saved")
    /\ UNCHANGED <<lastId, chosen, loaded, raced>>

KeyNext ==
    \E r \in Requests :
        \/ Load(r) \/ InsertRow(r) \/ InsertRefused(r) \/ Update(r) \/ UpdateMisses(r)
        \/ RemoveKey(r)

KeySpec == KeyInit /\ [][KeyNext]_keyVars

-----------------------------------------------------------------------------
Rows(n) == {NoRow} \cup [id : 1..n, provider : Providers, key : Saves]

KeyTypeOK ==
    /\ lastId \in Nat /\ row \in Rows(lastId)
    /\ pc \in [Requests -> {"idle", "commit", "reload", "retry", "saved", "server_error"}]
    /\ chosen \in [Saves -> Providers]
    /\ loaded \in [Requests -> Rows(lastId)]
    /\ last \subseteq Saves /\ removed \in BOOLEAN /\ raced \subseteq Saves

\* The key in use is that of the last save to be committed, however many tabs
\* saved at once: it never goes back to an earlier one (put_ai_key).
KeyIsTheLast == row # NoRow => last = {row.key}

\* The key stands beside another save's provider only if its own save wrote
\* over a change it had not seen: saves that take turns store what they say.
MixNeedsARace == row # NoRow /\ row.provider # chosen[row.key] => row.key \in raced

\* No race of saves alone ends in a 500, first saves included: only a removal
\* in between can make one fail (the except of put_ai_key).
OnlyRemovalsBreakSaves ==
    (\E s \in Saves : pc[s] = "server_error") => removed

\* Rows that were loaded are the stored one or one removed since; until a
\* removal there is a row from the first save on.
Loaded ==
    /\ \A r \in Requests :
           loaded[r] # NoRow /\ row # NoRow /\ loaded[r].id # row.id => removed
    /\ \A r \in Requests : loaded[r] # NoRow /\ row = NoRow => removed
    /\ lastId > 0 /\ row = NoRow => removed
    /\ \A s \in Saves : pc[s] = "reload" => lastId > 0
    /\ \A s \in Saves : pc[s] = "retry" /\ loaded[s] = NoRow => removed

\* The key of a save that has not written yet is nowhere.
Unsaved ==
    \A s \in Saves : pc[s] # "saved" =>
        /\ row # NoRow => row.key # s
        /\ \A r \in Requests : loaded[r] # NoRow => loaded[r].key # s

KeyIInv ==
    KeyTypeOK /\ Unsaved /\ KeyIsTheLast /\ MixNeedsARace /\ OnlyRemovalsBreakSaves /\ Loaded

-----------------------------------------------------------------------------
\* ai_settings.py:99 "Lost a race with a concurrent first-time save: last write
\* wins": a save that comes again after losing that race leaves what it asked
\* for, its provider with its key.
LastWriteWins ==
    [][\A s \in Saves : pc[s] = "retry" /\ Update(s) => row'.provider = chosen[s]]_keyVars
=============================================================================
