----------------------------- MODULE RepoAiStage -----------------------------
(***************************************************************************)
(* The AI stage of a repository snapshot review, from the packing of files *)
(* into chunks to what the reader is told about its coverage.              *)
(*                                                                         *)
(* The files are their rendered sizes, in review order.  The provider may  *)
(* answer, refuse, answer garbage, fail for the moment or reject the key   *)
(* or the account's quota, on any call, or answer with an item the checks  *)
(* do not survive; the job may be cancelled or lost at any boundary        *)
(* between chunks.  The mock provider is not modelled.                     *)
(***************************************************************************)
EXTENDS Naturals, SequencesExt

CONSTANTS
    Sizes,          \* rendered sizes a file may have
    MaxFiles,       \* bound: reviewable files in the workspace
    MaxUnread,      \* bound: files dropped when the tarball was extracted
    Budget,         \* AI_CHUNK_CHAR_BUDGET
    KeylessChunks,  \* KEYLESS_AI_CHUNKS
    MaxChunks,      \* MAX_AI_CHUNKS
    Retries,        \* CHUNK_TRANSIENT_RETRIES
    MaxStrikes      \* MAX_CONSECUTIVE_CHUNK_FAILURES

ASSUME StageAssumption ==
    /\ Sizes \subseteq Nat \ {0} /\ Budget \in Nat
    /\ {MaxFiles, MaxUnread, KeylessChunks, MaxChunks, Retries} \subseteq Nat
    /\ MaxStrikes \in Nat \ {0}

VARIABLES
    files,      \* the rendered size of each reviewable file
    chunks,     \* the plan: each chunk the indices of its files
    unread,     \* files the extraction dropped
    tier,       \* whose key pays: "user" or "server"
    phase,      \* where the stage stands
    pos,        \* chunks behind it
    tries,      \* transient failures of the current chunk
    strikes,    \* chunks failed in a row
    wasted,     \* history: calls since the last usable answer
    shown,      \* chunks whose findings are in the result
    stats,      \* the AI counters of ReviewStats
    note        \* the AI sentences of the summary

input == <<files, chunks, unread, tier>>
loop == <<phase, pos, tries, strikes, wasted>>
vars == <<input, loop, shown, stats, note>>

-----------------------------------------------------------------------------
(* plan_chunks: files are packed whole, in order, under the budget.        *)

SizeOf(f, chunk) == FoldLeft(LAMBDA sum, i : sum + f[i], 0, chunk)

JoinLast(plan, i) ==
    [plan EXCEPT ![Len(plan)] = Append(@, i)]

\* Mutant: the file that starts a new chunk is not put into it.
Place_Lost(f, plan, i) ==
    IF f[i] > Budget THEN plan
    ELSE IF plan # <<>> /\ SizeOf(f, Last(plan)) + f[i] <= Budget
         THEN JoinLast(plan, i)
         ELSE Append(plan, <<>>)

Place(f, plan, i) ==
    IF f[i] > Budget THEN plan
    ELSE IF plan # <<>> /\ SizeOf(f, Last(plan)) + f[i] <= Budget
         THEN JoinLast(plan, i)
         ELSE Append(plan, <<i>>)

PlanChunks(f) == FoldLeft(LAMBDA plan, i : Place(f, plan, i), <<>>, [i \in DOMAIN f |-> i])

TooLarge == {i \in DOMAIN files : files[i] > Budget}

Least(a, b) == IF a < b THEN a ELSE b

\* The tier decides how many chunks may run.
Cap == Least(IF tier = "user" THEN MaxChunks ELSE KeylessChunks, MaxChunks)
ToRun == SubSeq(chunks, 1, Least(Cap, Len(chunks)))

Init ==
    /\ files \in BoundedSeq(Sizes, MaxFiles)
    /\ chunks = PlanChunks(files)
    /\ unread \in 0..MaxUnread
    /\ tier \in {"user", "server"}
    /\ phase = "boundary"
    /\ pos = 0 /\ tries = 0 /\ strikes = 0 /\ wasted = 0
    /\ shown = {}
    /\ stats = [total |-> Len(files), covered |-> 0, run |-> 0, failed |-> 0,
                capped |-> FALSE, truncated |-> FALSE, config |-> FALSE]
    /\ note = {}

-----------------------------------------------------------------------------
(* run_repo_ai_stage: the loop over the chunks.                            *)

\* The boundary's checkpoint: cancelled, or no longer this worker's job.
Stop ==
    /\ phase = "boundary" /\ pos < Len(ToRun)
    /\ phase' = "stopped"
    /\ UNCHANGED <<input, pos, tries, strikes, wasted, shown, stats, note>>

\* Mutant: the chunks left over are not counted as failed.
GiveUp_Uncounted ==
    /\ phase = "boundary" /\ pos < Len(ToRun) /\ strikes >= MaxStrikes
    /\ phase' = "leave"
    /\ UNCHANGED <<input, pos, tries, strikes, wasted, shown, stats, note>>

\* Too many failures in a row: the rest is counted as failed and not tried.
GiveUp ==
    /\ phase = "boundary" /\ pos < Len(ToRun) /\ strikes >= MaxStrikes
    /\ stats' = [stats EXCEPT !.failed = @ + (Len(ToRun) - pos)]
    /\ phase' = "leave"
    /\ UNCHANGED <<input, pos, tries, strikes, wasted, shown, note>>

Try ==
    /\ phase = "boundary" /\ pos < Len(ToRun) /\ strikes < MaxStrikes
    /\ phase' = "call"
    /\ tries' = 0
    /\ UNCHANGED <<input, pos, strikes, wasted, shown, stats, note>>

\* Every chunk has been through the loop.
RunOut ==
    /\ phase = "boundary" /\ pos = Len(ToRun)
    /\ phase' = "leave"
    /\ UNCHANGED <<input, pos, tries, strikes, wasted, shown, stats, note>>

\* A usable answer.  It may have been cut short.
Answered ==
    /\ phase = "call"
    /\ \E short \in BOOLEAN :
          stats' = [stats EXCEPT !.run = @ + 1, !.truncated = @ \/ short,
                                 !.covered = @ + Len(ToRun[pos + 1])]
    /\ shown' = shown \cup {pos + 1}
    /\ phase' = "boundary" /\ pos' = pos + 1
    /\ strikes' = 0 /\ wasted' = 0
    /\ UNCHANGED <<input, tries, note>>

\* Mutant: failures in a row are not counted.
ChunkFailed_NoStrike ==
    /\ phase' = "boundary" /\ pos' = pos + 1
    /\ wasted' = wasted + 1
    /\ UNCHANGED <<input, tries, strikes, shown, note>>

\* What a failed chunk does to the loop.
ChunkFailed ==
    /\ phase' = "boundary" /\ pos' = pos + 1
    /\ strikes' = strikes + 1 /\ wasted' = wasted + 1
    /\ UNCHANGED <<input, tries, shown, note>>

\* A refusal, or an answer that does not parse: the call is spent.
Unusable ==
    /\ phase = "call"
    /\ \E short \in BOOLEAN :
          stats' = [stats EXCEPT !.run = @ + 1, !.failed = @ + 1,
                                 !.truncated = @ \/ short]
    /\ ChunkFailed

\* Mutant: the chunk goes back to the loop uncounted.
Retry_FromTheBoundary ==
    /\ phase = "call" /\ tries < Retries
    /\ phase' = "boundary"
    /\ UNCHANGED <<input, pos, tries, strikes, wasted, shown, stats, note>>

\* Anything else the provider raises: try again, then degrade.
Retry ==
    /\ phase = "call" /\ tries < Retries
    /\ tries' = tries + 1 /\ wasted' = wasted + 1
    /\ UNCHANGED <<input, phase, pos, strikes, shown, stats, note>>

Degrade ==
    /\ phase = "call" /\ tries >= Retries
    /\ stats' = [stats EXCEPT !.failed = @ + 1]
    /\ ChunkFailed

\* An item that has no start_line raises where no except clause is: the attempt
\* goes to the retry path, and its result, counters and all, is dropped.
Raise ==
    /\ phase = "call"
    /\ phase' = "stopped"
    /\ UNCHANGED <<input, pos, tries, strikes, wasted, shown, stats, note>>

\* A rejected key, model or quota leaves the stage by an exception: its
\* findings never reach the result, whose counters stay as they are.
ConfigError ==
    /\ phase = "call"
    /\ stats' = [stats EXCEPT !.config = TRUE]
    /\ shown' = {}
    /\ phase' = "summary"
    /\ UNCHANGED <<input, pos, tries, strikes, wasted, note>>

\* The end of the stage: chunks beyond the keyless cap are told of.
Leave ==
    /\ phase = "leave"
    /\ stats' = [stats EXCEPT !.capped = tier = "server" /\ Len(chunks) > Len(ToRun)]
    /\ phase' = "summary"
    /\ UNCHANGED <<input, pos, tries, strikes, wasted, shown, note>>

-----------------------------------------------------------------------------
(* What the reader is told.                                                *)

\* Mutant: a failed chunk and a repository too large share one sentence's guard.
RepoAiNote_NoFailed ==
    IF stats.config THEN {"config"}
    ELSE UNION {
        IF stats.capped THEN {"capped"} ELSE {},
        IF ~stats.capped /\ stats.covered < stats.total /\ stats.failed = 0
        THEN {"larger"} ELSE {},
        IF stats.truncated THEN {"short"} ELSE {}}

\* _repo_ai_note: the sentences of the summary.
RepoAiNote ==
    IF stats.config THEN {"config"}
    ELSE UNION {
        IF stats.capped THEN {"capped"} ELSE {},
        IF ~stats.capped /\ stats.covered < stats.total /\ stats.failed = 0
        THEN {"larger"} ELSE {},
        IF stats.failed > 0 THEN {"failed"} ELSE {},
        IF stats.truncated THEN {"short"} ELSE {}}

Summarize ==
    /\ phase = "summary"
    /\ note' = RepoAiNote
    /\ phase' = "fold"
    /\ UNCHANGED <<input, pos, tries, strikes, wasted, shown, stats>>

\* Mutant: the files left in the tarball are forgotten.
Fold_Forgotten ==
    /\ phase = "fold"
    /\ phase' = "done"
    /\ UNCHANGED <<input, pos, tries, strikes, wasted, shown, stats, note>>

\* _run_repository_review adds what the extraction dropped, after the pipeline
\* returned its summary.
Fold ==
    /\ phase = "fold"
    /\ stats' = [stats EXCEPT !.total = @ + unread]
    /\ phase' = "done"
    /\ UNCHANGED <<input, pos, tries, strikes, wasted, shown, note>>

\* The one banner the review page shows, from the stored markers.
Banner ==
    CASE stats.config -> "config"
      [] ~stats.config /\ stats.failed > 0 -> "failed"
      [] ~stats.config /\ stats.failed = 0 /\ stats.capped -> "capped"
      [] OTHER -> IF stats.run = 0 THEN "no AI"
                  ELSE IF stats.covered < stats.total THEN "larger" ELSE "none"

Next ==
    \/ Stop \/ GiveUp \/ Try \/ RunOut
    \/ Answered \/ Unusable \/ Retry \/ Degrade \/ Raise \/ ConfigError
    \/ Leave \/ Summarize \/ Fold

\* Every call has a timeout and every pause an end.
Spec == Init /\ [][Next]_vars /\ WF_vars(Next)

-----------------------------------------------------------------------------
TypeOK ==
    /\ ToSet(files) \subseteq Sizes /\ unread \in 0..MaxUnread
    /\ tier \in {"user", "server"}
    /\ phase \in {"boundary", "call", "leave", "summary", "fold", "done", "stopped"}
    /\ pos \in 0..Len(ToRun) /\ tries \in 0..Retries /\ strikes \in 0..MaxStrikes
    /\ shown \subseteq DOMAIN ToRun
    /\ note \subseteq {"config", "capped", "larger", "failed", "short"}
    /\ stats \in [total : 0..(MaxFiles + MaxUnread), covered : 0..MaxFiles,
                  run : 0..MaxChunks, failed : 0..MaxChunks,
                  capped : BOOLEAN, truncated : BOOLEAN, config : BOOLEAN]

\* plan_chunks puts every file that fits into one chunk and into no other: none
\* is read twice, and none is lost at a chunk's edge (repo_review.py:140-167).
FilesPlannedOnce ==
    /\ \A n \in DOMAIN files \ TooLarge : \E c \in DOMAIN chunks : n \in ToSet(chunks[c])
    /\ \A c, d \in DOMAIN chunks : c # d => ToSet(chunks[c]) \cap ToSet(chunks[d]) = {}

FilesIn(set) == UNION {ToSet(chunks[c]) : c \in set}

\* However the loop ends, every chunk it was to run is either answered or
\* counted as failed, and the files counted as covered are those of the answered
\* ones (repo_review.py:119-135).
ChunkLedger ==
    (phase \in {"leave", "summary", "fold", "done"} /\ ~stats.config) =>
        /\ stats.failed + Cardinality(shown) = Len(ToRun)
        /\ stats.covered = Cardinality(FilesIn(shown))

\* The calls that n chunks failing one after another cost, retries included.
CostOf(n) == n * (Retries + 1)

\* A provider that is down costs a bounded number of calls, retries included,
\* before the loop stops spending (repo_review.py:8-12, 48-50).
WasteBounded == wasted <= CostOf(MaxStrikes)

\* A summary without an AI sentence means that every reviewable file of the
\* workspace was read and its findings are in the result; one that says only the
\* deterministic checks ran comes without AI findings (pipeline.py:138-141, 186-187).
SilenceMeansComplete ==
    phase \in {"fold", "done"} =>
        /\ note = {} => FilesIn(shown) = DOMAIN files /\ ~stats.truncated
        /\ "config" \in note => shown = {}

\* The page shows no banner only when the AI read every file of the repository,
\* those the extraction dropped included (runner.py:380-386).
BannerIsHonest ==
    phase = "done" =>
        (Banner = "none" => Cardinality(FilesIn(shown)) = Len(files) + unread)

-----------------------------------------------------------------------------
(* The inductive invariant.                                                *)

Looping == phase \in {"boundary", "call"}

\* What the calls of the loop have cost so far.
Spending ==
    /\ wasted \in Nat /\ WasteBounded
    /\ phase = "boundary" => wasted <= CostOf(strikes)
    /\ phase = "call" => strikes < MaxStrikes /\ wasted <= CostOf(strikes) + tries

\* Every chunk behind the loop is in the books, and what was shown is counted.
Books ==
    /\ chunks = PlanChunks(files) /\ files \in BoundedSeq(Sizes, MaxFiles)
    /\ shown \subseteq 1..pos /\ stats.run <= pos
    /\ stats.total = IF phase = "done" THEN Len(files) + unread ELSE Len(files)
    /\ phase = "call" => pos < Len(ToRun)
    /\ IF stats.config THEN shown = {} /\ phase \in {"summary", "fold", "done"}
       ELSE /\ stats.covered = Cardinality(FilesIn(shown))
            /\ phase # "stopped" =>
                  stats.failed + Cardinality(shown) = IF Looping THEN pos ELSE Len(ToRun)

\* What was told stays true of what was read.
Telling ==
    /\ phase = "fold" => note = RepoAiNote
    /\ SilenceMeansComplete

IInv == TypeOK /\ Spending /\ Books /\ Telling

\* The stage ends, whatever the provider does.
StageEnds == <>(phase \in {"done", "stopped"})

\* repo_review.py:11-12: "only config errors (a bad key, a bad model id) abort the
\* stage, because they fail every chunk identically".
ConfigErrorsFailEveryChunk == stats.config => stats.run = 0

\* runner.py:380-382: "Folding them into the total keeps the coverage sentence from
\* claiming a repository was fully read when part of it was left in the tarball."
SentenceCountsUnread ==
    (phase = "done" /\ note = {}) => stats.covered = stats.total
=============================================================================
