----------------------------- MODULE ReviewRun -----------------------------
(***************************************************************************)
(* One claimed job, from the job row to the summary and the page.          *)
(*                                                                         *)
(* The worker fills a workspace, runs the analyzers in threads of their    *)
(* own and takes their results one after the other under a timeout, asks   *)
(* the AI reviewer, and puts together what the reader is told.  GitHub and *)
(* the provider may fail at every call, a tool may crash, hang or end      *)
(* late, and the job may be cancelled or lost at every checkpoint.  The    *)
(* loop over the chunks of a repository is RepoAiStage; here it is one     *)
(* answer.                                                                 *)
(***************************************************************************)
EXTENDS SnapshotExtraction, Sequences, SequencesExt

CONSTANTS
    CompareCap,   \* COMPARE_FILE_CAP
    AllTools, Secrets, \* the analyzers, and the one that counts what it holds back
    ToolsFor,     \* per target its analyzers, in the order their results are taken
    MaxAttempts   \* attempts a job has

ASSUME RunAssumption ==
    /\ {CompareCap, MaxAttempts} \subseteq Nat \ {0}
    /\ ToolsFor \in [{"repository", "pull_request"} -> Seq(AllTools)]

VARIABLES
    at,         \* where the worker stands
    attempt,    \* which attempt this is
    verdict,    \* how the job ended, with the message of a failure
    tool,       \* each analyzer's thread
    found,      \* have the collected findings one of an analyzer?
    heldBack,   \* does the secrets analyzer's count of held back matches stand at more than 0?
    waiting,    \* analyzers whose results have been taken, or given up
    ran,        \* analyzers_run
    suppressed, \* was that count more than 0 when it was read?
    ai,         \* what became of the AI stage
    aiFound,    \* has it findings?
    summary,    \* the sentences of the summary
    banners     \* the notices of the page

analysis == <<tool, found, heldBack, waiting, ran, suppressed, ai, aiFound>>
told == <<summary, banners>>
vars == <<ingestion, at, attempt, verdict, analysis, told>>

Analyzers == ToolsFor[target]
Tools == ToSet(Analyzers)

Idle == [t \in AllTools |-> "idle"]

Init ==
    /\ IngestionInit
    /\ at = "start" /\ attempt = 1 /\ verdict = "none"
    /\ tool = Idle /\ found = FALSE /\ heldBack = FALSE
    /\ waiting = 0 /\ ran = {} /\ suppressed = FALSE
    /\ ai = "none" /\ aiFound = FALSE
    /\ summary = {} /\ banners = {}

Goto(place) == at' = place /\ UNCHANGED <<attempt, verdict>>
End(how) == at' = "over" /\ verdict' = how /\ UNCHANGED attempt

-----------------------------------------------------------------------------
(* How an attempt ends early.                                              *)

\* Permanent: the message says what is wrong, no attempt is spent on it.
Fail(message) ==
    /\ End(message)
    /\ UNCHANGED <<ingestion, analysis, told>>

\* Anything else: again from the start, while attempts are left.
RetryOrFail ==
    \/ /\ attempt < MaxAttempts
       /\ at' = "start" /\ attempt' = attempt + 1 /\ verdict' = "none"
       /\ Emptied
       /\ tool' = Idle /\ found' = FALSE /\ heldBack' = FALSE
       /\ waiting' = 0 /\ ran' = {} /\ suppressed' = FALSE
       /\ ai' = "none" /\ aiFound' = FALSE
       /\ UNCHANGED told
    \/ /\ attempt = MaxAttempts
       /\ Fail("exhausted")

\* A checkpoint finds the job cancelled, or somebody else's.
Stop ==
    /\ \/ at \in {"start", "compared", "downloaded", "filled", "told"}
       \/ at = "ai" /\ target = "repository"
    /\ Fail("stopped")

\* 401 flags the connection, 404 is permanent, a rate limit and all else is not.
GithubFails ==
    /\ at \in {"compare", "fetch", "download"}
    /\ Fail("reconnect") \/ Fail("gone") \/ RetryOrFail

-----------------------------------------------------------------------------
(* run_claimed_job, up to the workspace.                                   *)

\* No usable provider settings, or no usable connection.
NotConfigured ==
    /\ at = "start"
    /\ Fail("misconfigured") \/ Fail("reconnect")

Begin ==
    /\ at = "start"
    /\ Goto(IF target = "repository" THEN "download" ELSE "compare")
    /\ UNCHANGED <<ingestion, analysis, told>>

Compare ==
    /\ at = "compare"
    /\ Goto("compared")
    /\ UNCHANGED <<ingestion, analysis, told>>

TooManyFiles ==
    /\ at = "compared" /\ Cardinality(Listed) >= CompareCap
    /\ Fail("too many files")

BuildDiff ==
    /\ at = "compared" /\ Cardinality(Listed) < CompareCap
    /\ Goto("fetch")
    /\ UNCHANGED <<ingestion, analysis, told>>

\* The next file of the comparison.
Populate ==
    /\ at = "fetch"
    /\ \E p \in todo : Skip(p) \/ Fetch(p)
    /\ Goto("fetch")
    /\ UNCHANGED <<analysis, told>>

\* The workspace takes no file of this name: an attempt is spent.
PopulateFails ==
    /\ at = "fetch" /\ \E p \in todo : kind[p] \in {"plain", "large"}
    /\ RetryOrFail

Download ==
    /\ at = "download"
    /\ Goto("downloaded")
    /\ UNCHANGED <<ingestion, analysis, told>>

DownloadTooLarge == at = "download" /\ Fail("too large")

Open ==
    /\ at = "downloaded"
    /\ Goto("unpack")
    /\ UNCHANGED <<ingestion, analysis, told>>

\* No tarball, or one that ends early; or an error nobody foresaw.
BadTarball ==
    /\ at = "unpack"
    /\ Fail("bad snapshot") \/ RetryOrFail

Unpack ==
    /\ at = "unpack"
    /\ \E p \in todo : LeaveOut(p) \/ Extract(p) \/ WriteFails(p)
    /\ Goto("unpack")
    /\ UNCHANGED <<analysis, told>>

\* Mutant: past a ceiling the walk ends, and the review goes on.
Refuse_Truncates ==
    /\ at = "unpack" /\ \E p \in todo : Over(p)
    /\ Goto("filled")
    /\ UNCHANGED <<ingestion, analysis, told>>

\* Past a ceiling the whole is refused.
Refuse ==
    /\ at = "unpack" /\ \E p \in todo : Over(p)
    /\ Fail("too large")

Filled ==
    /\ at \in {"fetch", "unpack"} /\ todo = {}
    /\ Goto("filled")
    /\ UNCHANGED <<ingestion, analysis, told>>

BadDiff == at = "filled" /\ target = "pull_request" /\ Fail("bad diff")

-----------------------------------------------------------------------------
(* run_analyzers.                                                          *)

Analyze ==
    /\ at = "filled"
    /\ tool' = [t \in AllTools |-> IF t \in Tools THEN "running" ELSE "idle"]
    /\ Goto("analyze")
    /\ UNCHANGED <<ingestion, found, heldBack, waiting, ran, suppressed, ai, aiFound, told>>

\* A thread ends, in time or not.
ToolEnds(t) ==
    /\ at = "analyze" /\ tool[t] = "running"
    /\ \E how \in {"clean", "hit", "crashed"} : tool' = [tool EXCEPT ![t] = how]
    /\ heldBack' \in {heldBack, heldBack \/ (t = Secrets /\ tool'[t] # "crashed")}
    /\ UNCHANGED <<ingestion, at, attempt, verdict, found, waiting, ran, suppressed, ai, aiFound, told>>

Take(t) ==
    /\ at = "analyze" /\ waiting < Len(Analyzers) /\ t = Analyzers[waiting + 1]
    /\ waiting' = waiting + 1
    /\ UNCHANGED <<ingestion, at, attempt, verdict, tool, heldBack, suppressed, ai, aiFound, told>>

\* The result of the next analyzer in line, or its exception.
Collect(t) ==
    /\ Take(t)
    /\ tool[t] # "running"
    /\ ran' = IF tool[t] = "crashed" THEN ran ELSE ran \cup {t}
    /\ found' = (found \/ tool[t] = "hit")

\* Mutant: a tool that did not end is waited for.
TimeOut_Never(t) == Take(t) /\ tool[t] = "crashed" /\ UNCHANGED <<ran, found>>

\* It takes too long: its thread is left alone.
TimeOut(t) == Take(t) /\ tool[t] = "running" /\ UNCHANGED <<ran, found>>

\* The count of held back matches is read when the last result is in; what a thread
\* does from here on reaches nobody.
Analyzed ==
    /\ at = "analyze" /\ waiting = Len(Analyzers)
    /\ suppressed' = heldBack /\ heldBack' = FALSE /\ waiting' = 0
    /\ tool' = [t \in AllTools |-> IF tool[t] = "running" THEN "abandoned" ELSE tool[t]]
    /\ Goto("ai")
    /\ UNCHANGED <<ingestion, found, ran, ai, aiFound, told>>

Skipped == Tools \ ran

-----------------------------------------------------------------------------
(* The AI stage, and what the reader is told.                              *)

\* What a pull request's one call comes to, and what a repository's calls do.
AiOutcomes ==
    {"complete", "short", "config", "mock"} \cup
    (IF target = "repository" THEN {"incomplete"} ELSE {"too_large", "refused", "unusable"})

AiStage ==
    /\ at = "ai"
    /\ ai' \in AiOutcomes
    /\ aiFound' \in BOOLEAN /\ (aiFound' => ai' \in {"complete", "incomplete", "short"})
    /\ Goto("tell")
    /\ UNCHANGED <<ingestion, tool, found, heldBack, waiting, ran, suppressed, told>>

\* The provider is down, which a repository's stage survives, or its answer is one the
\* validation raises on, which neither does: the attempt is lost.
AiFails == at = "ai" /\ RetryOrFail

FoundAny == found \/ aiFound

\* Mutant: a review in which nothing ran passes for clean.
Headline_Clean == IF FoundAny THEN "counts" ELSE "clean"

\* _summarize.
Headline ==
    IF FoundAny THEN "counts" ELSE IF ran = {} THEN "nothing was checked" ELSE "clean"

\* The summary's sentences.  A repository's unread files are not in files_not_reviewed.
Sentences ==
    {Headline}
    \cup (IF ai = "complete" THEN {} ELSE {ai})
    \cup (IF target = "pull_request" /\ counts.skipped > 0 THEN {"files not reviewed"} ELSE {})
    \cup (IF suppressed THEN {"matches held back"} ELSE {})

\* The page's one notice on the AI, and the one on the analyzers.
Notices ==
    (IF ai \in {"config", "too_large", "incomplete", "mock"} THEN {ai}
     ELSE IF target = "repository" /\ Missed > 0 THEN {"files not read"} ELSE {})
    \cup (IF Skipped = {} THEN {} ELSE {"analyzers did not finish"})

Tell ==
    /\ at = "tell"
    /\ summary' = Sentences /\ banners' = Notices
    /\ Goto("told")
    /\ UNCHANGED <<ingestion, analysis>>

Complete == at = "told" /\ Fail("completed")

Worker ==
    \/ Stop \/ GithubFails
    \/ NotConfigured \/ Begin
    \/ Compare \/ TooManyFiles \/ BuildDiff \/ Populate \/ PopulateFails
    \/ Download \/ DownloadTooLarge \/ Open \/ BadTarball \/ Unpack \/ Refuse
    \/ Filled \/ BadDiff
    \/ Analyze \/ (\E t \in Tools : Collect(t) \/ TimeOut(t)) \/ Analyzed
    \/ AiStage \/ AiFails \/ Tell \/ Complete

Next == Worker \/ \E t \in Tools : ToolEnds(t)

\* Every call of the worker has a timeout; an analyzer's thread may hang for good.
Spec == Init /\ [][Next]_vars /\ WF_vars(Worker)

-----------------------------------------------------------------------------
\* A review that says it is clean, without a sentence or a notice beside that, is one in
\* which every analyzer finished, the AI reviewer read what it was given, and every file
\* for review was in the workspace: past a ceiling a snapshot is refused and never cut
\* short (snapshot.py:6-10, pipeline.py:67-85, 296-333, runner.py:481-490).
SilenceMeansChecked ==
    (verdict = "completed" /\ summary = {"clean"} /\ banners = {}) =>
        (\A t \in Tools : tool[t] = "clean") /\ ai = "complete" /\ Wanted \subseteq Whole

\* Every analyzer either finished, and what it found is in the review, or the page says
\* that some did not; "passes all checks" is never said of a review in which none did
\* (base.py:23-49, pipeline.py:67-81).
EveryToolIsNamed ==
    verdict = "completed" =>
        /\ "analyzers did not finish" \in banners
              <=> \E t \in Tools : tool[t] \in {"crashed", "abandoned"} \/ t \notin ran
        /\ "clean" \in summary => ran # {} /\ \A t \in ran : tool[t] # "hit"

\* What makes them inductive.  Each path keeps to its places, and a workspace is full
\* before anything reads it.
Places ==
    /\ at \in {"compare", "compared", "fetch"} => target = "pull_request"
    /\ at \in {"download", "downloaded", "unpack"} => target = "repository"
    /\ at \in {"filled", "analyze", "ai", "tell", "told"} => todo = {}
    /\ verdict = "completed" => at = "over" /\ todo = {}

\* A tool is in the results of this attempt only once it ended, with its findings.
Results ==
    /\ tool \in [AllTools -> {"idle", "running", "clean", "hit", "crashed", "abandoned"}]
    /\ found \in BOOLEAN /\ aiFound \in BOOLEAN /\ ran \subseteq Tools
    /\ \A t \in ran : tool[t] = "clean" \/ (tool[t] = "hit" /\ found)
    /\ at \notin {"analyze", "ai", "tell", "told", "over"} => ran = {}
    /\ at = "analyze" => \A t \in Tools : tool[t] \notin {"idle", "abandoned"}

\* The reader is told of this attempt, and of all of it.
Telling ==
    /\ at \in {"tell", "told"} \/ verdict = "completed" => ai \in AiOutcomes
    /\ at = "told" \/ verdict = "completed" => summary = Sentences /\ banners = Notices

IInv == IngestionIInv /\ Places /\ Results /\ Telling

\* Whatever hangs, fails or is answered badly, every claimed job comes to an end within
\* its attempts: an analyzer that never returns is given up on, and no error leads back to
\* the start for free (base.py:35-49, runner.py:533-600).
RunEnds == <>(at = "over")

-----------------------------------------------------------------------------
\* models.py:52-55: "Counted rather than dropped, because a review that silently skips a
\* file still prints \"all deterministic checks\" underneath."
NoSilentSkip ==
    (verdict = "completed" /\ target = "pull_request" /\ summary = {"clean"} /\ banners = {})
    => \A p \in Paths : kind[p] # "large"

\* pipeline.py:72-74: "saying "passes all checks" when no check completed is the most
\* dangerous sentence this product could print": nor is it true when one did not.
CleanNeedsAll == (verdict = "completed" /\ "clean" \in summary) => Skipped = {}

\* secrets_adapter.py:198-199: "Read by the pipeline after analyze(), so the summary can say
\* how many matches were held back and why".
ReadAfterAnalyze == suppressed => Secrets \in ran

\* runner.py:380-381: "Files dropped at extraction never reached the workspace".
DroppedIsGone == \A p \in Paths : disk[p] # "cut"
=============================================================================
