# DiffLens in TLA+

DiffLens reviews pull requests and repository snapshots. A FastAPI process
accepts requests and inserts a *review* and its *job* in Postgres, rings a
doorbell in Redis, and a worker process claims the job, fetches the code from
GitHub, runs analyzers and an AI provider, and writes the findings back. The
modules here model the parts of that which are hard to test: what concurrent
requests, workers, sweeps, crashes and lost messages can do to the rows a user
sees. `PROJECT.json` lists every component, run, mutant, mapped source line,
hazard, finding and theorem; this file is the guide to them.

## 1. The system's parts

| Part | State | Operations | Interacts with |
|---|---|---|---|
| Job queue (`worker/jobs.py`, `worker/loop.py`, `app/queue.py`) | `review_jobs` rows, a Redis list, each worker's process state | claim, heartbeat, sweep, poll, ring, requeue, fail, cancel | API (create, cancel), runner |
| Runner (`worker/runner.py`) | the job in memory, a workspace on disk | checkpoints between stages, gated persist, retry or fail | GitHub, analyzers, AI stage, queue |
| Analyzers (`analysis/analyzers/`) | a thread each, with a timeout | run, crash, hang, end late | runner, findings pipeline |
| Review service (`services/review_service.py`, `routers/reviews.py`) | `reviews` rows under two partial unique indexes | create, rerun (supersede + insert), cancel | GitHub, queue |
| Public demo (`demo/`, `routers/demo.py`) | one pull request's reviews | seed, rerun, prune, current review | review service, worker |
| Repository AI stage (`analysis/repo_review.py`, `pipeline.py`) | chunks, counters, the summary's sentences, markers for the page | plan, call, retry, give up, summarize | AI provider, runner, review page |
| Findings pipeline (`ai_review.py`, `diffs/`, `dedup.py`) | none between reviews | validate citations, fingerprint, merge, cap | runner |
| Snapshot extraction (`worker/snapshot.py`) | a workspace | skip, refuse, write members | runner |
| GitHub connection (`auth.py`, `deps.py`, `github_errors.py`) | the stored token and its `token_invalid` flag, sessions | sign-in, use, invalidate | every GitHub caller |
| Repository sync (`repo_service.py`) | repositories, links, pull requests | sync, list | GitHub |
| AI key (`ai_settings.py`, `ai/factory.py`) | one key row per user | put, delete, resolve | runner |
| Rate limiter (`rate_limit.py`) | counters in Redis | count, refuse, fail open | three routers |
| Contact form (`contact.py`, `contact_forward.py`) | messages with a `forwarded` flag | store, forward | mail provider |
| Feedback (`findings.py`) | one verdict per user and finding | put, delete | review page |
| Review page (`web/src/app/reviews/[id]/page.tsx`) | the review as last polled | poll, cancel, rerun, give feedback | API |
| AI providers, logging, static pages | none over time | | |

What makes each of the modelled ones correct, and what is hard about it:

* **Job queue.** Postgres is the truth and Redis only a doorbell. Every
  transition is one guarded UPDATE. Hard: a worker that the sweep gave up on
  comes back; a cancel arrives at any moment; a ring is lost or duplicated; a
  worker dies between any two transactions. Correct means: job row and review
  row agree, findings are those of one run, a finished job stays finished, a
  cancel sticks, attempts are bounded, every queued review ends.
* **Runner.** It acts on a job it read at the claim, fills a workspace from
  GitHub, and takes results from threads that may crash, hang or end late. Correct
  means that its late decisions (retry or fail, complete) agree with the row they
  are fenced on, that it comes to an end, and that what the reader is told is true
  of what was read and run: no silence over a file or a tool that was not.
* **Findings pipeline.** Findings from several tools and the AI meet in one list
  that is deduplicated, merged, sorted, capped and cut. Correct means that nothing
  vanishes unsaid, that a flood evicts nothing else, that an AI note hangs on the
  right finding whatever order things came in, and that fingerprints, on which
  feedback is stored, survive lines moving.
* **Snapshot extraction.** Three ceilings, and files left out for five reasons.
  Correct means that each is counted once, and that what counts as read is whole.
* **Review service.** A rerun reads a review, talks to GitHub for seconds, then
  supersedes and inserts in one commit. Correct means: one live review per user
  and commit, nothing superseded without a replacement, the record of how a
  review ended is never rewritten.
* **Demo.** Anyone may press rerun; each rerun prunes. Correct means: one live
  demo review, a page that always shows one, a bounded table, no running review
  deleted.
* **AI stage.** One call per chunk, any of which may fail in five ways. Correct
  means: spending is bounded, each chunk is answered or counted, and the reader
  is never told less was missed than was.

* **GitHub connection.** A token is loaded, held across calls and reported dead
  while the user signs in again elsewhere. Correct means: signed in is connected,
  and only a refused or unreadable token leads to a flag.
* **Review page.** Answers overtake each other and get lost. Correct means: a
  live review is watched or the page says it is not, an ended one stays ended,
  findings come with their status, "cancelling" and a verdict are what the server has.
* **Rate limiter, contact form.** A counter in Redis that expires, is resent and
  gets lost; a message that is stored, mailed and marked at three places. Correct means:
  no window lets in more than the limit, nobody is refused for another's requests, and
  what a visitor is told follows from a stored row.
* **AI key, repository sync, feedback.** One row, or a few, written by overlapping
  requests from what they read earlier. Correct means: the last save's key,
  rows and links in step, nothing linked that was not listed as public.

## 2. Modules

| Module | Models | Role |
|---|---|---|
| `ReviewJobs` | `jobs.py`, `loop.py`, `queue.py`, the transitions of `runner.py`, `cancel_review` | detailed specification of the queue |
| `ReviewLifecycle` | what the API promises of a review | abstract specification, refined by `ReviewJobs` |
| `ReviewRows` | the reviews table, its live index, `supersede_completed` | operators shared by the next two |
| `ReviewCreation` | create and rerun of one target | detailed specification |
| `DemoHistory` | demo rerun, seed, prune, current review | detailed specification |
| `RepoAiStage` | chunk packing, chunk loop, summary notes, page banner | detailed specification |
| `GithubConnection` | `auth.py`, `deps.py`, `github_errors.py`, the worker's token use | detailed specification |
| `ReviewPage` | the review page with `get_review`, `cancel_review` and `findings.py` behind it | detailed specification |
| `SnapshotExtraction` | `worker/snapshot.py`, `populate_workspace` | component, extended by the next |
| `ReviewRun` | `run_claimed_job`, `analyzers/base.py`, `_summarize` and the notes, the page's notices | composition: extraction, threads, AI outcome, summary |
| `FindingReport` | `diffs/`, `validate_candidates`, `dedup.py`, what adapters keep | detailed specification |
| `RateLimiter` | `rate_limit.py` over Redis | component, extended by the next |
| `ContactForm` | `contact.py`, `contact_forward.py`, the form's page | composition: limiter, row, mail |
| `AiKey` | `ai_settings.py` | detailed specification |
| `RepoSync` | `repo_service.py`, the list of repositories | detailed specification |
| `OrmRow` | what SQLAlchemy writes of a loaded and changed row | operator shared by `GithubConnection` and `AiKey` (external) |
| `ReviewJobs_proofs` | the queue and its refinement of `ReviewLifecycle` | theorems |
| `ReviewRun_proofs` | `ReviewRun` with its `SnapshotExtraction` | theorems |
| `UserReviews_proofs` | `ReviewPage`, `ReviewCreation` | theorems |
| `Public_proofs` | `ContactForm` with its `RateLimiter`, `DemoHistory` | theorems |
| `Github_proofs` | `GithubConnection`, `RepoSync` | theorems |
| `AiReview_proofs` | `RepoAiStage`, `AiKey` | theorems |
| `FindingReport_proofs` | `FindingReport` | theorems |
| `FoldLaws` | what a fold over a sequence or a set comes to, step by step | lemmas for the three modules that fold |
| `MC*` | instances and symmetry for TLC | model checking |

`ReviewCreation` and `DemoHistory` see a review through `ReviewRows`: the moves
a worker may make on a row (`WorkerMove`) are those `ReviewJobs` shows (the
`phase` of `ReviewLifecycle`), so a job's inner life is not repeated there.

### ReviewJobs

One action is one database transaction or one Redis call, so two workers, a
request and the clock interleave between any two of them.

* Variables: `status attempts due cancel owner stale` are columns of
  `review_jobs` (`due` is `run_after <= now`, `stale` is `heartbeat_at < now -
  STALE_AFTER_S`); `review findings` the review's status and whose findings are
  stored; `rings` the Redis list as a bounded bag; `owed asking` API requests
  between two of their steps; `pc cur att stage beat` a worker: where it stands,
  its job, the attempts it last read, stages done, its heartbeat thread.
* The worker: `Sweep`/`SkipSweep`, `SweepRing`, `Pop`/`PopNone`,
  `Poll`/`PollFails`, `Claim`, `Refresh`, then `Checkpoint` and `WorkDone`
  alternately, ended by `Persist`, `CancelJob`, `FailJob`, `RetryOrFail`,
  `JobCrashed` or `Crash`. A retryable error rolls back, which expires the job, so its
  attempts are read from the database once more (`Reread`) before `RetryOrFail` acts on them;
  anything may happen to the row in between. `Heartbeat` is its thread.
* The API: `Create`, `Notify`, `CancelLoad`, `CancelApply`. The clock:
  `BecomesDue`, `HeartbeatAges`.
* Abstractions: magnitudes of time (the backoff's seconds) are gone, a job
  merely becomes due some time; the order of the Redis list and of the poll is
  open (any due job); a ring past `MaxRings` is lost, as any ring may be; a
  worker restarted by `start.sh` takes the place of the dead one, with its id,
  which allows the pid reuse a container really has. A heartbeat that was
  already in flight when its job ended is not modelled after `Release`: the
  loop joins the thread, and such a beat is a fenced no-op.

### ReviewCreation

`rows` is the reviews table of one target; a request is `Begin`, `Fetch`,
`Write`, or `Die` between. `Write` is supersede and insert in one commit; the row
lock of the guarded UPDATE and the unique index serialize it, so it is one step.
The pull request path and the repository path are the same protocol with
different indexes. A rerun whose supersede found the row moved rolls back and
inserts all the same, as `supersede_completed` does.

### DemoHistory

A rerun is cut at its statements: `Start` (the transaction starts, which is what
`created_at` records), `Load`, `Write` (supersede and insert), `PruneSelect`,
`PruneDelete`. `starts` is the clock, as an order of transactions. A deleted row
keeps its place with status `"deleted"`. `claimed` is a review between a
worker's claim and its load. Reviews of equal `created_at` cannot occur: a
transaction inserts one review. `pruned` is a history variable.

### RepoAiStage

`files` are rendered sizes; `chunks` the plan; then the loop: `Try` and the
outcomes of a call (`Answered`, `Unusable`, `Retry`, `Degrade`, `ConfigError`, and `Raise`,
an exception nobody foresaw, which ends the attempt),
`GiveUp`, `Stop`, `RunOut`, then `Leave`, `Summarize`, `Fold`. `RepoAiNote` is
the summary's sentences as a set, `Banner` the page's single notice. `wasted` is a
history variable. The mock provider, prompts and findings themselves are not
modelled: `shown` says which chunks' findings reached the result.

### GithubConnection

One account. `conn` is its `provider_connections` row (a secret, which is a token
under an encryption key, and `token_invalid`), `account` its `users` row,
`sessions` the browsers with a session. A sign-in is `Exchange`, `FindUser`,
`Flush`, `Commit`; the flush writes the user, so it takes the row lock (`lock`) that
keeps the load of the connection apart from another sign-in's. `Commit` writes
what `OrmRow!NetChange` says: only the columns that differ from the loaded row.
A request or worker is `Load`, then an answer, or a refusal and the flag
(`MarkLoads`, `MarkWrites`; one statement for the worker). `Revoke` is GitHub's,
`NewKey` a restart under another key, `SignInDies` and `HolderDies` a process that dies.

### ReviewPage

The page's state (`kind shown failedPolls stalled confirming cancelBusy
cancelSent`), requests in flight (`poll cancel rerun save`, each a
small life of its own with what the server read so far), and the server's rows
(`status asked verdict`). An answer is read in two steps (`Read`), as `get_review`
reads the review's row before its job's flag, findings and feedback, with the
worker's commits in between. Answers may be lost at any time; a save that the
page was told had failed may still run later (`late`), at most one. Two history
variables say what `FeedbackIsShown` exempts: `unsure`, which only an answer or its loss moves
(the page was last told that a save failed), and `overtaken`, which only a late
save raises (it ran after the last one that was stored). The second case is
`HeardIsStored` of section 5. The moves of
the review (`ReviewMoves`) are those `ReviewJobs` shows. One finding stands for all:
findings are saved independently of each other. A review of another
account (404) and the other 4xx answers to a poll are left out: they end the page.

### AiKey

One account's `user_ai_keys` row; a key is named by the save that brings it, so
`row.provider # chosen[row.key]` says that key and provider are of two saves.
A request loads and then commits; the unique index decides between
`Insert` and `InsertRefused`, the row's id between `Update` and `UpdateMisses`.

### SnapshotExtraction and ReviewRun

`SnapshotExtraction` is the workspace of one attempt. `kind` says what is behind each
path, chosen once: a member of a tarball is a link, outside the top directory,
vendored, too large, oddly named or plain; a changed file is removed, without a
patch, leaving the workspace, over GitHub's inline limit, between that and the analyzers'
limit, or plain. `disk` is the workspace, where a failed write may leave a file cut
short; `counts` are `SnapshotStats` and the skips of `populate_workspace`. The order of a
walk is open.

`ReviewRun` takes one claimed job from its row to the summary. `at` is the
place in `run_claimed_job`; every call to GitHub, the disk, an analyzer and the provider
may fail in the ways the except clauses tell apart, at every checkpoint the job
may be gone (`Stop`), and `RetryOrFail` starts over with an empty workspace. `tool` is
the state of each analyzer's thread: threads end by themselves (`ToolEnds`), the
worker takes the results in order (`Collect`) or gives one up (`TimeOut`), and a thread that
was given up runs on, which is why `heldBack` may rise after the results are in. The AI stage
is one outcome; `Sentences` are the summary as a set, `Notices` the page's banners. What
`ReviewJobs` does with a lost, cancelled or requeued job is not repeated.

### FindingReport

A small repository at its head commit is a constant (`Text`), the diff `index` is chosen
at the start. Analyzers add findings in any order, each through what its adapter keeps
(`Lint`, `Secret`, `MissingTests`, which goes by the names of sources and tests); then each AI candidate passes the chain
(`Validate`, with `Refusal` as the first check that fails) or raises where nobody foresaw it
(`Sink`); `Dedupe` is the rest in one step, as the code computes it in one call:
fingerprint, `KeepOne`, `MergeOne`, `Sorted`, the two passes of `Prioritized`, the cut. These are
pure operators, and the invariants compare them with what they promise. Lines are members of
a small set of texts, severities and categories are ranks. A list of paths longer than
`ANALYZER_ARGV_CHAR_CAP` makes a linter walk the whole workspace; only the
per-file invocation is modelled.

### RateLimiter and ContactForm

A request reads the clock (`Stamp`), which names its counter, and then Redis executes
INCR and EXPIRE in one transaction (`Count`), or does so and its answer is
lost (`CountUnheard`), or the client library sends the transaction again (`CountAgain`, up to
`MaxResends` times a request: `pyproject.toml` admits any redis-py from 5.0 on, and their
defaults differ), or
Redis is away (`Unreached`); the clock may tick between, at most `MaxDelay`, the sum of the
client's timeouts. An expired key may be gone at any moment of its last second. `hit` is a
history variable. `ContactForm` puts the handler behind it (`Store`, `Post`, `Mark`, each
with the failure whose answer is lost, and `Die`) and the visitor's page before it (`Send`,
`Hear`, `HearNothing`). The other users of the limiter (reviews, demo) are the same protocol with
another identity.

### RepoSync

GitHub (`name owner hidden`) changes under syncs that read its answer (`Fetch`),
then the rows, then the links, and write all in one transaction (`Write`). Of a row's columns
`full_name` is kept because it alone is unique; an UPDATE whose order matters
may succeed or be refused (`NameMayBeTaken`). `listed`, `raced` and `renamed` are
history variables. `sync=false` only reads and is left out.

## 3. Runs

| Run | Instance | Distinct states | Shows |
|---|---|---|---|
| `jobs` | 2 workers, 1 job, 3 attempts, 2 stages, 2 rings, under `LiveSpec` | 223 600 | safety, action properties, refinement, every queued review ends |
| `creation` | 2 users, 3 requests (2 of one user), 2 commits, 3 rows | 746 000 | creation safety |
| `demo_history` | 2 visitors, Keep 1, 4 rows, 5 transactions | 680 000 | demo safety |
| `repo_ai_stage` | up to 5 files of sizes 1, 2, 4, budget 3, 3 chunks, 1 retry, 2 strikes | 238 100 | AI stage |
| `github_connection` | 2 browsers (symmetric), 1 request, 1 worker, 3 tokens, 2 keys | 110 700 | the token's life |
| `review_page` | 2 verdicts, a limit of 1 failed poll, 2 attempts, under `LiveSpec` | 225 000 | what is on screen, and that it catches up |
| `ai_key` | 3 saves, 2 removals, 2 providers | 2 800 | concurrent saves and removals |
| `repo_sync` | 2 repositories, 2 names, 2 users, 2 syncs, 1 change on GitHub | 141 700 | overlapping syncs |
| `review_run` | 3 files (one twice as large), 2 analyzers, each ceiling 2, a comparison cap of 3, 2 attempts | 1 578 300 | what the reader is told of a run, and that it ends |
| `findings` | 3 files, up to 3 tool findings and 2 candidates, caps of 1 per rule and 2 per file, 3 findings shown | 45 800 | from candidates to the report |
| `contact` | 1 visitor, 2 submissions, 2 addresses, limit 1, window 2, delay 1, 2 resends, 4 seconds | 3 553 900 | the limiter and the form behind it |
| `github_remedy` (violation) | as `github_connection` | | the finding of section 5 |

Bounds and why they are enough. Two workers are all a late write needs: the one
that was given up on and the current owner. One job suffices for the safety of
the queue because no action but `Sweep` touches two jobs, and the sweep treats
each alone; the theorems hold for any number. Three attempts is the code's own
`max_attempts`. Two stages give a checkpoint with work on both sides. Two rings
give a duplicate. In `creation`, three requests allow a rerun race plus a
create, and three rows an original and two replacements. In `demo_history`, Keep 1 makes
every prune bite, four rows allow two generations of replacements and five
starts a lost supersede's second transaction; the two demo configurations of section 5 use
Keep 3, the code's value. In `repo_ai_stage` the sizes make a file that shares a chunk, one that
fills most of it and one that is oversized; five files reach beyond the cap of
three chunks; two strikes leave a chunk untried.

In `github_connection` three tokens are an old one, a fresh one and one more in
flight; two keys make a stored secret unreadable. In `review_page` a limit of one
failed poll lets the page both recover and give up, and two attempts take the review back
to queued once. In `ai_key` three saves are needed for a lost insert that is
retried over a row a third one changes. In `repo_sync` two repositories and two
names suffice for a name to move or be taken, and two syncs for a race; one
change on GitHub is one rename, transfer, deletion or change of visibility,
before, between or after the syncs. All start from any assignment of names and owners.

In `review_run` three files of sizes 1, 1 and 2 meet each ceiling exactly and pass it by one;
a secrets analyzer and one linter suffice because linters differ only by name;
the two attempts give a first and a last one, and every combination of kinds of files
is an initial state. In `findings` the instance holds, on purpose, a line that occurs twice, a
statement over several lines with points within it, one rule at two severities, two tools
at one line, a lock file, a file outside the diff and a candidate for each check; three
reports pass a cap of one and two, and with two candidates exceed the report's three. In
`contact` two submissions race for a limit of one (the code uses 5 to 20, the protocol is the
same; 0 switches the limiter off and is left out); four seconds are two windows, a
delay of one lets a request straggle over the border, and a count's lifetime ends within
the clock.

The inductive invariants of section 4 (`IInv` of a module, or a name that ends in it:
`KeyIInv`, `SyncIInv`, `CreationIInv`, `ContactIInv`, `LimiterIInv`, `IngestionIInv`,
`ReportIInv`) are not properties of the listed runs, which check what follows from them;
adding one to the `INVARIANTS` of its run's configuration checks it on that instance, which
is how each was found. The symmetric
runs check safety only; no run that checks liveness uses symmetry.

Deadlock is checked in `jobs`, `creation`, `github_connection` and `repo_sync`. It is off in `demo_history`
(the bound on transactions ends the run), `review_run`, `findings` and `contact` (a job, a
report and the submissions come to an end), `repo_ai_stage` (a stage is meant to
end), `ai_key` (each request is made once) and `review_page` (the page may be left).

Every property of a passing run has a mutant in `PROJECT.json`: a change of one
mapped definition of the kind a plausible edit would make (a dropped fence, a
gate that ignores the cancel flag, an off-by-one in the attempts or in the
prune, a supersede before the refetch), which TLC finds. The mutated forms stand
next to the definitions they change, marked as mutants.

### Fairness

Only `EveryReviewEnds`, `RunEnds`, `PageCatchesUp` and `StageEnds` need any.

* A worker keeps taking steps (`WF Progress`): every call of the runner ends.
  GitHub calls time out after 15 s (`github_client.py:44`), AI calls after 120 s
  (Gemini) or 600 s (OpenAI), analyzers after 60 to 300 s, `BRPOP` after 25 s;
  `start.sh` restarts a worker that exits.
* It sweeps again and again (`SF Sweep`): `Sweep` and `SkipSweep` share a
  program point, and `SWEEP_INTERVAL_S` passes during any sequence of iterations.
* A backoff runs out (`WF BecomesDue`), and a heartbeat nobody bumps goes stale
  (`WF Abandoned`): time passes. A row somebody still beats for is not assumed
  to go stale.
* Faults stop (`FaultsStop`): with crashes or failing polls for ever nothing can
  be promised. Errors that the runner handles (retry, fail) are not faults and may
  go on for ever; the attempt budget bounds them.
* Nothing is assumed of Redis, of the rings, of the heartbeats or of how a stage ends.
* In `RepoAiStage`, `WF Next`: calls and pauses end.
* In `ReviewRun`, `WF Worker`: every call of the worker has one of the timeouts above. Nothing is
  assumed of `ToolEnds`: the thread of an analyzer that was given up may hang for good, which
  is the case `RunEnds` is about.
* In `ReviewPage`, `PollsRun` (`WF Poll`): the timer fires, and a request ends,
  answered or failed. The network may fail every poll.

## 4. Theorems

All are proved by TLAPS for every value of the constants, from the `ASSUME`s of
the modules alone: `NoWorker` and `NoJob` are outside their sets, `MaxAttempts`
is positive, bounds are naturals, `Keep` is positive, requests have users, a limit
and a window are positive and a request to Redis is shorter than a window (the clients'
timeouts are seconds, the windows minutes); files have sizes, an AI call may be repeated a
natural number of times and the stage gives up after at least one failure; the caps of a
report are positive, and texts, diffs, the adapters' reports and the AI's candidates are of
the types the code gives them (a rule, a category, a line is a number).

Every safety invariant and every action property of a passing run is a theorem here, next
to what it needs and to some more that hold for every instance and that no run lists, among
them `TerminalStays`, `KeyIsTheLast` and `SignedInIsConnected`.

* **ReviewJobs** (`Invariance`, `TypeCorrect`, `InSync`, `OneRunPublishes`,
  `AttemptsRemain`, `CancelHolds`, `EndHolds`, `OwnerHolds`, `Refinement`). None of the
  safety properties is inductive alone. `AttemptsLeft` depends on what a worker
  remembers: its retry decision uses the attempts it read after the rollback, and the
  row may move before it writes. The
  strengthening `RunnerAgrees` says that a worker about to retry or fail
  either fails the fence or remembers the row's own count, and `AbsentIsFresh` that
  a job not yet created carries nothing. `IInv` is their conjunction with
  the properties; the proof has a step per action, and the fence `Owns` is what
  closes each late write. `OwnerHolds` names whose step it is that takes a running job from
  its owner: the one that ends the owner's own run, or a sweep that found it stale. The action properties and the refinement of
  `ReviewLifecycle` follow step by step from `IInv`: each action maps to a move
  or a stutter of every review.
* **ReviewCreation** (`CreationInvariance`, `OneLivePerCommit`, `NothingReplacedByNothing`,
  `EndIsKept`). `ReadsHold` is the strengthening: what a request holds across its
  GitHub call is still there and its own user's.
* **DemoHistory** (`DemoInvariance`, `OneLive`, `NeverEmpty`, `HistoryIsBounded`, `LiveIsSpared`).
  That overlapping prunes never empty the page needs two facts: the newest
  review of all is never deleted (`NewestIsKept`), and every selected review is
  finished and has a newer one that is still there (`DoomedAreOld`). The second survives
  other prunes because the newest one does, and inserts only add reviews. The bound on the
  history is a pigeonhole: no two reviews share a `created_at` (`StartsDiffer`), so the
  finished reviews a prune leaves have different numbers below `Keep` of newer ones; and
  `LastPruneIsEnough` carries that from the SELECT to the DELETE of the last row's own
  prune, while workers finish reviews and other prunes delete.

* **GithubConnection** (`ConnectionInvariance`, `SignInsTakeTurns`, `SignedInIsConnected`,
  `OnlyTheStaleMisflag`). The strengthening has three parts: `LoadedUnderLock` (the
  secret a sign-in loaded is still the stored one when it commits, which makes
  the net-change UPDATE write a whole secret), `FlaggingHasAReason` (whoever is about
  to flag holds a refused or unreadable token) and `FreshIsNew`. `MisflagNeedsAStaleHolder`
  is then a case split on who flags.
* **ReviewPage** (`PageInvariance`, `NeverUnwatched`, `FindingsWithTheStatus`,
  `NoFalseCancelling`, `FeedbackAgrees`, `EndedStaysOnScreen`). `Answers` says what a
  half-read answer may claim given the row since, `Saving` how the verdict on screen,
  the one in flight and the stored one relate, with `unsure` and `overtaken` as the two ways
  they part; `Watching` ties the poll to what
  is on screen.
* **AiKey** (`AiKeyInvariance`, `LastKeyWins`, `TurnsDoNotMix`, `RacesAreAnswered`).
  `Loaded` says that a loaded row is the stored one (by id) unless something was
  removed since, `Unsaved` that the key of a save still under way is stored and loaded nowhere.

* **ReviewRun** (`RunInvariance`, `WalksAccount`, `ToolsAreNamed`, `SilenceIsEarned`). The
  properties speak of a walk that is over and a review that is completed, so the
  strengthening says what holds on the way: `Accounted`, the counters are exact for the
  files the walk has passed (each step moves one path, by the cardinality lemmas);
  `Places`, nothing reads a workspace before it is full; `Results`, an analyzer is in the
  results of this attempt only once it has ended and with what it found, which an
  abandoned thread ending late must not disturb; `Telling`, the summary and the notices
  are those of this attempt, so a retry cannot show the reader an earlier one's.
  The bytes of `CountsAreExact` are a sum over a set of files: `BytesOfOneMore`, from the
  fold's own equation in `FoldLaws`, adds one file to it.

* **ContactForm** (`ContactInvariance`, `ContactTypeCorrect`, `WindowIsBounded`,
  `RefusalsHaveCause`, `StorageHolds`). `WindowLimit` is about a set of requests and the code only
  knows a counter, so the strengthening ties the two from both sides: while its window
  lasts a counter counts at least every request it let in (`Counted`), for which it must
  outlive the window (`KeysOutlive`), and it never counts more than the transactions that
  were sent (`UsedWasSent`), resent ones included. The first gives the bound, the second the
  cause of a refusal; the cardinality lemmas add one request at a time. `Trail` says
  what a handler has done before it got where it stands, from which `StorageIsTruth`
  follows action by action. How often the library resends a transaction is `MaxResends`, any
  natural number; `resent` holds each sending that was followed by another.

* **RepoSync** (`SyncInvariance`, `LinksAreListed`, `ReasonsAreKnown`, `SoleSyncsAgree`).
  `LinksWereListed` needs what a sync still holds (`Offered`: GitHub listed it to this
  user), whatever has changed on GitHub since. That a sync fails only for a reason is the hard
  one: it says that no unique index is hit, so the strengthening has to know where names come
  from. `Fresh` says that the names a sync loaded are the stored ones until another writes;
  `FirstNames`, that as long as nothing was renamed one assignment of distinct names covers GitHub,
  the rows and every payload under way. `NothingToRefuse` puts the two together.
* **RepoAiStage** (`StageInvariance`, `StageTyped`, `PlanIsAPartition`, `LedgerBalances`,
  `WasteIsBounded`, `SilenceIsComplete`, `NoBannerNoGap`). The plan is a fold over the files;
  `PlacePacks` is its invariant (the chunks so far hold each file so far once and stay in
  the budget), and `PlanFacts` what follows for the whole. The loop's invariant is in three parts:
  `Spending` counts wasted calls by strikes and tries, `Books` balances run, failed and
  shown chunks at every program point, `Telling` holds the note to what it was derived from. The
  banner then is a matter of cardinalities: shown chunks that cover as many files as there are,
  cover them all.
* **FindingReport** (`ReportInvariance`, `AiStaysInTheChange`, `NothingIsLost`, `NotesAreClear`,
  `FloodsWait`, `FingerprintsLast`, `OrderDoesNotMatter`). Only `AiIsAnchored` is about the
  steps; the others are about what the pipeline makes of a list, and hold for every list. Each
  of its loops is a fold, and has an invariant of the form "the first k are dealt with":
  `Holds` (one finding of each fingerprint, the most severe), `IsRest` (the findings of
  tools, apart from each other), `Merges` (every finding so far is in a note or in the list),
  `Passes` (what is held back is over a cap). Between them, the sort is a permutation because
  the ranks are one (`IsRank`: each place is the number of those before it under a strict total
  order), and the cut is a head. `NothingVanishes`, `NoEviction` and `NotesBelong` chain
  these. For `SurvivesDrift` a count of equal lines is followed through an insertion
  (`MovesOn`, `Says`).
  `OrderIsIrrelevant` is proved without comparing two runs of the loops. What they come to is
  said of the set of the findings alone: the winners of the fingerprints (`Winners`), the one that
  takes a candidate (`Takes`, closer than all others), and what a finding is with all
  it takes (`Dressed`, `Gathers`). Moving a candidate to the end (`Reorders`) leaves that set, its winners
  and who takes whom; confidence is a minimum, and notes are a set, so neither has an order.
* **FoldLaws**. `FoldLeft` and `FoldSet` are recursive in the community modules, and the
  library's induction theorems take an operator as a parameter, which the provers cannot
  instantiate. Here `Good` is a set: a number, a set or a place in a list is an element of it,
  and the least counterexample comes from the well-founded order on finite sets
  (`SubsetInduction`, `NumberInduction`). `FoldExists` and `LeftFoldUnrolls` turn a fold into
  a function on `0..n` with its equation, which an invariant then goes through.

Model-checked only: `EveryReviewEnds`, `RunEnds`, `PageCatchesUp` and `StageEnds`. They are
liveness under fairness, and rest on which actions are enabled, of which the prover knows
nothing.

## 5. Where the code and its words part

One disagreement is a run of its own, `github_remedy`; `PROJECT.json` quotes the line under
`findings`: `ReconnectingRemedies` (`GithubConnectionRemedy.cfg`), a sign-in that overlaps a
flag stores the fresh token and leaves the flag up.

The others came up on the way. Each is stated in its module with the words it
contradicts. `tlc` ends with the counterexample under the configuration in the table, which
either is kept for that one property or is that of the run (marked `*`), with the property in
place of those it lists.

| Property | Configuration | What happens | The words |
|---|---|---|---|
| `CancelFinishes` | `ReviewJobsCancel.cfg` | a flagged job whose worker dies on its last attempt ends as failed | `review_service.py:371-372` |
| `LoserIsRefused` | `ReviewCreation.cfg` * | the loser of two reruns can insert a second review | `review_service.py:285-287` |
| `FirstPageIsAList` | `RepoSyncFirst.cfg` | two first syncs at once, and one is answered with a server error | `repo_service.py:29` |
| `NoSilentSkip` | `ReviewRun.cfg` * | a changed file between 500 KB and 1 MB is fetched, skipped by every tool, and counted by nobody | `models.py:52-55` |
| `CleanNeedsAll` | `ReviewRun.cfg` * | "passes all checks" when one analyzer of two finished | `pipeline.py:72-74` |
| `ReadAfterAnalyze` | `ReviewRun.cfg` * | the count of held back matches is read while a timed out analyzer still counts | `secrets_adapter.py:198-199` |
| `DroppedIsGone` | `ReviewRun.cfg` * | a file counted as unwritable may still be in the workspace, cut short | `runner.py:380-381` |
| `CandidatesNeverSink` | `FindingReport.cfg` * | a candidate without `start_line` passes the shape check and raises, and the findings of the whole answer are lost with it | `ai_review.py:221-222` |
| `MostSevere` | `FindingReport.cfg` * | a severe AI finding merged into a milder one of a tool takes the milder severity, and can be cut while less severe findings are shown | `pipeline.py:319-325` |
| `ForwardingNeverFails` | `ContactForm.cfg` * | the commit that marks a message forwarded fails, and with it the request | `contact_forward.py:3-5` |
| `UnmarkedNeverWent` | `ContactForm.cfg` * | the mail went out and its answer was lost: the row says it never did | `contact_forward.py:36-37` |
| `SupersededNeverCurrent` | `DemoHistoryCurrent.cfg` | a prune by transaction start leaves only superseded demo reviews | in the module |
| `ClaimedReviewExists` | `DemoHistoryClaimed.cfg` | a demo review is deleted after its claim, before the worker loads it | in the module |
| `ConfigErrorsFailEveryChunk` | `RepoAiStage.cfg` * | a config error in mid-run drops findings that earlier chunks returned | in the module |
| `SentenceCountsUnread` | `RepoAiStage.cfg` * | files dropped at extraction are counted after the summary that should mention them | in the module |
| `FlaggedOnlyByGithub` | `GithubConnectionFlag.cfg` | a token that no longer decrypts is flagged too | in the module |
| `FailureIsAPage` | `GithubConnectionPage.cfg` | two first sign-ins at once, and one gets a server error | in the module |
| `RefusedCancelIsPolled` | `ReviewPageRefused.cfg` | a page that stopped polling relies on the next poll | in the module |
| `HeardIsStored` | `ReviewPageRace.cfg` | a save given up on, its answer late, is executed after the next one, whose verdict the page goes on showing as stored | `findings.py:4-5` |
| `LastWriteWins` | `AiKeyMixed.cfg` | one save's AI key ends beside another's provider | in the module |
| `PrivateNeverListed` | `RepoSyncPrivate.cfg` | a linked repository made private stays listed | in the module |

One more is visible in `ReviewRun` without a property: a file of a pull request whose
name the file system refuses raises out of `populate_workspace` and spends every attempt
(`PopulateFails`), the outcome that `snapshot.py:105-111` was written to avoid for
repositories.

## 6. Plan

Done: the queue with its abstract specification, creation, demo, AI stage, the GitHub
connection, the review page with feedback, the AI key, the sync of repositories, the rate
limiter with the contact form, snapshot extraction composed with the run of a job, the way
from findings to the report; and of all of these the proofs. Next, in this order:

1. Abstract specifications, to be refined and proved: one AI key row as an atomic
   register, which `AiKey` implements while no two saves overlap; a report as a set of claims, which
   `FindingReport` implements; a sliding window's promise, which `RateLimiter` keeps within
   twice the limit.
2. Composition: `ReviewRun` under `ReviewJobs` in place of `WorkDone`, `ReviewCreation` over
   `ReviewJobs` in place of `WorkerMove`, `ReviewPage` over `ReviewLifecycle` in
   place of `ReviewMoves`.
3. The list of pull requests, whose upsert is the sync's protocol again, and the demo's
   page, which polls without cancel.

## 7. Not modelled, and why

* Prompts, the wording of messages, the patterns by which tools recognise a secret or a lint,
  and the heuristics behind `is_reviewable` are data: the models take their verdicts as given.
* AI providers are outcomes of a call (`RepoAiStage`, `ReviewRun`); their adapters
  only translate.
* How an address is taken from a forwarded header is left out of `RateLimiter`: a visitor may
  come from any address at any time, which is more than a header allows.
* Logging and its redaction, settings, health, migrations and static pages have no behaviour
  over time that a state machine would say more about than their code.
* In what is modelled, left out are: seconds other than the limiter's (only orders and
  comparisons are kept), the FIFO order of the Redis list, the mock provider's findings, the
  walk of a whole workspace when the list of paths is too long for a command line, and HTTP
  status codes.

## 8. Running

    tlc -workers 2 -config ReviewJobs.cfg MCReviewJobs.tla
    tlapm ReviewJobs_proofs.tla

A module of theorems takes from half a minute to five (`FindingReport_proofs`).

`PROJECT.json` names the module and configuration of every run.
