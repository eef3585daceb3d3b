--------------------------- MODULE FindingReport ---------------------------
(***************************************************************************)
(* From what the tools and the model say to what the reader is shown.      *)
(*                                                                         *)
(* Analyzers add findings, each through its adapter; then the candidates   *)
(* of the AI reviewer pass the validation chain one by one; at last the    *)
(* findings are fingerprinted, deduplicated, merged, sorted, prioritized   *)
(* and cut.  A line is a member of a small set of texts, a rule is a       *)
(* number, a severity, a confidence and a category are ranks (0 is the     *)
(* most severe, the most confident), and line 0 stands for a finding       *)
(* about a whole file.                                                     *)
(***************************************************************************)
EXTENDS Integers, Sequences, SequencesExt, FiniteSets

CONSTANTS
    Files,        \* paths, as numbers in their order
    Text,         \* the lines of each file at the head commit
    Plain,        \* files that are no lock file, vendored, binary, large or missing
    Sources, Tests,   \* files whose names are those of sources, of tests
    Diffs,        \* the diff indexes a run may start from
    Reports,      \* what the analyzers may print
    Candidates,   \* what the AI may return
    MaxReports, MaxCandidates,   \* bounds on both
    MaxFindings, MaxPerRule, MaxPerFile, MergePad, ContextPad,
    Security, Correctness        \* the two categories that overlap

ASSUME ReportAssumption ==
    /\ Files \subseteq Nat /\ {Plain, Sources, Tests} \subseteq SUBSET Files
    /\ {MaxFindings, MaxPerRule, MaxPerFile} \subseteq Nat \ {0}
    /\ {MergePad, ContextPad} \subseteq Nat
    /\ Text \in [Files -> Seq(STRING)]
    /\ Diffs \subseteq
          [Files -> [status : {"absent", "added", "modified", "renamed", "deleted"},
                     changed : SUBSET Nat, all_changed : BOOLEAN]]
    /\ Reports \subseteq
          [tool : {"ruff", "eslint", "detect-secrets", "missing-tests"},
           rule : Nat, file : Files, start : Nat, end : Nat,
           severity : Nat, category : Nat, confidence : Nat]
    /\ Candidates \subseteq
          [shape : {"ok", "bad", "unkeyed"}, file : Files, start : Int, end : Int,
           severity : Nat, category : Nat, confidence : Nat]

VARIABLES
    stage,      \* "analyze", "ai", "done" or "failed"
    index,      \* DiffIndex: per file its status and changed lines
    found,      \* the findings so far, in the order they came
    candidates, \* how many candidates the AI returned
    discards,   \* how many of them each check refused
    report,     \* the findings shown
    truncated   \* was the report cut?

reportVars == <<stage, index, found, candidates, discards, report, truncated>>

Reasons == {"invalid_shape", "unreviewable_file", "bad_location", "outside_change"}

ReportInit ==
    /\ stage = "analyze" /\ index \in Diffs
    /\ found = <<>> /\ candidates = 0
    /\ discards = [why \in Reasons |-> 0]
    /\ report = <<>> /\ truncated = FALSE

-----------------------------------------------------------------------------
(* The diff index and the checks against it.                               *)

IsReviewable(file) == index[file].status \notin {"absent", "deleted"} /\ file \in Plain

LocationExists(file, start, end) == 1 <= start /\ start <= end /\ end <= Len(Text[file])

TouchesChange(file, start, end, pad) ==
    /\ index[file].status # "absent"
    /\ \/ index[file].all_changed
       \/ \E line \in index[file].changed : start - pad <= line /\ line <= end + pad

\* Mutant: a location is close enough from one line further away.
Refusal_Lenient(c) ==
    IF c.shape = "bad" THEN "invalid_shape"
    ELSE IF ~IsReviewable(c.file) THEN "unreviewable_file"
    ELSE IF c.start = 0 THEN "none"
    ELSE IF ~LocationExists(c.file, c.start, c.end) THEN "bad_location"
    ELSE IF ~TouchesChange(c.file, c.start, c.end, ContextPad + 1) THEN "outside_change"
    ELSE "none"

\* validate_candidates: the first check a candidate fails.
Refusal(c) ==
    IF c.shape = "bad" THEN "invalid_shape"
    ELSE IF ~IsReviewable(c.file) THEN "unreviewable_file"
    ELSE IF c.start = 0 THEN "none"
    ELSE IF ~LocationExists(c.file, c.start, c.end) THEN "bad_location"
    ELSE IF ~TouchesChange(c.file, c.start, c.end, ContextPad) THEN "outside_change"
    ELSE "none"

\* A finding as it enters the list; id is its place there.
Finding(from, tool, rule, source, confidence) ==
    [id |-> Len(found) + 1, tool |-> tool, rule |-> rule, file |-> from.file,
     start |-> from.start, end |-> from.end, severity |-> from.severity,
     category |-> from.category, confidence |-> confidence, source |-> source, notes |-> {}]

Add(f) == found' = Append(found, f)
AddReport(r, confidence) == Add(Finding(r, r.tool, r.rule, "deterministic", confidence))

\* ruff and ESLint read reviewable files and keep what touches a changed line.  Past
\* ANALYZER_ARGV_CHAR_CAP they walk the whole workspace instead and keep what touches a
\* changed line; that walk is left out.
Lint(r) ==
    /\ stage = "analyze" /\ Len(found) < MaxReports
    /\ r.tool \in {"ruff", "eslint"} /\ IsReviewable(r.file)
    /\ TouchesChange(r.file, r.start, r.end, 0)
    /\ AddReport(r, r.confidence)
    /\ UNCHANGED <<stage, index, candidates, discards, report, truncated>>

\* Secrets are reported wherever they are, less surely away from a change.
Secret(r) ==
    /\ stage = "analyze" /\ Len(found) < MaxReports
    /\ r.tool = "detect-secrets" /\ IsReviewable(r.file)
    /\ AddReport(r, IF TouchesChange(r.file, r.start, r.end, 0) THEN r.confidence
                    ELSE IF r.confidence = 2 THEN 2 ELSE r.confidence + 1)
    /\ UNCHANGED <<stage, index, candidates, discards, report, truncated>>

\* Source changed and no test touched, not even deleted: one finding, about the
\* source with the most changed lines.  Of several with as many it is the first of
\* the diff, here any.
MissingTests(r) ==
    LET sources == {file \in Sources \ Tests : index[file].status \notin {"absent", "deleted"}} IN
    /\ stage = "analyze" /\ Len(found) < MaxReports
    /\ r.tool = "missing-tests" /\ r.file \in sources
    /\ ~ \E i \in DOMAIN found : found[i].tool = "missing-tests"
    /\ \A test \in Tests : index[test].status = "absent"
    /\ \A file \in sources :
          Cardinality(index[file].changed) <= Cardinality(index[r.file].changed)
    /\ AddReport(r, r.confidence)
    /\ UNCHANGED <<stage, index, candidates, discards, report, truncated>>

Analyzed ==
    /\ stage = "analyze"
    /\ stage' = "ai"
    /\ UNCHANGED <<index, found, candidates, discards, report, truncated>>

\* An item without a start line passes for one whose start line is null.
Unforeseen(c) == c.shape = "unkeyed" /\ IsReviewable(c.file)

\* Reading the key that is not there raises, outside of every except clause: the
\* attempt is lost.
Sink(c) ==
    /\ stage = "ai" /\ candidates < MaxCandidates
    /\ Unforeseen(c)
    /\ stage' = "failed"
    /\ UNCHANGED <<index, found, candidates, discards, report, truncated>>

\* One candidate through the chain; in a fingerprint its category is its rule.
Validate(c) ==
    /\ stage = "ai" /\ candidates < MaxCandidates
    /\ ~Unforeseen(c)
    /\ candidates' = candidates + 1
    /\ IF Refusal(c) = "none"
       THEN Add(Finding(c, "ai", c.category, "ai", c.confidence)) /\ UNCHANGED discards
       ELSE discards' = [discards EXCEPT ![Refusal(c)] = @ + 1] /\ UNCHANGED found
    /\ UNCHANGED <<stage, index, report, truncated>>

-----------------------------------------------------------------------------
(* dedupe.                                                                 *)

\* Mutant: the number of a line, and not what it says.
Fingerprint_ByNumber(f, text) == <<f.tool, f.rule, f.file, f.start>>

\* What the line says, and the how manieth of its kind it is.
Fingerprint(f, text) ==
    LET line == text[f.file][f.start]
        before == {n \in 1..(f.start - 1) : text[f.file][n] = line}
    IN  <<f.tool, f.rule, f.file,
          IF f.start = 0 THEN <<"file-level", 0>>
          ELSE IF f.start > Len(text[f.file]) THEN <<"", 0>>
          ELSE <<line, Cardinality(before)>>>>

Same(f, g) == Fingerprint(f, Text) = Fingerprint(g, Text)

\* Mutant: the first of a fingerprint stays, however severe a later one is.
KeepOne_First(kept, f) ==
    IF \E i \in DOMAIN kept : Same(kept[i], f) THEN kept ELSE Append(kept, f)

\* by_fp: the most severe of a fingerprint, at the place of the first.
KeepOne(kept, f) ==
    LET twins == {i \in DOMAIN kept : Same(kept[i], f)}
    IN  IF twins = {} THEN Append(kept, f)
        ELSE [i \in DOMAIN kept |->
                 IF i \in twins /\ f.severity < kept[i].severity THEN f ELSE kept[i]]

\* Mutant: a finding takes one note only.
Mergeable_Once(ai, f) ==
    /\ f.source = "deterministic" /\ f.file = ai.file
    /\ ai.start # 0 /\ f.start # 0
    /\ ai.start - MergePad <= f.end /\ f.start - MergePad <= ai.end
    /\ ai.category = f.category \/ {ai.category, f.category} \subseteq {Security, Correctness}

\* Ranges no more than MergePad apart, of categories that may be one.
Mergeable(ai, f) ==
    /\ f.source \in {"deterministic", "hybrid"} /\ f.file = ai.file
    /\ ai.start # 0 /\ f.start # 0
    /\ ai.start - MergePad <= f.end /\ f.start - MergePad <= ai.end
    /\ ai.category = f.category \/ {ai.category, f.category} \subseteq {Security, Correctness}

Gap(ai, f) ==
    IF f.start > ai.start THEN f.start - ai.start
    ELSE IF ai.start > f.end THEN ai.start - f.end ELSE 0

Closer(ai, f, g) ==
    \/ Gap(ai, f) < Gap(ai, g)
    \/ Gap(ai, f) = Gap(ai, g) /\ f.category = ai.category /\ g.category # ai.category

\* Mutant: of two that are as close, the first.
MergeTarget_First(ai, list) ==
    LET matches == {i \in DOMAIN list : Mergeable(ai, list[i])}
        best == {i \in matches : \A j \in matches : ~Closer(ai, list[j], list[i])}
    IN  {i \in best : \A j \in best : i <= j}

\* The closest of the list, when there is only one.
MergeTarget(ai, list) ==
    LET matches == {i \in DOMAIN list : Mergeable(ai, list[i])}
        best == {i \in matches : \A j \in matches : ~Closer(ai, list[j], list[i])}
    IN  IF Cardinality(best) = 1 THEN best ELSE {}

IsAi(f) == f.source = "ai"
Deterministic(f) == f.source = "deterministic"

\* merged at first: what the tools found.
NotAi(list, f) == IF IsAi(f) THEN list ELSE Append(list, f)

\* What the AI found goes into its target, or stands on its own.
MergeOne(list, ai) ==
    LET target == MergeTarget(ai, list)
    IN  IF ~IsAi(ai) THEN list
        ELSE IF target = {} THEN Append(list, ai)
        ELSE [i \in DOMAIN list |->
                 IF i \notin target THEN list[i]
                 ELSE [list[i] EXCEPT
                          !.source = "hybrid", !.notes = @ \cup {ai.id},
                          !.confidence = IF ai.confidence < @ THEN ai.confidence ELSE @]]

Kept(list) == FoldLeft(KeepOne, <<>>, list)
Merged(list) == FoldLeft(MergeOne, FoldLeft(NotAi, <<>>, Kept(list)), Kept(list))

\* Severity, category, file, and then the line, a whole file last.
SortKey(f) ==
    <<f.severity, f.category, f.file, IF f.start = 0 THEN 1 ELSE 0, f.start>>

Below(a, b) == \E k \in DOMAIN a : a[k] < b[k] /\ \A j \in 1..(k - 1) : a[j] = b[j]

\* A stable sort.
Sorted(list) ==
    [n \in DOMAIN list |->
        LET Place(i) == 1 + Cardinality({j \in DOMAIN list :
                             \/ Below(SortKey(list[j]), SortKey(list[i]))
                             \/ SortKey(list[j]) = SortKey(list[i]) /\ j < i})
        IN  list[CHOOSE i \in DOMAIN list : Place(i) = n]]

\* The findings of a list that count against the same cap as f.
OfRule(list, f) ==
    {i \in DOMAIN list :
        Deterministic(list[i]) /\ list[i].tool = f.tool /\ list[i].rule = f.rule}
OfFile(list, f) == {i \in DOMAIN list : Deterministic(list[i]) /\ list[i].file = f.file}

\* Mutant: only a rule is capped, not a file.
Pass_RuleOnly(acc, f) ==
    IF Deterministic(f) /\ Cardinality(OfRule(acc.first, f)) >= MaxPerRule
    THEN [acc EXCEPT !.held = Append(@, f)]
    ELSE [acc EXCEPT !.first = Append(@, f)]

\* The first pass: what the caps let through, and what they hold back.
Pass(acc, f) ==
    IF /\ Deterministic(f)
       /\ \/ Cardinality(OfRule(acc.first, f)) >= MaxPerRule
          \/ Cardinality(OfFile(acc.first, f)) >= MaxPerFile
    THEN [acc EXCEPT !.held = Append(@, f)]
    ELSE [acc EXCEPT !.first = Append(@, f)]

Prioritized(list) ==
    LET passes == FoldLeft(Pass, [first |-> <<>>, held |-> <<>>], list)
    IN  passes.first \o passes.held

Ranked(list) == Prioritized(Sorted(Merged(list)))

Cut(list) == Len(list) > MaxFindings
Shown(list) == SubSeq(list, 1, IF Cut(list) THEN MaxFindings ELSE Len(list))

Dedupe ==
    /\ stage = "ai"
    /\ report' = Shown(Ranked(found))
    /\ truncated' = Cut(Ranked(found))
    /\ stage' = "done"
    /\ UNCHANGED <<index, found, candidates, discards>>

ReportNext ==
    \/ \E r \in Reports : Lint(r) \/ Secret(r) \/ MissingTests(r)
    \/ Analyzed
    \/ \E c \in Candidates : Validate(c) \/ Sink(c)
    \/ Dedupe

ReportSpec == ReportInit /\ [][ReportNext]_reportVars

-----------------------------------------------------------------------------
\* A finding of a list that is being deduplicated, or of a report.
Entries ==
    [id : Nat, tool : {"ruff", "eslint", "detect-secrets", "missing-tests", "ai"},
     rule : Nat, file : Files, start : Nat, end : Int,
     severity : Nat, category : Nat, confidence : Nat,
     source : {"deterministic", "ai", "hybrid"}, notes : SUBSET Nat]

ReportTypeOK ==
    /\ stage \in {"analyze", "ai", "done", "failed"} /\ index \in Diffs
    /\ found \in Seq(Entries) /\ candidates \in Nat /\ discards \in [Reasons -> Nat]
    /\ report \in Seq(Entries) /\ truncated \in BOOLEAN

\* r stands for f in a report: it is f, or a twin as severe as f, or f was an AI
\* finding and r carries the note of f or of such a twin of f.
StandsFor(r, f) ==
    \E i \in DOMAIN found :
        /\ found[i].id = f.id \/ (Same(found[i], f) /\ found[i].severity <= f.severity)
        /\ r.id = found[i].id \/ (IsAi(found[i]) /\ found[i].id \in r.notes /\ r.file = f.file)

\* Nothing is lost on the way to the reader: a report with room shows something for
\* every finding and says it is complete, a full one says it was cut, and no finding
\* appears twice or under two fingerprints (dedup.py:130-161, 164-194).
NothingVanishes ==
    stage = "done" =>
        /\ truncated <=> Len(report) = MaxFindings /\ Len(Merged(found)) > MaxFindings
        /\ ~truncated =>
              \A i \in DOMAIN found : \E j \in DOMAIN report : StandsFor(report[j], found[i])
        /\ \A i, j \in DOMAIN report : i # j =>
              report[i].id # report[j].id /\ ~Same(report[i], report[j])

\* A finding that a cap may hold back: more of its rule, or of its file, than the cap.
Capped(f, list) ==
    /\ Deterministic(f)
    /\ \/ Cardinality(OfRule(list, f)) > MaxPerRule
       \/ Cardinality(OfFile(list, f)) > MaxPerFile

\* The flood of one rule or one file evicts nothing: when a finding is cut that no cap
\* could hold back, every rule and file stays within its cap in the report
\* (dedup.py:10-20, 164-194).
NoEviction ==
    stage = "done" =>
        LET all == Merged(found)
            shown == {report[j].id : j \in DOMAIN report}
        IN  (\E i \in DOMAIN all : all[i].id \notin shown /\ ~Capped(all[i], all))
            => \A j \in DOMAIN report : ~Capped(report[j], report)

\* A note of the AI hangs on a finding only where the lines leave no doubt: every other
\* finding of a tool it could belong to is further away (dedup.py:68-104).
NotesBelong ==
    \A j \in DOMAIN report : \A n \in report[j].notes :
        /\ Mergeable(found[n], report[j])
        /\ \A i \in DOMAIN found :
              (~IsAi(found[i]) /\ Mergeable(found[n], found[i]) /\ ~Same(found[i], report[j]))
              => \/ Closer(found[n], report[j], found[i])
                 \/ \E k \in DOMAIN found : Same(found[k], found[i]) /\ k # i

\* A line more, and a finding that moves with the text.
Insert(text, file, at, line) ==
    [text EXCEPT ![file] = SubSeq(@, 1, at - 1) \o <<line>> \o SubSeq(@, at, Len(@))]
Moved(f, file, at) ==
    IF f.file = file /\ f.start >= at THEN [f EXCEPT !.start = @ + 1, !.end = @ + 1] ELSE f

\* A line that is inserted moves a finding and leaves its fingerprint, unless it says the
\* same as the finding's own line and stands above it (dedup.py:33-47).
SurvivesDrift ==
    \A i \in DOMAIN found : \A file \in Files : \A at \in 1..(Len(Text[file]) + 1) :
        \A line \in UNION {ToSet(Text[g]) : g \in Files} :
            LET f == found[i]
                own == f.start \in DOMAIN Text[f.file] /\ Text[f.file][f.start] = line
            IN  (file = f.file /\ at <= f.start /\ own)
                \/ Fingerprint(Moved(f, file, at), Insert(Text, file, at, line)) = Fingerprint(f, Text)

\* What the AI says reaches the reader only about reviewable files and, where it names
\* lines, about lines that exist, at most ContextPad from a changed one; and every
\* candidate is either a finding or in the count of the refused (ai_review.py:185-226).
AiIsAnchored ==
    /\ \A i \in DOMAIN found : LET f == found[i] IN IsAi(f) =>
          /\ index[f.file].status \in {"added", "modified", "renamed"} /\ f.file \in Plain
          /\ f.start # 0 =>
                /\ f.end \in DOMAIN Text[f.file]
                /\ index[f.file].all_changed \/ \E n \in index[f.file].changed :
                      n \in (f.start - ContextPad)..(f.end + ContextPad)
    /\ candidates = Cardinality({i \in DOMAIN found : IsAi(found[i])}) + discards["invalid_shape"]
          + discards["unreviewable_file"] + discards["bad_location"] + discards["outside_change"]

\* A finding as it came: in its place, and not merged yet.
AsFound(list) ==
    \A i \in DOMAIN list :
        list[i].id = i /\ list[i].notes = {} /\ list[i].source \in {"deterministic", "ai"}

\* The inductive invariant behind the theorems of FindingReport_proofs.
ReportIInv ==
    /\ ReportTypeOK /\ AsFound(found) /\ AiIsAnchored
    /\ IF stage = "done" THEN report = Shown(Ranked(found)) /\ truncated = Cut(Ranked(found))
       ELSE report = <<>>

\* What a list comes to, and the lists in which an AI finding comes last.
Findings(list) ==
    {[id |-> f.id, notes |-> f.notes, confidence |-> f.confidence] : f \in ToSet(Merged(list))}
Reordered ==
    {Append(RemoveAt(found, last), found[last]) : last \in {i \in DOMAIN found : IsAi(found[i])}}

\* The order in which the passes of the AI come back does not decide what is merged into
\* what: with candidates that are not twins, any order gives the same findings
\* (dedup.py:84-104, 140-153).
OrderIsIrrelevant ==
    (stage = "done" /\ \A i, j \in DOMAIN found : i # j /\ IsAi(found[i]) => ~Same(found[i], found[j]))
    => \A list \in Reordered : Findings(list) = Findings(found)

\* pipeline.py:319-325: "the {MAX_FINDINGS} shown are the most severe, spread across rules
\* and files so no single one crowds out the rest": what is cut, and not for a cap, is no
\* more severe than what is shown.
MostSevere ==
    \A i \in DOMAIN found :
        (truncated /\ ~Capped(found[i], found) /\ ~ \E j \in DOMAIN report : StandsFor(report[j], found[i]))
        => \A j \in DOMAIN report : report[j].severity <= found[i].severity

\* ai_review.py:221-222: "one bad candidate must never sink the review, whatever pydantic
\* finds to object to".
CandidatesNeverSink == stage # "failed"
=============================================================================
