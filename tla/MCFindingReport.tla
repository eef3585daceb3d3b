-------------------------- MODULE MCFindingReport --------------------------
(* A small instance of FindingReport for TLC.                              *)
EXTENDS FindingReport

\* Categories in the order the report sorts them by.
correctness == 0
security == 1
style == 2

\* File 1, a source, has a line twice, file 2 is a lock file, file 3 a test.
Lines == <<<<"x", "y", "x", "z">>, <<"y">>, <<"x">>>>

Untouched == [status |-> "absent", changed |-> {}, all_changed |-> FALSE]

\* A pull request that changes line 3 of file 1, one that deletes it, and a snapshot,
\* which has the test too.
SmallDiffs ==
    {<<[status |-> "modified", changed |-> {3}, all_changed |-> FALSE],
       [status |-> "modified", changed |-> {1}, all_changed |-> FALSE], Untouched>>,
     <<[status |-> "deleted", changed |-> {}, all_changed |-> FALSE],
       [status |-> "added", changed |-> {1}, all_changed |-> FALSE], Untouched>>,
     [file \in 1..3 |-> [status |-> "added", changed |-> {}, all_changed |-> TRUE]]}

\* Rules.
S608 == 608
F841 == 841
key == 1
none == 0

Says(tool, rule, start, end, severity, category, confidence) ==
    [tool |-> tool, rule |-> rule, file |-> 1, start |-> start, end |-> end,
     severity |-> severity, category |-> category, confidence |-> confidence]

\* A statement over lines 1 to 3 and points within it; one rule at two severities.
SmallReports ==
    {Says("ruff", S608, 1, 3, 1, security, 0), Says("ruff", F841, 3, 3, 2, correctness, 0),
     Says("ruff", F841, 3, 3, 1, correctness, 0), Says("eslint", F841, 3, 4, 1, correctness, 1),
     Says("detect-secrets", key, 1, 1, 0, security, 0),
     Says("missing-tests", none, 0, 0, 2, style, 1)}

Guess(file, start, end, severity, category) ==
    [shape |-> "ok", file |-> file, start |-> start, end |-> end,
     severity |-> severity, category |-> category, confidence |-> 0]

\* A candidate for every check, and some that pass.
SmallCandidates ==
    {[Guess(1, 3, 3, 0, style) EXCEPT !.shape = "bad"],
     [Guess(1, 0, 0, 0, style) EXCEPT !.shape = "unkeyed"],
     Guess(2, 1, 1, 0, security), Guess(1, 9, 9, 0, security), Guess(1, 1, 1, 0, security),
     Guess(1, 3, 3, 2, security), Guess(1, 2, 2, 0, correctness), Guess(1, 0, 0, 2, security),
     Guess(1, 3, 3, 1, style)}
=============================================================================
