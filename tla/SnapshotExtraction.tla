------------------------- MODULE SnapshotExtraction -------------------------
(***************************************************************************)
(* The files a review is about, and the workspace they are put in.         *)
(*                                                                         *)
(* A repository comes as a tarball that is walked member by member, a pull *)
(* request as a list of changed files that are fetched one by one.  Either *)
(* walk may leave a file out, fail to write it, or refuse the whole; what  *)
(* it left out it counts.                                                  *)
(***************************************************************************)
EXTENDS Integers, FiniteSets, FiniteSetsExt

CONSTANTS
    Paths,      \* the names files may have
    SizeOf,     \* how large each is, in units of the bytes ceiling
    MaxEntries, \* MAX_TARBALL_ENTRIES
    MaxFiles,   \* MAX_SNAPSHOT_FILES
    MaxBytes    \* MAX_SNAPSHOT_TOTAL_BYTES

ASSUME ExtractionAssumption ==
    /\ IsFiniteSet(Paths) /\ SizeOf \in [Paths -> Nat]
    /\ {MaxEntries, MaxFiles, MaxBytes} \subseteq Nat

VARIABLES
    target,  \* "repository" or "pull_request"
    kind,    \* what is behind each path; fixed with the commit
    todo,    \* files the walk has not come to
    disk,    \* the workspace: is a file there, whole or cut short?
    counts   \* SnapshotStats, and the skipped of populate_workspace

ingestion == <<target, kind, todo, disk, counts>>

\* Members: not in this tarball, no file at all, outside the one top directory, vendored, over
\* MAX_FILE_BYTES, with a name that cannot be resolved inside the workspace.
MemberKinds == {"absent", "link", "stray", "vendored", "large", "odd", "plain"}

\* Changed files: not in this comparison, removed, without a patch, leaving the
\* workspace, over GitHub's inline limit, between that and MAX_FILE_BYTES.
ChangedKinds == {"absent", "removed", "no_patch", "odd", "huge", "large", "plain"}

Listed == {p \in Paths : kind[p] # "absent"}

Start == [entries |-> 0, extracted |-> 0, bytes |-> 0, large |-> 0, unwritable |-> 0, skipped |-> 0]

\* A workspace of its own for every attempt.
Emptied ==
    /\ todo' = Listed
    /\ disk' = [p \in Paths |-> "none"]
    /\ counts' = Start
    /\ UNCHANGED <<target, kind>>

IngestionInit ==
    /\ \/ target = "repository" /\ kind \in [Paths -> MemberKinds]
       \/ target = "pull_request" /\ kind \in [Paths -> ChangedKinds]
    /\ todo = Listed
    /\ disk = [p \in Paths |-> "none"]
    /\ counts = Start

-----------------------------------------------------------------------------
(* extract_snapshot.                                                       *)

\* Members the walk steps over without a word.
Ignored(p) == kind[p] \in {"link", "stray", "vendored"}

Seen(more) == counts' = [k \in DOMAIN counts |->
                            IF k \in more \cup {"entries"} THEN counts[k] + 1 ELSE counts[k]]

\* One ceiling or the other is passed with this member.
Over(p) ==
    \/ counts.entries + 1 > MaxEntries
    \/ /\ kind[p] = "plain"
       /\ counts.extracted + 1 > MaxFiles \/ counts.bytes + SizeOf[p] > MaxBytes

Visit(p) == p \in todo /\ todo' = todo \ {p} /\ UNCHANGED <<target, kind>>

\* Stepped over, or left out and counted.
LeaveOut(p) ==
    /\ ~Over(p) /\ Visit(p)
    /\ kind[p] # "plain"
    /\ Seen(CASE kind[p] = "large" -> {"large"} [] kind[p] = "odd" -> {"unwritable"} [] OTHER -> {})
    /\ UNCHANGED disk

Extract(p) ==
    /\ ~Over(p) /\ Visit(p)
    /\ kind[p] = "plain"
    /\ disk' = [disk EXCEPT ![p] = "whole"]
    /\ counts' = [counts EXCEPT !.entries = @ + 1, !.extracted = @ + 1, !.bytes = @ + SizeOf[p]]

\* Mutant: a file that cannot be written is not counted.
WriteFails_Uncounted(p) ==
    /\ ~Over(p) /\ Visit(p)
    /\ kind[p] = "plain"
    /\ disk' \in {disk, [disk EXCEPT ![p] = "cut"]}
    /\ Seen({})

\* The file system refuses it, before or after some of it was written.
WriteFails(p) ==
    /\ ~Over(p) /\ Visit(p)
    /\ kind[p] = "plain"
    /\ disk' \in {disk, [disk EXCEPT ![p] = "cut"]}
    /\ Seen({"unwritable"})

-----------------------------------------------------------------------------
(* populate_workspace.                                                     *)

\* Mutant: what GitHub shows no diff for is not counted.
Changed_OnlyFetched(p) == kind[p] \notin {"removed", "no_patch"}

\* Changed files of which something is left to review.
Changed(p) == kind[p] # "removed"

\* A file without a patch, one that would leave the workspace and one GitHub does not
\* inline are skipped; the first are counted after the walk, which makes no difference.
Skip(p) ==
    /\ Visit(p) /\ kind[p] \notin {"plain", "large"}
    /\ counts' = [counts EXCEPT !.skipped = @ + (IF Changed(p) THEN 1 ELSE 0)]
    /\ UNCHANGED disk

Fetch(p) ==
    /\ Visit(p) /\ kind[p] \in {"plain", "large"}
    /\ disk' = [disk EXCEPT ![p] = "whole"]
    /\ UNCHANGED counts

-----------------------------------------------------------------------------
IngestionTypeOK ==
    /\ target \in {"repository", "pull_request"}
    /\ kind \in [Paths -> MemberKinds \cup ChangedKinds]
    /\ todo \subseteq Paths
    /\ disk \in [Paths -> {"none", "cut", "whole"}]
    /\ counts \in [DOMAIN Start -> Nat]

Whole == {p \in Paths : disk[p] = "whole"}

\* The files of the commit that are for the analyzers to read.
Wanted ==
    IF target = "repository" THEN {p \in Paths : kind[p] \in {"large", "odd", "plain"}}
    ELSE {p \in Paths : kind[p] \in {"no_patch", "odd", "huge", "large", "plain"}}

BytesOf(set) == MapThenSumSet(LAMBDA p : SizeOf[p], set)

Missed == IF target = "repository" THEN counts.large + counts.unwritable ELSE counts.skipped

\* After the walk every file of the commit is accounted for once: it is whole in the
\* workspace, or in one of the counts the reader is told; and as many were extracted as
\* are there.
FilesAreAccounted ==
    todo = {} =>
        /\ Missed = Cardinality(Wanted \ Whole)
        /\ target = "repository" => counts.extracted = Cardinality(Whole)

\* Files and bytes alike are accounted for: what the counts say was left out, extracted
\* and written is what the workspace lacks and holds (snapshot.py:55-117,
\* runner.py:118-152, 481-490).
CountsAreExact ==
    /\ FilesAreAccounted
    /\ todo = {} /\ target = "repository" => counts.bytes = BytesOf(Whole)

\* What makes the counts inductive: they are exact for what the walk has passed.
Accounted ==
    /\ Missed = Cardinality((Wanted \ todo) \ Whole)
    /\ target = "repository" => /\ counts.extracted = Cardinality(Whole)
                               /\ counts.bytes = BytesOf(Whole)

IngestionIInv ==
    /\ IngestionTypeOK
    /\ target = "pull_request" => kind \in [Paths -> ChangedKinds]
    /\ todo \subseteq Listed /\ \A p \in todo : disk[p] = "none"
    /\ Accounted
=============================================================================
