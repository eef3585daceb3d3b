------------------------------ MODULE ReviewRows ------------------------------
(***************************************************************************)
(* The reviews table as its writers see it: rows in the order they were    *)
(* inserted, the partial unique index over the live ones, the guarded      *)
(* UPDATE that supersedes, and the moves a worker makes on a row.  A       *)
(* deleted row keeps its place with the status "deleted".                  *)
(***************************************************************************)
EXTENDS Naturals, Sequences

LiveStatuses == {"queued", "running", "completed"}
TerminalStatuses == {"completed", "failed", "cancelled", "superseded"}
ActiveStatuses == {"queued", "running"}
RowStatuses == ActiveStatuses \cup TerminalStatuses \cup {"deleted"}

\* The rows the partial unique indexes cover.
LiveRows(rows) == {i \in DOMAIN rows : rows[i].status \in LiveStatuses}

SetStatus(rows, i, status) == [rows EXCEPT ![i].status = status]

\* The guarded UPDATE of supersede_completed hits a row still completed.
Supersedes(rows, i, saw) == saw = "completed" /\ rows[i].status = "completed"

AfterSupersede(rows, i, saw) ==
    IF Supersedes(rows, i, saw) THEN SetStatus(rows, i, "superseded") ELSE rows

\* Where the worker, its sweep or a cancel may take an active row next.
WorkerMove ==
    [queued |-> {"running", "cancelled"},
     running |-> {"queued", "completed", "failed", "cancelled"}]
=============================================================================
