------------------------------- MODULE OrmRow -------------------------------
(***************************************************************************)
(* A row written back by SQLAlchemy: a request loads it, assigns to it and *)
(* commits, and the UPDATE names only the columns whose value differs from *)
(* the one that was loaded.  Another request may have changed the row in   *)
(* between; its columns stay where this request assigned what it had read. *)
(***************************************************************************)

NetChange(row, loaded, assigned) ==
    [c \in DOMAIN row |->
        IF assigned[c] # loaded[c] THEN assigned[c] ELSE row[c]]
=============================================================================
