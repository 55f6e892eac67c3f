------------------------------- MODULE Tables -------------------------------
(***************************************************************************)
(* What the services rely on PostgreSQL and the SQLAlchemy session for.  A *)
(* table is a function from the primary keys that have a row to the rows.  *)
(***************************************************************************)

EmptyTable == [x \in {} |-> {}]

(* A table with some of these ids, whose rows are among these rows.  *)
IsTable(table, ids, rows) ==
    /\ table = [x \in DOMAIN table |-> table[x]]
    /\ DOMAIN table \subseteq ids
    /\ \A x \in DOMAIN table : table[x] \in rows

(* INSERT (or replace) the row of a key.  *)
Insert(table, id, row) ==
    [x \in DOMAIN table \cup {id} |-> IF x = id THEN row ELSE table[x]]

(* DELETE the row of a key.  *)
Delete(table, id) == [x \in DOMAIN table \ {id} |-> table[x]]

(* Fault: the UPDATE writes every column of the object.  *)
FlushAll(row, loaded, wanted) == wanted

(***************************************************************************)
(* The UPDATE a session emits for an object it loaded as `loaded' and that *)
(* its code changed into `wanted': only the columns whose value differs    *)
(* from the loaded one are in the SET list, the others keep whatever value *)
(* the row has when the statement runs.                                    *)
(***************************************************************************)
Flush(row, loaded, wanted) ==
    [c \in DOMAIN row |-> IF wanted[c] # loaded[c] THEN wanted[c] ELSE row[c]]

Dirty(loaded, wanted) == \E c \in DOMAIN loaded : wanted[c] # loaded[c]
=============================================================================
