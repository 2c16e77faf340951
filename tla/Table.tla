-------------------------------- MODULE Table --------------------------------
(***************************************************************************)
(* What the rest of the program takes a DAO for: a table that changes by   *)
(* whole statements, in which a row is a record somebody gave.             *)
(***************************************************************************)
CONSTANTS
  Id,        \* of rows
  Record,    \* [column -> value], the records given
  Condition  \* of a WHERE clause: the set of records it selects

VARIABLE table \* set of [id: Id, col: Record]

InsertRow(id, record) ==
  /\ \A r \in table : r.id # id
  /\ table' = table \cup {[id |-> id, col |-> record]}

UpdateRows(record, cond) ==
  table' = {[r EXCEPT !.col = IF r.col \in cond THEN record ELSE @] : r \in table}

RemoveRows(cond) == table' = {r \in table : r.col \notin cond}

TableNext ==
  \/ \E id \in Id, record \in Record : InsertRow(id, record)
  \/ \E record \in Record, cond \in Condition : UpdateRows(record, cond)
  \/ \E cond \in Condition : RemoveRows(cond)

TableSpec == [][TableNext]_table
=============================================================================
