------------------------------ MODULE GlobalIds ------------------------------
(***************************************************************************)
(* The table of a broker (global_id.c) that maps the global id of a client *)
(* to the process that answers it.  It is an array with a count in shared  *)
(* memory; each operation holds the table's semaphore throughout.          *)
(***************************************************************************)
EXTENDS Integers, Sequences

NO_MTYPE_FOUND_CODE == -2
NEXT_SERVER_GLOBAL_ID == 0

Entry(id, pid) == [global_id |-> id, mtype |-> pid]

Positions(table, id) == {i \in DOMAIN table : table[i].global_id = id}

\* The first position that holds id (every search stops at the first match).
FirstPosition(table, id) ==
  CHOOSE i \in Positions(table, id) : \A j \in Positions(table, id) : i <= j

GetMtype(table, id) ==
  IF Positions(table, id) = {} THEN NO_MTYPE_FOUND_CODE
  ELSE table[FirstPosition(table, id)].mtype

\* Variant: one entry too many is accepted.
IsOverfull(table, capacity) == Len(table) > capacity

IsFull(table, capacity) == Len(table) >= capacity

AddGlobalId(table, id, pid) == Append(table, Entry(id, pid))

\* Variant: the entry is not removed.
KeepGlobalId(table, id) == table

\* The entries after the removed one move down one place.
RemoveGlobalId(table, id) ==
  IF Positions(table, id) = {} THEN table
  ELSE LET p == FirstPosition(table, id)
       IN  SubSeq(table, 1, p - 1) \o SubSeq(table, p + 1, Len(table))

-----------------------------------------------------------------------------
(* What a table of ids is like.                                            *)

\* No two entries share an id or a process.
UniqueTable(table) ==
  \A i, j \in DOMAIN table :
    table[i].global_id = table[j].global_id \/ table[i].mtype = table[j].mtype => i = j

\* e is one of the entries.
Has(table, e) == \E i \in DOMAIN table : table[i] = e
=============================================================================
