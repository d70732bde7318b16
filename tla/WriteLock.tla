------------------------------ MODULE WriteLock ------------------------------
(***************************************************************************)
(* The transactions the sessions of db/database.py get from SQLite.        *)
(*                                                                         *)
(* A SELECT takes no lock and reads what is committed by then.  The first  *)
(* INSERT, UPDATE or DELETE a session sends takes the one write lock of    *)
(* the database and keeps it until the session commits or rolls back;      *)
(* until then only that session sees what it wrote.  tx holds the lock's   *)
(* owner and the tables as the owner sees them; with no owner tx.data is   *)
(* db.                                                                     *)
(***************************************************************************)
CONSTANT None       \* SQL NULL, a missing row, no owner, no address

VARIABLES
    db,         \* committed rows
    tx          \* the write transaction

View(s) == IF tx.owner = s THEN tx.data ELSE db

CanWrite(s) == tx.owner \in {None, s}

Write(s, t) ==
    /\ tx' = [owner |-> s, data |-> t]
    /\ UNCHANGED db

Commit(t) ==
    /\ db' = t
    /\ tx' = [owner |-> None, data |-> t]

Rollback(s) ==
    /\ tx' = IF tx.owner = s THEN [owner |-> None, data |-> db] ELSE tx
    /\ UNCHANGED db
=============================================================================
