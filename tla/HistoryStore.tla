----------------------------- MODULE HistoryStore -----------------------------
(***************************************************************************)
(* The local history (blcvoice-storage): one table in an SQLite file, with *)
(* the version of its schema beside it.  Nothing keeps a second process    *)
(* from opening the same file.  SQLite is external: a transaction happens  *)
(* as a whole or fails, and AUTOINCREMENT never gives a number twice.      *)
(***************************************************************************)
EXTENDS Naturals, FiniteSets

CONSTANTS
  Processes,        \* processes that open the file
  SchemaVersion     \* the schema this program writes

ASSUME HistoryAssumption == SchemaVersion \in Nat \ {0}

VARIABLES
  db,               \* the file: schema version, whether the table is there, rows, next id
  store             \* per process, how far it has come in opening the file

storeVars == <<db, store>>

Row(id, owner, state) == [id |-> id, owner |-> owner, state |-> state]

(* What an earlier program may have left: nothing, a history, the history  *)
(* of a newer program, or a file that has lost its table.                  *)
Files ==
  {[version |-> 0, table |-> FALSE, rows |-> {}, next |-> 1],
   [version |-> SchemaVersion, table |-> TRUE, rows |-> {}, next |-> 2],
   [version |-> SchemaVersion + 1, table |-> TRUE, rows |-> {}, next |-> 1],
   [version |-> SchemaVersion, table |-> FALSE, rows |-> {}, next |-> 1]}

StoreInit == db \in Files /\ store = [p \in Processes |-> "closed"]

At(p, step) == store[p] = step

Goes(p, step) == store' = [store EXCEPT ![p] = step]

(* open up to the version, which is read outside of the transaction.       *)
(* Fault: a file of this version is taken to have the table.               *)
OpenUnchecked(p) ==
  /\ At(p, "closed")
  /\ \/ Goes(p, "failed")
     \/ db.version = SchemaVersion /\ Goes(p, "open")
     \/ db.version < SchemaVersion /\ Goes(p, "migrating")
  /\ UNCHANGED db
(* Fault: a newer schema is taken to be one this program can use.          *)
OpenNewer(p) ==
  /\ At(p, "closed")
  /\ \/ Goes(p, "failed")
     \/ db.version >= SchemaVersion /\ db.table /\ Goes(p, "open")
     \/ db.version < SchemaVersion /\ Goes(p, "migrating")
  /\ UNCHANGED db
Open(p) ==
  /\ At(p, "closed")
  /\ \/ Goes(p, "failed")
     \/ db.version = SchemaVersion /\ db.table /\ Goes(p, "open")
     \/ db.version < SchemaVersion /\ Goes(p, "migrating")
  /\ UNCHANGED db

(* The transaction that creates the table fails when another process has   *)
(* done so since.                                                          *)
(* Fault: the table is created also when it is there.                      *)
MigrateAgain(p) ==
  /\ At(p, "migrating")
  /\ \/ /\ db' = [version |-> SchemaVersion, table |-> TRUE, rows |-> {}, next |-> 1]
        /\ Goes(p, "open")
     \/ Goes(p, "failed") /\ UNCHANGED db
Migrate(p) ==
  /\ At(p, "migrating")
  /\ \/ /\ ~db.table
        /\ db' = [version |-> SchemaVersion, table |-> TRUE, rows |-> {}, next |-> 1]
        /\ Goes(p, "open")
     \/ Goes(p, "failed") /\ UNCHANGED db

OpenStep(p) == Open(p) \/ Migrate(p)

(* append, in one transaction.                                             *)
(* Fault: a number that was deleted is given again.                        *)
InsertRowReusing(p, owner, state) ==
  /\ At(p, "open")
  /\ LET ids == {r.id : r \in db.rows}
         id == CHOOSE n \in 1 .. Cardinality(ids) + 1 : n \notin ids
     IN db' = [db EXCEPT !.rows = @ \cup {Row(id, owner, state)}]
InsertRow(p, owner, state) ==
  /\ At(p, "open")
  /\ db' = [db EXCEPT !.rows = @ \cup {Row(db.next, owner, state)}, !.next = @ + 1]

(* delete, in one transaction; an id that is gone deletes nothing.         *)
DeleteRow(p, id) ==
  /\ At(p, "open")
  /\ db' = [db EXCEPT !.rows = {r \in @ : r.id # id}]

Recent(p) == IF At(p, "open") THEN db.rows ELSE {}

---------------------------------------------------------------------------
(* A process that has opened the history can use it: the file has this     *)
(* program's schema, whatever it held before and whoever else opens it.    *)
StoreUsable ==
  \A p \in Processes : At(p, "open") => db.version = SchemaVersion /\ db.table

(* A file of a newer program is left alone.                                *)
NewerFileKept == [][db.version > SchemaVersion => db' = db]_db
=============================================================================
