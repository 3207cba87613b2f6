--------------------------- MODULE TextDeliveryProofs ---------------------------
(***************************************************************************)
(* Theorems about TextDelivery for any set of dictations and processes and *)
(* any number of crashes.                                                  *)
(***************************************************************************)
EXTENDS TextDelivery, TLAPS

---------------------------------------------------------------------------
(* The inductive invariant.                                                *)

FinishType ==
  [pc : {"recording", "inserting", "record", "capture", "done", "lost"},
   outcome : {"none", "Ok", "Error"},
   reply : {"none", "no_speech", "failed", "refused", "completed", "insertion"},
   appended : BOOLEAN]

RowType ==
  [id : Nat, owner : Owners, state : {"backend_submitted_unverified", "insertion_failed"}]

FileType == [version : Nat, table : BOOLEAN, rows : SUBSET RowType, next : Nat]

Types ==
  /\ finish \in [Owners -> FinishType]
  /\ db \in FileType
  /\ store \in [Processes -> {"closed", "migrating", "open", "failed"}]
  /\ page \in SUBSET RowType

(* A file without a table has no rows, and is of no newer program.         *)
RowsNeedTable == ~db.table => db.rows = {} /\ page = {} /\ db.version <= SchemaVersion

(* The ids of rows count up: none of a row, be it deleted, is given again, *)
(* so an id on the page and in the file means one row.                     *)
IdsAreFresh ==
  /\ \A r \in db.rows \cup page : r.id < db.next
  /\ \A r, s \in db.rows \cup page : r.id = s.id => r = s

(* The outcome is known from the reply on, and only then.                  *)
ReplyTellsOutcome ==
  \A o \in Owners :
    /\ Stands(o, "recording") => finish[o].outcome = "none"
    /\ finish[o].pc \in {"record", "capture", "done"} =>
         /\ finish[o].outcome = "Error" <=> finish[o].reply = "insertion"
         /\ finish[o].reply = "completed" => finish[o].outcome = "Ok"

(* A row was appended by the finish of its dictation, which has gone on.   *)
RowsAreRecorded ==
  \A r \in db.rows :
    /\ finish[r.owner].pc \in {"capture", "done", "lost"}
    /\ finish[r.owner].outcome # "none"
    /\ (r.state = "insertion_failed") <=> (finish[r.owner].outcome = "Error")

OneRowEach == \A r, s \in db.rows : r.owner = s.owner => r = s

DeliveryInv ==
  /\ Types /\ RowsNeedTable /\ IdsAreFresh
  /\ StoreUsable
  /\ ReplyTellsOutcome /\ RowsAreRecorded /\ OneRowEach

---------------------------------------------------------------------------
(* The first state.                                                        *)

(* Whatever file an earlier program left, the invariant holds at first.    *)
LEMMA InitDeliveryInv == Init => DeliveryInv
<1> SUFFICES ASSUME Init PROVE DeliveryInv
  OBVIOUS
<1> USE HistoryAssumption DEF Init, StoreInit, Files
<1>1. /\ finish = [o \in Owners |-> Fresh] /\ page = {} /\ db.rows = {}
      /\ db \in Files /\ store = [p \in Processes |-> "closed"]
  BY SMT
<1>2. Types
  <2>1. finish \in [Owners -> FinishType]
    BY <1>1 DEF FinishType, Fresh
  <2>2. /\ [version |-> 0, table |-> FALSE, rows |-> {}, next |-> 1] \in FileType
        /\ [version |-> SchemaVersion, table |-> TRUE, rows |-> {}, next |-> 2] \in FileType
        /\ [version |-> SchemaVersion + 1, table |-> TRUE, rows |-> {}, next |-> 1] \in FileType
        /\ [version |-> SchemaVersion, table |-> FALSE, rows |-> {}, next |-> 1] \in FileType
    BY DEF FileType
  <2>3. db \in FileType
    BY ONLY <1>1, <2>2, Zenon DEF Files
  <2> QED
    BY <1>1, <2>1, <2>3 DEF Types
<1>3. RowsNeedTable /\ StoreUsable
  <2>1. ~db.table => db.version <= SchemaVersion
    BY SMT
  <2> QED
    BY <1>1, <2>1 DEF RowsNeedTable, StoreUsable, At
<1>4. IdsAreFresh /\ ReplyTellsOutcome /\ RowsAreRecorded /\ OneRowEach
  BY <1>1 DEF IdsAreFresh, ReplyTellsOutcome, RowsAreRecorded, OneRowEach, Stands, Fresh
<1> QED
  BY <1>2, <1>3, <1>4 DEF DeliveryInv

---------------------------------------------------------------------------
(* Steps that leave the history alone.                                     *)

(* A finish that moves on, up to its reply, writes nothing.                *)
LEMMA FinishKeepsInv ==
  ASSUME DeliveryInv, NEW o \in Owners,
         FinishDictation(o) \/ InsertText(o) \/ EndInsertion(o) \/ CaptureResult(o)
  PROVE  DeliveryInv'
<1> USE DEF DeliveryInv, Types, Stands, Moves, Replies
<1>1. UNCHANGED <<storeVars, page>>
  BY DEF FinishDictation, InsertText, EndInsertion, CaptureResult
<1>2. finish' \in [Owners -> FinishType]
  BY DEF FinishDictation, InsertText, EndInsertion, CaptureResult, FinishType
<1>3. RowsNeedTable' /\ IdsAreFresh' /\ StoreUsable' /\ OneRowEach'
  BY <1>1 DEF RowsNeedTable, IdsAreFresh, StoreUsable, OneRowEach, At, storeVars
<1>4. ReplyTellsOutcome'
  BY <1>2 DEF ReplyTellsOutcome, FinishDictation, InsertText, EndInsertion, CaptureResult, FinishType
<1>5. RowsAreRecorded'
  BY <1>1, <1>2 DEF RowsAreRecorded, FinishDictation, InsertText, EndInsertion, CaptureResult,
     FinishType, FileType, RowType, storeVars
<1> QED
  BY <1>1, <1>2, <1>3, <1>4, <1>5 DEF storeVars

---------------------------------------------------------------------------
(* Steps that change the history.                                          *)

(* The row is the first of its dictation, has a fresh id and tells the     *)
(* outcome the reply tells.                                                *)
LEMMA RecordKeepsInv ==
  ASSUME DeliveryInv, NEW o \in Owners, Record(o)
  PROVE  DeliveryInv'
<1> USE DEF DeliveryInv, Types, Stands, Moves
<1>1. CASE UNCHANGED db
  <2>1. /\ UNCHANGED <<storeVars, page>>
        /\ \E step \in {"capture", "done"} : finish' = [finish EXCEPT ![o].pc = step]
    BY <1>1 DEF Record, InsertRow, storeVars, FileType
  <2>2. Types'
    BY <2>1 DEF FinishType, storeVars
  <2>3. RowsNeedTable' /\ IdsAreFresh' /\ StoreUsable' /\ OneRowEach'
    BY <2>1 DEF RowsNeedTable, IdsAreFresh, StoreUsable, OneRowEach, At, storeVars
  <2>4. ReplyTellsOutcome'
    BY <2>1 DEF ReplyTellsOutcome, FinishType, Record
  <2>5. RowsAreRecorded'
    BY <2>1 DEF RowsAreRecorded, FinishType, FileType, RowType, storeVars
  <2> QED
    BY <2>2, <2>3, <2>4, <2>5
<1>2. CASE ~UNCHANGED db
  <2> DEFINE row == Row(db.next, o, RowState(finish[o].reply))
  <2>1. /\ At(Main, "open") /\ finish[o].pc = "record" /\ Recorded(finish[o].reply)
        /\ db' = [db EXCEPT !.rows = @ \cup {row}, !.next = @ + 1]
        /\ finish' = [finish EXCEPT ![o].pc = "capture", ![o].appended = TRUE]
        /\ UNCHANGED <<store, page>>
    BY <1>2 DEF Record, InsertRow
  <2>2. /\ row \in RowType /\ row.id = db.next /\ row.owner = o
        /\ row.state = RowState(finish[o].reply)
    BY DEF Row, RowState, RowType, FileType
  <2> HIDE DEF row
  <2>3. /\ db'.rows = db.rows \cup {row} /\ db'.next = db.next + 1
        /\ db'.table = db.table /\ db'.version = db.version
    BY <2>1 DEF FileType
  <2>4. Types'
    <3>1. finish' \in [Owners -> FinishType]
      BY <2>1, ZenonT(40) DEF FinishType
    <3>2. db.rows \cup {row} \in SUBSET RowType
      BY <2>2 DEF FileType
    <3> DEFINE filled == [db EXCEPT !.rows = @ \cup {row}]
    <3>3. filled \in FileType /\ filled.next = db.next
      BY <3>2 DEF FileType
    <3>4. db' = [filled EXCEPT !.next = @ + 1]
      BY <2>1
    <3> HIDE DEF filled
    <3>5. db' \in FileType
      BY <3>3, <3>4 DEF FileType
    <3> QED
      BY <2>1, <3>1, <3>5
  <2>5. RowsNeedTable' /\ StoreUsable'
    <3>1. db.table /\ store' = store /\ db'.table = db.table /\ db'.version = db.version
      BY <2>1, <2>3, DeliveryAssumption DEF StoreUsable
    <3> QED
      BY <3>1 DEF RowsNeedTable, StoreUsable, At
  <2>6. IdsAreFresh'
    BY <2>1, <2>2, <2>3 DEF IdsAreFresh, FileType, RowType
  <2>7. ReplyTellsOutcome'
    BY <2>1 DEF ReplyTellsOutcome, FinishType
  <2>8. /\ finish[o].outcome # "none"
        /\ (row.state = "insertion_failed") <=> (finish[o].outcome = "Error")
    BY <2>1, <2>2 DEF ReplyTellsOutcome, Recorded, RowState
  <2>9. \A r \in db.rows : r.owner # o
    BY <2>1 DEF RowsAreRecorded
  <2>10. RowsAreRecorded' /\ OneRowEach'
    BY <2>1, <2>2, <2>3, <2>8, <2>9
    DEF RowsAreRecorded, OneRowEach, FinishType, FileType, RowType
  <2> QED
    BY <2>4, <2>5, <2>6, <2>7, <2>10
<1> QED
  BY <1>1, <1>2

(* Rows that are shown or deleted are rows that were there.                *)
LEMMA PageKeepsInv ==
  ASSUME DeliveryInv, List \/ Delete
  PROVE  DeliveryInv'
<1> USE DEF DeliveryInv, Types
<1>1. UNCHANGED <<finish, store>>
  BY DEF List, Delete, storeVars
<1>2. /\ db'.rows \subseteq db.rows /\ db'.next = db.next
      /\ db'.table = db.table /\ db'.version = db.version /\ db' \in FileType
      /\ page' \subseteq page \cup db.rows
  BY DEF List, Delete, DeleteRow, Recent, storeVars, FileType
<1>3. Types' /\ ReplyTellsOutcome'
  BY <1>1, <1>2 DEF FileType, ReplyTellsOutcome, Stands
<1>4. RowsNeedTable' /\ StoreUsable'
  BY <1>1, <1>2 DEF RowsNeedTable, StoreUsable, At
<1>5. IdsAreFresh'
  BY <1>2 DEF IdsAreFresh
<1>6. RowsAreRecorded' /\ OneRowEach'
  BY <1>1, <1>2 DEF RowsAreRecorded, OneRowEach
<1> QED
  BY <1>3, <1>4, <1>5, <1>6

(* A table is created only where there is none, so that nobody who has the *)
(* file open loses it.                                                     *)
LEMMA OpenKeepsInv ==
  ASSUME DeliveryInv, NEW p \in Processes, OpenHistory(p)
  PROVE  DeliveryInv'
<1> USE HistoryAssumption DEF DeliveryInv, Types
<1>1. UNCHANGED <<finish, page>> /\ ReplyTellsOutcome'
  BY DEF OpenHistory, ReplyTellsOutcome, Stands
<1>2. CASE UNCHANGED db
  <2>1. /\ \E step \in {"open", "migrating", "failed"} : Goes(p, step)
        /\ Goes(p, "open") => db.version = SchemaVersion /\ db.table
    BY <1>2 DEF OpenHistory, OpenStep, Open, Migrate, Goes, FileType, At
  <2>2. Types' /\ RowsNeedTable' /\ IdsAreFresh' /\ RowsAreRecorded' /\ OneRowEach'
    BY <1>1, <1>2, <2>1 DEF Goes, RowsNeedTable, IdsAreFresh, RowsAreRecorded, OneRowEach
  <2>3. StoreUsable'
    BY <1>2, <2>1 DEF StoreUsable, Goes, At
  <2> QED
    BY <1>1, <2>2, <2>3
<1>3. CASE ~UNCHANGED db
  <2>1. /\ ~db.table /\ Goes(p, "open")
        /\ db' = [version |-> SchemaVersion, table |-> TRUE, rows |-> {}, next |-> 1]
    BY <1>3 DEF OpenHistory, OpenStep, Open, Migrate
  <2>2. page' = {}
    BY <1>1, <2>1 DEF RowsNeedTable
  <2> QED
    BY <1>1, <2>1, <2>2
    DEF Goes, FileType, RowsNeedTable, IdsAreFresh, RowsAreRecorded, OneRowEach, StoreUsable, At
<1> QED
  BY <1>2, <1>3

(* A crash leaves the file and forgets the page; what it interrupts is     *)
(* lost, not done.                                                         *)
LEMMA CrashKeepsInv ==
  ASSUME DeliveryInv, Crash
  PROVE  DeliveryInv'
<1> USE DEF DeliveryInv, Types, Crash
<1>1. \A o \in Owners :
        \/ finish[o].pc \in {"recording", "done"} /\ finish'[o] = finish[o]
        \/ /\ finish[o].pc \notin {"recording", "done"}
           /\ finish'[o] = [finish[o] EXCEPT !.pc = "lost"]
  OBVIOUS
<1>2. finish' \in [Owners -> FinishType]
  BY DEF FinishType
<1>3. db' = db /\ page' = {} /\ store' = [store EXCEPT ![Main] = "closed"]
  BY DEF Goes
<1>4. Types' /\ RowsNeedTable' /\ IdsAreFresh' /\ StoreUsable' /\ OneRowEach'
  BY <1>2, <1>3 DEF RowsNeedTable, IdsAreFresh, StoreUsable, OneRowEach, At
<1>5. ReplyTellsOutcome'
  BY <1>1, <1>2 DEF ReplyTellsOutcome, Stands, FinishType
<1>6. RowsAreRecorded'
  BY <1>1, <1>2, <1>3 DEF RowsAreRecorded, FinishType, FileType, RowType
<1> QED
  BY <1>4, <1>5, <1>6

(* The invariant is inductive.                                             *)
LEMMA NextKeepsDeliveryInv == DeliveryInv /\ [Next]_vars => DeliveryInv'
<1> SUFFICES ASSUME DeliveryInv, [Next]_vars PROVE DeliveryInv'
  OBVIOUS
<1>1. CASE Next
  BY <1>1, FinishKeepsInv, RecordKeepsInv, PageKeepsInv, OpenKeepsInv, CrashKeepsInv
  DEF Next, FinishStep
<1>2. CASE UNCHANGED vars
  BY <1>2
  DEF vars, storeVars, DeliveryInv, Types, RowsNeedTable, IdsAreFresh, StoreUsable, At,
      ReplyTellsOutcome, Stands, RowsAreRecorded, OneRowEach
<1> QED
  BY <1>1, <1>2

(* The invariant holds in every reachable state.                           *)
THEOREM DeliveryInvariant == Spec => []DeliveryInv
BY InitDeliveryInv, NextKeepsDeliveryInv, PTL DEF Spec

---------------------------------------------------------------------------
(* What follows.                                                           *)

(* When a finish is over, its text was submitted or the reply carries it.  *)
THEOREM NoTextIsLost == Spec => []TextAccountedFor
<1>1. DeliveryInv => TextAccountedFor
  BY DEF DeliveryInv, Types, FinishType, ReplyTellsOutcome, TextAccountedFor, Stands
<1> QED
  BY <1>1, DeliveryInvariant, PTL

(* The history has one row for a dictation at most, and the row tells how  *)
(* the insertion ended, through crashes and a history opened twice.        *)
THEOREM RowsTellOutcome == Spec => []HistoryTellsOutcome
<1>1. DeliveryInv => HistoryTellsOutcome
  BY DEF DeliveryInv, RowsAreRecorded, OneRowEach, HistoryTellsOutcome
<1> QED
  BY <1>1, DeliveryInvariant, PTL

(* Whoever has opened the history finds the table of this schema.          *)
THEOREM OpenedIsUsable == Spec => []StoreUsable
<1>1. DeliveryInv => StoreUsable
  BY DEF DeliveryInv
<1> QED
  BY <1>1, DeliveryInvariant, PTL

(* A row is deleted only if the page showed it: its id was never given to  *)
(* another row.                                                            *)
THEOREM DeletionsWereShown == Spec => DeletesWhatWasShown
<1>1. ASSUME DeliveryInv, [Next]_vars, NEW r \in db.rows \ db'.rows
      PROVE  r \in page
  <2> USE DEF DeliveryInv, Types
  <2>1. CASE Delete
    BY <1>1, <2>1 DEF Delete, DeleteRow, IdsAreFresh, FileType
  <2>2. CASE \E o \in Owners : FinishDictation(o) \/ FinishStep(o)
    <3>1. \/ db' = db
          \/ \E row : db' = [db EXCEPT !.rows = @ \cup {row}, !.next = @ + 1]
      BY <2>2
      DEF FinishStep, FinishDictation, InsertText, EndInsertion, Record, CaptureResult,
          InsertRow, storeVars
    <3>2. CASE \E row : db' = [db EXCEPT !.rows = @ \cup {row}, !.next = @ + 1]
      <4>1. PICK row : db' = [db EXCEPT !.rows = @ \cup {row}, !.next = @ + 1]
        BY <3>2
      <4>2. db'.rows = db.rows \cup {row}
        BY <4>1 DEF FileType
      <4> QED
        BY <1>1, <4>2
    <3> QED
      BY <1>1, <3>1, <3>2
  <2>3. CASE \E p \in Processes : OpenHistory(p)
    BY <1>1, <2>3 DEF OpenHistory, OpenStep, Open, Migrate, RowsNeedTable
  <2>4. CASE List \/ Crash \/ UNCHANGED vars
    BY <1>1, <2>4 DEF List, Crash, vars, storeVars
  <2> QED
    BY <1>1, <2>1, <2>2, <2>3, <2>4 DEF Next
<1>2. DeliveryInv /\ [Next]_vars => [\A r \in db.rows \ db'.rows : r \in page]_vars
  BY <1>1
<1> QED
  BY <1>2, DeliveryInvariant, PTL DEF Spec, DeletesWhatWasShown

(* The file of a newer program is never written.                           *)
THEOREM NewerIsKept == Spec => NewerFileKept
<1>1. ASSUME DeliveryInv, [Next]_vars, db.version > SchemaVersion
      PROVE  db' = db
  <2> USE DeliveryAssumption, HistoryAssumption DEF DeliveryInv, Types, FileType
  <2>1. ~At(Main, "open")
    BY <1>1 DEF StoreUsable
  <2>2. CASE Delete
    BY <2>1, <2>2 DEF Delete, DeleteRow
  <2>3. CASE \E o \in Owners : FinishDictation(o) \/ FinishStep(o)
    BY <2>1, <2>3
    DEF FinishStep, FinishDictation, InsertText, EndInsertion, Record, CaptureResult, InsertRow,
        storeVars
  <2>4. CASE \E p \in Processes : OpenHistory(p)
    BY <1>1, <2>4 DEF OpenHistory, OpenStep, Open, Migrate, RowsNeedTable
  <2>5. CASE List \/ Crash \/ UNCHANGED vars
    BY <2>5 DEF List, Crash, vars, storeVars
  <2> QED
    BY <1>1, <2>2, <2>3, <2>4, <2>5 DEF Next
<1>2. DeliveryInv /\ [Next]_vars => [db.version > SchemaVersion => db' = db]_db
  BY <1>1
<1> QED
  BY <1>2, DeliveryInvariant, PTL DEF Spec, NewerFileKept
=============================================================================
