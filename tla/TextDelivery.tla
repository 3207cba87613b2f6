----------------------------- MODULE TextDelivery -----------------------------
(***************************************************************************)
(* What becomes of a recognized text (src-tauri: ipc.rs and history.rs):   *)
(* the finish of a dictation has it inserted, records it in the history    *)
(* and answers its caller.  Finishes run on worker threads of their own,   *)
(* the history page lists and deletes meanwhile, and the process may end   *)
(* at any point and be started again.  An insertion may have any result    *)
(* InsertionService gives one, and the lifecycle (DesktopDictation) may    *)
(* refuse what it is asked for.                                            *)
(***************************************************************************)
EXTENDS HistoryStore

CONSTANTS
  Owners,           \* the dictations that are finished
  Main,             \* the process that dictates
  MaxCrashes        \* bound: times the process ends unexpectedly

ASSUME DeliveryAssumption == Main \in Processes /\ MaxCrashes \in Nat

VARIABLES
  text,             \* per dictation, what kind of text is recognized
  finish,           \* per dictation: step, the insertion's outcome, the reply, whether appended
  lastError,        \* whether the history shows an error
  page,             \* the rows the history page shows
  crashes

vars == <<text, storeVars, finish, lastError, page, crashes>>

(* A text of blanks can be inserted, but the history does not take it.     *)
TextKinds == {"words", "blank"}

Fresh == [pc |-> "recording", outcome |-> "none", reply |-> "none", appended |-> FALSE]

Init ==
  /\ text \in [Owners -> TextKinds]
  /\ StoreInit
  /\ finish = [o \in Owners |-> Fresh]
  /\ lastError = FALSE
  /\ page = {}
  /\ crashes = 0

---------------------------------------------------------------------------
(* finish_dictation_session.                                               *)

Stands(o, step) == finish[o].pc = step

Moves(o, step) == finish' = [finish EXCEPT ![o].pc = step]

Replies(o, reply) == finish' = [finish EXCEPT ![o].pc = "record", ![o].reply = reply]

Running == At(Main, "open") \/ At(Main, "failed")

(* The dictation yields no text, or its insertion is refused, or the text  *)
(* goes to the inserter.                                                   *)
FinishDictation(o) ==
  /\ Running
  /\ Stands(o, "recording")
  /\ \/ \E reply \in {"no_speech", "failed", "refused"} : Replies(o, reply)
     \/ Moves(o, "inserting")
  /\ UNCHANGED <<text, storeVars, lastError, page, crashes>>

(* insert_text of the service; an error gives nothing but its kind.        *)
InsertText(o) ==
  /\ Stands(o, "inserting")
  /\ finish[o].outcome = "none"
  /\ \E outcome \in {"Ok", "Error"} : finish' = [finish EXCEPT ![o].outcome = outcome]
  /\ UNCHANGED <<text, storeVars, lastError, page, crashes>>

(* complete_insertion or fail_insertion, and the reply.  A failure that    *)
(* the lifecycle refuses only changes the message; a success becomes an    *)
(* error without the text.                                                 *)
(* Fault: the reply to a failed insertion does not carry the text.         *)
EndInsertionTextless(o) ==
  /\ Stands(o, "inserting")
  /\ finish[o].outcome # "none"
  /\ IF finish[o].outcome = "Ok"
     THEN \E reply \in {"completed", "refused"} : Replies(o, reply)
     ELSE Replies(o, "failed")
  /\ UNCHANGED <<text, storeVars, lastError, page, crashes>>
EndInsertion(o) ==
  /\ Stands(o, "inserting")
  /\ finish[o].outcome # "none"
  /\ IF finish[o].outcome = "Ok"
     THEN \E reply \in {"completed", "refused"} : Replies(o, reply)
     ELSE Replies(o, "insertion")
  /\ UNCHANGED <<text, storeVars, lastError, page, crashes>>

---------------------------------------------------------------------------
(* record_report and record_failure.                                       *)

(* A receipt never verifies a delivery.                                    *)
RowState(reply) ==
  IF reply = "completed" THEN "backend_submitted_unverified" ELSE "insertion_failed"

Recorded(reply) == reply \in {"completed", "insertion"}

(* Fault: an append whose commit was not confirmed is tried again.         *)
RecordRetried(o) ==
  /\ Stands(o, "record")
  /\ IF ~Recorded(finish[o].reply)
     THEN Moves(o, "done") /\ UNCHANGED db
     ELSE \/ /\ text[o] # "blank"
             /\ Cardinality(db.rows) < 2
             /\ InsertRow(Main, o, RowState(finish[o].reply))
             /\ UNCHANGED finish
          \/ Moves(o, "capture") /\ UNCHANGED db
  /\ UNCHANGED <<text, store, lastError, page, crashes>>
(* Fault: without a history the finish waits for one.                      *)
RecordWaiting(o) ==
  /\ Stands(o, "record")
  /\ At(Main, "open")
  /\ Moves(o, "done")
  /\ UNCHANGED <<text, storeVars, lastError, page, crashes>>
Record(o) ==
  /\ Stands(o, "record")
  /\ IF ~Recorded(finish[o].reply)
     THEN Moves(o, "done") /\ UNCHANGED db
     ELSE \/ /\ text[o] # "blank"
             /\ InsertRow(Main, o, RowState(finish[o].reply))
             /\ finish' = [finish EXCEPT ![o].pc = "capture", ![o].appended = TRUE]
          \/ Moves(o, "capture") /\ UNCHANGED db
  /\ UNCHANGED <<text, store, lastError, page, crashes>>

(* capture_result, after the store's lock was released.                    *)
CaptureResult(o) ==
  /\ Stands(o, "capture")
  /\ lastError' = ~finish[o].appended
  /\ Moves(o, "done")
  /\ UNCHANGED <<text, storeVars, page, crashes>>

FinishStep(o) ==
  InsertText(o) \/ EndInsertion(o) \/ Record(o) \/ CaptureResult(o)

---------------------------------------------------------------------------
(* The history page: a list is shown until the next one arrives.           *)
List ==
  /\ At(Main, "open")
  /\ page # Recent(Main)
  /\ page' = Recent(Main)
  /\ UNCHANGED <<text, storeVars, finish, lastError, crashes>>

Delete ==
  /\ \E r \in page : DeleteRow(Main, r.id)
  /\ UNCHANGED <<text, store, finish, lastError, page, crashes>>

(* production: a history that cannot be opened leaves an error to show.    *)
OpenHistory(p) ==
  /\ OpenStep(p)
  /\ lastError' = IF p = Main THEN store'[p] = "failed" ELSE lastError
  /\ UNCHANGED <<text, finish, page, crashes>>

(* The process ends: of its finishes nobody will hear.  It is started      *)
(* again and opens the history anew.                                       *)
Crash ==
  /\ crashes < MaxCrashes
  /\ crashes' = crashes + 1
  /\ finish' = [o \in Owners |-> IF finish[o].pc \in {"recording", "done"} THEN finish[o]
                                 ELSE [finish[o] EXCEPT !.pc = "lost"]]
  /\ Goes(Main, "closed")
  /\ lastError' = FALSE
  /\ page' = {}
  /\ UNCHANGED <<text, db>>

Next ==
  \/ \E o \in Owners : FinishDictation(o) \/ FinishStep(o)
  \/ List \/ Delete
  \/ \E p \in Processes : OpenHistory(p)
  \/ Crash

(* The worker threads go on, and a process that is started opens its file. *)
Fairness ==
  /\ WF_vars(OpenHistory(Main))
  /\ \A o \in Owners : WF_vars(FinishStep(o))

Spec == Init /\ [][Next]_vars /\ Fairness

---------------------------------------------------------------------------
DeliveryTypeOK ==
  /\ text \in [Owners -> TextKinds]
  /\ finish \in [Owners -> [pc : {"recording", "inserting", "record", "capture", "done", "lost"},
                            outcome : {"none", "Ok", "Error"},
                            reply : {"none", "no_speech", "failed", "refused", "completed",
                                     "insertion"},
                            appended : BOOLEAN]]
  /\ store \in [Processes -> {"closed", "migrating", "open", "failed"}]
  /\ \A r \in db.rows : r.id < db.next /\ r.owner \in Owners
  /\ \A r, s \in db.rows : r.id = s.id => r = s
  /\ lastError \in BOOLEAN

(* A text the process set out to insert is not lost without a word: when   *)
(* the finish is over it was submitted, or the reply carries it, or the    *)
(* process ended meanwhile.                                                *)
TextAccountedFor ==
  \A o \in Owners : Stands(o, "done") /\ finish[o].outcome # "none" =>
    finish[o].outcome = "Ok" \/ finish[o].reply = "insertion"

(* The history tells what happened: at most one row per dictation, which   *)
(* is never of one whose insertion has not ended, and marked as failed     *)
(* exactly when its insertion failed, also for a finish cut off between    *)
(* the append and its answer.                                              *)
HistoryTellsOutcome ==
  \A r \in db.rows :
    /\ \A s \in db.rows : s.owner = r.owner => s = r
    /\ finish[r.owner].outcome # "none"
    /\ (r.state = "insertion_failed") <=> (finish[r.owner].outcome = "Error")

(* A row leaves the history only when the page showed that very row.       *)
DeletesWhatWasShown == [][\A r \in db.rows \ db'.rows : r \in page]_vars

(* Every finish comes to its end, unless the process ends, also when the   *)
(* history cannot be used: a dictation never depends on it (README).       *)
FinishReturns ==
  \A o \in Owners : Stands(o, "inserting") ~> finish[o].pc \in {"done", "lost"}
=============================================================================
