------------------------- MODULE DictationRuntimeProofs -------------------------
(***************************************************************************)
(* Theorems about DictationRuntime for any set of threads and any bound on *)
(* session ids.                                                            *)
(***************************************************************************)
EXTENDS DictationRuntime, TLAPS

---------------------------------------------------------------------------
(* The inductive invariant.                                                *)

(* Which operations have which steps; a thread in an operation works for a *)
(* session that has begun.                                                 *)
StepsMatchCalls ==
  \A t \in Threads :
    /\ op[t].pc = "idle" <=> op[t].call = "none"
    /\ op[t].pc \in {"reserve", "capture", "started", "store"} => op[t].call = "start"
    /\ op[t].pc = "pump" => op[t].call = "pump"
    /\ op[t].pc \in {"take", "finalize", "finalized", "keep"} => op[t].call = "finalize"
    /\ op[t].pc \in {"claim", "recognize", "restore", "release", "ready", "unreserve",
                     "nospeech"} => op[t].call = "transcribe"
    /\ op[t].pc = "fail" => op[t].call = "fail"
    /\ op[t].pc = "cancel" => op[t].call = "cancel"
    /\ op[t].pc \in {"discard_fail", "read", "best_effort"} =>
         op[t].call \in {"start", "pump", "finalize"}
    /\ op[t].pc = "discard" => op[t].call \in Pipeline
    /\ IF op[t].call = "none" THEN op[t].id = 0 ELSE op[t].id \in Begun

(* The current session is the newest one.                                  *)
CurrentIsNewest ==
  /\ current.id = next_id - 1
  /\ current.state = "None" <=> current.id = 0

(* Pipeline operations on one session do not overlap, and nothing overlaps *)
(* its start.                                                              *)
Exclusive ==
  \A t, u \in Threads :
    t # u /\ op[t].call # "none" /\ op[u].call # "none" /\ op[t].id = op[u].id =>
      /\ op[t].call # "start"
      /\ ~(op[t].call \in Pipeline /\ op[u].call \in Pipeline)

Owns(s) == current.id = s /\ Live

(* A session that is being started is live and its slot follows the steps. *)
StartOwns ==
  \A t \in Threads : op[t].call = "start" =>
    /\ Owns(op[t].id)
    /\ op[t].pc \in {"reserve", "capture", "started", "store", "discard_fail", "read",
                     "best_effort"}
    /\ current.state = IF op[t].pc = "store" THEN "Recording" ELSE "Arming"
    /\ work = IF op[t].pc \in {"reserve", "read", "best_effort"}
                THEN EmptySlot
                ELSE Slot("Arming", op[t].id)

(* Once a thread has cleared the slot to end a session, that session never *)
(* owns the slot again.                                                    *)
ClearedStaysClear ==
  \A t \in Threads :
    op[t].pc \in {"read", "best_effort", "fail", "cancel", "nospeech"} =>
      work.id # op[t].id

(* How far the session is while a pipeline operation on it is at a step.   *)
StateAtStep ==
  \A t \in Threads : Owns(op[t].id) =>
    /\ op[t].pc \in {"take", "finalize", "finalized"} => current.state = "FinalizingAudio"
    /\ op[t].pc = "keep" => current.state = "Transcribing"
    /\ op[t].pc \in {"claim", "recognize", "restore", "release", "ready", "nospeech"} =>
         current.state = "Transcribing"

(* What the slot holds for the session of a thread past its claim.         *)
SlotAtStep ==
  \A t \in Threads : work.id = op[t].id =>
    /\ op[t].pc \in {"finalize", "finalized", "keep"} => work.slot = "Finalizing"
    /\ op[t].pc \in {"recognize", "restore", "release", "ready", "unreserve"} =>
         work.slot = "Transcribing"

(* A reservation has a thread that made it.                                *)
Reserved ==
  /\ work.slot = "Arming" => \E t \in Threads : op[t].call = "start" /\ op[t].id = work.id
  /\ work.slot = "Transcribing" =>
       \E t \in Threads : /\ op[t].call = "transcribe"
                          /\ op[t].id = work.id
                          /\ op[t].pc \notin {"claim", "nospeech"}

EmptyHasNoOwner == work.slot = "Empty" <=> work.id = 0

BasicInv == TypeOK /\ StepsMatchCalls /\ CurrentIsNewest /\ EmptyHasNoOwner

RuntimeInv ==
  /\ BasicInv
  /\ Exclusive
  /\ StartOwns
  /\ ClearedStaysClear
  /\ StateAtStep
  /\ SlotAtStep
  /\ Reserved
  /\ WorkMatchesSession

---------------------------------------------------------------------------
(* Type correctness.                                                       *)

(* The coordinator's variables keep their types when an event is submitted *)
(* or a session begins.                                                    *)
LEMMA SubmitKeepsType ==
  ASSUME LifecycleTypeOK,
         NEW s, NEW event \in Events, NEW stage \in FailureStage \cup {"None"},
         \/ Submit(s, event, stage)
         \/ SubmitIfAccepted(s, event, stage)
  PROVE  LifecycleTypeOK'
<1>1. Target[event] \in SessionState
  BY DEF Events, Target, SessionState, Terminal
<1>2. CASE UNCHANGED lifecycleVars
  BY <1>2 DEF LifecycleTypeOK, lifecycleVars
<1>3. CASE Submit(s, event, stage)
  BY <1>1, <1>3 DEF Submit, LifecycleTypeOK
<1> QED
  BY <1>2, <1>3 DEF SubmitIfAccepted

(* A session that begins keeps the coordinator's type: CanBegin bounds the *)
(* id.                                                                     *)
LEMMA BeginKeepsType ==
  ASSUME LifecycleTypeOK, Begin
  PROVE  LifecycleTypeOK'
BY MaxSessionAssumption DEF LifecycleTypeOK, Begin, CanBegin, SessionState

(* A thread's record keeps its type under the ways an operation advances.  *)
OpType == [call: Calls, pc: Steps, id: 0 .. MaxSession,
           stage: FailureStage \cup {"None"}]

(* A thread that moves on within its operation keeps its type.             *)
LEMMA GotoKeepsType ==
  ASSUME op \in [Threads -> OpType],
         NEW t \in Threads, NEW step \in Steps, Goto(t, step)
  PROVE  op' \in [Threads -> OpType]
BY DEF Goto, OpType

(* A thread that notes a failure stage keeps its type.                     *)
LEMMA FailAtKeepsType ==
  ASSUME op \in [Threads -> OpType],
         NEW t \in Threads, NEW step \in Steps, NEW stage \in FailureStage,
         FailAt(t, step, stage)
  PROVE  op' \in [Threads -> OpType]
BY DEF FailAt, OpType

(* A thread that enters an operation keeps its type.                       *)
LEMMA EnterKeepsType ==
  ASSUME op \in [Threads -> OpType],
         NEW t \in Threads, NEW operation \in Calls, NEW step \in Steps,
         NEW s \in 0 .. MaxSession, NEW stage \in FailureStage \cup {"None"},
         Enter(t, operation, step, s, stage)
  PROVE  op' \in [Threads -> OpType]
BY DEF Enter, OpType

(* A thread that returns keeps its type.                                   *)
LEMMA ReturnKeepsType ==
  ASSUME op \in [Threads -> OpType], NEW t \in Threads, Return(t)
  PROVE  op' \in [Threads -> OpType]
BY MaxSessionAssumption DEF Return, Idle, OpType, Calls, Steps

(* Entering an operation preserves types.                                  *)
LEMMA CallKeepsType ==
  ASSUME TypeOK, NEW t \in Threads, Call(t)
  PROVE  TypeOK'
<1> USE MaxSessionAssumption DEF TypeOK, OpType
<1>1. CASE BeginRecording(t)
  <2>1. next_id \in 0 .. MaxSession
    BY DEF LifecycleTypeOK
  <2> QED
    BY <1>1, <2>1, BeginKeepsType, EnterKeepsType DEF BeginRecording, Calls, Steps
<1>2. ASSUME NEW s \in Begun,
             \/ PumpRecording(t, s)
             \/ Transcribe(t, s)
      PROVE  TypeOK'
  <2>1. s \in 0 .. MaxSession
    BY DEF Begun, LifecycleTypeOK
  <2> QED
    BY <1>2, <2>1, EnterKeepsType, ZenonT(40)
    DEF PumpRecording, Transcribe, Calls, Steps, LifecycleTypeOK, lifecycleVars
<1>3. ASSUME NEW s \in Begun, FinalizeRecording(t, s)
      PROVE  TypeOK'
  <2>1. s \in 0 .. MaxSession
    BY DEF Begun, LifecycleTypeOK
  <2>2. LifecycleTypeOK'
    BY <1>3, SubmitKeepsType DEF FinalizeRecording, Events, Target
  <2> QED
    BY <1>3, <2>1, <2>2, EnterKeepsType DEF FinalizeRecording, Calls, Steps
<1>4. ASSUME NEW s \in Begun,
             \/ FinishTransform(t, s)
             \/ InsertionDelivered(t, s)
      PROVE  TypeOK'
  <2>1. LifecycleTypeOK'
    BY <1>4, SubmitKeepsType DEF FinishTransform, InsertionDelivered, Events, Target
  <2> QED
    BY <1>4, <2>1 DEF FinishTransform, InsertionDelivered
<1>5. ASSUME NEW s \in Begun, NEW stage \in CallerStages,
             \/ Cancel(t, s)
             \/ Fail(t, s, stage)
      PROVE  TypeOK'
  <2>1. s \in 0 .. MaxSession /\ stage \in FailureStage
    BY DEF Begun, LifecycleTypeOK, CallerStages, FailureStage
  <2>2. work' = work \/ work' = EmptySlot
    BY <1>5 DEF Cancel, Fail, Cleared
  <2>3. op' \in [Threads -> OpType]
    BY <1>5, <2>1, EnterKeepsType DEF Cancel, Fail, Calls, Steps
  <2> QED
    BY <1>5, <2>2, <2>3 DEF Cancel, Fail, EmptySlot, LifecycleTypeOK, lifecycleVars
<1> QED
  BY <1>1, <1>2, <1>3, <1>4, <1>5 DEF Call, CallerStages

(* The steps of an operation preserve types.                               *)
LEMMA ContinueKeepsType ==
  ASSUME TypeOK, NEW t \in Threads, Continue(t)
  PROVE  TypeOK'
<1> USE MaxSessionAssumption DEF TypeOK, OpType
<1>1. op[t].id \in 0 .. MaxSession
  OBVIOUS
(* Steps that leave the coordinator alone. *)
<1>2. ASSUME \/ ReserveArming(t) \/ StartCapture(t) \/ StoreRecording(t) \/ Pump(t)
             \/ TakeRecording(t) \/ FinalizeAudio(t) \/ StoreFinalized(t)
             \/ TakeFinalized(t) \/ Recognize(t) \/ RestoreFinalized(t)
             \/ ReleaseSilence(t) \/ ClearReservation(t)
             \/ DiscardAndFail(t) \/ Discard(t) \/ ReadForFailure(t)
      PROVE  TypeOK'
  <2>1. LifecycleTypeOK'
    BY <1>2 DEF LifecycleTypeOK, lifecycleVars, ReserveArming, StartCapture, StoreRecording,
       Pump, TakeRecording, FinalizeAudio, StoreFinalized, TakeFinalized, Recognize,
       RestoreFinalized, ReleaseSilence, ClearReservation, DiscardAndFail, Discard,
       ReadForFailure
  <2>2. \/ work' \in {work, EmptySlot}
        \/ \E kind \in {"Arming", "Recording", "Finalizing", "Finalized", "Transcribing"} :
             work' = Slot(kind, op[t].id)
    BY <1>2 DEF ReserveArming, StartCapture, StoreRecording,
       Pump, TakeRecording, FinalizeAudio, StoreFinalized, TakeFinalized, Recognize,
       RestoreFinalized, ReleaseSilence, ClearReservation, DiscardAndFail, Discard,
       ReadForFailure, Cleared
  <2>3. \/ Return(t)
        \/ \E step \in Steps : Goto(t, step)
        \/ \E step \in Steps, stage \in FailureStage : FailAt(t, step, stage)
    BY <1>2 DEF ReserveArming, StartCapture, StoreRecording,
       Pump, TakeRecording, FinalizeAudio, StoreFinalized, TakeFinalized, Recognize,
       RestoreFinalized, ReleaseSilence, ClearReservation, DiscardAndFail, Discard,
       ReadForFailure, Steps, FailureStage
  <2>4. op' \in [Threads -> OpType]
    BY <2>3, ReturnKeepsType, GotoKeepsType, FailAtKeepsType
  <2> QED
    BY <1>1, <2>1, <2>2, <2>4 DEF Slot, EmptySlot
(* Steps that submit an event. *)
<1>3. ASSUME \/ RecordingStarted(t) \/ AudioFinalized(t) \/ TranscriptReady(t)
             \/ CancelSilence(t) \/ FailSession(t) \/ CancelSession(t) \/ BestEffortFail(t)
      PROVE  TypeOK'
  <2>1. /\ UNCHANGED work
        /\ \E event \in Events, stage \in FailureStage \cup {"None"} :
             SubmitIfAccepted(op[t].id, event, stage)
    BY <1>3 DEF RecordingStarted, AudioFinalized, TranscriptReady, CancelSilence,
       FailSession, CancelSession, BestEffortFail, Events, Target
  <2>2. LifecycleTypeOK'
    BY <2>1, SubmitKeepsType
  <2>3. Return(t) \/ \E step \in Steps : Goto(t, step)
    BY <1>3 DEF RecordingStarted, AudioFinalized, TranscriptReady, CancelSilence,
       FailSession, CancelSession, BestEffortFail, Steps
  <2>4. op' \in [Threads -> OpType]
    BY <2>3, ReturnKeepsType, GotoKeepsType
  <2> QED
    BY <2>1, <2>2, <2>4
<1> QED
  BY <1>2, <1>3 DEF Continue

(* Every step preserves types.                                             *)
LEMMA NextKeepsType == TypeOK /\ [Next]_vars => TypeOK'
<1> SUFFICES ASSUME TypeOK, [Next]_vars PROVE TypeOK'
  OBVIOUS
<1>1. CASE Next
  BY <1>1, CallKeepsType, ContinueKeepsType DEF Next
<1>2. CASE UNCHANGED vars
  BY <1>2 DEF vars, TypeOK, LifecycleTypeOK
<1> QED
  BY <1>1, <1>2

(* The initial state is well typed.                                        *)
LEMMA InitHasType == Init => TypeOK
BY MaxSessionAssumption
DEF Init, TypeOK, LifecycleInit, LifecycleTypeOK, NoSession, EmptySlot, Idle, Calls, Steps

(* The coordinator, the slot and every thread keep their types: an id never *)
(* passes the exhaustion bound, whatever callers do.                        *)
THEOREM TypeCorrect == Spec => []TypeOK
<1>1. Init => TypeOK
  BY InitHasType
<1>2. TypeOK /\ [Next]_vars => TypeOK'
  BY NextKeepsType
<1> QED
  BY <1>1, <1>2, PTL DEF Spec

---------------------------------------------------------------------------
(* What a step does to its thread, and what a submitted event does.        *)

Others(t) == \A u \in Threads \ {t} : op'[u] = op[u]

(* What a step within an operation does to the threads.                    *)
LEMMA MoveEffect ==
  ASSUME op \in [Threads -> OpType], NEW t \in Threads, NEW step,
         \/ Goto(t, step)
         \/ \E stage : FailAt(t, step, stage)
  PROVE  /\ Others(t)
         /\ op'[t].call = op[t].call
         /\ op'[t].id = op[t].id
         /\ op'[t].pc = step
BY DEF Goto, FailAt, Others, OpType

(* What a return does to the threads.                                      *)
LEMMA ReturnEffect ==
  ASSUME op \in [Threads -> OpType], NEW t \in Threads, Return(t)
  PROVE  Others(t) /\ op'[t] = Idle
BY DEF Return, Others

(* What an entry does to the threads.                                      *)
LEMMA EnterEffect ==
  ASSUME op \in [Threads -> OpType], NEW t \in Threads,
         NEW operation, NEW step, NEW s, NEW stage,
         Enter(t, operation, step, s, stage)
  PROVE  /\ Others(t)
         /\ op'[t].call = operation
         /\ op'[t].id = s
         /\ op'[t].pc = step
BY DEF Enter, Others

(* What submitting an event does to the current session.                   *)
LEMMA SubmitEffect ==
  ASSUME LifecycleTypeOK, NEW s, NEW event \in Events, NEW stage,
         \/ Submit(s, event, stage)
         \/ SubmitIfAccepted(s, event, stage)
  PROVE  /\ next_id' = next_id
         /\ current'.id = current.id
         /\ IF Submittable(s, event)
              THEN current'.state = Target[event]
              ELSE current' = current
<1>1. CASE Submittable(s, event) /\ Submit(s, event, stage)
  BY <1>1 DEF Submit, LifecycleTypeOK
<1>2. CASE ~Submittable(s, event)
  BY <1>2 DEF SubmitIfAccepted, Submit, lifecycleVars
<1> QED
  BY <1>1, <1>2 DEF SubmitIfAccepted

---------------------------------------------------------------------------
(* The part of the invariant that holds however callers behave.            *)

(* Every step of a thread keeps BasicInv: types, step names, and that the  *)
(* current session is the newest.                                          *)
LEMMA BasicStep ==
  ASSUME BasicInv, NEW t \in Threads, Call(t) \/ Continue(t)
  PROVE  BasicInv'
<1>1. TypeOK'
  BY CallKeepsType, ContinueKeepsType DEF BasicInv
<1> USE DEF BasicInv, TypeOK, LifecycleTypeOK, StepsMatchCalls, CurrentIsNewest,
            EmptyHasNoOwner, Idle, Free, At, Begun, lifecycleVars, Pipeline, Holds, Slot,
            EmptySlot
<1>2. CASE BeginRecording(t)
  BY <1>1, <1>2, SMTT(30)
  DEF BeginRecording, Begin, CanBegin, Enter, NoSession
<1>3. CASE ReserveArming(t)
  BY <1>1, <1>3, SMTT(30)
  DEF ReserveArming, Goto, FailAt
<1>4. CASE StartCapture(t)
  BY <1>1, <1>4, SMTT(30)
  DEF StartCapture, Goto, FailAt
<1>5. CASE RecordingStarted(t)
  <2>1. /\ next_id' = next_id
       /\ current'.id = current.id
       /\ IF Submittable(op[t].id, "RecordingStarted")
            THEN current'.state = Target["RecordingStarted"]
            ELSE current' = current
    BY <1>5, SubmitEffect
    DEF RecordingStarted, Events, Target
  <2> QED
    BY <1>1, <1>5, <2>1, SMTT(30)
    DEF RecordingStarted, Goto, Submittable, Accepts, Source, Target
<1>6. CASE StoreRecording(t)
  <2>1. CASE Holds("Arming", op[t].id)
    BY <1>1, <1>6, <2>1, SMTT(30) DEF StoreRecording, Return
  <2>2. CASE ~Holds("Arming", op[t].id)
    BY <1>1, <1>6, <2>2, SMTT(30) DEF StoreRecording, FailAt
  <2> QED
    BY <2>1, <2>2
<1>7. ASSUME NEW s \in Begun, PumpRecording(t, s) PROVE BasicInv'
  BY <1>1, <1>7, SMTT(30)
  DEF PumpRecording, Enter
<1>8. CASE Pump(t)
  <2>1. CASE Return(t)
    BY <1>1, <1>8, <2>1, SMTT(30) DEF Pump, Return
  <2>2. CASE \E stage \in {"AudioCapture", "Internal"} : FailAt(t, "discard_fail", stage)
    BY <1>1, <1>8, <2>2, SMTT(30) DEF Pump, FailAt
  <2> QED
    BY <1>8, <2>1, <2>2 DEF Pump
<1>9. ASSUME NEW s \in Begun, FinalizeRecording(t, s) PROVE BasicInv'
  <2>1. /\ next_id' = next_id
       /\ current'.id = current.id
       /\ IF Submittable(s, "RecordingStopped")
            THEN current'.state = Target["RecordingStopped"]
            ELSE current' = current
    BY <1>9, SubmitEffect
    DEF FinalizeRecording, Events, Target
  <2> QED
    BY <1>1, <1>9, <2>1, SMTT(30)
    DEF FinalizeRecording, Enter, Submittable, Accepts, Source, Target
<1>10. CASE TakeRecording(t)
  BY <1>1, <1>10, SMTT(30)
  DEF TakeRecording, Return, Goto
<1>11. CASE FinalizeAudio(t)
  BY <1>1, <1>11, SMTT(30)
  DEF FinalizeAudio, Goto, FailAt
<1>12. CASE AudioFinalized(t)
  <2>1. /\ next_id' = next_id
       /\ current'.id = current.id
       /\ IF Submittable(op[t].id, "AudioFinalized")
            THEN current'.state = Target["AudioFinalized"]
            ELSE current' = current
    BY <1>12, SubmitEffect
    DEF AudioFinalized, Events, Target
  <2> QED
    BY <1>1, <1>12, <2>1, SMTT(30)
    DEF AudioFinalized, Goto, Submittable, Accepts, Source, Target
<1>13. CASE StoreFinalized(t)
  BY <1>1, <1>13, SMTT(30)
  DEF StoreFinalized, Return
<1>14. ASSUME NEW s \in Begun, Transcribe(t, s) PROVE BasicInv'
  BY <1>1, <1>14, SMTT(30)
  DEF Transcribe, Enter
<1>15. CASE TakeFinalized(t)
  BY <1>1, <1>15, SMTT(30)
  DEF TakeFinalized, Return, Goto
<1>16. CASE Recognize(t)
  BY <1>1, <1>16, SMTT(30)
  DEF Recognize, Goto
<1>17. CASE RestoreFinalized(t)
  BY <1>1, <1>17, SMTT(30)
  DEF RestoreFinalized, Return
<1>18. CASE ReleaseSilence(t)
  BY <1>1, <1>18, SMTT(30)
  DEF ReleaseSilence, Return, Goto
<1>19. CASE CancelSilence(t)
  <2>1. /\ next_id' = next_id
       /\ current'.id = current.id
       /\ IF Submittable(op[t].id, "Cancel")
            THEN current'.state = Target["Cancel"]
            ELSE current' = current
    BY <1>19, SubmitEffect
    DEF CancelSilence, Events, Target
  <2> QED
    BY <1>1, <1>19, <2>1, SMTT(30)
    DEF CancelSilence, Return, Submittable, Accepts, Source, Target
<1>20. CASE TranscriptReady(t)
  <2>1. \E event \in {"TranscriptReady", "TransformRequired"} :
         /\ next_id' = next_id
         /\ current'.id = current.id
         /\ IF Submittable(op[t].id, event)
              THEN current'.state = Target[event] /\ op' = [op EXCEPT ![t].pc = "unreserve"]
              ELSE current' = current /\ op' = [op EXCEPT ![t].pc = "discard"]
    BY <1>20, SubmitEffect, ZenonT(40)
    DEF TranscriptReady, Events, Target, Goto
  <2> QED
    BY <1>1, <1>20, <2>1, SMTT(30)
    DEF TranscriptReady, Goto, Submittable, Accepts, Source, Target
<1>21. CASE ClearReservation(t)
  BY <1>1, <1>21, SMTT(30)
  DEF ClearReservation, Return
<1>22. ASSUME NEW s \in Begun, FinishTransform(t, s) PROVE BasicInv'
  <2>1. /\ next_id' = next_id
       /\ current'.id = current.id
       /\ IF Submittable(s, "TransformFinished")
            THEN current'.state = Target["TransformFinished"]
            ELSE current' = current
    BY <1>22, SubmitEffect
    DEF FinishTransform, Events, Target
  <2> QED
    BY <1>1, <1>22, <2>1, SMTT(30)
    DEF FinishTransform, Submittable, Accepts, Source, Target
<1>23. ASSUME NEW s \in Begun, InsertionDelivered(t, s) PROVE BasicInv'
  <2>1. /\ next_id' = next_id
       /\ current'.id = current.id
       /\ IF Submittable(s, "InsertionDelivered")
            THEN current'.state = Target["InsertionDelivered"]
            ELSE current' = current
    BY <1>23, SubmitEffect
    DEF InsertionDelivered, Events, Target
  <2> QED
    BY <1>1, <1>23, <2>1, SMTT(30)
    DEF InsertionDelivered, Submittable, Accepts, Source, Target
<1>24. ASSUME NEW s \in Begun, NEW stage \in CallerStages, Fail(t, s, stage)
      PROVE  BasicInv'
  BY <1>1, <1>24, SMTT(30)
  DEF Fail, Enter, Cleared
<1>25. CASE FailSession(t)
  <2>1. /\ next_id' = next_id
       /\ current'.id = current.id
       /\ IF Submittable(op[t].id, "Fail")
            THEN current'.state = Target["Fail"]
            ELSE current' = current
    BY <1>25, SubmitEffect
    DEF FailSession, Events, Target
  <2> QED
    BY <1>1, <1>25, <2>1, SMTT(30)
    DEF FailSession, Return, Submittable, Accepts, Source, Target
<1>26. ASSUME NEW s \in Begun, Cancel(t, s) PROVE BasicInv'
  BY <1>1, <1>26, SMTT(30)
  DEF Cancel, Enter, Cleared
<1>27. CASE CancelSession(t)
  <2>1. /\ next_id' = next_id
       /\ current'.id = current.id
       /\ IF Submittable(op[t].id, "Cancel")
            THEN current'.state = Target["Cancel"]
            ELSE current' = current
    BY <1>27, SubmitEffect
    DEF CancelSession, Events, Target
  <2> QED
    BY <1>1, <1>27, <2>1, SMTT(30)
    DEF CancelSession, Return, Submittable, Accepts, Source, Target
<1>28. CASE DiscardAndFail(t)
  BY <1>1, <1>28, SMTT(30)
  DEF DiscardAndFail, Goto, Cleared
<1>29. CASE Discard(t)
  BY <1>1, <1>29, SMTT(30)
  DEF Discard, Return, Cleared
<1>30. CASE ReadForFailure(t)
  BY <1>1, <1>30, SMTT(30)
  DEF ReadForFailure, Goto, Return
<1>31. CASE BestEffortFail(t)
  <2>1. /\ next_id' = next_id
       /\ current'.id = current.id
       /\ IF Submittable(op[t].id, "Fail")
            THEN current'.state = Target["Fail"]
            ELSE current' = current
    BY <1>31, SubmitEffect
    DEF BestEffortFail, Events, Target
  <2> QED
    BY <1>1, <1>31, <2>1, SMTT(30)
    DEF BestEffortFail, Return, Submittable, Accepts, Source, Target
<1> QED
  BY <1>2, <1>3, <1>4, <1>5, <1>6, <1>7, <1>8, <1>9, <1>10, <1>11, <1>12, <1>13, <1>14,
     <1>15, <1>16, <1>17, <1>18, <1>19, <1>20, <1>21, <1>22, <1>23, <1>24, <1>25, <1>26,
     <1>27, <1>28, <1>29, <1>30, <1>31 DEF Call, Continue

---------------------------------------------------------------------------
(* The invariant under disciplined callers, one lemma per action.          *)

(* A session begins when the old one is terminal, so by WorkMatchesSession *)
(* the slot is empty.                                                      *)
LEMMA BeginRecordingKeepsInv ==
  ASSUME Disciplined, RuntimeInv, NEW t \in Threads, BeginRecording(t)
  PROVE  RuntimeInv'
<1>1. BasicInv'
  BY BasicStep DEF Call, Continue, RuntimeInv
<1> USE DEF RuntimeInv, BasicInv, TypeOK, LifecycleTypeOK, BeginRecording, Begin,
            CanBegin, Enter
<1>3. Exclusive'
  BY <1>1, SMTT(30)
  DEF Exclusive, StepsMatchCalls, Idle, Free, At, Begun, CurrentIsNewest, InFlight,
      MayCall, MayAdvance, Pipeline
<1>4. StartOwns' /\ ClearedStaysClear'
  BY <1>1, SMTT(30)
  DEF StartOwns, ClearedStaysClear, Exclusive, StepsMatchCalls, CurrentIsNewest,
      EmptyHasNoOwner, Owns, Idle, Free, At, Begun, InFlight, MayCall, MayAdvance,
      Pipeline, Holds, Slot, EmptySlot, Live, Terminal, lifecycleVars,
      WorkMatchesSession, OwnerStates
<1>5. StateAtStep' /\ SlotAtStep'
  BY <1>1, SMTT(30)
  DEF StateAtStep, SlotAtStep, StartOwns, Exclusive, StepsMatchCalls, CurrentIsNewest,
      EmptyHasNoOwner, Owns, Idle, Free, At, Begun, InFlight, MayCall, MayAdvance,
      Pipeline, Holds, Slot, EmptySlot, Live, Terminal, lifecycleVars,
      WorkMatchesSession, OwnerStates
<1>6. Reserved' /\ WorkMatchesSession'
  BY <1>1, SMTT(30)
  DEF Reserved, WorkMatchesSession, OwnerStates, StateAtStep, SlotAtStep,
      ClearedStaysClear, StartOwns, Exclusive, StepsMatchCalls, CurrentIsNewest,
      EmptyHasNoOwner, Owns, Idle, Free, At, Begun, InFlight, MayCall, MayAdvance,
      Pipeline, Holds, Slot, EmptySlot, Live, Terminal, lifecycleVars
<1> QED
  BY <1>1, <1>3, <1>4, <1>5, <1>6 DEF RuntimeInv

(* By StartOwns the slot is empty, so the reservation succeeds.            *)
LEMMA ReserveArmingKeepsInv ==
  ASSUME Disciplined, RuntimeInv, NEW t \in Threads, ReserveArming(t)
  PROVE  RuntimeInv'
<1>1. BasicInv'
  BY BasicStep DEF Call, Continue, RuntimeInv
<1> USE DEF RuntimeInv, BasicInv, TypeOK, LifecycleTypeOK, ReserveArming, Goto, FailAt
<1>3. Exclusive'
  BY <1>1, SMTT(30)
  DEF Exclusive, StepsMatchCalls, Idle, Free, At, Begun, CurrentIsNewest, InFlight,
      MayCall, MayAdvance, Pipeline
<1>4. StartOwns' /\ ClearedStaysClear'
  BY <1>1, SMTT(90)
  DEF StartOwns, ClearedStaysClear, Exclusive, StepsMatchCalls, CurrentIsNewest,
      EmptyHasNoOwner, Owns, Idle, Free, At, Begun, InFlight, MayCall, MayAdvance,
      Pipeline, Holds, Slot, EmptySlot, Live, Terminal, lifecycleVars,
      WorkMatchesSession, OwnerStates
<1>5. StateAtStep' /\ SlotAtStep'
  BY <1>1, SMTT(90)
  DEF StateAtStep, SlotAtStep, StartOwns, Exclusive, StepsMatchCalls, CurrentIsNewest,
      EmptyHasNoOwner, Owns, Idle, Free, At, Begun, InFlight, MayCall, MayAdvance,
      Pipeline, Holds, Slot, EmptySlot, Live, Terminal, lifecycleVars,
      WorkMatchesSession, OwnerStates
<1>6. Reserved' /\ WorkMatchesSession'
  BY <1>1, SMTT(30)
  DEF Reserved, WorkMatchesSession, OwnerStates, StateAtStep, SlotAtStep,
      ClearedStaysClear, StartOwns, Exclusive, StepsMatchCalls, CurrentIsNewest,
      EmptyHasNoOwner, Owns, Idle, Free, At, Begun, InFlight, MayCall, MayAdvance,
      Pipeline, Holds, Slot, EmptySlot, Live, Terminal, lifecycleVars
<1> QED
  BY <1>1, <1>3, <1>4, <1>5, <1>6 DEF RuntimeInv

(* The capture factory touches no shared state.                            *)
LEMMA StartCaptureKeepsInv ==
  ASSUME Disciplined, RuntimeInv, NEW t \in Threads, StartCapture(t)
  PROVE  RuntimeInv'
<1>1. BasicInv'
  BY BasicStep DEF Call, Continue, RuntimeInv
<1> USE DEF RuntimeInv, BasicInv, TypeOK, LifecycleTypeOK, StartCapture, Goto, FailAt
<1>3. Exclusive'
  <2>1. \A u \in Threads : op'[u].call = op[u].call /\ op'[u].id = op[u].id
    BY MoveEffect
  <2> QED
    BY <2>1 DEF Exclusive
<1>4. StartOwns' /\ ClearedStaysClear'
  <2>1. /\ \A u \in Threads : op'[u].call = op[u].call /\ op'[u].id = op[u].id
        /\ \A u \in Threads \ {t} : op'[u] = op[u]
        /\ op[t].pc = "capture" /\ op'[t].pc \in {"started", "discard_fail"}
    BY DEF At
  <2>2. UNCHANGED <<next_id, current, work>>
    BY DEF lifecycleVars
  <2>3. StartOwns'
    BY <2>1, <2>2 DEF StartOwns, Owns, Live
  <2>4. ClearedStaysClear'
    BY <2>1, <2>2 DEF ClearedStaysClear
  <2> QED
    BY <2>3, <2>4
<1>5. StateAtStep' /\ SlotAtStep'
  BY <1>1, SMTT(30)
  DEF StateAtStep, SlotAtStep, StartOwns, Exclusive, StepsMatchCalls, CurrentIsNewest,
      EmptyHasNoOwner, Owns, Idle, Free, At, Begun, InFlight, MayCall, MayAdvance,
      Pipeline, Holds, Slot, EmptySlot, Live, Terminal, lifecycleVars,
      WorkMatchesSession, OwnerStates
<1>6. Reserved' /\ WorkMatchesSession'
  BY <1>1, SMTT(30)
  DEF Reserved, WorkMatchesSession, OwnerStates, StateAtStep, SlotAtStep,
      ClearedStaysClear, StartOwns, Exclusive, StepsMatchCalls, CurrentIsNewest,
      EmptyHasNoOwner, Owns, Idle, Free, At, Begun, InFlight, MayCall, MayAdvance,
      Pipeline, Holds, Slot, EmptySlot, Live, Terminal, lifecycleVars
<1> QED
  BY <1>1, <1>3, <1>4, <1>5, <1>6 DEF RuntimeInv

(* By StartOwns the session is live and Arming, so the event is accepted.  *)
LEMMA RecordingStartedKeepsInv ==
  ASSUME Disciplined, RuntimeInv, NEW t \in Threads, RecordingStarted(t)
  PROVE  RuntimeInv'
<1>1. BasicInv'
  BY BasicStep DEF Call, Continue, RuntimeInv
<1>2. /\ next_id' = next_id
      /\ current'.id = current.id
      /\ IF Submittable(op[t].id, "RecordingStarted")
           THEN current'.state = Target["RecordingStarted"]
           ELSE current' = current
  BY SubmitEffect
  DEF RecordingStarted, RuntimeInv, BasicInv, TypeOK, Events, Target
<1> USE DEF RuntimeInv, BasicInv, TypeOK, LifecycleTypeOK, RecordingStarted, Goto,
            Submittable, Accepts, Source, Target
<1>3. Exclusive'
  BY <1>1, <1>2, SMTT(30)
  DEF Exclusive, StepsMatchCalls, Idle, Free, At, Begun, CurrentIsNewest, InFlight,
      MayCall, MayAdvance, Pipeline
<1>4. StartOwns' /\ ClearedStaysClear'
  BY <1>1, <1>2, SMTT(30)
  DEF StartOwns, ClearedStaysClear, Exclusive, StepsMatchCalls, CurrentIsNewest,
      EmptyHasNoOwner, Owns, Idle, Free, At, Begun, InFlight, MayCall, MayAdvance,
      Pipeline, Holds, Slot, EmptySlot, Live, Terminal, lifecycleVars,
      WorkMatchesSession, OwnerStates
<1>5. StateAtStep' /\ SlotAtStep'
  BY <1>1, <1>2, SMTT(30)
  DEF StateAtStep, SlotAtStep, StartOwns, Exclusive, StepsMatchCalls, CurrentIsNewest,
      EmptyHasNoOwner, Owns, Idle, Free, At, Begun, InFlight, MayCall, MayAdvance,
      Pipeline, Holds, Slot, EmptySlot, Live, Terminal, lifecycleVars,
      WorkMatchesSession, OwnerStates
<1>6. Reserved' /\ WorkMatchesSession'
  BY <1>1, <1>2, SMTT(30)
  DEF Reserved, WorkMatchesSession, OwnerStates, StateAtStep, SlotAtStep,
      ClearedStaysClear, StartOwns, Exclusive, StepsMatchCalls, CurrentIsNewest,
      EmptyHasNoOwner, Owns, Idle, Free, At, Begun, InFlight, MayCall, MayAdvance,
      Pipeline, Holds, Slot, EmptySlot, Live, Terminal, lifecycleVars
<1> QED
  BY <1>1, <1>3, <1>4, <1>5, <1>6 DEF RuntimeInv

(* By StartOwns the Arming reservation is still there.                     *)
LEMMA StoreRecordingKeepsInv ==
  ASSUME Disciplined, RuntimeInv, NEW t \in Threads, StoreRecording(t)
  PROVE  RuntimeInv'
<1>1. BasicInv'
  BY BasicStep DEF Call, Continue, RuntimeInv
<1> USE DEF RuntimeInv, BasicInv, TypeOK, LifecycleTypeOK, StoreRecording, Return,
            FailAt
<1>3. Exclusive'
  BY <1>1, SMTT(30)
  DEF Exclusive, StepsMatchCalls, Idle, Free, At, Begun, CurrentIsNewest, InFlight,
      MayCall, MayAdvance, Pipeline
<1>4. StartOwns' /\ ClearedStaysClear'
  BY <1>1, SMTT(30)
  DEF StartOwns, ClearedStaysClear, Exclusive, StepsMatchCalls, CurrentIsNewest,
      EmptyHasNoOwner, Owns, Idle, Free, At, Begun, InFlight, MayCall, MayAdvance,
      Pipeline, Holds, Slot, EmptySlot, Live, Terminal, lifecycleVars,
      WorkMatchesSession, OwnerStates
<1>5. StateAtStep' /\ SlotAtStep'
  BY <1>1, SMTT(30)
  DEF StateAtStep, SlotAtStep, StartOwns, Exclusive, StepsMatchCalls, CurrentIsNewest,
      EmptyHasNoOwner, Owns, Idle, Free, At, Begun, InFlight, MayCall, MayAdvance,
      Pipeline, Holds, Slot, EmptySlot, Live, Terminal, lifecycleVars,
      WorkMatchesSession, OwnerStates
<1>6. Reserved' /\ WorkMatchesSession'
  BY <1>1, SMTT(30)
  DEF Reserved, WorkMatchesSession, OwnerStates, StateAtStep, SlotAtStep,
      ClearedStaysClear, StartOwns, Exclusive, StepsMatchCalls, CurrentIsNewest,
      EmptyHasNoOwner, Owns, Idle, Free, At, Begun, InFlight, MayCall, MayAdvance,
      Pipeline, Holds, Slot, EmptySlot, Live, Terminal, lifecycleVars
<1> QED
  BY <1>1, <1>3, <1>4, <1>5, <1>6 DEF RuntimeInv

(* Entering a pump changes no shared state.                                *)
LEMMA PumpRecordingKeepsInv ==
  ASSUME Disciplined, RuntimeInv, NEW t \in Threads, NEW s \in Begun, PumpRecording(t, s)
  PROVE  RuntimeInv'
<1>1. BasicInv'
  BY BasicStep DEF Call, Continue, RuntimeInv
<1> USE DEF RuntimeInv, BasicInv, TypeOK, LifecycleTypeOK, PumpRecording, Enter
<1>3. Exclusive'
  BY <1>1, SMTT(30)
  DEF Exclusive, StepsMatchCalls, Idle, Free, At, Begun, CurrentIsNewest, InFlight,
      MayCall, MayAdvance, Pipeline
<1>4. StartOwns' /\ ClearedStaysClear'
  BY <1>1, SMTT(30)
  DEF StartOwns, ClearedStaysClear, Exclusive, StepsMatchCalls, CurrentIsNewest,
      EmptyHasNoOwner, Owns, Idle, Free, At, Begun, InFlight, MayCall, MayAdvance,
      Pipeline, Holds, Slot, EmptySlot, Live, Terminal, lifecycleVars,
      WorkMatchesSession, OwnerStates
<1>5. StateAtStep' /\ SlotAtStep'
  BY <1>1, SMTT(30)
  DEF StateAtStep, SlotAtStep, StartOwns, Exclusive, StepsMatchCalls, CurrentIsNewest,
      EmptyHasNoOwner, Owns, Idle, Free, At, Begun, InFlight, MayCall, MayAdvance,
      Pipeline, Holds, Slot, EmptySlot, Live, Terminal, lifecycleVars,
      WorkMatchesSession, OwnerStates
<1>6. Reserved' /\ WorkMatchesSession'
  BY <1>1, SMTT(30)
  DEF Reserved, WorkMatchesSession, OwnerStates, StateAtStep, SlotAtStep,
      ClearedStaysClear, StartOwns, Exclusive, StepsMatchCalls, CurrentIsNewest,
      EmptyHasNoOwner, Owns, Idle, Free, At, Begun, InFlight, MayCall, MayAdvance,
      Pipeline, Holds, Slot, EmptySlot, Live, Terminal, lifecycleVars
<1> QED
  BY <1>1, <1>3, <1>4, <1>5, <1>6 DEF RuntimeInv

(* A pump changes no shared state; its failure tail does.                  *)
LEMMA PumpKeepsInv ==
  ASSUME Disciplined, RuntimeInv, NEW t \in Threads, Pump(t)
  PROVE  RuntimeInv'
<1>1. BasicInv'
  BY BasicStep DEF Call, Continue, RuntimeInv
<1> USE DEF RuntimeInv, BasicInv, TypeOK, LifecycleTypeOK, Pump, Return, FailAt
<1>3. Exclusive'
  BY <1>1, SMTT(30)
  DEF Exclusive, StepsMatchCalls, Idle, Free, At, Begun, CurrentIsNewest, InFlight,
      MayCall, MayAdvance, Pipeline
<1>4. StartOwns' /\ ClearedStaysClear'
  BY <1>1, SMTT(30)
  DEF StartOwns, ClearedStaysClear, Exclusive, StepsMatchCalls, CurrentIsNewest,
      EmptyHasNoOwner, Owns, Idle, Free, At, Begun, InFlight, MayCall, MayAdvance,
      Pipeline, Holds, Slot, EmptySlot, Live, Terminal, lifecycleVars,
      WorkMatchesSession, OwnerStates
<1>5. StateAtStep' /\ SlotAtStep'
  BY <1>1, SMTT(30)
  DEF StateAtStep, SlotAtStep, StartOwns, Exclusive, StepsMatchCalls, CurrentIsNewest,
      EmptyHasNoOwner, Owns, Idle, Free, At, Begun, InFlight, MayCall, MayAdvance,
      Pipeline, Holds, Slot, EmptySlot, Live, Terminal, lifecycleVars,
      WorkMatchesSession, OwnerStates
<1>6. Reserved' /\ WorkMatchesSession'
  BY <1>1, SMTT(30)
  DEF Reserved, WorkMatchesSession, OwnerStates, StateAtStep, SlotAtStep,
      ClearedStaysClear, StartOwns, Exclusive, StepsMatchCalls, CurrentIsNewest,
      EmptyHasNoOwner, Owns, Idle, Free, At, Begun, InFlight, MayCall, MayAdvance,
      Pipeline, Holds, Slot, EmptySlot, Live, Terminal, lifecycleVars
<1> QED
  BY <1>1, <1>3, <1>4, <1>5, <1>6 DEF RuntimeInv

(* No other pipeline operation is on the session, so none sees Recording   *)
(* end.                                                                    *)
LEMMA FinalizeRecordingKeepsInv ==
  ASSUME Disciplined, RuntimeInv, NEW t \in Threads, NEW s \in Begun, FinalizeRecording(t, s)
  PROVE  RuntimeInv'
<1>1. BasicInv'
  BY BasicStep DEF Call, Continue, RuntimeInv
<1>2. /\ next_id' = next_id
      /\ current'.id = current.id
      /\ IF Submittable(s, "RecordingStopped")
           THEN current'.state = Target["RecordingStopped"]
           ELSE current' = current
  BY SubmitEffect
  DEF FinalizeRecording, RuntimeInv, BasicInv, TypeOK, Events, Target
<1> USE DEF RuntimeInv, BasicInv, TypeOK, LifecycleTypeOK, FinalizeRecording, Enter,
            Submittable, Accepts, Source, Target
<1>3. Exclusive'
  BY <1>1, <1>2, SMTT(30)
  DEF Exclusive, StepsMatchCalls, Idle, Free, At, Begun, CurrentIsNewest, InFlight,
      MayCall, MayAdvance, Pipeline
<1>4. StartOwns' /\ ClearedStaysClear'
  <2>1. \A u \in Threads : op[u].id = s => op[u].call # "start"
    BY DEF MayAdvance, InFlight, Pipeline
  <2>2. /\ \A u \in Threads \ {t} : op'[u] = op[u]
        /\ op'[t].call = "finalize" /\ op'[t].pc = "take"
    OBVIOUS
  <2>3. current.id = s /\ work' = work
    BY DEF Submit
  <2>4. StartOwns'
    <3>1. \A u \in Threads : op'[u].call = "start" => u # t /\ op[u].call = "start"
      BY <2>2
    <3>2. \A u \in Threads : op[u].call = "start" => op[u].id = s
      BY <2>3 DEF StartOwns, Owns
    <3> QED
      BY <2>1, <3>1, <3>2 DEF StartOwns
  <2>5. ClearedStaysClear'
    BY <2>2, <2>3 DEF ClearedStaysClear
  <2> QED
    BY <2>4, <2>5
<1>5. StateAtStep' /\ SlotAtStep'
  <2>1. \A u \in Threads : op[u].id = s => op[u].call \notin Pipeline
    BY DEF MayAdvance, InFlight, Pipeline
  <2>2. \A u \in Threads \ {t} : op'[u] = op[u]
    OBVIOUS
  <2>3. /\ op'[t].pc = "take" /\ op'[t].id = s
        /\ current.id = s /\ current'.state = "FinalizingAudio"
    BY <1>2 DEF Submit
  <2>4. StateAtStep'
    BY <1>1, <1>2, <2>1, <2>2, <2>3, SMTT(30)
    DEF StateAtStep, SlotAtStep, StartOwns, Exclusive, StepsMatchCalls, CurrentIsNewest,
          EmptyHasNoOwner, Owns, Idle, Free, At, Begun, Pipeline, Holds, Slot, EmptySlot,
          Live, Terminal, lifecycleVars, WorkMatchesSession, OwnerStates
  <2>5. SlotAtStep'
    BY <1>1, <2>1, <2>2, <2>3, SMTT(30)
    DEF StateAtStep, SlotAtStep, StartOwns, Exclusive, StepsMatchCalls, CurrentIsNewest,
          EmptyHasNoOwner, Owns, Idle, Free, At, Begun, Pipeline, Holds, Slot, EmptySlot,
          Live, Terminal, lifecycleVars, WorkMatchesSession, OwnerStates
  <2> QED
    BY <2>4, <2>5
<1>6. Reserved' /\ WorkMatchesSession'
  BY <1>1, <1>2, SMTT(90)
  DEF Reserved, WorkMatchesSession, OwnerStates, StateAtStep, SlotAtStep,
      ClearedStaysClear, StartOwns, Exclusive, StepsMatchCalls, CurrentIsNewest,
      EmptyHasNoOwner, Owns, Idle, Free, At, Begun, InFlight, MayCall, MayAdvance,
      Pipeline, Holds, Slot, EmptySlot, Live, Terminal, lifecycleVars
<1> QED
  BY <1>1, <1>3, <1>4, <1>5, <1>6 DEF RuntimeInv

(* The collector moves to the thread only if the slot still holds it.      *)
LEMMA TakeRecordingKeepsInv ==
  ASSUME Disciplined, RuntimeInv, NEW t \in Threads, TakeRecording(t)
  PROVE  RuntimeInv'
<1>1. BasicInv'
  BY BasicStep DEF Call, Continue, RuntimeInv
<1> USE DEF RuntimeInv, BasicInv, TypeOK, LifecycleTypeOK, TakeRecording, Return, Goto
<1>3. Exclusive'
  BY <1>1, SMTT(30)
  DEF Exclusive, StepsMatchCalls, Idle, Free, At, Begun, CurrentIsNewest, InFlight,
      MayCall, MayAdvance, Pipeline
<1>4. StartOwns' /\ ClearedStaysClear'
  BY <1>1, SMTT(90)
  DEF StartOwns, ClearedStaysClear, Exclusive, StepsMatchCalls, CurrentIsNewest,
      EmptyHasNoOwner, Owns, Idle, Free, At, Begun, InFlight, MayCall, MayAdvance,
      Pipeline, Holds, Slot, EmptySlot, Live, Terminal, lifecycleVars,
      WorkMatchesSession, OwnerStates
<1>5. StateAtStep' /\ SlotAtStep'
  BY <1>1, SMTT(30)
  DEF StateAtStep, SlotAtStep, StartOwns, Exclusive, StepsMatchCalls, CurrentIsNewest,
      EmptyHasNoOwner, Owns, Idle, Free, At, Begun, InFlight, MayCall, MayAdvance,
      Pipeline, Holds, Slot, EmptySlot, Live, Terminal, lifecycleVars,
      WorkMatchesSession, OwnerStates
<1>6. Reserved' /\ WorkMatchesSession'
  BY <1>1, SMTT(30)
  DEF Reserved, WorkMatchesSession, OwnerStates, StateAtStep, SlotAtStep,
      ClearedStaysClear, StartOwns, Exclusive, StepsMatchCalls, CurrentIsNewest,
      EmptyHasNoOwner, Owns, Idle, Free, At, Begun, InFlight, MayCall, MayAdvance,
      Pipeline, Holds, Slot, EmptySlot, Live, Terminal, lifecycleVars
<1> QED
  BY <1>1, <1>3, <1>4, <1>5, <1>6 DEF RuntimeInv

(* The collector touches no shared state.                                  *)
LEMMA FinalizeAudioKeepsInv ==
  ASSUME Disciplined, RuntimeInv, NEW t \in Threads, FinalizeAudio(t)
  PROVE  RuntimeInv'
<1>1. BasicInv'
  BY BasicStep DEF Call, Continue, RuntimeInv
<1> USE DEF RuntimeInv, BasicInv, TypeOK, LifecycleTypeOK, FinalizeAudio, Goto, FailAt
<1>3. Exclusive'
  BY <1>1, SMTT(30)
  DEF Exclusive, StepsMatchCalls, Idle, Free, At, Begun, CurrentIsNewest, InFlight,
      MayCall, MayAdvance, Pipeline
<1>4. StartOwns' /\ ClearedStaysClear'
  BY <1>1, SMTT(30)
  DEF StartOwns, ClearedStaysClear, Exclusive, StepsMatchCalls, CurrentIsNewest,
      EmptyHasNoOwner, Owns, Idle, Free, At, Begun, InFlight, MayCall, MayAdvance,
      Pipeline, Holds, Slot, EmptySlot, Live, Terminal, lifecycleVars,
      WorkMatchesSession, OwnerStates
<1>5. StateAtStep'
  BY <1>1, SMTT(30)
  DEF StateAtStep, SlotAtStep, StartOwns, Exclusive, StepsMatchCalls, CurrentIsNewest,
        EmptyHasNoOwner, Owns, Idle, Free, At, Begun, Pipeline, Holds, Slot, EmptySlot,
        Live, Terminal, lifecycleVars, WorkMatchesSession, OwnerStates
<1>6. SlotAtStep'
  BY <1>1, SMTT(30)
  DEF StateAtStep, SlotAtStep, StartOwns, Exclusive, StepsMatchCalls, CurrentIsNewest,
        EmptyHasNoOwner, Owns, Idle, Free, At, Begun, Pipeline, Holds, Slot, EmptySlot,
        Live, Terminal, lifecycleVars, WorkMatchesSession, OwnerStates
<1>7. Reserved' /\ WorkMatchesSession'
  BY <1>1, SMTT(30)
  DEF Reserved, WorkMatchesSession, OwnerStates, StateAtStep, SlotAtStep,
      ClearedStaysClear, StartOwns, Exclusive, StepsMatchCalls, CurrentIsNewest,
      EmptyHasNoOwner, Owns, Idle, Free, At, Begun, InFlight, MayCall, MayAdvance,
      Pipeline, Holds, Slot, EmptySlot, Live, Terminal, lifecycleVars
<1> QED
  BY <1>1, <1>3, <1>4, <1>5, <1>6, <1>7 DEF RuntimeInv

(* The session moves on while the slot keeps the Finalizing reservation.   *)
LEMMA AudioFinalizedKeepsInv ==
  ASSUME Disciplined, RuntimeInv, NEW t \in Threads, AudioFinalized(t)
  PROVE  RuntimeInv'
<1>1. BasicInv'
  BY BasicStep DEF Call, Continue, RuntimeInv
<1>2. /\ next_id' = next_id
      /\ current'.id = current.id
      /\ IF Submittable(op[t].id, "AudioFinalized")
           THEN current'.state = Target["AudioFinalized"]
           ELSE current' = current
  BY SubmitEffect
  DEF AudioFinalized, RuntimeInv, BasicInv, TypeOK, Events, Target
<1> USE DEF RuntimeInv, BasicInv, TypeOK, LifecycleTypeOK, AudioFinalized, Goto,
            Submittable, Accepts, Source, Target
<1>3. Exclusive'
  BY <1>1, <1>2, SMTT(30)
  DEF Exclusive, StepsMatchCalls, Idle, Free, At, Begun, CurrentIsNewest, InFlight,
      MayCall, MayAdvance, Pipeline
<1>4. StartOwns' /\ ClearedStaysClear'
  BY <1>1, <1>2, SMTT(30)
  DEF StartOwns, ClearedStaysClear, Exclusive, StepsMatchCalls, CurrentIsNewest,
      EmptyHasNoOwner, Owns, Idle, Free, At, Begun, InFlight, MayCall, MayAdvance,
      Pipeline, Holds, Slot, EmptySlot, Live, Terminal, lifecycleVars,
      WorkMatchesSession, OwnerStates
<1>5. StateAtStep' /\ SlotAtStep'
  BY <1>1, <1>2, SMTT(30)
  DEF StateAtStep, SlotAtStep, StartOwns, Exclusive, StepsMatchCalls, CurrentIsNewest,
      EmptyHasNoOwner, Owns, Idle, Free, At, Begun, InFlight, MayCall, MayAdvance,
      Pipeline, Holds, Slot, EmptySlot, Live, Terminal, lifecycleVars,
      WorkMatchesSession, OwnerStates
<1>6. Reserved' /\ WorkMatchesSession'
  BY <1>1, <1>2, SMTT(30)
  DEF Reserved, WorkMatchesSession, OwnerStates, StateAtStep, SlotAtStep,
      ClearedStaysClear, StartOwns, Exclusive, StepsMatchCalls, CurrentIsNewest,
      EmptyHasNoOwner, Owns, Idle, Free, At, Begun, InFlight, MayCall, MayAdvance,
      Pipeline, Holds, Slot, EmptySlot, Live, Terminal, lifecycleVars
<1> QED
  BY <1>1, <1>3, <1>4, <1>5, <1>6 DEF RuntimeInv

(* The reservation, if it is still there, belongs to a session in          *)
(* Transcribing.                                                           *)
LEMMA StoreFinalizedKeepsInv ==
  ASSUME Disciplined, RuntimeInv, NEW t \in Threads, StoreFinalized(t)
  PROVE  RuntimeInv'
<1>1. BasicInv'
  BY BasicStep DEF Call, Continue, RuntimeInv
<1> USE DEF RuntimeInv, BasicInv, TypeOK, LifecycleTypeOK, StoreFinalized, Return
<1>3. Exclusive'
  BY <1>1, SMTT(30)
  DEF Exclusive, StepsMatchCalls, Idle, Free, At, Begun, CurrentIsNewest, InFlight,
      MayCall, MayAdvance, Pipeline
<1>4. StartOwns' /\ ClearedStaysClear'
  BY <1>1, SMTT(30)
  DEF StartOwns, ClearedStaysClear, Exclusive, StepsMatchCalls, CurrentIsNewest,
      EmptyHasNoOwner, Owns, Idle, Free, At, Begun, InFlight, MayCall, MayAdvance,
      Pipeline, Holds, Slot, EmptySlot, Live, Terminal, lifecycleVars,
      WorkMatchesSession, OwnerStates
<1>5. StateAtStep' /\ SlotAtStep'
  BY <1>1, SMTT(30)
  DEF StateAtStep, SlotAtStep, StartOwns, Exclusive, StepsMatchCalls, CurrentIsNewest,
      EmptyHasNoOwner, Owns, Idle, Free, At, Begun, InFlight, MayCall, MayAdvance,
      Pipeline, Holds, Slot, EmptySlot, Live, Terminal, lifecycleVars,
      WorkMatchesSession, OwnerStates
<1>6. Reserved' /\ WorkMatchesSession'
  BY <1>1, SMTT(30)
  DEF Reserved, WorkMatchesSession, OwnerStates, StateAtStep, SlotAtStep,
      ClearedStaysClear, StartOwns, Exclusive, StepsMatchCalls, CurrentIsNewest,
      EmptyHasNoOwner, Owns, Idle, Free, At, Begun, InFlight, MayCall, MayAdvance,
      Pipeline, Holds, Slot, EmptySlot, Live, Terminal, lifecycleVars
<1> QED
  BY <1>1, <1>3, <1>4, <1>5, <1>6 DEF RuntimeInv

(* Entering a transcription changes no shared state.                       *)
LEMMA TranscribeKeepsInv ==
  ASSUME Disciplined, RuntimeInv, NEW t \in Threads, NEW s \in Begun, Transcribe(t, s)
  PROVE  RuntimeInv'
<1>1. BasicInv'
  BY BasicStep DEF Call, Continue, RuntimeInv
<1> USE DEF RuntimeInv, BasicInv, TypeOK, LifecycleTypeOK, Transcribe, Enter
<1>3. Exclusive'
  BY <1>1, SMTT(30)
  DEF Exclusive, StepsMatchCalls, Idle, Free, At, Begun, CurrentIsNewest, InFlight,
      MayCall, MayAdvance, Pipeline
<1>4. StartOwns' /\ ClearedStaysClear'
  BY <1>1, SMTT(30)
  DEF StartOwns, ClearedStaysClear, Exclusive, StepsMatchCalls, CurrentIsNewest,
      EmptyHasNoOwner, Owns, Idle, Free, At, Begun, InFlight, MayCall, MayAdvance,
      Pipeline, Holds, Slot, EmptySlot, Live, Terminal, lifecycleVars,
      WorkMatchesSession, OwnerStates
<1>5. StateAtStep' /\ SlotAtStep'
  BY <1>1, SMTT(30)
  DEF StateAtStep, SlotAtStep, StartOwns, Exclusive, StepsMatchCalls, CurrentIsNewest,
      EmptyHasNoOwner, Owns, Idle, Free, At, Begun, InFlight, MayCall, MayAdvance,
      Pipeline, Holds, Slot, EmptySlot, Live, Terminal, lifecycleVars,
      WorkMatchesSession, OwnerStates
<1>6. Reserved' /\ WorkMatchesSession'
  BY <1>1, SMTT(30)
  DEF Reserved, WorkMatchesSession, OwnerStates, StateAtStep, SlotAtStep,
      ClearedStaysClear, StartOwns, Exclusive, StepsMatchCalls, CurrentIsNewest,
      EmptyHasNoOwner, Owns, Idle, Free, At, Begun, InFlight, MayCall, MayAdvance,
      Pipeline, Holds, Slot, EmptySlot, Live, Terminal, lifecycleVars
<1> QED
  BY <1>1, <1>3, <1>4, <1>5, <1>6 DEF RuntimeInv

(* The thread that claims the audio is the witness of its reservation.     *)
LEMMA TakeFinalizedKeepsInv ==
  ASSUME Disciplined, RuntimeInv, NEW t \in Threads, TakeFinalized(t)
  PROVE  RuntimeInv'
<1>1. BasicInv'
  BY BasicStep DEF Call, Continue, RuntimeInv
<1> USE DEF RuntimeInv, BasicInv, TypeOK, LifecycleTypeOK, TakeFinalized, Return, Goto
<1>3. Exclusive'
  BY <1>1, SMTT(30)
  DEF Exclusive, StepsMatchCalls, Idle, Free, At, Begun, CurrentIsNewest, InFlight,
      MayCall, MayAdvance, Pipeline
<1>4. StartOwns' /\ ClearedStaysClear'
  BY <1>1, SMTT(90)
  DEF StartOwns, ClearedStaysClear, Exclusive, StepsMatchCalls, CurrentIsNewest,
      EmptyHasNoOwner, Owns, Idle, Free, At, Begun, InFlight, MayCall, MayAdvance,
      Pipeline, Holds, Slot, EmptySlot, Live, Terminal, lifecycleVars,
      WorkMatchesSession, OwnerStates
<1>5. StateAtStep' /\ SlotAtStep'
  BY <1>1, SMTT(30)
  DEF StateAtStep, SlotAtStep, StartOwns, Exclusive, StepsMatchCalls, CurrentIsNewest,
      EmptyHasNoOwner, Owns, Idle, Free, At, Begun, InFlight, MayCall, MayAdvance,
      Pipeline, Holds, Slot, EmptySlot, Live, Terminal, lifecycleVars,
      WorkMatchesSession, OwnerStates
<1>6. Reserved'
  <2>1. CASE Holds("Finalized", op[t].id)
    <3>1. /\ op'[t].call = "transcribe" /\ op'[t].pc = "recognize"
          /\ work'.slot = "Transcribing" /\ work'.id = op'[t].id
      BY <2>1 DEF StepsMatchCalls, At, Holds, Slot
    <3> QED
      BY <3>1 DEF Reserved
  <2>2. CASE ~Holds("Finalized", op[t].id)
    BY <2>2, SMTT(30) DEF Reserved, StepsMatchCalls, At
  <2> QED
    BY <2>1, <2>2
<1>7. WorkMatchesSession'
  BY <1>1, SMTT(30)
  DEF WorkMatchesSession, OwnerStates, StateAtStep, StepsMatchCalls, CurrentIsNewest, Owns,
      At, Holds, Slot, EmptySlot, Live, Terminal, lifecycleVars
<1> QED
  BY <1>1, <1>3, <1>4, <1>5, <1>6, <1>7 DEF RuntimeInv

(* Detection and recognition touch no shared state.                        *)
LEMMA RecognizeKeepsInv ==
  ASSUME Disciplined, RuntimeInv, NEW t \in Threads, Recognize(t)
  PROVE  RuntimeInv'
<1>1. BasicInv'
  BY BasicStep DEF Call, Continue, RuntimeInv
<1> USE DEF RuntimeInv, BasicInv, TypeOK, LifecycleTypeOK, Recognize, Goto
<1>3. Exclusive'
  BY <1>1, SMTT(30)
  DEF Exclusive, StepsMatchCalls, Idle, Free, At, Begun, CurrentIsNewest, InFlight,
      MayCall, MayAdvance, Pipeline
<1>4. StartOwns' /\ ClearedStaysClear'
  BY <1>1, SMTT(30)
  DEF StartOwns, ClearedStaysClear, Exclusive, StepsMatchCalls, CurrentIsNewest,
      EmptyHasNoOwner, Owns, Idle, Free, At, Begun, InFlight, MayCall, MayAdvance,
      Pipeline, Holds, Slot, EmptySlot, Live, Terminal, lifecycleVars,
      WorkMatchesSession, OwnerStates
<1>5. StateAtStep' /\ SlotAtStep'
  BY <1>1, SMTT(30)
  DEF StateAtStep, SlotAtStep, StartOwns, Exclusive, StepsMatchCalls, CurrentIsNewest,
      EmptyHasNoOwner, Owns, Idle, Free, At, Begun, InFlight, MayCall, MayAdvance,
      Pipeline, Holds, Slot, EmptySlot, Live, Terminal, lifecycleVars,
      WorkMatchesSession, OwnerStates
<1>6. Reserved' /\ WorkMatchesSession'
  BY <1>1, SMTT(30)
  DEF Reserved, WorkMatchesSession, OwnerStates, StateAtStep, SlotAtStep,
      ClearedStaysClear, StartOwns, Exclusive, StepsMatchCalls, CurrentIsNewest,
      EmptyHasNoOwner, Owns, Idle, Free, At, Begun, InFlight, MayCall, MayAdvance,
      Pipeline, Holds, Slot, EmptySlot, Live, Terminal, lifecycleVars
<1> QED
  BY <1>1, <1>3, <1>4, <1>5, <1>6 DEF RuntimeInv

(* The audio goes back only under the reservation, in a session still in   *)
(* Transcribing.                                                           *)
LEMMA RestoreFinalizedKeepsInv ==
  ASSUME Disciplined, RuntimeInv, NEW t \in Threads, RestoreFinalized(t)
  PROVE  RuntimeInv'
<1>1. BasicInv'
  BY BasicStep DEF Call, Continue, RuntimeInv
<1> USE DEF RuntimeInv, BasicInv, TypeOK, LifecycleTypeOK, RestoreFinalized, Return
<1>3. Exclusive'
  BY <1>1, SMTT(30)
  DEF Exclusive, StepsMatchCalls, Idle, Free, At, Begun, CurrentIsNewest, InFlight,
      MayCall, MayAdvance, Pipeline
<1>4. StartOwns' /\ ClearedStaysClear'
  BY <1>1, SMTT(30)
  DEF StartOwns, ClearedStaysClear, Exclusive, StepsMatchCalls, CurrentIsNewest,
      EmptyHasNoOwner, Owns, Idle, Free, At, Begun, InFlight, MayCall, MayAdvance,
      Pipeline, Holds, Slot, EmptySlot, Live, Terminal, lifecycleVars,
      WorkMatchesSession, OwnerStates
<1>5. StateAtStep' /\ SlotAtStep'
  BY <1>1, SMTT(30)
  DEF StateAtStep, SlotAtStep, StartOwns, Exclusive, StepsMatchCalls, CurrentIsNewest,
      EmptyHasNoOwner, Owns, Idle, Free, At, Begun, InFlight, MayCall, MayAdvance,
      Pipeline, Holds, Slot, EmptySlot, Live, Terminal, lifecycleVars,
      WorkMatchesSession, OwnerStates
<1>6. Reserved' /\ WorkMatchesSession'
  BY <1>1, SMTT(30)
  DEF Reserved, WorkMatchesSession, OwnerStates, StateAtStep, SlotAtStep,
      ClearedStaysClear, StartOwns, Exclusive, StepsMatchCalls, CurrentIsNewest,
      EmptyHasNoOwner, Owns, Idle, Free, At, Begun, InFlight, MayCall, MayAdvance,
      Pipeline, Holds, Slot, EmptySlot, Live, Terminal, lifecycleVars
<1> QED
  BY <1>1, <1>3, <1>4, <1>5, <1>6 DEF RuntimeInv

(* Silence gives the reservation up before the session is cancelled.       *)
LEMMA ReleaseSilenceKeepsInv ==
  ASSUME Disciplined, RuntimeInv, NEW t \in Threads, ReleaseSilence(t)
  PROVE  RuntimeInv'
<1>1. BasicInv'
  BY BasicStep DEF Call, Continue, RuntimeInv
<1> USE DEF RuntimeInv, BasicInv, TypeOK, LifecycleTypeOK, ReleaseSilence, Return, Goto
<1>3. Exclusive'
  BY <1>1, SMTT(30)
  DEF Exclusive, StepsMatchCalls, Idle, Free, At, Begun, CurrentIsNewest, InFlight,
      MayCall, MayAdvance, Pipeline
<1>4. StartOwns' /\ ClearedStaysClear'
  BY <1>1, SMTT(30)
  DEF StartOwns, ClearedStaysClear, Exclusive, StepsMatchCalls, CurrentIsNewest,
      EmptyHasNoOwner, Owns, Idle, Free, At, Begun, InFlight, MayCall, MayAdvance,
      Pipeline, Holds, Slot, EmptySlot, Live, Terminal, lifecycleVars,
      WorkMatchesSession, OwnerStates
<1>5. StateAtStep' /\ SlotAtStep'
  BY <1>1, SMTT(30)
  DEF StateAtStep, SlotAtStep, StartOwns, Exclusive, StepsMatchCalls, CurrentIsNewest,
      EmptyHasNoOwner, Owns, Idle, Free, At, Begun, InFlight, MayCall, MayAdvance,
      Pipeline, Holds, Slot, EmptySlot, Live, Terminal, lifecycleVars,
      WorkMatchesSession, OwnerStates
<1>6. Reserved' /\ WorkMatchesSession'
  BY <1>1, SMTT(30)
  DEF Reserved, WorkMatchesSession, OwnerStates, StateAtStep, SlotAtStep,
      ClearedStaysClear, StartOwns, Exclusive, StepsMatchCalls, CurrentIsNewest,
      EmptyHasNoOwner, Owns, Idle, Free, At, Begun, InFlight, MayCall, MayAdvance,
      Pipeline, Holds, Slot, EmptySlot, Live, Terminal, lifecycleVars
<1> QED
  BY <1>1, <1>3, <1>4, <1>5, <1>6 DEF RuntimeInv

(* The session of silent audio owns nothing any more.                      *)
LEMMA CancelSilenceKeepsInv ==
  ASSUME Disciplined, RuntimeInv, NEW t \in Threads, CancelSilence(t)
  PROVE  RuntimeInv'
<1>1. BasicInv'
  BY BasicStep DEF Call, Continue, RuntimeInv
<1>2. /\ next_id' = next_id
      /\ current'.id = current.id
      /\ IF Submittable(op[t].id, "Cancel")
           THEN current'.state = Target["Cancel"]
           ELSE current' = current
  BY SubmitEffect
  DEF CancelSilence, RuntimeInv, BasicInv, TypeOK, Events, Target
<1> USE DEF RuntimeInv, BasicInv, TypeOK, LifecycleTypeOK, CancelSilence, Return,
            Submittable, Accepts, Source, Target
<1>3. Exclusive'
  BY <1>1, <1>2, SMTT(30)
  DEF Exclusive, StepsMatchCalls, Idle, Free, At, Begun, CurrentIsNewest, InFlight,
      MayCall, MayAdvance, Pipeline
<1>4. StartOwns' /\ ClearedStaysClear'
  BY <1>1, <1>2, SMTT(30)
  DEF StartOwns, ClearedStaysClear, Exclusive, StepsMatchCalls, CurrentIsNewest,
      EmptyHasNoOwner, Owns, Idle, Free, At, Begun, InFlight, MayCall, MayAdvance,
      Pipeline, Holds, Slot, EmptySlot, Live, Terminal, lifecycleVars,
      WorkMatchesSession, OwnerStates
<1>5. StateAtStep' /\ SlotAtStep'
  BY <1>1, <1>2, SMTT(30)
  DEF StateAtStep, SlotAtStep, StartOwns, Exclusive, StepsMatchCalls, CurrentIsNewest,
      EmptyHasNoOwner, Owns, Idle, Free, At, Begun, InFlight, MayCall, MayAdvance,
      Pipeline, Holds, Slot, EmptySlot, Live, Terminal, lifecycleVars,
      WorkMatchesSession, OwnerStates
<1>6. Reserved' /\ WorkMatchesSession'
  BY <1>1, <1>2, SMTT(30)
  DEF Reserved, WorkMatchesSession, OwnerStates, StateAtStep, SlotAtStep,
      ClearedStaysClear, StartOwns, Exclusive, StepsMatchCalls, CurrentIsNewest,
      EmptyHasNoOwner, Owns, Idle, Free, At, Begun, InFlight, MayCall, MayAdvance,
      Pipeline, Holds, Slot, EmptySlot, Live, Terminal, lifecycleVars
<1> QED
  BY <1>1, <1>3, <1>4, <1>5, <1>6 DEF RuntimeInv

(* The reservation outlives the event: it is cleared in the next step.     *)
LEMMA TranscriptReadyKeepsInv ==
  ASSUME Disciplined, RuntimeInv, NEW t \in Threads, TranscriptReady(t)
  PROVE  RuntimeInv'
<1>1. BasicInv'
  BY BasicStep DEF Call, Continue, RuntimeInv
<1>2. \E event \in {"TranscriptReady", "TransformRequired"} :
        /\ next_id' = next_id
        /\ current'.id = current.id
        /\ IF Submittable(op[t].id, event)
             THEN current'.state = Target[event] /\ op' = [op EXCEPT ![t].pc = "unreserve"]
             ELSE current' = current /\ op' = [op EXCEPT ![t].pc = "discard"]
  BY SubmitEffect
  DEF TranscriptReady, RuntimeInv, BasicInv, TypeOK, Events, Target, Goto
<1> USE DEF RuntimeInv, BasicInv, TypeOK, LifecycleTypeOK, TranscriptReady, Goto,
            Submittable, Accepts, Source, Target
<1>3. Exclusive'
  BY <1>1, <1>2, SMTT(30)
  DEF Exclusive, StepsMatchCalls, Idle, Free, At, Begun, CurrentIsNewest, InFlight,
      MayCall, MayAdvance, Pipeline
<1>4. StartOwns' /\ ClearedStaysClear'
  BY <1>1, <1>2, SMTT(30)
  DEF StartOwns, ClearedStaysClear, Exclusive, StepsMatchCalls, CurrentIsNewest,
      EmptyHasNoOwner, Owns, Idle, Free, At, Begun, InFlight, MayCall, MayAdvance,
      Pipeline, Holds, Slot, EmptySlot, Live, Terminal, lifecycleVars,
      WorkMatchesSession, OwnerStates
<1>5. StateAtStep' /\ SlotAtStep'
  BY <1>1, <1>2, SMTT(30)
  DEF StateAtStep, SlotAtStep, StartOwns, Exclusive, StepsMatchCalls, CurrentIsNewest,
      EmptyHasNoOwner, Owns, Idle, Free, At, Begun, InFlight, MayCall, MayAdvance,
      Pipeline, Holds, Slot, EmptySlot, Live, Terminal, lifecycleVars,
      WorkMatchesSession, OwnerStates
<1>6. Reserved' /\ WorkMatchesSession'
  BY <1>1, <1>2, SMTT(90)
  DEF Reserved, WorkMatchesSession, OwnerStates, StateAtStep, SlotAtStep,
      ClearedStaysClear, StartOwns, Exclusive, StepsMatchCalls, CurrentIsNewest,
      EmptyHasNoOwner, Owns, Idle, Free, At, Begun, InFlight, MayCall, MayAdvance,
      Pipeline, Holds, Slot, EmptySlot, Live, Terminal, lifecycleVars
<1> QED
  BY <1>1, <1>3, <1>4, <1>5, <1>6 DEF RuntimeInv

(* The reservation is dropped while the session transforms or inserts.     *)
LEMMA ClearReservationKeepsInv ==
  ASSUME Disciplined, RuntimeInv, NEW t \in Threads, ClearReservation(t)
  PROVE  RuntimeInv'
<1>1. BasicInv'
  BY BasicStep DEF Call, Continue, RuntimeInv
<1> USE DEF RuntimeInv, BasicInv, TypeOK, LifecycleTypeOK, ClearReservation, Return
<1>3. Exclusive'
  BY <1>1, SMTT(30)
  DEF Exclusive, StepsMatchCalls, Idle, Free, At, Begun, CurrentIsNewest, InFlight,
      MayCall, MayAdvance, Pipeline
<1>4. StartOwns' /\ ClearedStaysClear'
  BY <1>1, SMTT(30)
  DEF StartOwns, ClearedStaysClear, Exclusive, StepsMatchCalls, CurrentIsNewest,
      EmptyHasNoOwner, Owns, Idle, Free, At, Begun, InFlight, MayCall, MayAdvance,
      Pipeline, Holds, Slot, EmptySlot, Live, Terminal, lifecycleVars,
      WorkMatchesSession, OwnerStates
<1>5. StateAtStep' /\ SlotAtStep'
  BY <1>1, SMTT(30)
  DEF StateAtStep, SlotAtStep, StartOwns, Exclusive, StepsMatchCalls, CurrentIsNewest,
      EmptyHasNoOwner, Owns, Idle, Free, At, Begun, InFlight, MayCall, MayAdvance,
      Pipeline, Holds, Slot, EmptySlot, Live, Terminal, lifecycleVars,
      WorkMatchesSession, OwnerStates
<1>6. Reserved' /\ WorkMatchesSession'
  BY <1>1, SMTT(30)
  DEF Reserved, WorkMatchesSession, OwnerStates, StateAtStep, SlotAtStep,
      ClearedStaysClear, StartOwns, Exclusive, StepsMatchCalls, CurrentIsNewest,
      EmptyHasNoOwner, Owns, Idle, Free, At, Begun, InFlight, MayCall, MayAdvance,
      Pipeline, Holds, Slot, EmptySlot, Live, Terminal, lifecycleVars
<1> QED
  BY <1>1, <1>3, <1>4, <1>5, <1>6 DEF RuntimeInv

(* No pipeline operation is in flight, so by Reserved no reservation is    *)
(* left behind.                                                            *)
LEMMA FinishTransformKeepsInv ==
  ASSUME Disciplined, RuntimeInv, NEW t \in Threads, NEW s \in Begun, FinishTransform(t, s)
  PROVE  RuntimeInv'
<1>1. BasicInv'
  BY BasicStep DEF Call, Continue, RuntimeInv
<1>2. /\ next_id' = next_id
      /\ current'.id = current.id
      /\ IF Submittable(s, "TransformFinished")
           THEN current'.state = Target["TransformFinished"]
           ELSE current' = current
  BY SubmitEffect
  DEF FinishTransform, RuntimeInv, BasicInv, TypeOK, Events, Target
<1> USE DEF RuntimeInv, BasicInv, TypeOK, LifecycleTypeOK, FinishTransform, Submittable,
            Accepts, Source, Target
<1>3. Exclusive'
  BY <1>1, <1>2, SMTT(30)
  DEF Exclusive, StepsMatchCalls, Idle, Free, At, Begun, CurrentIsNewest, InFlight,
      MayCall, MayAdvance, Pipeline
<1>4. StartOwns' /\ ClearedStaysClear'
  BY <1>1, <1>2, SMTT(30)
  DEF StartOwns, ClearedStaysClear, Exclusive, StepsMatchCalls, CurrentIsNewest,
      EmptyHasNoOwner, Owns, Idle, Free, At, Begun, InFlight, MayCall, MayAdvance,
      Pipeline, Holds, Slot, EmptySlot, Live, Terminal, lifecycleVars,
      WorkMatchesSession, OwnerStates
<1>5. StateAtStep' /\ SlotAtStep'
  BY <1>1, <1>2, SMTT(30)
  DEF StateAtStep, SlotAtStep, StartOwns, Exclusive, StepsMatchCalls, CurrentIsNewest,
      EmptyHasNoOwner, Owns, Idle, Free, At, Begun, InFlight, MayCall, MayAdvance,
      Pipeline, Holds, Slot, EmptySlot, Live, Terminal, lifecycleVars,
      WorkMatchesSession, OwnerStates
<1>6. Reserved' /\ WorkMatchesSession'
  BY <1>1, <1>2, SMTT(30)
  DEF Reserved, WorkMatchesSession, OwnerStates, StateAtStep, SlotAtStep,
      ClearedStaysClear, StartOwns, Exclusive, StepsMatchCalls, CurrentIsNewest,
      EmptyHasNoOwner, Owns, Idle, Free, At, Begun, InFlight, MayCall, MayAdvance,
      Pipeline, Holds, Slot, EmptySlot, Live, Terminal, lifecycleVars
<1> QED
  BY <1>1, <1>3, <1>4, <1>5, <1>6 DEF RuntimeInv

(* No pipeline operation is in flight, so by Reserved the completed        *)
(* session owns nothing.                                                   *)
LEMMA InsertionDeliveredKeepsInv ==
  ASSUME Disciplined, RuntimeInv, NEW t \in Threads, NEW s \in Begun, InsertionDelivered(t, s)
  PROVE  RuntimeInv'
<1>1. BasicInv'
  BY BasicStep DEF Call, Continue, RuntimeInv
<1>2. /\ next_id' = next_id
      /\ current'.id = current.id
      /\ IF Submittable(s, "InsertionDelivered")
           THEN current'.state = Target["InsertionDelivered"]
           ELSE current' = current
  BY SubmitEffect
  DEF InsertionDelivered, RuntimeInv, BasicInv, TypeOK, Events, Target
<1> USE DEF RuntimeInv, BasicInv, TypeOK, LifecycleTypeOK, InsertionDelivered,
            Submittable, Accepts, Source, Target
<1>3. Exclusive'
  BY <1>1, <1>2, SMTT(30)
  DEF Exclusive, StepsMatchCalls, Idle, Free, At, Begun, CurrentIsNewest, InFlight,
      MayCall, MayAdvance, Pipeline
<1>4. StartOwns' /\ ClearedStaysClear'
  BY <1>1, <1>2, SMTT(30)
  DEF StartOwns, ClearedStaysClear, Exclusive, StepsMatchCalls, CurrentIsNewest,
      EmptyHasNoOwner, Owns, Idle, Free, At, Begun, InFlight, MayCall, MayAdvance,
      Pipeline, Holds, Slot, EmptySlot, Live, Terminal, lifecycleVars,
      WorkMatchesSession, OwnerStates
<1>5. StateAtStep' /\ SlotAtStep'
  BY <1>1, <1>2, SMTT(30)
  DEF StateAtStep, SlotAtStep, StartOwns, Exclusive, StepsMatchCalls, CurrentIsNewest,
      EmptyHasNoOwner, Owns, Idle, Free, At, Begun, InFlight, MayCall, MayAdvance,
      Pipeline, Holds, Slot, EmptySlot, Live, Terminal, lifecycleVars,
      WorkMatchesSession, OwnerStates
<1>6. Reserved' /\ WorkMatchesSession'
  BY <1>1, <1>2, SMTT(30)
  DEF Reserved, WorkMatchesSession, OwnerStates, StateAtStep, SlotAtStep,
      ClearedStaysClear, StartOwns, Exclusive, StepsMatchCalls, CurrentIsNewest,
      EmptyHasNoOwner, Owns, Idle, Free, At, Begun, InFlight, MayCall, MayAdvance,
      Pipeline, Holds, Slot, EmptySlot, Live, Terminal, lifecycleVars
<1> QED
  BY <1>1, <1>3, <1>4, <1>5, <1>6 DEF RuntimeInv

(* The slot is cleared; no start is in flight on the session.              *)
LEMMA FailKeepsInv ==
  ASSUME Disciplined, RuntimeInv, NEW t \in Threads, NEW s \in Begun, NEW stage \in CallerStages,
         Fail(t, s, stage)
  PROVE  RuntimeInv'
<1>1. BasicInv'
  BY BasicStep DEF Call, Continue, RuntimeInv
<1> USE DEF RuntimeInv, BasicInv, TypeOK, LifecycleTypeOK, Fail, Enter, Cleared
<1>3. Exclusive'
  BY <1>1, SMTT(30)
  DEF Exclusive, StepsMatchCalls, Idle, Free, At, Begun, CurrentIsNewest, InFlight,
      MayCall, MayAdvance, Pipeline
<1>4. StartOwns' /\ ClearedStaysClear'
  BY <1>1, SMTT(30)
  DEF StartOwns, ClearedStaysClear, Exclusive, StepsMatchCalls, CurrentIsNewest,
      EmptyHasNoOwner, Owns, Idle, Free, At, Begun, InFlight, MayCall, MayAdvance,
      Pipeline, Holds, Slot, EmptySlot, Live, Terminal, lifecycleVars,
      WorkMatchesSession, OwnerStates
<1>5. StateAtStep' /\ SlotAtStep'
  BY <1>1, SMTT(30)
  DEF StateAtStep, SlotAtStep, StartOwns, Exclusive, StepsMatchCalls, CurrentIsNewest,
      EmptyHasNoOwner, Owns, Idle, Free, At, Begun, InFlight, MayCall, MayAdvance,
      Pipeline, Holds, Slot, EmptySlot, Live, Terminal, lifecycleVars,
      WorkMatchesSession, OwnerStates
<1>6. Reserved' /\ WorkMatchesSession'
  BY <1>1, SMTT(30)
  DEF Reserved, WorkMatchesSession, OwnerStates, StateAtStep, SlotAtStep,
      ClearedStaysClear, StartOwns, Exclusive, StepsMatchCalls, CurrentIsNewest,
      EmptyHasNoOwner, Owns, Idle, Free, At, Begun, InFlight, MayCall, MayAdvance,
      Pipeline, Holds, Slot, EmptySlot, Live, Terminal, lifecycleVars
<1> QED
  BY <1>1, <1>3, <1>4, <1>5, <1>6 DEF RuntimeInv

(* By ClearedStaysClear the session that fails owns nothing.               *)
LEMMA FailSessionKeepsInv ==
  ASSUME Disciplined, RuntimeInv, NEW t \in Threads, FailSession(t)
  PROVE  RuntimeInv'
<1>1. BasicInv'
  BY BasicStep DEF Call, Continue, RuntimeInv
<1>2. /\ next_id' = next_id
      /\ current'.id = current.id
      /\ IF Submittable(op[t].id, "Fail")
           THEN current'.state = Target["Fail"]
           ELSE current' = current
  BY SubmitEffect
  DEF FailSession, RuntimeInv, BasicInv, TypeOK, Events, Target
<1> USE DEF RuntimeInv, BasicInv, TypeOK, LifecycleTypeOK, FailSession, Return,
            Submittable, Accepts, Source, Target
<1>3. Exclusive'
  BY <1>1, <1>2, SMTT(30)
  DEF Exclusive, StepsMatchCalls, Idle, Free, At, Begun, CurrentIsNewest, InFlight,
      MayCall, MayAdvance, Pipeline
<1>4. StartOwns' /\ ClearedStaysClear'
  BY <1>1, <1>2, SMTT(30)
  DEF StartOwns, ClearedStaysClear, Exclusive, StepsMatchCalls, CurrentIsNewest,
      EmptyHasNoOwner, Owns, Idle, Free, At, Begun, InFlight, MayCall, MayAdvance,
      Pipeline, Holds, Slot, EmptySlot, Live, Terminal, lifecycleVars,
      WorkMatchesSession, OwnerStates
<1>5. StateAtStep' /\ SlotAtStep'
  BY <1>1, <1>2, SMTT(30)
  DEF StateAtStep, SlotAtStep, StartOwns, Exclusive, StepsMatchCalls, CurrentIsNewest,
      EmptyHasNoOwner, Owns, Idle, Free, At, Begun, InFlight, MayCall, MayAdvance,
      Pipeline, Holds, Slot, EmptySlot, Live, Terminal, lifecycleVars,
      WorkMatchesSession, OwnerStates
<1>6. Reserved' /\ WorkMatchesSession'
  BY <1>1, <1>2, SMTT(30)
  DEF Reserved, WorkMatchesSession, OwnerStates, StateAtStep, SlotAtStep,
      ClearedStaysClear, StartOwns, Exclusive, StepsMatchCalls, CurrentIsNewest,
      EmptyHasNoOwner, Owns, Idle, Free, At, Begun, InFlight, MayCall, MayAdvance,
      Pipeline, Holds, Slot, EmptySlot, Live, Terminal, lifecycleVars
<1> QED
  BY <1>1, <1>3, <1>4, <1>5, <1>6 DEF RuntimeInv

(* The slot is cleared; no start is in flight on the session.              *)
LEMMA CancelKeepsInv ==
  ASSUME Disciplined, RuntimeInv, NEW t \in Threads, NEW s \in Begun, Cancel(t, s)
  PROVE  RuntimeInv'
<1>1. BasicInv'
  BY BasicStep DEF Call, Continue, RuntimeInv
<1> USE DEF RuntimeInv, BasicInv, TypeOK, LifecycleTypeOK, Cancel, Enter, Cleared
<1>3. Exclusive'
  BY <1>1, SMTT(30)
  DEF Exclusive, StepsMatchCalls, Idle, Free, At, Begun, CurrentIsNewest, InFlight,
      MayCall, MayAdvance, Pipeline
<1>4. StartOwns' /\ ClearedStaysClear'
  BY <1>1, SMTT(30)
  DEF StartOwns, ClearedStaysClear, Exclusive, StepsMatchCalls, CurrentIsNewest,
      EmptyHasNoOwner, Owns, Idle, Free, At, Begun, InFlight, MayCall, MayAdvance,
      Pipeline, Holds, Slot, EmptySlot, Live, Terminal, lifecycleVars,
      WorkMatchesSession, OwnerStates
<1>5. StateAtStep' /\ SlotAtStep'
  BY <1>1, SMTT(30)
  DEF StateAtStep, SlotAtStep, StartOwns, Exclusive, StepsMatchCalls, CurrentIsNewest,
      EmptyHasNoOwner, Owns, Idle, Free, At, Begun, InFlight, MayCall, MayAdvance,
      Pipeline, Holds, Slot, EmptySlot, Live, Terminal, lifecycleVars,
      WorkMatchesSession, OwnerStates
<1>6. Reserved' /\ WorkMatchesSession'
  BY <1>1, SMTT(30)
  DEF Reserved, WorkMatchesSession, OwnerStates, StateAtStep, SlotAtStep,
      ClearedStaysClear, StartOwns, Exclusive, StepsMatchCalls, CurrentIsNewest,
      EmptyHasNoOwner, Owns, Idle, Free, At, Begun, InFlight, MayCall, MayAdvance,
      Pipeline, Holds, Slot, EmptySlot, Live, Terminal, lifecycleVars
<1> QED
  BY <1>1, <1>3, <1>4, <1>5, <1>6 DEF RuntimeInv

(* By ClearedStaysClear the session that is cancelled owns nothing.        *)
LEMMA CancelSessionKeepsInv ==
  ASSUME Disciplined, RuntimeInv, NEW t \in Threads, CancelSession(t)
  PROVE  RuntimeInv'
<1>1. BasicInv'
  BY BasicStep DEF Call, Continue, RuntimeInv
<1>2. /\ next_id' = next_id
      /\ current'.id = current.id
      /\ IF Submittable(op[t].id, "Cancel")
           THEN current'.state = Target["Cancel"]
           ELSE current' = current
  BY SubmitEffect
  DEF CancelSession, RuntimeInv, BasicInv, TypeOK, Events, Target
<1> USE DEF RuntimeInv, BasicInv, TypeOK, LifecycleTypeOK, CancelSession, Return,
            Submittable, Accepts, Source, Target
<1>3. Exclusive'
  BY <1>1, <1>2, SMTT(30)
  DEF Exclusive, StepsMatchCalls, Idle, Free, At, Begun, CurrentIsNewest, InFlight,
      MayCall, MayAdvance, Pipeline
<1>4. StartOwns' /\ ClearedStaysClear'
  BY <1>1, <1>2, SMTT(30)
  DEF StartOwns, ClearedStaysClear, Exclusive, StepsMatchCalls, CurrentIsNewest,
      EmptyHasNoOwner, Owns, Idle, Free, At, Begun, InFlight, MayCall, MayAdvance,
      Pipeline, Holds, Slot, EmptySlot, Live, Terminal, lifecycleVars,
      WorkMatchesSession, OwnerStates
<1>5. StateAtStep' /\ SlotAtStep'
  BY <1>1, <1>2, SMTT(30)
  DEF StateAtStep, SlotAtStep, StartOwns, Exclusive, StepsMatchCalls, CurrentIsNewest,
      EmptyHasNoOwner, Owns, Idle, Free, At, Begun, InFlight, MayCall, MayAdvance,
      Pipeline, Holds, Slot, EmptySlot, Live, Terminal, lifecycleVars,
      WorkMatchesSession, OwnerStates
<1>6. Reserved' /\ WorkMatchesSession'
  BY <1>1, <1>2, SMTT(30)
  DEF Reserved, WorkMatchesSession, OwnerStates, StateAtStep, SlotAtStep,
      ClearedStaysClear, StartOwns, Exclusive, StepsMatchCalls, CurrentIsNewest,
      EmptyHasNoOwner, Owns, Idle, Free, At, Begun, InFlight, MayCall, MayAdvance,
      Pipeline, Holds, Slot, EmptySlot, Live, Terminal, lifecycleVars
<1> QED
  BY <1>1, <1>3, <1>4, <1>5, <1>6 DEF RuntimeInv

(* The slot is cleared before the failure is submitted.                    *)
LEMMA DiscardAndFailKeepsInv ==
  ASSUME Disciplined, RuntimeInv, NEW t \in Threads, DiscardAndFail(t)
  PROVE  RuntimeInv'
<1>1. BasicInv'
  BY BasicStep DEF Call, Continue, RuntimeInv
<1> USE DEF RuntimeInv, BasicInv, TypeOK, LifecycleTypeOK, DiscardAndFail, Goto, Cleared
<1>3. Exclusive'
  BY <1>1, SMTT(30)
  DEF Exclusive, StepsMatchCalls, Idle, Free, At, Begun, CurrentIsNewest, InFlight,
      MayCall, MayAdvance, Pipeline
<1>4. StartOwns' /\ ClearedStaysClear'
  BY <1>1, SMTT(30)
  DEF StartOwns, ClearedStaysClear, Exclusive, StepsMatchCalls, CurrentIsNewest,
      EmptyHasNoOwner, Owns, Idle, Free, At, Begun, InFlight, MayCall, MayAdvance,
      Pipeline, Holds, Slot, EmptySlot, Live, Terminal, lifecycleVars,
      WorkMatchesSession, OwnerStates
<1>5. StateAtStep' /\ SlotAtStep'
  BY <1>1, SMTT(30)
  DEF StateAtStep, SlotAtStep, StartOwns, Exclusive, StepsMatchCalls, CurrentIsNewest,
      EmptyHasNoOwner, Owns, Idle, Free, At, Begun, InFlight, MayCall, MayAdvance,
      Pipeline, Holds, Slot, EmptySlot, Live, Terminal, lifecycleVars,
      WorkMatchesSession, OwnerStates
<1>6. Reserved' /\ WorkMatchesSession'
  BY <1>1, SMTT(30)
  DEF Reserved, WorkMatchesSession, OwnerStates, StateAtStep, SlotAtStep,
      ClearedStaysClear, StartOwns, Exclusive, StepsMatchCalls, CurrentIsNewest,
      EmptyHasNoOwner, Owns, Idle, Free, At, Begun, InFlight, MayCall, MayAdvance,
      Pipeline, Holds, Slot, EmptySlot, Live, Terminal, lifecycleVars
<1> QED
  BY <1>1, <1>3, <1>4, <1>5, <1>6 DEF RuntimeInv

(* The slot is cleared after the session refused the event.                *)
LEMMA DiscardKeepsInv ==
  ASSUME Disciplined, RuntimeInv, NEW t \in Threads, Discard(t)
  PROVE  RuntimeInv'
<1>1. BasicInv'
  BY BasicStep DEF Call, Continue, RuntimeInv
<1> USE DEF RuntimeInv, BasicInv, TypeOK, LifecycleTypeOK, Discard, Return, Cleared
<1>3. Exclusive'
  BY <1>1, SMTT(30)
  DEF Exclusive, StepsMatchCalls, Idle, Free, At, Begun, CurrentIsNewest, InFlight,
      MayCall, MayAdvance, Pipeline
<1>4. StartOwns' /\ ClearedStaysClear'
  BY <1>1, SMTT(30)
  DEF StartOwns, ClearedStaysClear, Exclusive, StepsMatchCalls, CurrentIsNewest,
      EmptyHasNoOwner, Owns, Idle, Free, At, Begun, InFlight, MayCall, MayAdvance,
      Pipeline, Holds, Slot, EmptySlot, Live, Terminal, lifecycleVars,
      WorkMatchesSession, OwnerStates
<1>5. StateAtStep' /\ SlotAtStep'
  BY <1>1, SMTT(30)
  DEF StateAtStep, SlotAtStep, StartOwns, Exclusive, StepsMatchCalls, CurrentIsNewest,
      EmptyHasNoOwner, Owns, Idle, Free, At, Begun, InFlight, MayCall, MayAdvance,
      Pipeline, Holds, Slot, EmptySlot, Live, Terminal, lifecycleVars,
      WorkMatchesSession, OwnerStates
<1>6. Reserved' /\ WorkMatchesSession'
  BY <1>1, SMTT(30)
  DEF Reserved, WorkMatchesSession, OwnerStates, StateAtStep, SlotAtStep,
      ClearedStaysClear, StartOwns, Exclusive, StepsMatchCalls, CurrentIsNewest,
      EmptyHasNoOwner, Owns, Idle, Free, At, Begun, InFlight, MayCall, MayAdvance,
      Pipeline, Holds, Slot, EmptySlot, Live, Terminal, lifecycleVars
<1> QED
  BY <1>1, <1>3, <1>4, <1>5, <1>6 DEF RuntimeInv

(* Reading the current session changes no shared state.                    *)
LEMMA ReadForFailureKeepsInv ==
  ASSUME Disciplined, RuntimeInv, NEW t \in Threads, ReadForFailure(t)
  PROVE  RuntimeInv'
<1>1. BasicInv'
  BY BasicStep DEF Call, Continue, RuntimeInv
<1> USE DEF RuntimeInv, BasicInv, TypeOK, LifecycleTypeOK, ReadForFailure, Goto, Return
<1>3. Exclusive'
  BY <1>1, SMTT(30)
  DEF Exclusive, StepsMatchCalls, Idle, Free, At, Begun, CurrentIsNewest, InFlight,
      MayCall, MayAdvance, Pipeline
<1>4. StartOwns' /\ ClearedStaysClear'
  BY <1>1, SMTT(30)
  DEF StartOwns, ClearedStaysClear, Exclusive, StepsMatchCalls, CurrentIsNewest,
      EmptyHasNoOwner, Owns, Idle, Free, At, Begun, InFlight, MayCall, MayAdvance,
      Pipeline, Holds, Slot, EmptySlot, Live, Terminal, lifecycleVars,
      WorkMatchesSession, OwnerStates
<1>5. StateAtStep' /\ SlotAtStep'
  BY <1>1, SMTT(30)
  DEF StateAtStep, SlotAtStep, StartOwns, Exclusive, StepsMatchCalls, CurrentIsNewest,
      EmptyHasNoOwner, Owns, Idle, Free, At, Begun, InFlight, MayCall, MayAdvance,
      Pipeline, Holds, Slot, EmptySlot, Live, Terminal, lifecycleVars,
      WorkMatchesSession, OwnerStates
<1>6. Reserved' /\ WorkMatchesSession'
  BY <1>1, SMTT(30)
  DEF Reserved, WorkMatchesSession, OwnerStates, StateAtStep, SlotAtStep,
      ClearedStaysClear, StartOwns, Exclusive, StepsMatchCalls, CurrentIsNewest,
      EmptyHasNoOwner, Owns, Idle, Free, At, Begun, InFlight, MayCall, MayAdvance,
      Pipeline, Holds, Slot, EmptySlot, Live, Terminal, lifecycleVars
<1> QED
  BY <1>1, <1>3, <1>4, <1>5, <1>6 DEF RuntimeInv

(* By ClearedStaysClear the session that fails owns nothing.               *)
LEMMA BestEffortFailKeepsInv ==
  ASSUME Disciplined, RuntimeInv, NEW t \in Threads, BestEffortFail(t)
  PROVE  RuntimeInv'
<1>1. BasicInv'
  BY BasicStep DEF Call, Continue, RuntimeInv
<1>2. /\ next_id' = next_id
      /\ current'.id = current.id
      /\ IF Submittable(op[t].id, "Fail")
           THEN current'.state = Target["Fail"]
           ELSE current' = current
  BY SubmitEffect
  DEF BestEffortFail, RuntimeInv, BasicInv, TypeOK, Events, Target
<1> USE DEF RuntimeInv, BasicInv, TypeOK, LifecycleTypeOK, BestEffortFail, Return,
            Submittable, Accepts, Source, Target
<1>3. Exclusive'
  BY <1>1, <1>2, SMTT(30)
  DEF Exclusive, StepsMatchCalls, Idle, Free, At, Begun, CurrentIsNewest, InFlight,
      MayCall, MayAdvance, Pipeline
<1>4. StartOwns' /\ ClearedStaysClear'
  BY <1>1, <1>2, SMTT(30)
  DEF StartOwns, ClearedStaysClear, Exclusive, StepsMatchCalls, CurrentIsNewest,
      EmptyHasNoOwner, Owns, Idle, Free, At, Begun, InFlight, MayCall, MayAdvance,
      Pipeline, Holds, Slot, EmptySlot, Live, Terminal, lifecycleVars,
      WorkMatchesSession, OwnerStates
<1>5. StateAtStep' /\ SlotAtStep'
  BY <1>1, <1>2, SMTT(30)
  DEF StateAtStep, SlotAtStep, StartOwns, Exclusive, StepsMatchCalls, CurrentIsNewest,
      EmptyHasNoOwner, Owns, Idle, Free, At, Begun, InFlight, MayCall, MayAdvance,
      Pipeline, Holds, Slot, EmptySlot, Live, Terminal, lifecycleVars,
      WorkMatchesSession, OwnerStates
<1>6. Reserved' /\ WorkMatchesSession'
  BY <1>1, <1>2, SMTT(30)
  DEF Reserved, WorkMatchesSession, OwnerStates, StateAtStep, SlotAtStep,
      ClearedStaysClear, StartOwns, Exclusive, StepsMatchCalls, CurrentIsNewest,
      EmptyHasNoOwner, Owns, Idle, Free, At, Begun, InFlight, MayCall, MayAdvance,
      Pipeline, Holds, Slot, EmptySlot, Live, Terminal, lifecycleVars
<1> QED
  BY <1>1, <1>3, <1>4, <1>5, <1>6 DEF RuntimeInv

(* The invariant is inductive.                                             *)
LEMMA NextKeepsInv ==
  ASSUME Disciplined, RuntimeInv, [Next]_vars
  PROVE  RuntimeInv'
<1>1. ASSUME NEW t \in Threads, Call(t)
      PROVE  RuntimeInv'
  BY <1>1, BeginRecordingKeepsInv, PumpRecordingKeepsInv, FinalizeRecordingKeepsInv,
     TranscribeKeepsInv, FinishTransformKeepsInv, InsertionDeliveredKeepsInv,
     CancelKeepsInv, FailKeepsInv
  DEF Call
<1>2. ASSUME NEW t \in Threads, Continue(t)
      PROVE  RuntimeInv'
  BY <1>2, ReserveArmingKeepsInv, StartCaptureKeepsInv, RecordingStartedKeepsInv,
     StoreRecordingKeepsInv, PumpKeepsInv, TakeRecordingKeepsInv, FinalizeAudioKeepsInv,
     AudioFinalizedKeepsInv, StoreFinalizedKeepsInv, TakeFinalizedKeepsInv,
     RecognizeKeepsInv, RestoreFinalizedKeepsInv, ReleaseSilenceKeepsInv,
     CancelSilenceKeepsInv, TranscriptReadyKeepsInv, ClearReservationKeepsInv,
     FailSessionKeepsInv, CancelSessionKeepsInv, DiscardAndFailKeepsInv, DiscardKeepsInv,
     ReadForFailureKeepsInv, BestEffortFailKeepsInv
  DEF Continue
<1>3. CASE UNCHANGED vars
  BY <1>3
  DEF vars, RuntimeInv, BasicInv, TypeOK, LifecycleTypeOK, StepsMatchCalls, CurrentIsNewest,
      EmptyHasNoOwner, Exclusive, StartOwns, ClearedStaysClear, StateAtStep, SlotAtStep,
      Reserved, WorkMatchesSession, Begun, Owns, Live, OwnerStates
<1> QED
  BY <1>1, <1>2, <1>3 DEF Next

(* The initial state satisfies BasicInv.                                   *)
LEMMA InitHasBasicInv == Init => BasicInv
BY InitHasType
DEF Init, LifecycleInit, NoSession, BasicInv, StepsMatchCalls, CurrentIsNewest,
    EmptyHasNoOwner, EmptySlot, Idle, Pipeline

(* The initial state satisfies the invariant.                              *)
LEMMA InitHasInv == Init => RuntimeInv
BY InitHasBasicInv
DEF Init, LifecycleInit, NoSession, RuntimeInv, BasicInv, Exclusive, StartOwns, ClearedStaysClear,
    StateAtStep, SlotAtStep, Reserved, WorkMatchesSession, EmptySlot, Idle, Pipeline

(* Under the discipline of the desktop services, the invariant holds in    *)
(* every reachable state.                                                  *)
THEOREM InvariantHolds == ASSUME Disciplined PROVE Spec => []RuntimeInv
<1>1. Init => RuntimeInv
  BY InitHasInv
<1>2. RuntimeInv /\ [Next]_vars => RuntimeInv'
  BY NextKeepsInv
<1> QED
  BY <1>1, <1>2, PTL DEF Spec

(* Whatever the threads do, the slot holds work only for the current       *)
(* session and in a state that can use it: a cancelled, failed or          *)
(* completed session owns no microphone and no audio.                      *)
THEOREM WorkFollowsSession == ASSUME Disciplined PROVE Spec => []WorkMatchesSession
<1>1. RuntimeInv => WorkMatchesSession
  BY DEF RuntimeInv
<1> QED
  BY <1>1, InvariantHolds, PTL

(* A session that has just begun never finds the slot taken by an older    *)
(* one, so start_recording fails for its own reasons only.                 *)
THEOREM StartNeverBlocked == ASSUME Disciplined PROVE Spec => []NewSessionUnblocked
<1>1. RuntimeInv => NewSessionUnblocked
  BY DEF RuntimeInv, BasicInv, NewSessionUnblocked, StartOwns, StepsMatchCalls, At, EmptySlot
<1> QED
  BY <1>1, InvariantHolds, PTL

---------------------------------------------------------------------------
(* Stale work: this needs nothing of the callers.                          *)

(* A thread whose session is no longer current leaves the coordinator as   *)
(* it is, and changes the slot only if it is free or its own.              *)
LEMMA StaleContinueHarmless ==
  ASSUME BasicInv, NEW t \in Threads, Continue(t), op[t].id # current.id
  PROVE  /\ UNCHANGED lifecycleVars
         /\ work' # work => work.id \in {0, op[t].id}
<1>1. UNCHANGED lifecycleVars
  BY DEF Continue, ReserveArming, StartCapture, RecordingStarted, StoreRecording, Pump,
         TakeRecording, FinalizeAudio, AudioFinalized, StoreFinalized, TakeFinalized,
         Recognize, RestoreFinalized, ReleaseSilence, CancelSilence, TranscriptReady,
         ClearReservation, FailSession, CancelSession, DiscardAndFail, Discard,
         ReadForFailure, BestEffortFail, SubmitIfAccepted, Submittable
<1>2. work' # work => work.id \in {0, op[t].id}
  BY DEF Continue, ReserveArming, StartCapture, RecordingStarted, StoreRecording, Pump,
         TakeRecording, FinalizeAudio, AudioFinalized, StoreFinalized, TakeFinalized,
         Recognize, RestoreFinalized, ReleaseSilence, CancelSilence, TranscriptReady,
         ClearReservation, FailSession, CancelSession, DiscardAndFail, Discard,
         ReadForFailure, BestEffortFail, Cleared, Holds, Slot, BasicInv, EmptyHasNoOwner
<1> QED
  BY <1>1, <1>2

(* The step of one thread is no step of another, and a thread that is in   *)
(* an operation takes no call.                                             *)
LEMMA StepIsOwn ==
  ASSUME TypeOK, NEW u \in Threads, NEW t \in Threads,
         Call(u) \/ Continue(u), op[t].call # "none", op'[t] # op[t]
  PROVE  Continue(t)
<1>1. u = t
  BY DEF TypeOK, Call, Continue, BeginRecording, PumpRecording, FinalizeRecording,
         Transcribe, FinishTransform, InsertionDelivered, Cancel, Fail, ReserveArming,
         StartCapture, RecordingStarted, StoreRecording, Pump, TakeRecording,
         FinalizeAudio, AudioFinalized, StoreFinalized, TakeFinalized, Recognize,
         RestoreFinalized, ReleaseSilence, CancelSilence, TranscriptReady,
         ClearReservation, FailSession, CancelSession, DiscardAndFail, Discard,
         ReadForFailure, BestEffortFail, Enter, Goto, FailAt, Return
<1>2. ~Call(t)
  BY DEF Call, BeginRecording, PumpRecording, FinalizeRecording, Transcribe,
         FinishTransform, InsertionDelivered, Cancel, Fail, Free
<1> QED
  BY <1>1, <1>2

(* Results that arrive late change nothing that is not theirs: a step for  *)
(* a session that is no longer current leaves the current session alone    *)
(* and touches no other session's work, however the callers behave.        *)
THEOREM StaleWorkIsHarmless == Spec => StaleWorkHarmless
<1>1. BasicInv /\ [Next]_vars => BasicInv'
  <2>1. ASSUME BasicInv, NEW t \in Threads, Call(t) \/ Continue(t) PROVE BasicInv'
    BY <2>1, BasicStep
  <2>2. ASSUME BasicInv, UNCHANGED vars PROVE BasicInv'
    BY <2>2, SMTT(30)
    DEF vars, BasicInv, TypeOK, LifecycleTypeOK, StepsMatchCalls, CurrentIsNewest, Begun,
        EmptyHasNoOwner
  <2> QED
    BY <2>1, <2>2 DEF Next
<1>2. BasicInv /\ [Next]_vars => [StaleStepHarmless]_vars
  <2>1. ASSUME BasicInv, Next, NEW t \in Threads, StaleStep(t)
        PROVE  /\ UNCHANGED lifecycleVars
               /\ work' # work => work.id \in {0, op[t].id}
    <3>1. Continue(t)
      BY <2>1, StepIsOwn DEF Next, StaleStep, BasicInv
    <3> QED
      BY <2>1, <3>1, StaleContinueHarmless DEF StaleStep
  <2> QED
    BY <2>1 DEF StaleStepHarmless
<1> QED
  BY <1>1, <1>2, InitHasBasicInv, PTL DEF Spec, StaleWorkHarmless

---------------------------------------------------------------------------
(* Who attends to a session that cannot go on by itself.                   *)

(* A thread that is about to end its session, or is still starting it.     *)
Concludes(t) ==
  \/ op[t].call = "start"
  \/ op[t].pc \in {"discard_fail", "read", "best_effort", "fail", "cancel", "nospeech"}

(* A live session that still needs its audio and has lost it is about to   *)
(* be ended by some thread.                                                *)
LossIsAttended ==
  Live /\ work.slot = "Empty" /\ current.state \notin {"Transforming", "Inserting"} =>
    \E t \in Threads : op[t].id = current.id /\ Concludes(t)

(* A collector that left the slot to be finalized has a thread that will   *)
(* bring the audio back or give it up.                                     *)
FinalizingIsHeld ==
  work.slot = "Finalizing" =>
    \E t \in Threads : /\ op[t].id = work.id
                       /\ op[t].call = "finalize"
                       /\ op[t].pc # "take" /\ op[t].pc \notin {"discard", "read", "best_effort"}

(* A recording that was stopped has a thread that will take the collector. *)
StoppedIsTaken ==
  current.state = "FinalizingAudio" /\ work.slot = "Recording" =>
    \E t \in Threads : op[t].id = current.id /\ op[t].pc = "take"

(* Audio is thrown away silently only when the session is over, and a      *)
(* transcript releases its reservation only after it was announced.        *)
ReleasesAreLate ==
  \A t \in Threads : Owns(op[t].id) =>
    /\ op[t].pc # "discard"
    /\ op[t].pc = "unreserve" => current.state \in {"Transforming", "Inserting"}

AttendedInv ==
  LossIsAttended /\ FinalizingIsHeld /\ StoppedIsTaken /\ ReleasesAreLate

---------------------------------------------------------------------------
(* What the steps do, in the groups the proofs below distinguish.          *)

(* Steps that leave the coordinator and the slot alone.                    *)
Silent(t) ==
  \/ StartCapture(t) \/ Pump(t) \/ FinalizeAudio(t) \/ Recognize(t) \/ ReadForFailure(t)
  \/ \E s \in Begun : PumpRecording(t, s) \/ Transcribe(t, s)

(* Steps that move audio into or out of the slot.                          *)
Moves(t) ==
  \/ ReserveArming(t) \/ StoreRecording(t) \/ TakeRecording(t) \/ StoreFinalized(t)
  \/ TakeFinalized(t) \/ RestoreFinalized(t)

(* Steps that clear the slot on the way to ending the session.             *)
Clears(t) ==
  \/ DiscardAndFail(t) \/ ReleaseSilence(t)
  \/ \E s \in Begun : Cancel(t, s) \/ \E stage \in CallerStages : Fail(t, s, stage)

(* Steps that clear the slot of a session past its audio.                  *)
Drops(t) == ClearReservation(t) \/ Discard(t)

(* Steps that submit an event which takes the session on.                  *)
Advances(t) ==
  \/ RecordingStarted(t) \/ AudioFinalized(t) \/ TranscriptReady(t)
  \/ \E s \in Begun :
       FinalizeRecording(t, s) \/ FinishTransform(t, s) \/ InsertionDelivered(t, s)

(* Steps that submit an event which ends the session.                      *)
Concluded(t) ==
  CancelSilence(t) \/ FailSession(t) \/ CancelSession(t) \/ BestEffortFail(t)

(* The groups are all there is.                                            *)
LEMMA StepsGrouped ==
  ASSUME NEW t \in Threads, Call(t) \/ Continue(t)
  PROVE  \/ BeginRecording(t) \/ Silent(t) \/ Moves(t) \/ Clears(t) \/ Drops(t)
         \/ Advances(t) \/ Concluded(t)
BY DEF Call, Continue, Silent, Moves, Clears, Drops, Advances, Concluded

(* A session goes on only from the state the event is for.                 *)
LEMMA AdvanceEffect ==
  ASSUME RuntimeInv, NEW t \in Threads, Advances(t)
  PROVE  /\ next_id' = next_id /\ current'.id = current.id /\ work' = work
         /\ Others(t)
         /\ \/ current' = current
            \/ \E event \in DOMAIN Source : /\ current.state = Source[event]
                                            /\ current'.state = Target[event]
<1> USE DEF RuntimeInv, BasicInv, TypeOK, Events, Target, Source, Submittable, Accepts
<1>1. CASE RecordingStarted(t)
  BY <1>1, SubmitEffect, MoveEffect DEF RecordingStarted, OpType
<1>2. CASE AudioFinalized(t)
  BY <1>2, SubmitEffect, MoveEffect DEF AudioFinalized, OpType
<1>3. CASE TranscriptReady(t)
  BY <1>3, SubmitEffect, MoveEffect DEF TranscriptReady, OpType
<1>4. ASSUME NEW s \in Begun, FinalizeRecording(t, s) PROVE
         /\ next_id' = next_id /\ current'.id = current.id /\ work' = work
         /\ Others(t)
         /\ \/ current' = current
            \/ \E event \in DOMAIN Source : /\ current.state = Source[event]
                                            /\ current'.state = Target[event]
  BY <1>4, SubmitEffect, EnterEffect DEF FinalizeRecording, OpType
<1>5. ASSUME NEW s \in Begun, FinishTransform(t, s) \/ InsertionDelivered(t, s) PROVE
         /\ next_id' = next_id /\ current'.id = current.id /\ work' = work
         /\ Others(t)
         /\ \/ current' = current
            \/ \E event \in DOMAIN Source : /\ current.state = Source[event]
                                            /\ current'.state = Target[event]
  BY <1>5, SubmitEffect DEF FinishTransform, InsertionDelivered, Others
<1> QED
  BY <1>1, <1>2, <1>3, <1>4, <1>5 DEF Advances

(* A session that is ended is over; the thread has returned.               *)
LEMMA ConcludedEffect ==
  ASSUME RuntimeInv, NEW t \in Threads, Concluded(t)
  PROVE  /\ next_id' = next_id /\ current'.id = current.id /\ work' = work
         /\ Others(t) /\ op'[t] = Idle
         /\ current' = current \/ ~Live'
         /\ current.id = op[t].id => ~Live' \/ ~Live
<1>1. \E event \in {"Fail", "Cancel"} : \E stage : SubmitIfAccepted(op[t].id, event, stage)
  BY DEF Concluded, CancelSilence, FailSession, CancelSession, BestEffortFail
<1>2. PICK event \in {"Fail", "Cancel"} : \E stage : SubmitIfAccepted(op[t].id, event, stage)
  BY <1>1
<1>3. /\ next_id' = next_id /\ current'.id = current.id
      /\ IF Submittable(op[t].id, event)
           THEN current'.state \in {"Failed", "Cancelled"}
           ELSE current' = current
  BY <1>2, SubmitEffect DEF RuntimeInv, BasicInv, TypeOK, Events, Target
<1>4. Others(t) /\ op'[t] = Idle /\ work' = work
  BY ReturnEffect
  DEF Concluded, CancelSilence, FailSession, CancelSession, BestEffortFail, RuntimeInv,
      BasicInv, TypeOK, OpType
<1> QED
  BY <1>3, <1>4 DEF Submittable, Accepts, Live, Terminal

---------------------------------------------------------------------------
(* Each conjunct is kept by every step.                                    *)

(* The thread that clears the slot of a live session goes on to end it.    *)
LEMMA LossStaysAttended ==
  ASSUME RuntimeInv, AttendedInv, NEW t \in Threads,
         Call(t) \/ Continue(t)
  PROVE  LossIsAttended'
<1> USE DEF AttendedInv, LossIsAttended, Concludes, RuntimeInv, BasicInv, TypeOK,
            LifecycleTypeOK, StepsMatchCalls, EmptyHasNoOwner, Live, Terminal, Idle, Free, At,
            Slot, EmptySlot, Goto, FailAt, Return, Enter
<1>1. CASE BeginRecording(t)
  BY <1>1 DEF BeginRecording, Begin
<1>2. CASE Silent(t)
  BY <1>2, SMTT(30)
  DEF Silent, StartCapture, Pump, FinalizeAudio, Recognize, ReadForFailure, PumpRecording,
      Transcribe, lifecycleVars
<1>3. CASE Moves(t)
  BY <1>3, SMTT(30)
  DEF Moves, ReserveArming, StoreRecording, TakeRecording, StoreFinalized, TakeFinalized,
      RestoreFinalized, lifecycleVars, StartOwns, Holds
<1>4. CASE Clears(t)
  BY <1>4, SMTT(30)
  DEF Clears, DiscardAndFail, ReleaseSilence, Cancel, Fail, Cleared, Holds, lifecycleVars,
      WorkMatchesSession
<1>5. CASE Drops(t)
  BY <1>5, SMTT(30)
  DEF Drops, ClearReservation, Discard, ReleasesAreLate, Owns, Cleared, Holds, lifecycleVars,
      WorkMatchesSession
<1>6. CASE Advances(t)
  <2>1. /\ next_id' = next_id /\ current'.id = current.id /\ work' = work
        /\ Others(t)
        /\ \/ current' = current
           \/ \E event \in DOMAIN Source : /\ current.state = Source[event]
                                           /\ current'.state = Target[event]
    BY <1>6, AdvanceEffect
  <2>2. Concludes(t) => op[t].call = "start" /\ op[t].pc = "started"
    BY <1>6
    DEF Advances, RecordingStarted, AudioFinalized, TranscriptReady, FinalizeRecording,
        FinishTransform, InsertionDelivered
  <2>3. op[t].pc = "started" => work.slot = "Arming"
    BY DEF StartOwns
  <2> QED
    BY <2>1, <2>2, <2>3 DEF Others, Source, Target
<1>7. CASE Concluded(t)
  BY <1>7, ConcludedEffect DEF Others
<1> QED
  BY <1>1, <1>2, <1>3, <1>4, <1>5, <1>6, <1>7, StepsGrouped

(* A collector leaves the slot with the thread that finalizes it.          *)
LEMMA FinalizingStaysHeld ==
  ASSUME RuntimeInv, AttendedInv, NEW t \in Threads,
         Call(t) \/ Continue(t)
  PROVE  FinalizingIsHeld'
<1> USE DEF AttendedInv, FinalizingIsHeld, RuntimeInv, BasicInv, TypeOK, LifecycleTypeOK,
            StepsMatchCalls, Idle, Free, At, Slot, EmptySlot, Goto, FailAt, Return, Enter
<1>1. CASE BeginRecording(t)
  BY <1>1 DEF BeginRecording
<1>2. CASE Silent(t)
  BY <1>2, SMTT(30)
  DEF Silent, StartCapture, Pump, FinalizeAudio, Recognize, ReadForFailure, PumpRecording,
      Transcribe
<1>3. CASE Moves(t)
  BY <1>3, SMTT(30)
  DEF Moves, ReserveArming, StoreRecording, TakeRecording, StoreFinalized, TakeFinalized,
      RestoreFinalized, Holds
<1>4. CASE Clears(t)
  BY <1>4, SMTT(30)
  DEF Clears, DiscardAndFail, ReleaseSilence, Cancel, Fail, Cleared, Holds
<1>5. CASE Drops(t)
  BY <1>5, SMTT(30)
  DEF Drops, ClearReservation, Discard, Cleared, Holds
<1>6. CASE Advances(t)
  <2>1. work' = work /\ Others(t)
    BY <1>6, AdvanceEffect
  <2>2. CASE AudioFinalized(t) /\ work.slot = "Finalizing" /\ op[t].id = work.id
    <3>1. Owns(op[t].id)
      BY <2>2 DEF WorkMatchesSession, OwnerStates, Owns, Live, Terminal
    <3>2. Submittable(op[t].id, "AudioFinalized")
      BY <2>2, <3>1 DEF AudioFinalized, StateAtStep, Owns, Submittable, Accepts, Source
    <3> QED
      BY <2>1, <2>2, <3>2 DEF AudioFinalized, Others
  <2>3. CASE ~(AudioFinalized(t) /\ work.slot = "Finalizing" /\ op[t].id = work.id)
    BY <1>6, <2>1, <2>3
    DEF Advances, RecordingStarted, AudioFinalized, TranscriptReady, FinalizeRecording,
        FinishTransform, InsertionDelivered, Others
  <2> QED
    BY <2>2, <2>3
<1>7. CASE Concluded(t)
  <2>1. op[t].pc \in {"fail", "cancel", "nospeech", "best_effort"}
    BY <1>7 DEF Concluded, FailSession, CancelSession, CancelSilence, BestEffortFail
  <2> QED
    BY <1>7, <2>1, ConcludedEffect DEF Others
<1> QED
  BY <1>1, <1>2, <1>3, <1>4, <1>5, <1>6, <1>7, StepsGrouped

(* A recording is stopped by the thread that takes its collector next.     *)
LEMMA StoppedStaysTaken ==
  ASSUME RuntimeInv, AttendedInv, NEW t \in Threads,
         Call(t) \/ Continue(t)
  PROVE  StoppedIsTaken'
<1> USE DEF AttendedInv, StoppedIsTaken, RuntimeInv, BasicInv, TypeOK, LifecycleTypeOK,
            StepsMatchCalls, Idle, Free, At, Slot, EmptySlot, Goto, FailAt, Return, Enter
<1>1. CASE BeginRecording(t)
  BY <1>1 DEF BeginRecording, Begin
<1>2. CASE Silent(t)
  BY <1>2, SMTT(30)
  DEF Silent, StartCapture, Pump, FinalizeAudio, Recognize, ReadForFailure, PumpRecording,
      Transcribe, lifecycleVars
<1>3. CASE Moves(t)
  BY <1>3, SMTT(30)
  DEF Moves, ReserveArming, StoreRecording, TakeRecording, StoreFinalized, TakeFinalized,
      RestoreFinalized, Holds, lifecycleVars, StartOwns, WorkMatchesSession
<1>4. CASE Clears(t)
  BY <1>4, SMTT(30)
  DEF Clears, DiscardAndFail, ReleaseSilence, Cancel, Fail, Cleared, Holds, lifecycleVars
<1>5. CASE Drops(t)
  BY <1>5, SMTT(30)
  DEF Drops, ClearReservation, Discard, Cleared, Holds, lifecycleVars
<1>6. CASE Advances(t)
  <2>1. /\ next_id' = next_id /\ current'.id = current.id /\ work' = work
        /\ Others(t)
        /\ \/ current' = current
           \/ \E event \in DOMAIN Source : /\ current.state = Source[event]
                                           /\ current'.state = Target[event]
    BY <1>6, AdvanceEffect
  <2>2. CASE \E s \in Begun : FinalizeRecording(t, s)
    BY <2>1, <2>2 DEF FinalizeRecording, Submit, Submittable
  <2>3. CASE ~\E s \in Begun : FinalizeRecording(t, s)
    <3>1. \E s : \E event \in DOMAIN Source \ {"RecordingStopped"} :
            Submit(s, event, "None") \/ SubmitIfAccepted(s, event, "None")
      BY <1>6, <2>3
      DEF Advances, RecordingStarted, AudioFinalized, TranscriptReady, FinishTransform,
          InsertionDelivered, Source
    <3>2. PICK s : \E event \in DOMAIN Source \ {"RecordingStopped"} :
            Submit(s, event, "None") \/ SubmitIfAccepted(s, event, "None")
      BY <3>1
    <3>3. PICK event \in DOMAIN Source \ {"RecordingStopped"} :
            Submit(s, event, "None") \/ SubmitIfAccepted(s, event, "None")
      BY <3>2
    <3>4. current' = current \/ current'.state = Target[event]
      <4>1. event \in Events
        BY DEF Events, Source, Target
      <4>2. LifecycleTypeOK
        OBVIOUS
      <4> QED
        BY ONLY <3>3, <4>1, <4>2, SubmitEffect
    <3>5. Target[event] # "FinalizingAudio"
      BY DEF Source, Target
    <3>6. op[t].pc # "take"
      BY <1>6, <2>3
      DEF Advances, RecordingStarted, AudioFinalized, TranscriptReady, FinishTransform,
          InsertionDelivered
    <3> QED
      BY <2>1, <3>4, <3>5, <3>6 DEF Others
  <2> QED
    BY <2>2, <2>3
<1>7. CASE Concluded(t)
  <2>1. op[t].pc \in {"fail", "cancel", "nospeech", "best_effort"}
    BY <1>7 DEF Concluded, FailSession, CancelSession, CancelSilence, BestEffortFail
  <2> QED
    BY <1>7, <2>1, ConcludedEffect DEF Others, Live, Terminal
<1> QED
  BY <1>1, <1>2, <1>3, <1>4, <1>5, <1>6, <1>7, StepsGrouped

(* An event is refused only to a thread whose session is over, and a       *)
(* session that is over stays over.                                        *)
LEMMA ReleasesStayLate ==
  ASSUME RuntimeInv, AttendedInv, NEW t \in Threads,
         Call(t) \/ Continue(t)
  PROVE  ReleasesAreLate'
<1> USE DEF AttendedInv, ReleasesAreLate, RuntimeInv, BasicInv, TypeOK, LifecycleTypeOK,
            StepsMatchCalls, Owns, Idle, Free, At, Goto, FailAt, Return, Enter
<1>1. CASE BeginRecording(t)
  BY <1>1, SMTT(30) DEF BeginRecording, Begin, CanBegin, Live, Begun
<1>2. CASE Silent(t)
  BY <1>2, SMTT(30)
  DEF Silent, StartCapture, Pump, FinalizeAudio, Recognize, ReadForFailure, PumpRecording,
      Transcribe, lifecycleVars, Live
<1>3. CASE Moves(t)
  BY <1>3, SMTT(30)
  DEF Moves, ReserveArming, StoreRecording, TakeRecording, StoreFinalized, TakeFinalized,
      RestoreFinalized, lifecycleVars, Live
<1>4. CASE Clears(t) \/ Drops(t)
  BY <1>4, SMTT(30)
  DEF Clears, DiscardAndFail, ReleaseSilence, Cancel, Fail, Drops, ClearReservation, Discard,
      lifecycleVars, Live
<1>5. CASE Advances(t)
  <2>1. /\ next_id' = next_id /\ current'.id = current.id /\ Others(t)
        /\ \/ current' = current
           \/ \E event \in DOMAIN Source : /\ current.state = Source[event]
                                           /\ current'.state = Target[event]
    BY <1>5, AdvanceEffect
  <2>2. Live' => Live
    BY <2>1 DEF Live, Source, Target, Terminal
  <2>3. current.state \in {"Transforming", "Inserting"} /\ Live' =>
          current'.state \in {"Transforming", "Inserting"}
    BY <2>1 DEF Live, Source, Target, Terminal
  <2>4. ASSUME Owns(op[t].id)'
        PROVE  /\ op'[t].pc # "discard"
               /\ op'[t].pc = "unreserve" => current'.state \in {"Transforming", "Inserting"}
    <3>1. CASE RecordingStarted(t)
      BY <3>1, <2>1, <2>2, <2>4
      DEF RecordingStarted, StartOwns, Submittable, Accepts, Source
    <3>2. CASE AudioFinalized(t)
      <4>1. Owns(op[t].id)
        BY <3>2, <2>1, <2>2, <2>4 DEF AudioFinalized
      <4>2. Submittable(op[t].id, "AudioFinalized")
        BY <3>2, <4>1 DEF AudioFinalized, StateAtStep, Submittable, Accepts, Source
      <4> QED
        BY <3>2, <4>2 DEF AudioFinalized
    <3>3. CASE TranscriptReady(t)
      <4>1. Owns(op[t].id)
        BY <3>3, <2>1, <2>2, <2>4 DEF TranscriptReady
      <4>2. PICK event \in {"TranscriptReady", "TransformRequired"} :
              /\ SubmitIfAccepted(op[t].id, event, "None")
              /\ Goto(t, IF Submittable(op[t].id, event) THEN "unreserve" ELSE "discard")
        BY <3>3 DEF TranscriptReady
      <4>3. Submittable(op[t].id, event)
        BY <3>3, <4>1 DEF TranscriptReady, StateAtStep, Submittable, Accepts, Source
      <4>4. current'.state = Target[event] /\ op'[t].pc = "unreserve"
        BY <4>2, <4>3, SubmitEffect DEF Events, Target
      <4> QED
        BY <4>4 DEF Target
    <3>4. ASSUME NEW s \in Begun, FinalizeRecording(t, s)
          PROVE  op'[t].pc \notin {"discard", "unreserve"}
      BY <3>4 DEF FinalizeRecording
    <3>5. ASSUME NEW s \in Begun, FinishTransform(t, s) \/ InsertionDelivered(t, s)
          PROVE  /\ op'[t].pc # "discard"
                 /\ op'[t].pc = "unreserve" => current'.state \in {"Transforming", "Inserting"}
      BY <3>5, <2>1, <2>2, <2>3, <2>4 DEF FinishTransform, InsertionDelivered
    <3> QED
      BY <1>5, <3>1, <3>2, <3>3, <3>4, <3>5 DEF Advances
  <2> QED
    BY <2>1, <2>2, <2>3, <2>4 DEF Others
<1>6. CASE Concluded(t)
  BY <1>6, ConcludedEffect DEF Others, Live, Terminal
<1> QED
  BY <1>1, <1>2, <1>3, <1>4, <1>5, <1>6, StepsGrouped

---------------------------------------------------------------------------
(* No session is abandoned.                                                *)

(* The invariant is inductive together with RuntimeInv.                    *)
LEMMA AttendedKept ==
  ASSUME RuntimeInv, AttendedInv, [Next]_vars
  PROVE  AttendedInv'
<1>1. CASE Next
  BY <1>1, LossStaysAttended, FinalizingStaysHeld, StoppedStaysTaken, ReleasesStayLate
  DEF Next, AttendedInv
<1>2. CASE UNCHANGED vars
  BY <1>2
  DEF vars, AttendedInv, LossIsAttended, FinalizingIsHeld, StoppedIsTaken, ReleasesAreLate,
      Concludes, Owns, Live
<1> QED
  BY <1>1, <1>2

(* When nothing is in flight for the current session nobody attends to it, *)
(* so by the invariants it needs nobody.                                   *)
LEMMA RestFollows ==
  ASSUME RuntimeInv, AttendedInv
  PROVE  NoAbandonedSession
<1> SUFFICES ASSUME InFlight(current.id) = {} PROVE AtRest
  BY DEF NoAbandonedSession
<1> USE DEF RuntimeInv, BasicInv, TypeOK, LifecycleTypeOK
<1>1. \A t \in Threads : op[t].id = current.id => op[t].call = "none" /\ op[t].pc = "idle"
  BY DEF InFlight, StepsMatchCalls
<1>2. work.slot # "Empty" => work.id = current.id
  BY DEF WorkMatchesSession
<1>3. work.slot \notin {"Arming", "Transcribing", "Finalizing"}
  BY <1>1, <1>2 DEF Reserved, AttendedInv, FinalizingIsHeld
<1>4. CASE work.slot = "Empty"
  <2>1. ~Live \/ current.state \in {"Transforming", "Inserting"}
    BY <1>1, <1>4 DEF AttendedInv, LossIsAttended, Concludes
  <2> QED
    BY <1>4, <2>1 DEF AtRest, Live
<1>5. CASE work.slot = "Recording"
  <2>1. current.state = "Recording"
    BY <1>1, <1>5 DEF WorkMatchesSession, OwnerStates, AttendedInv, StoppedIsTaken
  <2> QED
    BY <1>2, <1>5, <2>1 DEF AtRest, Holds, Slot
<1>6. CASE work.slot = "Finalized"
  BY <1>2, <1>6 DEF WorkMatchesSession, OwnerStates, AtRest, Holds, Slot
<1> QED
  BY <1>3, <1>4, <1>5, <1>6

(* Both invariants hold of the disciplined runtime.                        *)
LEMMA AttendedHolds == ASSUME Disciplined PROVE Spec => [](RuntimeInv /\ AttendedInv)
<1>1. Init => RuntimeInv /\ AttendedInv
  BY InitHasInv
  DEF Init, LifecycleInit, NoSession, AttendedInv, LossIsAttended, FinalizingIsHeld,
      StoppedIsTaken, ReleasesAreLate, Owns, Live, EmptySlot
<1>2. RuntimeInv /\ AttendedInv /\ [Next]_vars => RuntimeInv' /\ AttendedInv'
  BY NextKeepsInv, AttendedKept
<1> QED
  BY <1>1, <1>2, PTL DEF Spec

(* When no operation on the current session is in flight, it is over, or   *)
(* the slot holds what its state needs: no race strands a session, and a   *)
(* recognition error leaves its audio to try again.                        *)
THEOREM NoneAbandoned == ASSUME Disciplined PROVE Spec => []NoAbandonedSession
<1>1. RuntimeInv /\ AttendedInv => NoAbandonedSession
  BY RestFollows
<1> QED
  BY <1>1, AttendedHolds, PTL

---------------------------------------------------------------------------
(* The runtime implements AudioCustody.                                    *)

(* A session that was begun and has not reserved the slot yet.             *)
Fresh == \E t \in Threads : At(t, "reserve")

(* A thread at its reservation started the newest session, which is live,  *)
(* and is the only one.                                                    *)
LEMMA FreshIsNewest ==
  ASSUME RuntimeInv, NEW t \in Threads, At(t, "reserve")
  PROVE  /\ op[t].id = next_id - 1 /\ Live /\ work = EmptySlot
         /\ \A u \in Threads \ {t} : ~At(u, "reserve")
<1> USE DEF RuntimeInv, BasicInv, At
<1>1. op[t].call = "start"
  BY DEF StepsMatchCalls
<1>2. op[t].id = next_id - 1 /\ Live /\ work = EmptySlot
  BY <1>1 DEF StartOwns, Owns, CurrentIsNewest
<1>3. ASSUME NEW u \in Threads \ {t}, op[u].pc = "reserve"
      PROVE  FALSE
  <2>1. op[u].call = "start" /\ Owns(op[u].id) /\ Owns(op[t].id)
    BY <1>1, <1>3 DEF StepsMatchCalls, StartOwns
  <2>2. op[u].id = op[t].id
    BY <2>1 DEF Owns
  <2> QED
    BY <1>1, <2>1, <2>2 DEF Exclusive
<1> QED
  BY <1>2, <1>3

(* A session begins when nobody has custody; no step but the reservation   *)
(* of the slot ends its freshness.                                         *)
LEMMA BeginningIsFree ==
  ASSUME RuntimeInv, NEW t \in Threads, BeginRecording(t)
  PROVE  /\ work.id = 0 /\ work' = work /\ ~Fresh /\ Fresh'
         /\ next_id' = next_id + 1
<1>1. ~Live /\ next_id' = next_id + 1 /\ work' = work /\ op'[t].pc = "reserve"
  BY EnterEffect DEF BeginRecording, Begin, CanBegin, RuntimeInv, BasicInv, TypeOK, OpType
<1>2. work.id = 0
  BY <1>1
  DEF RuntimeInv, BasicInv, TypeOK, EmptyHasNoOwner, WorkMatchesSession, OwnerStates, Live,
      Terminal
<1>3. ~Fresh
  BY <1>1, FreshIsNewest DEF Fresh
<1> QED
  BY <1>1, <1>2, <1>3 DEF Fresh, At

(* Every other step leaves a fresh session as it is, and the counter.      *)
LEMMA OthersStayAsFresh ==
  ASSUME RuntimeInv, NEW t \in Threads,
         Silent(t) \/ Moves(t) \/ Clears(t) \/ Drops(t) \/ Advances(t) \/ Concluded(t),
         ~ReserveArming(t)
  PROVE  Fresh' = Fresh /\ next_id' = next_id
<1> USE DEF RuntimeInv, BasicInv, TypeOK, LifecycleTypeOK, At, Free, StepsMatchCalls, Idle,
            Goto, FailAt, Return, Enter
<1>1. ASSUME Others(t), op[t].pc # "reserve", op'[t].pc # "reserve"
      PROVE  Fresh' = Fresh
  BY <1>1 DEF Fresh, Others
<1>2. CASE Silent(t) \/ Moves(t)
  <2>1. next_id' = next_id /\ Others(t) /\ op[t].pc # "reserve" /\ op'[t].pc # "reserve"
    <3>1. CASE Silent(t)
      BY <3>1, SMTT(30)
      DEF Silent, StartCapture, Pump, FinalizeAudio, Recognize, ReadForFailure,
          PumpRecording, Transcribe, Others, lifecycleVars
    <3>2. CASE Moves(t)
      BY <3>2, SMTT(30)
      DEF Moves, StoreRecording, TakeRecording, StoreFinalized, TakeFinalized,
          RestoreFinalized, Others, lifecycleVars
    <3> QED
      BY <1>2, <3>1, <3>2
  <2> QED
    BY <1>1, <2>1
<1>3. CASE Clears(t) \/ Drops(t)
  <2>1. next_id' = next_id /\ Others(t) /\ op[t].pc # "reserve" /\ op'[t].pc # "reserve"
    BY <1>3, SMTT(30)
    DEF Clears, DiscardAndFail, ReleaseSilence, Cancel, Fail, Drops, ClearReservation,
        Discard, Others, lifecycleVars
  <2> QED
    BY <1>1, <2>1
<1>4. CASE Advances(t)
  <2>1. next_id' = next_id /\ Others(t)
    BY <1>4, AdvanceEffect
  <2>2. op[t].pc # "reserve" /\ op'[t].pc # "reserve"
    BY <1>4, SMTT(30)
    DEF Advances, RecordingStarted, AudioFinalized, TranscriptReady, FinalizeRecording,
        FinishTransform, InsertionDelivered
  <2> QED
    BY <1>1, <2>1, <2>2
<1>5. CASE Concluded(t)
  <2>1. next_id' = next_id /\ Others(t) /\ op'[t] = Idle
    BY <1>5, ConcludedEffect
  <2>2. op[t].pc # "reserve"
    BY <1>5 DEF Concluded, CancelSilence, FailSession, CancelSession, BestEffortFail
  <2> QED
    BY <1>1, <2>1, <2>2
<1> QED
  BY <1>2, <1>3, <1>4, <1>5

(* What such a step does to the slot: nothing, or it gives custody up, or  *)
(* the same session's audio stays in its form or becomes final.            *)
LEMMA SlotMovesOn ==
  ASSUME RuntimeInv, NEW t \in Threads,
         Silent(t) \/ Moves(t) \/ Clears(t) \/ Drops(t) \/ Advances(t) \/ Concluded(t),
         ~ReserveArming(t)
  PROVE  \/ work' \in {work, EmptySlot}
         \/ /\ work'.id = work.id
            /\ <<work.slot, work'.slot>> \in
                 {<<"Arming", "Recording">>, <<"Recording", "Finalizing">>,
                  <<"Finalizing", "Finalized">>, <<"Finalized", "Transcribing">>,
                  <<"Transcribing", "Finalized">>}
<1>1. CASE Silent(t)
  BY <1>1
  DEF Silent, StartCapture, Pump, FinalizeAudio, Recognize, ReadForFailure, PumpRecording,
      Transcribe
<1>2. CASE Moves(t)
  BY <1>2
  DEF Moves, StoreRecording, TakeRecording, StoreFinalized, TakeFinalized, RestoreFinalized,
      Holds, Slot
<1>3. CASE Clears(t)
  BY <1>3 DEF Clears, DiscardAndFail, ReleaseSilence, Cancel, Fail, Cleared
<1>4. CASE Drops(t)
  BY <1>4 DEF Drops, ClearReservation, Discard, Cleared
<1>5. CASE Advances(t) \/ Concluded(t)
  BY <1>5, AdvanceEffect, ConcludedEffect
<1> QED
  BY <1>1, <1>2, <1>3, <1>4, <1>5

(* Every step of the runtime is a step of AudioCustody or changes nothing  *)
(* there.                                                                  *)
LEMMA StepKeepsPromise ==
  ASSUME RuntimeInv, NEW t \in Threads, Call(t) \/ Continue(t)
  PROVE  [Custody!CustodyNext]_(Custody!custodyVars)
<1> USE DEF Custody!CustodyNext, Custody!custodyVars, Fresh, Form
<1>1. work \in [slot : DOMAIN Form, id : Nat] /\ next_id \in Nat
  BY DEF RuntimeInv, BasicInv, TypeOK, LifecycleTypeOK
<1>2. work.slot = "Empty" <=> work.id = 0
  BY DEF RuntimeInv, BasicInv, EmptyHasNoOwner
<1>3. CASE BeginRecording(t)
  BY <1>1, <1>3, BeginningIsFree DEF Custody!BeginSession
<1>4. CASE ReserveArming(t)
  <2>1. /\ op[t].id = next_id - 1 /\ work = EmptySlot
        /\ \A u \in Threads \ {t} : ~At(u, "reserve")
    BY <1>4, FreshIsNewest DEF ReserveArming
  <2>2. work' = Slot("Arming", next_id - 1) /\ next_id' = next_id /\ Goto(t, "capture")
    BY <1>4, <2>1 DEF ReserveArming, EmptySlot, lifecycleVars
  <2>3. Others(t) /\ op'[t].pc = "capture"
    BY <2>2, MoveEffect DEF RuntimeInv, BasicInv, TypeOK, OpType
  <2>4. Fresh /\ ~Fresh'
    BY <1>4, <2>1, <2>3 DEF ReserveArming, At, Others
  <2> QED
    BY <1>1, <2>1, <2>2, <2>4 DEF Custody!TakeCustody, EmptySlot, Slot
<1>5. CASE ~BeginRecording(t) /\ ~ReserveArming(t)
  <2>1. Silent(t) \/ Moves(t) \/ Clears(t) \/ Drops(t) \/ Advances(t) \/ Concluded(t)
    BY <1>5, StepsGrouped
  <2>2. Fresh' = Fresh /\ next_id' = next_id
    BY <1>5, <2>1, OthersStayAsFresh
  <2>3. CASE work' = work
    BY <2>2, <2>3
  <2>4. CASE work' = EmptySlot
    BY <1>1, <1>2, <2>2, <2>4 DEF Custody!ReleaseCustody, EmptySlot
  <2>5. CASE /\ work'.id = work.id
             /\ <<work.slot, work'.slot>> \in
                  {<<"Arming", "Recording">>, <<"Recording", "Finalizing">>,
                   <<"Finalizing", "Finalized">>, <<"Finalized", "Transcribing">>,
                   <<"Transcribing", "Finalized">>}
    <3>1. CASE work.slot = "Finalizing"
      BY <2>2, <2>5, <3>1 DEF Custody!Complete
    <3>2. CASE work.slot # "Finalizing"
      BY <2>2, <2>5, <3>2
    <3> QED
      BY <3>1, <3>2
  <2> QED
    BY <1>5, <2>1, <2>3, <2>4, <2>5, SlotMovesOn
<1> QED
  BY <1>3, <1>4, <1>5

(* Each session takes the slot once and in turn, its audio goes from live  *)
(* to final to nobody, and a session begins only when the slot is free.    *)
THEOREM CustodyKept == ASSUME Disciplined PROVE Spec => ImplementsCustody
<1>1. Init => Custody!CustodyInit
  BY DEF Init, LifecycleInit, Custody!CustodyInit, EmptySlot, Form, At, Idle
<1>2. RuntimeInv /\ [Next]_vars => [Custody!CustodyNext]_(Custody!custodyVars)
  <2>1. ASSUME UNCHANGED vars PROVE UNCHANGED Custody!custodyVars
    BY <2>1 DEF vars, Custody!custodyVars, At, Form
  <2> QED
    BY <2>1, StepKeepsPromise DEF Next
<1> QED
  BY <1>1, <1>2, InvariantHolds, PTL DEF Spec, ImplementsCustody, Custody!CustodySpec
=============================================================================
