---------------------------- MODULE DictationRuntime ----------------------------
(***************************************************************************)
(* The application runtime of one dictation (crates/blcvoice-runtime): it  *)
(* joins the session coordinator with a work slot that owns the microphone *)
(* collector or the finalized audio of one session.  The two mutexes are   *)
(* never held together and long work runs under neither, so each operation *)
(* is a sequence of steps, one per critical section or unlocked call, and  *)
(* the steps of different threads interleave.                              *)
(***************************************************************************)
EXTENDS SessionLifecycle

CONSTANTS
  Threads,        \* the threads that call the runtime
  Disciplined     \* TRUE when callers use a session only after its start returned,
                  \* and run its pipeline operations one after the other

ASSUME DisciplinedAssumption == Disciplined \in BOOLEAN

VARIABLES
  work,           \* the work slot: what it holds and for which session
  op              \* per thread, the operation in flight: its step, session and failure stage

vars == <<next_id, current, work, op>>

---------------------------------------------------------------------------
(* The slot and the threads.                                               *)

EmptySlot == [slot |-> "Empty", id |-> 0]

Slot(kind, s) == [slot |-> kind, id |-> s]

Holds(kind, s) == work = Slot(kind, s)

Idle == [call |-> "none", pc |-> "idle", id |-> 0, stage |-> "None"]

Goto(t, step) == op' = [op EXCEPT ![t].pc = step]

FailAt(t, step, stage) == op' = [op EXCEPT ![t].pc = step, ![t].stage = stage]

Enter(t, operation, step, s, stage) ==
  op' = [op EXCEPT ![t] = [call |-> operation, pc |-> step, id |-> s, stage |-> stage]]

Return(t) == op' = [op EXCEPT ![t] = Idle]

Steps == {"idle",
          "reserve", "capture", "started", "store",
          "pump",
          "take", "finalize", "finalized", "keep",
          "claim", "recognize", "restore", "release", "ready", "unreserve", "nospeech",
          "fail", "cancel",
          "discard_fail", "discard", "read", "best_effort"}

Calls == {"none", "start", "pump", "finalize", "transcribe", "fail", "cancel"}

TypeOK ==
  /\ LifecycleTypeOK
  /\ work \in [slot: {"Empty", "Arming", "Recording", "Finalizing", "Finalized",
                      "Transcribing"},
               id: 0 .. MaxSession]
  /\ op \in [Threads -> [call: Calls, pc: Steps, id: 0 .. MaxSession,
                         stage: FailureStage \cup {"None"}]]

InFlight(s) == {t \in Threads : op[t].call # "none" /\ op[t].id = s}

Pipeline == {"start", "finalize", "transcribe"}

(* A caller that behaves as the desktop services do names a session once   *)
(* start_recording has returned its id.                                    *)
MayCall(s) == Disciplined => \A t \in InFlight(s) : op[t].call # "start"

(* ... and runs start, finalize, transcribe and deliver in sequence.       *)
MayAdvance(s) == Disciplined => \A t \in InFlight(s) : op[t].call \notin Pipeline

Free(t) == op[t].call = "none"

At(t, step) == op[t].pc = step

(* clear_work: drop whatever the slot holds for session s.                 *)
(* Fault: clear_work forgets to compare the session ids.                   *)
ClearedForAnyone(s) == EmptySlot
Cleared(s) == IF work.id = s THEN EmptySlot ELSE work

---------------------------------------------------------------------------
(* start_recording                                                         *)

BeginRecording(t) ==
  /\ Free(t)
  /\ Begin
  /\ Enter(t, "start", "reserve", next_id, "None")
  /\ UNCHANGED work

ReserveArming(t) ==
  /\ At(t, "reserve")
  /\ \/ /\ work.slot = "Empty"
        /\ work' = Slot("Arming", op[t].id)
        /\ Goto(t, "capture")
     \/ /\ work.slot # "Empty"
        /\ FailAt(t, "read", "Internal")
        /\ UNCHANGED work
  /\ UNCHANGED lifecycleVars

(* The capture factory opens the microphone and the collector is built, or *)
(* one of the two fails.                                                   *)
StartCapture(t) ==
  /\ At(t, "capture")
  /\ \/ Goto(t, "started")
     \/ \E stage \in {"AudioCapture", "Internal"} : FailAt(t, "discard_fail", stage)
  /\ UNCHANGED <<lifecycleVars, work>>

RecordingStarted(t) ==
  /\ At(t, "started")
  /\ SubmitIfAccepted(op[t].id, "RecordingStarted", "None")
  /\ Goto(t, IF Submittable(op[t].id, "RecordingStarted") THEN "store" ELSE "discard")
  /\ UNCHANGED work

StoreRecording(t) ==
  /\ At(t, "store")
  /\ \/ /\ Holds("Arming", op[t].id)
        /\ work' = Slot("Recording", op[t].id)
        /\ Return(t)
     \/ /\ ~Holds("Arming", op[t].id)
        /\ FailAt(t, "read", "Internal")
        /\ UNCHANGED work
  /\ UNCHANGED lifecycleVars

---------------------------------------------------------------------------
(* pump_recording.  A call whose session is not Recording returns at once. *)

PumpRecording(t, s) ==
  /\ Free(t)
  /\ MayCall(s)
  /\ current.id = s
  /\ current.state = "Recording"
  /\ Enter(t, "pump", "pump", s, "None")
  /\ UNCHANGED <<lifecycleVars, work>>

(* The collector drains the capture under the work lock; a bad read or an  *)
(* utterance over its limit fails the session.                             *)
Pump(t) ==
  /\ At(t, "pump")
  /\ \/ Return(t)
     \/ /\ Holds("Recording", op[t].id)
        /\ \E stage \in {"AudioCapture", "Internal"} : FailAt(t, "discard_fail", stage)
  /\ UNCHANGED <<lifecycleVars, work>>

---------------------------------------------------------------------------
(* finalize_recording                                                      *)

FinalizeRecording(t, s) ==
  /\ Free(t)
  /\ MayAdvance(s)
  /\ Submit(s, "RecordingStopped", "None")
  /\ Enter(t, "finalize", "take", s, "None")
  /\ UNCHANGED work

TakeRecording(t) ==
  /\ At(t, "take")
  /\ \/ /\ Holds("Recording", op[t].id)
        /\ work' = Slot("Finalizing", op[t].id)
        /\ Goto(t, "finalize")
     \/ /\ ~Holds("Recording", op[t].id)
        /\ Return(t)
        /\ UNCHANGED work
  /\ UNCHANGED lifecycleVars

(* The collector pauses the stream, drains it and checks its integrity.    *)
FinalizeAudio(t) ==
  /\ At(t, "finalize")
  /\ \/ Goto(t, "finalized")
     \/ \E stage \in {"AudioCapture", "SpeechDetection", "Internal"} :
          FailAt(t, "discard_fail", stage)
  /\ UNCHANGED <<lifecycleVars, work>>

AudioFinalized(t) ==
  /\ At(t, "finalized")
  /\ SubmitIfAccepted(op[t].id, "AudioFinalized", "None")
  /\ Goto(t, IF Submittable(op[t].id, "AudioFinalized") THEN "keep" ELSE "discard")
  /\ UNCHANGED work

(* Fault: store_finalized does not check that the reservation is still its *)
(* own.                                                                    *)
StoreFinalizedUnreserved(t) ==
  /\ At(t, "keep")
  /\ work' = Slot("Finalized", op[t].id)
  /\ Return(t)
  /\ UNCHANGED lifecycleVars

StoreFinalized(t) ==
  /\ At(t, "keep")
  /\ work' = IF Holds("Finalizing", op[t].id) THEN Slot("Finalized", op[t].id) ELSE work
  /\ Return(t)
  /\ UNCHANGED lifecycleVars

---------------------------------------------------------------------------
(* transcribe and transcribe_with_vad                                      *)

Transcribe(t, s) ==
  /\ Free(t)
  /\ MayAdvance(s)
  /\ current.id = s
  /\ current.state = "Transcribing"
  /\ Enter(t, "transcribe", "claim", s, "None")
  /\ UNCHANGED <<lifecycleVars, work>>

TakeFinalized(t) ==
  /\ At(t, "claim")
  /\ \/ /\ Holds("Finalized", op[t].id)
        /\ work' = Slot("Transcribing", op[t].id)
        /\ Goto(t, "recognize")
     \/ /\ ~Holds("Finalized", op[t].id)
        /\ Return(t)
        /\ UNCHANGED work
  /\ UNCHANGED lifecycleVars

(* Detection and recognition end in a transcript, in no speech, or in an   *)
(* error after which the audio may be tried again.                         *)
Recognize(t) ==
  /\ At(t, "recognize")
  /\ \E result \in {"ready", "release", "restore"} : Goto(t, result)
  /\ UNCHANGED <<lifecycleVars, work>>

(* Fault: the audio is not put back after a recognition error.             *)
RestoreForgotten(t) ==
  /\ At(t, "restore")
  /\ Return(t)
  /\ UNCHANGED <<lifecycleVars, work>>

RestoreFinalized(t) ==
  /\ At(t, "restore")
  /\ work' = IF Holds("Transcribing", op[t].id) THEN Slot("Finalized", op[t].id) ELSE work
  /\ Return(t)
  /\ UNCHANGED lifecycleVars

ReleaseSilence(t) ==
  /\ At(t, "release")
  /\ \/ /\ Holds("Transcribing", op[t].id)
        /\ work' = EmptySlot
        /\ Goto(t, "nospeech")
     \/ /\ ~Holds("Transcribing", op[t].id)
        /\ Return(t)
        /\ UNCHANGED work
  /\ UNCHANGED lifecycleVars

CancelSilence(t) ==
  /\ At(t, "nospeech")
  /\ SubmitIfAccepted(op[t].id, "Cancel", "None")
  /\ Return(t)
  /\ UNCHANGED work

TranscriptReady(t) ==
  /\ At(t, "ready")
  /\ \E event \in {"TranscriptReady", "TransformRequired"} :
       /\ SubmitIfAccepted(op[t].id, event, "None")
       /\ Goto(t, IF Submittable(op[t].id, event) THEN "unreserve" ELSE "discard")
  /\ UNCHANGED work

ClearReservation(t) ==
  /\ At(t, "unreserve")
  /\ work' = IF Holds("Transcribing", op[t].id) THEN EmptySlot ELSE work
  /\ Return(t)
  /\ UNCHANGED lifecycleVars

---------------------------------------------------------------------------
(* finish_transform and insertion_delivered: one coordinator call each.    *)

FinishTransform(t, s) ==
  /\ Free(t)
  /\ MayAdvance(s)
  /\ Submit(s, "TransformFinished", "None")
  /\ UNCHANGED <<work, op>>

InsertionDelivered(t, s) ==
  /\ Free(t)
  /\ MayAdvance(s)
  /\ Submit(s, "InsertionDelivered", "None")
  /\ UNCHANGED <<work, op>>

---------------------------------------------------------------------------
(* fail and cancel: the slot is cleared first, the session ends second.    *)

Fail(t, s, stage) ==
  /\ Free(t)
  /\ MayCall(s)
  /\ work' = Cleared(s)
  /\ Enter(t, "fail", "fail", s, stage)
  /\ UNCHANGED lifecycleVars

FailSession(t) ==
  /\ At(t, "fail")
  /\ SubmitIfAccepted(op[t].id, "Fail", op[t].stage)
  /\ Return(t)
  /\ UNCHANGED work

(* Fault: cancel ends the session without clearing its work.               *)
CancelKeepingWork(t, s) ==
  /\ Free(t)
  /\ MayCall(s)
  /\ Enter(t, "cancel", "cancel", s, "None")
  /\ UNCHANGED <<lifecycleVars, work>>

Cancel(t, s) ==
  /\ Free(t)
  /\ MayCall(s)
  /\ work' = Cleared(s)
  /\ Enter(t, "cancel", "cancel", s, "None")
  /\ UNCHANGED lifecycleVars

CancelSession(t) ==
  /\ At(t, "cancel")
  /\ SubmitIfAccepted(op[t].id, "Cancel", "None")
  /\ Return(t)
  /\ UNCHANGED work

---------------------------------------------------------------------------
(* The common error tails: clear_work, then best_effort_fail, which reads  *)
(* the current session before it submits the failure.                      *)

DiscardAndFail(t) ==
  /\ At(t, "discard_fail")
  /\ work' = Cleared(op[t].id)
  /\ Goto(t, "read")
  /\ UNCHANGED lifecycleVars

Discard(t) ==
  /\ At(t, "discard")
  /\ work' = Cleared(op[t].id)
  /\ Return(t)
  /\ UNCHANGED lifecycleVars

(* Fault: the best-effort failure is skipped while the session is live.    *)
ReadForFailureInverted(t) ==
  /\ At(t, "read")
  /\ IF current.id = op[t].id /\ ~Live THEN Goto(t, "best_effort") ELSE Return(t)
  /\ UNCHANGED <<lifecycleVars, work>>

ReadForFailure(t) ==
  /\ At(t, "read")
  /\ IF current.id = op[t].id /\ Live THEN Goto(t, "best_effort") ELSE Return(t)
  /\ UNCHANGED <<lifecycleVars, work>>

BestEffortFail(t) ==
  /\ At(t, "best_effort")
  /\ SubmitIfAccepted(op[t].id, "Fail", op[t].stage)
  /\ Return(t)
  /\ UNCHANGED work

---------------------------------------------------------------------------

Init ==
  /\ LifecycleInit
  /\ work = EmptySlot
  /\ op = [t \in Threads |-> Idle]

(* The continuation of an operation a thread has already entered.          *)
Continue(t) ==
  \/ ReserveArming(t) \/ StartCapture(t) \/ RecordingStarted(t) \/ StoreRecording(t)
  \/ Pump(t)
  \/ TakeRecording(t) \/ FinalizeAudio(t) \/ AudioFinalized(t) \/ StoreFinalized(t)
  \/ TakeFinalized(t) \/ Recognize(t) \/ RestoreFinalized(t)
  \/ ReleaseSilence(t) \/ CancelSilence(t) \/ TranscriptReady(t) \/ ClearReservation(t)
  \/ FailSession(t) \/ CancelSession(t)
  \/ DiscardAndFail(t) \/ Discard(t) \/ ReadForFailure(t) \/ BestEffortFail(t)

(* The stages the desktop passes to fail.                                  *)
CallerStages == {"SpeechDetection", "SpeechRecognition", "TextInsertion"}

Call(t) ==
  \/ BeginRecording(t)
  \/ \E s \in Begun :
       \/ PumpRecording(t, s)
       \/ FinalizeRecording(t, s)
       \/ Transcribe(t, s)
       \/ FinishTransform(t, s)
       \/ InsertionDelivered(t, s)
       \/ Cancel(t, s)
       \/ \E stage \in CallerStages : Fail(t, s, stage)

Next == \E t \in Threads : Call(t) \/ Continue(t)

Spec == Init /\ [][Next]_vars

(* An operation that was entered runs to its end: locks are held briefly   *)
(* and never nested, and native capture and recognition calls return.      *)
FairSpec == Spec /\ \A t \in Threads : WF_vars(Continue(t))
---------------------------------------------------------------------------
(* Properties.                                                             *)

(* The states a session may be in while the slot holds work of this kind   *)
(* for it.                                                                 *)
OwnerStates == [Arming       |-> {"Arming", "Recording"},
                Recording    |-> {"Recording", "FinalizingAudio"},
                Finalizing   |-> {"FinalizingAudio", "Transcribing"},
                Finalized    |-> {"Transcribing"},
                Transcribing |-> {"Transcribing", "Transforming", "Inserting"}]

(* The two locks tell one story although no step holds both: what the slot *)
(* holds belongs to the current session, in a state that can still use it. *)
(* So a terminal session owns no collector and no audio.                   *)
WorkMatchesSession ==
  work.slot # "Empty" =>
    /\ current.id = work.id
    /\ current.state \in OwnerStates[work.slot]

(* Cancellation and failure clear the slot before they end the session, so *)
(* a session that has just begun never finds an older reservation in its   *)
(* way (docs/adr/0012, "Lock ownership").                                  *)
NewSessionUnblocked ==
  \A t \in Threads : At(t, "reserve") => work.slot = "Empty"

(* What a session may look like when no operation on it is in flight: the  *)
(* caller can always take it further or end it, and a recognition error    *)
(* has left its audio to try again.  No interleaving strands a session in  *)
(* Arming or FinalizingAudio, or parts a state from the work it needs.     *)
AtRest ==
  \/ current.state \in Terminal \cup {"None", "Transforming", "Inserting"}
       /\ work.slot = "Empty"
  \/ current.state = "Recording" /\ Holds("Recording", current.id)
  \/ current.state = "Transcribing" /\ Holds("Finalized", current.id)

NoAbandonedSession == InFlight(current.id) = {} => AtRest

(* A step that a thread takes for a session that is no longer current...   *)
StaleStep(t) == op[t].call # "none" /\ op[t].id # current.id /\ op'[t] # op[t]

(* ... changes neither the current session nor work that another session   *)
(* owns (docs/adr/0012, "Stale-work safety").                              *)
StaleStepHarmless ==
  \A t \in Threads : StaleStep(t) =>
    /\ UNCHANGED lifecycleVars
    /\ work' # work => work.id \in {0, op[t].id}

StaleWorkHarmless == [][StaleStepHarmless]_vars

(* The microphone of session s is open while the slot or a thread owns the *)
(* collector; dropping the collector closes the stream.                    *)
MicrophoneOpen(s) ==
  \/ Holds("Recording", s)
  \/ \E t \in InFlight(s) : op[t].pc \in {"started", "store", "finalize"}

Ended(s) == s \in Begun /\ ~(current.id = s /\ Live)

(* A session that has ended, in whatever race, does not keep the           *)
(* microphone: every stream is closed in the end.                          *)
MicrophoneReleased ==
  \A s \in 1 .. MaxSession : Ended(s) ~> ~MicrophoneOpen(s)

(* Arming and FinalizingAudio are passed through, never stayed in: the     *)
(* operation that brought a session there takes it further or fails it.    *)
InTransit(s) == current.id = s /\ current.state \in {"Arming", "FinalizingAudio"}

TransitEnds ==
  \A s \in 1 .. MaxSession : InTransit(s) ~> ~InTransit(s)

(* The runtime keeps the promise of AudioCustody: each session takes the   *)
(* slot once and in turn, its audio goes from live to final to nobody, and *)
(* a session begins only when the slot is free.                            *)
Form == [Empty |-> "none", Arming |-> "live", Recording |-> "live",
         Finalizing |-> "live", Finalized |-> "final", Transcribing |-> "final"]

Custody == INSTANCE AudioCustody WITH
             begun <- next_id - 1,
             fresh <- \E t \in Threads : At(t, "reserve"),
             owner <- work.id,
             form  <- Form[work.slot]

ImplementsCustody == Custody!CustodySpec
=============================================================================
