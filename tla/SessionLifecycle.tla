---------------------------- MODULE SessionLifecycle ----------------------------
(***************************************************************************)
(* The domain lifecycle of one dictation and the coordinator that owns the *)
(* single current session (crates/blcvoice-core).  A worker holds only the *)
(* id of its session and submits events under that id; the coordinator     *)
(* applies an event only to the session it names.                          *)
(***************************************************************************)
EXTENDS Naturals

CONSTANT MaxSession   \* the value at which the id counter is exhausted (u64::MAX)

ASSUME MaxSessionAssumption == MaxSession \in Nat \ {0}

VARIABLES
  next_id,            \* the id the next session will get
  current             \* the session the coordinator owns, terminal or not

lifecycleVars == <<next_id, current>>

---------------------------------------------------------------------------
(* Sessions, states and events.                                            *)

Terminal == {"Completed", "Failed", "Cancelled"}

SessionState == {"Arming", "Recording", "FinalizingAudio", "Transcribing",
                 "Transforming", "Inserting"} \cup Terminal

FailureStage == {"AudioCapture", "SpeechDetection", "SpeechRecognition",
                 "Transformation", "TargetResolution", "TextInsertion",
                 "Internal"}

(* The only state from which each pipeline event is accepted, and the state *)
(* it leads to.  TranscriptReady carries a flag in the code: its two cases  *)
(* are two events here.                                                     *)
Source == [RecordingStarted   |-> "Arming",
           RecordingStopped   |-> "Recording",
           AudioFinalized     |-> "FinalizingAudio",
           TransformRequired  |-> "Transcribing",
           TranscriptReady    |-> "Transcribing",
           TransformFinished  |-> "Transforming",
           InsertionDelivered |-> "Inserting"]

Target == [RecordingStarted   |-> "Recording",
           RecordingStopped   |-> "FinalizingAudio",
           AudioFinalized     |-> "Transcribing",
           TransformRequired  |-> "Transforming",
           TranscriptReady    |-> "Inserting",
           TransformFinished  |-> "Inserting",
           InsertionDelivered |-> "Completed",
           Fail               |-> "Failed",
           Cancel             |-> "Cancelled"]

Events == DOMAIN Target

Accepts(state, event) ==
  IF event \in {"Fail", "Cancel"}
    THEN state \notin Terminal
    ELSE state = Source[event]

NoSession == [id |-> 0, state |-> "None", failure_stage |-> "None"]

LifecycleTypeOK ==
  /\ next_id \in 1 .. MaxSession
  /\ current \in [id: 0 .. MaxSession,
                  state: SessionState \cup {"None"},
                  failure_stage: FailureStage \cup {"None"}]

---------------------------------------------------------------------------
(* The coordinator.                                                        *)

Live == current.state \notin Terminal \cup {"None"}

(* Fault: the counter is incremented without a check.                      *)
CanBeginUnchecked == ~Live

(* Fault: a session begins over one that is still live.                    *)
CanBeginWhileLive == next_id < MaxSession

(* A session may begin once the previous one is terminal and while the id  *)
(* counter can still be incremented.                                       *)
CanBegin == ~Live /\ next_id < MaxSession

Begin ==
  /\ CanBegin
  /\ next_id' = next_id + 1
  /\ current' = [id |-> next_id, state |-> "Arming", failure_stage |-> "None"]

(* The event of session s would be applied: s is the current session and   *)
(* its state accepts the event.                                            *)
Submittable(s, event) ==
  /\ current.id = s
  /\ Accepts(current.state, event)

Submit(s, event, stage) ==
  /\ Submittable(s, event)
  /\ current' = [current EXCEPT !.state = Target[event],
                                !.failure_stage = IF event = "Fail" THEN stage ELSE @]
  /\ UNCHANGED next_id

(* What a caller gets when it ignores whether the event was accepted.      *)
SubmitIfAccepted(s, event, stage) ==
  IF Submittable(s, event)
    THEN Submit(s, event, stage)
    ELSE UNCHANGED lifecycleVars

Begun == 1 .. (next_id - 1)

---------------------------------------------------------------------------

LifecycleInit ==
  /\ next_id = 1
  /\ current = NoSession
=============================================================================
