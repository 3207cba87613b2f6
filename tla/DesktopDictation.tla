---------------------------- MODULE DesktopDictation ----------------------------
(***************************************************************************)
(* The desktop services over the runtime: the capture service with its one *)
(* worker (capture.rs) and the dictation service with its slot             *)
(* (dictation.rs), as the commands call them (ipc.rs).  A command thread   *)
(* runs a call of the services step by step; when it calls the runtime it  *)
(* goes through the steps of DictationRuntime, and so does a pump thread.  *)
(* The runtime's callers are no longer assumed: Disciplined is FALSE here, *)
(* and that the services are disciplined is checked (ImplementsRuntime).   *)
(***************************************************************************)
EXTENDS DictationRuntime

CONSTANTS
  Commands,       \* the threads that serve commands
  Pumps,          \* the capture workers that may exist at once
  Offered,        \* the calls that are made
  Callers,        \* who may be making them
  NoPump          \* the absence of a worker

DictationCalls == {"start", "finish", "cancel"}

ASSUME DesktopAssumptions ==
  /\ Threads = Commands \cup Pumps
  /\ Commands \cap Pumps = {}
  /\ NoPump \notin Pumps
  /\ Offered \subseteq DictationCalls \cup {"test", "test_finish", "test_cancel"}
  /\ Callers \subseteq {"page", "threads", "anyone"}
  /\ Disciplined = FALSE

VARIABLES
  control,        \* the capture service: a start in flight, and the worker
  pump,           \* per worker thread, its step, session, stop signal and exit
  slot,           \* the dictation service's slot
  cmd,            \* per command thread, its call, step, session and claimed worker
  tests,          \* the sessions that are microphone tests
  caller          \* who makes the calls, throughout

desktopVars == <<vars, control, pump, slot, cmd, tests, caller>>

---------------------------------------------------------------------------

In(state, s) == [state |-> state, id |-> s]

SlotIdle == In("Idle", 0)

NoCall == [call |-> "none", pc |-> "none", id |-> 0, pump |-> NoPump]

NoWorker == [pc |-> "none", id |-> 0, stop |-> FALSE, failed |-> FALSE]

Exited(p) == pump[p].pc = "exited"

CommandSteps ==
  {"none", "claim", "load", "capture", "begin", "starting", "install", "uninstall", "abandon",
   "abandoning", "occupy", "take", "join", "finalize", "finalizing", "transcribe",
   "transcribing", "fail_recognition", "failing", "await", "begin_insertion", "insert",
   "complete", "deliver", "fail_insertion", "fail_delivery", "cancel_capture",
   "cancel_join", "cancel_session", "cancelling", "reset"}

DesktopTypeOK ==
  /\ TypeOK
  /\ control \in [start_in_flight: BOOLEAN, worker: Pumps \cup {NoPump}]
  /\ control.worker # NoPump => pump[control.worker].pc # "none"
  /\ pump \in [Pumps -> [pc: {"none", "call", "pumping", "check", "wait", "exited"},
                         id: 0 .. MaxSession, stop: BOOLEAN, failed: BOOLEAN]]
  /\ slot \in [state: {"Idle", "Preparing"}, id: {0}]
         \cup [state: {"Recording", "Finalizing", "AwaitingInsertion", "Inserting"},
               id: 1 .. MaxSession]
  /\ cmd \in [Commands -> [call: Offered \cup {"none"}, pc: CommandSteps,
                           id: 0 .. MaxSession, pump: Pumps \cup {NoPump}]]
  /\ tests \subseteq 1 .. MaxSession
  /\ caller \in Callers

Doing(c, step) == cmd[c].pc = step

Done(c) == cmd' = [cmd EXCEPT ![c] = NoCall]

(* The next step of a call.  "leave" is the way out of an error: calls of  *)
(* the dictation service pass reset_to_idle, those of the test return.     *)
Step(c, step) ==
  IF step # "leave"
    THEN cmd' = [cmd EXCEPT ![c].pc = step]
    ELSE IF cmd[c].call \in DictationCalls
      THEN cmd' = [cmd EXCEPT ![c].pc = "reset"]
      ELSE Done(c)

---------------------------------------------------------------------------
(* What the page and the shortcut call.                                    *)

(* A session can be named once the call that started it has returned its   *)
(* id; the page and the shortcut's threads keep the sessions of tests and  *)
(* dictations apart, while the test commands accept any id from anyone.    *)
Returned(s) == \A c \in Commands : ~(cmd[c].call \in {"start", "test"} /\ cmd[c].id = s)

MayName(call, s) ==
  \/ Returned(s) /\ (s \in tests <=> call \in {"test_finish", "test_cancel"})
  \/ caller = "anyone" /\ call \in {"test_finish", "test_cancel"}

(* The page waits for the answer of a dictation call before the next.      *)
MayDictate(call) ==
  caller = "page" /\ call \in DictationCalls =>
    \A c \in Commands : cmd[c].call \notin DictationCalls

FirstStep == [start |-> "claim", finish |-> "claim", cancel |-> "claim",
              test |-> "capture", test_finish |-> "take", test_cancel |-> "cancel_capture"]

Accept(c, call, s) ==
  /\ cmd[c] = NoCall
  /\ MayDictate(call)
  /\ cmd' = [cmd EXCEPT ![c] = [NoCall EXCEPT !.call = call, !.pc = FirstStep[call], !.id = s]]
  /\ UNCHANGED <<vars, control, pump, slot, tests, caller>>

Command(c) ==
  \/ \E call \in Offered \cap {"start", "test"} : Accept(c, call, 0)
  \/ \E call \in Offered \ {"start", "test"}, s \in Begun :
       MayName(call, s) /\ Accept(c, call, s)

---------------------------------------------------------------------------
(* The dictation slot.                                                     *)

slotFrame == <<vars, control, pump, tests, caller>>

ClaimStart(c) ==
  /\ Doing(c, "claim") /\ cmd[c].call = "start"
  /\ IF slot = SlotIdle
       THEN slot' = In("Preparing", 0) /\ Step(c, "load")
       ELSE UNCHANGED slot /\ Done(c)
  /\ UNCHANGED slotFrame

(* The recognizer comes from the cache or is loaded, or cannot be loaded.  *)
Load(c) ==
  /\ Doing(c, "load")
  /\ \E next \in {"capture", "leave"} : Step(c, next)
  /\ UNCHANGED <<slotFrame, slot>>

(* The recording has started: it takes the slot, unless the preparation    *)
(* was invalidated meanwhile.                                              *)
Occupy(c) ==
  /\ Doing(c, "occupy")
  /\ IF slot.state = "Preparing"
       THEN slot' = In("Recording", cmd[c].id) /\ Done(c)
       ELSE UNCHANGED slot /\ Step(c, "cancel_capture")
  /\ UNCHANGED slotFrame

ClaimFinish(c) ==
  /\ Doing(c, "claim") /\ cmd[c].call = "finish"
  /\ IF slot = In("Recording", cmd[c].id)
       THEN slot' = In("Finalizing", cmd[c].id) /\ Step(c, "take")
       ELSE UNCHANGED slot /\ Done(c)
  /\ UNCHANGED slotFrame

AwaitInsertion(c) ==
  /\ Doing(c, "await")
  /\ slot' = In("AwaitingInsertion", cmd[c].id)
  /\ Step(c, "begin_insertion")
  /\ UNCHANGED slotFrame

(* Fault: the insertion begins whatever has become of the slot.            *)
BeginInsertionAnyway(c) ==
  /\ Doing(c, "begin_insertion")
  /\ slot' = In("Inserting", cmd[c].id)
  /\ Step(c, "insert")
  /\ UNCHANGED slotFrame

BeginInsertion(c) ==
  /\ Doing(c, "begin_insertion")
  /\ IF slot = In("AwaitingInsertion", cmd[c].id)
       THEN slot' = In("Inserting", cmd[c].id) /\ Step(c, "insert")
       ELSE UNCHANGED slot /\ Done(c)
  /\ UNCHANGED slotFrame

InsertText(c) ==
  /\ Doing(c, "insert")
  /\ \E next \in {"complete", "fail_insertion"} : Step(c, next)
  /\ UNCHANGED <<slotFrame, slot>>

(* complete_insertion and fail_insertion look at the slot first.           *)
EnsureInserting(c) ==
  /\ cmd[c].pc \in {"complete", "fail_insertion"}
  /\ IF slot = In("Inserting", cmd[c].id)
       THEN Step(c, IF Doing(c, "complete") THEN "deliver" ELSE "fail_delivery")
       ELSE Done(c)
  /\ UNCHANGED <<slotFrame, slot>>

(* cancel gives the slot up before the capture is cancelled.               *)
ClaimCancel(c) ==
  /\ Doing(c, "claim") /\ cmd[c].call = "cancel"
  /\ IF slot \in {In("Recording", cmd[c].id), In("AwaitingInsertion", cmd[c].id)}
       THEN slot' = SlotIdle /\ Step(c, "cancel_capture")
       ELSE UNCHANGED slot /\ Done(c)
  /\ UNCHANGED slotFrame

(* Fault: a path returns without reset_to_idle.                            *)
ResetForgotten(c) ==
  /\ Doing(c, "reset")
  /\ Done(c)
  /\ UNCHANGED <<slotFrame, slot>>

Reset(c) ==
  /\ Doing(c, "reset")
  /\ slot' = SlotIdle
  /\ Done(c)
  /\ UNCHANGED slotFrame

---------------------------------------------------------------------------
(* The capture service's control.                                          *)

controlFrame == <<vars, slot, tests, caller>>

(* start_capture reaps a worker that has finished, and refuses a second    *)
(* capture.                                                                *)
ClaimCapture(c) ==
  /\ Doing(c, "capture")
  /\ LET w == control.worker
         reap == w # NoPump /\ Exited(w)
     IN  /\ pump' = IF reap THEN [pump EXCEPT ![w] = NoWorker] ELSE pump
         /\ IF control.start_in_flight \/ (w # NoPump /\ ~reap)
              THEN /\ control' = [control EXCEPT !.worker = IF reap THEN NoPump ELSE w]
                   /\ Step(c, "leave")
              ELSE /\ control' = [start_in_flight |-> TRUE, worker |-> NoPump]
                   /\ Step(c, "begin")
  /\ UNCHANGED controlFrame

(* The worker is spawned, or cannot be and the session is cancelled.       *)
Install(c) ==
  /\ Doing(c, "install")
  /\ \/ \E p \in Pumps :
          /\ pump[p] = NoWorker
          /\ pump' = [pump EXCEPT ![p] = [NoWorker EXCEPT !.pc = "call", !.id = cmd[c].id]]
          /\ control' = [start_in_flight |-> FALSE, worker |-> p]
          /\ IF cmd[c].call = "start" THEN Step(c, "occupy") ELSE Done(c)
     \/ /\ control' = [control EXCEPT !.start_in_flight = FALSE]
        /\ Step(c, "abandon")
        /\ UNCHANGED pump
  /\ UNCHANGED controlFrame

Uninstall(c) ==
  /\ Doing(c, "uninstall")
  /\ control' = [control EXCEPT !.start_in_flight = FALSE]
  /\ Step(c, "leave")
  /\ UNCHANGED <<controlFrame, pump>>

OwnWorker(c) == control.worker # NoPump /\ pump[control.worker].id = cmd[c].id

(* Fault: the worker is joined without a stop signal.                      *)
TakeWorkerUnsignalled(c, step) ==
  /\ OwnWorker(c)
  /\ control' = [control EXCEPT !.worker = NoPump]
  /\ cmd' = [cmd EXCEPT ![c].pc = step, ![c].pump = control.worker]
  /\ UNCHANGED pump

TakeWorker(c, step) ==
  /\ OwnWorker(c)
  /\ control' = [control EXCEPT !.worker = NoPump]
  /\ pump' = [pump EXCEPT ![control.worker].stop = TRUE]
  /\ cmd' = [cmd EXCEPT ![c].pc = step, ![c].pump = control.worker]

(* finish_recording takes the worker of this session only.                 *)
FinishTake(c) ==
  /\ Doing(c, "take")
  /\ \/ TakeWorker(c, "join")
     \/ ~OwnWorker(c) /\ Step(c, "leave") /\ UNCHANGED <<control, pump>>
  /\ UNCHANGED controlFrame

(* Fault: cancel_session does not wait for a start in flight.              *)
CancelTakeDuringStart(c) ==
  /\ Doing(c, "cancel_capture")
  /\ \/ TakeWorker(c, "cancel_join")
     \/ /\ ~OwnWorker(c)
        /\ Step(c, IF control.worker = NoPump THEN "cancel_session" ELSE "leave")
        /\ UNCHANGED <<control, pump>>
  /\ UNCHANGED controlFrame

(* cancel_session is refused during a start and for the worker of another  *)
(* session, and goes on without any worker.                                *)
CancelTake(c) ==
  /\ Doing(c, "cancel_capture")
  /\ \/ ~control.start_in_flight /\ TakeWorker(c, "cancel_join")
     \/ /\ control.start_in_flight \/ ~OwnWorker(c)
        /\ Step(c, IF ~control.start_in_flight /\ control.worker = NoPump
                     THEN "cancel_session" ELSE "leave")
        /\ UNCHANGED <<control, pump>>
  /\ UNCHANGED controlFrame

(* Joining waits for the worker's exit; a failed worker ends the call.     *)
Joined == [join |-> "finalize", cancel_join |-> "cancel_session"]

Join(c) ==
  /\ cmd[c].pc \in DOMAIN Joined
  /\ Exited(cmd[c].pump)
  /\ LET w == cmd[c].pump
         next == IF pump[w].failed THEN "leave" ELSE Joined[cmd[c].pc]
     IN  /\ pump' = [pump EXCEPT ![w] = NoWorker]
         /\ IF next = "leave" /\ cmd[c].call \notin DictationCalls
              THEN Done(c)
              ELSE cmd' = [cmd EXCEPT ![c].pump = NoPump,
                                      ![c].pc = IF next = "leave" THEN "reset" ELSE next]
  /\ UNCHANGED <<controlFrame, control>>

---------------------------------------------------------------------------
(* Calls of the runtime.                                                   *)

serviceFrame == <<control, pump, slot, caller>>

Begins(c) ==
  /\ Doing(c, "begin")
  /\ \/ /\ BeginRecording(c)
        /\ cmd' = [cmd EXCEPT ![c].pc = "starting", ![c].id = next_id]
        /\ tests' = IF cmd[c].call = "test" THEN tests \cup {next_id} ELSE tests
     \/ /\ ~CanBegin
        /\ Step(c, "uninstall")
        /\ UNCHANGED <<vars, tests>>
  /\ UNCHANGED serviceFrame

(* A call that is refused before it changes anything is one step.          *)
Finalizes(c) ==
  /\ Doing(c, "finalize")
  /\ \/ FinalizeRecording(c, cmd[c].id) /\ Step(c, "finalizing")
     \/ /\ ~Submittable(cmd[c].id, "RecordingStopped")
        /\ Step(c, "leave")
        /\ UNCHANGED vars
  /\ UNCHANGED <<serviceFrame, tests>>

Transcribes(c) ==
  /\ Doing(c, "transcribe")
  /\ \/ Transcribe(c, cmd[c].id) /\ Step(c, "transcribing")
     \/ /\ ~(current.id = cmd[c].id /\ current.state = "Transcribing")
        /\ Step(c, "fail_recognition")
        /\ UNCHANGED vars
  /\ UNCHANGED <<serviceFrame, tests>>

(* Fault: finish gives up without failing the session.                     *)
FailsRecognitionNever(c) ==
  /\ Doing(c, "fail_recognition")
  /\ Step(c, "leave")
  /\ UNCHANGED <<vars, serviceFrame, tests>>

FailsRecognition(c) ==
  /\ Doing(c, "fail_recognition")
  /\ \E stage \in {"SpeechDetection", "SpeechRecognition"} : Fail(c, cmd[c].id, stage)
  /\ Step(c, "failing")
  /\ UNCHANGED <<serviceFrame, tests>>

FailsDelivery(c) ==
  /\ Doing(c, "fail_delivery")
  /\ Fail(c, cmd[c].id, "TextInsertion")
  /\ Step(c, "failing")
  /\ UNCHANGED <<serviceFrame, tests>>

Cancels(c) ==
  /\ cmd[c].pc \in {"cancel_session", "abandon"}
  /\ Cancel(c, cmd[c].id)
  /\ Step(c, IF Doing(c, "abandon") THEN "abandoning" ELSE "cancelling")
  /\ UNCHANGED <<serviceFrame, tests>>

(* One transition of the coordinator, accepted or refused.                 *)
Deliver(c) ==
  /\ Doing(c, "deliver")
  /\ \/ InsertionDelivered(c, cmd[c].id)
     \/ ~Submittable(cmd[c].id, "InsertionDelivered") /\ UNCHANGED vars
  /\ Step(c, "reset")
  /\ UNCHANGED <<serviceFrame, tests>>

(* How the call that returns with this step of the runtime ends.           *)
Succeeds(t) ==
  \/ At(t, "store") /\ Holds("Arming", op[t].id)
  \/ At(t, "keep") /\ Holds("Finalizing", op[t].id)
  \/ At(t, "unreserve") /\ Holds("Transcribing", op[t].id)
  \/ At(t, "nospeech") /\ Submittable(op[t].id, "Cancel")

Resume(c) ==
  CASE Doing(c, "starting")     -> IF Succeeds(c) THEN "install" ELSE "uninstall"
    [] Doing(c, "finalizing")   -> IF ~Succeeds(c) THEN "leave"
                                   ELSE IF cmd[c].call = "finish" THEN "transcribe"
                                   ELSE "cancel_session"
    [] Doing(c, "transcribing") -> IF ~Succeeds(c) THEN "fail_recognition"
                                   ELSE IF At(c, "unreserve") THEN "await"
                                   ELSE "leave"
    [] OTHER                    -> "leave"

(* The desktop never asks for a transform (capture.rs, requires_transform  *)
(* is false).                                                              *)
RuntimeStep(c) ==
  /\ Continue(c)
  /\ current'.state # "Transforming"
  /\ IF op'[c] = Idle THEN Step(c, Resume(c)) ELSE UNCHANGED cmd
  /\ UNCHANGED <<serviceFrame, tests>>

---------------------------------------------------------------------------
(* The pump thread: pump, then wait for the stop signal or 10 ms.          *)

pumpFrame == <<control, slot, cmd, tests, caller>>

PumpAt(p, step) == pump[p].pc = step

PumpTo(p, step) == pump' = [pump EXCEPT ![p].pc = step]

PumpFails(p) == pump' = [pump EXCEPT ![p].pc = "exited", ![p].failed = TRUE]

MayPump(p) == current.id = pump[p].id /\ current.state = "Recording"

PumpCall(p) ==
  /\ PumpAt(p, "call")
  /\ \/ PumpRecording(p, pump[p].id) /\ PumpTo(p, "pumping")
     \/ ~MayPump(p) /\ PumpFails(p) /\ UNCHANGED vars
  /\ UNCHANGED pumpFrame

PumpStep(p) ==
  /\ PumpAt(p, "pumping")
  /\ Continue(p)
  /\ IF op'[p] # Idle
       THEN UNCHANGED pump
       ELSE IF At(p, "pump") /\ Holds("Recording", op[p].id) THEN PumpTo(p, "check")
       ELSE PumpFails(p)
  /\ UNCHANGED pumpFrame

PumpCheck(p) ==
  /\ PumpAt(p, "check")
  /\ IF MayPump(p) THEN PumpTo(p, "wait") ELSE PumpFails(p)
  /\ UNCHANGED <<pumpFrame, vars>>

PumpWait(p) ==
  /\ PumpAt(p, "wait")
  /\ PumpTo(p, IF pump[p].stop THEN "exited" ELSE "call")
  /\ UNCHANGED <<pumpFrame, vars>>

---------------------------------------------------------------------------

DesktopInit ==
  /\ Init
  /\ control = [start_in_flight |-> FALSE, worker |-> NoPump]
  /\ pump = [p \in Pumps |-> NoWorker]
  /\ slot = SlotIdle
  /\ cmd = [c \in Commands |-> NoCall]
  /\ tests = {}
  /\ caller \in Callers

Serve(c) ==
  \/ ClaimStart(c) \/ Load(c) \/ Occupy(c)
  \/ ClaimFinish(c) \/ AwaitInsertion(c) \/ BeginInsertion(c) \/ InsertText(c)
  \/ EnsureInserting(c) \/ ClaimCancel(c) \/ Reset(c)
  \/ ClaimCapture(c) \/ Install(c) \/ Uninstall(c)
  \/ FinishTake(c) \/ CancelTake(c) \/ Join(c)
  \/ Begins(c) \/ Finalizes(c) \/ Transcribes(c) \/ FailsRecognition(c)
  \/ FailsDelivery(c) \/ Cancels(c) \/ Deliver(c) \/ RuntimeStep(c)

Drain(p) == PumpCall(p) \/ PumpStep(p) \/ PumpCheck(p) \/ PumpWait(p)

DesktopNext ==
  \/ \E c \in Commands : Command(c) \/ Serve(c)
  \/ \E p \in Pumps : Drain(p)

DesktopSpec == DesktopInit /\ [][DesktopNext]_desktopVars

(* A call that was accepted is carried out and a worker keeps draining:    *)
(* both are operating system threads, and native calls return.             *)
DesktopFairSpec ==
  /\ DesktopSpec
  /\ \A c \in Commands : WF_desktopVars(Serve(c))
  /\ \A p \in Pumps : WF_desktopVars(Drain(p))

---------------------------------------------------------------------------
(* Properties.                                                             *)

(* The services call the runtime with the discipline its invariants need:  *)
(* every step of theirs is a step of the disciplined runtime, even when    *)
(* microphone test calls name the sessions of dictations (capture.rs binds *)
(* the worker to its session and refuses to cancel during a start).        *)
Runtime == INSTANCE DictationRuntime WITH Disciplined <- TRUE

ImplementsRuntime == Runtime!Spec

(* Text is typed only for the current session, in Inserting: never for one *)
(* that was cancelled meanwhile (dictation.rs, begin_insertion).           *)
InsertsOnlyCurrent ==
  \A c \in Commands : Doing(c, "insert") =>
    current.id = cmd[c].id /\ current.state = "Inserting"

(* When no call is in flight the owners agree: a live session has a worker *)
(* that a call can claim, and is the microphone test's or the dictation    *)
(* the slot holds, so that some call can still end it.  No sequence of     *)
(* calls leaves a recording that nobody can stop (docs/adr/0013: the slot  *)
(* "binds that worker to the session ID that created it").  The page waits *)
(* for each answer; for overlapping calls see InsertionOwnsSlot.           *)
Quiet == \A c \in Commands : cmd[c] = NoCall

HasWorker(s) == control.worker # NoPump /\ pump[control.worker].id = s

ServicesAgree ==
  caller = "page" /\ Quiet =>
    /\ ~control.start_in_flight
    /\ slot.state \in {"Idle", "Recording"}
    /\ Live => /\ HasWorker(current.id)
               /\ slot = In("Recording", current.id) \/ current.id \in tests

(* Every call returns: joining a worker ends, whatever the worker is doing *)
(* and whoever else calls.                                                 *)
CallsReturn == \A c \in Commands : cmd[c] # NoCall ~> cmd[c] = NoCall

(* The slot is never left in a state that only a call in flight can end.   *)
SlotSettles == slot.state \notin {"Idle", "Recording"} ~> slot.state \in {"Idle", "Recording"}

(* docs/adr/0013: a worker that terminated with a pump failure is claimed  *)
(* by the matching finish or cancel, and not silently reaped.  A start     *)
(* that comes first reaps it; see the README, Findings.                    *)
Claims(p) == \E c \in Commands : cmd'[c].pump = p

FailureClaimable ==
  [][\A p \in Pumps :
       control.worker = p /\ Exited(p) /\ pump[p].failed /\ control'.worker # p => Claims(p)
    ]_desktopVars

(* docs/adr/0023: while text is inserted the slot is Inserting for that    *)
(* session, so that neither a cancel nor another session interferes.       *)
InsertionOwnsSlot ==
  \A c \in Commands :
    cmd[c].pc \in {"insert", "complete", "fail_insertion"} => slot = In("Inserting", cmd[c].id)
=============================================================================
