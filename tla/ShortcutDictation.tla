--------------------------- MODULE ShortcutDictation ---------------------------
(***************************************************************************)
(* The two ways to control a dictation: the global shortcut, through the   *)
(* controller (crates/blcvoice-shortcuts) and the dictation coordinator    *)
(* (coordinator.rs, shortcut.rs), and the buttons of the page (app.js).    *)
(* Both call the dictation service, of which only the slot is kept here:   *)
(* every call claims it in one step and has its outcome in another.        *)
(***************************************************************************)
EXTENDS Naturals, Sequences

CONSTANTS
  Workers,        \* the tasks that may be running at once
  Modes,          \* the interaction modes the shortcut may be set up with
  Controls,       \* which of "shortcut" and "page" the user works with
  Environments,   \* desktop environments the program may find itself in
  MaxSession,     \* how many dictations are recorded
  MaxEvents       \* how many lifecycle events may wait for the page

ASSUME ShortcutAssumptions ==
  /\ Modes \subseteq {"Toggle", "PushToTalk"}
  /\ Controls \subseteq {"shortcut", "page"}
  /\ Environments \subseteq {"windows", "macos", "x11", "wayland", "unknown", "other"}
  /\ MaxSession \in Nat
  /\ MaxEvents \in Nat \ {0}

VARIABLES
  controller,     \* its mode, the key, and whether it believes a dictation was requested
  environment,    \* what platform detection has found
  registration,   \* how far the shortcut is registered
  handler,        \* the thread that routes shortcut phases
  coord,          \* the shortcut dictation coordinator
  slot,           \* the slot of the dictation service
  started,        \* how many sessions have been started
  task,           \* per worker, the call it serves, its step and session
  events,         \* lifecycle events the page has not handled
  page            \* the page's view of the dictation

registrationVars == <<environment, registration>>
shortcutVars == <<controller, registrationVars, handler, coord>>
vars == <<shortcutVars, slot, started, task, events, page>>

---------------------------------------------------------------------------

Sessions == 1 .. MaxSession

In(state, s) == [state |-> state, id |-> s]

Idle == In("Idle", 0)

Coordinating(state, s, stop) == [state |-> state, id |-> s, stop_requested |-> stop]

CoordIdle == Coordinating("Idle", 0, FALSE)

Free == [origin |-> "none", pc |-> "none", id |-> 0]

Steps == {"none", "start", "preparing", "started", "start_failed",
          "finish", "transcribing", "finished",
          "cancel", "cancelling", "cancelled", "cancel_failed",
          "recording", "stop_queued", "spawn_finish", "reset", "report"}

(* resolve_shortcut_backend: on Wayland only the portal is used.           *)
Backend ==
  CASE environment \in {"windows", "macos", "x11"} -> "native"
    [] environment = "wayland" -> "portal"
    [] OTHER -> "none"

TypeOK ==
  /\ controller \in [mode: Modes, key_is_down: BOOLEAN, dictation_requested: BOOLEAN]
  /\ environment \in Environments
  /\ registration \in {"Pending", "Registering", "Registered", "Failed", "Unavailable"}
  /\ registration = "Unavailable" <=> Backend = "none"
  /\ handler \in [pc: {"idle", "start", "starting", "stop", "finishing"}, id: 0 .. MaxSession]
  /\ coord \in [state: {"Idle"}, id: {0}, stop_requested: {FALSE}]
           \cup [state: {"Starting"}, id: {0}, stop_requested: BOOLEAN]
           \cup [state: {"Recording", "Finishing"}, id: Sessions, stop_requested: {FALSE}]
  /\ slot \in [state: {"Idle", "Preparing"}, id: {0}]
           \cup [state: {"Recording", "Finishing"}, id: Sessions]
  /\ started \in 0 .. MaxSession
  /\ task \in [Workers -> [origin: {"none", "shortcut", "page"}, pc: Steps, id: 0 .. MaxSession]]
  /\ events \in Seq({"starting", "recording", "finishing", "ended"})
  /\ Len(events) <= MaxEvents
  /\ page \in [id: 0 .. MaxSession, busy: BOOLEAN, shortcut_active: BOOLEAN]

Goto(k, step) == task' = [task EXCEPT ![k].pc = step]

Spawn(k, origin, step, s) ==
  /\ task[k] = Free
  /\ task' = [task EXCEPT ![k] = [origin |-> origin, pc |-> step, id |-> s]]

Emit(event) ==
  /\ Len(events) < MaxEvents
  /\ events' = Append(events, event)

At(k, origin, step) == task[k].origin = origin /\ task[k].pc = step

---------------------------------------------------------------------------
(* The controller.  Native backends repeat Pressed while a key is held.    *)

Starts(c, phase) ==
  /\ phase = "Pressed"
  /\ ~c.key_is_down
  /\ ~c.dictation_requested

(* Fault: releasing the key stops nothing.                                 *)
StopsOnPress(c, phase) ==
  /\ c.dictation_requested
  /\ c.mode = "Toggle" /\ phase = "Pressed" /\ ~c.key_is_down

Stops(c, phase) ==
  /\ c.dictation_requested
  /\ \/ c.mode = "Toggle" /\ phase = "Pressed" /\ ~c.key_is_down
     \/ c.mode = "PushToTalk" /\ phase = "Released" /\ c.key_is_down

Handled(c, phase) ==
  [c EXCEPT !.key_is_down = phase = "Pressed",
            !.dictation_requested = (@ \/ Starts(c, phase)) /\ ~Stops(c, phase)]

ForceIdle == controller' = [controller EXCEPT !.dictation_requested = FALSE]

registrationFrame == <<environment, handler, coord, slot, started, task, events, page>>

(* install_shortcut_backend: a native hotkey is registered during setup,   *)
(* the portal is asked by a task of its own.                               *)
MarkRegistering ==
  /\ registration = "Pending"
  /\ registration' = "Registering"
  /\ UNCHANGED <<registrationFrame, controller>>

MarkRegistered ==
  /\ registration = "Registering"
  /\ registration' = "Registered"
  /\ UNCHANGED <<registrationFrame, controller>>

(* The registration fails, or the portal's stream of signals ends.         *)
MarkFailed ==
  /\ \/ registration = "Registering"
     \/ registration = "Registered" /\ Backend = "portal" /\ handler.pc = "idle"
  /\ registration' = "Failed"
  /\ ForceIdle
  /\ UNCHANGED registrationFrame

(* Phases are ignored without a registration.                              *)
HandlePhase(phase) ==
  /\ "shortcut" \in Controls
  /\ registration = "Registered"
  /\ handler.pc = "idle"
  /\ controller' = Handled(controller, phase)
  /\ handler' = [handler EXCEPT !.pc = IF Starts(controller, phase) THEN "start"
                                       ELSE IF Stops(controller, phase) THEN "stop"
                                       ELSE "idle"]
  /\ UNCHANGED <<registrationVars, coord, slot, started, task, events, page>>

---------------------------------------------------------------------------
(* The coordinator's side of the routing thread.                           *)

HandlerDone == handler' = [pc |-> "idle", id |-> 0]

(* Fault: a start is accepted in every state.                              *)
BeginStartAnyway ==
  /\ handler.pc = "start"
  /\ coord' = Coordinating("Starting", 0, FALSE)
  /\ handler' = [handler EXCEPT !.pc = "starting"]
  /\ UNCHANGED <<controller, registrationVars, slot, started, task, events, page>>

BeginStart ==
  /\ handler.pc = "start"
  /\ IF coord.state = "Idle"
       THEN /\ coord' = Coordinating("Starting", 0, FALSE)
            /\ handler' = [handler EXCEPT !.pc = "starting"]
       ELSE UNCHANGED coord /\ HandlerDone
  /\ UNCHANGED <<controller, registrationVars, slot, started, task, events, page>>

SpawnStart(k) ==
  /\ handler.pc = "starting"
  /\ Emit("starting")
  /\ Spawn(k, "shortcut", "start", 0)
  /\ HandlerDone
  /\ UNCHANGED <<controller, registrationVars, coord, slot, started, page>>

BeginStop ==
  /\ handler.pc = "stop"
  /\ \/ /\ coord.state = "Starting"
        /\ coord' = [coord EXCEPT !.stop_requested = TRUE]
        /\ HandlerDone
     \/ /\ coord.state = "Recording"
        /\ coord' = [coord EXCEPT !.state = "Finishing"]
        /\ handler' = [pc |-> "finishing", id |-> coord.id]
     \/ /\ coord.state \in {"Idle", "Finishing"}
        /\ HandlerDone
        /\ UNCHANGED coord
  /\ UNCHANGED <<controller, registrationVars, slot, started, task, events, page>>

SpawnFinish(k) ==
  /\ handler.pc = "finishing"
  /\ Emit("finishing")
  /\ Spawn(k, "shortcut", "finish", handler.id)
  /\ HandlerDone
  /\ UNCHANGED <<controller, registrationVars, coord, slot, started, page>>

---------------------------------------------------------------------------
(* The dictation service, called for the shortcut and for the page.        *)

serviceFrame == <<shortcutVars, events, page>>

(* A microphone and a model are found and the slot is claimed, or not.     *)
ClaimStart(k) ==
  /\ task[k].pc = "start"
  /\ \/ /\ slot = Idle
        /\ slot' = In("Preparing", 0)
        /\ Goto(k, "preparing")
     \/ /\ Goto(k, "start_failed")
        /\ UNCHANGED slot
  /\ UNCHANGED <<serviceFrame, started>>

(* The model is loaded and the microphone opened; if anything fails, or    *)
(* the claim was lost meanwhile, the slot is reset.                        *)
Start(k) ==
  /\ task[k].pc = "preparing"
  /\ \/ /\ slot.state = "Preparing"
        /\ started < MaxSession
        /\ started' = started + 1
        /\ slot' = In("Recording", started')
        /\ task' = [task EXCEPT ![k].pc = "started", ![k].id = started']
     \/ /\ slot' = Idle
        /\ Goto(k, "start_failed")
        /\ UNCHANGED started
  /\ UNCHANGED serviceFrame

ClaimFinish(k) ==
  /\ task[k].pc = "finish"
  /\ IF slot = In("Recording", task[k].id)
       THEN slot' = In("Finishing", task[k].id) /\ Goto(k, "transcribing")
       ELSE UNCHANGED slot /\ Goto(k, "finished")
  /\ UNCHANGED <<serviceFrame, started>>

Finish(k) ==
  /\ task[k].pc = "transcribing"
  /\ slot' = Idle
  /\ Goto(k, "finished")
  /\ UNCHANGED <<serviceFrame, started>>

ClaimCancel(k) ==
  /\ task[k].pc = "cancel"
  /\ IF slot = In("Recording", task[k].id)
       THEN slot' = Idle /\ Goto(k, "cancelling")
       ELSE UNCHANGED slot /\ Goto(k, "cancel_failed")
  /\ UNCHANGED <<serviceFrame, started>>

(* The slot is reset once more when the capture has been cancelled.        *)
Cancel(k) ==
  /\ task[k].pc = "cancelling"
  /\ slot' = Idle
  /\ \E outcome \in {"cancelled", "cancel_failed"} : Goto(k, outcome)
  /\ UNCHANGED <<serviceFrame, started>>

---------------------------------------------------------------------------
(* The coordinator's side of its start and finish tasks.                   *)

coordFrame == <<registrationVars, handler, slot, started, page>>

(* Fault: the queued stop is overlooked.                                   *)
CompleteStartForgetful(k) ==
  /\ At(k, "shortcut", "started")
  /\ IF coord.state = "Starting"
       THEN /\ coord' = Coordinating("Recording", task[k].id, FALSE)
            /\ Goto(k, "recording")
       ELSE UNCHANGED coord /\ Goto(k, "cancel")
  /\ UNCHANGED <<coordFrame, controller, events>>

(* complete_start.  A start the coordinator no longer expects is cancelled.*)
CompleteStart(k) ==
  /\ At(k, "shortcut", "started")
  /\ IF coord.state = "Starting"
       THEN /\ coord' = Coordinating(IF coord.stop_requested THEN "Finishing" ELSE "Recording",
                                  task[k].id, FALSE)
            /\ Goto(k, IF coord.stop_requested THEN "stop_queued" ELSE "recording")
       ELSE UNCHANGED coord /\ Goto(k, "cancel")
  /\ UNCHANGED <<coordFrame, controller, events>>

(* Fault: the finish a queued stop asks for is not spawned.                *)
EmitRecordingOnly(k) ==
  /\ task[k].pc \in {"recording", "stop_queued"}
  /\ Emit("recording")
  /\ task' = [task EXCEPT ![k] = Free]
  /\ UNCHANGED <<coordFrame, controller, coord>>

EmitRecording(k) ==
  /\ task[k].pc \in {"recording", "stop_queued"}
  /\ Emit("recording")
  /\ task' = [task EXCEPT ![k] = IF @.pc = "recording" THEN Free
                                 ELSE [@ EXCEPT !.pc = "spawn_finish"]]
  /\ UNCHANGED <<coordFrame, controller, coord>>

SpawnQueuedFinish(k) ==
  /\ task[k].pc = "spawn_finish"
  /\ Emit("finishing")
  /\ Goto(k, "finish")
  /\ UNCHANGED <<coordFrame, controller, coord>>

(* Fault: the coordinator is left in Finishing.                            *)
CompleteFinishForgotten(k) ==
  /\ At(k, "shortcut", "finished")
  /\ Goto(k, "report")
  /\ UNCHANGED <<coordFrame, controller, coord, events>>

CompleteFinish(k) ==
  /\ At(k, "shortcut", "finished")
  /\ coord' = IF coord = Coordinating("Finishing", task[k].id, FALSE)
                THEN CoordIdle
                ELSE coord
  /\ Goto(k, "report")
  /\ UNCHANGED <<coordFrame, controller, events>>

(* A start that failed resets the coordinator and then the controller.     *)
ResetCoordinator(k) ==
  /\ task[k].origin = "shortcut"
  /\ task[k].pc \in {"start_failed", "cancelled", "cancel_failed"}
  /\ coord' = CoordIdle
  /\ Goto(k, "reset")
  /\ UNCHANGED <<coordFrame, controller, events>>

ResetController(k) ==
  /\ task[k].pc = "reset"
  /\ ForceIdle
  /\ Goto(k, "report")
  /\ UNCHANGED <<coordFrame, coord, events>>

(* The completed, noSpeech or failed event; the page treats them alike.    *)
ReportEnd(k) ==
  /\ task[k].pc = "report"
  /\ Emit("ended")
  /\ task' = [task EXCEPT ![k] = Free]
  /\ UNCHANGED <<coordFrame, controller, coord>>

---------------------------------------------------------------------------
(* The page: its buttons, the replies to its calls, and the events.        *)

pageFrame == <<shortcutVars, slot, started>>

ButtonsEnabled == "page" \in Controls /\ ~page.busy /\ ~page.shortcut_active

ClickStart(k) ==
  /\ ButtonsEnabled
  /\ page.id = 0
  /\ Spawn(k, "page", "start", 0)
  /\ page' = [page EXCEPT !.busy = TRUE]
  /\ UNCHANGED <<pageFrame, events>>

ClickStopOrCancel(k) ==
  /\ ButtonsEnabled
  /\ page.id # 0
  /\ \E call \in {"finish", "cancel"} : Spawn(k, "page", call, page.id)
  /\ page' = [page EXCEPT !.busy = TRUE]
  /\ UNCHANGED <<pageFrame, events>>

(* What a reply leaves in dictationSessionId: a failed start or cancel     *)
(* does not touch it.                                                      *)
IdAfterReply(k) ==
  CASE task[k].pc = "started" -> task[k].id
    [] task[k].pc \in {"finished", "cancelled"} -> 0
    [] task[k].pc \in {"start_failed", "cancel_failed"} -> page.id

Reply(k) ==
  /\ task[k].origin = "page"
  /\ task[k].pc \in {"started", "start_failed", "finished", "cancelled", "cancel_failed"}
  /\ page' = [page EXCEPT !.id = IdAfterReply(k), !.busy = FALSE]
  /\ task' = [task EXCEPT ![k] = Free]
  /\ UNCHANGED <<pageFrame, events>>

HandleEvent ==
  /\ events # <<>>
  /\ events' = Tail(events)
  /\ page' = [id              |-> 0,
              busy            |-> Head(events) \in {"starting", "finishing"},
              shortcut_active |-> Head(events) # "ended"]
  /\ UNCHANGED <<pageFrame, task>>

---------------------------------------------------------------------------

Init ==
  /\ controller \in [mode: Modes, key_is_down: {FALSE}, dictation_requested: {FALSE}]
  /\ environment \in Environments
  /\ registration = IF Backend = "none" THEN "Unavailable" ELSE "Pending"
  /\ handler = [pc |-> "idle", id |-> 0]
  /\ coord = CoordIdle
  /\ slot = Idle
  /\ started = 0
  /\ task = [k \in Workers |-> Free]
  /\ events = <<>>
  /\ page = [id |-> 0, busy |-> FALSE, shortcut_active |-> FALSE]

Route == BeginStart \/ BeginStop \/ \E k \in Workers : SpawnStart(k) \/ SpawnFinish(k)

Serve(k) ==
  \/ ClaimStart(k) \/ Start(k) \/ ClaimFinish(k) \/ Finish(k) \/ ClaimCancel(k) \/ Cancel(k)
  \/ CompleteStart(k) \/ EmitRecording(k) \/ SpawnQueuedFinish(k)
  \/ CompleteFinish(k) \/ ResetCoordinator(k) \/ ResetController(k) \/ ReportEnd(k)
  \/ Reply(k)

User ==
  \/ \E phase \in {"Pressed", "Released"} : HandlePhase(phase)
  \/ \E k \in Workers : ClickStart(k) \/ ClickStopOrCancel(k)

Registration == MarkRegistering \/ MarkRegistered \/ MarkFailed

Next == User \/ Registration \/ Route \/ HandleEvent \/ \E k \in Workers : Serve(k)

Spec == Init /\ [][Next]_vars

(* Tasks that were spawned run to their end and the page's event loop      *)
(* turns; nothing is assumed of the user.                                  *)
FairSpec ==
  /\ Spec
  /\ WF_vars(Route)
  /\ WF_vars(HandleEvent)
  /\ \A k \in Workers : WF_vars(Serve(k))

---------------------------------------------------------------------------
(* Properties.                                                             *)

StartingSteps == {"start", "preparing", "started"}
FinishingSteps == {"finish", "transcribing", "finished", "spawn_finish", "stop_queued"}

(* The coordinator keeps one shortcut dictation, and always the one its    *)
(* tasks work on: a start is expected when it completes and a finish       *)
(* frees the coordinator of its own session.                               *)
CoordinatorTracksTask ==
  /\ \A k \in Workers : task[k].origin = "shortcut" =>
       /\ task[k].pc \in StartingSteps => coord.state = "Starting"
       /\ task[k].pc \in FinishingSteps => coord.state = "Finishing" /\ coord.id = task[k].id
  /\ \A j, k \in Workers :
       /\ task[j].origin = "shortcut" /\ task[j].pc \in StartingSteps \cup FinishingSteps
       /\ task[k].origin = "shortcut" /\ task[k].pc \in StartingSteps \cup FinishingSteps
       => j = k

Quiet == handler.pc = "idle" /\ events = <<>> /\ \A k \in Workers : task[k] = Free

(* Whoever started a recording can stop it: when nothing is on its way,    *)
(* the session that records is the shortcut's or the page's               *)
(* (app.js "Press the button or Ctrl + Shift + Space when you are done").  *)
RecordingHasControl ==
  Quiet /\ slot.state = "Recording" =>
    \/ registration = "Registered" /\ coord.state = "Recording" /\ coord.id = slot.id
    \/ page.id = slot.id /\ ~page.shortcut_active

(* A failed toggle does not leave the logical latch active                 *)
(* (docs/adr/0024): at rest the controller believes that a dictation was   *)
(* requested exactly when one is being recorded.  A press refused in       *)
(* Finishing breaks it; see the README, Findings.                          *)
LatchAgrees ==
  Quiet => (controller.dictation_requested <=> coord.state = "Recording")

(* A stop received while starting is applied as soon as a session exists:  *)
(* the dictation does not go on recording.                                 *)
QueuedStopApplied ==
  coord.state = "Starting" /\ coord.stop_requested ~> coord.state = "Idle"

(* Starting and finishing end, and let the next press in.                  *)
CoordinatorSettles ==
  coord.state \in {"Starting", "Finishing"} ~> coord.state \in {"Idle", "Recording"}

KeepsPressing == []<><<HandlePhase("Pressed") /\ ~controller.key_is_down>>_vars

(* No confusion of the controller lasts: a user who goes on pressing stops *)
(* the recording (crates/blcvoice-shortcuts handle, in either mode).       *)
PressingStops ==
  KeepsPressing => (coord.state = "Recording" ~> coord.state # "Recording")
=============================================================================
