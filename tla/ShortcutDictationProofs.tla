------------------------ MODULE ShortcutDictationProofs ------------------------
(***************************************************************************)
(* Theorems about ShortcutDictation for any number of worker tasks, of     *)
(* sessions and of waiting events.                                         *)
(***************************************************************************)
EXTENDS ShortcutDictation, TLAPS

---------------------------------------------------------------------------
(* The types, in parts.                                                    *)

ControllerType == [mode: Modes, key_is_down: BOOLEAN, dictation_requested: BOOLEAN]

HandlerType == [pc: {"idle", "start", "starting", "stop", "finishing"}, id: 0 .. MaxSession]

CoordType ==
  [state: {"Idle", "Starting", "Recording", "Finishing"}, id: 0 .. MaxSession,
   stop_requested: BOOLEAN]

CoordFits ==
  /\ coord \in CoordType
  /\ coord.id = 0 <=> coord.state \in {"Idle", "Starting"}
  /\ coord.stop_requested => coord.state = "Starting"

SlotType == [state: {"Idle", "Preparing", "Recording", "Finishing"}, id: 0 .. MaxSession]

SlotFits ==
  /\ slot \in SlotType
  /\ slot.id = 0 <=> slot.state \in {"Idle", "Preparing"}

TaskType == [origin: {"none", "shortcut", "page"}, pc: Steps, id: 0 .. MaxSession]

PageType == [id: 0 .. MaxSession, busy: BOOLEAN, shortcut_active: BOOLEAN]

Event == {"starting", "recording", "finishing", "ended"}

RegistrationType ==
  /\ environment \in Environments
  /\ registration \in {"Pending", "Registering", "Registered", "Failed", "Unavailable"}
  /\ registration = "Unavailable" <=> Backend = "none"

Types ==
  /\ controller \in ControllerType
  /\ RegistrationType
  /\ handler \in HandlerType
  /\ CoordFits
  /\ SlotFits
  /\ started \in 0 .. MaxSession
  /\ task \in [Workers -> TaskType]
  /\ events \in Seq(Event)
  /\ Len(events) <= MaxEvents
  /\ page \in PageType

---------------------------------------------------------------------------
(* The inductive invariants.                                               *)

(* The steps on the way of the one dictation the coordinator keeps.        *)
WaitingSteps == StartingSteps \cup {"start_failed"}

ActiveSteps == WaitingSteps \cup FinishingSteps

Shortcut(k, steps) == task[k].origin = "shortcut" /\ task[k].pc \in steps

(* The coordinator waits for the task that starts or finishes, and has not *)
(* been told to spawn another; no start of the shortcut is ever cancelled. *)
TasksAwaited ==
  \A k \in Workers :
    /\ Shortcut(k, WaitingSteps) => coord.state = "Starting"
    /\ Shortcut(k, FinishingSteps) => coord.state = "Finishing" /\ coord.id = task[k].id
    /\ Shortcut(k, ActiveSteps) => handler.pc \notin {"starting", "finishing"}
    /\ ~Shortcut(k, {"cancel", "cancelling", "cancelled", "cancel_failed"})

OneActive ==
  \A j, k \in Workers : Shortcut(j, ActiveSteps) /\ Shortcut(k, ActiveSteps) => j = k

(* What the routing thread is about to spawn is what the coordinator keeps. *)
HandlerAwaited ==
  /\ handler.pc = "starting" => coord.state = "Starting"
  /\ handler.pc = "finishing" => coord.state = "Finishing" /\ coord.id = handler.id

(* A task that has started a session has its id.                           *)
StartedHasId == \A k \in Workers : task[k].pc = "started" => task[k].id \in Sessions

TrackingInv == Types /\ TasksAwaited /\ OneActive /\ HandlerAwaited /\ StartedHasId

(* Without the page every task is the shortcut's.                          *)
SpawnedByShortcut == \A k \in Workers : task[k] = Free \/ task[k].origin = "shortcut"

(* Only a registered shortcut is routed; the portal's may end at any time. *)
RoutedWhileRegistered ==
  coord.state # "Idle" \/ handler.pc # "idle" =>
    registration = "Registered" \/ Backend = "portal"

(* Whoever will end the recording the slot is in: the user by the next     *)
(* press, a stop on its way, or the start that has not reported it yet.    *)
RecordingAwaited ==
  slot.state = "Recording" =>
    \/ coord.state = "Recording" /\ coord.id = slot.id
    \/ /\ coord.state = "Finishing" /\ coord.id = slot.id
       /\ \/ handler.pc = "finishing"
          \/ \E k \in Workers : task[k].pc \in {"stop_queued", "spawn_finish", "finish"}
    \/ \E k \in Workers : task[k].pc = "started" /\ task[k].id = slot.id

ControlInv == TrackingInv /\ SpawnedByShortcut /\ RoutedWhileRegistered /\ RecordingAwaited

---------------------------------------------------------------------------
(* Types are kept.                                                         *)

(* The parts are the type invariant of the module.                         *)
LEMMA TypesAreTypeOK == Types => TypeOK
<1> SUFFICES ASSUME Types PROVE TypeOK
  OBVIOUS
<1>1. coord \in [state: {"Idle"}, id: {0}, stop_requested: {FALSE}]
        \cup [state: {"Starting"}, id: {0}, stop_requested: BOOLEAN]
        \cup [state: {"Recording", "Finishing"}, id: Sessions, stop_requested: {FALSE}]
  <2>1. coord \in CoordType
    BY DEF Types, CoordFits
  <2>2. coord.state = "Idle" => coord \in [state: {"Idle"}, id: {0}, stop_requested: {FALSE}]
    BY <2>1 DEF Types, CoordFits, CoordType
  <2>3. coord.state = "Starting" =>
          coord \in [state: {"Starting"}, id: {0}, stop_requested: BOOLEAN]
    BY <2>1 DEF Types, CoordFits, CoordType
  <2>4. coord.state \in {"Recording", "Finishing"} =>
          coord \in [state: {"Recording", "Finishing"}, id: Sessions, stop_requested: {FALSE}]
    <3> SUFFICES ASSUME coord.state \in {"Recording", "Finishing"}
                 PROVE  coord \in [state: {"Recording", "Finishing"}, id: Sessions,
                                  stop_requested: {FALSE}]
      OBVIOUS
    <3>1. coord.id # 0 /\ ~coord.stop_requested
      BY DEF Types, CoordFits
    <3>2. coord.id \in Sessions
      BY <2>1, <3>1, ShortcutAssumptions DEF CoordType, Sessions
    <3>3. coord.stop_requested = FALSE
      BY <2>1, <3>1 DEF CoordType
    <3> QED
      BY <2>1, <3>2, <3>3 DEF CoordType
  <2>5. coord.state \in {"Idle", "Starting", "Recording", "Finishing"}
    BY <2>1 DEF CoordType
  <2> QED
    BY <2>2, <2>3, <2>4, <2>5
<1>2. slot \in [state: {"Idle", "Preparing"}, id: {0}]
        \cup [state: {"Recording", "Finishing"}, id: Sessions]
  BY ShortcutAssumptions DEF Types, SlotFits, SlotType, Sessions
<1> QED
  BY <1>1, <1>2
  DEF Types, TypeOK, ControllerType, RegistrationType, HandlerType, TaskType, PageType, Event

(* The first state has its type.                                           *)
LEMMA InitHasTypes == Init => Types
<1> SUFFICES ASSUME Init PROVE Types
  OBVIOUS
<1> USE ShortcutAssumptions DEF Init
<1>1. controller \in ControllerType
  BY DEF ControllerType
<1>2. RegistrationType
  BY DEF RegistrationType
<1>3. handler \in HandlerType
  BY DEF HandlerType
<1>4. CoordFits
  BY DEF CoordFits, CoordType, CoordIdle, Coordinating
<1>5. SlotFits
  BY DEF SlotFits, SlotType, Idle, In
<1>6. task \in [Workers -> TaskType]
  BY DEF TaskType, Free, Steps
<1>7. page \in PageType
  BY DEF PageType
<1>8. events \in Seq(Event) /\ Len(events) <= MaxEvents
  OBVIOUS
<1> QED
  BY <1>1, <1>2, <1>3, <1>4, <1>5, <1>6, <1>7, <1>8 DEF Types

(* The environment and the registration are as they were.                  *)
LEMMA RegistrationKept ==
  ASSUME RegistrationType, UNCHANGED registrationVars
  PROVE  RegistrationType'
BY DEF RegistrationType, registrationVars, Backend

(* An event that is emitted keeps the queue within its bound.              *)
LEMMA EmitKeepsTypes ==
  ASSUME Types, NEW event \in Event, Emit(event)
  PROVE  events' \in Seq(Event) /\ Len(events') <= MaxEvents
BY ShortcutAssumptions DEF Types, Emit

(* A task that takes a step, is spawned or is over, has its type.          *)
LEMMA TaskKeepsTypes ==
  ASSUME Types, NEW k \in Workers, NEW step \in Steps, NEW s \in 0 .. MaxSession,
         NEW origin \in {"shortcut", "page"},
         \/ Goto(k, step)
         \/ Spawn(k, origin, step, s)
         \/ task' = [task EXCEPT ![k].pc = step, ![k].id = s]
         \/ task' = [task EXCEPT ![k] = Free]
  PROVE  task' \in [Workers -> TaskType]
<1>1. task \in [Workers -> TaskType]
  BY DEF Types
<1>2. Free \in TaskType
  BY ShortcutAssumptions DEF TaskType, Free, Steps
<1>3. CASE Goto(k, step)
  BY <1>1, <1>3 DEF Goto, TaskType
<1>4. CASE Spawn(k, origin, step, s)
  BY <1>1, <1>4 DEF Spawn, TaskType
<1>5. CASE task' = [task EXCEPT ![k].pc = step, ![k].id = s]
  <2>1. [task[k] EXCEPT !.pc = step, !.id = s] \in TaskType
    BY <1>1 DEF TaskType
  <2>2. task' = [task EXCEPT ![k] = [task[k] EXCEPT !.pc = step, !.id = s]]
    BY <1>1, <1>5
  <2> QED
    BY <1>1, <2>1, <2>2
<1>6. CASE task' = [task EXCEPT ![k] = Free]
  BY <1>1, <1>2, <1>6
<1> QED
  BY <1>3, <1>4, <1>5, <1>6

(* The routing thread keeps the types.                                     *)
LEMMA RouteKeepsTypes ==
  ASSUME Types, Route
  PROVE  Types'
<1> USE DEF HandlerDone
<1>1. coord \in CoordType /\ handler \in HandlerType
  BY DEF Types, CoordFits
<1>2. CASE BeginStart
  <2>1. handler' \in HandlerType
    <3>1. CASE coord.state = "Idle"
      BY <1>1, <1>2, <3>1 DEF BeginStart, HandlerType
    <3>2. CASE coord.state # "Idle"
      BY <1>2, <3>2, ShortcutAssumptions DEF BeginStart, HandlerType
    <3> QED
      BY <3>1, <3>2
  <2>2. CoordFits'
    <3>1. coord' = coord \/ coord' = Coordinating("Starting", 0, FALSE)
      BY <1>2 DEF BeginStart
    <3>2. Coordinating("Starting", 0, FALSE) \in CoordType
      BY ShortcutAssumptions DEF CoordType, Coordinating
    <3>3. CASE coord' = coord
      BY <3>3 DEF CoordFits, Types
    <3>4. CASE coord' = Coordinating("Starting", 0, FALSE)
      BY <3>2, <3>4 DEF CoordFits, Coordinating
    <3> QED
      BY <3>1, <3>3, <3>4
  <2>3. UNCHANGED <<controller, registrationVars, slot, started, task, events, page>>
    BY <1>2 DEF BeginStart
  <2> QED
    BY <2>1, <2>2, <2>3, RegistrationKept DEF Types, SlotFits
<1>3. CASE BeginStop
  <2>1. handler' \in HandlerType
    <3>1. coord.id \in 0 .. MaxSession
      BY <1>1 DEF CoordType
    <3> QED
      BY <1>3, <3>1, ShortcutAssumptions DEF BeginStop, HandlerType
  <2>2. CoordFits'
    <3>1. CASE coord.state = "Starting"
      BY <1>1, <1>3, <3>1 DEF BeginStop, CoordFits, CoordType, Types
    <3>2. CASE coord.state = "Recording"
      BY <1>1, <1>3, <3>2 DEF BeginStop, CoordFits, CoordType, Types
    <3>3. CASE coord.state \notin {"Starting", "Recording"}
      BY <1>1, <1>3, <3>3 DEF BeginStop, CoordFits, Types
    <3> QED
      BY <3>1, <3>2, <3>3
  <2> QED
    BY <1>3, <2>1, <2>2, RegistrationKept DEF BeginStop, Types, SlotFits
<1>4. ASSUME NEW k \in Workers, SpawnStart(k) \/ SpawnFinish(k)
      PROVE  Types'
  <2>1. handler' \in HandlerType
    BY <1>4, ShortcutAssumptions DEF SpawnStart, SpawnFinish, HandlerType
  <2>2. task' \in [Workers -> TaskType]
    <3>1. handler.id \in 0 .. MaxSession /\ 0 \in 0 .. MaxSession
      BY <1>1, ShortcutAssumptions DEF HandlerType
    <3>2. "start" \in Steps /\ "finish" \in Steps
      BY DEF Steps
    <3>3. CASE Spawn(k, "shortcut", "start", 0)
      BY <3>1, <3>2, <3>3, TaskKeepsTypes
    <3>4. CASE Spawn(k, "shortcut", "finish", handler.id)
      BY <3>1, <3>2, <3>4, TaskKeepsTypes
    <3> QED
      BY <1>4, <3>3, <3>4 DEF SpawnStart, SpawnFinish
  <2>3. events' \in Seq(Event) /\ Len(events') <= MaxEvents
    BY <1>4, EmitKeepsTypes DEF SpawnStart, SpawnFinish, Event
  <2> QED
    BY <1>4, <2>1, <2>2, <2>3, RegistrationKept
    DEF SpawnStart, SpawnFinish, Types, CoordFits, SlotFits
<1> QED
  BY <1>2, <1>3, <1>4 DEF Route

(* A call of the dictation service moves its task and the slot.            *)
LEMMA ServiceKeepsTypes ==
  ASSUME Types, NEW k \in Workers,
         \/ ClaimStart(k) \/ Start(k) \/ ClaimFinish(k) \/ Finish(k)
         \/ ClaimCancel(k) \/ Cancel(k)
  PROVE  Types'
<1>1. slot \in SlotType /\ task \in [Workers -> TaskType] /\ started \in 0 .. MaxSession
  BY DEF Types, SlotFits
<1>2. started' \in 0 .. MaxSession
  BY <1>1, ShortcutAssumptions DEF ClaimStart, Start, ClaimFinish, Finish, ClaimCancel, Cancel
<1>3. task' \in [Workers -> TaskType]
  <2>1. CASE \E step \in Steps : Goto(k, step)
    BY <1>1, <2>1 DEF Goto, TaskType
  <2>2. CASE task' = [task EXCEPT ![k].pc = "started", ![k].id = started']
    <3>1. [task[k] EXCEPT !.pc = "started", !.id = started'] \in TaskType
      BY <1>1, <1>2 DEF TaskType, Steps
    <3>2. task' = [task EXCEPT ![k] = [task[k] EXCEPT !.pc = "started", !.id = started']]
      BY <1>1, <2>2
    <3> QED
      BY <1>1, <3>1, <3>2
  <2>3. {"preparing", "start_failed", "transcribing", "finished", "cancelling", "cancelled",
         "cancel_failed"} \subseteq Steps
    BY DEF Steps
  <2>4. CASE Start(k)
    BY <2>1, <2>2, <2>3, <2>4 DEF Start
  <2>5. CASE ClaimStart(k) \/ ClaimFinish(k) \/ ClaimCancel(k)
    BY <2>1, <2>3, <2>5 DEF ClaimStart, ClaimFinish, ClaimCancel
  <2>6. CASE Finish(k) \/ Cancel(k)
    BY <2>1, <2>3, <2>6 DEF Finish, Cancel
  <2> QED
    BY <2>4, <2>5, <2>6
<1>4. SlotFits'
  <2>1. task[k].id \in 0 .. MaxSession
    BY <1>1 DEF TaskType
  <2>2. CASE slot' = slot
    BY <2>2 DEF SlotFits, Types
  <2>3. CASE slot' = Idle \/ slot' = In("Preparing", 0)
    BY <2>3, ShortcutAssumptions DEF SlotFits, SlotType, Idle, In
  <2>4. CASE slot' = In("Finishing", task[k].id) /\ slot = In("Recording", task[k].id)
    BY <2>1, <2>4 DEF SlotFits, SlotType, In, Types
  <2>5. CASE slot' = In("Recording", started') /\ started' = started + 1
    BY <1>1, <1>2, <2>5 DEF SlotFits, SlotType, In
  <2> QED
    BY <2>2, <2>3, <2>4, <2>5 DEF ClaimStart, Start, ClaimFinish, Finish, ClaimCancel, Cancel
<1>5. UNCHANGED <<shortcutVars, events, page>>
  BY DEF ClaimStart, Start, ClaimFinish, Finish, ClaimCancel, Cancel, serviceFrame
<1> QED
  BY <1>2, <1>3, <1>4, <1>5, RegistrationKept DEF Types, CoordFits, shortcutVars
(* The coordinator's side of its tasks keeps the types.                    *)
LEMMA CoordinatorKeepsTypes ==
  ASSUME Types, StartedHasId, NEW k \in Workers,
         \/ CompleteStart(k) \/ EmitRecording(k) \/ SpawnQueuedFinish(k)
         \/ CompleteFinish(k) \/ ResetCoordinator(k) \/ ResetController(k) \/ ReportEnd(k)
  PROVE  Types'
<1>1. coord \in CoordType /\ task \in [Workers -> TaskType]
  BY DEF Types, CoordFits
<1>2. task' \in [Workers -> TaskType]
  <2>1. CASE \E step \in Steps : Goto(k, step)
    BY <1>1, <2>1 DEF Goto, TaskType
  <2>2. CASE task' = [task EXCEPT ![k] = Free]
    BY <1>1, <2>2, ShortcutAssumptions DEF TaskType, Free, Steps
  <2>3. CASE task' = [task EXCEPT ![k] = [@ EXCEPT !.pc = "spawn_finish"]]
    BY <1>1, <2>3 DEF TaskType, Steps
  <2> QED
    BY <2>1, <2>2, <2>3
    DEF CompleteStart, EmitRecording, SpawnQueuedFinish, CompleteFinish, ResetCoordinator,
        ResetController, ReportEnd, Steps
<1>3. CoordFits'
  <2>1. CASE coord' = coord
    BY <2>1 DEF Types, CoordFits
  <2>2. CASE coord' = CoordIdle
    BY <2>2, ShortcutAssumptions DEF CoordFits, CoordType, CoordIdle, Coordinating
  <2>3. CASE At(k, "shortcut", "started")
             /\ \E state \in {"Recording", "Finishing"} :
                  coord' = Coordinating(state, task[k].id, FALSE)
    <3>1. task[k].id \in Sessions
      BY <2>3 DEF At, StartedHasId
    <3> QED
      BY <2>3, <3>1, ShortcutAssumptions DEF CoordFits, CoordType, Coordinating, Sessions
  <2> QED
    BY <2>1, <2>2, <2>3
    DEF CompleteStart, EmitRecording, SpawnQueuedFinish, CompleteFinish, ResetCoordinator,
        ResetController, ReportEnd
<1>4. controller' \in ControllerType
  BY DEF CompleteStart, EmitRecording, SpawnQueuedFinish, CompleteFinish, ResetCoordinator,
         ResetController, ReportEnd, ForceIdle, Types, ControllerType
<1>5. events' \in Seq(Event) /\ Len(events') <= MaxEvents
  <2>1. events' = events \/ Emit("recording") \/ Emit("finishing") \/ Emit("ended")
    BY DEF CompleteStart, EmitRecording, SpawnQueuedFinish, CompleteFinish, ResetCoordinator,
           ResetController, ReportEnd
  <2>2. CASE events' = events
    BY <2>2 DEF Types
  <2> QED
    BY <2>1, <2>2, EmitKeepsTypes DEF Event
<1>6. UNCHANGED <<registrationVars, handler, slot, started, page>>
  BY DEF CompleteStart, EmitRecording, SpawnQueuedFinish, CompleteFinish, ResetCoordinator,
         ResetController, ReportEnd, coordFrame
<1> QED
  BY <1>2, <1>3, <1>4, <1>5, <1>6, RegistrationKept DEF Types, SlotFits

(* The page, its replies and its events keep the types.                    *)
LEMMA PageKeepsTypes ==
  ASSUME Types,
         \/ HandleEvent
         \/ \E k \in Workers : ClickStart(k) \/ ClickStopOrCancel(k) \/ Reply(k)
  PROVE  Types'
<1>1. page \in PageType /\ task \in [Workers -> TaskType] /\ events \in Seq(Event)
  BY DEF Types
<1>2. ASSUME NEW k \in Workers, ClickStart(k) \/ ClickStopOrCancel(k)
      PROVE  Types'
  <2>1. page' \in PageType
    BY <1>1, <1>2 DEF ClickStart, ClickStopOrCancel, PageType
  <2>2. page.id \in 0 .. MaxSession /\ 0 \in 0 .. MaxSession
    BY <1>1, ShortcutAssumptions DEF PageType
  <2>3. \E call \in {"start", "finish", "cancel"}, s \in 0 .. MaxSession : Spawn(k, "page", call, s)
    BY <1>2, <2>2 DEF ClickStart, ClickStopOrCancel
  <2>4. {"start", "finish", "cancel"} \subseteq Steps
    BY DEF Steps
  <2>5. task' \in [Workers -> TaskType]
    BY <2>3, <2>4, TaskKeepsTypes
  <2>6. UNCHANGED <<pageFrame, events>>
    BY <1>2 DEF ClickStart, ClickStopOrCancel
  <2> QED
    BY <2>1, <2>5, <2>6, RegistrationKept DEF Types, CoordFits, SlotFits, pageFrame, shortcutVars
<1>3. ASSUME NEW k \in Workers, Reply(k)
      PROVE  Types'
  <2>1. page.id \in 0 .. MaxSession /\ task[k].id \in 0 .. MaxSession /\ 0 \in 0 .. MaxSession
    BY <1>1, ShortcutAssumptions DEF PageType, TaskType
  <2>2. IdAfterReply(k) \in 0 .. MaxSession
    BY <1>3, <2>1 DEF Reply, IdAfterReply
  <2>3. page' \in PageType
    BY <1>1, <1>3, <2>2 DEF Reply, PageType
  <2>4. task' \in [Workers -> TaskType]
    <3>1. Free \in TaskType
      BY ShortcutAssumptions DEF TaskType, Free, Steps
    <3> QED
      BY <1>1, <1>3, <3>1 DEF Reply
  <2>5. UNCHANGED <<pageFrame, events>>
    BY <1>3 DEF Reply
  <2> QED
    BY <2>3, <2>4, <2>5, RegistrationKept DEF Types, CoordFits, SlotFits, pageFrame, shortcutVars
<1>4. CASE HandleEvent
  <2>1. page' \in PageType
    BY <1>4, ShortcutAssumptions DEF HandleEvent, PageType
  <2>2. events' \in Seq(Event) /\ Len(events') <= MaxEvents
    BY <1>1, <1>4, ShortcutAssumptions DEF HandleEvent, Types
  <2>3. UNCHANGED <<pageFrame, task>>
    BY <1>4 DEF HandleEvent
  <2> QED
    BY <2>1, <2>2, <2>3, RegistrationKept DEF Types, CoordFits, SlotFits, pageFrame, shortcutVars
<1> QED
  BY <1>2, <1>3, <1>4

(* Phases and registration keep the types.                                 *)
LEMMA PhaseKeepsTypes ==
  ASSUME Types, Registration \/ \E phase \in {"Pressed", "Released"} : HandlePhase(phase)
  PROVE  Types'
<1>1. controller \in ControllerType /\ handler \in HandlerType
  BY DEF Types
<1>2. CASE Registration
  <2>1. controller' \in ControllerType
    BY <1>1, <1>2
    DEF Registration, MarkRegistering, MarkRegistered, MarkFailed, ForceIdle, ControllerType
  <2>2. RegistrationType'
    BY <1>2
    DEF Registration, MarkRegistering, MarkRegistered, MarkFailed, registrationFrame, Types,
        RegistrationType, Backend
  <2>3. UNCHANGED registrationFrame
    BY <1>2 DEF Registration, MarkRegistering, MarkRegistered, MarkFailed
  <2> QED
    BY <2>1, <2>2, <2>3 DEF Types, CoordFits, SlotFits, registrationFrame
<1>3. ASSUME NEW phase \in {"Pressed", "Released"}, HandlePhase(phase)
      PROVE  Types'
  <2>1. controller' \in ControllerType
    BY <1>1, <1>3 DEF HandlePhase, Handled, ControllerType
  <2>2. handler' \in HandlerType
    BY <1>1, <1>3 DEF HandlePhase, HandlerType
  <2>3. UNCHANGED <<registrationVars, coord, slot, started, task, events, page>>
    BY <1>3 DEF HandlePhase
  <2> QED
    BY <2>1, <2>2, <2>3, RegistrationKept DEF Types, CoordFits, SlotFits
<1> QED
  BY <1>2, <1>3
---------------------------------------------------------------------------
(* The coordinator keeps track of its tasks.                               *)

Tracking == TasksAwaited /\ OneActive /\ HandlerAwaited /\ StartedHasId

CancelSteps == {"cancel", "cancelling", "cancelled", "cancel_failed"}

(* A task goes on towards what it is awaited for, or is not the shortcut's. *)
GoesOn(k) ==
  \/ task'[k].origin # "shortcut"
  \/ /\ task[k].origin = "shortcut"
     /\ task'[k].pc \in WaitingSteps => task[k].pc \in WaitingSteps
     /\ task'[k].pc \in FinishingSteps =>
          task[k].pc \in FinishingSteps /\ task'[k].id = task[k].id
     /\ task'[k].pc \notin CancelSteps

Others(k) == \A j \in Workers \ {k} : task'[j] = task[j]

(* A task that goes on is still the one awaited.                           *)
LEMMA GoingOnTracks ==
  ASSUME TrackingInv, NEW k \in Workers, UNCHANGED <<coord, handler>>, Others(k), GoesOn(k),
         task'[k].pc = "started" => task'[k].id \in Sessions
  PROVE  Tracking'
<1> USE DEF TrackingInv, Others, GoesOn, Shortcut, ActiveSteps, CancelSteps
<1>1. TasksAwaited'
  BY DEF TasksAwaited
<1>2. OneActive'
  BY DEF OneActive
<1>3. HandlerAwaited'
  BY DEF HandlerAwaited
<1>4. StartedHasId'
  BY DEF StartedHasId
<1> QED
  BY <1>1, <1>2, <1>3, <1>4 DEF Tracking

(* Nothing is awaited while the coordinator is idle or records.            *)
LEMMA NoneAwaited ==
  ASSUME TrackingInv, coord.state \in {"Idle", "Recording"}
  PROVE  /\ \A k \in Workers : ~Shortcut(k, ActiveSteps)
         /\ handler.pc \notin {"starting", "finishing"}
BY DEF TrackingInv, TasksAwaited, HandlerAwaited, Shortcut, ActiveSteps

(* Once an awaited task was answered, none is awaited.                     *)
LEMMA AnsweredTracks ==
  ASSUME TrackingInv, NEW k \in Workers, Shortcut(k, ActiveSteps), Others(k), UNCHANGED handler,
         ~Shortcut(k, ActiveSteps)', ~Shortcut(k, CancelSteps)', task'[k].pc # "started"
  PROVE  Tracking'
<1> USE DEF TrackingInv, Others, Shortcut, CancelSteps
<1>1. handler'.pc \notin {"starting", "finishing"}
  BY DEF TasksAwaited
<1>2. \A j \in Workers : ~Shortcut(j, ActiveSteps)'
  BY DEF OneActive
<1>3. TasksAwaited'
  BY <1>2 DEF TasksAwaited, ActiveSteps
<1>4. OneActive'
  BY <1>2 DEF OneActive
<1>5. HandlerAwaited'
  BY <1>1 DEF HandlerAwaited
<1>6. StartedHasId'
  BY DEF StartedHasId
<1> QED
  BY <1>3, <1>4, <1>5, <1>6 DEF Tracking

(* The routing thread spawns what the coordinator has decided, once.       *)
LEMMA RouteTracks == ASSUME TrackingInv, Route PROVE Tracking'
<1>1. task \in [Workers -> TaskType] /\ CoordFits
  BY DEF TrackingInv, Types
<1>2. CASE (BeginStart \/ BeginStop) /\ UNCHANGED coord /\ handler'.pc = "idle"
  BY <1>2
  DEF BeginStart, BeginStop, TrackingInv, Tracking, TasksAwaited, OneActive, HandlerAwaited,
      StartedHasId, Shortcut
<1>3. CASE BeginStart /\ coord.state = "Idle"
  <2>1. UNCHANGED task /\ handler'.pc = "starting" /\ coord'.state = "Starting"
    BY <1>1, <1>3 DEF BeginStart, Coordinating, TrackingInv, Types, HandlerType
  <2> QED
    BY <1>3, <2>1, NoneAwaited
    DEF TrackingInv, Tracking, TasksAwaited, OneActive, HandlerAwaited, StartedHasId, Shortcut,
        ActiveSteps
<1>4. CASE BeginStop /\ coord.state = "Starting"
  <2>1. /\ UNCHANGED task /\ handler'.pc = "idle"
        /\ coord'.state = coord.state /\ coord'.id = coord.id
    BY <1>1, <1>4 DEF BeginStop, CoordFits, CoordType, HandlerDone
  <2> QED
    BY <2>1
    DEF TrackingInv, Tracking, TasksAwaited, OneActive, HandlerAwaited, StartedHasId, Shortcut
<1>5. CASE BeginStop /\ coord.state = "Recording"
  <2>1. /\ UNCHANGED task /\ handler' = [pc |-> "finishing", id |-> coord.id]
        /\ coord'.state = "Finishing" /\ coord'.id = coord.id
    BY <1>1, <1>5 DEF BeginStop, CoordFits, CoordType
  <2> QED
    BY <1>5, <2>1, NoneAwaited
    DEF TrackingInv, Tracking, TasksAwaited, OneActive, HandlerAwaited, StartedHasId, Shortcut,
        ActiveSteps
<1>6. ASSUME NEW k \in Workers, SpawnStart(k) \/ SpawnFinish(k)
      PROVE  Tracking'
  <2>1. /\ handler.pc \in {"starting", "finishing"} /\ handler'.pc = "idle" /\ UNCHANGED coord
        /\ Others(k)
    BY <1>1, <1>6 DEF SpawnStart, SpawnFinish, HandlerDone, Spawn, Others
  <2>2. \/ handler.pc = "starting" /\ task'[k].pc = "start"
        \/ handler.pc = "finishing" /\ task'[k].pc = "finish" /\ task'[k].id = handler.id
    BY <1>1, <1>6 DEF SpawnStart, SpawnFinish, Spawn
  <2>3. \A j \in Workers : ~Shortcut(j, ActiveSteps)
    BY <2>1 DEF TrackingInv, TasksAwaited
  <2>4. TasksAwaited'
    BY <2>1, <2>2, <2>3
    DEF TrackingInv, TasksAwaited, HandlerAwaited, Shortcut, ActiveSteps, WaitingSteps,
        StartingSteps, FinishingSteps, Others
  <2>5. OneActive'
    BY <2>1, <2>3 DEF OneActive, Shortcut, Others
  <2>6. HandlerAwaited' /\ StartedHasId'
    BY <2>1, <2>2 DEF HandlerAwaited, StartedHasId, TrackingInv, Others
  <2> QED
    BY <2>4, <2>5, <2>6 DEF Tracking
<1>7. CASE BeginStart /\ coord.state # "Idle"
  BY <1>2, <1>7 DEF BeginStart, HandlerDone
<1>8. CASE BeginStop /\ coord.state \in {"Idle", "Finishing"}
  BY <1>2, <1>8 DEF BeginStop, HandlerDone
<1>9. coord.state \in {"Idle", "Starting", "Recording", "Finishing"}
  BY <1>1 DEF CoordFits, CoordType
<1> QED
  BY <1>3, <1>4, <1>5, <1>6, <1>7, <1>8, <1>9 DEF Route

(* The calls of the service take an awaited task on.                       *)
LEMMA ServiceTracks ==
  ASSUME TrackingInv, NEW k \in Workers,
         \/ ClaimStart(k) \/ Start(k) \/ ClaimFinish(k) \/ Finish(k)
         \/ ClaimCancel(k) \/ Cancel(k)
  PROVE  Tracking'
<1>1. task \in [Workers -> TaskType] /\ UNCHANGED <<coord, handler>>
  BY DEF TrackingInv, Types, ClaimStart, Start, ClaimFinish, Finish, ClaimCancel, Cancel,
         serviceFrame, shortcutVars
<1>2. ~Shortcut(k, CancelSteps)
  BY DEF TrackingInv, TasksAwaited, CancelSteps
<1>3. Others(k) /\ task'[k].origin = task[k].origin
  BY <1>1 DEF ClaimStart, Start, ClaimFinish, Finish, ClaimCancel, Cancel, Goto, Others, TaskType
<1>4. CASE Start(k) /\ task'[k].pc = "started"
  <2>1. task[k].pc = "preparing" /\ task'[k].id = started + 1 /\ started < MaxSession
    BY <1>1, <1>4 DEF Start, Goto, TaskType
  <2>2. started + 1 \in Sessions
    BY <2>1, ShortcutAssumptions DEF TrackingInv, Types, Sessions
  <2> QED
    BY <1>1, <1>3, <1>4, <2>1, <2>2, GoingOnTracks
    DEF GoesOn, WaitingSteps, StartingSteps, FinishingSteps, CancelSteps
<1>5. CASE ~(Start(k) /\ task'[k].pc = "started")
  <2>1. \/ task[k].pc = "start" /\ task'[k].pc \in {"preparing", "start_failed"}
        \/ task[k].pc = "preparing" /\ task'[k].pc = "start_failed"
        \/ task[k].pc = "finish" /\ task'[k].pc \in {"transcribing", "finished"}
        \/ task[k].pc = "transcribing" /\ task'[k].pc = "finished"
        \/ task[k].pc \in {"cancel", "cancelling"}
             /\ task'[k].pc \in {"cancelling", "cancelled", "cancel_failed"}
    BY <1>1, <1>5 DEF ClaimStart, Start, ClaimFinish, Finish, ClaimCancel, Cancel, Goto, TaskType
  <2>2. task'[k].id = task[k].id
    BY <1>1, <1>5 DEF ClaimStart, Start, ClaimFinish, Finish, ClaimCancel, Cancel, Goto, TaskType
  <2>3. GoesOn(k)
    BY <1>2, <1>3, <2>1, <2>2
    DEF GoesOn, Shortcut, WaitingSteps, StartingSteps, FinishingSteps, CancelSteps
  <2> QED
    BY <1>1, <1>3, <2>1, <2>3, GoingOnTracks
<1> QED
  BY <1>4, <1>5

(* A completed start or finish is the one the coordinator waits for.       *)
LEMMA CoordinatorTracks ==
  ASSUME TrackingInv, NEW k \in Workers,
         \/ CompleteStart(k) \/ EmitRecording(k) \/ SpawnQueuedFinish(k)
         \/ CompleteFinish(k) \/ ResetCoordinator(k) \/ ResetController(k) \/ ReportEnd(k)
  PROVE  Tracking'
<1>1. task \in [Workers -> TaskType] /\ CoordFits /\ UNCHANGED handler
  BY DEF TrackingInv, Types, CompleteStart, EmitRecording, SpawnQueuedFinish, CompleteFinish,
         ResetCoordinator, ResetController, ReportEnd, coordFrame
<1>2. Others(k)
  BY <1>1
  DEF CompleteStart, EmitRecording, SpawnQueuedFinish, CompleteFinish, ResetCoordinator,
      ResetController, ReportEnd, Goto, Others
<1>3. ~Shortcut(k, CancelSteps)
  BY DEF TrackingInv, TasksAwaited, CancelSteps
<1> USE DEF WaitingSteps, StartingSteps, FinishingSteps, ActiveSteps, CancelSteps
<1>4. CASE CompleteStart(k)
  <2>1. Shortcut(k, WaitingSteps) /\ task[k].id \in Sessions
    BY <1>4 DEF CompleteStart, At, Shortcut, TrackingInv, StartedHasId
  <2>2. coord.state = "Starting"
    BY <2>1 DEF TrackingInv, TasksAwaited
  <2>3. /\ task'[k].origin = task[k].origin /\ task'[k].id = task[k].id
        /\ \/ task'[k].pc = "recording" /\ coord'.state = "Recording"
           \/ task'[k].pc = "stop_queued" /\ coord'.state = "Finishing"
        /\ coord'.id = task[k].id
    BY <1>1, <1>4, <2>2 DEF CompleteStart, Goto, Coordinating, TaskType
  <2>4. \A j \in Workers \ {k} : ~Shortcut(j, ActiveSteps)'
    BY <1>2, <2>1 DEF TrackingInv, OneActive, Shortcut, Others
  <2>5. handler'.pc \notin {"starting", "finishing"}
    BY <1>1, <2>1 DEF TrackingInv, TasksAwaited, Shortcut
  <2>6. TasksAwaited'
    <3>1. ASSUME NEW j \in Workers \ {k} PROVE ~Shortcut(j, CancelSteps)'
      BY <1>2 DEF TrackingInv, TasksAwaited, Shortcut, Others
    <3> QED
      BY <2>3, <2>4, <2>5, <3>1 DEF TasksAwaited, Shortcut
  <2>7. OneActive'
    BY <2>4 DEF OneActive
  <2>8. HandlerAwaited' /\ StartedHasId'
    BY <1>2, <2>3, <2>5 DEF HandlerAwaited, StartedHasId, TrackingInv, Others
  <2> QED
    BY <2>6, <2>7, <2>8 DEF Tracking
<1>5. CASE EmitRecording(k) \/ SpawnQueuedFinish(k)
  <2>1. UNCHANGED coord
    BY <1>5 DEF EmitRecording, SpawnQueuedFinish
  <2>2. \/ task[k].pc = "recording" /\ task'[k].pc = "none"
        \/ task[k].pc \in FinishingSteps /\ task'[k].pc \in FinishingSteps
    BY <1>1, <1>5 DEF EmitRecording, SpawnQueuedFinish, Goto, Free, TaskType
  <2>3. \/ task'[k].origin = "none"
        \/ task'[k].origin = task[k].origin /\ task'[k].id = task[k].id
    BY <1>1, <1>5 DEF EmitRecording, SpawnQueuedFinish, Goto, Free, TaskType
  <2> QED
    BY <1>1, <1>2, <2>1, <2>2, <2>3, GoingOnTracks DEF GoesOn
<1>6. CASE CompleteFinish(k)
  <2>1. /\ Shortcut(k, ActiveSteps) /\ task'[k].pc = "report"
        /\ task'[k].origin = task[k].origin
    BY <1>1, <1>6 DEF CompleteFinish, At, Goto, Shortcut, TaskType
  <2> QED
    BY <1>1, <1>2, <2>1, AnsweredTracks DEF Shortcut
<1>7. CASE ResetCoordinator(k)
  <2>1. /\ Shortcut(k, ActiveSteps) /\ task'[k].pc = "reset"
        /\ task'[k].origin = task[k].origin
    BY <1>1, <1>3, <1>7 DEF ResetCoordinator, Goto, Shortcut, TaskType
  <2> QED
    BY <1>1, <1>2, <2>1, AnsweredTracks DEF Shortcut
<1>8. CASE ResetController(k) \/ ReportEnd(k)
  <2>1. UNCHANGED coord /\ task'[k].pc \in {"report", "none"}
    BY <1>1, <1>8 DEF ResetController, ReportEnd, Goto, Free, TaskType
  <2>2. task'[k].origin \in {"none", task[k].origin}
    BY <1>1, <1>8 DEF ResetController, ReportEnd, Goto, Free, TaskType
  <2> QED
    BY <1>1, <1>2, <2>1, <2>2, GoingOnTracks DEF GoesOn
<1> QED
  BY <1>4, <1>5, <1>6, <1>7, <1>8

(* The page's tasks are not the coordinator's, and a phase that is routed  *)
(* only tells the routing thread what to ask for.                          *)
LEMMA OthersTrack ==
  ASSUME TrackingInv,
         \/ HandleEvent \/ Registration
         \/ \E phase \in {"Pressed", "Released"} : HandlePhase(phase)
         \/ \E k \in Workers : ClickStart(k) \/ ClickStopOrCancel(k) \/ Reply(k)
  PROVE  Tracking'
<1>1. task \in [Workers -> TaskType] /\ handler \in HandlerType
  BY DEF TrackingInv, Types
<1>2. CASE HandleEvent \/ Registration
  BY <1>2
  DEF HandleEvent, Registration, MarkRegistering, MarkRegistered, MarkFailed, pageFrame,
      shortcutVars, registrationFrame, TrackingInv, Tracking, TasksAwaited, OneActive,
      HandlerAwaited, StartedHasId, Shortcut
<1>3. ASSUME NEW phase \in {"Pressed", "Released"}, HandlePhase(phase)
      PROVE  Tracking'
  <2>1. UNCHANGED <<coord, task>> /\ handler'.pc \in {"idle", "start", "stop"}
    BY <1>1, <1>3 DEF HandlePhase, HandlerType
  <2> QED
    BY <2>1
    DEF TrackingInv, Tracking, TasksAwaited, OneActive, HandlerAwaited, StartedHasId, Shortcut
<1>4. ASSUME NEW k \in Workers, ClickStart(k) \/ ClickStopOrCancel(k) \/ Reply(k)
      PROVE  Tracking'
  <2>1. UNCHANGED <<coord, handler>>
    BY <1>4 DEF ClickStart, ClickStopOrCancel, Reply, pageFrame, shortcutVars
  <2>2. \E t \in {Free} \cup [origin: {"page"}, pc: {"start", "finish", "cancel"},
                              id: {0, page.id}] :
          task' = [task EXCEPT ![k] = t]
    <3>1. CASE ClickStart(k)
      BY <3>1 DEF ClickStart, Spawn
    <3>2. CASE ClickStopOrCancel(k)
      BY <3>2 DEF ClickStopOrCancel, Spawn
    <3>3. CASE Reply(k)
      BY <3>3 DEF Reply
    <3> QED
      BY <1>4, <3>1, <3>2, <3>3
  <2>3. Others(k) /\ task'[k].origin # "shortcut" /\ task'[k].pc # "started"
    BY <1>1, <2>2 DEF Others, Free
  <2> QED
    BY <2>1, <2>3, GoingOnTracks DEF GoesOn
<1> QED
  BY <1>2, <1>3, <1>4

(* The invariant holds at first ...                                        *)
LEMMA InitTracks == Init => TrackingInv
BY InitHasTypes
DEF TrackingInv, Init, TasksAwaited, OneActive, HandlerAwaited, StartedHasId, Shortcut,
    ActiveSteps, WaitingSteps, StartingSteps, FinishingSteps, Free

(* ... and is kept by every step.                                          *)
LEMMA NextTracks == TrackingInv /\ [Next]_vars => TrackingInv'
<1> SUFFICES ASSUME TrackingInv, [Next]_vars PROVE TrackingInv'
  OBVIOUS
<1>1. Types /\ StartedHasId
  BY DEF TrackingInv
<1>2. Types' /\ Tracking' => TrackingInv'
  BY DEF TrackingInv, Tracking
<1>3. CASE Route
  BY <1>1, <1>2, <1>3, RouteKeepsTypes, RouteTracks
<1>4. CASE HandleEvent \/ Registration \/ User
  BY <1>1, <1>2, <1>4, PageKeepsTypes, PhaseKeepsTypes, OthersTrack DEF User
<1>5. ASSUME NEW k \in Workers, Serve(k)
      PROVE  TrackingInv'
  BY <1>1, <1>2, <1>5, ServiceKeepsTypes, CoordinatorKeepsTypes, PageKeepsTypes,
     ServiceTracks, CoordinatorTracks, OthersTrack DEF Serve
<1>6. CASE UNCHANGED vars
  BY <1>6, RegistrationKept
  DEF vars, shortcutVars, TrackingInv, Types, CoordFits, SlotFits, TasksAwaited, OneActive,
      HandlerAwaited, StartedHasId, Shortcut
<1> QED
  BY <1>3, <1>4, <1>5, <1>6 DEF Next

(* Every variable keeps its type, for any number of tasks and sessions.    *)
THEOREM ShortcutTypeCorrect == Spec => []TypeOK
<1>1. TrackingInv => TypeOK
  BY TypesAreTypeOK DEF TrackingInv
<1> QED
  BY <1>1, InitTracks, NextTracks, PTL DEF Spec

(* The coordinator keeps one shortcut dictation, the one its tasks work    *)
(* on, whatever the page, the keyboard and the registration do meanwhile.  *)
THEOREM CoordinatorTracksItsTask == Spec => []CoordinatorTracksTask
<1>1. TrackingInv => CoordinatorTracksTask
  BY DEF TrackingInv, TasksAwaited, OneActive, CoordinatorTracksTask, Shortcut, ActiveSteps,
         WaitingSteps
<1> QED
  BY <1>1, InitTracks, NextTracks, PTL DEF Spec
---------------------------------------------------------------------------
(* A recording of the shortcut stays within the shortcut's reach.          *)

StoppingSteps == {"stop_queued", "spawn_finish", "finish"}

(* What ends the recording depends on how far the coordinator is.          *)
LEMMA RecordingCases ==
  ASSUME ControlInv, slot.state = "Recording"
  PROVE  \/ /\ coord.state = "Starting"
            /\ \E k \in Workers : task[k].pc = "started" /\ task[k].id = slot.id
         \/ coord.state = "Recording" /\ coord.id = slot.id
         \/ /\ coord.state = "Finishing" /\ coord.id = slot.id
            /\ \/ handler.pc = "finishing"
               \/ \E k \in Workers : task[k].pc \in StoppingSteps
<1>1. ASSUME NEW k \in Workers, task[k].pc = "started"
      PROVE  coord.state = "Starting"
  <2>1. Shortcut(k, WaitingSteps)
    BY <1>1 DEF ControlInv, SpawnedByShortcut, Shortcut, WaitingSteps, StartingSteps, Free
  <2> QED
    BY <2>1 DEF ControlInv, TrackingInv, TasksAwaited
<1> QED
  BY <1>1 DEF ControlInv, RecordingAwaited, StoppingSteps

(* A recording is still awaited while whatever will end it goes on.        *)
LEMMA StillAwaited ==
  ASSUME ControlInv, UNCHANGED <<slot, coord>>,
         handler.pc = "finishing" => handler'.pc = "finishing",
         \A k \in Workers :
           /\ task[k].pc = "started" => task'[k] = task[k]
           /\ task[k].pc \in StoppingSteps => task'[k].pc \in StoppingSteps
  PROVE  RecordingAwaited'
BY DEF ControlInv, RecordingAwaited, StoppingSteps

(* What is routed, and whose tasks these are, after a step that leaves the *)
(* registration alone.                                                     *)
LEMMA RoutingKept ==
  ASSUME ControlInv, UNCHANGED registrationVars,
         coord'.state # "Idle" \/ handler'.pc # "idle" =>
           coord.state # "Idle" \/ handler.pc # "idle"
  PROVE  RoutedWhileRegistered'
BY DEF ControlInv, RoutedWhileRegistered, registrationVars, Backend

LEMMA OwnerKept ==
  ASSUME ControlInv, NEW k \in Workers, Others(k),
         \/ task'[k] = Free
         \/ task'[k].origin = "shortcut"
         \/ task[k].pc # "none" /\ task'[k].origin = task[k].origin
  PROVE  SpawnedByShortcut'
BY DEF ControlInv, SpawnedByShortcut, Others, Free

Control == SpawnedByShortcut /\ RoutedWhileRegistered /\ RecordingAwaited

(* A stop that is routed is carried to the task that finishes.             *)
LEMMA RouteControls == ASSUME ControlInv, Route PROVE Control'
<1>1. /\ task \in [Workers -> TaskType] /\ coord \in CoordType /\ handler \in HandlerType
      /\ CoordFits
  BY DEF ControlInv, TrackingInv, Types, CoordFits
<1>2. handler.pc # "idle" /\ UNCHANGED <<registrationVars, slot>>
  BY DEF Route, BeginStart, BeginStop, SpawnStart, SpawnFinish
<1>3. RoutedWhileRegistered'
  BY <1>2, RoutingKept
<1>4. CASE (BeginStart \/ BeginStop) /\ UNCHANGED coord
  <2>1. UNCHANGED task /\ handler.pc # "finishing"
    BY <1>4 DEF BeginStart, BeginStop
  <2> QED
    BY <1>2, <1>3, <1>4, <2>1, StillAwaited DEF Control, ControlInv, SpawnedByShortcut
<1>5. CASE BeginStart /\ coord.state = "Idle"
  <2>1. UNCHANGED <<task, slot>>
    BY <1>5 DEF BeginStart
  <2>2. slot.state # "Recording"
    BY <1>5, RecordingCases
  <2> QED
    BY <1>3, <2>1, <2>2 DEF Control, ControlInv, SpawnedByShortcut, RecordingAwaited
<1>6. CASE BeginStop /\ coord.state = "Starting"
  <2>1. UNCHANGED <<task, slot>>
    BY <1>6 DEF BeginStop
  <2>2. RecordingAwaited'
    BY <1>6, <2>1, RecordingCases DEF RecordingAwaited
  <2> QED
    BY <1>3, <2>1, <2>2 DEF Control, ControlInv, SpawnedByShortcut
<1>7. CASE BeginStop /\ coord.state = "Recording"
  <2>1. UNCHANGED <<task, slot>> /\ handler'.pc = "finishing"
    BY <1>7 DEF BeginStop
  <2>2. coord'.state = "Finishing" /\ coord'.id = coord.id
    BY <1>1, <1>7 DEF BeginStop, CoordType
  <2>3. RecordingAwaited'
    BY <1>7, <2>1, <2>2, RecordingCases DEF RecordingAwaited
  <2> QED
    BY <1>3, <2>1, <2>3 DEF Control, ControlInv, SpawnedByShortcut
<1>8. ASSUME NEW k \in Workers, SpawnStart(k)
      PROVE  Control'
  <2>1. UNCHANGED <<slot, coord>> /\ handler.pc = "starting" /\ task[k] = Free
    BY <1>8 DEF SpawnStart, Spawn
  <2>2. Others(k) /\ task'[k].origin = "shortcut"
    BY <1>1, <1>8 DEF SpawnStart, Spawn, Others
  <2>3. task[k].pc = "none"
    BY <2>1 DEF Free
  <2>4. RecordingAwaited'
    BY <2>1, <2>2, <2>3, StillAwaited DEF Others, StoppingSteps
  <2> QED
    BY <1>3, <2>2, <2>4, OwnerKept DEF Control
<1>9. ASSUME NEW k \in Workers, SpawnFinish(k)
      PROVE  Control'
  <2>1. UNCHANGED <<slot, coord>> /\ handler.pc = "finishing"
    BY <1>9 DEF SpawnFinish
  <2>2. Others(k) /\ task'[k].origin = "shortcut" /\ task'[k].pc = "finish"
    BY <1>1, <1>9 DEF SpawnFinish, Spawn, Others
  <2>3. coord.state = "Finishing"
    BY <2>1 DEF ControlInv, TrackingInv, HandlerAwaited
  <2>4. RecordingAwaited'
    BY <2>1, <2>2, <2>3, RecordingCases DEF RecordingAwaited
  <2> QED
    BY <1>3, <2>2, <2>4, OwnerKept DEF Control
<1>10. CASE BeginStart /\ coord.state # "Idle"
  BY <1>4, <1>10 DEF BeginStart
<1>11. CASE BeginStop /\ coord.state \in {"Idle", "Finishing"}
  BY <1>4, <1>11 DEF BeginStop
<1>12. coord.state \in {"Idle", "Starting", "Recording", "Finishing"}
  BY <1>1 DEF CoordType
<1> QED
  BY <1>5, <1>6, <1>7, <1>8, <1>9, <1>10, <1>11, <1>12 DEF Route

(* The finish that was awaited takes the slot on; no start is lost.        *)
LEMMA ServiceControls ==
  ASSUME ControlInv, NEW k \in Workers,
         \/ ClaimStart(k) \/ Start(k) \/ ClaimFinish(k) \/ Finish(k)
         \/ ClaimCancel(k) \/ Cancel(k)
  PROVE  Control'
<1>1. /\ task \in [Workers -> TaskType] /\ slot \in SlotType /\ slot.id \in 0 .. MaxSession
      /\ UNCHANGED <<registrationVars, coord, handler>>
  BY DEF ControlInv, TrackingInv, Types, SlotFits, SlotType, ClaimStart, Start, ClaimFinish,
         Finish, ClaimCancel, Cancel, serviceFrame, shortcutVars
<1>2. Others(k) /\ task'[k].origin = task[k].origin /\ task[k].pc # "none"
  BY <1>1
  DEF ClaimStart, Start, ClaimFinish, Finish, ClaimCancel, Cancel, Goto, Others, TaskType
<1>3. SpawnedByShortcut' /\ RoutedWhileRegistered'
  BY <1>1, <1>2, OwnerKept, RoutingKept
<1>4. Shortcut(k, {task[k].pc})
  BY <1>2 DEF ControlInv, SpawnedByShortcut, Shortcut, Free
<1>5. RecordingAwaited'
  <2>1. CASE slot'.state # "Recording"
    BY <2>1 DEF RecordingAwaited
  <2>2. CASE ClaimStart(k) /\ UNCHANGED slot
    BY <1>1, <1>2, <2>2, StillAwaited DEF ClaimStart, Others, StoppingSteps
  <2>3. CASE Start(k) /\ slot' = In("Recording", started')
    <3>1. task'[k].pc = "started" /\ task'[k].id = started'
      BY <1>1, <2>3 DEF Start, Goto, In, Idle, TaskType
    <3>2. slot'.id = started'
      BY <2>3 DEF In
    <3> QED
      BY <3>1, <3>2 DEF RecordingAwaited
  <2>4. CASE ClaimFinish(k) /\ slot # In("Recording", task[k].id)
    <3>1. coord.state = "Finishing" /\ coord.id = task[k].id
      BY <1>4, <2>4
      DEF ClaimFinish, ControlInv, TrackingInv, TasksAwaited, Shortcut, FinishingSteps
    <3>2. slot.state = "Recording" => slot = In("Recording", task[k].id)
      BY <1>1, <3>1, RecordingCases DEF SlotType, In
    <3> QED
      BY <2>4, <3>2 DEF ClaimFinish, RecordingAwaited
  <2>5. ~ClaimCancel(k) /\ ~Cancel(k)
    BY <1>4 DEF ClaimCancel, Cancel, ControlInv, TrackingInv, TasksAwaited, Shortcut
  <2>6. CASE ClaimStart(k)
    BY <2>1, <2>2, <2>6 DEF ClaimStart, In
  <2>7. CASE Start(k)
    BY <2>1, <2>3, <2>7 DEF Start, Idle, In
  <2>8. CASE ClaimFinish(k)
    BY <2>1, <2>4, <2>8 DEF ClaimFinish, In
  <2>9. CASE Finish(k)
    BY <2>1, <2>9 DEF Finish, Idle, In
  <2> QED
    BY <2>5, <2>6, <2>7, <2>8, <2>9
<1> QED
  BY <1>3, <1>5 DEF Control

(* The start that completes hands its recording to the coordinator, and a  *)
(* finish that completes leaves none behind.                               *)
LEMMA CoordinatorControls ==
  ASSUME ControlInv, NEW k \in Workers,
         \/ CompleteStart(k) \/ EmitRecording(k) \/ SpawnQueuedFinish(k)
         \/ CompleteFinish(k) \/ ResetCoordinator(k) \/ ResetController(k) \/ ReportEnd(k)
  PROVE  Control'
<1>1. /\ task \in [Workers -> TaskType] /\ coord \in CoordType
      /\ UNCHANGED <<registrationVars, slot, handler>>
  BY DEF ControlInv, TrackingInv, Types, CoordFits, CompleteStart, EmitRecording,
         SpawnQueuedFinish, CompleteFinish, ResetCoordinator, ResetController, ReportEnd,
         coordFrame
<1>2. Others(k) /\ task[k].pc # "none"
  BY <1>1
  DEF CompleteStart, EmitRecording, SpawnQueuedFinish, CompleteFinish, ResetCoordinator,
      ResetController, ReportEnd, Goto, Others, At
<1>3. task'[k] = Free \/ task'[k].origin = task[k].origin
  BY <1>1
  DEF CompleteStart, EmitRecording, SpawnQueuedFinish, CompleteFinish, ResetCoordinator,
      ResetController, ReportEnd, Goto, TaskType
<1>4. SpawnedByShortcut'
  BY <1>2, <1>3, OwnerKept
<1>5. task[k].origin = "shortcut"
  BY <1>2 DEF ControlInv, SpawnedByShortcut, Free
<1> USE DEF ActiveSteps, WaitingSteps, StartingSteps, FinishingSteps
<1>6. CASE CompleteStart(k)
  <2>1. Shortcut(k, WaitingSteps) /\ task[k].pc = "started"
    BY <1>5, <1>6 DEF CompleteStart, At, Shortcut
  <2>2. coord.state = "Starting"
    BY <2>1 DEF ControlInv, TrackingInv, TasksAwaited
  <2>3. /\ \/ task'[k].pc = "recording" /\ coord'.state = "Recording"
           \/ task'[k].pc = "stop_queued" /\ coord'.state = "Finishing"
        /\ coord'.id = task[k].id
    BY <1>1, <1>6, <2>2 DEF CompleteStart, Goto, Coordinating, TaskType
  <2>4. slot.state = "Recording" => task[k].id = slot.id
    <3>1. ASSUME NEW j \in Workers, task[j].pc = "started" PROVE j = k
      <4>1. Shortcut(j, ActiveSteps)
        BY <3>1 DEF ControlInv, SpawnedByShortcut, Shortcut, Free
      <4> QED
        BY <2>1, <4>1 DEF ControlInv, TrackingInv, OneActive, Shortcut
    <3> QED
      BY <2>2, <3>1, RecordingCases
  <2>5. RecordingAwaited'
    BY <1>1, <2>3, <2>4 DEF RecordingAwaited
  <2>6. RoutedWhileRegistered'
    BY <1>1, <2>2, RoutingKept
  <2> QED
    BY <1>4, <2>5, <2>6 DEF Control
<1>7. CASE CompleteFinish(k) \/ ResetCoordinator(k)
  <2>1. Shortcut(k, ActiveSteps) /\ task[k].pc \notin {"started"} \cup StoppingSteps
    BY <1>5, <1>7
    DEF CompleteFinish, ResetCoordinator, At, Shortcut, StoppingSteps, ControlInv, TrackingInv,
        TasksAwaited
  <2>2. handler.pc # "finishing" /\ coord.state # "Recording"
    BY <2>1, NoneAwaited DEF ControlInv, TrackingInv, TasksAwaited
  <2>3. ASSUME NEW j \in Workers, task[j].pc \in {"started"} \cup StoppingSteps PROVE FALSE
    <3>1. Shortcut(j, ActiveSteps)
      BY <2>3 DEF ControlInv, SpawnedByShortcut, Shortcut, Free, StoppingSteps
    <3> QED
      BY <2>1, <2>3, <3>1 DEF ControlInv, TrackingInv, OneActive
  <2>4. slot.state # "Recording"
    BY <2>2, <2>3, RecordingCases
  <2>5. coord'.state # "Idle" => coord.state # "Idle"
    BY <1>7 DEF CompleteFinish, ResetCoordinator, CoordIdle, Coordinating
  <2> QED
    BY <1>1, <1>4, <2>4, <2>5, RoutingKept DEF Control, RecordingAwaited
<1>8. CASE EmitRecording(k) \/ SpawnQueuedFinish(k) \/ ResetController(k) \/ ReportEnd(k)
  <2>1. UNCHANGED coord
    BY <1>8 DEF EmitRecording, SpawnQueuedFinish, ResetController, ReportEnd
  <2>2. /\ task[k].pc # "started"
        /\ task[k].pc \in StoppingSteps => task'[k].pc \in StoppingSteps
    BY <1>1, <1>8
    DEF EmitRecording, SpawnQueuedFinish, ResetController, ReportEnd, Goto, StoppingSteps,
        TaskType
  <2>3. RecordingAwaited'
    BY <1>1, <1>2, <2>1, <2>2, StillAwaited DEF Others
  <2> QED
    BY <1>1, <1>4, <2>1, <2>3, RoutingKept DEF Control
<1> QED
  BY <1>6, <1>7, <1>8

(* The page only looks on, and the registration is not given up while a    *)
(* shortcut dictation is on its way, except by the portal.                 *)
LEMMA OthersControl ==
  ASSUME ControlInv, "page" \notin Controls,
         \/ HandleEvent \/ Registration
         \/ \E phase \in {"Pressed", "Released"} : HandlePhase(phase)
         \/ \E k \in Workers : ClickStart(k) \/ ClickStopOrCancel(k) \/ Reply(k)
  PROVE  Control'
<1>1. handler \in HandlerType
  BY DEF ControlInv, TrackingInv, Types
<1>2. CASE HandleEvent
  <2>1. UNCHANGED <<slot, coord, handler, task, registrationVars>>
    BY <1>2 DEF HandleEvent, pageFrame, shortcutVars
  <2> QED
    BY <2>1, StillAwaited, RoutingKept DEF Control, ControlInv, SpawnedByShortcut
<1>3. CASE Registration
  <2>1. UNCHANGED <<slot, coord, handler, task, environment>>
    BY <1>3 DEF Registration, MarkRegistering, MarkRegistered, MarkFailed, registrationFrame
  <2>2. registration # "Registered" \/ registration' = "Registered" \/ Backend = "portal"
    BY <1>3 DEF Registration, MarkRegistering, MarkRegistered, MarkFailed
  <2>3. RoutedWhileRegistered'
    BY <2>1, <2>2 DEF ControlInv, RoutedWhileRegistered, Backend
  <2> QED
    BY <2>1, <2>3, StillAwaited DEF Control, ControlInv, SpawnedByShortcut
<1>4. ASSUME NEW phase \in {"Pressed", "Released"}, HandlePhase(phase)
      PROVE  Control'
  <2>1. /\ UNCHANGED <<slot, coord, task, registrationVars>>
        /\ handler.pc = "idle" /\ registration = "Registered"
    BY <1>4 DEF HandlePhase
  <2>2. RoutedWhileRegistered'
    BY <2>1 DEF RoutedWhileRegistered, registrationVars
  <2> QED
    BY <2>1, <2>2, StillAwaited DEF Control, ControlInv, SpawnedByShortcut
<1>5. ASSUME NEW k \in Workers, ClickStart(k) \/ ClickStopOrCancel(k) \/ Reply(k)
      PROVE  FALSE
  <2>1. ~ClickStart(k) /\ ~ClickStopOrCancel(k)
    BY DEF ClickStart, ClickStopOrCancel, ButtonsEnabled
  <2>2. task[k].origin # "page"
    BY DEF ControlInv, SpawnedByShortcut, Free
  <2> QED
    BY <1>5, <2>1, <2>2 DEF Reply
<1> QED
  BY <1>2, <1>3, <1>4, <1>5

(* Without the page, the recording is awaited in every state.              *)
LEMMA ShortcutControls ==
  ASSUME "page" \notin Controls
  PROVE  Spec => []ControlInv
<1>1. Init => ControlInv
  BY InitTracks
  DEF ControlInv, Init, SpawnedByShortcut, RoutedWhileRegistered, RecordingAwaited, CoordIdle,
      Coordinating, Idle, In
<1>2. ControlInv /\ [Next]_vars => ControlInv'
  <2> SUFFICES ASSUME ControlInv, [Next]_vars PROVE ControlInv'
    OBVIOUS
  <2>1. TrackingInv'
    BY NextTracks DEF ControlInv
  <2>2. Control' => ControlInv'
    BY <2>1 DEF ControlInv, Control
  <2>3. CASE Route
    BY <2>2, <2>3, RouteControls
  <2>4. CASE HandleEvent \/ Registration \/ User
    BY <2>2, <2>4, OthersControl DEF User
  <2>5. ASSUME NEW k \in Workers, Serve(k)
        PROVE  ControlInv'
    BY <2>2, <2>5, ServiceControls, CoordinatorControls, OthersControl DEF Serve
  <2>6. CASE UNCHANGED vars
    BY <2>1, <2>6, StillAwaited, RoutingKept
    DEF vars, shortcutVars, ControlInv, SpawnedByShortcut
  <2> QED
    BY <2>3, <2>4, <2>5, <2>6 DEF Next
<1> QED
  BY <1>1, <1>2, PTL DEF Spec

(* Who works with the shortcut alone can always stop what was started: at  *)
(* rest a recording is the coordinator's own and the shortcut is           *)
(* registered.  The portal is excepted, whose stream of signals may end.   *)
THEOREM ShortcutKeepsControl ==
  ASSUME "page" \notin Controls
  PROVE  Spec => [](Backend = "portal" \/ RecordingHasControl)
<1>1. ControlInv => Backend = "portal" \/ RecordingHasControl
  <2> SUFFICES ASSUME ControlInv, Backend # "portal", Quiet, slot.state = "Recording"
               PROVE  registration = "Registered" /\ coord.state = "Recording"
                        /\ coord.id = slot.id
    BY DEF RecordingHasControl
  <2>1. coord.state = "Recording" /\ coord.id = slot.id
    BY DEF Quiet, ControlInv, RecordingAwaited, Free
  <2> QED
    BY <2>1 DEF ControlInv, RoutedWhileRegistered
<1> QED
  BY <1>1, ShortcutControls, PTL
=============================================================================
