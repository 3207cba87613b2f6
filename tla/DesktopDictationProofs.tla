------------------------- MODULE DesktopDictationProofs -------------------------
(***************************************************************************)
(* Theorems about DesktopDictation for any number of commands, workers and *)
(* sessions: the services call the runtime with the discipline that its    *)
(* theorems assume, and so those theorems hold of the program; text is     *)
(* typed only for the current session; and no sequence of the page's calls *)
(* leaves a session that nobody can end.                                   *)
(***************************************************************************)
EXTENDS DesktopDictation, DictationRuntimeProofs

(* The runtime as its theorems assume it to be called.                     *)
R == INSTANCE DictationRuntimeProofs WITH Disciplined <- TRUE

---------------------------------------------------------------------------
(* Types.                                                                  *)

ControlType == [start_in_flight: BOOLEAN, worker: Pumps \cup {NoPump}]

PumpType == [pc: {"none", "call", "pumping", "check", "wait", "exited"},
             id: 0 .. MaxSession, stop: BOOLEAN, failed: BOOLEAN]

SlotType == [state: {"Idle", "Preparing"}, id: {0}]
       \cup [state: {"Recording", "Finalizing", "AwaitingInsertion", "Inserting"},
             id: 1 .. MaxSession]

CmdType == [call: Offered \cup {"none"}, pc: CommandSteps, id: 0 .. MaxSession,
            pump: Pumps \cup {NoPump}]

ServiceTypes ==
  /\ control \in ControlType
  /\ pump \in [Pumps -> PumpType]
  /\ slot \in SlotType
  /\ cmd \in [Commands -> CmdType]
  /\ tests \subseteq Begun
  /\ caller \in Callers

---------------------------------------------------------------------------
(* What is at which step.                                                  *)

StartCalls == {"start", "test"}

FinishCalls == {"finish", "test_finish"}

TestCalls == {"test_finish", "test_cancel"}

StartSteps == {"capture", "begin", "starting", "install", "uninstall", "abandon", "abandoning"}

CancelSteps == {"cancel_capture", "cancel_join", "cancel_session", "cancelling"}

CallSteps ==
  [none        |-> {"none"},
   start       |-> StartSteps \cup CancelSteps \cup {"claim", "load", "occupy", "reset"},
   test        |-> StartSteps,
   finish      |-> {"claim", "take", "join", "finalize", "finalizing", "transcribe",
                    "transcribing", "fail_recognition", "failing", "await",
                    "begin_insertion", "insert", "complete", "deliver", "fail_insertion",
                    "fail_delivery", "reset"},
   cancel      |-> CancelSteps \cup {"claim", "reset"},
   test_finish |-> {"take", "join", "finalize", "finalizing", "cancel_session", "cancelling"},
   test_cancel |-> CancelSteps]

(* The runtime's operation at the steps that wait for one.                 *)
CallAt == [starting |-> "start", finalizing |-> "finalize", transcribing |-> "transcribe",
           failing |-> "fail", cancelling |-> "cancel", abandoning |-> "cancel"]

CommandFits(c) ==
  /\ cmd[c].pc \in CallSteps[cmd[c].call]
  /\ cmd[c].call = "none" => cmd[c] = NoCall
  /\ cmd[c].id \in Begun \cup {0}
  /\ cmd[c].call \notin StartCalls \cup {"none"} => cmd[c].id # 0
  /\ cmd[c].call \in StartCalls =>
       /\ cmd[c].pc \in {"claim", "load", "capture", "begin"} => cmd[c].id = 0
       /\ cmd[c].pc \notin {"claim", "load", "capture", "begin", "uninstall", "reset"} =>
            cmd[c].id # 0
  /\ cmd[c].pump # NoPump <=> cmd[c].pc \in DOMAIN Joined

CommandsFit == \A c \in Commands : CommandFits(c)

PumpsFit ==
  \A p \in Pumps :
    /\ pump[p].pc = "none" => pump[p] = NoWorker
    /\ pump[p].pc # "none" => pump[p].id \in Begun

(* A thread is inside the runtime for its own session, when its step says  *)
(* so.                                                                     *)
CommandFollows(c) ==
  /\ op[c].call = IF cmd[c].pc \in DOMAIN CallAt THEN CallAt[cmd[c].pc] ELSE "none"
  /\ op[c].call # "none" => op[c].id = cmd[c].id

PumpFollows(p) ==
  /\ op[p].call = IF pump[p].pc = "pumping" THEN "pump" ELSE "none"
  /\ op[p].call # "none" => op[p].id = pump[p].id

OpsFollow ==
  /\ \A c \in Commands : CommandFollows(c)
  /\ \A p \in Pumps : PumpFollows(p)

---------------------------------------------------------------------------
(* Who has a session.                                                      *)

(* The worker of a session is claimed by one call at a time.               *)
WorkersClaimed ==
  /\ control.worker # NoPump => pump[control.worker].pc # "none"
  /\ \A c \in Commands : cmd[c].pump # NoPump =>
       /\ pump[cmd[c].pump].pc # "none"
       /\ pump[cmd[c].pump].id = cmd[c].id
       /\ cmd[c].pump # control.worker
       /\ \A d \in Commands : cmd[d].pump = cmd[c].pump => d = c

(* One start at a time is between its claim and the worker.                *)
InFlightSteps == {"begin", "starting", "install", "uninstall"}

OneStart ==
  \A c \in Commands : cmd[c].pc \in InFlightSteps =>
    /\ control.start_in_flight
    /\ \A d \in Commands : cmd[d].pc \in InFlightSteps => d = c

(* A session is started once, ...                                          *)
StartedOnce ==
  \A c, d \in Commands :
    cmd[c].call \in StartCalls /\ cmd[d].call \in StartCalls
      /\ cmd[c].id # 0 /\ cmd[d].id = cmd[c].id => d = c

(* ... and until it has its worker nobody else has got hold of it.         *)
Pending(c) == cmd[c].call \in StartCalls /\ cmd[c].pc \in {"starting", "install"}

StartedFirst ==
  \A c \in Commands : Pending(c) =>
    /\ \A p \in Pumps : pump[p].id # cmd[c].id
    /\ \A d \in Commands : d # c /\ cmd[d].id = cmd[c].id =>
         cmd[d].call \in TestCalls /\ cmd[d].pc \in {"take", "cancel_capture"}

(* One call has the recording of a session to finish it.                   *)
Finishing(c) ==
  cmd[c].call \in FinishCalls /\ cmd[c].pc \notin {"claim", "take", "reset"}

FinishedOnce ==
  \A c \in Commands : Finishing(c) =>
    /\ ~HasWorker(cmd[c].id)
    /\ \A d \in Commands : Finishing(d) /\ cmd[d].id = cmd[c].id => d = c

DisciplineInv ==
  /\ BasicInv
  /\ ServiceTypes
  /\ CommandsFit
  /\ PumpsFit
  /\ OpsFollow
  /\ WorkersClaimed
  /\ OneStart
  /\ StartedOnce
  /\ StartedFirst
  /\ FinishedOnce

---------------------------------------------------------------------------
(* Who may touch a dictation that inserts its text.  From here on it is    *)
(* assumed that nobody names the session of a dictation in a test's call.  *)

TestsApart ==
  \A c \in Commands :
    /\ cmd[c].call = "start" => cmd[c].id \notin tests
    /\ cmd[c].call = "test" /\ cmd[c].id # 0 => cmd[c].id \in tests
    /\ cmd[c].call \in {"finish", "cancel"} => cmd[c].id \notin tests
    /\ cmd[c].call \in TestCalls => cmd[c].id \in tests

(* A session is named by others once its start has returned.               *)
StartUnnamed ==
  \A c, d \in Commands :
    cmd[c].call \in StartCalls /\ cmd[c].id # 0 /\ cmd[d].id = cmd[c].id => d = c

(* What the slot holds has been started, and is not claimed yet while it   *)
(* is Recording.                                                           *)
Claimed(c, call) == cmd[c].call = call /\ cmd[c].pc # "claim"

SlotStarted ==
  slot.id # 0 =>
    /\ slot.id \in Begun
    /\ \A c \in Commands : cmd[c].call \in StartCalls => cmd[c].id # slot.id

SlotUnclaimed ==
  slot.state = "Recording" =>
    \A c \in Commands : Claimed(c, "finish") \/ Claimed(c, "cancel") => cmd[c].id # slot.id

(* A finish and a cancel that both claimed a session: the finish is about  *)
(* to find out.                                                            *)
ClaimsApart ==
  \A c, d \in Commands : Claimed(c, "finish") /\ cmd[d].id = cmd[c].id =>
    /\ Claimed(d, "finish") => d = c
    /\ Claimed(d, "cancel") =>
         cmd[c].pc = "begin_insertion" /\ slot # In("AwaitingInsertion", cmd[c].id)

AwaitedByFinish ==
  \A c \in Commands : Claimed(c, "finish") /\ slot = In("AwaitingInsertion", cmd[c].id) =>
    cmd[c].pc = "begin_insertion"

NamesInv ==
  TestsApart /\ StartUnnamed /\ SlotStarted /\ SlotUnclaimed /\ ClaimsApart /\ AwaitedByFinish

(* A session has one worker, and none once a finish has joined it.         *)
OneWorker ==
  \A p, q \in Pumps : pump[p].id = pump[q].id /\ pump[p].id # 0 => p = q

WorkerGone ==
  \A c \in Commands : Finishing(c) /\ cmd[c].pc # "join" =>
    \A p \in Pumps : pump[p].id # cmd[c].id

(* From the transcript on the session is in Inserting.                     *)
HasText(c) ==
  /\ cmd[c].call = "finish"
  /\ \/ cmd[c].pc \in {"await", "insert", "complete", "fail_insertion", "deliver",
                       "fail_delivery"}
     \/ cmd[c].pc = "transcribing" /\ op[c].pc = "unreserve"
     \/ cmd[c].pc = "begin_insertion" /\ slot = In("AwaitingInsertion", cmd[c].id)

InsertingHeld ==
  \A c \in Commands : HasText(c) => current.id = cmd[c].id /\ current.state = "Inserting"

InsertionInv == DisciplineInv /\ NamesInv /\ OneWorker /\ WorkerGone /\ InsertingHeld

---------------------------------------------------------------------------
(* What a step of a command changes.                                       *)

(* Commands and workers are different threads.                             *)
LEMMA ThreadsApart ==
  /\ \A c \in Commands : c \in Threads /\ c \notin Pumps
  /\ \A p \in Pumps : p \in Threads /\ p \notin Commands /\ p # NoPump
BY DesktopAssumptions

OthersWait(c) == \A d \in Commands \ {c} : cmd'[d] = cmd[d]

Goes(c, step) == cmd'[c] = [cmd[c] EXCEPT !.pc = step]

Ends(c) == cmd'[c] = NoCall

Leaves(c) == IF cmd[c].call \in DictationCalls THEN Goes(c, "reset") ELSE Ends(c)

(* A command that takes a step leaves the others alone.                    *)
LEMMA StepEffect ==
  ASSUME cmd \in [Commands -> CmdType], NEW c \in Commands, NEW step, Step(c, step)
  PROVE  /\ OthersWait(c)
         /\ step # "leave" => Goes(c, step)
         /\ step = "leave" => Leaves(c)
<1>1. CASE step # "leave"
  BY <1>1 DEF Step, OthersWait, Goes
<1>2. CASE step = "leave"
  BY <1>2 DEF Step, Done, OthersWait, Leaves, Goes, Ends
<1> QED
  BY <1>1, <1>2

LEMMA DoneEffect ==
  ASSUME cmd \in [Commands -> CmdType], NEW c \in Commands, Done(c)
  PROVE  OthersWait(c) /\ Ends(c)
BY DEF Done, OthersWait, Ends

(* ... and keeps the type.                                                 *)
LEMMA NoCallHasType == NoCall \in CmdType
BY MaxSessionAssumption DEF NoCall, CmdType, CommandSteps

LEMMA StepKeepsType ==
  ASSUME cmd \in [Commands -> CmdType], NEW c \in Commands,
         NEW step \in CommandSteps \cup {"leave"}, Step(c, step) \/ Done(c)
  PROVE  cmd' \in [Commands -> CmdType]
<1>1. CASE Done(c)
  BY <1>1, NoCallHasType DEF Done
<1>2. ASSUME NEW s \in CommandSteps
      PROVE  [cmd EXCEPT ![c].pc = s] \in [Commands -> CmdType]
  BY DEF CmdType
<1>3. "reset" \in CommandSteps
  BY DEF CommandSteps
<1>4. CASE Step(c, step)
  BY <1>1, <1>2, <1>3, <1>4 DEF Step
<1> QED
  BY <1>1, <1>4

(* Which calls are at a step.                                              *)
LEMMA CallsOfSteps ==
  ASSUME ServiceTypes, CommandsFit, NEW c \in Commands
  PROVE  /\ cmd[c].pc \in {"load", "occupy"} => cmd[c].call = "start"
         /\ cmd[c].pc \in StartSteps => cmd[c].call \in StartCalls
         /\ cmd[c].pc \in {"take", "join", "finalize", "finalizing"} => cmd[c].call \in FinishCalls
         /\ cmd[c].pc \in {"transcribe", "transcribing", "fail_recognition", "failing", "await",
                           "begin_insertion", "insert", "complete", "deliver", "fail_insertion",
                           "fail_delivery"} => cmd[c].call = "finish"
         /\ cmd[c].pc \in {"cancel_capture", "cancel_join"} =>
              cmd[c].call \in {"start", "cancel", "test_cancel"}
         /\ cmd[c].pc \in {"cancel_session", "cancelling"} =>
              cmd[c].call \in {"start", "cancel", "test_cancel", "test_finish"}
         /\ cmd[c].pc \in {"claim", "reset"} => cmd[c].call \in DictationCalls
         /\ cmd[c].pc = "none" <=> cmd[c].call = "none"
<1>1. cmd[c].call \in {"start", "finish", "cancel", "test", "test_finish", "test_cancel", "none"}
  BY DesktopAssumptions DEF ServiceTypes, CmdType, DictationCalls
<1>2. cmd[c].pc \in CallSteps[cmd[c].call]
  BY DEF CommandsFit, CommandFits
<1>3. CASE cmd[c].call = "start"
  BY <1>2, <1>3 DEF CallSteps, StartSteps, CancelSteps, StartCalls, DictationCalls
<1>4. CASE cmd[c].call = "finish"
  BY <1>2, <1>4 DEF CallSteps, StartSteps, FinishCalls, DictationCalls
<1>5. CASE cmd[c].call = "cancel"
  BY <1>2, <1>5 DEF CallSteps, StartSteps, CancelSteps, DictationCalls
<1>6. CASE cmd[c].call = "test"
  BY <1>2, <1>6 DEF CallSteps, StartSteps, StartCalls
<1>7. CASE cmd[c].call \in {"test_finish", "test_cancel", "none"}
  BY <1>2, <1>7 DEF CallSteps, StartSteps, CancelSteps, FinishCalls
<1> QED
  BY <1>1, <1>3, <1>4, <1>5, <1>6, <1>7

---------------------------------------------------------------------------
(* The steps of a command, by what they touch.                             *)

(* Steps that touch the dictation slot at most.                            *)
SlotMove(c) ==
  \/ ClaimStart(c) \/ Load(c) \/ Occupy(c)
  \/ ClaimFinish(c) \/ AwaitInsertion(c) \/ BeginInsertion(c) \/ InsertText(c)
  \/ EnsureInserting(c) \/ ClaimCancel(c) \/ Reset(c)

Gives(c, state) == slot' = In(state, cmd[c].id)

(* ... and how: from where to where, and what becomes of the slot.         *)
SlotMoves(c) ==
  \/ Doing(c, "claim") /\ cmd[c].call = "start"
       /\ slot = SlotIdle /\ slot' = In("Preparing", 0) /\ Goes(c, "load")
  \/ Doing(c, "claim") /\ UNCHANGED slot /\ Ends(c)
  \/ Doing(c, "load") /\ UNCHANGED slot /\ (Goes(c, "capture") \/ Goes(c, "reset"))
  \/ Doing(c, "occupy") /\ slot.state = "Preparing" /\ Gives(c, "Recording") /\ Ends(c)
  \/ Doing(c, "occupy") /\ slot.state # "Preparing" /\ UNCHANGED slot
       /\ Goes(c, "cancel_capture")
  \/ Doing(c, "claim") /\ cmd[c].call = "finish"
       /\ slot = In("Recording", cmd[c].id) /\ Gives(c, "Finalizing") /\ Goes(c, "take")
  \/ Doing(c, "await") /\ Gives(c, "AwaitingInsertion") /\ Goes(c, "begin_insertion")
  \/ Doing(c, "begin_insertion") /\ slot = In("AwaitingInsertion", cmd[c].id)
       /\ Gives(c, "Inserting") /\ Goes(c, "insert")
  \/ Doing(c, "begin_insertion") /\ slot # In("AwaitingInsertion", cmd[c].id)
       /\ UNCHANGED slot /\ Ends(c)
  \/ Doing(c, "insert") /\ UNCHANGED slot /\ (Goes(c, "complete") \/ Goes(c, "fail_insertion"))
  \/ Doing(c, "complete") /\ slot = In("Inserting", cmd[c].id) /\ UNCHANGED slot
       /\ Goes(c, "deliver")
  \/ Doing(c, "fail_insertion") /\ slot = In("Inserting", cmd[c].id) /\ UNCHANGED slot
       /\ Goes(c, "fail_delivery")
  \/ cmd[c].pc \in {"complete", "fail_insertion"} /\ slot # In("Inserting", cmd[c].id)
       /\ UNCHANGED slot /\ Ends(c)
  \/ Doing(c, "claim") /\ cmd[c].call = "cancel"
       /\ slot \in {In("Recording", cmd[c].id), In("AwaitingInsertion", cmd[c].id)}
       /\ slot' = SlotIdle /\ Goes(c, "cancel_capture")
  \/ Doing(c, "reset") /\ slot' = SlotIdle /\ Ends(c)

LEMMA SlotMoveEffect ==
  ASSUME ServiceTypes, CommandsFit, NEW c \in Commands, SlotMove(c)
  PROVE  /\ UNCHANGED <<next_id, current, work, op, control, pump, tests, caller>>
         /\ OthersWait(c)
         /\ cmd' \in [Commands -> CmdType]
         /\ SlotMoves(c)
<1> cmd \in [Commands -> CmdType]
  BY DEF ServiceTypes
<1>1. UNCHANGED <<next_id, current, work, op, control, pump, tests, caller>>
  BY DEF SlotMove, ClaimStart, Load, Occupy, ClaimFinish, AwaitInsertion, BeginInsertion,
         InsertText, EnsureInserting, ClaimCancel, Reset, slotFrame, vars
<1>2. \/ Done(c)
      \/ \E step \in {"load", "capture", "leave", "cancel_capture", "take", "begin_insertion",
                      "insert", "complete", "fail_insertion", "deliver", "fail_delivery"} :
           Step(c, step)
  BY DEF SlotMove, ClaimStart, Load, Occupy, ClaimFinish, AwaitInsertion, BeginInsertion,
         InsertText, EnsureInserting, ClaimCancel, Reset
<1>3. OthersWait(c)
  BY <1>2, StepEffect, DoneEffect
<1>4. cmd' \in [Commands -> CmdType]
  BY <1>2, StepKeepsType DEF CommandSteps
<1>5. SlotMoves(c)
  <2>1. ASSUME NEW step, Step(c, step), step # "leave"
        PROVE  Goes(c, step)
    BY <2>1, StepEffect
  <2>2. Done(c) => Ends(c)
    BY DoneEffect
  <2>3. CASE ClaimStart(c)
    BY <2>1, <2>2, <2>3 DEF ClaimStart, SlotMoves
  <2>4. CASE Load(c)
    <3>1. cmd[c].call \in DictationCalls
      BY <2>4, CallsOfSteps DEF Load, Doing, DictationCalls
    <3>2. CASE Step(c, "capture")
      BY <2>1, <2>4, <3>2 DEF Load, SlotMoves
    <3>3. CASE Step(c, "leave")
      <4>1. Goes(c, "reset")
        BY <3>1, <3>3, StepEffect DEF Leaves
      <4> QED
        BY <2>4, <4>1 DEF Load, SlotMoves
    <3> QED
      BY <2>4, <3>2, <3>3 DEF Load
  <2>5. CASE Occupy(c)
    BY <2>1, <2>2, <2>5 DEF Occupy, SlotMoves, Gives
  <2>6. CASE ClaimFinish(c)
    BY <2>1, <2>2, <2>6 DEF ClaimFinish, SlotMoves, Gives
  <2>7. CASE AwaitInsertion(c) \/ InsertText(c)
    BY <2>1, <2>7 DEF AwaitInsertion, InsertText, SlotMoves, Gives
  <2>8. CASE BeginInsertion(c)
    BY <2>1, <2>2, <2>8 DEF BeginInsertion, SlotMoves, Gives
  <2>9. CASE EnsureInserting(c)
    BY <2>1, <2>2, <2>9 DEF EnsureInserting, SlotMoves, Doing
  <2>10. CASE ClaimCancel(c) \/ Reset(c)
    BY <2>1, <2>2, <2>10 DEF ClaimCancel, Reset, SlotMoves
  <2> QED
    BY <2>3, <2>4, <2>5, <2>6, <2>7, <2>8, <2>9, <2>10 DEF SlotMove
<1> QED
  BY <1>1, <1>3, <1>4, <1>5

---------------------------------------------------------------------------
(* Preservation of the discipline, by groups of steps.                     *)

(* A command's step leaves what the others are fit for.                    *)
LEMMA OthersFit ==
  ASSUME CommandsFit, NEW c \in Commands, OthersWait(c), CommandFits(c)', Begun \subseteq Begun'
  PROVE  CommandsFit'
<1> SUFFICES ASSUME NEW d \in Commands PROVE CommandFits(d)'
  BY DEF CommandsFit
<1>1. CASE d = c
  BY <1>1
<1>2. CASE d # c
  <2>1. cmd'[d] = cmd[d]
    BY <1>2 DEF OthersWait
  <2> QED
    BY <2>1 DEF CommandsFit, CommandFits
<1> QED
  BY <1>1, <1>2

LEMMA OthersStartedOnce ==
  ASSUME StartedOnce, NEW c \in Commands, OthersWait(c),
         cmd'[c].call \in StartCalls /\ cmd'[c].id # 0 =>
           cmd'[c].call = cmd[c].call /\ cmd'[c].id = cmd[c].id
  PROVE  StartedOnce'
<1> SUFFICES ASSUME NEW d \in Commands, NEW e \in Commands,
                    cmd'[d].call \in StartCalls, cmd'[e].call \in StartCalls,
                    cmd'[d].id # 0, cmd'[e].id = cmd'[d].id
             PROVE  e = d
  BY DEF StartedOnce
<1>1. cmd[d].call = cmd'[d].call /\ cmd[d].id = cmd'[d].id
  BY DEF OthersWait
<1>2. cmd[e].call = cmd'[e].call /\ cmd[e].id = cmd'[e].id
  BY DEF OthersWait
<1> QED
  BY <1>1, <1>2 DEF StartedOnce

(* Steps outside the runtime keep what holds of it.                        *)
LEMMA OutsideKeepsBasic ==
  ASSUME BasicInv, UNCHANGED vars
  PROVE  BasicInv' /\ Begun' = Begun
BY DEF vars, BasicInv, TypeOK, LifecycleTypeOK, StepsMatchCalls, CurrentIsNewest,
       EmptyHasNoOwner, Begun

(* What a step outside the runtime leaves alone.                           *)
LEMMA OutsideFollows ==
  ASSUME OpsFollow, NEW c \in Commands, OthersWait(c), op' = op,
         cmd[c].pc \notin DOMAIN CallAt, cmd'[c].pc \notin DOMAIN CallAt,
         \A p \in Pumps :
           (pump'[p].pc = pump[p].pc /\ pump'[p].id = pump[p].id)
             \/ (pump[p].pc # "pumping" /\ pump'[p].pc # "pumping")
  PROVE  OpsFollow'
<1>1. ASSUME NEW d \in Commands PROVE CommandFollows(d)'
  <2>1. CASE d = c
    BY <2>1 DEF OpsFollow, CommandFollows
  <2>2. CASE d # c
    BY <2>2 DEF OpsFollow, CommandFollows, OthersWait
  <2> QED
    BY <2>1, <2>2
<1>2. ASSUME NEW p \in Pumps PROVE PumpFollows(p)'
  BY DEF OpsFollow, PumpFollows
<1> QED
  BY <1>1, <1>2 DEF OpsFollow

LEMMA OthersStartedFirst ==
  ASSUME StartedFirst, NEW c \in Commands, OthersWait(c), ~Pending(c)',
         NEW n, \A p \in Pumps : pump'[p].id \in {pump[p].id, 0, n},
         \A e \in Commands \ {c} : Pending(e) => cmd[e].id \notin {0, n, cmd'[c].id}
  PROVE  StartedFirst'
<1> SUFFICES ASSUME NEW e \in Commands, Pending(e)'
             PROVE  /\ \A p \in Pumps : pump'[p].id # cmd'[e].id
                    /\ \A d \in Commands : d # e /\ cmd'[d].id = cmd'[e].id =>
                         cmd'[d].call \in TestCalls /\ cmd'[d].pc \in {"take", "cancel_capture"}
  BY DEF StartedFirst
<1>1. e # c /\ cmd'[e] = cmd[e] /\ Pending(e)
  BY DEF OthersWait, Pending
<1>2. \A p \in Pumps : pump'[p].id # cmd'[e].id
  BY <1>1 DEF StartedFirst
<1> QED
  BY <1>1, <1>2 DEF StartedFirst, OthersWait

LEMMA OthersFinishedOnce ==
  ASSUME FinishedOnce, NEW c \in Commands, OthersWait(c),
         Finishing(c)' => Finishing(c) /\ cmd'[c].id = cmd[c].id,
         \A s : HasWorker(s)' =>
           HasWorker(s) \/ \A d \in Commands : Finishing(d) => cmd[d].id # s
  PROVE  FinishedOnce'
<1>1. ASSUME NEW d \in Commands, Finishing(d)' PROVE Finishing(d) /\ cmd'[d].id = cmd[d].id
  BY <1>1 DEF Finishing, OthersWait
<1> SUFFICES ASSUME NEW d \in Commands, Finishing(d)'
             PROVE  /\ ~(control'.worker # NoPump /\ pump'[control'.worker].id = cmd'[d].id)
                    /\ \A e \in Commands : Finishing(e)' /\ cmd'[e].id = cmd'[d].id => e = d
  BY <1>1 DEF FinishedOnce, HasWorker
<1>2. ~HasWorker(cmd[d].id) /\ cmd'[d].id = cmd[d].id
  BY <1>1 DEF FinishedOnce
<1>3. ~(control'.worker # NoPump /\ pump'[control'.worker].id = cmd[d].id)
  BY <1>1, <1>2 DEF HasWorker
<1> QED
  BY <1>1, <1>2, <1>3 DEF FinishedOnce

(* What is known of a pending start.                                       *)
LEMMA PendingInFlight ==
  ASSUME DisciplineInv, NEW e \in Commands, Pending(e)
  PROVE  /\ control.start_in_flight
         /\ cmd[e].id # 0
         /\ \A p \in Pumps : pump[p].id # cmd[e].id
BY DEF DisciplineInv, OneStart, InFlightSteps, Pending, CommandsFit, CommandFits, StartedFirst

(* A command outside the test's first step does not name it.               *)
LEMMA PendingUnnamed ==
  ASSUME DisciplineInv, NEW e \in Commands, Pending(e), NEW c \in Commands \ {e},
         ~(cmd[c].call \in TestCalls /\ cmd[c].pc \in {"take", "cancel_capture"})
  PROVE  cmd[c].id # cmd[e].id
BY DEF DisciplineInv, StartedFirst

(* The steps at which a command is outside the runtime and has neither a   *)
(* worker nor the start in flight.                                         *)
PlainSteps ==
  {"none", "claim", "load", "capture", "abandon", "occupy", "take", "finalize", "transcribe",
   "fail_recognition", "await", "begin_insertion", "insert", "complete", "deliver",
   "fail_insertion", "fail_delivery", "cancel_capture", "cancel_session", "reset"}

LEMMA PlainAreApart ==
  PlainSteps \cap (InFlightSteps \cup DOMAIN CallAt \cup DOMAIN Joined) = {}
BY DEF PlainSteps, InFlightSteps, CallAt, Joined

(* What a call does on its own account: it goes on or returns, inside or   *)
(* outside the runtime, for the same session.                              *)
OwnMove(c) ==
  /\ BasicInv' /\ next_id' = next_id
  /\ UNCHANGED <<control, pump, tests, caller>>
  /\ Others(c) /\ OthersWait(c)
  /\ cmd' \in [Commands -> CmdType]
  /\ slot' \in SlotType
  /\ \/ cmd'[c] = NoCall
     \/ /\ cmd'[c].call = cmd[c].call /\ cmd'[c].id = cmd[c].id /\ cmd'[c].pump = cmd[c].pump
        /\ cmd[c].call \in TestCalls /\ cmd[c].pc \in {"take", "cancel_capture"} =>
             ~control.start_in_flight
  /\ cmd'[c].pc \in InFlightSteps => cmd[c].pc \in InFlightSteps
  /\ Pending(c)' => Pending(c)
  /\ Finishing(c)' => Finishing(c)
  /\ CommandFits(c)'
  /\ CommandFollows(c)'

LEMMA OwnMoveKeeps ==
  ASSUME DisciplineInv, NEW c \in Commands, OwnMove(c)
  PROVE  DisciplineInv'
<1> /\ next_id' = next_id /\ UNCHANGED <<control, pump, tests, caller>>
    /\ Others(c) /\ OthersWait(c)
  BY DEF OwnMove
<1> Begun' = Begun
  BY DEF Begun
<1> cmd \in [Commands -> CmdType] /\ cmd' \in [Commands -> CmdType]
  BY DEF OwnMove, DisciplineInv, ServiceTypes
<1>1. BasicInv'
  BY DEF OwnMove
<1>2. ServiceTypes'
  BY DEF DisciplineInv, ServiceTypes, OwnMove
<1>3. CommandsFit'
  BY OthersFit DEF DisciplineInv, OwnMove
<1>4. PumpsFit'
  BY DEF DisciplineInv, PumpsFit
<1>5. OpsFollow'
  <2>1. ASSUME NEW d \in Commands PROVE CommandFollows(d)'
    <3>1. CASE d = c
      BY <3>1 DEF OwnMove
    <3>2. CASE d # c
      BY <3>2, ThreadsApart DEF DisciplineInv, OpsFollow, CommandFollows, OthersWait, Others
    <3> QED
      BY <3>1, <3>2
  <2>2. ASSUME NEW p \in Pumps PROVE PumpFollows(p)'
    BY ThreadsApart DEF DisciplineInv, OpsFollow, PumpFollows, Others
  <2> QED
    BY <2>1, <2>2 DEF OpsFollow
<1>6. WorkersClaimed'
  <2>1. \A d \in Commands : cmd'[d].pump # NoPump => cmd'[d] = cmd[d] \/
          (d = c /\ cmd'[d].id = cmd[d].id /\ cmd'[d].pump = cmd[d].pump)
    BY DEF OthersWait, OwnMove, NoCall
  <2> QED
    BY <2>1 DEF DisciplineInv, WorkersClaimed
<1>7. OneStart'
  BY DEF DisciplineInv, OneStart, OthersWait, OwnMove
<1>8. StartedOnce'
  BY OthersStartedOnce DEF DisciplineInv, OwnMove, NoCall
<1>9. StartedFirst'
  <2> SUFFICES ASSUME NEW e \in Commands, Pending(e)'
               PROVE  /\ \A p \in Pumps : pump[p].id # cmd'[e].id
                      /\ \A d \in Commands : d # e /\ cmd'[d].id = cmd'[e].id =>
                           cmd'[d].call \in TestCalls /\ cmd'[d].pc \in {"take", "cancel_capture"}
    BY DEF StartedFirst
  <2>1. Pending(e) /\ cmd'[e].id = cmd[e].id
    <3>1. CASE e = c
      BY <3>1 DEF OwnMove, Pending, NoCall
    <3>2. CASE e # c
      BY <3>2 DEF OthersWait, Pending
    <3> QED
      BY <3>1, <3>2
  <2>2. /\ control.start_in_flight /\ cmd[e].id # 0
        /\ \A p \in Pumps : pump[p].id # cmd[e].id
    BY <2>1, PendingInFlight
  <2>3. e # c => cmd'[c].id # cmd[e].id
    <3>1. CASE cmd'[c] = NoCall
      BY <2>2, <3>1 DEF NoCall
    <3>2. CASE cmd'[c] # NoCall /\ e # c
      BY <2>1, <2>2, <3>2, PendingUnnamed DEF OwnMove
    <3> QED
      BY <3>1, <3>2
  <2> QED
    BY <2>1, <2>2, <2>3 DEF DisciplineInv, StartedFirst, OthersWait
<1>10. FinishedOnce'
  <2>1. Finishing(c)' => Finishing(c) /\ cmd'[c].id = cmd[c].id
    BY DEF Finishing, OwnMove, NoCall, FinishCalls
  <2>2. \A s : HasWorker(s)' => HasWorker(s)
    BY DEF HasWorker
  <2> QED
    BY <2>1, <2>2, OthersFinishedOnce DEF DisciplineInv
<1> QED
  BY <1>1, <1>2, <1>3, <1>4, <1>5, <1>6, <1>7, <1>8, <1>9, <1>10 DEF DisciplineInv

(* A call that goes from one plain step to another, or returns.            *)
PlainMove(c) ==
  /\ BasicInv'
  /\ UNCHANGED <<next_id, op, control, pump, tests, caller>>
  /\ OthersWait(c)
  /\ cmd' \in [Commands -> CmdType]
  /\ slot' \in SlotType
  /\ cmd[c].pc \in PlainSteps
  /\ cmd'[c].pc \in PlainSteps
  /\ \/ cmd'[c] = NoCall
     \/ /\ cmd'[c].call = cmd[c].call /\ cmd'[c].id = cmd[c].id /\ cmd'[c].pump = cmd[c].pump
        /\ cmd[c].call \in TestCalls /\ cmd[c].pc \in {"take", "cancel_capture"} =>
             ~control.start_in_flight
  /\ CommandFits(c)'
  /\ Finishing(c)' => Finishing(c)

LEMMA PlainMoveKeeps ==
  ASSUME DisciplineInv, NEW c \in Commands, PlainMove(c)
  PROVE  DisciplineInv'
<1>1. CommandFollows(c)'
  BY PlainAreApart DEF DisciplineInv, OpsFollow, CommandFollows, PlainMove
<1>2. cmd'[c].pc \notin InFlightSteps /\ ~Pending(c)'
  BY PlainAreApart DEF PlainMove, Pending, InFlightSteps
<1>3. Others(c)
  BY DEF PlainMove, Others
<1>4. OwnMove(c)
  BY <1>1, <1>2, <1>3 DEF PlainMove, OwnMove
<1> QED
  BY <1>4, OwnMoveKeeps

(* The sessions that have begun are within the bound.                      *)
LEMMA BegunBounded ==
  ASSUME BasicInv
  PROVE  Begun \subseteq 1 .. MaxSession
BY MaxSessionAssumption DEF BasicInv, TypeOK, LifecycleTypeOK, Begun

(* The calls a command may be serving.                                     *)
LEMMA CallsNamed ==
  ASSUME ServiceTypes, NEW c \in Commands
  PROVE  cmd[c].call \in {"start", "finish", "cancel", "test", "test_finish", "test_cancel", "none"}
BY DesktopAssumptions DEF ServiceTypes, CmdType, DictationCalls

LEMMA NoCallFits ==
  ASSUME NEW c \in Commands, cmd'[c] = NoCall
  PROVE  CommandFits(c)'
BY DEF CommandFits, NoCall, CallSteps, StartCalls, Joined

(* A step of the slot is a plain move.                                     *)
LEMMA SlotMoveIsPlain ==
  ASSUME DisciplineInv, NEW c \in Commands, SlotMove(c)
  PROVE  PlainMove(c)
<1> ServiceTypes /\ CommandsFit /\ cmd \in [Commands -> CmdType] /\ BasicInv
  BY DEF DisciplineInv, ServiceTypes
<1>1. /\ UNCHANGED <<vars, control, pump, tests, caller>>
      /\ OthersWait(c)
      /\ cmd' \in [Commands -> CmdType]
      /\ BasicInv'
  BY SlotMoveEffect, OutsideKeepsBasic DEF vars
<1>2. SlotMoves(c)
  BY SlotMoveEffect
<1>3. /\ cmd[c].pc \in CallSteps[cmd[c].call] /\ cmd[c].call # "none"
      /\ cmd[c].id \in Begun \cup {0}
      /\ cmd[c].call \notin StartCalls => cmd[c].id # 0
      /\ cmd[c].call \in StartCalls =>
           (cmd[c].pc \notin {"claim", "load", "capture", "begin", "uninstall", "reset"} =>
              cmd[c].id # 0)
      /\ cmd[c].pump # NoPump <=> cmd[c].pc \in DOMAIN Joined
  BY <1>2, CallsOfSteps DEF CommandsFit, CommandFits, SlotMoves, Doing
<1>4. slot' \in SlotType
  <2>1. slot \in SlotType
    BY DEF ServiceTypes
  <2>2. slot' = slot \/ slot' = SlotIdle \/ slot' = In("Preparing", 0)
          \/ (cmd[c].id # 0 /\ \E state \in {"Recording", "Finalizing", "AwaitingInsertion",
                                            "Inserting"} : Gives(c, state))
    BY <1>2, <1>3, CallsOfSteps DEF SlotMoves, Doing, StartCalls
  <2>3. cmd[c].id # 0 => cmd[c].id \in 1 .. MaxSession
    BY <1>3, BegunBounded
  <2> QED
    BY <2>1, <2>2, <2>3 DEF SlotType, SlotIdle, In, Gives
<1>5. /\ cmd[c].call \in DictationCalls
      /\ cmd[c].pc \in PlainSteps
      /\ \/ Ends(c)
         \/ \E step \in PlainSteps :
              /\ Goes(c, step)
              /\ step \in CallSteps[cmd[c].call]
              /\ cmd[c].call \in StartCalls =>
                   \/ step \in {"load", "capture", "reset"} /\ cmd[c].pc \in {"claim", "load"}
                   \/ step = "cancel_capture" /\ cmd[c].pc = "occupy"
              /\ step \notin {"take", "load", "capture", "cancel_capture", "reset"} =>
                   cmd[c].call = "finish" /\ cmd[c].pc \notin {"claim", "take", "reset"}
  BY <1>2, CallsOfSteps
  DEF SlotMoves, Doing, PlainSteps, CallSteps, CancelSteps, StartSteps, StartCalls,
      DictationCalls
<1>6. CASE Ends(c)
  BY <1>1, <1>4, <1>5, <1>6, NoCallFits
  DEF PlainMove, Ends, NoCall, PlainSteps, Finishing, FinishCalls, vars
<1>7. ASSUME NEW step \in PlainSteps, Goes(c, step), step \in CallSteps[cmd[c].call],
             cmd[c].call \in StartCalls =>
               \/ step \in {"load", "capture", "reset"} /\ cmd[c].pc \in {"claim", "load"}
               \/ step = "cancel_capture" /\ cmd[c].pc = "occupy",
             step \notin {"take", "load", "capture", "cancel_capture", "reset"} =>
               cmd[c].call = "finish" /\ cmd[c].pc \notin {"claim", "take", "reset"}
      PROVE  PlainMove(c)
  <2>1. /\ cmd'[c].pc = step
        /\ cmd'[c].call = cmd[c].call /\ cmd'[c].id = cmd[c].id /\ cmd'[c].pump = cmd[c].pump
    BY <1>7 DEF Goes, CmdType
  <2>2. CommandFits(c)'
    <3>1. Begun' = Begun
      BY <1>1 DEF Begun, vars
    <3>2. cmd[c].pump = NoPump
      BY <1>3, <1>5, PlainAreApart
    <3>3. cmd'[c].call \in StartCalls =>
            /\ step \in {"claim", "load", "capture", "begin"} => cmd[c].id = 0
            /\ step \notin {"claim", "load", "capture", "begin", "uninstall", "reset"} =>
                 cmd[c].id # 0
      BY <1>3, <1>7, <2>1, CallsOfSteps DEF CommandsFit, CommandFits
    <3> QED
      BY <1>3, <1>7, <2>1, <3>1, <3>2, <3>3, PlainAreApart DEF CommandFits
  <2>3. Finishing(c)' => Finishing(c)
    BY <1>5, <1>7, <2>1, CallsNamed
    DEF Finishing, FinishCalls, CallSteps, DictationCalls, StartSteps, CancelSteps
  <2>4. cmd[c].call \notin TestCalls
    BY <1>5 DEF DictationCalls, TestCalls
  <2> QED
    BY <1>1, <1>4, <1>5, <2>1, <2>2, <2>3, <2>4 DEF PlainMove, vars
<1> QED
  BY <1>5, <1>6, <1>7

(* An accepted call.                                                       *)
LEMMA AcceptKeeps ==
  ASSUME DisciplineInv, NEW c \in Commands, Command(c)
  PROVE  DisciplineInv'
<1>1. PICK call \in Offered, s \in Begun \cup {0} :
        /\ Accept(c, call, s)
        /\ call \in StartCalls <=> s = 0
        /\ call \notin StartCalls => MayName(call, s)
  <2>1. 0 \notin Begun
    BY DEF Begun
  <2> QED
    BY <2>1 DEF Command, StartCalls
<1>2. /\ UNCHANGED <<vars, control, pump, slot, tests, caller>>
      /\ cmd[c] = NoCall
  BY <1>1 DEF Accept
<1> UNCHANGED <<next_id, current, work, op, control, pump, slot, tests, caller>>
  BY <1>2 DEF vars
<1> cmd \in [Commands -> CmdType]
  BY DEF DisciplineInv, ServiceTypes
<1>3. /\ OthersWait(c)
      /\ cmd'[c].call = call /\ cmd'[c].pc = FirstStep[call]
      /\ cmd'[c].id = s /\ cmd'[c].pump = NoPump
  BY <1>1 DEF Accept, OthersWait, NoCall
<1>4. call \in {"start", "finish", "cancel", "test", "test_finish", "test_cancel"}
  BY DesktopAssumptions DEF DictationCalls
<1>5. /\ FirstStep[call] \in CallSteps[call]
      /\ FirstStep[call] \in CommandSteps
      /\ FirstStep[call] \in PlainSteps
      /\ call \in StartCalls => FirstStep[call] \in {"claim", "capture"}
      /\ call \in FinishCalls => FirstStep[call] \in {"claim", "take"}
      /\ call \in TestCalls => FirstStep[call] \in {"take", "cancel_capture"}
  BY <1>4
  DEF FirstStep, CallSteps, StartSteps, CancelSteps, CommandSteps, PlainSteps, StartCalls,
      FinishCalls, TestCalls
<1>6. BasicInv' /\ Begun' = Begun
  BY OutsideKeepsBasic, <1>2 DEF DisciplineInv
<1>7. ServiceTypes'
  <2>1. s \in 0 .. MaxSession
    BY BegunBounded, MaxSessionAssumption DEF DisciplineInv
  <2>2. [NoCall EXCEPT !.call = call, !.pc = FirstStep[call], !.id = s] \in CmdType
    BY <1>5, <2>1 DEF CmdType, NoCall
  <2>3. cmd' \in [Commands -> CmdType]
    BY <1>1, <2>2 DEF Accept
  <2> QED
    BY <1>6, <2>3 DEF DisciplineInv, ServiceTypes
<1>8. CommandsFit'
  <2>1. CommandFits(c)'
    BY <1>1, <1>3, <1>4, <1>5, <1>6, PlainAreApart DEF CommandFits, StartCalls
  <2> QED
    BY <1>3, <1>6, <2>1, OthersFit DEF DisciplineInv
<1>9. PumpsFit'
  BY <1>6 DEF DisciplineInv, PumpsFit
<1>10. OpsFollow'
  <2>1. CommandFollows(c)'
    BY <1>2, <1>3, <1>5, PlainAreApart
    DEF DisciplineInv, OpsFollow, CommandFollows, NoCall, PlainSteps
  <2>2. ASSUME NEW d \in Commands PROVE CommandFollows(d)'
    BY <1>3, <2>1 DEF DisciplineInv, OpsFollow, CommandFollows, OthersWait
  <2>3. ASSUME NEW p \in Pumps PROVE PumpFollows(p)'
    BY DEF DisciplineInv, OpsFollow, PumpFollows
  <2> QED
    BY <2>2, <2>3 DEF OpsFollow
<1>11. WorkersClaimed'
  BY <1>3 DEF DisciplineInv, WorkersClaimed, OthersWait
<1>12. OneStart'
  BY <1>3, <1>5, PlainAreApart DEF DisciplineInv, OneStart, OthersWait
<1>13. StartedOnce'
  BY <1>1, <1>3, OthersStartedOnce DEF DisciplineInv
<1>14. StartedFirst'
  <2> SUFFICES ASSUME NEW e \in Commands, Pending(e)'
               PROVE  /\ \A p \in Pumps : pump[p].id # cmd'[e].id
                      /\ \A d \in Commands : d # e /\ cmd'[d].id = cmd'[e].id =>
                           cmd'[d].call \in TestCalls /\ cmd'[d].pc \in {"take", "cancel_capture"}
    BY DEF StartedFirst
  <2>1. e # c
    BY <1>3, <1>5 DEF Pending, PlainSteps
  <2>2. cmd'[e] = cmd[e] /\ Pending(e)
    BY <1>3, <2>1 DEF OthersWait, Pending
  <2>3. cmd[e].id # 0
    BY <2>2 DEF DisciplineInv, Pending, CommandsFit, CommandFits
  <2>4. cmd'[c].id = cmd'[e].id => call \in TestCalls
    BY <1>1, <1>3, <2>2, <2>3 DEF MayName, Returned, Pending, StartCalls, TestCalls
  <2> QED
    BY <1>3, <1>5, <2>2, <2>4 DEF DisciplineInv, StartedFirst, OthersWait
<1>15. FinishedOnce'
  <2>1. ASSUME NEW d \in Commands, Finishing(d)' PROVE Finishing(d) /\ cmd'[d] = cmd[d]
    BY <1>3, <1>5, <2>1 DEF Finishing, OthersWait
  <2> QED
    BY <2>1 DEF DisciplineInv, FinishedOnce, HasWorker
<1> QED
  BY <1>6, <1>7, <1>8, <1>9, <1>10, <1>11, <1>12, <1>13, <1>14, <1>15 DEF DisciplineInv

(* Where a call that leaves goes.                                          *)
LEMMA LeavesPlain ==
  ASSUME cmd \in [Commands -> CmdType], NEW c \in Commands, Leaves(c)
  PROVE  \/ cmd'[c] = NoCall
         \/ /\ cmd[c].call \in DictationCalls
            /\ cmd'[c].call = cmd[c].call /\ cmd'[c].pc = "reset"
            /\ cmd'[c].id = cmd[c].id /\ cmd'[c].pump = cmd[c].pump
BY DEF Leaves, Goes, Ends, CmdType

(* ... which it may.                                                       *)
LEMMA LeavingFits ==
  ASSUME NEW c \in Commands, ServiceTypes, CommandFits(c), Begun \subseteq Begun',
         Leaves(c), cmd[c].pump = NoPump
  PROVE  CommandFits(c)'
<1>1. CASE cmd'[c] = NoCall
  BY <1>1, NoCallFits
<1>2. CASE /\ cmd[c].call \in DictationCalls
           /\ cmd'[c].call = cmd[c].call /\ cmd'[c].pc = "reset"
           /\ cmd'[c].id = cmd[c].id /\ cmd'[c].pump = cmd[c].pump
  BY <1>2 DEF CommandFits, DictationCalls, CallSteps, Joined, StartCalls
<1> QED
  BY <1>1, <1>2, LeavesPlain DEF ServiceTypes

(* A capture is claimed: a finished worker is reaped, and the start is in  *)
(* flight unless one is already or the worker is still at it.              *)
LEMMA ClaimCaptureEffect ==
  ASSUME ServiceTypes, NEW c \in Commands, ClaimCapture(c)
  PROVE  /\ UNCHANGED <<vars, slot, tests, caller>>
         /\ OthersWait(c)
         /\ cmd' \in [Commands -> CmdType]
         /\ control' \in ControlType /\ pump' \in [Pumps -> PumpType]
         /\ \/ pump' = pump /\ control'.worker = control.worker
            \/ /\ control.worker \in Pumps /\ control'.worker = NoPump
               /\ pump[control.worker].pc = "exited"
               /\ \A p \in Pumps :
                    pump'[p] = IF p = control.worker THEN NoWorker ELSE pump[p]
         /\ \/ /\ ~control.start_in_flight /\ control'.start_in_flight
               /\ Goes(c, "begin")
            \/ control'.start_in_flight = control.start_in_flight /\ Leaves(c)
<1> DEFINE w == control.worker
           reap == w # NoPump /\ Exited(w)
           busy == control.start_in_flight \/ (w # NoPump /\ ~reap)
<1> control \in ControlType /\ pump \in [Pumps -> PumpType] /\ cmd \in [Commands -> CmdType]
  BY DEF ServiceTypes
<1>1. /\ pump' = IF reap THEN [pump EXCEPT ![w] = NoWorker] ELSE pump
      /\ busy => /\ control' = [control EXCEPT !.worker = IF reap THEN NoPump ELSE w]
                 /\ Step(c, "leave")
      /\ ~busy => /\ control' = [start_in_flight |-> TRUE, worker |-> NoPump]
                  /\ Step(c, "begin")
  BY DEF ClaimCapture
<1>2. UNCHANGED <<vars, slot, tests, caller>>
  BY DEF ClaimCapture, controlFrame
<1>3. OthersWait(c) /\ (busy => Leaves(c)) /\ (~busy => Goes(c, "begin"))
  BY <1>1, StepEffect
<1>4. cmd' \in [Commands -> CmdType]
  BY <1>1, StepKeepsType DEF CommandSteps
<1>5. NoWorker \in PumpType
  BY MaxSessionAssumption DEF NoWorker, PumpType
<1>6. w \in Pumps \cup {NoPump}
  BY DEF ControlType
<1>7. control' \in ControlType
  <2>1. [control EXCEPT !.worker = IF reap THEN NoPump ELSE w] \in ControlType
    BY <1>6 DEF ControlType
  <2>2. [start_in_flight |-> TRUE, worker |-> NoPump] \in ControlType
    BY DEF ControlType
  <2> QED
    BY <1>1, <2>1, <2>2
<1>8. pump' \in [Pumps -> PumpType]
  BY <1>1, <1>5
<1>9. \/ pump' = pump /\ control'.worker = control.worker
      \/ /\ control.worker \in Pumps /\ control'.worker = NoPump
         /\ pump[control.worker].pc = "exited"
         /\ \A p \in Pumps : pump'[p] = IF p = control.worker THEN NoWorker ELSE pump[p]
  <2>1. CASE reap
    <3>1. control'.worker = NoPump
      BY <1>1, <2>1 DEF ControlType
    <3> QED
      BY <1>1, <1>6, <2>1, <3>1 DEF Exited
  <2>2. CASE ~reap
    <3>1. control'.worker = control.worker
      BY <1>1, <2>2 DEF ControlType
    <3> QED
      BY <1>1, <2>2, <3>1
  <2> QED
    BY <2>1, <2>2
<1>10. \/ ~control.start_in_flight /\ control'.start_in_flight /\ Goes(c, "begin")
       \/ control'.start_in_flight = control.start_in_flight /\ Leaves(c)
  <2>1. CASE busy
    BY <1>1, <1>3, <2>1 DEF ControlType
  <2>2. CASE ~busy
    BY <1>1, <1>3, <2>2
  <2> QED
    BY <2>1, <2>2
<1> HIDE DEF w, reap, busy
<1> QED
  BY <1>2, <1>3, <1>4, <1>7, <1>8, <1>9, <1>10 DEF ClaimCapture

LEMMA ClaimCaptureKeeps ==
  ASSUME DisciplineInv, NEW c \in Commands, ClaimCapture(c)
  PROVE  DisciplineInv'
<1> ServiceTypes /\ BasicInv /\ CommandsFit /\ cmd \in [Commands -> CmdType]
  BY DEF DisciplineInv, ServiceTypes
<1>1. /\ UNCHANGED <<vars, slot, tests, caller>>
      /\ OthersWait(c)
      /\ cmd' \in [Commands -> CmdType]
      /\ control' \in ControlType /\ pump' \in [Pumps -> PumpType]
  BY ClaimCaptureEffect
<1>2. \/ pump' = pump /\ control'.worker = control.worker
      \/ /\ control.worker \in Pumps /\ control'.worker = NoPump
         /\ pump[control.worker].pc = "exited"
         /\ \A p \in Pumps : pump'[p] = IF p = control.worker THEN NoWorker ELSE pump[p]
  BY ClaimCaptureEffect
<1>3. \/ ~control.start_in_flight /\ control'.start_in_flight /\ Goes(c, "begin")
      \/ control'.start_in_flight = control.start_in_flight /\ Leaves(c)
  BY ClaimCaptureEffect
<1>4. /\ cmd[c].pc = "capture" /\ cmd[c].call \in StartCalls
      /\ cmd[c].id = 0 /\ cmd[c].pump = NoPump /\ CommandFits(c)
  <2>1. cmd[c].pc = "capture"
    BY DEF ClaimCapture, Doing
  <2> QED
    BY <2>1, CallsOfSteps DEF CommandsFit, CommandFits, StartSteps, Joined
<1>5. /\ cmd'[c].id = 0 /\ cmd'[c].pump = NoPump
      /\ cmd'[c].pc \in {"none", "begin", "reset"}
      /\ cmd'[c].call \in {"none", cmd[c].call}
      /\ cmd'[c].pc = "begin" => ~control.start_in_flight /\ control'.start_in_flight
      /\ cmd'[c].pc # "begin" => control'.start_in_flight = control.start_in_flight
  <2>1. CASE Goes(c, "begin")
    BY <1>3, <1>4, <2>1, LeavesPlain DEF Goes, CmdType, NoCall
  <2>2. CASE Leaves(c)
    BY <1>3, <1>4, <2>2, LeavesPlain DEF NoCall, Goes, CmdType
  <2> QED
    BY <1>3, <2>1, <2>2
<1>6. BasicInv' /\ Begun' = Begun /\ UNCHANGED op
  BY <1>1, OutsideKeepsBasic DEF vars
<1>7. ServiceTypes'
  BY <1>1, <1>6 DEF ServiceTypes
<1>8. CommandsFit'
  <2>1. CASE Goes(c, "begin")
    <3>1. cmd'[c].pc = "begin" /\ cmd'[c].call = cmd[c].call
      BY <2>1 DEF Goes, CmdType
    <3>2. CommandFits(c)'
      BY <1>4, <1>5, <1>6, <3>1
      DEF CommandFits, StartCalls, CallSteps, StartSteps, Joined
    <3> QED
      BY <1>1, <1>6, <3>2, OthersFit
  <2>2. CASE Leaves(c)
    BY <1>1, <1>4, <1>6, <2>2, LeavingFits, OthersFit
  <2> QED
    BY <1>3, <2>1, <2>2
<1>9. PumpsFit'
  BY <1>2, <1>6 DEF DisciplineInv, PumpsFit, NoWorker
<1>10. OpsFollow'
  <2>1. cmd[c].pc \notin DOMAIN CallAt /\ cmd'[c].pc \notin DOMAIN CallAt
    BY <1>4, <1>5 DEF CallAt
  <2>2. \A p \in Pumps : (pump'[p].pc = pump[p].pc /\ pump'[p].id = pump[p].id)
          \/ (pump[p].pc # "pumping" /\ pump'[p].pc # "pumping")
    BY <1>2 DEF NoWorker
  <2> QED
    BY <1>1, <1>6, <2>1, <2>2, OutsideFollows DEF DisciplineInv
<1>11. WorkersClaimed'
  <2>1. control'.worker # NoPump => control'.worker = control.worker /\ pump' = pump
    BY <1>2
  <2>2. \A d \in Commands : cmd'[d].pump # NoPump => d # c /\ cmd'[d] = cmd[d]
    BY <1>1, <1>5 DEF OthersWait
  <2>3. \A d \in Commands : cmd'[d].pump # NoPump =>
          cmd[d].pump \in Pumps /\ pump'[cmd[d].pump] = pump[cmd[d].pump]
    BY <1>2, <2>2 DEF CmdType, DisciplineInv, WorkersClaimed
  <2> QED
    BY <2>1, <2>2, <2>3 DEF DisciplineInv, WorkersClaimed
<1>12. OneStart'
  BY <1>1, <1>5 DEF DisciplineInv, OneStart, OthersWait, InFlightSteps
<1>13. StartedOnce'
  BY <1>1, <1>5, OthersStartedOnce DEF DisciplineInv
<1>14. StartedFirst'
  <2>1. ~Pending(c)'
    BY <1>5 DEF Pending
  <2>2. \A p \in Pumps : pump'[p].id \in {pump[p].id, 0, 0}
    BY <1>2 DEF NoWorker
  <2>3. \A e \in Commands \ {c} : Pending(e) => cmd[e].id \notin {0, 0, cmd'[c].id}
    BY <1>5, PendingInFlight
  <2> QED
    BY <1>1, <2>1, <2>2, <2>3, OthersStartedFirst DEF DisciplineInv
<1>15. FinishedOnce'
  <2>1. ~Finishing(c)'
    BY <1>4, <1>5 DEF Finishing, StartCalls, FinishCalls
  <2>2. \A s : HasWorker(s)' => HasWorker(s)
    BY <1>2 DEF HasWorker
  <2> QED
    BY <1>1, <2>1, <2>2, OthersFinishedOnce DEF DisciplineInv
<1> QED
  BY <1>6, <1>7, <1>8, <1>9, <1>10, <1>11, <1>12, <1>13, <1>14, <1>15 DEF DisciplineInv

(* A start that got no worker gives up its claim.                          *)
GivesUp(c) ==
  /\ UNCHANGED <<vars, pump, slot, tests, caller>>
  /\ control' = [control EXCEPT !.start_in_flight = FALSE]
  /\ \/ cmd[c].pc = "install" /\ Step(c, "abandon")
     \/ cmd[c].pc = "uninstall" /\ Step(c, "leave")

LEMMA GivesUpKeeps ==
  ASSUME DisciplineInv, NEW c \in Commands, GivesUp(c)
  PROVE  DisciplineInv'
<1> /\ UNCHANGED <<vars, pump, slot, tests, caller>>
    /\ control' = [control EXCEPT !.start_in_flight = FALSE]
    /\ \/ cmd[c].pc = "install" /\ Step(c, "abandon")
       \/ cmd[c].pc = "uninstall" /\ Step(c, "leave")
  BY DEF GivesUp
<1> ServiceTypes /\ BasicInv /\ CommandsFit /\ cmd \in [Commands -> CmdType]
  BY DEF DisciplineInv, ServiceTypes
<1>1. OthersWait(c)
  BY StepEffect
<1>2. cmd' \in [Commands -> CmdType]
  BY StepKeepsType DEF CommandSteps
<1>3. control.worker' = control.worker /\ control'.start_in_flight = FALSE /\ control' \in ControlType
  BY DEF ServiceTypes, ControlType
<1>4. cmd[c].call \in StartCalls /\ cmd[c].pump = NoPump /\ CommandFits(c)
  BY CallsOfSteps DEF CommandsFit, CommandFits, StartSteps, Joined
<1>5. \/ cmd'[c] = NoCall
      \/ /\ cmd'[c].call = cmd[c].call /\ cmd'[c].id = cmd[c].id /\ cmd'[c].pump = NoPump
         /\ cmd'[c].pc \in {"abandon", "reset"}
  <2>1. CASE cmd[c].pc = "install" /\ Step(c, "abandon")
    <3>1. Goes(c, "abandon")
      BY <2>1, StepEffect
    <3> QED
      BY <1>4, <3>1 DEF Goes, CmdType
  <2>2. CASE cmd[c].pc = "uninstall" /\ Step(c, "leave")
    <3>1. Leaves(c)
      BY <2>2, StepEffect
    <3> QED
      BY <1>4, <3>1, LeavesPlain
  <2> QED
    BY <2>1, <2>2
<1>6. BasicInv' /\ Begun' = Begun /\ UNCHANGED op
  BY OutsideKeepsBasic DEF vars
<1>7. ServiceTypes'
  BY <1>2, <1>3, <1>6 DEF ServiceTypes
<1>8. CommandFits(c)'
  <2>1. CASE cmd[c].pc = "install" /\ Step(c, "abandon")
    <3>0. Goes(c, "abandon")
      BY <2>1, StepEffect
    <3>1. cmd'[c].pc = "abandon" /\ cmd'[c].call = cmd[c].call /\ cmd'[c].id = cmd[c].id
            /\ cmd'[c].pump = cmd[c].pump
      BY <3>0 DEF Goes, CmdType
    <3>2. cmd[c].id \in Begun \cup {0} /\ cmd[c].id # 0 /\ cmd[c].call # "none"
      BY <1>4, <2>1 DEF CommandFits, StartCalls
    <3>3. "abandon" \in CallSteps[cmd[c].call]
      BY <1>4 DEF StartCalls, CallSteps, StartSteps
    <3> QED
      BY <1>4, <1>6, <3>1, <3>2, <3>3 DEF CommandFits, Joined
  <2>2. CASE cmd[c].pc = "uninstall" /\ Step(c, "leave")
    BY <1>4, <1>6, <2>2, StepEffect, LeavingFits
  <2> QED
    BY <2>1, <2>2
<1>9. CommandsFit'
  BY <1>1, <1>6, <1>8, OthersFit
<1>10. PumpsFit'
  BY <1>6 DEF DisciplineInv, PumpsFit
<1>11. OpsFollow'
  <2>1. cmd[c].pc \notin DOMAIN CallAt /\ cmd'[c].pc \notin DOMAIN CallAt
    BY <1>5 DEF CallAt, NoCall
  <2> QED
    BY <1>1, <1>6, <2>1, OutsideFollows DEF DisciplineInv
<1>12. WorkersClaimed'
  <2>1. \A d \in Commands : cmd'[d].pump # NoPump => d # c /\ cmd'[d] = cmd[d]
    BY <1>1, <1>5 DEF OthersWait, NoCall
  <2> QED
    BY <1>3, <2>1 DEF DisciplineInv, WorkersClaimed
<1>13. OneStart'
  <2>1. \A d \in Commands : cmd'[d].pc \notin InFlightSteps
    BY <1>1, <1>5 DEF DisciplineInv, OneStart, OthersWait, InFlightSteps, NoCall
  <2> QED
    BY <2>1 DEF OneStart
<1>14. StartedOnce'
  BY <1>1, <1>5, OthersStartedOnce DEF DisciplineInv, NoCall
<1>15. StartedFirst'
  <2>1. \A d \in Commands : ~Pending(d)'
    BY <1>1, <1>5 DEF DisciplineInv, OneStart, OthersWait, InFlightSteps, NoCall, Pending
  <2> QED
    BY <2>1 DEF StartedFirst
<1>16. FinishedOnce'
  <2>1. ~Finishing(c)'
    BY <1>4, <1>5 DEF Finishing, StartCalls, FinishCalls, NoCall
  <2>2. \A s : HasWorker(s)' => HasWorker(s)
    BY <1>3 DEF HasWorker
  <2> QED
    BY <1>1, <2>1, <2>2, OthersFinishedOnce DEF DisciplineInv
<1> QED
  BY <1>6, <1>7, <1>9, <1>10, <1>11, <1>12, <1>13, <1>14, <1>15, <1>16 DEF DisciplineInv

(* A start that has its session gets its worker.                           *)
Spawns(c, p) ==
  /\ UNCHANGED <<vars, slot, tests, caller>>
  /\ cmd[c].pc = "install"
  /\ pump[p] = NoWorker
  /\ pump' = [pump EXCEPT ![p] = [NoWorker EXCEPT !.pc = "call", !.id = cmd[c].id]]
  /\ control' = [start_in_flight |-> FALSE, worker |-> p]
  /\ IF cmd[c].call = "start" THEN Step(c, "occupy") ELSE Done(c)

LEMMA SpawnKeeps ==
  ASSUME DisciplineInv, NEW c \in Commands, NEW p \in Pumps, Spawns(c, p)
  PROVE  DisciplineInv'
<1> cmd[c].pc = "install" /\ UNCHANGED <<vars, slot, tests, caller>>
  BY DEF Spawns
<1> ServiceTypes /\ BasicInv /\ CommandsFit /\ cmd \in [Commands -> CmdType]
      /\ pump \in [Pumps -> PumpType]
  BY DEF DisciplineInv, ServiceTypes
<1>1. OthersWait(c)
  BY StepEffect, DoneEffect DEF Spawns
<1>2. cmd' \in [Commands -> CmdType]
  BY StepKeepsType DEF CommandSteps, Spawns
<1>3. control' \in ControlType /\ control'.worker = p
  BY DEF Spawns, ControlType
<1>4. /\ cmd[c].call \in StartCalls /\ cmd[c].pump = NoPump /\ CommandFits(c)
      /\ cmd[c].id # 0 /\ cmd[c].id \in Begun /\ Pending(c)
  <2>1. cmd[c].call \in StartCalls
    BY CallsOfSteps DEF StartSteps
  <2> QED
    BY <2>1 DEF CommandsFit, CommandFits, Joined, Pending
<1>5. \/ cmd'[c] = NoCall
      \/ /\ cmd[c].call = "start" /\ cmd'[c].call = cmd[c].call /\ cmd'[c].id = cmd[c].id
         /\ cmd'[c].pump = NoPump /\ cmd'[c].pc = "occupy"
  <2>1. CASE Step(c, "occupy") /\ cmd[c].call = "start"
    <3>1. Goes(c, "occupy")
      BY <2>1, StepEffect
    <3> QED
      BY <1>4, <2>1, <3>1 DEF Goes, CmdType
  <2>2. CASE Done(c)
    BY <2>2, DoneEffect DEF Ends
  <2> QED
    BY <2>1, <2>2 DEF Spawns
<1>6. BasicInv' /\ Begun' = Begun /\ UNCHANGED op
  BY OutsideKeepsBasic DEF vars
<1>7. /\ \A q \in Pumps \ {p} : pump'[q] = pump[q]
      /\ pump'[p].pc = "call" /\ pump'[p].id = cmd[c].id
      /\ pump[p] = NoWorker
  BY DEF Spawns, NoWorker
<1>8. ServiceTypes'
  <2>1. cmd[c].id \in 0 .. MaxSession
    BY DEF CmdType
  <2>2. [NoWorker EXCEPT !.pc = "call", !.id = cmd[c].id] \in PumpType
    BY <2>1 DEF NoWorker, PumpType
  <2>3. pump' \in [Pumps -> PumpType]
    BY <2>2 DEF Spawns
  <2> QED
    BY <1>2, <1>3, <1>6, <2>3 DEF ServiceTypes
<1>9. CommandsFit'
  <2>1. CommandFits(c)'
    <3>1. CASE cmd'[c] = NoCall
      BY <3>1, NoCallFits
    <3>2. CASE cmd'[c] # NoCall
      BY <1>4, <1>5, <1>6, <3>2 DEF CommandFits, StartCalls, CallSteps, Joined
    <3> QED
      BY <3>1, <3>2
  <2> QED
    BY <1>1, <1>6, <2>1, OthersFit
<1>10. PumpsFit'
  BY <1>4, <1>6, <1>7 DEF DisciplineInv, PumpsFit
<1>11. OpsFollow'
  <2>1. cmd[c].pc \notin DOMAIN CallAt /\ cmd'[c].pc \notin DOMAIN CallAt
    BY <1>5 DEF CallAt, NoCall
  <2>2. \A q \in Pumps : (pump'[q].pc = pump[q].pc /\ pump'[q].id = pump[q].id)
          \/ (pump[q].pc # "pumping" /\ pump'[q].pc # "pumping")
    BY <1>7 DEF NoWorker
  <2> QED
    BY <1>1, <1>6, <2>1, <2>2, OutsideFollows DEF DisciplineInv
<1>12. WorkersClaimed'
  <2>1. \A d \in Commands : cmd'[d].pump # NoPump => d # c /\ cmd'[d] = cmd[d]
    BY <1>1, <1>5 DEF OthersWait, NoCall
  <2>2. \A d \in Commands : cmd'[d].pump # NoPump =>
          cmd[d].pump \in Pumps \ {p} /\ pump'[cmd[d].pump] = pump[cmd[d].pump]
    BY <1>7, <2>1 DEF CmdType, DisciplineInv, WorkersClaimed, NoWorker
  <2> QED
    BY <1>3, <1>7, <2>1, <2>2 DEF DisciplineInv, WorkersClaimed
<1>13. OneStart'
  <2>1. \A d \in Commands : cmd'[d].pc \notin InFlightSteps
    BY <1>1, <1>5 DEF DisciplineInv, OneStart, OthersWait, InFlightSteps, NoCall
  <2> QED
    BY <2>1 DEF OneStart
<1>14. StartedOnce'
  BY <1>1, <1>5, OthersStartedOnce DEF DisciplineInv, NoCall
<1>15. StartedFirst'
  <2>1. \A d \in Commands : ~Pending(d)'
    BY <1>1, <1>5 DEF DisciplineInv, OneStart, OthersWait, InFlightSteps, NoCall, Pending
  <2> QED
    BY <2>1 DEF StartedFirst
<1>16. FinishedOnce'
  <2>1. ~Finishing(c)'
    BY <1>4, <1>5 DEF Finishing, StartCalls, FinishCalls, NoCall
  <2>2. ASSUME NEW d \in Commands, Finishing(d) PROVE cmd[d].id # cmd[c].id
    <3>1. d # c /\ cmd[d].pc \notin {"take", "cancel_capture"}
      <4>1. cmd[d].pc = "cancel_capture" => cmd[d].call \in {"start", "cancel", "test_cancel"}
        BY CallsOfSteps
      <4> QED
        BY <1>4, <2>2, <4>1 DEF Finishing, FinishCalls, StartCalls
    <3> QED
      BY <1>4, <3>1, PendingUnnamed
  <2>3. \A s : HasWorker(s)' => s = cmd[c].id
    BY <1>3, <1>7 DEF HasWorker
  <2> QED
    BY <1>1, <2>1, <2>2, <2>3, OthersFinishedOnce DEF DisciplineInv
<1> QED
  BY <1>6, <1>8, <1>9, <1>10, <1>11, <1>12, <1>13, <1>14, <1>15, <1>16 DEF DisciplineInv

(* A worker that is not the call's, or may not be taken, is a plain move.  *)
TakeRefused(c) ==
  /\ UNCHANGED <<vars, control, pump, slot, tests, caller>>
  /\ \/ cmd[c].pc \in {"take", "cancel_capture"} /\ Step(c, "leave")
     \/ cmd[c].pc = "cancel_capture" /\ Step(c, "cancel_session") /\ ~control.start_in_flight

LEMMA TakeRefusedKeeps ==
  ASSUME DisciplineInv, NEW c \in Commands, TakeRefused(c)
  PROVE  DisciplineInv'
<1> ServiceTypes /\ BasicInv /\ CommandsFit /\ cmd \in [Commands -> CmdType]
  BY DEF DisciplineInv, ServiceTypes
<1>1. OthersWait(c)
  BY StepEffect DEF TakeRefused
<1>2. cmd' \in [Commands -> CmdType]
  BY StepKeepsType DEF CommandSteps, TakeRefused
<1>3. Begun' = Begun /\ BasicInv' /\ UNCHANGED <<next_id, op>>
  BY OutsideKeepsBasic DEF TakeRefused, vars
<1>4. /\ cmd[c].pc \in {"take", "cancel_capture"} /\ cmd[c].pump = NoPump /\ CommandFits(c)
      /\ cmd[c].id # 0 /\ cmd[c].call # "none"
  BY CallsOfSteps DEF CommandsFit, CommandFits, TakeRefused, Joined, StartCalls
<1>5. slot' \in SlotType
  BY DEF ServiceTypes, TakeRefused
<1>6. CASE cmd[c].pc \in {"take", "cancel_capture"} /\ Step(c, "leave")
  <2>1. Leaves(c)
    BY <1>6, StepEffect
  <2>2. CommandFits(c)'
    BY <1>3, <1>4, <2>1, LeavingFits
  <2>3. \/ cmd'[c] = NoCall
        \/ /\ cmd[c].call \in DictationCalls
           /\ cmd'[c].call = cmd[c].call /\ cmd'[c].pc = "reset"
           /\ cmd'[c].id = cmd[c].id /\ cmd'[c].pump = cmd[c].pump
    BY <2>1, LeavesPlain
  <2>4. PlainMove(c)
    BY <1>1, <1>2, <1>3, <1>4, <1>5, <2>2, <2>3
    DEF PlainMove, TakeRefused, PlainSteps, NoCall, Finishing, FinishCalls, DictationCalls,
        TestCalls
  <2> QED
    BY <2>4, PlainMoveKeeps
<1>7. CASE /\ cmd[c].pc = "cancel_capture" /\ Step(c, "cancel_session")
           /\ ~control.start_in_flight
  <2>1. Goes(c, "cancel_session")
    BY <1>7, StepEffect
  <2>2. cmd'[c].pc = "cancel_session" /\ cmd'[c].call = cmd[c].call
          /\ cmd'[c].id = cmd[c].id /\ cmd'[c].pump = cmd[c].pump
    BY <2>1 DEF Goes, CmdType
  <2>3. cmd[c].call \in {"start", "cancel", "test_cancel"}
    BY <1>7, CallsOfSteps
  <2>4. "cancel_session" \in CallSteps[cmd[c].call]
    BY <2>3 DEF CallSteps, CancelSteps
  <2>5. CommandFits(c)'
    BY <1>3, <1>4, <2>2, <2>4 DEF CommandFits, Joined
  <2>6. PlainMove(c)
    BY <1>1, <1>2, <1>3, <1>4, <1>5, <1>7, <2>2, <2>3, <2>5
    DEF PlainMove, TakeRefused, PlainSteps, Finishing, FinishCalls
  <2> QED
    BY <2>6, PlainMoveKeeps
<1> QED
  BY <1>6, <1>7 DEF TakeRefused

(* The worker of the session is claimed and told to stop.                  *)
Takes(c, step) ==
  /\ UNCHANGED <<vars, slot, tests, caller>>
  /\ TakeWorker(c, step)
  /\ \/ cmd[c].pc = "take" /\ step = "join"
     \/ cmd[c].pc = "cancel_capture" /\ step = "cancel_join"

LEMMA TakesKeeps ==
  ASSUME DisciplineInv, NEW c \in Commands, NEW step, Takes(c, step)
  PROVE  DisciplineInv'
<1> /\ TakeWorker(c, step) /\ UNCHANGED <<vars, slot, tests, caller>>
    /\ \/ cmd[c].pc = "take" /\ step = "join"
       \/ cmd[c].pc = "cancel_capture" /\ step = "cancel_join"
  BY DEF Takes
<1> ServiceTypes /\ BasicInv /\ CommandsFit /\ cmd \in [Commands -> CmdType]
      /\ pump \in [Pumps -> PumpType] /\ control \in ControlType
  BY DEF DisciplineInv, ServiceTypes
<1> DEFINE w == control.worker
<1>1. w \in Pumps /\ w # NoPump /\ pump[w].id = cmd[c].id /\ HasWorker(cmd[c].id)
  BY DEF TakeWorker, OwnWorker, ControlType, HasWorker
<1>2. control'.worker = NoPump /\ control'.start_in_flight = control.start_in_flight
        /\ control' \in ControlType
  BY DEF TakeWorker, ControlType
<1>3. /\ pump' \in [Pumps -> PumpType]
      /\ \A p \in Pumps : (pump'[p].pc = pump[p].pc /\ pump'[p].id = pump[p].id)
      /\ \A p \in Pumps \ {w} : pump'[p] = pump[p]
  BY <1>1 DEF TakeWorker, PumpType
<1>4. OthersWait(c)
  BY DEF TakeWorker, OthersWait
<1>5. /\ cmd'[c].call = cmd[c].call /\ cmd'[c].id = cmd[c].id
      /\ cmd'[c].pc = step /\ cmd'[c].pump = w
  BY DEF TakeWorker, CmdType
<1>6. cmd' \in [Commands -> CmdType]
  <2>1. step \in CommandSteps
    BY DEF CommandSteps
  <2>2. [cmd[c] EXCEPT !.pc = step, !.pump = w] \in CmdType
    BY <1>1, <2>1 DEF CmdType
  <2>3. cmd' = [cmd EXCEPT ![c] = [cmd[c] EXCEPT !.pc = step, !.pump = w]]
    BY DEF TakeWorker
  <2> QED
    BY <2>2, <2>3
<1> HIDE DEF w
<1>7. /\ CommandFits(c) /\ cmd[c].pump = NoPump /\ cmd[c].id # 0
      /\ cmd[c].call \notin {"none", "test"}
      /\ step = "join" => cmd[c].call \in FinishCalls
      /\ step = "cancel_join" => cmd[c].call \in {"start", "cancel", "test_cancel"}
  BY CallsOfSteps DEF CommandsFit, CommandFits, Joined, StartCalls, FinishCalls
<1>8. BasicInv' /\ Begun' = Begun /\ UNCHANGED op
  BY OutsideKeepsBasic DEF vars
<1>9. ServiceTypes'
  BY <1>2, <1>3, <1>6, <1>8 DEF ServiceTypes
<1>10. CommandsFit'
  <2>1. step \in CallSteps[cmd[c].call]
    BY <1>7 DEF CallSteps, CancelSteps, FinishCalls
  <2>2. CommandFits(c)'
    BY <1>1, <1>5, <1>7, <1>8, <2>1 DEF CommandFits, Joined
  <2> QED
    BY <1>4, <1>8, <2>2, OthersFit
<1>11. PumpsFit'
  <2>1. pump[w].pc # "none"
    BY <1>1 DEF DisciplineInv, WorkersClaimed, w
  <2> QED
    BY <1>3, <1>8, <2>1 DEF DisciplineInv, PumpsFit
<1>12. OpsFollow'
  <2>1. cmd[c].pc \notin DOMAIN CallAt /\ cmd'[c].pc \notin DOMAIN CallAt
    BY <1>5 DEF CallAt
  <2> QED
    BY <1>3, <1>4, <1>8, <2>1, OutsideFollows DEF DisciplineInv
<1>13. WorkersClaimed'
  <2>1. pump'[w].pc # "none" /\ pump'[w].id = cmd[c].id
    BY <1>1, <1>3 DEF DisciplineInv, WorkersClaimed, w
  <2>2. \A d \in Commands \ {c} : cmd'[d] = cmd[d] /\ (cmd[d].pump # NoPump => cmd[d].pump # w)
    BY <1>4 DEF DisciplineInv, WorkersClaimed, OthersWait, w
  <2>3. \A d \in Commands : cmd[d].pump \in Pumps \cup {NoPump}
    BY DEF CmdType
  <2> QED
    BY <1>1, <1>2, <1>3, <1>5, <2>1, <2>2, <2>3 DEF DisciplineInv, WorkersClaimed
<1>14. OneStart'
  BY <1>2, <1>4, <1>5 DEF DisciplineInv, OneStart, OthersWait, InFlightSteps
<1>15. StartedOnce'
  BY <1>4, <1>5, OthersStartedOnce DEF DisciplineInv
<1>16. StartedFirst'
  <2>1. ~Pending(c)'
    BY <1>5 DEF Pending
  <2>2. \A p \in Pumps : pump'[p].id \in {pump[p].id, 0, 0}
    BY <1>3
  <2>3. \A e \in Commands \ {c} : Pending(e) => cmd[e].id \notin {0, 0, cmd'[c].id}
    BY <1>1, <1>5, PendingInFlight
  <2> QED
    BY <1>4, <2>1, <2>2, <2>3, OthersStartedFirst DEF DisciplineInv
<1>17. FinishedOnce'
  <2>1. \A d \in Commands \ {c} : Finishing(d)' =>
          Finishing(d) /\ cmd'[d] = cmd[d] /\ cmd[d].id # cmd[c].id
    BY <1>1, <1>4 DEF DisciplineInv, FinishedOnce, Finishing, OthersWait
  <2> QED
    BY <1>2, <1>5, <2>1 DEF DisciplineInv, FinishedOnce, HasWorker
<1> QED
  BY <1>8, <1>9, <1>10, <1>11, <1>12, <1>13, <1>14, <1>15, <1>16, <1>17 DEF DisciplineInv

(* The worker has exited and is joined.                                    *)
LEMMA JoinKeeps ==
  ASSUME DisciplineInv, NEW c \in Commands, Join(c)
  PROVE  DisciplineInv'
<1> ServiceTypes /\ BasicInv /\ CommandsFit /\ cmd \in [Commands -> CmdType]
      /\ pump \in [Pumps -> PumpType]
  BY DEF DisciplineInv, ServiceTypes
<1> DEFINE w == cmd[c].pump
<1>1. /\ UNCHANGED <<vars, slot, tests, caller, control>>
      /\ cmd[c].pc \in {"join", "cancel_join"}
      /\ pump[w].pc = "exited"
      /\ pump' = [pump EXCEPT ![w] = NoWorker]
  BY DEF Join, controlFrame, Joined, Exited
<1>2. w \in Pumps /\ w # NoPump
  BY <1>1 DEF CommandsFit, CommandFits, Joined, CmdType
<1>3. \A p \in Pumps : pump'[p] = IF p = w THEN NoWorker ELSE pump[p]
  BY <1>1
<1>4. \/ Done(c) /\ cmd[c].call \notin DictationCalls
      \/ \E step \in {"reset", "finalize", "cancel_session"} :
           /\ cmd' = [cmd EXCEPT ![c].pump = NoPump, ![c].pc = step]
           /\ step = "reset" => cmd[c].call \in DictationCalls
           /\ step = "finalize" => cmd[c].pc = "join"
           /\ step = "cancel_session" => cmd[c].pc = "cancel_join"
  <2> DEFINE next == IF pump[w].failed THEN "leave" ELSE Joined[cmd[c].pc]
  <2>1. next \in {"leave", IF cmd[c].pc = "join" THEN "finalize" ELSE "cancel_session"}
    BY <1>1 DEF Joined
  <2>2. IF next = "leave" /\ cmd[c].call \notin DictationCalls
          THEN Done(c)
          ELSE cmd' = [cmd EXCEPT ![c].pump = NoPump,
                                  ![c].pc = IF next = "leave" THEN "reset" ELSE next]
    BY DEF Join
  <2> HIDE DEF next
  <2>3. CASE next = "leave" /\ cmd[c].call \notin DictationCalls
    BY <2>2, <2>3
  <2>4. CASE next = "leave" /\ cmd[c].call \in DictationCalls
    BY <2>2, <2>4
  <2>5. CASE next # "leave"
    BY <1>1, <2>1, <2>2, <2>5
  <2> QED
    BY <2>3, <2>4, <2>5
<1>5. OthersWait(c)
  BY <1>4 DEF Done, OthersWait
<1>6. \/ cmd'[c] = NoCall
      \/ \E step \in {"reset", "finalize", "cancel_session"} :
           /\ cmd'[c].call = cmd[c].call /\ cmd'[c].id = cmd[c].id
           /\ cmd'[c].pc = step /\ cmd'[c].pump = NoPump
           /\ step = "reset" => cmd[c].call \in DictationCalls
           /\ step = "finalize" => cmd[c].pc = "join"
           /\ step = "cancel_session" => cmd[c].pc = "cancel_join"
  BY <1>4 DEF Done, CmdType
<1>7. cmd' \in [Commands -> CmdType]
  <2>1. CASE Done(c)
    BY <2>1, NoCallHasType DEF Done
  <2>2. ASSUME NEW step \in {"reset", "finalize", "cancel_session"},
               cmd' = [cmd EXCEPT ![c].pump = NoPump, ![c].pc = step]
        PROVE  cmd' \in [Commands -> CmdType]
    <3>1. [cmd[c] EXCEPT !.pump = NoPump, !.pc = step] \in CmdType
      <4>1. cmd[c] \in CmdType /\ step \in CommandSteps
        BY DEF CommandSteps
      <4> QED
        BY <4>1 DEF CmdType
    <3>2. cmd' = [cmd EXCEPT ![c] = [cmd[c] EXCEPT !.pump = NoPump, !.pc = step]]
      BY <2>2
    <3> QED
      BY <3>1, <3>2
  <2> QED
    BY <1>4, <2>1, <2>2
<1> HIDE DEF w
<1>8. /\ CommandFits(c) /\ cmd[c].id # 0 /\ cmd[c].call \notin {"none", "test"}
      /\ cmd[c].pc = "join" => cmd[c].call \in FinishCalls
      /\ cmd[c].pc = "cancel_join" => cmd[c].call \in {"start", "cancel", "test_cancel"}
  BY <1>1, CallsOfSteps DEF CommandsFit, CommandFits, StartCalls, FinishCalls
<1>9. BasicInv' /\ Begun' = Begun /\ UNCHANGED op
  BY <1>1, OutsideKeepsBasic DEF vars
<1>10. ServiceTypes'
  <2>1. NoWorker \in PumpType
    BY MaxSessionAssumption DEF NoWorker, PumpType
  <2>2. pump' \in [Pumps -> PumpType]
    BY <1>1, <2>1
  <2> QED
    BY <1>1, <1>7, <1>9, <2>2 DEF ServiceTypes
<1>11. CommandsFit'
  <2>1. CASE cmd'[c] = NoCall
    BY <1>5, <1>9, <2>1, NoCallFits, OthersFit
  <2>2. ASSUME NEW step \in {"reset", "finalize", "cancel_session"},
               cmd'[c].call = cmd[c].call, cmd'[c].id = cmd[c].id,
               cmd'[c].pc = step, cmd'[c].pump = NoPump,
               step = "reset" => cmd[c].call \in DictationCalls,
               step = "finalize" => cmd[c].pc = "join",
               step = "cancel_session" => cmd[c].pc = "cancel_join"
        PROVE  CommandsFit'
    <3>1. step \in CallSteps[cmd[c].call]
      BY <1>8, <2>2 DEF CallSteps, CancelSteps, FinishCalls, DictationCalls
    <3>2. CommandFits(c)'
      BY <1>8, <1>9, <2>2, <3>1 DEF CommandFits, Joined
    <3> QED
      BY <1>5, <1>9, <3>2, OthersFit
  <2> QED
    BY <1>6, <2>1, <2>2
<1>12. PumpsFit'
  <2>1. NoWorker.pc = "none"
    BY DEF NoWorker
  <2>2. ASSUME NEW p \in Pumps
        PROVE  /\ pump'[p].pc = "none" => pump'[p] = NoWorker
               /\ pump'[p].pc # "none" => pump'[p].id \in Begun'
    BY <1>3, <1>9, <2>1 DEF DisciplineInv, PumpsFit
  <2> QED
    BY <2>2 DEF PumpsFit
<1>13. OpsFollow'
  <2>1. cmd[c].pc \notin DOMAIN CallAt /\ cmd'[c].pc \notin DOMAIN CallAt
    BY <1>1, <1>6 DEF CallAt, NoCall
  <2>2. \A p \in Pumps : (pump'[p].pc = pump[p].pc /\ pump'[p].id = pump[p].id)
          \/ (pump[p].pc # "pumping" /\ pump'[p].pc # "pumping")
    BY <1>1, <1>3 DEF NoWorker
  <2> QED
    BY <1>5, <1>9, <2>1, <2>2, OutsideFollows DEF DisciplineInv
<1>14. WorkersClaimed'
  <2>1. \A d \in Commands : cmd'[d].pump # NoPump =>
          d # c /\ cmd'[d] = cmd[d] /\ cmd[d].pump # w /\ cmd[d].pump \in Pumps
    BY <1>2, <1>5, <1>6 DEF DisciplineInv, WorkersClaimed, OthersWait, NoCall, CmdType, w
  <2>2. control.worker # w /\ (control.worker # NoPump => control.worker \in Pumps)
    BY <1>2 DEF DisciplineInv, WorkersClaimed, ServiceTypes, ControlType, w
  <2> QED
    BY <1>1, <1>3, <2>1, <2>2 DEF DisciplineInv, WorkersClaimed
<1>15. OneStart'
  BY <1>1, <1>5, <1>6 DEF DisciplineInv, OneStart, OthersWait, InFlightSteps, NoCall
<1>16. StartedOnce'
  BY <1>5, <1>6, OthersStartedOnce DEF DisciplineInv, NoCall
<1>17. StartedFirst'
  <2>1. ~Pending(c)'
    BY <1>6 DEF Pending, NoCall
  <2>2. \A p \in Pumps : pump'[p].id \in {pump[p].id, 0, 0}
    BY <1>3 DEF NoWorker
  <2>3. cmd'[c].id \in {0, cmd[c].id}
    BY <1>6 DEF NoCall
  <2>4. \A e \in Commands \ {c} : Pending(e) => cmd[e].id \notin {0, 0, cmd'[c].id}
    BY <1>1, <2>3, PendingInFlight, PendingUnnamed
  <2> QED
    BY <1>5, <2>1, <2>2, <2>4, OthersStartedFirst DEF DisciplineInv
<1>18. FinishedOnce'
  <2>1. Finishing(c)' => Finishing(c) /\ cmd'[c].id = cmd[c].id
    BY <1>1, <1>6 DEF Finishing, NoCall, FinishCalls
  <2>2. \A s : HasWorker(s)' => HasWorker(s)
    <3>1. control.worker # w /\ (control.worker # NoPump => control.worker \in Pumps)
      BY <1>2 DEF DisciplineInv, WorkersClaimed, ServiceTypes, ControlType, w
    <3> QED
      BY <1>1, <1>3, <3>1 DEF HasWorker
  <2> QED
    BY <1>5, <2>1, <2>2, OthersFinishedOnce DEF DisciplineInv
<1> QED
  BY <1>9, <1>10, <1>11, <1>12, <1>13, <1>14, <1>15, <1>16, <1>17, <1>18 DEF DisciplineInv

---------------------------------------------------------------------------
(* What the steps of the runtime do to the threads, seen from outside.     *)

LEMMA ContinueEffect ==
  ASSUME BasicInv, NEW t \in Threads, Continue(t)
  PROVE  /\ Others(t) /\ next_id' = next_id
         /\ op[t].call # "none"
         /\ op'[t] # Idle => op'[t].call = op[t].call /\ op'[t].id = op[t].id
<1> op \in [Threads -> OpType]
  BY DEF BasicInv, TypeOK, OpType
<1>1. next_id' = next_id
  BY DEF Continue, ReserveArming, StartCapture, RecordingStarted, StoreRecording, Pump,
         TakeRecording, FinalizeAudio, AudioFinalized, StoreFinalized, TakeFinalized,
         Recognize, RestoreFinalized, ReleaseSilence, CancelSilence, TranscriptReady,
         ClearReservation, FailSession, CancelSession, DiscardAndFail, Discard,
         ReadForFailure, BestEffortFail, SubmitIfAccepted, Submit, lifecycleVars
<1>2. op[t].call # "none"
  <2>1. op[t].pc # "idle"
    BY DEF Continue, ReserveArming, StartCapture, RecordingStarted, StoreRecording, Pump,
           TakeRecording, FinalizeAudio, AudioFinalized, StoreFinalized, TakeFinalized,
           Recognize, RestoreFinalized, ReleaseSilence, CancelSilence, TranscriptReady,
           ClearReservation, FailSession, CancelSession, DiscardAndFail, Discard,
           ReadForFailure, BestEffortFail, At
  <2> QED
    BY <2>1 DEF BasicInv, StepsMatchCalls
<1>3. Return(t) \/ \E step : Goto(t, step) \/ \E stage : FailAt(t, step, stage)
  BY DEF Continue, ReserveArming, StartCapture, RecordingStarted, StoreRecording, Pump,
         TakeRecording, FinalizeAudio, AudioFinalized, StoreFinalized, TakeFinalized,
         Recognize, RestoreFinalized, ReleaseSilence, CancelSilence, TranscriptReady,
         ClearReservation, FailSession, CancelSession, DiscardAndFail, Discard,
         ReadForFailure, BestEffortFail
<1>4. Others(t) /\ (op'[t] = Idle \/ (op'[t].call = op[t].call /\ op'[t].id = op[t].id))
  BY <1>3, ReturnEffect, MoveEffect
<1> QED
  BY <1>1, <1>2, <1>4

(* A thread that enters the runtime for a session.                         *)
Enters(t, call, s) ==
  \/ call = "pump" /\ PumpRecording(t, s)
  \/ call = "finalize" /\ FinalizeRecording(t, s)
  \/ call = "transcribe" /\ Transcribe(t, s)
  \/ call = "cancel" /\ Cancel(t, s)
  \/ call = "fail" /\ \E stage \in CallerStages : Fail(t, s, stage)

LEMMA EntersEffect ==
  ASSUME BasicInv, NEW t \in Threads, NEW s \in Begun, NEW call, Enters(t, call, s)
  PROVE  /\ BasicInv' /\ Others(t) /\ next_id' = next_id
         /\ op[t].call = "none"
         /\ op'[t].call = call /\ op'[t].id = s
<1> op \in [Threads -> OpType]
  BY DEF BasicInv, TypeOK, OpType
<1>1. BasicInv'
  <2>1. Call(t)
    BY DEF Enters, Call
  <2> QED
    BY <2>1, BasicStep
<1>2. next_id' = next_id /\ op[t].call = "none"
  BY DEF Enters, PumpRecording, FinalizeRecording, Transcribe, Cancel, Fail, Submit, Free,
         lifecycleVars
<1>3. \E step, stage : Enter(t, call, step, s, stage)
  BY DEF Enters, PumpRecording, FinalizeRecording, Transcribe, Cancel, Fail
<1> QED
  BY <1>1, <1>2, <1>3, EnterEffect

---------------------------------------------------------------------------
(* The commands' calls of the runtime.                                     *)

serviceUnchanged == UNCHANGED <<control, pump, slot, tests, caller>>

(* From where a command enters the runtime to be at a step within.         *)
EnteredFrom ==
  [finalizing   |-> {"finalize"},
   transcribing |-> {"transcribe"},
   failing      |-> {"fail_recognition", "fail_delivery"},
   cancelling   |-> {"cancel_session"},
   abandoning   |-> {"abandon"}]

(* Entering the runtime is a move of the call's own.                       *)
EntersFor(c, step) ==
  /\ cmd[c].pc \in EnteredFrom[step]
  /\ Enters(c, CallAt[step], cmd[c].id)
  /\ Step(c, step)
  /\ serviceUnchanged

(* A command at a step that calls the runtime has a session.               *)
LEMMA CallersHaveSession ==
  ASSUME DisciplineInv, NEW c \in Commands,
         cmd[c].pc \in {"finalize", "transcribe", "fail_recognition", "fail_delivery",
                        "cancel_session", "abandon", "deliver"} \cup DOMAIN CallAt
  PROVE  /\ cmd[c].id \in Begun /\ cmd[c].id # 0 /\ cmd[c].pump = NoPump
         /\ cmd[c].call # "none" /\ CommandFits(c)
  BY CallsOfSteps
  DEF DisciplineInv, CommandsFit, CommandFits, CallAt, StartCalls, StartSteps, Joined

LEMMA EntersKeeps ==
  ASSUME DisciplineInv, NEW c \in Commands, NEW step \in DOMAIN EnteredFrom, EntersFor(c, step)
  PROVE  DisciplineInv'
<1> ServiceTypes /\ BasicInv /\ CommandsFit /\ cmd \in [Commands -> CmdType] /\ c \in Threads
  BY ThreadsApart DEF DisciplineInv, ServiceTypes
<1>1. step \in {"finalizing", "transcribing", "failing", "cancelling", "abandoning"}
  BY DEF EnteredFrom
<1>2. /\ cmd[c].pc \in {"finalize", "transcribe", "fail_recognition", "fail_delivery",
                        "cancel_session", "abandon"}
      /\ step = "finalizing" => cmd[c].pc = "finalize"
      /\ step = "transcribing" => cmd[c].pc = "transcribe"
      /\ step = "failing" => cmd[c].pc \in {"fail_recognition", "fail_delivery"}
      /\ step = "cancelling" => cmd[c].pc = "cancel_session"
      /\ step = "abandoning" => cmd[c].pc = "abandon"
  BY <1>1 DEF EntersFor, EnteredFrom
<1>3. /\ cmd[c].id \in Begun /\ cmd[c].id # 0 /\ cmd[c].pump = NoPump
      /\ cmd[c].call # "none" /\ CommandFits(c)
  BY <1>2, CallersHaveSession
<1>4. /\ BasicInv' /\ Others(c) /\ next_id' = next_id
      /\ op'[c].call = CallAt[step] /\ op'[c].id = cmd[c].id
  BY <1>3, EntersEffect DEF EntersFor
<1>5. OthersWait(c) /\ Goes(c, step)
  BY <1>1, StepEffect DEF EntersFor
<1>6. cmd' \in [Commands -> CmdType]
  <2>1. step \in CommandSteps
    BY <1>1 DEF CommandSteps
  <2> QED
    BY <2>1, StepKeepsType DEF EntersFor
<1>7. /\ cmd'[c].pc = step
      /\ cmd'[c].call = cmd[c].call /\ cmd'[c].id = cmd[c].id /\ cmd'[c].pump = cmd[c].pump
  BY <1>5 DEF Goes, CmdType
<1>8. CommandFits(c)'
  <2>1. Begun' = Begun
    BY <1>4 DEF Begun
  <2>2. step \in CallSteps[cmd[c].call]
    BY <1>1, <1>2, CallsOfSteps
    DEF CallSteps, StartCalls, FinishCalls, StartSteps, CancelSteps
  <2> QED
    BY <1>1, <1>3, <1>7, <2>1, <2>2 DEF CommandFits, Joined
<1>9. CommandFollows(c)'
  <2>1. step \in DOMAIN CallAt
    BY <1>1 DEF CallAt
  <2> QED
    BY <1>4, <1>7, <2>1 DEF CommandFollows
<1>10. /\ cmd'[c].pc \notin InFlightSteps /\ ~Pending(c)'
       /\ cmd[c].pc \notin {"take", "cancel_capture"}
       /\ Finishing(c)' => Finishing(c)
  BY <1>1, <1>2, <1>7 DEF InFlightSteps, Pending, Finishing
<1>11. slot' \in SlotType
  BY DEF ServiceTypes, EntersFor, serviceUnchanged
<1>12. OwnMove(c)
  BY <1>4, <1>5, <1>6, <1>7, <1>8, <1>9, <1>10, <1>11
  DEF OwnMove, EntersFor, serviceUnchanged
<1> QED
  BY <1>12, OwnMoveKeeps

(* A call that the runtime answers in one step is a plain move.            *)
Answered(c) ==
  /\ serviceUnchanged
  /\ BasicInv' /\ UNCHANGED <<next_id, op>>
  /\ \/ cmd[c].pc = "finalize" /\ Step(c, "leave")
     \/ cmd[c].pc = "transcribe" /\ Step(c, "fail_recognition")
     \/ cmd[c].pc = "deliver" /\ Step(c, "reset")

LEMMA AnsweredKeeps ==
  ASSUME DisciplineInv, NEW c \in Commands, Answered(c)
  PROVE  DisciplineInv'
<1> ServiceTypes /\ BasicInv /\ CommandsFit /\ cmd \in [Commands -> CmdType]
  BY DEF DisciplineInv, ServiceTypes
<1>1. OthersWait(c)
  BY StepEffect DEF Answered
<1>2. cmd' \in [Commands -> CmdType]
  BY StepKeepsType DEF CommandSteps, Answered
<1>3. Begun' = Begun
  BY DEF Begun, Answered
<1>4. /\ cmd[c].pc \in {"finalize", "transcribe", "deliver"}
      /\ cmd[c].id \in Begun /\ cmd[c].id # 0 /\ cmd[c].pump = NoPump
      /\ cmd[c].call \in FinishCalls /\ CommandFits(c)
  <2>1. cmd[c].pc \in {"finalize", "transcribe", "deliver"}
    BY DEF Answered
  <2> QED
    BY <2>1, CallersHaveSession, CallsOfSteps DEF FinishCalls
<1>5. slot' \in SlotType
  BY DEF ServiceTypes, Answered, serviceUnchanged
<1>6. CASE cmd[c].pc = "finalize" /\ Step(c, "leave")
  <2>1. Leaves(c)
    BY <1>6, StepEffect
  <2>2. CommandFits(c)'
    BY <1>3, <1>4, <2>1, LeavingFits
  <2>3. \/ cmd'[c] = NoCall
        \/ /\ cmd'[c].call = cmd[c].call /\ cmd'[c].pc = "reset"
           /\ cmd'[c].id = cmd[c].id /\ cmd'[c].pump = cmd[c].pump
    BY <2>1, LeavesPlain
  <2>4. PlainMove(c)
    BY <1>1, <1>2, <1>4, <1>5, <1>6, <2>2, <2>3
    DEF PlainMove, Answered, serviceUnchanged, PlainSteps, NoCall, Finishing, FinishCalls
  <2> QED
    BY <2>4, PlainMoveKeeps
<1>7. ASSUME NEW step \in {"fail_recognition", "reset"},
             cmd[c].pc \in {"transcribe", "deliver"}, Step(c, step)
      PROVE  DisciplineInv'
  <2>1. Goes(c, step)
    BY <1>7, StepEffect
  <2>2. /\ cmd'[c].pc = step
        /\ cmd'[c].call = cmd[c].call /\ cmd'[c].id = cmd[c].id /\ cmd'[c].pump = cmd[c].pump
    BY <2>1 DEF Goes, CmdType
  <2>3. cmd[c].call = "finish"
    BY <1>7, CallsOfSteps
  <2>4. step \in CallSteps[cmd[c].call]
    BY <2>3 DEF CallSteps
  <2>5. CommandFits(c)'
    BY <1>3, <1>4, <2>2, <2>3, <2>4 DEF CommandFits, StartCalls, Joined
  <2>6. PlainMove(c)
    BY <1>1, <1>2, <1>4, <1>5, <1>7, <2>2, <2>3, <2>5
    DEF PlainMove, Answered, serviceUnchanged, PlainSteps, Finishing, FinishCalls
  <2> QED
    BY <2>6, PlainMoveKeeps
<1> QED
  BY <1>6, <1>7 DEF Answered

(* Where a call goes on when the runtime has answered.                     *)
LEMMA ResumeSteps ==
  ASSUME NEW c
  PROVE  /\ cmd[c].pc = "starting" => Resume(c) \in {"install", "uninstall"}
         /\ cmd[c].pc = "finalizing" =>
              \/ Resume(c) = "leave"
              \/ Resume(c) = "transcribe" /\ cmd[c].call = "finish"
              \/ Resume(c) = "cancel_session" /\ cmd[c].call # "finish"
         /\ cmd[c].pc = "transcribing" => Resume(c) \in {"fail_recognition", "await", "leave"}
         /\ cmd[c].pc \in {"failing", "cancelling", "abandoning"} => Resume(c) = "leave"
BY DEF Resume, Doing

(* A step within the runtime is a move of the call's own.                  *)
LEMMA RuntimeStepKeeps ==
  ASSUME DisciplineInv, NEW c \in Commands, RuntimeStep(c)
  PROVE  DisciplineInv'
<1> ServiceTypes /\ BasicInv /\ CommandsFit /\ cmd \in [Commands -> CmdType] /\ c \in Threads
  BY ThreadsApart DEF DisciplineInv, ServiceTypes
<1>1. Continue(c) /\ UNCHANGED <<control, pump, slot, tests, caller>>
  BY DEF RuntimeStep, serviceFrame
<1>2. BasicInv'
  BY <1>1, BasicStep
<1>3. /\ Others(c) /\ next_id' = next_id /\ op[c].call # "none"
      /\ op'[c] # Idle => op'[c].call = op[c].call /\ op'[c].id = op[c].id
  BY <1>1, ContinueEffect
<1>4. cmd[c].pc \in DOMAIN CallAt /\ op[c].call = CallAt[cmd[c].pc] /\ op[c].id = cmd[c].id
  BY <1>3 DEF DisciplineInv, OpsFollow, CommandFollows
<1>5. /\ cmd[c].id \in Begun /\ cmd[c].id # 0 /\ cmd[c].pump = NoPump
      /\ cmd[c].call # "none" /\ CommandFits(c)
  BY <1>4, CallersHaveSession
<1>6. Begun' = Begun
  BY <1>3 DEF Begun
<1>7. slot' \in SlotType
  BY <1>1 DEF ServiceTypes
<1>8. CASE op'[c] # Idle
  <2>1. cmd' = cmd
    BY <1>8 DEF RuntimeStep
  <2>2. OthersWait(c)
    BY <2>1 DEF OthersWait
  <2>3. CommandFollows(c)'
    BY <1>3, <1>4, <1>8, <2>1 DEF CommandFollows
  <2>4. CommandFits(c)'
    BY <1>5, <1>6, <2>1 DEF CommandFits
  <2>5. cmd[c].pc \notin {"take", "cancel_capture"}
    BY <1>4 DEF CallAt
  <2>6. OwnMove(c)
    BY <1>1, <1>2, <1>3, <1>7, <2>1, <2>2, <2>3, <2>4, <2>5 DEF OwnMove, Pending, Finishing
  <2> QED
    BY <2>6, OwnMoveKeeps
<1>9. CASE op'[c] = Idle
  <2>1. Step(c, Resume(c))
    BY <1>9 DEF RuntimeStep
  <2>2. cmd[c].pc \in {"starting", "finalizing", "transcribing", "failing", "cancelling",
                       "abandoning"}
    BY <1>4 DEF CallAt
  <2>3. op'[c].call = "none"
    BY <1>9 DEF Idle
  <2>4. OthersWait(c)
    BY <2>1, StepEffect
  <2>5. CASE Resume(c) = "leave"
    <3>1. Leaves(c) /\ cmd' \in [Commands -> CmdType]
      BY <2>1, <2>5, StepEffect, StepKeepsType
    <3>2. CommandFits(c)'
      BY <1>5, <1>6, <3>1, LeavingFits
    <3>3. \/ cmd'[c] = NoCall
          \/ /\ cmd'[c].call = cmd[c].call /\ cmd'[c].pc = "reset"
             /\ cmd'[c].id = cmd[c].id /\ cmd'[c].pump = cmd[c].pump
      BY <3>1, LeavesPlain
    <3>4. CommandFollows(c)'
      BY <2>3, <3>3 DEF CommandFollows, CallAt, NoCall
    <3>5. ~Pending(c)' /\ ~Finishing(c)' /\ cmd'[c].pc \notin InFlightSteps
      BY <3>3 DEF Pending, Finishing, NoCall, FinishCalls, InFlightSteps
    <3>6. cmd[c].pc \notin {"take", "cancel_capture"}
      BY <2>2
    <3>7. OwnMove(c)
      BY <1>1, <1>2, <1>3, <1>7, <2>4, <3>1, <3>2, <3>3, <3>4, <3>5, <3>6 DEF OwnMove
    <3> QED
      BY <3>7, OwnMoveKeeps
  <2>6. CASE Resume(c) # "leave"
    <3>1. /\ cmd[c].pc = "starting" => Resume(c) \in {"install", "uninstall"}
          /\ cmd[c].pc = "finalizing" =>
               \/ Resume(c) = "transcribe" /\ cmd[c].call = "finish"
               \/ Resume(c) = "cancel_session" /\ cmd[c].call # "finish"
          /\ cmd[c].pc = "transcribing" => Resume(c) \in {"fail_recognition", "await"}
          /\ cmd[c].pc \in {"starting", "finalizing", "transcribing"}
      BY <2>2, <2>6, ResumeSteps
    <3>2. Resume(c) \in {"install", "uninstall", "transcribe", "cancel_session",
                         "fail_recognition", "await"}
      BY <3>1
    <3>3. PICK step : step = Resume(c)
      OBVIOUS
    <3>4. Goes(c, step)
      BY <2>1, <2>6, <3>3, StepEffect
    <3>5. cmd' \in [Commands -> CmdType]
      BY <2>1, <3>2, StepKeepsType DEF CommandSteps
    <3>6. /\ cmd'[c].pc = step /\ cmd'[c].call = cmd[c].call
          /\ cmd'[c].id = cmd[c].id /\ cmd'[c].pump = cmd[c].pump
      BY <3>4 DEF Goes, CmdType
    <3>7. step \in CallSteps[cmd[c].call]
      <4>1. cmd[c].pc = "starting" => cmd[c].call \in StartCalls
        BY CallsOfSteps DEF StartSteps
      <4>2. cmd[c].pc = "finalizing" => cmd[c].call \in FinishCalls
        BY CallsOfSteps
      <4>3. cmd[c].pc = "transcribing" => cmd[c].call = "finish"
        BY CallsOfSteps
      <4> QED
        BY <3>1, <3>3, <4>1, <4>2, <4>3
        DEF CallSteps, StartCalls, FinishCalls, StartSteps
    <3>8. CommandFits(c)'
      BY <1>5, <1>6, <3>2, <3>3, <3>6, <3>7 DEF CommandFits, Joined
    <3>9. CommandFollows(c)'
      BY <2>3, <3>2, <3>3, <3>6 DEF CommandFollows, CallAt
    <3>10. /\ Pending(c)' => Pending(c)
           /\ cmd'[c].pc \in InFlightSteps => cmd[c].pc \in InFlightSteps
           /\ Finishing(c)' => Finishing(c)
           /\ cmd[c].pc \notin {"take", "cancel_capture"}
      BY <3>1, <3>2, <3>3, <3>6 DEF Pending, InFlightSteps, Finishing
    <3>11. OwnMove(c)
      BY <1>1, <1>2, <1>3, <1>7, <2>4, <3>5, <3>6, <3>8, <3>9, <3>10 DEF OwnMove
    <3> QED
      BY <3>11, OwnMoveKeeps
  <2> QED
    BY <2>5, <2>6
<1> QED
  BY <1>8, <1>9

(* A start begins its session, or is refused one.                          *)
LEMMA BeginsKeeps ==
  ASSUME DisciplineInv, NEW c \in Commands, Begins(c)
  PROVE  DisciplineInv'
<1> ServiceTypes /\ BasicInv /\ CommandsFit /\ cmd \in [Commands -> CmdType] /\ c \in Threads
  BY ThreadsApart DEF DisciplineInv, ServiceTypes
<1>1. UNCHANGED <<control, pump, slot, caller>> /\ cmd[c].pc = "begin"
  BY DEF Begins, serviceFrame, Doing
<1>2. /\ cmd[c].call \in StartCalls /\ cmd[c].id = 0 /\ cmd[c].pump = NoPump /\ CommandFits(c)
      /\ op[c].call = "none"
  BY <1>1, CallsOfSteps
  DEF CommandsFit, CommandFits, StartSteps, Joined, DisciplineInv, OpsFollow, CommandFollows, CallAt
<1>3. CASE ~CanBegin /\ Step(c, "uninstall") /\ UNCHANGED <<vars, tests>>
  <2>1. BasicInv' /\ Begun' = Begun /\ UNCHANGED <<next_id, op>>
    BY <1>3, OutsideKeepsBasic DEF vars
  <2>2. OthersWait(c) /\ Goes(c, "uninstall")
    BY <1>3, StepEffect
  <2>3. cmd' \in [Commands -> CmdType]
    BY <1>3, StepKeepsType DEF CommandSteps
  <2>4. /\ cmd'[c].pc = "uninstall" /\ cmd'[c].call = cmd[c].call
        /\ cmd'[c].id = cmd[c].id /\ cmd'[c].pump = cmd[c].pump
    BY <2>2 DEF Goes, CmdType
  <2>5. CommandFits(c)'
    BY <1>2, <2>1, <2>4 DEF CommandFits, StartCalls, CallSteps, StartSteps, Joined
  <2>6. CommandFollows(c)'
    BY <1>2, <2>1, <2>4 DEF CommandFollows, CallAt
  <2>7. /\ ~Pending(c)' /\ ~Finishing(c)' /\ cmd[c].pc \in InFlightSteps
        /\ cmd[c].pc \notin {"take", "cancel_capture"}
    BY <1>1, <1>2, <2>4 DEF Pending, Finishing, InFlightSteps, StartCalls, FinishCalls
  <2>8. slot' \in SlotType /\ Others(c) /\ tests' = tests
    BY <1>1, <1>3, <2>1 DEF ServiceTypes, Others
  <2>9. OwnMove(c)
    BY <1>1, <2>1, <2>2, <2>3, <2>4, <2>5, <2>6, <2>7, <2>8 DEF OwnMove
  <2> QED
    BY <2>9, OwnMoveKeeps
<1>4. CASE /\ BeginRecording(c)
           /\ cmd' = [cmd EXCEPT ![c].pc = "starting", ![c].id = next_id]
           /\ tests' = IF cmd[c].call = "test" THEN tests \cup {next_id} ELSE tests
  <2>1. BasicInv'
    BY <1>4, BasicStep DEF Call
  <2>2. next_id \in 1 .. MaxSession /\ MaxSession \in Nat
    BY MaxSessionAssumption DEF BasicInv, TypeOK, LifecycleTypeOK
  <2>3. next_id' = next_id + 1
    BY <1>4 DEF BeginRecording, Begin
  <2>4. Begun' = Begun \cup {next_id} /\ next_id \notin Begun \cup {0}
    BY <2>2, <2>3 DEF Begun
  <2>5. Others(c) /\ op'[c].call = "start" /\ op'[c].id = next_id
    BY <1>4, EnterEffect DEF BeginRecording, BasicInv, TypeOK, OpType
  <2>6. OthersWait(c)
    BY <1>4 DEF OthersWait
  <2>7. /\ cmd'[c].pc = "starting" /\ cmd'[c].call = cmd[c].call
        /\ cmd'[c].id = next_id /\ cmd'[c].pump = NoPump
    BY <1>2, <1>4 DEF CmdType
  <2>8. \A d \in Commands \ {c} : cmd'[d] = cmd[d] /\ cmd[d].id # next_id
    BY <2>4, <2>6 DEF OthersWait, CommandsFit, CommandFits
  <2>9. \A p \in Pumps : pump[p].id # next_id
    BY <2>4 DEF DisciplineInv, PumpsFit, NoWorker
  <2>10. ServiceTypes'
    <3>0. next_id \in 0 .. MaxSession /\ "starting" \in CommandSteps
      BY <2>2 DEF CommandSteps
    <3>1. [cmd[c] EXCEPT !.pc = "starting", !.id = next_id] \in CmdType
      BY <3>0 DEF CmdType
    <3>2. cmd' = [cmd EXCEPT ![c] = [cmd[c] EXCEPT !.pc = "starting", !.id = next_id]]
      BY <1>4
    <3>3. cmd' \in [Commands -> CmdType]
      BY <3>1, <3>2
    <3>4. tests' \subseteq Begun'
      BY <1>4, <2>4 DEF ServiceTypes
    <3> QED
      BY <1>1, <3>3, <3>4 DEF ServiceTypes
  <2>11. CommandsFit'
    <3>1. CommandFits(c)'
      BY <1>2, <2>4, <2>7 DEF CommandFits, StartCalls, CallSteps, StartSteps, Joined
    <3> QED
      BY <2>4, <2>6, <3>1, OthersFit
  <2>12. PumpsFit'
    BY <1>1, <2>4 DEF DisciplineInv, PumpsFit
  <2>13. OpsFollow'
    <3>1. ASSUME NEW d \in Commands PROVE CommandFollows(d)'
      <4>1. CASE d = c
        BY <2>5, <2>7, <4>1 DEF CommandFollows, CallAt
      <4>2. CASE d # c
        BY <2>5, <2>8, <4>2, ThreadsApart DEF DisciplineInv, OpsFollow, CommandFollows, Others
      <4> QED
        BY <4>1, <4>2
    <3>2. ASSUME NEW p \in Pumps PROVE PumpFollows(p)'
      BY <1>1, <2>5, ThreadsApart DEF DisciplineInv, OpsFollow, PumpFollows, Others
    <3> QED
      BY <3>1, <3>2 DEF OpsFollow
  <2>14. WorkersClaimed'
    BY <1>1, <2>7, <2>8 DEF DisciplineInv, WorkersClaimed
  <2>15. OneStart'
    BY <1>1, <2>7, <2>8 DEF DisciplineInv, OneStart, InFlightSteps
  <2>16. StartedOnce'
    BY <2>7, <2>8 DEF DisciplineInv, StartedOnce
  <2>17. StartedFirst'
    <3> SUFFICES ASSUME NEW e \in Commands, Pending(e)'
                 PROVE  /\ \A p \in Pumps : pump[p].id # cmd'[e].id
                        /\ \A d \in Commands : d # e /\ cmd'[d].id = cmd'[e].id =>
                             cmd'[d].call \in TestCalls /\ cmd'[d].pc \in {"take", "cancel_capture"}
      BY <1>1 DEF StartedFirst
    <3>1. CASE e = c
      BY <2>7, <2>8, <2>9, <3>1
    <3>2. CASE e # c
      <4>1. Pending(e) /\ cmd'[e] = cmd[e]
        BY <2>8, <3>2 DEF Pending
      <4>2. e = c
        BY <1>1, <4>1 DEF DisciplineInv, OneStart, Pending, InFlightSteps
      <4> QED
        BY <3>2, <4>2
    <3> QED
      BY <3>1, <3>2
  <2>18. FinishedOnce'
    <3>1. ~Finishing(c)'
      BY <1>2, <2>7 DEF Finishing, StartCalls, FinishCalls
    <3>2. \A s : HasWorker(s)' => HasWorker(s)
      BY <1>1 DEF HasWorker
    <3> QED
      BY <2>6, <3>1, <3>2, OthersFinishedOnce DEF DisciplineInv
  <2> QED
    BY <2>1, <2>10, <2>11, <2>12, <2>13, <2>14, <2>15, <2>16, <2>17, <2>18 DEF DisciplineInv
<1> QED
  BY <1>3, <1>4 DEF Begins

---------------------------------------------------------------------------
(* The workers.                                                            *)

(* A worker goes from step to step for its session.                        *)
PumpMove(p) ==
  /\ BasicInv' /\ next_id' = next_id
  /\ UNCHANGED <<control, slot, cmd, tests, caller>>
  /\ Others(p)
  /\ pump' \in [Pumps -> PumpType]
  /\ \A q \in Pumps \ {p} : pump'[q] = pump[q]
  /\ pump[p].pc # "none" /\ pump'[p].pc # "none"
  /\ pump'[p].id = pump[p].id
  /\ PumpFollows(p)'

LEMMA PumpMoveKeeps ==
  ASSUME DisciplineInv, NEW p \in Pumps, PumpMove(p)
  PROVE  DisciplineInv'
<1>1. /\ next_id' = next_id /\ UNCHANGED <<control, slot, cmd, tests, caller>> /\ Others(p)
      /\ BasicInv'
  BY DEF PumpMove
<1>2. \A q \in Pumps : pump'[q].id = pump[q].id /\ (pump'[q].pc = "none" <=> pump[q].pc = "none")
  BY DEF PumpMove
<1>3. Begun' = Begun
  BY <1>1 DEF Begun
<1>4. ServiceTypes'
  BY <1>1, <1>3 DEF DisciplineInv, ServiceTypes, PumpMove
<1>5. CommandsFit'
  BY <1>1, <1>3 DEF DisciplineInv, CommandsFit, CommandFits
<1>6. PumpsFit'
  <2>1. pump'[p].pc # "none" /\ pump'[p].id \in Begun'
    BY <1>3 DEF DisciplineInv, PumpsFit, PumpMove
  <2>2. \A q \in Pumps \ {p} : pump'[q] = pump[q]
    BY DEF PumpMove
  <2> QED
    BY <1>3, <2>1, <2>2 DEF DisciplineInv, PumpsFit
<1>7. OpsFollow'
  <2>1. \A d \in Commands : CommandFollows(d)'
    BY <1>1, ThreadsApart DEF DisciplineInv, OpsFollow, CommandFollows, Others
  <2>2. ASSUME NEW q \in Pumps PROVE PumpFollows(q)'
    <3>1. CASE q = p
      BY <3>1 DEF PumpMove
    <3>2. CASE q # p
      BY <1>1, <3>2, ThreadsApart DEF DisciplineInv, OpsFollow, PumpFollows, Others, PumpMove
    <3> QED
      BY <3>1, <3>2
  <2> QED
    BY <2>1, <2>2 DEF OpsFollow
<1>8. WorkersClaimed'
  <2>1. control.worker \in Pumps \cup {NoPump} /\ \A c \in Commands : cmd[c].pump \in Pumps \cup {NoPump}
    BY DEF DisciplineInv, ServiceTypes, ControlType, CmdType
  <2> QED
    BY <1>1, <1>2, <2>1 DEF DisciplineInv, WorkersClaimed
<1>9. OneStart' /\ StartedOnce'
  BY <1>1 DEF DisciplineInv, OneStart, StartedOnce
<1>10. StartedFirst'
  BY <1>1, <1>2 DEF DisciplineInv, StartedFirst, Pending
<1>11. FinishedOnce'
  <2>1. control.worker \in Pumps \cup {NoPump}
    BY DEF DisciplineInv, ServiceTypes, ControlType
  <2>2. \A s : HasWorker(s)' => HasWorker(s)
    BY <1>1, <1>2, <2>1 DEF HasWorker
  <2>3. \A c \in Commands : Finishing(c)' => Finishing(c)
    BY <1>1 DEF Finishing
  <2> QED
    BY <1>1, <2>2, <2>3 DEF DisciplineInv, FinishedOnce, HasWorker
<1> QED
  BY <1>1, <1>4, <1>5, <1>6, <1>7, <1>8, <1>9, <1>10, <1>11 DEF DisciplineInv

(* All steps of a worker are such moves.                                   *)
LEMMA DrainKeeps ==
  ASSUME DisciplineInv, NEW p \in Pumps, Drain(p)
  PROVE  DisciplineInv'
<1> ServiceTypes /\ BasicInv /\ pump \in [Pumps -> PumpType] /\ p \in Threads
  BY ThreadsApart DEF DisciplineInv, ServiceTypes
<1>1. /\ UNCHANGED <<control, slot, cmd, tests, caller>>
      /\ pump[p].pc \in {"call", "pumping", "check", "wait"}
      /\ \/ pump' = pump
         \/ \E step \in {"call", "pumping", "check", "wait", "exited"} : PumpTo(p, step)
         \/ PumpFails(p)
  BY DEF Drain, PumpCall, PumpStep, PumpCheck, PumpWait, PumpAt, pumpFrame
<1>2. /\ pump' \in [Pumps -> PumpType]
      /\ \A q \in Pumps \ {p} : pump'[q] = pump[q]
      /\ pump'[p].id = pump[p].id
      /\ pump'[p].pc # "none"
  <2>1. CASE pump' = pump
    BY <1>1, <2>1
  <2>2. ASSUME NEW step \in {"call", "pumping", "check", "wait", "exited"}, PumpTo(p, step)
        PROVE  /\ pump' \in [Pumps -> PumpType]
               /\ \A q \in Pumps \ {p} : pump'[q] = pump[q]
               /\ pump'[p].id = pump[p].id
               /\ pump'[p].pc # "none"
    BY <2>2 DEF PumpTo, PumpType
  <2>3. CASE PumpFails(p)
    <3>1. [pump[p] EXCEPT !.pc = "exited", !.failed = TRUE] \in PumpType
      BY DEF PumpType
    <3>2. pump' = [pump EXCEPT ![p] = [pump[p] EXCEPT !.pc = "exited", !.failed = TRUE]]
      BY <2>3 DEF PumpFails
    <3>3. pump'[p] = [pump[p] EXCEPT !.pc = "exited", !.failed = TRUE]
      BY <3>2
    <3> QED
      BY <3>1, <3>2, <3>3 DEF PumpType
  <2> QED
    BY <1>1, <2>1, <2>2, <2>3
<1>3. op[p].call = (IF pump[p].pc = "pumping" THEN "pump" ELSE "none")
        /\ (op[p].call # "none" => op[p].id = pump[p].id)
        /\ pump[p].id \in Begun
  BY <1>1 DEF DisciplineInv, OpsFollow, PumpFollows, PumpsFit
<1>4. /\ BasicInv' /\ next_id' = next_id /\ Others(p)
      /\ PumpFollows(p)'
  <2>1. CASE PumpRecording(p, pump[p].id) /\ PumpTo(p, "pumping")
    <3>1. Enters(p, "pump", pump[p].id)
      BY <2>1 DEF Enters
    <3>2. /\ BasicInv' /\ Others(p) /\ next_id' = next_id
          /\ op'[p].call = "pump" /\ op'[p].id = pump[p].id
      BY <1>3, <3>1, EntersEffect
    <3>3. pump'[p].pc = "pumping"
      BY <2>1 DEF PumpTo, PumpType
    <3> QED
      BY <1>2, <3>2, <3>3 DEF PumpFollows
  <2>2. CASE PumpStep(p)
    <3>1. Continue(p) /\ pump[p].pc = "pumping"
      BY <2>2 DEF PumpStep, PumpAt
    <3>2. /\ Others(p) /\ next_id' = next_id
          /\ op'[p] # Idle => op'[p].call = op[p].call /\ op'[p].id = op[p].id
      BY <3>1, ContinueEffect
    <3>3. BasicInv'
      BY <3>1, BasicStep
    <3>4. CASE op'[p] # Idle
      <4>1. pump' = pump
        BY <2>2, <3>4 DEF PumpStep
      <4> QED
        BY <1>3, <3>1, <3>2, <3>3, <3>4, <4>1 DEF PumpFollows
    <3>5. CASE op'[p] = Idle
      <4>1. PumpTo(p, "check") \/ PumpFails(p)
        BY <2>2, <3>5 DEF PumpStep
      <4>2. pump'[p].pc \in {"check", "exited"}
        BY <4>1 DEF PumpTo, PumpFails, PumpType
      <4>3. op'[p].call = "none"
        BY <3>5 DEF Idle
      <4> QED
        BY <3>2, <3>3, <4>2, <4>3 DEF PumpFollows
    <3> QED
      BY <3>4, <3>5
  <2>3. CASE /\ UNCHANGED vars /\ pump[p].pc # "pumping"
             /\ (PumpFails(p) \/ \E step \in {"call", "wait", "exited"} : PumpTo(p, step))
    <3>1. BasicInv' /\ UNCHANGED <<next_id, op>>
      BY <2>3, OutsideKeepsBasic DEF vars
    <3>2. pump'[p].pc \in {"call", "wait", "exited"}
      BY <2>3 DEF PumpTo, PumpFails, PumpType
    <3> QED
      BY <1>3, <2>3, <3>1, <3>2 DEF Others, PumpFollows
  <2> QED
    BY <2>1, <2>2, <2>3 DEF Drain, PumpCall, PumpCheck, PumpWait, PumpAt
<1>5. PumpMove(p)
  BY <1>1, <1>2, <1>4 DEF PumpMove
<1> QED
  BY <1>5, PumpMoveKeeps

---------------------------------------------------------------------------
(* All steps.                                                              *)

(* Steps outside the runtime, ...                                          *)
OutsideStep(c) ==
  \/ SlotMove(c) \/ ClaimCapture(c) \/ GivesUp(c) \/ TakeRefused(c) \/ Join(c)
  \/ \E p \in Pumps : Spawns(c, p)
  \/ \E step \in {"join", "cancel_join"} : Takes(c, step)

LEMMA ControlStepIsOutside ==
  ASSUME NEW c \in Commands, Install(c) \/ Uninstall(c) \/ FinishTake(c) \/ CancelTake(c)
  PROVE  OutsideStep(c)
<1>1. CASE Install(c)
  <2>1. UNCHANGED <<vars, slot, tests, caller>> /\ cmd[c].pc = "install"
    BY <1>1 DEF Install, controlFrame, Doing
  <2>2. \/ \E p \in Pumps :
             /\ pump[p] = NoWorker
             /\ pump' = [pump EXCEPT ![p] = [NoWorker EXCEPT !.pc = "call", !.id = cmd[c].id]]
             /\ control' = [start_in_flight |-> FALSE, worker |-> p]
             /\ IF cmd[c].call = "start" THEN Step(c, "occupy") ELSE Done(c)
        \/ /\ control' = [control EXCEPT !.start_in_flight = FALSE]
           /\ Step(c, "abandon")
           /\ UNCHANGED pump
    BY <1>1 DEF Install
  <2> QED
    BY <2>1, <2>2 DEF OutsideStep, Spawns, GivesUp
<1>2. CASE Uninstall(c)
  BY <1>2 DEF Uninstall, OutsideStep, GivesUp, controlFrame, Doing
<1>3. CASE FinishTake(c)
  BY <1>3 DEF FinishTake, OutsideStep, Takes, TakeRefused, controlFrame, Doing
<1>4. CASE CancelTake(c)
  BY <1>4 DEF CancelTake, OutsideStep, Takes, TakeRefused, controlFrame, Doing
<1> QED
  BY <1>1, <1>2, <1>3, <1>4

LEMMA OutsideStepKeeps ==
  ASSUME DisciplineInv, NEW c \in Commands, OutsideStep(c)
  PROVE  DisciplineInv' /\ UNCHANGED vars
<1>1. UNCHANGED vars
  <2>1. SlotMove(c) => UNCHANGED vars
    BY SlotMoveEffect DEF vars, DisciplineInv
  <2>2. ClaimCapture(c) \/ Join(c) => UNCHANGED vars
    BY DEF ClaimCapture, Join, controlFrame
  <2> QED
    BY <2>1, <2>2 DEF OutsideStep, GivesUp, TakeRefused, Spawns, Takes
<1>2. SlotMove(c) => DisciplineInv'
  BY SlotMoveIsPlain, PlainMoveKeeps
<1>3. ASSUME NEW p \in Pumps, Spawns(c, p) PROVE DisciplineInv'
  BY <1>3, SpawnKeeps
<1>4. ASSUME NEW step, Takes(c, step) PROVE DisciplineInv'
  BY <1>4, TakesKeeps
<1> QED
  BY <1>1, <1>2, <1>3, <1>4, ClaimCaptureKeeps, GivesUpKeeps, TakeRefusedKeeps, JoinKeeps
  DEF OutsideStep

(* ... entries into it, ...                                                *)
Refused(c) ==
  /\ UNCHANGED vars /\ serviceUnchanged
  /\ \/ cmd[c].pc = "finalize" /\ Step(c, "leave")
     \/ cmd[c].pc = "transcribe" /\ Step(c, "fail_recognition")

LEMMA EntryIsNamed ==
  ASSUME NEW c \in Commands,
         Finalizes(c) \/ Transcribes(c) \/ FailsRecognition(c) \/ FailsDelivery(c) \/ Cancels(c)
  PROVE  Refused(c) \/ \E step \in DOMAIN EnteredFrom : EntersFor(c, step)
<1> USE DEF Doing, serviceFrame, serviceUnchanged
<1>1. CASE Finalizes(c)
  <2>1. CASE FinalizeRecording(c, cmd[c].id) /\ Step(c, "finalizing")
    <3>1. EntersFor(c, "finalizing")
      BY <1>1, <2>1 DEF Finalizes, EntersFor, EnteredFrom, Enters, CallAt
    <3> QED
      BY <3>1 DEF EnteredFrom
  <2>2. CASE UNCHANGED vars /\ Step(c, "leave")
    BY <1>1, <2>2 DEF Finalizes, Refused
  <2> QED
    BY <1>1, <2>1, <2>2 DEF Finalizes
<1>2. CASE Transcribes(c)
  <2>1. CASE Transcribe(c, cmd[c].id) /\ Step(c, "transcribing")
    <3>1. EntersFor(c, "transcribing")
      BY <1>2, <2>1 DEF Transcribes, EntersFor, EnteredFrom, Enters, CallAt
    <3> QED
      BY <3>1 DEF EnteredFrom
  <2>2. CASE UNCHANGED vars /\ Step(c, "fail_recognition")
    BY <1>2, <2>2 DEF Transcribes, Refused
  <2> QED
    BY <1>2, <2>1, <2>2 DEF Transcribes
<1>3. CASE FailsRecognition(c) \/ FailsDelivery(c)
  <2>1. /\ cmd[c].pc \in {"fail_recognition", "fail_delivery"}
        /\ Step(c, "failing") /\ serviceUnchanged
        /\ \E stage \in CallerStages : Fail(c, cmd[c].id, stage)
    BY <1>3 DEF FailsRecognition, FailsDelivery, CallerStages
  <2>2. EntersFor(c, "failing")
    BY <2>1 DEF EntersFor, EnteredFrom, Enters, CallAt
  <2> QED
    BY <2>2 DEF EnteredFrom
<1>4. CASE Cancels(c)
  <2>1. CASE cmd[c].pc = "abandon"
    <3>1. EntersFor(c, "abandoning")
      BY <1>4, <2>1 DEF Cancels, EntersFor, EnteredFrom, Enters, CallAt
    <3> QED
      BY <3>1 DEF EnteredFrom
  <2>2. CASE cmd[c].pc # "abandon"
    <3>1. EntersFor(c, "cancelling")
      BY <1>4, <2>2 DEF Cancels, EntersFor, EnteredFrom, Enters, CallAt
    <3> QED
      BY <3>1 DEF EnteredFrom
  <2> QED
    BY <2>1, <2>2
<1> QED
  BY <1>1, <1>2, <1>3, <1>4

(* ... and single calls that it answers at once.                           *)
LEMMA RefusedKeeps ==
  ASSUME DisciplineInv, NEW c \in Commands, Refused(c)
  PROVE  DisciplineInv'
<1>1. BasicInv' /\ UNCHANGED <<next_id, op>>
  BY OutsideKeepsBasic DEF Refused, DisciplineInv, vars
<1>2. Answered(c)
  BY <1>1 DEF Refused, Answered
<1> QED
  BY <1>2, AnsweredKeeps

LEMMA DeliverKeeps ==
  ASSUME DisciplineInv, NEW c \in Commands, Deliver(c)
  PROVE  DisciplineInv' /\ (UNCHANGED vars \/ InsertionDelivered(c, cmd[c].id))
<1>1. /\ cmd[c].pc = "deliver" /\ Step(c, "reset") /\ serviceUnchanged
      /\ UNCHANGED vars \/ InsertionDelivered(c, cmd[c].id)
  BY DEF Deliver, Doing, serviceFrame, serviceUnchanged
<1>2. cmd[c].id \in Begun /\ c \in Threads
  BY <1>1, CallersHaveSession, ThreadsApart
<1>3. BasicInv' /\ UNCHANGED <<next_id, op>>
  <2>1. CASE UNCHANGED vars
    BY <2>1, OutsideKeepsBasic DEF DisciplineInv, vars
  <2>2. CASE InsertionDelivered(c, cmd[c].id)
    <3>1. Call(c)
      BY <1>2, <2>2 DEF Call
    <3>2. BasicInv'
      BY <1>2, <3>1, BasicStep DEF DisciplineInv
    <3> QED
      BY <2>2, <3>2 DEF InsertionDelivered, Submit
  <2> QED
    BY <1>1, <2>1, <2>2
<1>4. Answered(c)
  BY <1>1, <1>3 DEF Answered
<1> QED
  BY <1>1, <1>4, AnsweredKeeps

(* All that a command does.                                                *)
LEMMA ServeIsNamed ==
  ASSUME NEW c \in Commands, Serve(c)
  PROVE  \/ OutsideStep(c) \/ Refused(c) \/ Begins(c) \/ Deliver(c) \/ RuntimeStep(c)
         \/ \E step \in DOMAIN EnteredFrom : EntersFor(c, step)
<1>1. ClaimStart(c) \/ Load(c) \/ Occupy(c) \/ ClaimFinish(c) \/ AwaitInsertion(c)
        \/ BeginInsertion(c) \/ InsertText(c) \/ EnsureInserting(c) \/ ClaimCancel(c) \/ Reset(c)
        \/ ClaimCapture(c) \/ Join(c)
      => OutsideStep(c)
  BY DEF OutsideStep, SlotMove
<1> QED
  BY <1>1, ControlStepIsOutside, EntryIsNamed DEF Serve

(* Every step of the services keeps the discipline.                        *)
LEMMA DesktopStepKeeps ==
  ASSUME DisciplineInv, DesktopNext
  PROVE  DisciplineInv'
<1>1. ASSUME NEW c \in Commands, Serve(c) PROVE DisciplineInv'
  BY <1>1, ServeIsNamed, OutsideStepKeeps, RefusedKeeps, BeginsKeeps, DeliverKeeps,
     RuntimeStepKeeps, EntersKeeps
<1> QED
  BY <1>1, AcceptKeeps, DrainKeeps DEF DesktopNext

LEMMA DesktopInitIsDisciplined == DesktopInit => DisciplineInv
<1> SUFFICES ASSUME DesktopInit PROVE DisciplineInv
  OBVIOUS
<1>1. BasicInv
  BY InitHasBasicInv DEF DesktopInit
<1>2. /\ control = [start_in_flight |-> FALSE, worker |-> NoPump]
      /\ pump = [p \in Pumps |-> NoWorker] /\ slot = SlotIdle
      /\ cmd = [c \in Commands |-> NoCall] /\ tests = {} /\ caller \in Callers
      /\ op = [t \in Threads |-> Idle]
  BY DEF DesktopInit, Init
<1>3. ServiceTypes
  <2>1. NoCall \in CmdType /\ NoWorker \in PumpType
    BY MaxSessionAssumption, NoCallHasType DEF NoWorker, PumpType
  <2> QED
    BY <1>2, <2>1 DEF ServiceTypes, ControlType, SlotType, SlotIdle, In
<1>4. CommandsFit
  BY <1>2 DEF CommandsFit, CommandFits, NoCall, CallSteps, StartCalls, Joined
<1>5. PumpsFit
  BY <1>2 DEF PumpsFit, NoWorker
<1>6. OpsFollow
  BY <1>2, ThreadsApart
  DEF OpsFollow, CommandFollows, PumpFollows, NoCall, NoWorker, Idle, CallAt
<1>7. WorkersClaimed
  BY <1>2 DEF WorkersClaimed, NoCall
<1>8. OneStart /\ StartedOnce /\ StartedFirst /\ FinishedOnce
  BY <1>2
  DEF OneStart, StartedOnce, StartedFirst, FinishedOnce, NoCall, InFlightSteps, StartCalls,
      FinishCalls, Pending, Finishing
<1> QED
  BY <1>1, <1>3, <1>4, <1>5, <1>6, <1>7, <1>8 DEF DisciplineInv

LEMMA StutterKeeps ==
  ASSUME DisciplineInv, UNCHANGED <<vars, control, pump, slot, cmd, tests, caller>>
  PROVE  DisciplineInv'
<1>1. BasicInv' /\ Begun' = Begun /\ UNCHANGED op
  BY OutsideKeepsBasic DEF DisciplineInv, vars
<1>2. ServiceTypes' /\ CommandsFit' /\ PumpsFit' /\ OpsFollow'
  BY <1>1
  DEF DisciplineInv, ServiceTypes, CommandsFit, CommandFits, PumpsFit, OpsFollow,
      CommandFollows, PumpFollows
<1>3. WorkersClaimed' /\ OneStart' /\ StartedOnce' /\ StartedFirst' /\ FinishedOnce'
  BY DEF DisciplineInv, WorkersClaimed, OneStart, StartedOnce, StartedFirst, FinishedOnce,
         Pending, Finishing, HasWorker
<1> QED
  BY <1>1, <1>2, <1>3 DEF DisciplineInv

(* The services keep, in every interleaving and whoever calls them, what   *)
(* binds workers, starts and finishes to their sessions (capture.rs).      *)
THEOREM ServicesDisciplined == DesktopSpec => []DisciplineInv
<1>1. DisciplineInv /\ [DesktopNext]_desktopVars => DisciplineInv'
  <2>1. ASSUME DisciplineInv, UNCHANGED desktopVars PROVE DisciplineInv'
    BY <2>1, StutterKeeps DEF desktopVars
  <2> QED
    BY <2>1, DesktopStepKeeps
<1> QED
  BY <1>1, DesktopInitIsDisciplined, PTL DEF DesktopSpec

---------------------------------------------------------------------------
(* The refinement: every step of the services is one of the runtime whose  *)
(* callers are disciplined, or leaves the runtime alone.                   *)

(* Within an operation the discipline plays no part.                       *)
LEMMA ContinuesAlike ==
  ASSUME NEW t, Continue(t)
  PROVE  Runtime!Continue(t)
BY DEF Continue, ReserveArming, StartCapture, RecordingStarted, StoreRecording, Pump,
       TakeRecording, FinalizeAudio, AudioFinalized, StoreFinalized, TakeFinalized,
       Recognize, RestoreFinalized, ReleaseSilence, CancelSilence, TranscriptReady,
       ClearReservation, FailSession, CancelSession, DiscardAndFail, Discard,
       ReadForFailure, BestEffortFail, At, Holds, Slot, EmptySlot, Goto, FailAt, Return,
       Idle, Cleared, SubmitIfAccepted, Submittable, Submit, Accepts, Source, Target,
       Live, Terminal, lifecycleVars,
       Runtime!Continue, Runtime!ReserveArming, Runtime!StartCapture,
       Runtime!RecordingStarted, Runtime!StoreRecording, Runtime!Pump,
       Runtime!TakeRecording, Runtime!FinalizeAudio, Runtime!AudioFinalized,
       Runtime!StoreFinalized, Runtime!TakeFinalized, Runtime!Recognize,
       Runtime!RestoreFinalized, Runtime!ReleaseSilence, Runtime!CancelSilence,
       Runtime!TranscriptReady, Runtime!ClearReservation, Runtime!FailSession,
       Runtime!CancelSession, Runtime!DiscardAndFail, Runtime!Discard,
       Runtime!ReadForFailure, Runtime!BestEffortFail, Runtime!At, Runtime!Holds,
       Runtime!Slot, Runtime!EmptySlot, Runtime!Goto, Runtime!FailAt, Runtime!Return,
       Runtime!Idle, Runtime!Cleared, Runtime!SubmitIfAccepted, Runtime!Submittable,
       Runtime!Submit, Runtime!Accepts, Runtime!Source, Runtime!Target, Runtime!Live,
       Runtime!Terminal, Runtime!lifecycleVars

(* What the discipline asks of a call for session s.                       *)
NobodyStarts(s) == \A t \in Threads : op[t].call = "start" => op[t].id # s

NobodyAdvances(s) == \A t \in Threads : op[t].call \in Pipeline => op[t].id # s

LEMMA MayCallAsDisciplined ==
  ASSUME NEW s
  PROVE  /\ NobodyStarts(s) => Runtime!MayCall(s)
         /\ NobodyAdvances(s) => Runtime!MayAdvance(s)
BY DEF NobodyStarts, NobodyAdvances, Runtime!MayCall, Runtime!MayAdvance, Runtime!InFlight,
       Pipeline, Runtime!Pipeline

LEMMA CallsAlike ==
  ASSUME NEW t, NEW s
  PROVE  /\ BeginRecording(t) => Runtime!BeginRecording(t)
         /\ PumpRecording(t, s) /\ NobodyStarts(s) => Runtime!PumpRecording(t, s)
         /\ Cancel(t, s) /\ NobodyStarts(s) => Runtime!Cancel(t, s)
         /\ FinalizeRecording(t, s) /\ NobodyAdvances(s) => Runtime!FinalizeRecording(t, s)
         /\ Transcribe(t, s) /\ NobodyAdvances(s) => Runtime!Transcribe(t, s)
         /\ InsertionDelivered(t, s) /\ NobodyAdvances(s) => Runtime!InsertionDelivered(t, s)
         /\ \A stage : Fail(t, s, stage) /\ NobodyStarts(s) => Runtime!Fail(t, s, stage)
<1> USE DEF Free, Enter, lifecycleVars, Submit, Submittable, Accepts, Source, Target, Terminal,
            Runtime!Free, Runtime!Enter, Runtime!lifecycleVars, Runtime!Submit,
            Runtime!Submittable, Runtime!Accepts, Runtime!Source, Runtime!Target, Runtime!Terminal
<1>1. BeginRecording(t) => Runtime!BeginRecording(t)
  BY DEF BeginRecording, Begin, CanBegin, Live, Runtime!BeginRecording, Runtime!Begin,
         Runtime!CanBegin, Runtime!Live
<1>2. PumpRecording(t, s) /\ NobodyStarts(s) => Runtime!PumpRecording(t, s)
  BY MayCallAsDisciplined DEF PumpRecording, Runtime!PumpRecording
<1>3. Cancel(t, s) /\ NobodyStarts(s) => Runtime!Cancel(t, s)
  BY MayCallAsDisciplined
  DEF Cancel, Cleared, EmptySlot, Runtime!Cancel, Runtime!Cleared, Runtime!EmptySlot
<1>4. FinalizeRecording(t, s) /\ NobodyAdvances(s) => Runtime!FinalizeRecording(t, s)
  BY MayCallAsDisciplined DEF FinalizeRecording, Runtime!FinalizeRecording
<1>5. Transcribe(t, s) /\ NobodyAdvances(s) => Runtime!Transcribe(t, s)
  BY MayCallAsDisciplined DEF Transcribe, Runtime!Transcribe
<1>6. InsertionDelivered(t, s) /\ NobodyAdvances(s) => Runtime!InsertionDelivered(t, s)
  BY MayCallAsDisciplined DEF InsertionDelivered, Runtime!InsertionDelivered
<1>7. \A stage : Fail(t, s, stage) /\ NobodyStarts(s) => Runtime!Fail(t, s, stage)
  BY MayCallAsDisciplined
  DEF Fail, Cleared, EmptySlot, Runtime!Fail, Runtime!Cleared, Runtime!EmptySlot
<1> QED
  BY <1>1, <1>2, <1>3, <1>4, <1>5, <1>6, <1>7

(* Who is inside the runtime, seen from the services.                      *)
LEMMA InsideRuntime ==
  ASSUME DisciplineInv, NEW t \in Threads, op[t].call # "none"
  PROVE  /\ t \in Commands => /\ op[t].id = cmd[t].id
                              /\ op[t].call = "start" => Pending(t)
                              /\ op[t].call \in {"finalize", "transcribe"} => Finishing(t)
         /\ t \in Pumps => op[t].call = "pump"
<1>1. CASE t \in Commands
  <2>1. /\ op[t].id = cmd[t].id
        /\ cmd[t].pc \in DOMAIN CallAt /\ op[t].call = CallAt[cmd[t].pc]
    BY <1>1 DEF DisciplineInv, OpsFollow, CommandFollows
  <2>2. /\ op[t].call = "start" => cmd[t].pc = "starting"
        /\ op[t].call \in {"finalize", "transcribe"} =>
             cmd[t].pc \in {"finalizing", "transcribing"}
    BY <2>1 DEF CallAt
  <2>3. cmd[t].pc = "starting" => cmd[t].call \in StartCalls
    BY <1>1, CallsOfSteps DEF DisciplineInv, StartSteps
  <2>4. cmd[t].pc \in {"finalizing", "transcribing"} => cmd[t].call \in FinishCalls
    BY <1>1, CallsOfSteps DEF DisciplineInv, FinishCalls
  <2> QED
    BY <1>1, <2>1, <2>2, <2>3, <2>4, ThreadsApart DEF Pending, Finishing
<1>2. CASE t \in Pumps
  BY <1>2, ThreadsApart DEF DisciplineInv, OpsFollow, PumpFollows
<1> QED
  BY <1>1, <1>2, DesktopAssumptions

(* A command that calls for a session does so once nobody starts it.       *)
LEMMA CallersWait ==
  ASSUME DisciplineInv, NEW c \in Commands, op[c].call = "none",
         ~(cmd[c].call \in TestCalls /\ cmd[c].pc \in {"take", "cancel_capture"})
  PROVE  NobodyStarts(cmd[c].id)
<1> SUFFICES ASSUME NEW t \in Threads, op[t].call = "start", op[t].id = cmd[c].id
             PROVE  FALSE
  BY DEF NobodyStarts
<1>1. t \in Commands /\ Pending(t) /\ cmd[t].id = cmd[c].id
  BY InsideRuntime, DesktopAssumptions
<1>2. t # c
  OBVIOUS
<1> QED
  BY <1>1, <1>2, PendingUnnamed

(* ... and the finish of a session takes its steps alone.                  *)
LEMMA FinishesAlone ==
  ASSUME DisciplineInv, NEW c \in Commands, op[c].call = "none", Finishing(c)
  PROVE  NobodyAdvances(cmd[c].id)
<1> SUFFICES ASSUME NEW t \in Threads, op[t].call \in Pipeline, op[t].id = cmd[c].id
             PROVE  FALSE
  BY DEF NobodyAdvances
<1>1. NobodyStarts(cmd[c].id)
  <2>1. ~(cmd[c].pc \in {"take", "cancel_capture"})
    <3>1. cmd[c].pc = "cancel_capture" => cmd[c].call \in {"start", "cancel", "test_cancel"}
      BY CallsOfSteps DEF DisciplineInv
    <3> QED
      BY <3>1 DEF Finishing, FinishCalls
  <2> QED
    BY <2>1, CallersWait
<1>2. op[t].call \in {"finalize", "transcribe"}
  BY <1>1 DEF NobodyStarts, Pipeline
<1>3. t \in Commands /\ Finishing(t) /\ cmd[t].id = cmd[c].id
  BY <1>2, InsideRuntime, DesktopAssumptions
<1>4. t # c
  BY <1>2
<1> QED
  BY <1>3, <1>4 DEF DisciplineInv, FinishedOnce

(* A worker pumps once nobody starts its session.                          *)
LEMMA PumpsWait ==
  ASSUME DisciplineInv, NEW p \in Pumps
  PROVE  NobodyStarts(pump[p].id)
<1> SUFFICES ASSUME NEW t \in Threads, op[t].call = "start", op[t].id = pump[p].id
             PROVE  FALSE
  BY DEF NobodyStarts
<1>1. t \in Commands /\ Pending(t) /\ cmd[t].id = pump[p].id
  BY InsideRuntime, DesktopAssumptions
<1> QED
  BY <1>1, PendingInFlight

(* Every step of the services is one of the disciplined runtime or leaves  *)
(* it alone.                                                               *)
RuntimeMoves == Runtime!Next \/ UNCHANGED vars

LEMMA RuntimeMoved ==
  ASSUME NEW t \in Threads, Runtime!Continue(t) \/ Runtime!Call(t)
  PROVE  RuntimeMoves
BY DEF RuntimeMoves, Runtime!Next

LEMMA RuntimeCalled ==
  ASSUME NEW t, NEW s \in Begun,
         \/ Runtime!PumpRecording(t, s) \/ Runtime!Cancel(t, s)
         \/ Runtime!FinalizeRecording(t, s) \/ Runtime!Transcribe(t, s)
         \/ Runtime!InsertionDelivered(t, s)
         \/ \E stage \in CallerStages : Runtime!Fail(t, s, stage)
  PROVE  Runtime!Call(t)
<1>1. s \in Runtime!Begun
  BY DEF Begun, Runtime!Begun
<1>2. Runtime!CallerStages = CallerStages
  BY DEF CallerStages, Runtime!CallerStages
<1> QED
  BY <1>1, <1>2 DEF Runtime!Call

LEMMA EntriesDisciplined ==
  ASSUME DisciplineInv, NEW c \in Commands, NEW step \in DOMAIN EnteredFrom, EntersFor(c, step)
  PROVE  RuntimeMoves
<1>1. c \in Threads
  BY ThreadsApart
<1>2. cmd[c].pc \in {"finalize", "transcribe", "fail_recognition", "fail_delivery",
                     "cancel_session", "abandon"}
  BY DEF EntersFor, EnteredFrom
<1>3. /\ cmd[c].pc = "finalize" <=> step = "finalizing"
      /\ cmd[c].pc = "transcribe" <=> step = "transcribing"
  BY DEF EntersFor, EnteredFrom
<1>4. cmd[c].id \in Begun /\ cmd[c].call # "none"
  BY <1>2, CallersHaveSession
<1>5. op[c].call = "none"
  BY <1>1, <1>4, EntersEffect DEF EntersFor, DisciplineInv
<1>6. NobodyStarts(cmd[c].id)
  BY <1>2, <1>5, CallersWait
<1>7. step \in {"finalizing", "transcribing"} => NobodyAdvances(cmd[c].id)
  <2>1. cmd[c].pc \in {"finalize", "transcribe"} => cmd[c].call \in FinishCalls
    BY CallsOfSteps DEF DisciplineInv, FinishCalls
  <2> QED
    BY <1>3, <1>5, <2>1, FinishesAlone DEF Finishing
<1>8. Enters(c, CallAt[step], cmd[c].id)
  BY DEF EntersFor
<1>9. CallAt[step] \in {"finalize", "transcribe"} => step \in {"finalizing", "transcribing"}
  BY DEF CallAt, EnteredFrom
<1>10. \/ Runtime!PumpRecording(c, cmd[c].id) \/ Runtime!Cancel(c, cmd[c].id)
       \/ Runtime!FinalizeRecording(c, cmd[c].id) \/ Runtime!Transcribe(c, cmd[c].id)
       \/ \E stage \in CallerStages : Runtime!Fail(c, cmd[c].id, stage)
  BY <1>6, <1>7, <1>8, <1>9, CallsAlike DEF Enters
<1> QED
  BY <1>1, <1>4, <1>10, RuntimeCalled, RuntimeMoved

LEMMA ServesDisciplined ==
  ASSUME DisciplineInv, NEW c \in Commands, Serve(c)
  PROVE  RuntimeMoves
<1>1. c \in Threads
  BY ThreadsApart
<1>2. CASE OutsideStep(c) \/ Refused(c)
  BY <1>2, OutsideStepKeeps DEF Refused, RuntimeMoves
<1>3. CASE Begins(c)
  <2>1. BeginRecording(c) \/ UNCHANGED vars
    BY <1>3 DEF Begins
  <2>2. BeginRecording(c) => Runtime!Call(c)
    BY CallsAlike DEF Runtime!Call
  <2> QED
    BY <1>1, <2>1, <2>2, RuntimeMoved DEF RuntimeMoves
<1>4. CASE Deliver(c)
  <2>1. UNCHANGED vars \/ InsertionDelivered(c, cmd[c].id)
    BY <1>4 DEF Deliver
  <2>2. cmd[c].pc = "deliver"
    BY <1>4 DEF Deliver, Doing
  <2>3. ASSUME InsertionDelivered(c, cmd[c].id) PROVE RuntimeMoves
    <3>1. op[c].call = "none"
      BY <2>3 DEF InsertionDelivered, Free
    <3>2. Finishing(c)
      BY <2>2, CallsOfSteps DEF DisciplineInv, Finishing, FinishCalls
    <3>3. Runtime!InsertionDelivered(c, cmd[c].id)
      BY <2>3, <3>1, <3>2, FinishesAlone, CallsAlike
    <3>4. cmd[c].id \in Begun
      BY <2>2, CallersHaveSession
    <3> QED
      BY <1>1, <3>3, <3>4, RuntimeCalled, RuntimeMoved
  <2> QED
    BY <2>1, <2>3 DEF RuntimeMoves
<1>5. CASE RuntimeStep(c)
  BY <1>1, <1>5, ContinuesAlike, RuntimeMoved DEF RuntimeStep
<1> QED
  BY <1>2, <1>3, <1>4, <1>5, ServeIsNamed, EntriesDisciplined

LEMMA DrainsDisciplined ==
  ASSUME DisciplineInv, NEW p \in Pumps, Drain(p)
  PROVE  RuntimeMoves
<1>1. p \in Threads
  BY ThreadsApart
<1>2. ASSUME PumpRecording(p, pump[p].id), pump[p].pc = "call" PROVE RuntimeMoves
  <2>1. Runtime!PumpRecording(p, pump[p].id)
    BY <1>2, PumpsWait, CallsAlike
  <2>2. pump[p].id \in Begun
    BY <1>2 DEF DisciplineInv, PumpsFit
  <2> QED
    BY <1>1, <2>1, <2>2, RuntimeCalled, RuntimeMoved
<1>3. ASSUME Continue(p) PROVE RuntimeMoves
  BY <1>1, <1>3, ContinuesAlike, RuntimeMoved
<1>4. PumpCheck(p) \/ PumpWait(p) => UNCHANGED vars
  BY DEF PumpCheck, PumpWait
<1> QED
  BY <1>2, <1>3, <1>4 DEF Drain, PumpCall, PumpStep, PumpAt, RuntimeMoves

(* The services call the runtime with the discipline that its invariants   *)
(* need, in every interleaving: the worker is bound to its session, nobody *)
(* ends a capture while it starts, and one finish takes a session on, even *)
(* when microphone test calls name the sessions of dictations.             *)
THEOREM RuntimeImplemented == DesktopSpec => ImplementsRuntime
<1>1. DesktopInit => Runtime!Init
  BY DEF DesktopInit, Init, LifecycleInit, NoSession, EmptySlot, Idle, Runtime!Init,
         Runtime!LifecycleInit, Runtime!NoSession, Runtime!EmptySlot, Runtime!Idle
<1>2. DisciplineInv /\ [DesktopNext]_desktopVars => [Runtime!Next]_(Runtime!vars)
  <2>1. Runtime!vars = vars
    BY DEF vars, Runtime!vars
  <2>2. ASSUME DisciplineInv, DesktopNext PROVE RuntimeMoves
    <3>1. ASSUME NEW c \in Commands, Command(c) PROVE UNCHANGED vars
      BY <3>1 DEF Command, Accept
    <3> QED
      BY <2>2, <3>1, ServesDisciplined, DrainsDisciplined DEF DesktopNext, RuntimeMoves
  <2>3. ASSUME UNCHANGED desktopVars PROVE UNCHANGED vars
    BY <2>3 DEF desktopVars
  <2> QED
    BY <2>1, <2>2, <2>3 DEF RuntimeMoves, vars, Runtime!vars
<1> QED
  BY <1>1, <1>2, ServicesDisciplined, PTL DEF DesktopSpec, ImplementsRuntime, Runtime!Spec

---------------------------------------------------------------------------
(* What follows for the program: the theorems about the runtime hold of    *)
(* it as the services use it.                                              *)

(* R is the same runtime.                                                  *)
LEMMA SameContinue == ASSUME NEW t, Runtime!Continue(t) PROVE R!Continue(t)
BY
DEF Runtime!Continue, Runtime!ReserveArming, Runtime!StartCapture,
    Runtime!RecordingStarted, Runtime!StoreRecording, Runtime!Pump,
    Runtime!TakeRecording, Runtime!FinalizeAudio, Runtime!AudioFinalized,
    Runtime!StoreFinalized, Runtime!TakeFinalized, Runtime!Recognize,
    Runtime!RestoreFinalized, Runtime!ReleaseSilence, Runtime!CancelSilence,
    Runtime!TranscriptReady, Runtime!ClearReservation, Runtime!FailSession,
    Runtime!CancelSession, Runtime!DiscardAndFail, Runtime!Discard,
    Runtime!ReadForFailure, Runtime!BestEffortFail, Runtime!At, Runtime!Holds,
    Runtime!Slot, Runtime!EmptySlot, Runtime!Goto, Runtime!FailAt, Runtime!Return,
    Runtime!Idle, Runtime!Cleared, Runtime!SubmitIfAccepted, Runtime!Submittable,
    Runtime!Submit, Runtime!Accepts, Runtime!Source, Runtime!Target, Runtime!Live,
    Runtime!Terminal, Runtime!lifecycleVars, R!Continue, R!ReserveArming,
    R!StartCapture, R!RecordingStarted, R!StoreRecording, R!Pump, R!TakeRecording,
    R!FinalizeAudio, R!AudioFinalized, R!StoreFinalized, R!TakeFinalized, R!Recognize,
    R!RestoreFinalized, R!ReleaseSilence, R!CancelSilence, R!TranscriptReady,
    R!ClearReservation, R!FailSession, R!CancelSession, R!DiscardAndFail, R!Discard,
    R!ReadForFailure, R!BestEffortFail, R!At, R!Holds, R!Slot, R!EmptySlot, R!Goto,
    R!FailAt, R!Return, R!Idle, R!Cleared, R!SubmitIfAccepted, R!Submittable, R!Submit,
    R!Accepts, R!Source, R!Target, R!Live, R!Terminal, R!lifecycleVars

LEMMA SameCall == ASSUME NEW t, Runtime!Call(t) PROVE R!Call(t)
BY
DEF Runtime!Call, Runtime!BeginRecording, Runtime!PumpRecording,
    Runtime!FinalizeRecording, Runtime!Transcribe, Runtime!FinishTransform,
    Runtime!InsertionDelivered, Runtime!Cancel, Runtime!Fail, Runtime!CallerStages,
    Runtime!MayCall, Runtime!MayAdvance, Runtime!InFlight, Runtime!Pipeline,
    Runtime!Free, Runtime!Enter, Runtime!Begun, Runtime!Begin, Runtime!CanBegin,
    Runtime!EmptySlot, Runtime!Cleared, Runtime!Submittable, Runtime!Submit,
    Runtime!Accepts, Runtime!Source, Runtime!Target, Runtime!Live, Runtime!Terminal,
    Runtime!lifecycleVars, R!Call, R!BeginRecording, R!PumpRecording,
    R!FinalizeRecording, R!Transcribe, R!FinishTransform, R!InsertionDelivered,
    R!Cancel, R!Fail, R!CallerStages, R!MayCall, R!MayAdvance, R!InFlight, R!Pipeline,
    R!Free, R!Enter, R!Begun, R!Begin, R!CanBegin, R!EmptySlot, R!Cleared,
    R!Submittable, R!Submit, R!Accepts, R!Source, R!Target, R!Live, R!Terminal,
    R!lifecycleVars

LEMMA SameRuntime == ImplementsRuntime => R!Spec
<1>1. Runtime!Init => R!Init
  BY
  DEF Runtime!Init, Runtime!LifecycleInit, Runtime!NoSession, Runtime!EmptySlot,
      Runtime!Idle, R!Init, R!LifecycleInit, R!NoSession, R!EmptySlot, R!Idle
<1>2. [Runtime!Next]_(Runtime!vars) => [R!Next]_(R!vars)
  <2>1. Runtime!Next => R!Next
    BY SameContinue, SameCall DEF Runtime!Next, R!Next
  <2> QED
    BY <2>1 DEF Runtime!vars, R!vars
<1> QED
  BY <1>1, <1>2, PTL DEF ImplementsRuntime, Runtime!Spec, R!Spec

(* The runtime's assumptions hold.                                         *)
LEMMA RuntimeAssumed == R!DisciplinedAssumption /\ R!MaxSessionAssumption
BY MaxSessionAssumption DEF R!DisciplinedAssumption, R!MaxSessionAssumption

(* With the commands, the workers and the runtime together, the slot holds *)
(* work only for the current session in a state that can use it: whatever  *)
(* is called, no ended dictation keeps the microphone's collector.         *)
THEOREM ServicesKeepWork == DesktopSpec => []WorkMatchesSession
<1>1. TRUE
  OBVIOUS
<1>2. R!Spec => []R!WorkMatchesSession
  BY RuntimeAssumed, <1>1, R!WorkFollowsSession
<1>3. R!WorkMatchesSession => WorkMatchesSession
  BY DEF WorkMatchesSession, OwnerStates, R!WorkMatchesSession, R!OwnerStates
<1> QED
  BY <1>2, <1>3, RuntimeImplemented, SameRuntime, PTL

(* A start that the services let through finds the runtime's slot free.    *)
THEOREM ServicesStartFreely == DesktopSpec => []NewSessionUnblocked
<1>1. TRUE
  OBVIOUS
<1>2. R!Spec => []R!NewSessionUnblocked
  BY RuntimeAssumed, <1>1, R!StartNeverBlocked
<1>3. R!NewSessionUnblocked => NewSessionUnblocked
  BY DEF NewSessionUnblocked, At, R!NewSessionUnblocked, R!At
<1> QED
  BY <1>2, <1>3, RuntimeImplemented, SameRuntime, PTL

(* Whatever the commands and the workers have done, a session on which no  *)
(* operation is in flight can be taken further or ended.                   *)
THEOREM ServicesAbandonNone == DesktopSpec => []NoAbandonedSession
<1>1. TRUE
  OBVIOUS
<1>2. R!Spec => []R!NoAbandonedSession
  BY RuntimeAssumed, <1>1, R!NoneAbandoned
<1>3. R!NoAbandonedSession => NoAbandonedSession
  BY DEF NoAbandonedSession, InFlight, AtRest, Terminal, Holds, Slot, R!NoAbandonedSession,
         R!InFlight, R!AtRest, R!Terminal, R!Holds, R!Slot
<1> QED
  BY <1>2, <1>3, RuntimeImplemented, SameRuntime, PTL

---------------------------------------------------------------------------
(* Text for the current session only: who holds which session.             *)

(* A call goes on for its session, or returns, but neither claims the slot *)
(* nor begins to insert.                                                   *)
SteadyCall(d) ==
  \/ cmd'[d] = cmd[d]
  \/ cmd'[d] = NoCall
  \/ /\ cmd'[d].call = cmd[d].call /\ cmd'[d].id = cmd[d].id
     /\ cmd[d].pc \notin {"claim", "begin_insertion"}

Steady ==
  /\ UNCHANGED <<slot, tests, caller>>
  /\ Begun \subseteq Begun'
  /\ \A d \in Commands : SteadyCall(d)

LEMMA SteadyKeepsNames ==
  ASSUME NamesInv, Steady
  PROVE  NamesInv'
<1>1. UNCHANGED <<slot, tests>> /\ Begun \subseteq Begun'
  BY DEF Steady
<1>2. ASSUME NEW d \in Commands, cmd'[d].call # "none"
      PROVE  /\ cmd'[d].call = cmd[d].call /\ cmd'[d].id = cmd[d].id
             /\ cmd'[d].pc # "claim" => cmd[d].pc # "claim"
             /\ cmd[d].pc \in {"claim", "begin_insertion"} => cmd'[d] = cmd[d]
  BY <1>2 DEF Steady, SteadyCall, NoCall
<1>3. \A d \in Commands : cmd'[d].id \in {0, cmd[d].id}
  BY DEF Steady, SteadyCall, NoCall
<1>4. TestsApart'
  BY <1>1, <1>2 DEF NamesInv, TestsApart, TestCalls
<1>5. StartUnnamed'
  BY <1>2, <1>3 DEF NamesInv, StartUnnamed, StartCalls
<1>6. SlotStarted'
  BY <1>1, <1>2 DEF NamesInv, SlotStarted, StartCalls
<1>7. SlotUnclaimed'
  BY <1>1, <1>2 DEF NamesInv, SlotUnclaimed, Claimed
<1>8. ClaimsApart'
  BY <1>1, <1>2 DEF NamesInv, ClaimsApart, Claimed
<1>9. AwaitedByFinish'
  BY <1>1, <1>2 DEF NamesInv, AwaitedByFinish, Claimed
<1> QED
  BY <1>4, <1>5, <1>6, <1>7, <1>8, <1>9 DEF NamesInv

(* A call is accepted for a session whose start has returned, and for one  *)
(* of its own kind.                                                        *)
LEMMA AcceptKeepsNames ==
  ASSUME NamesInv, DisciplineInv, caller # "anyone", NEW c \in Commands, Command(c)
  PROVE  NamesInv'
<1>1. PICK call \in Offered, s \in Begun \cup {0} :
        /\ Accept(c, call, s)
        /\ call \in StartCalls <=> s = 0
        /\ call \notin StartCalls => MayName(call, s)
  <2>1. 0 \notin Begun
    BY DEF Begun
  <2> QED
    BY <2>1 DEF Command, StartCalls
<1>2. UNCHANGED <<next_id, slot, tests>>
  BY <1>1 DEF Accept, vars
<1>3. /\ OthersWait(c)
      /\ cmd'[c].call = call /\ cmd'[c].pc = FirstStep[call] /\ cmd'[c].id = s
  BY <1>1 DEF Accept, OthersWait, NoCall, DisciplineInv, ServiceTypes
<1>4. call \in {"start", "finish", "cancel", "test", "test_finish", "test_cancel"}
  BY DesktopAssumptions DEF DictationCalls
<1>5. /\ call \notin StartCalls => Returned(s) /\ (s \in tests <=> call \in TestCalls)
      /\ call \in {"finish", "cancel"} => cmd'[c].pc = "claim"
  BY <1>1, <1>3, <1>4 DEF MayName, TestCalls, FirstStep
<1>6. 0 \notin tests
  BY DEF DisciplineInv, ServiceTypes, Begun
<1>7. \A d \in Commands \ {c} : cmd'[d] = cmd[d]
  BY <1>3 DEF OthersWait
<1>8. Begun' = Begun
  BY <1>2 DEF Begun
<1>9. TestsApart'
  BY <1>1, <1>2, <1>3, <1>4, <1>5, <1>6, <1>7 DEF NamesInv, TestsApart, TestCalls, StartCalls
<1>10. StartUnnamed'
  <2>1. \A d \in Commands : cmd[d].call \in StartCalls /\ cmd[d].id # 0 => cmd[d].id # s
    BY <1>1, <1>5 DEF Returned, StartCalls
  <2> QED
    BY <1>1, <1>3, <1>7, <2>1 DEF NamesInv, StartUnnamed
<1>11. SlotStarted'
  BY <1>1, <1>2, <1>3, <1>7, <1>8 DEF NamesInv, SlotStarted
<1>12. \A d \in Commands, k \in {"finish", "cancel"} :
         Claimed(d, k)' => Claimed(d, k) /\ cmd'[d] = cmd[d]
  BY <1>3, <1>5, <1>7 DEF Claimed
<1>13. SlotUnclaimed'
  BY <1>2, <1>12 DEF NamesInv, SlotUnclaimed
<1>14. ClaimsApart'
  BY <1>2, <1>12 DEF NamesInv, ClaimsApart
<1>15. AwaitedByFinish'
  BY <1>2, <1>12 DEF NamesInv, AwaitedByFinish
<1> QED
  BY <1>9, <1>10, <1>11, <1>13, <1>14, <1>15 DEF NamesInv

(* A session that begins is named by nobody else.                          *)
LEMMA BeginsKeepsNames ==
  ASSUME NamesInv, DisciplineInv, NEW c \in Commands, Begins(c)
  PROVE  NamesInv'
<1> cmd \in [Commands -> CmdType] /\ ServiceTypes /\ CommandsFit
  BY DEF DisciplineInv, ServiceTypes
<1>1. UNCHANGED <<slot, caller>> /\ cmd[c].pc = "begin" /\ cmd[c].call \in StartCalls
  BY CallsOfSteps DEF Begins, serviceFrame, Doing, StartSteps
<1>2. CASE ~CanBegin /\ Step(c, "uninstall") /\ UNCHANGED <<vars, tests>>
  <2>1. OthersWait(c) /\ Goes(c, "uninstall")
    BY <1>2, StepEffect
  <2>2. \A d \in Commands : SteadyCall(d)
    BY <1>1, <2>1 DEF SteadyCall, OthersWait, Goes, CmdType
  <2>3. Begun' = Begun
    BY <1>2 DEF Begun, vars
  <2> QED
    BY <1>1, <1>2, <2>2, <2>3, SteadyKeepsNames DEF Steady
<1>3. CASE /\ BeginRecording(c)
           /\ cmd' = [cmd EXCEPT ![c].pc = "starting", ![c].id = next_id]
           /\ tests' = IF cmd[c].call = "test" THEN tests \cup {next_id} ELSE tests
  <2>1. next_id \in 1 .. MaxSession /\ MaxSession \in Nat
    BY MaxSessionAssumption DEF DisciplineInv, BasicInv, TypeOK, LifecycleTypeOK
  <2>2. next_id' = next_id + 1
    BY <1>3 DEF BeginRecording, Begin
  <2>3. Begun' = Begun \cup {next_id} /\ next_id \notin Begun \cup {0}
    BY <2>1, <2>2 DEF Begun
  <2>4. cmd'[c].call = cmd[c].call /\ cmd'[c].id = next_id
    BY <1>3 DEF CmdType
  <2>5. \A d \in Commands \ {c} : cmd'[d] = cmd[d] /\ cmd[d].id # next_id
    BY <1>3, <2>3 DEF CommandsFit, CommandFits
  <2>6. next_id \notin tests
    BY <2>3 DEF ServiceTypes
  <2>7. TestsApart'
    BY <1>1, <1>3, <2>4, <2>5, <2>6 DEF NamesInv, TestsApart, StartCalls, TestCalls
  <2>8. StartUnnamed'
    BY <2>4, <2>5 DEF NamesInv, StartUnnamed
  <2>9. SlotStarted'
    BY <1>1, <2>3, <2>4, <2>5 DEF NamesInv, SlotStarted
  <2>10. \A d \in Commands, k \in {"finish", "cancel"} :
           Claimed(d, k)' => Claimed(d, k) /\ cmd'[d] = cmd[d]
    BY <1>1, <2>4, <2>5 DEF Claimed, StartCalls
  <2>11. SlotUnclaimed'
    BY <1>1, <2>10 DEF NamesInv, SlotUnclaimed
  <2>12. ClaimsApart'
    BY <1>1, <2>10 DEF NamesInv, ClaimsApart
  <2>13. AwaitedByFinish'
    BY <1>1, <2>10 DEF NamesInv, AwaitedByFinish
  <2> QED
    BY <2>7, <2>8, <2>9, <2>11, <2>12, <2>13 DEF NamesInv
<1> QED
  BY <1>2, <1>3 DEF Begins

(* The slot passes a session from its start to one finish or cancel.       *)
LEMMA SlotMoveKeepsNames ==
  ASSUME NamesInv, DisciplineInv, NEW c \in Commands, SlotMove(c)
  PROVE  NamesInv'
<1> cmd \in [Commands -> CmdType] /\ ServiceTypes /\ CommandsFit
  BY DEF DisciplineInv, ServiceTypes
<1>1. /\ UNCHANGED <<next_id, tests, caller>> /\ OthersWait(c) /\ SlotMoves(c)
  BY SlotMoveEffect
<1>2. Begun' = Begun
  BY <1>1 DEF Begun
<1>3. \A d \in Commands \ {c} : cmd'[d] = cmd[d]
  BY <1>1 DEF OthersWait
<1>4. /\ cmd[c].call # "none"
      /\ \/ cmd'[c] = NoCall
         \/ cmd'[c].call = cmd[c].call /\ cmd'[c].id = cmd[c].id
  <2>1. cmd[c].call # "none"
    BY <1>1, CallsOfSteps DEF SlotMoves, Doing
  <2>2. Ends(c) \/ \E step : Goes(c, step)
    BY <1>1 DEF SlotMoves
  <2> QED
    BY <2>1, <2>2 DEF Ends, Goes, CmdType
<1>5. ASSUME NEW d \in Commands, cmd'[d].call # "none"
      PROVE  cmd'[d].call = cmd[d].call /\ cmd'[d].id = cmd[d].id
  BY <1>3, <1>4, <1>5 DEF NoCall
<1>6. \A d \in Commands : cmd'[d].id \in {0, cmd[d].id}
  BY <1>3, <1>4 DEF NoCall
<1>7. TestsApart'
  BY <1>1, <1>5 DEF NamesInv, TestsApart, TestCalls
<1>8. StartUnnamed'
  BY <1>5, <1>6 DEF NamesInv, StartUnnamed, StartCalls
<1>9. \A d \in Commands : cmd[c].id # 0 /\ cmd[d].call \in StartCalls /\ cmd[d].id = cmd[c].id => d = c
  BY DEF NamesInv, StartUnnamed
<1>10. CASE UNCHANGED slot /\ SteadyCall(c)
  <2>1. \A d \in Commands : SteadyCall(d)
    BY <1>3, <1>10 DEF SteadyCall
  <2> QED
    BY <1>1, <1>2, <1>10, <2>1, SteadyKeepsNames DEF Steady
<1>11. CASE /\ slot' \in {SlotIdle, In("Preparing", 0)}
            /\ \A d \in Commands, k \in {"finish", "cancel"} :
                 Claimed(d, k)' => Claimed(d, k) /\ cmd'[d] = cmd[d]
  <2>1. slot'.id = 0 /\ slot'.state \in {"Idle", "Preparing"}
    BY <1>11 DEF SlotIdle, In
  <2>2. SlotStarted' /\ SlotUnclaimed'
    BY <2>1 DEF SlotStarted, SlotUnclaimed
  <2>3. \A s : slot' # In("AwaitingInsertion", s)
    BY <2>1 DEF In
  <2>4. ClaimsApart' /\ AwaitedByFinish'
    BY <1>11, <2>3 DEF NamesInv, ClaimsApart, AwaitedByFinish
  <2> QED
    BY <1>7, <1>8, <2>2, <2>4 DEF NamesInv
<1>12. CASE Doing(c, "occupy") /\ Gives(c, "Recording") /\ Ends(c)
  <2>1. /\ cmd[c].call = "start" /\ cmd[c].id # 0 /\ cmd[c].id \in Begun
        /\ slot'.state = "Recording" /\ slot'.id = cmd[c].id /\ cmd'[c] = NoCall
    BY <1>12, CallsOfSteps DEF Doing, Gives, In, Ends, CommandsFit, CommandFits, StartCalls
  <2>2. \A d \in Commands : cmd'[d].id # cmd[c].id
    <3>1. \A d \in Commands \ {c} : cmd[d].id # cmd[c].id
      BY <2>1 DEF NamesInv, StartUnnamed, StartCalls
    <3> QED
      BY <1>3, <2>1, <3>1 DEF NoCall
  <2>3. SlotStarted' /\ SlotUnclaimed'
    BY <1>2, <2>1, <2>2 DEF SlotStarted, SlotUnclaimed
  <2>4. \A s : slot' # In("AwaitingInsertion", s)
    BY <2>1 DEF In
  <2>5. \A d \in Commands, k \in {"finish", "cancel"} :
          Claimed(d, k)' => Claimed(d, k) /\ cmd'[d] = cmd[d]
    BY <1>3, <2>1 DEF Claimed, NoCall
  <2>6. ClaimsApart' /\ AwaitedByFinish'
    BY <2>4, <2>5 DEF NamesInv, ClaimsApart, AwaitedByFinish
  <2> QED
    BY <1>7, <1>8, <2>3, <2>6 DEF NamesInv
<1>13. CASE /\ Doing(c, "claim") /\ cmd[c].call = "finish"
            /\ slot = In("Recording", cmd[c].id) /\ Gives(c, "Finalizing") /\ Goes(c, "take")
  <2>1. /\ cmd[c].id # 0 /\ cmd[c].id \in Begun
        /\ slot.state = "Recording" /\ slot.id = cmd[c].id
        /\ slot'.state = "Finalizing" /\ slot'.id = cmd[c].id
    BY <1>13 DEF Gives, In, CommandsFit, CommandFits, StartCalls
  <2>2. \A d \in Commands : Claimed(d, "finish") \/ Claimed(d, "cancel") => cmd[d].id # cmd[c].id
    BY <2>1 DEF NamesInv, SlotUnclaimed
  <2>3. SlotStarted' /\ SlotUnclaimed'
    BY <1>2, <1>4, <1>5, <1>9, <1>13, <2>1 DEF SlotStarted, SlotUnclaimed, StartCalls
  <2>4. \A s : slot # In("AwaitingInsertion", s) /\ slot' # In("AwaitingInsertion", s)
    BY <2>1 DEF In
  <2>5. \A d \in Commands, k \in {"finish", "cancel"} :
          Claimed(d, k)' => d = c \/ (Claimed(d, k) /\ cmd'[d] = cmd[d])
    BY <1>3 DEF Claimed
  <2>6. cmd'[c].id = cmd[c].id /\ cmd'[c].call = "finish"
    BY <1>13 DEF Goes, CmdType
  <2>7. ClaimsApart'
    <3> SUFFICES ASSUME NEW d \in Commands, NEW e \in Commands,
                        Claimed(d, "finish")', cmd'[e].id = cmd'[d].id
                 PROVE  /\ Claimed(e, "finish")' => e = d
                        /\ Claimed(e, "cancel")' =>
                             /\ cmd'[d].pc = "begin_insertion"
                             /\ slot' # In("AwaitingInsertion", cmd'[d].id)
      BY DEF ClaimsApart
    <3>1. CASE d = c
      BY <2>2, <2>5, <2>6, <3>1 DEF Claimed
    <3>2. CASE d # c /\ e = c
      BY <2>2, <2>5, <2>6, <3>2 DEF Claimed
    <3>3. CASE d # c /\ e # c
      BY <2>4, <2>5, <3>3 DEF NamesInv, ClaimsApart
    <3> QED
      BY <3>1, <3>2, <3>3
  <2>8. AwaitedByFinish'
    BY <2>4 DEF AwaitedByFinish
  <2> QED
    BY <1>7, <1>8, <2>3, <2>7, <2>8 DEF NamesInv
<1>14. CASE \/ /\ Doing(c, "await") /\ Gives(c, "AwaitingInsertion") /\ Goes(c, "begin_insertion")
            \/ /\ Doing(c, "begin_insertion") /\ slot = In("AwaitingInsertion", cmd[c].id)
               /\ Gives(c, "Inserting") /\ Goes(c, "insert")
  <2>1. cmd[c].call = "finish" /\ cmd[c].pc \in {"await", "begin_insertion"}
    BY <1>14, CallsOfSteps DEF Doing
  <2>2. cmd[c].id # 0 /\ cmd[c].id \in Begun
    BY <2>1 DEF CommandsFit, CommandFits, StartCalls
  <2>3. slot'.state \in {"AwaitingInsertion", "Inserting"} /\ slot'.id = cmd[c].id
    BY <1>14 DEF Gives, In
  <2>4. SlotStarted' /\ SlotUnclaimed'
    BY <1>2, <1>4, <1>5, <1>9, <2>1, <2>2, <2>3 DEF SlotStarted, SlotUnclaimed, StartCalls
  <2>5. Claimed(c, "finish") /\ cmd'[c].id = cmd[c].id /\ cmd'[c].call = "finish"
    BY <1>14, <2>1 DEF Claimed, Goes, CmdType
  <2>6. \A d \in Commands, k \in {"finish", "cancel"} :
          Claimed(d, k)' => Claimed(d, k) /\ cmd'[d].id = cmd[d].id /\ (d # c => cmd'[d] = cmd[d])
    BY <1>3, <2>5 DEF Claimed
  <2>7. \A d \in Commands : Claimed(d, "finish") /\ cmd[d].id = cmd[c].id => d = c
    BY <2>5 DEF NamesInv, ClaimsApart
  <2>8. \A d \in Commands : Claimed(d, "cancel") /\ cmd[d].id = cmd[c].id => FALSE
    <3>1. CASE Doing(c, "await")
      BY <2>5, <3>1 DEF NamesInv, ClaimsApart, Doing
    <3>2. CASE slot = In("AwaitingInsertion", cmd[c].id)
      BY <2>5, <3>2 DEF NamesInv, ClaimsApart
    <3> QED
      BY <1>14, <3>1, <3>2
  <2>9. \A d \in Commands \ {c} :
          Claimed(d, "finish") => slot' # In("AwaitingInsertion", cmd[d].id)
    BY <2>3, <2>7 DEF In
  <2>10. ClaimsApart'
    <3> SUFFICES ASSUME NEW d \in Commands, NEW e \in Commands,
                        Claimed(d, "finish")', cmd'[e].id = cmd'[d].id
                 PROVE  /\ Claimed(e, "finish")' => e = d
                        /\ Claimed(e, "cancel")' =>
                             /\ cmd'[d].pc = "begin_insertion"
                             /\ slot' # In("AwaitingInsertion", cmd'[d].id)
      BY DEF ClaimsApart
    <3>1. Claimed(e, "finish")' => e = d
      BY <2>6 DEF NamesInv, ClaimsApart
    <3>2. ASSUME Claimed(e, "cancel")'
          PROVE  cmd'[d].pc = "begin_insertion" /\ slot' # In("AwaitingInsertion", cmd'[d].id)
      <4>1. d # c
        BY <2>6, <2>8, <3>2
      <4> QED
        BY <2>6, <2>9, <3>2, <4>1 DEF NamesInv, ClaimsApart
    <3> QED
      BY <3>1, <3>2
  <2>11. AwaitedByFinish'
    <3>1. slot' = In("AwaitingInsertion", cmd[c].id) => cmd'[c].pc = "begin_insertion"
      BY <1>14, <2>5 DEF Gives, In, Goes, CmdType
    <3>2. \A d \in Commands : Claimed(d, "finish")' /\ slot' = In("AwaitingInsertion", cmd'[d].id)
            => d = c
      BY <2>6, <2>9
    <3> QED
      BY <2>5, <3>1, <3>2 DEF AwaitedByFinish
  <2> QED
    BY <1>7, <1>8, <2>4, <2>10, <2>11 DEF NamesInv
<1>15. CASE /\ Doing(c, "claim") /\ cmd[c].call = "cancel"
            /\ slot \in {In("Recording", cmd[c].id), In("AwaitingInsertion", cmd[c].id)}
            /\ slot' = SlotIdle /\ Goes(c, "cancel_capture")
  <2>1. slot'.id = 0 /\ slot'.state = "Idle"
    BY <1>15 DEF SlotIdle, In
  <2>2. SlotStarted' /\ SlotUnclaimed'
    BY <2>1 DEF SlotStarted, SlotUnclaimed
  <2>3. \A s : slot' # In("AwaitingInsertion", s)
    BY <2>1 DEF In
  <2>4. cmd'[c].id = cmd[c].id /\ cmd'[c].call = "cancel"
    BY <1>15 DEF Goes, CmdType
  <2>5. \A d \in Commands : Claimed(d, "finish")' =>
          Claimed(d, "finish") /\ cmd'[d] = cmd[d] /\ d # c
    BY <1>3, <2>4 DEF Claimed
  <2>6. \A d \in Commands : Claimed(d, "cancel")' =>
          d = c \/ (Claimed(d, "cancel") /\ cmd'[d] = cmd[d])
    BY <1>3 DEF Claimed
  <2>7. \A d \in Commands : Claimed(d, "finish") /\ cmd[d].id = cmd[c].id =>
          cmd[d].pc = "begin_insertion"
    <3>1. CASE slot = In("Recording", cmd[c].id)
      BY <3>1 DEF NamesInv, SlotUnclaimed, In
    <3>2. CASE slot = In("AwaitingInsertion", cmd[c].id)
      BY <3>2 DEF NamesInv, AwaitedByFinish
    <3> QED
      BY <1>15, <3>1, <3>2
  <2>8. ClaimsApart'
    BY <2>3, <2>4, <2>5, <2>6, <2>7 DEF NamesInv, ClaimsApart
  <2>9. AwaitedByFinish'
    BY <2>3 DEF AwaitedByFinish
  <2> QED
    BY <1>7, <1>8, <2>2, <2>8, <2>9 DEF NamesInv
<1>16. CASE \/ /\ Doing(c, "claim") /\ cmd[c].call = "start"
               /\ slot' = In("Preparing", 0) /\ Goes(c, "load")
            \/ Doing(c, "reset") /\ slot' = SlotIdle /\ Ends(c)
  <2>1. \A d \in Commands, k \in {"finish", "cancel"} :
          Claimed(d, k)' => Claimed(d, k) /\ cmd'[d] = cmd[d]
    BY <1>3, <1>16 DEF Claimed, Goes, Ends, NoCall, CmdType
  <2> QED
    BY <1>11, <1>16, <2>1
<1>17. \/ /\ UNCHANGED slot
          /\ \/ Ends(c)
             \/ cmd[c].pc \notin {"claim", "begin_insertion"} /\ \E step : Goes(c, step)
       \/ Doing(c, "occupy") /\ Gives(c, "Recording") /\ Ends(c)
       \/ /\ Doing(c, "claim") /\ cmd[c].call = "finish"
          /\ slot = In("Recording", cmd[c].id) /\ Gives(c, "Finalizing") /\ Goes(c, "take")
       \/ /\ Doing(c, "await") /\ Gives(c, "AwaitingInsertion") /\ Goes(c, "begin_insertion")
       \/ /\ Doing(c, "begin_insertion") /\ slot = In("AwaitingInsertion", cmd[c].id)
          /\ Gives(c, "Inserting") /\ Goes(c, "insert")
       \/ /\ Doing(c, "claim") /\ cmd[c].call = "cancel"
          /\ slot \in {In("Recording", cmd[c].id), In("AwaitingInsertion", cmd[c].id)}
          /\ slot' = SlotIdle /\ Goes(c, "cancel_capture")
       \/ /\ Doing(c, "claim") /\ cmd[c].call = "start"
          /\ slot' = In("Preparing", 0) /\ Goes(c, "load")
       \/ Doing(c, "reset") /\ slot' = SlotIdle /\ Ends(c)
  BY <1>1 DEF SlotMoves, Doing
<1>18. Ends(c) \/ (cmd[c].pc \notin {"claim", "begin_insertion"} /\ \E step : Goes(c, step))
         => SteadyCall(c)
  BY DEF SteadyCall, Ends, Goes, CmdType
<1> QED
  BY <1>10, <1>12, <1>13, <1>14, <1>15, <1>16, <1>17, <1>18

(* The other steps of a command: they go on for the session, or return,    *)
(* and leave the slot alone.                                               *)
GoesOn(c) ==
  /\ OthersWait(c)
  /\ \/ cmd'[c] = NoCall
     \/ cmd'[c].call = cmd[c].call /\ cmd'[c].id = cmd[c].id

LEMMA StepGoesOn ==
  ASSUME cmd \in [Commands -> CmdType], NEW c \in Commands,
         Done(c) \/ \E step : Step(c, step)
  PROVE  GoesOn(c)
<1>1. CASE Done(c)
  BY <1>1, DoneEffect DEF GoesOn, Ends
<1>2. ASSUME NEW step, Step(c, step) PROVE GoesOn(c)
  <2>1. OthersWait(c) /\ (Goes(c, step) \/ Leaves(c))
    BY <1>2, StepEffect
  <2>2. Goes(c, step) => cmd'[c].call = cmd[c].call /\ cmd'[c].id = cmd[c].id
    BY DEF Goes, CmdType
  <2> QED
    BY <2>1, <2>2, LeavesPlain DEF GoesOn
<1> QED
  BY <1>1, <1>2

Onward(c) ==
  \/ ClaimCapture(c) \/ GivesUp(c) \/ TakeRefused(c) \/ Join(c)
  \/ \E p \in Pumps : Spawns(c, p)
  \/ \E step \in {"join", "cancel_join"} : Takes(c, step)
  \/ Refused(c) \/ Deliver(c) \/ RuntimeStep(c)
  \/ \E step \in DOMAIN EnteredFrom : EntersFor(c, step)

LEMMA ServeIsOnward ==
  ASSUME NEW c \in Commands, Serve(c)
  PROVE  SlotMove(c) \/ Begins(c) \/ Onward(c)
BY ServeIsNamed DEF OutsideStep, Onward

LEMMA OnwardFrom ==
  ASSUME DisciplineInv, NEW c \in Commands, Onward(c)
  PROVE  cmd[c].pc \notin {"claim", "begin_insertion", "none"}
<1>1. RuntimeStep(c) => cmd[c].pc \in DOMAIN CallAt
  <2>1. c \in Threads
    BY ThreadsApart
  <2>2. RuntimeStep(c) => op[c].call # "none"
    BY <2>1, ContinueEffect DEF RuntimeStep, DisciplineInv
  <2> QED
    BY <2>2 DEF DisciplineInv, OpsFollow, CommandFollows
<1>2. ASSUME NEW step \in DOMAIN EnteredFrom, EntersFor(c, step)
      PROVE  cmd[c].pc \notin {"claim", "begin_insertion", "none"}
  BY <1>2 DEF EntersFor, EnteredFrom
<1> QED
  BY <1>1, <1>2
  DEF Onward, ClaimCapture, GivesUp, TakeRefused, Join, Joined, Spawns, Takes, Refused,
      Deliver, Doing, CallAt

LEMMA OnwardGoesOn ==
  ASSUME DisciplineInv, NEW c \in Commands, Onward(c)
  PROVE  GoesOn(c) /\ UNCHANGED <<next_id, slot, tests, caller>>
<1> cmd \in [Commands -> CmdType] /\ ServiceTypes /\ c \in Threads /\ BasicInv
  BY ThreadsApart DEF DisciplineInv, ServiceTypes
<1>1. CASE ClaimCapture(c)
  <2>1. UNCHANGED <<vars, slot, tests, caller>>
    BY <1>1 DEF ClaimCapture, controlFrame
  <2>2. \E step : Step(c, step)
    BY <1>1 DEF ClaimCapture
  <2> QED
    BY <2>1, <2>2, StepGoesOn DEF vars
<1>2. CASE GivesUp(c) \/ TakeRefused(c)
  BY <1>2, StepGoesOn DEF GivesUp, TakeRefused, vars
<1>3. ASSUME NEW p \in Pumps, Spawns(c, p) PROVE GoesOn(c) /\ UNCHANGED <<next_id, slot, tests, caller>>
  BY <1>3, StepGoesOn DEF Spawns, vars
<1>4. ASSUME NEW step, Takes(c, step) PROVE GoesOn(c) /\ UNCHANGED <<next_id, slot, tests, caller>>
  BY <1>4 DEF Takes, TakeWorker, GoesOn, OthersWait, CmdType, vars
<1>5. CASE Join(c)
  <2>1. UNCHANGED <<vars, slot, tests, caller>>
    BY <1>5 DEF Join, controlFrame
  <2>2. Done(c) \/ \E step : cmd' = [cmd EXCEPT ![c].pump = NoPump, ![c].pc = step]
    BY <1>5 DEF Join
  <2>3. ASSUME NEW step, cmd' = [cmd EXCEPT ![c].pump = NoPump, ![c].pc = step] PROVE GoesOn(c)
    BY <2>3 DEF GoesOn, OthersWait, CmdType
  <2> QED
    BY <2>1, <2>2, <2>3, StepGoesOn DEF vars
<1>6. CASE Refused(c)
  BY <1>6, StepGoesOn DEF Refused, serviceUnchanged, vars
<1>7. CASE Deliver(c)
  BY <1>7, StepGoesOn DEF Deliver, serviceFrame, InsertionDelivered, Submit, vars
<1>8. CASE RuntimeStep(c)
  <2>1. UNCHANGED <<slot, tests, caller>> /\ Continue(c)
    BY <1>8 DEF RuntimeStep, serviceFrame
  <2>2. next_id' = next_id
    BY <2>1, ContinueEffect
  <2>3. CASE cmd' = cmd
    BY <2>1, <2>2, <2>3 DEF GoesOn, OthersWait
  <2> QED
    BY <1>8, <2>1, <2>2, <2>3, StepGoesOn DEF RuntimeStep
<1>9. ASSUME NEW step \in DOMAIN EnteredFrom, EntersFor(c, step)
      PROVE  GoesOn(c) /\ UNCHANGED <<next_id, slot, tests, caller>>
  <2>1. cmd[c].id \in Begun
    <3>1. cmd[c].pc \in {"finalize", "transcribe", "fail_recognition", "fail_delivery",
                         "cancel_session", "abandon"}
      BY <1>9 DEF EntersFor, EnteredFrom
    <3> QED
      BY <3>1, CallersHaveSession
  <2>2. next_id' = next_id
    BY <1>9, <2>1, EntersEffect DEF EntersFor
  <2> QED
    BY <1>9, <2>2, StepGoesOn DEF EntersFor, serviceUnchanged
<1> QED
  BY <1>1, <1>2, <1>3, <1>4, <1>5, <1>6, <1>7, <1>8, <1>9 DEF Onward

LEMMA OnwardKeepsNames ==
  ASSUME NamesInv, DisciplineInv, NEW c \in Commands, Onward(c)
  PROVE  NamesInv'
<1>1. GoesOn(c) /\ UNCHANGED <<next_id, slot, tests, caller>>
  BY OnwardGoesOn
<1>2. Begun' = Begun
  BY <1>1 DEF Begun
<1>3. \A d \in Commands : SteadyCall(d)
  BY <1>1, OnwardFrom DEF GoesOn, OthersWait, SteadyCall
<1> QED
  BY <1>1, <1>2, <1>3, SteadyKeepsNames DEF Steady

LEMMA DrainKeepsNames ==
  ASSUME NamesInv, DisciplineInv, NEW p \in Pumps, Drain(p)
  PROVE  NamesInv'
<1>1. UNCHANGED <<slot, cmd, tests, caller>>
  BY DEF Drain, PumpCall, PumpStep, PumpCheck, PumpWait, pumpFrame
<1>2. next_id' = next_id
  <2>1. CASE Continue(p)
    BY <2>1, ContinueEffect, ThreadsApart DEF DisciplineInv
  <2>2. CASE PumpRecording(p, pump[p].id) \/ UNCHANGED vars
    BY <2>2 DEF PumpRecording, lifecycleVars, vars
  <2> QED
    BY <2>1, <2>2 DEF Drain, PumpCall, PumpStep, PumpCheck, PumpWait
<1>3. Begun' = Begun
  BY <1>2 DEF Begun
<1> QED
  BY <1>1, <1>3, SteadyKeepsNames DEF Steady, SteadyCall

(* Only a session's own names are ever given to its calls.                 *)
LEMMA StepKeepsNames ==
  ASSUME NamesInv, DisciplineInv, caller # "anyone", DesktopNext
  PROVE  NamesInv'
BY AcceptKeepsNames, ServeIsOnward, SlotMoveKeepsNames, BeginsKeepsNames, OnwardKeepsNames,
   DrainKeepsNames DEF DesktopNext

---------------------------------------------------------------------------
(* Text for the current session only: whose worker may still pump.         *)

(* No worker gets a session, and no call finishes one anew.                *)
WorkersLeave ==
  /\ \A p \in Pumps : pump'[p].id \in {pump[p].id, 0}
  /\ \A d \in Commands : Finishing(d)' /\ cmd'[d].pc # "join" =>
       Finishing(d) /\ cmd[d].pc # "join" /\ cmd'[d].id = cmd[d].id

LEMMA FinishHasSession ==
  ASSUME DisciplineInv, NEW d \in Commands, Finishing(d)
  PROVE  cmd[d].id # 0
BY DEF DisciplineInv, CommandsFit, CommandFits, Finishing, FinishCalls, StartCalls

LEMMA WorkersLeft ==
  ASSUME DisciplineInv, OneWorker, WorkerGone, WorkersLeave
  PROVE  OneWorker' /\ WorkerGone'
<1>1. OneWorker'
  BY DEF OneWorker, WorkersLeave
<1>2. WorkerGone'
  BY FinishHasSession DEF WorkerGone, WorkersLeave
<1> QED
  BY <1>1, <1>2

(* A call that goes on is not one that starts to finish, ...               *)
LEMMA OthersFinish ==
  ASSUME NEW c \in Commands, OthersWait(c), ~(Finishing(c)' /\ cmd'[c].pc # "join"),
         \A p \in Pumps : pump'[p].id \in {pump[p].id, 0}
  PROVE  WorkersLeave
<1> SUFFICES ASSUME NEW d \in Commands, Finishing(d)', cmd'[d].pc # "join"
             PROVE  Finishing(d) /\ cmd[d].pc # "join" /\ cmd'[d].id = cmd[d].id
  BY DEF WorkersLeave
<1>1. d # c
  OBVIOUS
<1>2. cmd'[d] = cmd[d]
  BY <1>1 DEF OthersWait
<1> QED
  BY <1>2 DEF Finishing

(* ... or has finished to record before.                                   *)
LEMMA FinishGoesOn ==
  ASSUME NEW c \in Commands, GoesOn(c), UNCHANGED pump,
         cmd[c].pc \notin {"claim", "take", "join", "reset"}
  PROVE  WorkersLeave
<1> SUFFICES ASSUME NEW d \in Commands, Finishing(d)', cmd'[d].pc # "join"
             PROVE  Finishing(d) /\ cmd[d].pc # "join" /\ cmd'[d].id = cmd[d].id
  BY DEF WorkersLeave
<1>1. CASE d # c
  <2>1. cmd'[d] = cmd[d]
    BY <1>1 DEF GoesOn, OthersWait
  <2> QED
    BY <2>1 DEF Finishing
<1>2. CASE d = c
  BY <1>2 DEF GoesOn, Finishing, NoCall, FinishCalls
<1> QED
  BY <1>1, <1>2

LEMMA SpawnKeepsWorkers ==
  ASSUME DisciplineInv, StartUnnamed, OneWorker, WorkerGone,
         NEW c \in Commands, NEW p \in Pumps, Spawns(c, p)
  PROVE  OneWorker' /\ WorkerGone'
<1> pump \in [Pumps -> PumpType] /\ cmd \in [Commands -> CmdType] /\ CommandsFit
  BY DEF DisciplineInv, ServiceTypes
<1>1. /\ \A q \in Pumps \ {p} : pump'[q] = pump[q]
      /\ pump'[p].id = cmd[c].id
  BY DEF Spawns, NoWorker
<1>2. cmd[c].pc = "install" /\ cmd[c].call \in StartCalls
  BY CallsOfSteps DEF Spawns, DisciplineInv, StartSteps
<1>3. /\ cmd[c].id # 0
      /\ \A q \in Pumps : pump[q].id # cmd[c].id
  BY <1>2, PendingInFlight DEF Pending
<1>4. OthersWait(c) /\ ~Finishing(c)'
  <2>1. CASE Done(c)
    BY <2>1, DoneEffect DEF Ends, NoCall, Finishing, FinishCalls
  <2>2. CASE Step(c, "occupy")
    <3>1. OthersWait(c) /\ Goes(c, "occupy")
      BY <2>2, StepEffect
    <3>2. cmd'[c].call = cmd[c].call
      BY <3>1 DEF Goes, CmdType
    <3> QED
      BY <1>2, <3>1, <3>2 DEF Finishing, StartCalls, FinishCalls
  <2> QED
    BY <2>1, <2>2 DEF Spawns
<1>5. OneWorker'
  BY <1>1, <1>3 DEF OneWorker
<1>6. WorkerGone'
  <2> SUFFICES ASSUME NEW d \in Commands, Finishing(d)', cmd'[d].pc # "join", NEW q \in Pumps
               PROVE  pump'[q].id # cmd'[d].id
    BY DEF WorkerGone
  <2>1. d # c /\ cmd'[d] = cmd[d]
    BY <1>4 DEF OthersWait
  <2>2. Finishing(d) /\ cmd[d].pc # "join" /\ cmd[d].id # cmd[c].id
    BY <1>2, <1>3, <2>1 DEF Finishing, StartUnnamed
  <2> QED
    BY <1>1, <2>1, <2>2 DEF WorkerGone
<1> QED
  BY <1>5, <1>6

(* A finish that has joined the worker leaves the session without one.     *)
LEMMA JoinKeepsWorkers ==
  ASSUME DisciplineInv, OneWorker, WorkerGone, NEW c \in Commands, Join(c)
  PROVE  OneWorker' /\ WorkerGone'
<1> CommandsFit /\ cmd \in [Commands -> CmdType] /\ pump \in [Pumps -> PumpType]
  BY DEF DisciplineInv, ServiceTypes
<1> DEFINE w == cmd[c].pump
<1>1. /\ cmd[c].pc \in {"join", "cancel_join"}
      /\ pump' = [pump EXCEPT ![w] = NoWorker]
  BY DEF Join, Joined
<1>2. w \in Pumps /\ w # NoPump
  BY <1>1 DEF CommandsFit, CommandFits, Joined, CmdType
<1>3. \A p \in Pumps : pump'[p].id = IF p = w THEN 0 ELSE pump[p].id
  BY <1>1 DEF NoWorker
<1>4. pump[w].id = cmd[c].id
  BY <1>2 DEF DisciplineInv, WorkersClaimed
<1> HIDE DEF w
<1>5. GoesOn(c)
  BY OnwardGoesOn DEF Onward
<1>6. OneWorker'
  BY <1>3 DEF OneWorker
<1>7. WorkerGone'
  <2> SUFFICES ASSUME NEW d \in Commands, Finishing(d)', cmd'[d].pc # "join", NEW q \in Pumps
               PROVE  pump'[q].id # cmd'[d].id
    BY DEF WorkerGone
  <2>1. CASE d # c
    <3>1. cmd'[d] = cmd[d]
      BY <1>5, <2>1 DEF GoesOn, OthersWait
    <3>2. Finishing(d) /\ cmd[d].pc # "join"
      BY <3>1 DEF Finishing
    <3> QED
      BY <1>3, <3>1, <3>2, FinishHasSession DEF WorkerGone
  <2>2. CASE d = c
    <3>1. cmd'[c].id = cmd[c].id /\ Finishing(c)
      BY <1>1, <1>5, <2>2 DEF GoesOn, Finishing, NoCall, FinishCalls
    <3>2. pump[q].id = cmd[c].id => q = w
      BY <1>2, <1>4, <3>1, FinishHasSession DEF OneWorker
    <3> QED
      BY <1>3, <2>2, <3>1, <3>2, FinishHasSession
  <2> QED
    BY <2>1, <2>2
<1> QED
  BY <1>6, <1>7

LEMMA OnwardKeepsWorkers ==
  ASSUME DisciplineInv, StartUnnamed, OneWorker, WorkerGone, NEW c \in Commands, Onward(c)
  PROVE  OneWorker' /\ WorkerGone'
<1> CommandsFit /\ ServiceTypes /\ cmd \in [Commands -> CmdType] /\ pump \in [Pumps -> PumpType]
  BY DEF DisciplineInv, ServiceTypes
<1>1. GoesOn(c) /\ OthersWait(c)
  BY OnwardGoesOn DEF GoesOn
<1>2. CASE ClaimCapture(c)
  <2>1. cmd[c].pc = "capture" /\ cmd[c].call \in StartCalls
    BY <1>2, CallsOfSteps DEF ClaimCapture, Doing, StartSteps
  <2>2. ~Finishing(c)'
    BY <1>1, <2>1 DEF GoesOn, Finishing, NoCall, StartCalls, FinishCalls
  <2>3. \A p \in Pumps : pump'[p].id \in {pump[p].id, 0}
    BY <1>2, ClaimCaptureEffect DEF NoWorker
  <2> QED
    BY <1>1, <2>2, <2>3, OthersFinish, WorkersLeft
<1>3. CASE TakeRefused(c)
  <2>1. pump' = pump /\ \E step \in {"leave", "cancel_session"} : Step(c, step)
    BY <1>3 DEF TakeRefused
  <2>2. cmd[c].pc = "take" => Leaves(c)
    BY <1>3, StepEffect DEF TakeRefused
  <2>3. cmd[c].pc # "take" => cmd[c].call \notin FinishCalls
    BY <1>3, CallsOfSteps DEF TakeRefused, FinishCalls
  <2>4. ~Finishing(c)'
    BY <1>1, <2>2, <2>3, LeavesPlain DEF GoesOn, Finishing, NoCall, FinishCalls
  <2> QED
    BY <1>1, <2>1, <2>4, OthersFinish, WorkersLeft
<1>4. ASSUME NEW step, Takes(c, step) PROVE OneWorker' /\ WorkerGone'
  <2>1. \A p \in Pumps : pump'[p].id = pump[p].id
    BY <1>4 DEF Takes, TakeWorker, PumpType
  <2>2. cmd'[c].pc \in {"join", "cancel_join"} /\ cmd'[c].call = cmd[c].call
          /\ (cmd'[c].pc = "cancel_join" => cmd[c].pc = "cancel_capture")
    BY <1>4 DEF Takes, TakeWorker, CmdType
  <2>3. cmd[c].pc = "cancel_capture" => cmd[c].call \notin FinishCalls
    BY CallsOfSteps DEF FinishCalls
  <2>4. ~(Finishing(c)' /\ cmd'[c].pc # "join")
    BY <2>2, <2>3 DEF Finishing
  <2> QED
    BY <1>1, <2>1, <2>4, OthersFinish, WorkersLeft
<1>5. CASE \/ GivesUp(c) \/ Refused(c) \/ Deliver(c) \/ RuntimeStep(c)
           \/ \E step \in DOMAIN EnteredFrom : EntersFor(c, step)
  <2>1. pump' = pump
    BY <1>5 DEF GivesUp, Refused, Deliver, RuntimeStep, EntersFor, serviceUnchanged, serviceFrame
  <2>2. RuntimeStep(c) => cmd[c].pc \in DOMAIN CallAt
    <3>1. c \in Threads
      BY ThreadsApart
    <3>2. RuntimeStep(c) => op[c].call # "none"
      BY <3>1, ContinueEffect DEF RuntimeStep, DisciplineInv
    <3> QED
      BY <3>2 DEF DisciplineInv, OpsFollow, CommandFollows
  <2>3. ASSUME NEW step \in DOMAIN EnteredFrom, EntersFor(c, step)
        PROVE  cmd[c].pc \notin {"claim", "take", "join", "reset"}
    BY <2>3 DEF EntersFor, EnteredFrom
  <2>4. cmd[c].pc \notin {"claim", "take", "join", "reset"}
    BY <1>5, <2>2, <2>3 DEF GivesUp, Refused, Deliver, Doing, CallAt
  <2> QED
    BY <1>1, <2>1, <2>4, FinishGoesOn, WorkersLeft
<1>6. ASSUME NEW p \in Pumps, Spawns(c, p) PROVE OneWorker' /\ WorkerGone'
  BY <1>6, SpawnKeepsWorkers
<1> QED
  BY <1>2, <1>3, <1>4, <1>5, <1>6, JoinKeepsWorkers DEF Onward

LEMMA StepKeepsWorkers ==
  ASSUME DisciplineInv, StartUnnamed, OneWorker, WorkerGone, DesktopNext
  PROVE  OneWorker' /\ WorkerGone'
<1> CommandsFit /\ ServiceTypes /\ cmd \in [Commands -> CmdType] /\ pump \in [Pumps -> PumpType]
  BY DEF DisciplineInv, ServiceTypes
<1>1. ASSUME NEW c \in Commands, Command(c) PROVE OneWorker' /\ WorkerGone'
  <2>1. PICK call, s : call \in Offered /\ Accept(c, call, s)
    BY <1>1 DEF Command
  <2>2. UNCHANGED pump /\ OthersWait(c) /\ cmd'[c].call = call /\ cmd'[c].pc = FirstStep[call]
    BY <2>1 DEF Accept, OthersWait, NoCall
  <2>3. call \in {"start", "finish", "cancel", "test", "test_finish", "test_cancel"}
    BY <2>1, DesktopAssumptions DEF DictationCalls
  <2>4. ~Finishing(c)'
    BY <2>2, <2>3 DEF Finishing, FirstStep, FinishCalls
  <2> QED
    BY <2>2, <2>4, OthersFinish, WorkersLeft
<1>2. ASSUME NEW c \in Commands, SlotMove(c) PROVE OneWorker' /\ WorkerGone'
  <2>1. UNCHANGED pump /\ OthersWait(c) /\ SlotMoves(c)
    BY <1>2, SlotMoveEffect
  <2>2. CASE cmd[c].pc \in {"claim", "reset"}
    <3>1. Ends(c) \/ Goes(c, "load") \/ Goes(c, "take") \/ Goes(c, "cancel_capture")
      BY <2>1, <2>2 DEF SlotMoves, Doing
    <3>2. Goes(c, "cancel_capture") => cmd[c].call = "cancel"
      BY <2>1, <2>2 DEF SlotMoves, Doing, Goes, Ends, CmdType, NoCall
    <3>3. Goes(c, "load") => cmd[c].call = "start"
      BY <2>1, <2>2 DEF SlotMoves, Doing, Goes, Ends, CmdType, NoCall
    <3>4. ~Finishing(c)'
      BY <3>1, <3>2, <3>3 DEF Ends, Goes, CmdType, NoCall, Finishing, FinishCalls
    <3> QED
      BY <2>1, <3>4, OthersFinish, WorkersLeft
  <2>3. CASE cmd[c].pc \notin {"claim", "reset"}
    <3>1. cmd[c].pc \notin {"take", "join"}
      BY <2>1 DEF SlotMoves, Doing
    <3>2. Ends(c) \/ \E step : Goes(c, step)
      BY <2>1 DEF SlotMoves
    <3>3. GoesOn(c)
      BY <2>1, <3>2 DEF GoesOn, Ends, Goes, CmdType
    <3> QED
      BY <2>1, <2>3, <3>1, <3>3, FinishGoesOn, WorkersLeft
  <2> QED
    BY <2>2, <2>3
<1>3. ASSUME NEW c \in Commands, Begins(c) PROVE OneWorker' /\ WorkerGone'
  <2>1. UNCHANGED pump /\ cmd[c].pc = "begin" /\ cmd[c].call \in StartCalls
    BY <1>3, CallsOfSteps DEF Begins, serviceFrame, Doing, StartSteps
  <2>2. OthersWait(c) /\ cmd'[c].call = cmd[c].call
    <3>1. CASE Step(c, "uninstall")
      <4>1. OthersWait(c) /\ Goes(c, "uninstall")
        BY <3>1, StepEffect
      <4> QED
        BY <4>1 DEF Goes, CmdType
    <3>2. CASE cmd' = [cmd EXCEPT ![c].pc = "starting", ![c].id = next_id]
      BY <3>2 DEF OthersWait, CmdType
    <3> QED
      BY <1>3, <3>1, <3>2 DEF Begins
  <2>3. ~Finishing(c)'
    BY <2>1, <2>2 DEF Finishing, StartCalls, FinishCalls
  <2> QED
    BY <2>1, <2>2, <2>3, OthersFinish, WorkersLeft
<1>4. ASSUME NEW p \in Pumps, Drain(p) PROVE OneWorker' /\ WorkerGone'
  <2>1. UNCHANGED cmd
    BY <1>4 DEF Drain, PumpCall, PumpStep, PumpCheck, PumpWait, pumpFrame
  <2>2. \/ pump' = pump
        \/ \E step : PumpTo(p, step)
        \/ PumpFails(p)
    BY <1>4 DEF Drain, PumpCall, PumpStep, PumpCheck, PumpWait
  <2>3. \A q \in Pumps : pump'[q].id = pump[q].id
    BY <2>2 DEF PumpTo, PumpFails, PumpType
  <2>4. WorkersLeave
    BY <2>1, <2>3 DEF WorkersLeave, Finishing
  <2> QED
    BY <2>4, WorkersLeft
<1> QED
  BY <1>1, <1>2, <1>3, <1>4, ServeIsOnward, OnwardKeepsWorkers DEF DesktopNext

---------------------------------------------------------------------------
(* Text for the current session only: nobody else touches the session.     *)

Holding(c) == current.id = cmd[c].id /\ current.state = "Inserting"

LEMMA TextIsFinishing ==
  ASSUME NEW d \in Commands, HasText(d)
  PROVE  Finishing(d) /\ cmd[d].pc # "join" /\ Claimed(d, "finish")
BY DEF HasText, Finishing, FinishCalls, Claimed

LEMMA TextIsLive ==
  ASSUME InsertingHeld, NEW d \in Commands, HasText(d)
  PROVE  Holding(d) /\ Live /\ current.state # "Recording"
BY DEF InsertingHeld, Holding, Live, Terminal

(* No other call of the session has claimed it, ...                        *)
LEMMA TextClaimsAlone ==
  ASSUME NamesInv, NEW d \in Commands, HasText(d), NEW c \in Commands \ {d},
         cmd[c].id = cmd[d].id
  PROVE  ~Claimed(c, "finish") /\ ~Claimed(c, "cancel")
<1>1. Claimed(d, "finish")
  BY TextIsFinishing
<1>2. ~Claimed(c, "finish")
  BY <1>1 DEF NamesInv, ClaimsApart
<1>3. ~(cmd[d].pc = "begin_insertion" /\ slot # In("AwaitingInsertion", cmd[d].id))
  BY DEF HasText
<1> QED
  BY <1>1, <1>2, <1>3 DEF NamesInv, ClaimsApart

(* ... and no other thread is inside the runtime for it.                   *)
LEMMA TextAlone ==
  ASSUME DisciplineInv, NamesInv, WorkerGone, NEW d \in Commands, HasText(d),
         NEW t \in Threads \ {d}, op[t].call # "none"
  PROVE  op[t].id # cmd[d].id
<1> ServiceTypes
  BY DEF DisciplineInv
<1>1. Finishing(d) /\ cmd[d].pc # "join" /\ cmd[d].call = "finish" /\ cmd[d].id # 0
  BY TextIsFinishing, FinishHasSession DEF HasText
<1>2. CASE t \in Pumps
  <2>1. op[t].id = pump[t].id
    BY <1>2 DEF DisciplineInv, OpsFollow, PumpFollows
  <2> QED
    BY <1>1, <1>2, <2>1 DEF WorkerGone
<1>3. CASE t \in Commands
  <2> SUFFICES ASSUME cmd[t].id = cmd[d].id PROVE FALSE
    BY <1>3 DEF DisciplineInv, OpsFollow, CommandFollows
  <2>1. cmd[t].pc \in DOMAIN CallAt
    BY <1>3 DEF DisciplineInv, OpsFollow, CommandFollows
  <2>2. cmd[t].pc # "claim" /\ cmd[t].call # "none"
    BY <1>3, <2>1, CallersHaveSession DEF CallAt
  <2>3. cmd[t].call \notin {"finish", "cancel"}
    BY <1>3, <2>2, TextClaimsAlone DEF Claimed
  <2>4. cmd[t].call \notin StartCalls
    BY <1>1, <1>3 DEF NamesInv, StartUnnamed
  <2>5. cmd[t].call \notin TestCalls
    BY <1>1, <1>3 DEF NamesInv, TestsApart
  <2>6. cmd[t].call \in {"start", "finish", "cancel", "test", "test_finish", "test_cancel", "none"}
    BY <1>3, CallsNamed
  <2> QED
    BY <2>2, <2>3, <2>4, <2>5, <2>6 DEF StartCalls, TestCalls
<1> QED
  BY <1>2, <1>3, DesktopAssumptions

(* A step of another thread leaves the session in Inserting.               *)
LEMMA OthersKeepHolding ==
  ASSUME DisciplineInv, NamesInv, WorkerGone, InsertingHeld, NEW d \in Commands, HasText(d),
         NEW t \in Threads \ {d},
         \/ UNCHANGED <<next_id, current>>
         \/ Continue(t)
         \/ BeginRecording(t)
         \/ \E s : FinalizeRecording(t, s)
         \/ t \in Commands /\ cmd[t].pc = "deliver" /\ InsertionDelivered(t, cmd[t].id)
  PROVE  UNCHANGED current
<1>1. Holding(d) /\ Live /\ current.state # "Recording"
  BY TextIsLive
<1>2. CASE Continue(t)
  <2>1. op[t].call # "none"
    BY <1>2, ContinueEffect DEF DisciplineInv
  <2>2. op[t].id # current.id
    BY <1>1, <2>1, TextAlone DEF Holding
  <2> QED
    BY <1>2, <2>2, StaleContinueHarmless DEF DisciplineInv, lifecycleVars
<1>3. ~BeginRecording(t)
  BY <1>1 DEF BeginRecording, Begin, CanBegin
<1>4. ~\E s : FinalizeRecording(t, s)
  BY <1>1 DEF FinalizeRecording, Submit, Submittable, Accepts, Source
<1>5. ~(t \in Commands /\ cmd[t].pc = "deliver" /\ InsertionDelivered(t, cmd[t].id))
  <2> SUFFICES ASSUME t \in Commands, cmd[t].pc = "deliver", current.id = cmd[t].id PROVE FALSE
    BY DEF InsertionDelivered, Submit, Submittable
  <2>1. Claimed(t, "finish")
    BY CallsOfSteps DEF DisciplineInv, Claimed
  <2> QED
    BY <1>1, <2>1, TextClaimsAlone DEF Holding
<1> QED
  BY <1>2, <1>3, <1>4, <1>5

(* What a step of the services is to the runtime.                          *)
Acts(t) ==
  \/ UNCHANGED <<next_id, current>> /\ UNCHANGED op
  \/ UNCHANGED <<next_id, current>> /\ Others(t) /\ op'[t].pc # "unreserve"
  \/ Continue(t)
  \/ BeginRecording(t)
  \/ \E s : FinalizeRecording(t, s)
  \/ t \in Commands /\ cmd[t].pc = "deliver" /\ InsertionDelivered(t, cmd[t].id)

LEMMA ActsAlone ==
  ASSUME DisciplineInv, NEW t \in Threads, Acts(t)
  PROVE  Others(t)
<1> BasicInv /\ op \in [Threads -> OpType]
  BY DEF DisciplineInv, BasicInv, TypeOK, OpType
<1>1. Continue(t) => Others(t)
  BY ContinueEffect
<1>2. BeginRecording(t) => Others(t)
  BY EnterEffect DEF BeginRecording
<1>3. ASSUME NEW s, FinalizeRecording(t, s) PROVE Others(t)
  BY <1>3, EnterEffect DEF FinalizeRecording
<1>4. InsertionDelivered(t, cmd[t].id) => Others(t)
  BY DEF InsertionDelivered, Others
<1>5. UNCHANGED op => Others(t)
  BY DEF Others
<1> QED
  BY <1>1, <1>2, <1>3, <1>4, <1>5 DEF Acts

(* A thread that acts keeps the text of the others.                        *)
LEMMA OthersKeepText ==
  ASSUME InsertionInv, NEW t \in Threads, Acts(t), NEW d \in Commands \ {t},
         cmd'[d] = cmd[d], HasText(d)',
         slot' = slot \/ slot' # In("AwaitingInsertion", cmd[d].id)
  PROVE  Holding(d)'
<1>1. op'[d] = op[d]
  BY ActsAlone, ThreadsApart DEF Others, InsertionInv
<1>2. HasText(d)
  BY <1>1 DEF HasText
<1>3. UNCHANGED current
  BY <1>2, OthersKeepHolding DEF InsertionInv, Acts
<1> QED
  BY <1>2, <1>3, TextIsLive DEF InsertionInv, Holding

LEMMA OnwardActs ==
  ASSUME DisciplineInv, NEW c \in Commands, Onward(c)
  PROVE  Acts(c)
<1> BasicInv /\ op \in [Threads -> OpType] /\ c \in Threads
  BY ThreadsApart DEF DisciplineInv, BasicInv, TypeOK, OpType
<1>1. CASE OutsideStep(c) \/ Refused(c)
  <2>1. UNCHANGED vars
    BY <1>1, OutsideStepKeeps DEF Refused
  <2> QED
    BY <2>1 DEF Acts, vars
<1>2. CASE Deliver(c)
  BY <1>2 DEF Deliver, Acts, Doing, vars
<1>3. CASE RuntimeStep(c)
  BY <1>3 DEF RuntimeStep, Acts
<1>4. ASSUME NEW step \in DOMAIN EnteredFrom, EntersFor(c, step) PROVE Acts(c)
  <2>1. PICK call, s : Enters(c, call, s)
    BY <1>4 DEF EntersFor
  <2>2. CASE FinalizeRecording(c, s)
    BY <2>2 DEF Acts
  <2>3. CASE \/ PumpRecording(c, s) \/ Transcribe(c, s) \/ Cancel(c, s)
             \/ \E stage : Fail(c, s, stage)
    <3>1. UNCHANGED <<next_id, current>>
      BY <2>3 DEF PumpRecording, Transcribe, Cancel, Fail, lifecycleVars
    <3>2. \E operation, stage : \E pc \in {"pump", "claim", "cancel", "fail"} :
            Enter(c, operation, pc, s, stage)
      BY <2>3 DEF PumpRecording, Transcribe, Cancel, Fail
    <3>3. Others(c) /\ op'[c].pc # "unreserve"
      BY <3>2, EnterEffect
    <3> QED
      BY <3>1, <3>3 DEF Acts
  <2> QED
    BY <2>1, <2>2, <2>3 DEF Enters
<1> QED
  BY <1>1, <1>2, <1>3, <1>4 DEF Onward, OutsideStep

(* The call itself gets its text when the runtime has announced it.        *)
LEMMA UnreserveFollows ==
  ASSUME BasicInv, NEW t \in Threads, Continue(t), op'[t].pc = "unreserve"
  PROVE  /\ current.id = op[t].id /\ current'.id = current.id
         /\ current'.state \in {"Inserting", "Transforming"}
<1> op \in [Threads -> OpType] /\ LifecycleTypeOK
  BY DEF BasicInv, TypeOK, OpType
<1>1. TranscriptReady(t)
  BY DEF Continue, ReserveArming, StartCapture, RecordingStarted, StoreRecording, Pump,
         TakeRecording, FinalizeAudio, AudioFinalized, StoreFinalized, TakeFinalized,
         Recognize, RestoreFinalized, ReleaseSilence, CancelSilence, TranscriptReady,
         ClearReservation, FailSession, CancelSession, DiscardAndFail, Discard,
         ReadForFailure, BestEffortFail, Goto, FailAt, Return, Idle, OpType
<1>2. PICK event \in {"TranscriptReady", "TransformRequired"} :
        /\ SubmitIfAccepted(op[t].id, event, "None")
        /\ Goto(t, IF Submittable(op[t].id, event) THEN "unreserve" ELSE "discard")
  BY <1>1 DEF TranscriptReady
<1>3. Submittable(op[t].id, event)
  BY <1>2 DEF Goto, OpType
<1>4. Submit(op[t].id, event, "None")
  BY <1>2, <1>3 DEF SubmitIfAccepted
<1>5. current.id = op[t].id
  BY <1>3 DEF Submittable
<1>6. current' = [current EXCEPT !.state = Target[event],
                                 !.failure_stage = IF event = "Fail" THEN "None" ELSE @]
  BY <1>4 DEF Submit
<1>7. current'.id = current.id /\ current'.state = Target[event]
  BY <1>6 DEF LifecycleTypeOK
<1> QED
  BY <1>5, <1>7 DEF Target

LEMMA UnreserveSteps ==
  ASSUME NEW t \in Threads, Continue(t), op[t].pc = "unreserve"
  PROVE  UNCHANGED <<next_id, current>>
BY DEF Continue, ReserveArming, StartCapture, RecordingStarted, StoreRecording, Pump,
       TakeRecording, FinalizeAudio, AudioFinalized, StoreFinalized, TakeFinalized,
       Recognize, RestoreFinalized, ReleaseSilence, CancelSilence, TranscriptReady,
       ClearReservation, FailSession, CancelSession, DiscardAndFail, Discard,
       ReadForFailure, BestEffortFail, At, lifecycleVars

LEMMA RuntimeStepKeepsText ==
  ASSUME InsertionInv, NEW c \in Commands, RuntimeStep(c), HasText(c)'
  PROVE  Holding(c)'
<1> BasicInv /\ cmd \in [Commands -> CmdType] /\ c \in Threads
  BY ThreadsApart DEF InsertionInv, DisciplineInv, ServiceTypes
<1>1. Continue(c) /\ current'.state # "Transforming" /\ UNCHANGED slot
  BY DEF RuntimeStep, serviceFrame
<1>2. op[c].call # "none"
  BY <1>1, ContinueEffect
<1>3. cmd[c].pc \in DOMAIN CallAt /\ op[c].id = cmd[c].id
  BY <1>2 DEF InsertionInv, DisciplineInv, OpsFollow, CommandFollows
<1>4. cmd[c].pc \in {"starting", "finalizing", "transcribing", "failing", "cancelling",
                     "abandoning"}
  BY <1>3 DEF CallAt
<1>5. CASE op'[c] # Idle
  <2>1. cmd' = cmd
    BY <1>5 DEF RuntimeStep
  <2>2. op'[c].pc = "unreserve"
    BY <1>4, <2>1 DEF HasText
  <2>3. current'.id = cmd[c].id /\ current'.state = "Inserting"
    BY <1>1, <1>3, <2>2, UnreserveFollows
  <2> QED
    BY <2>1, <2>3 DEF Holding
<1>6. CASE op'[c] = Idle
  <2>1. Step(c, Resume(c))
    BY <1>6 DEF RuntimeStep
  <2>2. Resume(c) # "leave"
    <3>1. Leaves(c) => cmd'[c].pc \in {"none", "reset"}
      BY LeavesPlain DEF NoCall
    <3>2. ~Leaves(c)
      BY <3>1 DEF HasText
    <3> QED
      BY <2>1, <3>2, StepEffect
  <2>3. PICK step : step = Resume(c)
    OBVIOUS
  <2>4. Goes(c, step)
    BY <2>1, <2>2, <2>3, StepEffect
  <2>5. cmd'[c].pc = step /\ cmd'[c].id = cmd[c].id
    BY <2>4 DEF Goes, CmdType
  <2>6. op'[c].pc # "unreserve"
    BY <1>6 DEF Idle
  <2>7. step \in {"install", "uninstall", "transcribe", "cancel_session", "fail_recognition",
                  "await"}
    BY <1>4, <2>2, <2>3, ResumeSteps
  <2>8. step = "await"
    BY <2>5, <2>6, <2>7 DEF HasText
  <2>9. cmd[c].pc = "transcribing" /\ op[c].pc = "unreserve"
    BY <1>4, <2>3, <2>8 DEF Resume, Doing, At
  <2>10. HasText(c)
    BY <2>9, CallsOfSteps DEF HasText, InsertionInv, DisciplineInv
  <2>11. UNCHANGED current
    BY <1>1, <2>9, UnreserveSteps
  <2> QED
    BY <2>5, <2>10, <2>11, TextIsLive DEF InsertionInv, Holding
<1> QED
  BY <1>5, <1>6

(* No other step gives it one.                                             *)
LEMMA OnwardKeepsText ==
  ASSUME InsertionInv, NEW c \in Commands, Onward(c), HasText(c)'
  PROVE  Holding(c)'
<1> /\ DisciplineInv /\ CommandsFit /\ ServiceTypes /\ cmd \in [Commands -> CmdType]
    /\ BasicInv /\ c \in Threads
  BY ThreadsApart DEF InsertionInv, DisciplineInv, ServiceTypes
<1>1. cmd[c].call = "finish" /\ cmd'[c].call = "finish"
  BY OnwardGoesOn DEF GoesOn, HasText, NoCall
<1>2. cmd'[c].pc \in {"await", "insert", "complete", "fail_insertion", "deliver",
                      "fail_delivery", "transcribing", "begin_insertion"}
  BY DEF HasText
<1>3. ~\E step \in {"abandon", "begin", "uninstall", "cancel_session", "fail_recognition", "reset",
                    "occupy", "failing", "finalizing"} : Goes(c, step)
  BY <1>2 DEF Goes, CmdType
<1>4. ~Leaves(c)
  BY <1>2, LeavesPlain DEF NoCall
<1>5. ~ClaimCapture(c)
  BY <1>3, <1>4, ClaimCaptureEffect
<1>6. ~GivesUp(c) /\ ~TakeRefused(c) /\ ~Refused(c) /\ ~Deliver(c)
  <2>1. ASSUME NEW step \in {"abandon", "leave", "cancel_session", "fail_recognition", "reset"},
               Step(c, step)
        PROVE  FALSE
    BY <1>3, <1>4, <2>1, StepEffect
  <2> QED
    BY <2>1 DEF GivesUp, TakeRefused, Refused, Deliver
<1>7. ~Join(c)
  <2>1. CASE Done(c)
    BY <1>1, <2>1 DEF Done, NoCall
  <2>2. ASSUME NEW step \in {"reset", "finalize", "cancel_session"},
               cmd' = [cmd EXCEPT ![c].pump = NoPump, ![c].pc = step]
        PROVE  FALSE
    BY <1>2, <2>2 DEF CmdType
  <2> SUFFICES ASSUME Join(c) PROVE FALSE
    OBVIOUS
  <2> DEFINE next == IF pump[cmd[c].pump].failed THEN "leave" ELSE Joined[cmd[c].pc]
  <2>3. next \in {"leave", "finalize", "cancel_session"}
    BY DEF Join, Joined
  <2>4. \/ Done(c)
        \/ cmd' = [cmd EXCEPT ![c].pump = NoPump,
                              ![c].pc = IF next = "leave" THEN "reset" ELSE next]
    BY DEF Join
  <2> HIDE DEF next
  <2>5. CASE next = "leave"
    BY <2>1, <2>2, <2>4, <2>5
  <2>6. CASE next # "leave"
    BY <2>1, <2>2, <2>3, <2>4, <2>6
  <2> QED
    BY <2>5, <2>6
<1>8. ~\E p \in Pumps : Spawns(c, p)
  <2>1. cmd[c].pc # "install"
    BY <1>1, CallsOfSteps DEF StartSteps, StartCalls
  <2> QED
    BY <2>1 DEF Spawns
<1>9. ~\E step \in {"join", "cancel_join"} : Takes(c, step)
  BY <1>2 DEF Takes, TakeWorker, CmdType
<1>10. ASSUME NEW step \in DOMAIN EnteredFrom, EntersFor(c, step) PROVE FALSE
  <2>1. step \in {"finalizing", "transcribing", "failing", "cancelling", "abandoning"}
    BY DEF EnteredFrom
  <2>2. Goes(c, step)
    BY <1>10, <2>1, StepEffect DEF EntersFor
  <2>3. cmd'[c].pc = step
    BY <2>2 DEF Goes, CmdType
  <2>4. step = "transcribing" /\ op'[c].pc = "unreserve"
    BY <1>2, <2>1, <2>3 DEF HasText
  <2>5. Transcribe(c, cmd[c].id)
    BY <1>10, <2>4 DEF EntersFor, Enters, CallAt
  <2>6. op'[c].pc = "claim"
    <3>1. op \in [Threads -> OpType]
      BY DEF BasicInv, TypeOK, OpType
    <3> QED
      BY <2>5, <3>1, EnterEffect DEF Transcribe
  <2> QED
    BY <2>4, <2>6
<1> QED
  BY <1>5, <1>6, <1>7, <1>8, <1>9, <1>10, RuntimeStepKeepsText DEF Onward

(* The slot is passed on to whoever has the text.                          *)
LEMMA SlotMoveKeepsText ==
  ASSUME InsertionInv, NEW c \in Commands, SlotMove(c), NEW d \in Commands, HasText(d)'
  PROVE  Holding(d)'
<1> ServiceTypes /\ CommandsFit /\ cmd \in [Commands -> CmdType] /\ c \in Threads
  BY ThreadsApart DEF InsertionInv, DisciplineInv, ServiceTypes
<1>1. UNCHANGED <<next_id, current, op>> /\ OthersWait(c) /\ SlotMoves(c)
  BY SlotMoveEffect
<1>2. CASE d = c
  <2>1. cmd'[c].call = "finish"
    BY <1>2 DEF HasText
  <2>2. ~Ends(c)
    BY <2>1 DEF Ends, NoCall
  <2>3. \E step : Goes(c, step)
    BY <1>1, <2>2 DEF SlotMoves
  <2>4. cmd'[c].id = cmd[c].id /\ cmd[c].call = "finish"
    BY <2>1, <2>3 DEF Goes, CmdType
  <2>5. ~\E step \in {"load", "capture", "reset", "cancel_capture", "take"} : Goes(c, step)
    BY <1>2 DEF Goes, CmdType, HasText
  <2>6. \/ cmd[c].pc \in {"await", "insert", "complete", "fail_insertion"}
        \/ cmd[c].pc = "begin_insertion" /\ slot = In("AwaitingInsertion", cmd[c].id)
    BY <1>1, <2>2, <2>5 DEF SlotMoves, Doing
  <2>7. HasText(c)
    BY <2>4, <2>6 DEF HasText
  <2> QED
    BY <1>1, <1>2, <2>4, <2>7, TextIsLive DEF InsertionInv, Holding
<1>3. CASE d # c
  <2>1. cmd'[d] = cmd[d]
    BY <1>1, <1>3 DEF OthersWait
  <2>2. slot' = slot \/ slot' # In("AwaitingInsertion", cmd[d].id)
    <3> SUFFICES ASSUME slot' # slot, slot' = In("AwaitingInsertion", cmd[d].id) PROVE FALSE
      OBVIOUS
    <3>1. Doing(c, "await") /\ Gives(c, "AwaitingInsertion")
      BY <1>1 DEF SlotMoves, Gives, In, SlotIdle
    <3>2. cmd[c].id = cmd[d].id /\ cmd[c].pc = "await"
      BY <3>1 DEF Gives, In, Doing
    <3>3. Claimed(c, "finish")
      BY <3>2, CallsOfSteps DEF Claimed
    <3>4. Claimed(d, "finish")
      BY <2>1 DEF HasText, Claimed
    <3> QED
      BY <1>3, <3>2, <3>3, <3>4 DEF InsertionInv, NamesInv, ClaimsApart
  <2>3. Acts(c)
    BY <1>1 DEF Acts
  <2> QED
    BY <1>3, <2>1, <2>2, <2>3, OthersKeepText
<1> QED
  BY <1>2, <1>3

LEMMA StepKeepsText ==
  ASSUME InsertionInv, DesktopNext
  PROVE  InsertingHeld'
<1> SUFFICES ASSUME NEW d \in Commands, HasText(d)' PROVE Holding(d)'
  BY DEF InsertingHeld, Holding
<1> /\ DisciplineInv /\ CommandsFit /\ ServiceTypes /\ cmd \in [Commands -> CmdType]
    /\ BasicInv /\ d \in Threads
  BY ThreadsApart DEF InsertionInv, DisciplineInv, ServiceTypes
<1>1. ASSUME NEW c \in Commands, Command(c) PROVE Holding(d)'
  <2>1. PICK call, s : call \in Offered /\ Accept(c, call, s)
    BY <1>1 DEF Command
  <2>2. /\ UNCHANGED <<vars, slot>> /\ OthersWait(c)
        /\ cmd'[c].call = call /\ cmd'[c].pc = FirstStep[call]
    BY <2>1 DEF Accept, OthersWait, NoCall
  <2>3. d # c
    BY <2>2 DEF HasText, FirstStep
  <2>4. Acts(c)
    BY <2>2 DEF Acts, vars
  <2> QED
    BY <2>2, <2>3, <2>4, OthersKeepText, ThreadsApart DEF OthersWait
<1>2. ASSUME NEW c \in Commands, Begins(c) PROVE Holding(d)'
  <2>1. UNCHANGED slot /\ cmd[c].pc = "begin" /\ cmd[c].call \in StartCalls
    BY <1>2, CallsOfSteps DEF Begins, serviceFrame, Doing, StartSteps
  <2>2. OthersWait(c) /\ cmd'[c].call = cmd[c].call
    <3>1. CASE Step(c, "uninstall")
      <4>1. OthersWait(c) /\ Goes(c, "uninstall")
        BY <3>1, StepEffect
      <4> QED
        BY <4>1 DEF Goes, CmdType
    <3>2. CASE cmd' = [cmd EXCEPT ![c].pc = "starting", ![c].id = next_id]
      BY <3>2 DEF OthersWait, CmdType
    <3> QED
      BY <1>2, <3>1, <3>2 DEF Begins
  <2>3. d # c
    BY <2>1, <2>2 DEF HasText, StartCalls
  <2>4. Acts(c)
    BY <1>2 DEF Begins, Acts, vars
  <2> QED
    BY <2>1, <2>2, <2>3, <2>4, OthersKeepText, ThreadsApart DEF OthersWait
<1>3. ASSUME NEW c \in Commands, Onward(c) PROVE Holding(d)'
  <2>1. OthersWait(c) /\ UNCHANGED slot /\ Acts(c)
    BY <1>3, OnwardGoesOn, OnwardActs DEF GoesOn
  <2>2. CASE d # c
    BY <2>1, <2>2, OthersKeepText, ThreadsApart DEF OthersWait
  <2> QED
    BY <1>3, <2>2, OnwardKeepsText
<1>4. ASSUME NEW p \in Pumps, Drain(p) PROVE Holding(d)'
  <2>1. UNCHANGED <<slot, cmd>>
    BY <1>4 DEF Drain, PumpCall, PumpStep, PumpCheck, PumpWait, pumpFrame
  <2>2. p \in Threads /\ d # p
    BY ThreadsApart
  <2>3. Acts(p)
    <3>1. CASE Continue(p)
      BY <3>1 DEF Acts
    <3>2. CASE UNCHANGED vars
      BY <3>2 DEF Acts, vars
    <3>3. CASE PumpRecording(p, pump[p].id)
      <4>1. UNCHANGED <<next_id, current>>
        BY <3>3 DEF PumpRecording, lifecycleVars
      <4>2. op \in [Threads -> OpType]
        BY DEF BasicInv, TypeOK, OpType
      <4>3. Others(p) /\ op'[p].pc = "pump"
        BY <2>2, <3>3, <4>2, EnterEffect DEF PumpRecording
      <4> QED
        BY <4>1, <4>3 DEF Acts
    <3> QED
      BY <1>4, <3>1, <3>2, <3>3 DEF Drain, PumpCall, PumpStep, PumpCheck, PumpWait
  <2> QED
    BY <2>1, <2>2, <2>3, OthersKeepText
<1> QED
  BY <1>1, <1>2, <1>3, <1>4, ServeIsOnward, SlotMoveKeepsText DEF DesktopNext

LEMMA DesktopInitIsNamed == DesktopInit => InsertionInv
<1> SUFFICES ASSUME DesktopInit PROVE InsertionInv
  OBVIOUS
<1>1. /\ pump = [p \in Pumps |-> NoWorker] /\ slot = SlotIdle
      /\ cmd = [c \in Commands |-> NoCall] /\ tests = {}
  BY DEF DesktopInit
<1>2. \A c \in Commands : cmd[c].call = "none" /\ cmd[c].id = 0
  BY <1>1 DEF NoCall
<1>3. TestsApart /\ StartUnnamed /\ ClaimsApart /\ AwaitedByFinish
  BY <1>2 DEF TestsApart, TestCalls, StartUnnamed, StartCalls, ClaimsApart, Claimed, AwaitedByFinish
<1>4. SlotStarted /\ SlotUnclaimed
  BY <1>1 DEF SlotStarted, SlotUnclaimed, SlotIdle, In
<1>5. OneWorker
  BY <1>1 DEF OneWorker, NoWorker
<1>6. WorkerGone /\ InsertingHeld
  BY <1>2 DEF WorkerGone, Finishing, FinishCalls, InsertingHeld, HasText
<1> QED
  BY <1>3, <1>4, <1>5, <1>6, DesktopInitIsDisciplined DEF InsertionInv, NamesInv

(* Every step keeps who may touch a dictation with its text.               *)
LEMMA InsertionKept ==
  ASSUME InsertionInv, caller # "anyone", [DesktopNext]_desktopVars
  PROVE  InsertionInv'
<1>1. CASE DesktopNext
  <2>1. DisciplineInv /\ NamesInv /\ OneWorker /\ WorkerGone /\ StartUnnamed
    BY DEF InsertionInv, NamesInv
  <2>2. DisciplineInv'
    BY <1>1, <2>1, DesktopStepKeeps
  <2>3. NamesInv'
    BY <1>1, <2>1, StepKeepsNames
  <2>4. OneWorker' /\ WorkerGone'
    BY <1>1, <2>1, StepKeepsWorkers
  <2>5. InsertingHeld'
    BY <1>1, StepKeepsText
  <2> QED
    BY <2>2, <2>3, <2>4, <2>5 DEF InsertionInv
<1>2. CASE UNCHANGED desktopVars
  <2>1. UNCHANGED <<vars, control, pump, slot, cmd, tests, caller>>
    BY <1>2 DEF desktopVars
  <2>2. UNCHANGED <<next_id, current, op>>
    BY <2>1 DEF vars
  <2>3. DisciplineInv'
    BY <1>2, <2>1, StutterKeeps DEF InsertionInv
  <2>4. NamesInv'
    <3>1. Begun' = Begun
      BY <2>2 DEF Begun
    <3> QED
      BY <2>1, <3>1, SteadyKeepsNames DEF InsertionInv, Steady, SteadyCall
  <2>5. OneWorker' /\ WorkerGone'
    BY <2>1 DEF InsertionInv, OneWorker, WorkerGone, Finishing
  <2>6. InsertingHeld'
    BY <2>1, <2>2 DEF InsertionInv, InsertingHeld, HasText
  <2> QED
    BY <2>3, <2>4, <2>5, <2>6 DEF InsertionInv
<1> QED
  BY <1>1, <1>2

(* Text is typed only for the session that is current, while it is in      *)
(* Inserting: from its transcript on nobody else can end a dictation, not  *)
(* a cancel, a worker nor another finish.  Nobody names the session of a   *)
(* dictation in a call of the microphone test, as the page never does.     *)
THEOREM TextOnlyForCurrent ==
  ASSUME "anyone" \notin Callers
  PROVE  DesktopSpec => []InsertsOnlyCurrent
<1>1. InsertionInv /\ [DesktopNext]_desktopVars => InsertionInv'
  <2>1. InsertionInv => caller # "anyone"
    BY DEF InsertionInv, DisciplineInv, ServiceTypes
  <2> QED
    BY <2>1, InsertionKept
<1>2. InsertionInv => InsertsOnlyCurrent
  <2> SUFFICES ASSUME InsertionInv, NEW c \in Commands, Doing(c, "insert")
               PROVE  current.id = cmd[c].id /\ current.state = "Inserting"
    BY DEF InsertsOnlyCurrent
  <2>1. cmd[c].call = "finish"
    BY CallsOfSteps DEF Doing, InsertionInv, DisciplineInv
  <2> QED
    BY <2>1 DEF InsertionInv, InsertingHeld, HasText, Doing
<1> QED
  BY <1>1, <1>2, DesktopInitIsNamed, PTL DEF DesktopSpec

---------------------------------------------------------------------------
(* The page's sessions: how the runtime answers.                           *)

(* Within an operation a session stays current, is not revived, and a      *)
(* recording ends only with its session.                                   *)
LEMMA ContinueKeepsSession ==
  ASSUME BasicInv, NEW t \in Threads, Continue(t)
  PROVE  /\ current'.id = current.id
         /\ Live' => Live
         /\ Live' /\ current.state = "Recording" => current'.state = "Recording"
<1>1. \/ UNCHANGED lifecycleVars
      \/ \E event \in {"RecordingStarted", "AudioFinalized", "TranscriptReady",
                       "TransformRequired", "Fail", "Cancel"} :
           \E stage : SubmitIfAccepted(op[t].id, event, stage)
  BY DEF Continue, ReserveArming, StartCapture, RecordingStarted, StoreRecording, Pump,
         TakeRecording, FinalizeAudio, AudioFinalized, StoreFinalized, TakeFinalized,
         Recognize, RestoreFinalized, ReleaseSilence, CancelSilence, TranscriptReady,
         ClearReservation, FailSession, CancelSession, DiscardAndFail, Discard,
         ReadForFailure, BestEffortFail
<1>2. CASE UNCHANGED lifecycleVars
  BY <1>2 DEF lifecycleVars, Live
<1>3. ASSUME NEW event \in {"RecordingStarted", "AudioFinalized", "TranscriptReady",
                            "TransformRequired", "Fail", "Cancel"},
             NEW stage, SubmitIfAccepted(op[t].id, event, stage)
      PROVE  /\ current'.id = current.id
             /\ Live' => Live
             /\ Live' /\ current.state = "Recording" => current'.state = "Recording"
  <2>1. /\ current'.id = current.id
        /\ IF Submittable(op[t].id, event)
             THEN current'.state = Target[event]
             ELSE current' = current
    BY <1>3, SubmitEffect DEF BasicInv, TypeOK, Events, Target
  <2>2. CASE ~Submittable(op[t].id, event)
    BY <2>1, <2>2 DEF Live
  <2>3. CASE Submittable(op[t].id, event)
    BY <2>1, <2>3 DEF Submittable, Accepts, Source, Target, Live, Terminal
  <2> QED
    BY <2>2, <2>3
<1> QED
  BY <1>1, <1>2, <1>3

(* A call that returns while its session is live has not ended it.         *)
Answers(t) ==
  Continue(t) /\ op'[t] = Idle /\ op[t].id = current.id /\ Live'

(* Who returns from where.                                                 *)
LEMMA AnswersFrom ==
  ASSUME RuntimeInv, NEW t \in Threads, Answers(t)
  PROVE  \/ StoreRecording(t) /\ Holds("Arming", op[t].id)
         \/ op[t].pc = "pump"
         \/ TakeRecording(t) /\ ~Holds("Recording", op[t].id)
         \/ StoreFinalized(t)
         \/ op[t].pc \in {"claim", "restore", "release", "unreserve"}
         \/ op[t].pc = "discard"
<1> /\ op \in [Threads -> OpType] /\ BasicInv /\ Live
    /\ Continue(t) /\ op'[t] = Idle /\ op[t].id = current.id /\ Live'
  BY ContinueKeepsSession DEF RuntimeInv, BasicInv, TypeOK, OpType, Answers
<1>1. ~Concluded(t)
  BY ConcludedEffect
<1>2. \A step : Goto(t, step) => step = "idle"
  BY DEF Goto, OpType, Idle
<1>3. \A step, stage : FailAt(t, step, stage) => step = "idle"
  BY MoveEffect DEF Idle
<1>4. ~ReserveArming(t) /\ ~StartCapture(t) /\ ~RecordingStarted(t)
  BY <1>2, <1>3 DEF ReserveArming, StartCapture, RecordingStarted
<1>5. ~FinalizeAudio(t) /\ ~AudioFinalized(t) /\ ~Recognize(t) /\ ~TranscriptReady(t)
  BY <1>2, <1>3 DEF FinalizeAudio, AudioFinalized, Recognize, TranscriptReady
<1>6. ~DiscardAndFail(t)
  BY <1>2 DEF DiscardAndFail
<1>7. ~ReadForFailure(t)
  BY <1>2 DEF ReadForFailure
<1>8. StoreRecording(t) => Holds("Arming", op[t].id)
  BY <1>3 DEF StoreRecording
<1>9. TakeRecording(t) => ~Holds("Recording", op[t].id)
  BY <1>2 DEF TakeRecording
<1>10. Pump(t) => op[t].pc = "pump"
  BY DEF Pump, At
<1>11. TakeFinalized(t) \/ RestoreFinalized(t) \/ ReleaseSilence(t) \/ ClearReservation(t)
        => op[t].pc \in {"claim", "restore", "release", "unreserve"}
  BY DEF TakeFinalized, RestoreFinalized, ReleaseSilence, ClearReservation, At
<1>12. Discard(t) => op[t].pc = "discard"
  BY DEF Discard, At
<1> QED
  BY <1>1, <1>4, <1>5, <1>6, <1>7, <1>8, <1>9, <1>10, <1>11, <1>12 DEF Continue, Concluded

(* A finalization that comes to nothing has somebody else to thank.        *)
LEMMA FinalizeAnswers ==
  ASSUME RuntimeInv, AttendedInv, NEW t \in Threads, Answers(t), op[t].call = "finalize"
  PROVE  \/ op[t].pc = "keep" /\ Holds("Finalizing", op[t].id)
         \/ \E u \in Threads \ {t} : op[u].id = current.id /\ op[u].call # "none"
<1> /\ BasicInv /\ Live /\ op[t].id = current.id /\ Owns(op[t].id)
    /\ StepsMatchCalls /\ TypeOK
  BY ContinueKeepsSession DEF RuntimeInv, BasicInv, Answers, Owns
<1>1. ASSUME NEW u \in Threads, op[u].id = current.id, Concludes(u), ~Concludes(t)
      PROVE  \E v \in Threads \ {t} : op[v].id = current.id /\ op[v].call # "none"
  BY <1>1 DEF Concludes, StepsMatchCalls
<1>2. op[t].pc # "discard"
  BY DEF AttendedInv, ReleasesAreLate
<1>3. CASE TakeRecording(t) /\ ~Holds("Recording", op[t].id)
  <2>1. op[t].pc = "take" /\ current.state = "FinalizingAudio" /\ ~Concludes(t)
    BY <1>3 DEF TakeRecording, At, RuntimeInv, StateAtStep, Concludes
  <2>2. CASE work.slot = "Empty"
    BY <1>1, <2>1, <2>2 DEF AttendedInv, LossIsAttended
  <2>3. CASE work.slot # "Empty"
    <3>1. work.id = current.id /\ current.state \in OwnerStates[work.slot]
      BY <2>3 DEF RuntimeInv, WorkMatchesSession
    <3>2. work.slot \in {"Arming", "Recording", "Finalizing", "Finalized", "Transcribing"}
      BY <2>3 DEF TypeOK
    <3>3. work.slot # "Recording"
      <4>1. work = [slot |-> work.slot, id |-> work.id]
        BY DEF TypeOK
      <4> QED
        BY <1>3, <3>1, <4>1 DEF Holds, Slot
    <3>4. work.slot = "Finalizing"
      BY <2>1, <3>1, <3>2, <3>3 DEF OwnerStates
    <3>5. PICK u \in Threads : op[u].id = work.id /\ op[u].call = "finalize" /\ op[u].pc # "take"
      BY <3>4 DEF AttendedInv, FinalizingIsHeld
    <3> QED
      BY <2>1, <3>1, <3>5
  <2> QED
    BY <2>2, <2>3
<1>4. CASE StoreFinalized(t)
  <2>1. op[t].pc = "keep" /\ current.state = "Transcribing" /\ ~Concludes(t)
    BY <1>4 DEF StoreFinalized, At, RuntimeInv, StateAtStep, Concludes
  <2>2. CASE work.slot = "Empty"
    BY <1>1, <2>1, <2>2 DEF AttendedInv, LossIsAttended
  <2>3. CASE work.slot # "Empty"
    <3>1. work.id = op[t].id
      BY <2>3 DEF RuntimeInv, WorkMatchesSession
    <3>2. work.slot = "Finalizing"
      BY <2>1, <3>1 DEF RuntimeInv, SlotAtStep
    <3>3. work = [slot |-> work.slot, id |-> work.id]
      BY DEF TypeOK
    <3> QED
      BY <2>1, <3>1, <3>2, <3>3 DEF Holds, Slot
  <2> QED
    BY <2>2, <2>3
<1>5. op[t].pc \notin {"pump", "claim", "restore", "release", "unreserve"}
  BY DEF StepsMatchCalls
<1>6. ~StoreRecording(t)
  BY DEF StepsMatchCalls, StoreRecording, At
<1> QED
  BY <1>2, <1>3, <1>4, <1>5, <1>6, AnswersFrom

(* What the other calls answer while their session is live.                *)
LEMMA OthersAnswer ==
  ASSUME RuntimeInv, AttendedInv, NEW t \in Threads, Answers(t)
  PROVE  /\ op[t].call \notin {"cancel", "fail"} /\ op[t].pc # "nospeech"
         /\ op[t].call = "start" => op[t].pc = "store" /\ Holds("Arming", op[t].id)
         /\ op[t].call = "pump" => op[t].pc = "pump"
<1> Owns(op[t].id) /\ StepsMatchCalls
  BY ContinueKeepsSession DEF RuntimeInv, BasicInv, Answers, Owns
<1>1. op[t].pc # "discard"
  BY DEF AttendedInv, ReleasesAreLate
<1>2. \/ op[t].pc = "store" /\ Holds("Arming", op[t].id)
      \/ op[t].pc \in {"pump", "take", "keep", "claim", "restore", "release", "unreserve"}
  BY <1>1, AnswersFrom DEF StoreRecording, TakeRecording, StoreFinalized, At
<1> QED
  BY <1>2 DEF StepsMatchCalls

---------------------------------------------------------------------------
(* The page's sessions: who has the current one, when the page makes the   *)
(* calls and waits for the answer of one before the next.                  *)

DictatesAlone ==
  \A c, d \in Commands :
    cmd[c].call \in DictationCalls /\ cmd[d].call \in DictationCalls => d = c

(* The slot is as the dictation call in flight has it.                     *)
SlotOf(c) ==
  /\ Claimed(c, "start") => slot.state = "Preparing"
  /\ Claimed(c, "cancel") => slot = SlotIdle
  /\ Claimed(c, "finish") =>
       /\ slot.id = cmd[c].id
       /\ slot.state \in {"Finalizing", "AwaitingInsertion", "Inserting"}
       /\ cmd[c].pc = "begin_insertion" => slot.state = "AwaitingInsertion"
       /\ cmd[c].pc \in {"insert", "complete", "fail_insertion"} => slot.state = "Inserting"

SlotFollows ==
  /\ slot.state \notin {"Idle", "Recording"} =>
       \E c \in Commands : Claimed(c, "start") \/ Claimed(c, "finish")
  /\ \A c \in Commands : SlotOf(c)

(* During a start the service has no worker, ...                           *)
StartHasNoWorker ==
  control.start_in_flight =>
    /\ control.worker = NoPump
    /\ \E c \in Commands : cmd[c].pc \in InFlightSteps

(* ... and a worker is told to stop only by the call that takes it.        *)
WorkerUntold ==
  /\ control.worker # NoPump => ~pump[control.worker].stop
  /\ \A p \in Pumps : Exited(p) /\ ~pump[p].failed => pump[p].stop

(* A session is recording as long as it has a worker.                      *)
WorkedOn(s) ==
  \/ \E p \in Pumps : pump[p].id = s
  \/ \E c \in Commands : cmd[c].id = s /\ cmd[c].pc \in {"install", "finalize"}

RecordingWorked == Live /\ WorkedOn(current.id) => current.state = "Recording"

(* A worker fails only on a session that is being cancelled.               *)
Cancelling(c) == cmd[c].id = current.id /\ cmd[c].pc \in {"cancelling", "abandoning"}

FailureAttended ==
  \A p \in Pumps : pump[p].failed /\ pump[p].id = current.id /\ Live =>
    \E c \in Commands : Cancelling(c)

(* The calls that will end the current session or give it a worker, ...    *)
AttendSteps ==
  {"starting", "install", "abandon", "abandoning", "join", "finalize", "finalizing",
   "transcribe", "transcribing", "fail_recognition", "failing", "await", "begin_insertion",
   "insert", "complete", "deliver", "fail_insertion", "fail_delivery", "cancel_join",
   "cancel_session", "cancelling"}

Attends(c) == cmd[c].id = current.id /\ cmd[c].pc \in AttendSteps

(* ... and those on their way to or from its worker.                       *)
Approaches(c) ==
  /\ cmd[c].id = current.id
  /\ \/ cmd[c].pc = "occupy"
     \/ cmd[c].call = "finish" /\ cmd[c].pc = "take"
     \/ cmd[c].call = "cancel" /\ cmd[c].pc = "cancel_capture"

Reachable ==
  \/ current.id \in tests
  \/ slot = In("Recording", current.id)
  \/ \E c \in Commands : Approaches(c)

(* A live session is attended to, or a call can get at its worker.         *)
SessionHeld ==
  Live => \/ \E c \in Commands : Attends(c)
          \/ HasWorker(current.id) /\ Reachable

PageInv ==
  /\ InsertionInv
  /\ DictatesAlone
  /\ SlotFollows
  /\ StartHasNoWorker
  /\ WorkerUntold
  /\ RecordingWorked
  /\ FailureAttended
  /\ SessionHeld

---------------------------------------------------------------------------
(* The page's sessions: what a step does to the calls.                     *)

(* What a step that begins a session, or not, does to it.                  *)
LEMMA ActsKeepSession ==
  ASSUME BasicInv, NEW t \in Threads, Acts(t), ~BeginRecording(t)
  PROVE  /\ current'.id = current.id
         /\ Live' => Live
         /\ \/ \E s : FinalizeRecording(t, s)
            \/ Live' /\ current.state = "Recording" => current'.state = "Recording"
<1> LifecycleTypeOK
  BY DEF BasicInv, TypeOK
<1>1. CASE UNCHANGED <<next_id, current>>
  BY <1>1 DEF Live
<1>2. CASE Continue(t)
  BY <1>2, ContinueKeepsSession
<1>3. ASSUME NEW s, FinalizeRecording(t, s)
      PROVE  current'.id = current.id /\ (Live' => Live)
  <2>1. Submit(s, "RecordingStopped", "None")
    BY <1>3 DEF FinalizeRecording
  <2> QED
    BY <2>1 DEF Submit, Submittable, Accepts, Source, Live, Terminal, LifecycleTypeOK
<1>4. CASE InsertionDelivered(t, cmd[t].id)
  <2>1. Submit(cmd[t].id, "InsertionDelivered", "None")
    BY <1>4 DEF InsertionDelivered
  <2> QED
    BY <2>1 DEF Submit, Target, Live, Terminal, LifecycleTypeOK
<1> QED
  BY <1>1, <1>2, <1>3, <1>4 DEF Acts

LEMMA BeginEffect ==
  ASSUME NEW t \in Threads, BeginRecording(t)
  PROVE  ~Live /\ Live' /\ current'.id = next_id /\ current'.state = "Arming"
BY DEF BeginRecording, Begin, CanBegin, Live, Terminal

LEMMA DrainActs ==
  ASSUME DisciplineInv, NEW p \in Pumps, Drain(p)
  PROVE  /\ UNCHANGED <<control, slot, cmd, tests, caller>>
         /\ Acts(p) /\ ~BeginRecording(p) /\ ~\E s : FinalizeRecording(p, s)
<1> p \in Threads /\ op \in [Threads -> OpType] /\ BasicInv
  BY ThreadsApart DEF DisciplineInv, BasicInv, TypeOK, OpType
<1>1. UNCHANGED <<control, slot, cmd, tests, caller>>
  BY DEF Drain, PumpCall, PumpStep, PumpCheck, PumpWait, pumpFrame
<1>2. CASE Continue(p)
  <2>1. op[p].call # "none"
    BY <1>2, ContinueEffect
  <2> QED
    BY <1>1, <1>2, <2>1 DEF Acts, BeginRecording, FinalizeRecording, Free
<1>3. CASE UNCHANGED vars
  <2>1. next_id' = next_id /\ current' = current /\ op' = op
    BY <1>3 DEF vars
  <2>2. ~BeginRecording(p)
    BY <2>1 DEF BeginRecording, Begin, BasicInv, TypeOK, LifecycleTypeOK
  <2>3. ASSUME NEW s, FinalizeRecording(p, s) PROVE FALSE
    BY <2>1, <2>3, EnterEffect DEF FinalizeRecording, Free
  <2> QED
    BY <1>1, <2>1, <2>2, <2>3 DEF Acts
<1>4. CASE PumpRecording(p, pump[p].id)
  <2>1. UNCHANGED <<next_id, current>>
    BY <1>4 DEF PumpRecording, lifecycleVars
  <2>2. Others(p) /\ op'[p].pc = "pump"
    BY <1>4, EnterEffect DEF PumpRecording
  <2>3. ~BeginRecording(p)
    BY <2>1 DEF BeginRecording, Begin, BasicInv, TypeOK, LifecycleTypeOK
  <2>4. ASSUME NEW s, FinalizeRecording(p, s) PROVE FALSE
    BY <2>2, <2>4, EnterEffect DEF FinalizeRecording
  <2> QED
    BY <1>1, <2>1, <2>2, <2>3, <2>4 DEF Acts
<1> QED
  BY <1>2, <1>3, <1>4 DEF Drain, PumpCall, PumpStep, PumpCheck, PumpWait

(* A call that begins a session, or cannot.                                *)
LEMMA BeginsEffect ==
  ASSUME DisciplineInv, NEW c \in Commands, Begins(c)
  PROVE  /\ cmd[c].pc = "begin" /\ cmd[c].call \in StartCalls
         /\ UNCHANGED <<control, pump, slot, caller>>
         /\ OthersWait(c) /\ cmd'[c].call = cmd[c].call
         /\ tests \subseteq tests'
         /\ \/ BeginRecording(c) /\ cmd'[c].pc = "starting" /\ cmd'[c].id = next_id
            \/ UNCHANGED vars /\ cmd'[c].pc = "uninstall" /\ cmd'[c].id = cmd[c].id
<1> cmd \in [Commands -> CmdType]
  BY DEF DisciplineInv, ServiceTypes
<1>1. cmd[c].pc = "begin" /\ cmd[c].call \in StartCalls /\ UNCHANGED <<control, pump, slot, caller>>
  BY CallsOfSteps DEF Begins, Doing, serviceFrame, StartSteps, DisciplineInv
<1>2. CASE Step(c, "uninstall") /\ UNCHANGED <<vars, tests>>
  <2>1. OthersWait(c) /\ Goes(c, "uninstall")
    BY <1>2, StepEffect
  <2>2. cmd'[c].call = cmd[c].call /\ cmd'[c].pc = "uninstall" /\ cmd'[c].id = cmd[c].id
    BY <2>1 DEF Goes, CmdType
  <2> QED
    BY <1>1, <1>2, <2>1, <2>2
<1>3. CASE /\ BeginRecording(c)
           /\ cmd' = [cmd EXCEPT ![c].pc = "starting", ![c].id = next_id]
           /\ tests' = IF cmd[c].call = "test" THEN tests \cup {next_id} ELSE tests
  <2>1. OthersWait(c)
    BY <1>3 DEF OthersWait
  <2>2. cmd'[c].call = cmd[c].call /\ cmd'[c].pc = "starting" /\ cmd'[c].id = next_id
    BY <1>3 DEF CmdType
  <2> QED
    BY <1>1, <1>3, <2>1, <2>2
<1> QED
  BY <1>2, <1>3 DEF Begins

(* Where the other steps of a call lead.                                   *)
OnwardSteps ==
  {"begin", "starting", "install", "uninstall", "abandon", "abandoning", "occupy", "reset",
   "join", "finalize", "finalizing", "transcribe", "transcribing", "fail_recognition",
   "failing", "await", "cancel_join", "cancel_session", "cancelling"}

OnwardTo(c, step) ==
  cmd'[c].call = cmd[c].call /\ cmd'[c].id = cmd[c].id /\ cmd'[c].pc = step

OnwardFinally(c) == cmd'[c] = NoCall /\ cmd[c].call \notin DictationCalls

LEMMA StepLeads ==
  ASSUME cmd \in [Commands -> CmdType], NEW c \in Commands, NEW step, Step(c, step)
  PROVE  IF step # "leave" THEN OnwardTo(c, step) ELSE OnwardTo(c, "reset") \/ OnwardFinally(c)
<1>1. CASE step # "leave"
  <2>1. Goes(c, step)
    BY <1>1, StepEffect
  <2> QED
    BY <1>1, <2>1 DEF Goes, OnwardTo, CmdType
<1>2. CASE step = "leave"
  <2>1. Leaves(c)
    BY <1>2, StepEffect
  <2> QED
    BY <1>2, <2>1 DEF Leaves, Goes, Ends, OnwardTo, OnwardFinally, CmdType
<1> QED
  BY <1>1, <1>2

LEMMA OnwardLeads ==
  ASSUME DisciplineInv, NEW c \in Commands, Onward(c)
  PROVE  OnwardFinally(c) \/ \E step \in OnwardSteps : OnwardTo(c, step)
<1> cmd \in [Commands -> CmdType] /\ ServiceTypes /\ c \in Threads /\ BasicInv /\ CommandsFit
  BY ThreadsApart DEF DisciplineInv, ServiceTypes
<1>1. ASSUME NEW step \in OnwardSteps \cup {"leave"}, Step(c, step)
      PROVE  OnwardFinally(c) \/ \E s \in OnwardSteps : OnwardTo(c, s)
  <2>1. "reset" \in OnwardSteps
    BY DEF OnwardSteps
  <2> QED
    BY <1>1, <2>1, StepLeads
<1>2. CASE ClaimCapture(c)
  <2>1. Step(c, "leave") \/ Step(c, "begin")
    BY <1>2 DEF ClaimCapture
  <2> QED
    BY <1>1, <2>1 DEF OnwardSteps
<1>3. CASE GivesUp(c) \/ TakeRefused(c)
  <2>1. Step(c, "leave") \/ Step(c, "abandon") \/ Step(c, "cancel_session")
    BY <1>3 DEF GivesUp, TakeRefused
  <2> QED
    BY <1>1, <2>1 DEF OnwardSteps
<1>4. ASSUME NEW p \in Pumps, Spawns(c, p)
      PROVE  OnwardFinally(c) \/ \E step \in OnwardSteps : OnwardTo(c, step)
  <2>1. cmd[c].call \in {"start", "test"}
    BY <1>4, CallsOfSteps DEF Spawns, StartSteps, StartCalls
  <2>2. CASE Step(c, "occupy")
    BY <1>1, <2>2 DEF OnwardSteps
  <2>3. CASE Done(c) /\ cmd[c].call # "start"
    BY <2>1, <2>3, DoneEffect DEF Ends, OnwardFinally, DictationCalls
  <2> QED
    BY <1>4, <2>2, <2>3 DEF Spawns
<1>5. ASSUME NEW step \in {"join", "cancel_join"}, Takes(c, step)
      PROVE  \E s \in OnwardSteps : OnwardTo(c, s)
  <2>1. OnwardTo(c, step)
    BY <1>5 DEF Takes, TakeWorker, OnwardTo, CmdType
  <2> QED
    BY <2>1 DEF OnwardSteps
<1>6. CASE Join(c)
  <2>1. CASE Done(c) /\ cmd[c].call \notin DictationCalls
    BY <2>1, DoneEffect DEF Ends, OnwardFinally
  <2>2. ASSUME NEW step \in {"reset", "finalize", "cancel_session"},
               cmd' = [cmd EXCEPT ![c].pump = NoPump, ![c].pc = step]
        PROVE  \E s \in OnwardSteps : OnwardTo(c, s)
    <3>1. OnwardTo(c, step)
      BY <2>2 DEF OnwardTo, CmdType
    <3> QED
      BY <3>1 DEF OnwardSteps
  <2>3. cmd[c].pc \in {"join", "cancel_join"}
    BY <1>6 DEF Join, Joined
  <2>4. Joined[cmd[c].pc] \in {"finalize", "cancel_session"}
    BY <2>3 DEF Joined
  <2> QED
    BY <1>6, <2>1, <2>2, <2>4 DEF Join
<1>7. CASE Refused(c) \/ Deliver(c)
  <2>1. Step(c, "leave") \/ Step(c, "fail_recognition") \/ Step(c, "reset")
    BY <1>7 DEF Refused, Deliver
  <2> QED
    BY <1>1, <2>1 DEF OnwardSteps
<1>8. CASE RuntimeStep(c)
  <2>1. cmd[c].pc \in DOMAIN CallAt
    <3>1. op[c].call # "none"
      BY <1>8, ContinueEffect DEF RuntimeStep
    <3> QED
      BY <3>1 DEF DisciplineInv, OpsFollow, CommandFollows
  <2>2. CASE cmd' = cmd
    <3>1. cmd[c].pc \in OnwardSteps
      BY <2>1 DEF CallAt, OnwardSteps
    <3> QED
      BY <2>2, <3>1 DEF OnwardTo
  <2>3. CASE Step(c, Resume(c))
    <3>1. Resume(c) \in OnwardSteps \cup {"leave"}
      BY <2>1, ResumeSteps DEF CallAt, OnwardSteps
    <3> QED
      BY <1>1, <2>3, <3>1
  <2> QED
    BY <1>8, <2>2, <2>3 DEF RuntimeStep
<1>9. ASSUME NEW step \in DOMAIN EnteredFrom, EntersFor(c, step)
      PROVE  OnwardFinally(c) \/ \E s \in OnwardSteps : OnwardTo(c, s)
  <2>1. step \in OnwardSteps
    BY DEF EnteredFrom, OnwardSteps
  <2> QED
    BY <1>1, <1>9, <2>1 DEF EntersFor
<1> QED
  BY <1>2, <1>3, <1>4, <1>5, <1>6, <1>7, <1>8, <1>9 DEF Onward

(* The page's calls stay alone.                                            *)
LEMMA DictationStaysAlone ==
  ASSUME PageInv, caller = "page", DesktopNext
  PROVE  DictatesAlone'
<1> DisciplineInv /\ ServiceTypes /\ CommandsFit /\ DictatesAlone
  BY DEF PageInv, InsertionInv, DisciplineInv
<1>1. ASSUME \A d \in Commands : cmd'[d] = NoCall \/ cmd'[d].call = cmd[d].call
      PROVE  DictatesAlone'
  BY <1>1 DEF DictatesAlone, NoCall, DictationCalls
<1>2. ASSUME NEW c \in Commands, Command(c) PROVE DictatesAlone'
  <2>1. PICK call, s : call \in Offered /\ Accept(c, call, s)
    BY <1>2 DEF Command
  <2>2. OthersWait(c) /\ cmd'[c].call = call /\ MayDictate(call)
    BY <2>1 DEF Accept, OthersWait, NoCall, ServiceTypes
  <2>3. call \in DictationCalls => \A d \in Commands : cmd[d].call \notin DictationCalls
    BY <2>2 DEF MayDictate
  <2> QED
    BY <2>2, <2>3 DEF DictatesAlone, OthersWait
<1>3. ASSUME NEW c \in Commands, SlotMove(c) PROVE DictatesAlone'
  <2>1. OthersWait(c) /\ SlotMoves(c)
    BY <1>3, SlotMoveEffect
  <2>2. cmd'[c] = NoCall \/ cmd'[c].call = cmd[c].call
    BY <2>1 DEF SlotMoves, Goes, Ends, ServiceTypes, CmdType
  <2> QED
    BY <1>1, <2>1, <2>2 DEF OthersWait
<1>4. ASSUME NEW c \in Commands, Begins(c) PROVE DictatesAlone'
  BY <1>1, <1>4, BeginsEffect DEF OthersWait
<1>5. ASSUME NEW c \in Commands, Onward(c) PROVE DictatesAlone'
  BY <1>1, <1>5, OnwardGoesOn DEF GoesOn, OthersWait
<1>6. ASSUME NEW p \in Pumps, Drain(p) PROVE DictatesAlone'
  BY <1>1, <1>6, DrainActs
<1> QED
  BY <1>2, <1>3, <1>4, <1>5, <1>6, ServeIsOnward DEF DesktopNext

---------------------------------------------------------------------------
(* The page's sessions: the slot follows the dictation call.               *)

(* The calls are as they were with the slot.                               *)
LEMMA SlotStaysFollowed ==
  ASSUME SlotFollows, NEW c \in Commands, OthersWait(c), UNCHANGED slot,
         Claimed(c, "start") => Claimed(c, "start")',
         Claimed(c, "finish") => Claimed(c, "finish")',
         SlotOf(c)'
  PROVE  SlotFollows'
<1>1. \A d \in Commands : SlotOf(d)'
  BY DEF SlotFollows, SlotOf, OthersWait, Claimed
<1>2. slot'.state \notin {"Idle", "Recording"} =>
        \E d \in Commands : Claimed(d, "start")' \/ Claimed(d, "finish")'
  BY DEF SlotFollows, OthersWait, Claimed
<1> QED
  BY <1>1, <1>2 DEF SlotFollows

(* The steps of the slot that the page's calls take.                       *)
PageSlotMoves(c) ==
  \/ Doing(c, "claim") /\ cmd[c].call = "start"
       /\ slot = SlotIdle /\ slot' = In("Preparing", 0) /\ Goes(c, "load")
  \/ Doing(c, "claim") /\ UNCHANGED slot /\ Ends(c)
  \/ Doing(c, "load") /\ UNCHANGED slot /\ (Goes(c, "capture") \/ Goes(c, "reset"))
  \/ Doing(c, "occupy") /\ slot.state = "Preparing" /\ Gives(c, "Recording") /\ Ends(c)
  \/ Doing(c, "claim") /\ cmd[c].call = "finish"
       /\ slot = In("Recording", cmd[c].id) /\ Gives(c, "Finalizing") /\ Goes(c, "take")
  \/ Doing(c, "await") /\ Gives(c, "AwaitingInsertion") /\ Goes(c, "begin_insertion")
  \/ Doing(c, "begin_insertion") /\ Gives(c, "Inserting") /\ Goes(c, "insert")
  \/ Doing(c, "insert") /\ UNCHANGED slot /\ (Goes(c, "complete") \/ Goes(c, "fail_insertion"))
  \/ Doing(c, "complete") /\ UNCHANGED slot /\ Goes(c, "deliver")
  \/ Doing(c, "fail_insertion") /\ UNCHANGED slot /\ Goes(c, "fail_delivery")
  \/ Doing(c, "claim") /\ cmd[c].call = "cancel"
       /\ slot = In("Recording", cmd[c].id) /\ slot' = SlotIdle /\ Goes(c, "cancel_capture")
  \/ Doing(c, "reset") /\ slot' = SlotIdle /\ Ends(c)

LEMMA PageSlotMoved ==
  ASSUME DisciplineInv, DictatesAlone, SlotFollows, NEW c \in Commands, SlotMove(c)
  PROVE  PageSlotMoves(c) /\ cmd[c].call \in DictationCalls
<1> ServiceTypes /\ CommandsFit
  BY DEF DisciplineInv
<1>1. SlotMoves(c)
  BY SlotMoveEffect
<1>2. cmd[c].call \in DictationCalls
  <2>1. cmd[c].pc \in {"claim", "load", "occupy", "await", "begin_insertion", "insert", "complete",
                       "fail_insertion", "reset"}
    BY <1>1 DEF SlotMoves, Doing
  <2> QED
    BY <2>1, CallsOfSteps DEF DictationCalls
<1>3. slot = [state |-> slot.state, id |-> slot.id]
  BY DEF ServiceTypes, SlotType
<1>4. cmd[c].pc \in {"begin_insertion", "insert", "complete", "fail_insertion"} =>
        Claimed(c, "finish")
  BY CallsOfSteps DEF Claimed
<1>5. Doing(c, "begin_insertion") => slot = In("AwaitingInsertion", cmd[c].id)
  BY <1>3, <1>4 DEF SlotFollows, SlotOf, Doing, In
<1>6. cmd[c].pc \in {"complete", "fail_insertion"} => slot = In("Inserting", cmd[c].id)
  BY <1>3, <1>4 DEF SlotFollows, SlotOf, Doing, In
<1>7. Doing(c, "occupy") => slot.state = "Preparing"
  BY CallsOfSteps DEF SlotFollows, SlotOf, Doing, Claimed
<1>8. Doing(c, "claim") => slot.state \in {"Idle", "Recording"}
  <2> SUFFICES ASSUME Doing(c, "claim"), slot.state \notin {"Idle", "Recording"} PROVE FALSE
    OBVIOUS
  <2>1. PICK d \in Commands : Claimed(d, "start") \/ Claimed(d, "finish")
    BY DEF SlotFollows
  <2>2. d = c
    BY <1>2, <2>1 DEF DictatesAlone, Claimed, DictationCalls
  <2> QED
    BY <2>1, <2>2 DEF Claimed, Doing
<1>9. Doing(c, "claim") => slot # In("AwaitingInsertion", cmd[c].id)
  BY <1>8 DEF In
<1> QED
  BY <1>1, <1>2, <1>5, <1>6, <1>7, <1>9 DEF SlotMoves, PageSlotMoves

LEMMA SlotMoveIsFollowed ==
  ASSUME DisciplineInv, DictatesAlone, SlotFollows, NEW c \in Commands, SlotMove(c)
  PROVE  SlotFollows'
<1> ServiceTypes /\ CommandsFit /\ cmd \in [Commands -> CmdType]
  BY DEF DisciplineInv, ServiceTypes
<1>1. OthersWait(c) /\ PageSlotMoves(c) /\ cmd[c].call \in DictationCalls
  BY SlotMoveEffect, PageSlotMoved
<1>2. \A d \in Commands \ {c} : cmd'[d].call \notin DictationCalls
  BY <1>1 DEF DictatesAlone, OthersWait
<1>3. \A d \in Commands \ {c} : SlotOf(d)'
  BY <1>2 DEF SlotOf, Claimed, DictationCalls
<1>4. \A step : Goes(c, step) => /\ cmd'[c].call = cmd[c].call /\ cmd'[c].id = cmd[c].id
                                 /\ cmd'[c].pc = step
  BY DEF Goes, CmdType
<1>5. Ends(c) => cmd'[c].call = "none"
  BY DEF Ends, NoCall
<1>6. SlotOf(c)
  BY DEF SlotFollows
<1>7. cmd[c].pc \in {"load", "occupy"} => cmd[c].call = "start"
  BY CallsOfSteps
<1>8. cmd[c].pc \in {"await", "begin_insertion", "insert", "complete", "fail_insertion"} =>
        cmd[c].call = "finish"
  BY CallsOfSteps
<1> SUFFICES SlotOf(c)' /\ (slot'.state \notin {"Idle", "Recording"} =>
                               Claimed(c, "start")' \/ Claimed(c, "finish")')
  BY <1>3 DEF SlotFollows
<1> USE DEF Claimed, Doing, In
<1>9. CASE Doing(c, "claim")
  <2>1. CASE /\ cmd[c].call = "start" /\ slot' = In("Preparing", 0) /\ Goes(c, "load")
    BY <1>4, <2>1 DEF SlotOf
  <2>2. CASE UNCHANGED slot /\ Ends(c)
    <3>1. slot.state \in {"Idle", "Recording"}
      BY <1>1, <1>9 DEF SlotFollows, DictatesAlone, DictationCalls
    <3> QED
      BY <1>5, <2>2, <3>1 DEF SlotOf
  <2>3. CASE cmd[c].call = "finish" /\ Gives(c, "Finalizing") /\ Goes(c, "take")
    BY <1>4, <2>3 DEF SlotOf, Gives
  <2>4. CASE cmd[c].call = "cancel" /\ slot' = SlotIdle /\ Goes(c, "cancel_capture")
    BY <1>4, <2>4 DEF SlotOf, SlotIdle
  <2> QED
    BY <1>1, <1>9, <2>1, <2>2, <2>3, <2>4 DEF PageSlotMoves
<1>10. CASE cmd[c].pc = "load"
  <2>1. UNCHANGED slot /\ (Goes(c, "capture") \/ Goes(c, "reset"))
    BY <1>1, <1>10 DEF PageSlotMoves
  <2> QED
    BY <1>4, <1>6, <1>7, <1>10, <2>1 DEF SlotOf
<1>11. CASE cmd[c].pc \in {"occupy", "reset"}
  <2>1. Ends(c) /\ (Gives(c, "Recording") \/ slot' = SlotIdle)
    BY <1>1, <1>11 DEF PageSlotMoves
  <2> QED
    BY <1>5, <2>1 DEF SlotOf, Gives, SlotIdle
<1>12. CASE cmd[c].pc = "await"
  <2>1. Gives(c, "AwaitingInsertion") /\ Goes(c, "begin_insertion")
    BY <1>1, <1>12 DEF PageSlotMoves
  <2> QED
    BY <1>4, <1>8, <1>12, <2>1 DEF SlotOf, Gives
<1>13. CASE cmd[c].pc = "begin_insertion"
  <2>1. Gives(c, "Inserting") /\ Goes(c, "insert")
    BY <1>1, <1>13 DEF PageSlotMoves
  <2> QED
    BY <1>4, <1>8, <1>13, <2>1 DEF SlotOf, Gives
<1>14. CASE cmd[c].pc \in {"insert", "complete", "fail_insertion"}
  <2>1. /\ UNCHANGED slot
        /\ \E step \in {"complete", "fail_insertion", "deliver", "fail_delivery"} : Goes(c, step)
    BY <1>1, <1>14 DEF PageSlotMoves
  <2> QED
    BY <1>4, <1>6, <1>8, <1>14, <2>1 DEF SlotOf
<1> QED
  BY <1>1, <1>9, <1>10, <1>11, <1>12, <1>13, <1>14 DEF PageSlotMoves

LEMMA SlotStillFollows ==
  ASSUME PageInv, caller = "page", DesktopNext
  PROVE  SlotFollows'
<1> DisciplineInv /\ ServiceTypes /\ CommandsFit /\ DictatesAlone /\ SlotFollows
      /\ cmd \in [Commands -> CmdType]
  BY DEF PageInv, InsertionInv, DisciplineInv, ServiceTypes
<1>1. ASSUME NEW c \in Commands, Command(c) PROVE SlotFollows'
  <2>1. PICK call, s : call \in Offered /\ Accept(c, call, s)
    BY <1>1 DEF Command
  <2>2. /\ OthersWait(c) /\ cmd'[c].call = call /\ cmd'[c].pc = FirstStep[call]
        /\ cmd[c] = NoCall /\ UNCHANGED slot
    BY <2>1 DEF Accept, OthersWait, NoCall
  <2>3. ~Claimed(c, "start") /\ ~Claimed(c, "finish")
    BY <2>2 DEF Claimed, NoCall
  <2>4. SlotOf(c)'
    BY <2>2 DEF SlotOf, Claimed, FirstStep
  <2> QED
    BY <2>2, <2>3, <2>4, SlotStaysFollowed
<1>2. ASSUME NEW c \in Commands, Begins(c) PROVE SlotFollows'
  <2>1. /\ OthersWait(c) /\ UNCHANGED slot /\ cmd'[c].call = cmd[c].call
        /\ cmd[c].pc = "begin" /\ cmd'[c].pc \in {"starting", "uninstall"}
        /\ cmd[c].call \in StartCalls
    BY <1>2, BeginsEffect
  <2>2. SlotOf(c)' /\ (Claimed(c, "start") => Claimed(c, "start")') /\ ~Claimed(c, "finish")
    BY <2>1 DEF SlotFollows, SlotOf, Claimed, StartCalls
  <2> QED
    BY <2>1, <2>2, SlotStaysFollowed
<1>3. ASSUME NEW c \in Commands, Onward(c) PROVE SlotFollows'
  <2>1. OthersWait(c) /\ UNCHANGED slot /\ cmd[c].pc # "claim"
    BY <1>3, OnwardGoesOn, OnwardFrom DEF GoesOn
  <2>2. CASE OnwardFinally(c)
    <3>1. ~Claimed(c, "start") /\ ~Claimed(c, "finish") /\ SlotOf(c)'
      BY <2>2 DEF OnwardFinally, Claimed, NoCall, SlotOf, DictationCalls
    <3> QED
      BY <2>1, <3>1, SlotStaysFollowed
  <2>3. ASSUME NEW step \in OnwardSteps, OnwardTo(c, step) PROVE SlotFollows'
    <3>1. /\ cmd'[c].call = cmd[c].call /\ cmd'[c].id = cmd[c].id
          /\ cmd'[c].pc \notin {"claim", "begin_insertion", "insert", "complete", "fail_insertion"}
      BY <2>3 DEF OnwardTo, OnwardSteps
    <3>2. \A call : Claimed(c, call) <=> Claimed(c, call)'
      BY <2>1, <3>1 DEF Claimed
    <3>3. SlotOf(c)
      BY DEF SlotFollows
    <3>4. SlotOf(c)'
      BY <2>1, <3>1, <3>2, <3>3 DEF SlotOf
    <3> QED
      BY <2>1, <3>2, <3>4, SlotStaysFollowed
  <2> QED
    BY <1>3, <2>2, <2>3, OnwardLeads
<1>4. ASSUME NEW p \in Pumps, Drain(p) PROVE SlotFollows'
  BY <1>4, DrainActs DEF SlotFollows, SlotOf, Claimed
<1> QED
  BY <1>1, <1>2, <1>3, <1>4, SlotMoveIsFollowed, ServeIsOnward DEF DesktopNext

---------------------------------------------------------------------------
(* The page's sessions: the worker and the start in flight.                *)

(* Only these steps touch the capture service.                             *)
LEMMA OnwardControls ==
  ASSUME NEW c \in Commands, Onward(c)
  PROVE  \/ ClaimCapture(c) \/ GivesUp(c) \/ Join(c)
         \/ \E p \in Pumps : Spawns(c, p)
         \/ \E step : Takes(c, step)
         \/ UNCHANGED <<control, pump>>
BY DEF Onward, TakeRefused, Refused, Deliver, RuntimeStep, EntersFor, serviceUnchanged, serviceFrame

(* A start in flight goes on until it has its worker or gives up.          *)
LEMMA StartStaysInFlight ==
  ASSUME DisciplineInv, NEW c \in Commands, SlotMove(c) \/ Begins(c) \/ Onward(c),
         cmd[c].pc \in InFlightSteps, control'.start_in_flight, control.start_in_flight
  PROVE  cmd'[c].pc \in InFlightSteps
<1> cmd \in [Commands -> CmdType] /\ ServiceTypes /\ CommandsFit
  BY DEF DisciplineInv, ServiceTypes
<1> USE DEF InFlightSteps
<1>1. ~SlotMove(c)
  BY DEF SlotMove, ClaimStart, Load, Occupy, ClaimFinish, AwaitInsertion, BeginInsertion,
         InsertText, EnsureInserting, ClaimCancel, Reset, Doing
<1>2. CASE Begins(c)
  BY <1>2, BeginsEffect
<1>3. ~ClaimCapture(c) /\ ~Join(c) /\ ~TakeRefused(c) /\ ~Refused(c) /\ ~Deliver(c)
  BY DEF ClaimCapture, Join, Joined, TakeRefused, Refused, Deliver, Doing
<1>4. \A step : ~Takes(c, step)
  BY DEF Takes
<1>5. \A p \in Pumps : ~Spawns(c, p)
  BY DEF Spawns
<1>6. ~GivesUp(c)
  BY DEF GivesUp, ServiceTypes, ControlType
<1>7. \A step \in DOMAIN EnteredFrom : ~EntersFor(c, step)
  BY DEF EntersFor, EnteredFrom
<1>8. CASE RuntimeStep(c)
  <2>1. cmd[c].pc \in DOMAIN CallAt
    <3>1. op[c].call # "none"
      BY <1>8, ContinueEffect, ThreadsApart DEF RuntimeStep, DisciplineInv
    <3> QED
      BY <3>1 DEF DisciplineInv, OpsFollow, CommandFollows
  <2>2. cmd[c].pc = "starting"
    BY <2>1 DEF CallAt
  <2>3. CASE cmd' = cmd
    BY <2>3
  <2>4. CASE Step(c, Resume(c))
    <3>1. Resume(c) \in {"install", "uninstall"}
      BY <2>2, ResumeSteps
    <3> QED
      BY <2>4, <3>1, StepLeads DEF OnwardTo
  <2> QED
    BY <1>8, <2>3, <2>4 DEF RuntimeStep
<1> QED
  BY <1>1, <1>2, <1>3, <1>4, <1>5, <1>6, <1>7, <1>8 DEF Onward

LEMMA StartStaysWithoutWorker ==
  ASSUME DisciplineInv, StartHasNoWorker, DesktopNext
  PROVE  StartHasNoWorker'
<1> cmd \in [Commands -> CmdType] /\ ServiceTypes /\ CommandsFit /\ control \in ControlType
  BY DEF DisciplineInv, ServiceTypes
<1> SUFFICES ASSUME control'.start_in_flight
             PROVE  control'.worker = NoPump /\ \E c \in Commands : cmd'[c].pc \in InFlightSteps
  BY DEF StartHasNoWorker
<1>1. ASSUME NEW c \in Commands, OthersWait(c), control.start_in_flight,
             control'.worker \in {control.worker, NoPump},
             cmd[c].pc \in InFlightSteps => cmd'[c].pc \in InFlightSteps
      PROVE  control'.worker = NoPump /\ \E d \in Commands : cmd'[d].pc \in InFlightSteps
  BY <1>1 DEF StartHasNoWorker, OthersWait
<1>2. ASSUME NEW c \in Commands, Command(c) PROVE StartHasNoWorker'
  <2>1. UNCHANGED control /\ OthersWait(c) /\ cmd[c] = NoCall
    BY <1>2 DEF Command, Accept, OthersWait
  <2> QED
    BY <1>1, <2>1 DEF NoCall, InFlightSteps, StartHasNoWorker
<1>3. ASSUME NEW c \in Commands, SlotMove(c) PROVE StartHasNoWorker'
  <2>1. UNCHANGED control /\ OthersWait(c)
    BY <1>3, SlotMoveEffect
  <2> QED
    BY <1>1, <1>3, <2>1, StartStaysInFlight DEF StartHasNoWorker
<1>4. ASSUME NEW c \in Commands, Begins(c) PROVE StartHasNoWorker'
  <2>1. UNCHANGED control /\ OthersWait(c)
    BY <1>4, BeginsEffect
  <2> QED
    BY <1>1, <1>4, <2>1, StartStaysInFlight DEF StartHasNoWorker
<1>5. ASSUME NEW c \in Commands, Onward(c) PROVE StartHasNoWorker'
  <2>1. OthersWait(c)
    BY <1>5, OnwardGoesOn DEF GoesOn
  <2>2. CASE ClaimCapture(c)
    <3>1. cmd[c].pc = "capture"
      BY <2>2 DEF ClaimCapture, Doing
    <3>2. CASE Step(c, "begin") /\ control' = [start_in_flight |-> TRUE, worker |-> NoPump]
      <4>1. cmd'[c].pc = "begin" /\ control'.worker = NoPump
        BY <3>2, StepLeads DEF OnwardTo
      <4> QED
        BY <4>1 DEF StartHasNoWorker, InFlightSteps
    <3>3. CASE ~(Step(c, "begin") /\ control' = [start_in_flight |-> TRUE, worker |-> NoPump])
      <4>1. \E w \in {control.worker, NoPump} : control' = [control EXCEPT !.worker = w]
        BY <2>2, <3>3 DEF ClaimCapture
      <4>2. control'.worker \in {control.worker, NoPump} /\ control.start_in_flight
        BY <4>1 DEF ControlType
      <4> QED
        BY <1>1, <2>1, <3>1, <4>2 DEF InFlightSteps, StartHasNoWorker
    <3> QED
      BY <3>2, <3>3
  <2>3. CASE \/ GivesUp(c) \/ \E p \in Pumps : Spawns(c, p)
    BY <2>3 DEF GivesUp, Spawns, ControlType
  <2>4. CASE Join(c) \/ UNCHANGED <<control, pump>>
    <3>1. UNCHANGED control
      BY <2>4 DEF Join
    <3> QED
      BY <1>1, <1>5, <2>1, <3>1, StartStaysInFlight DEF StartHasNoWorker
  <2>5. ASSUME NEW step, Takes(c, step) PROVE StartHasNoWorker'
    <3>1. control' = [control EXCEPT !.worker = NoPump]
      BY <2>5 DEF Takes, TakeWorker
    <3>2. control'.worker = NoPump /\ control.start_in_flight
      BY <3>1 DEF ControlType
    <3> QED
      BY <1>1, <1>5, <2>1, <3>2, StartStaysInFlight DEF StartHasNoWorker
  <2> QED
    BY <1>5, <2>2, <2>3, <2>4, <2>5, OnwardControls
<1>6. ASSUME NEW p \in Pumps, Drain(p) PROVE StartHasNoWorker'
  BY <1>6, DrainActs DEF StartHasNoWorker
<1> QED
  BY <1>2, <1>3, <1>4, <1>5, <1>6, ServeIsOnward DEF DesktopNext, StartHasNoWorker

(* A worker that has exited was told to stop, or failed.                   *)
LEMMA WorkerStaysUntold ==
  ASSUME DisciplineInv, WorkerUntold, DesktopNext
  PROVE  WorkerUntold'
<1> /\ cmd \in [Commands -> CmdType] /\ ServiceTypes /\ CommandsFit /\ control \in ControlType
    /\ pump \in [Pumps -> PumpType] /\ WorkersClaimed
  BY DEF DisciplineInv, ServiceTypes
<1> USE DEF WorkerUntold, Exited
<1>1. UNCHANGED <<control, pump>> => WorkerUntold'
  OBVIOUS
<1>2. ASSUME NEW c \in Commands, Onward(c) PROVE WorkerUntold'
  <2>1. CASE ClaimCapture(c)
    <3>1. /\ \/ pump' = pump /\ control'.worker = control.worker
             \/ /\ control.worker \in Pumps /\ control'.worker = NoPump
                /\ \A p \in Pumps : pump'[p] = IF p = control.worker THEN NoWorker ELSE pump[p]
      BY <2>1, ClaimCaptureEffect
    <3> QED
      BY <3>1 DEF NoWorker
  <2>2. CASE GivesUp(c)
    <3>1. pump' = pump /\ control'.worker = control.worker
      BY <2>2 DEF GivesUp, ControlType
    <3> QED
      BY <3>1
  <2>3. CASE Join(c)
    <3>1. /\ UNCHANGED control /\ pump' = [pump EXCEPT ![cmd[c].pump] = NoWorker]
          /\ cmd[c].pc \in DOMAIN Joined
      BY <2>3 DEF Join
    <3>2. cmd[c].pump # control.worker
      BY <3>1 DEF CommandsFit, CommandFits, WorkersClaimed
    <3> QED
      BY <3>1, <3>2 DEF NoWorker, ControlType
  <2>4. ASSUME NEW p \in Pumps, Spawns(c, p) PROVE WorkerUntold'
    <3>1. /\ control'.worker = p
          /\ pump' = [pump EXCEPT ![p] = [NoWorker EXCEPT !.pc = "call", !.id = cmd[c].id]]
      BY <2>4 DEF Spawns
    <3>2. /\ pump'[p].pc = "call" /\ ~pump'[p].stop
          /\ \A q \in Pumps \ {p} : pump'[q] = pump[q]
      BY <3>1 DEF NoWorker
    <3> QED
      BY <3>1, <3>2
  <2>5. ASSUME NEW step, Takes(c, step) PROVE WorkerUntold'
    <3>1. /\ control' = [control EXCEPT !.worker = NoPump]
          /\ pump' = [pump EXCEPT ![control.worker].stop = TRUE]
      BY <2>5 DEF Takes, TakeWorker
    <3>2. control'.worker = NoPump
      BY <3>1 DEF ControlType
    <3>3. \A p \in Pumps : /\ pump'[p].pc = pump[p].pc /\ pump'[p].failed = pump[p].failed
                           /\ pump[p].stop => pump'[p].stop
      BY <3>1 DEF PumpType
    <3> QED
      BY <3>2, <3>3
  <2> QED
    BY <1>1, <1>2, <2>1, <2>2, <2>3, <2>4, <2>5, OnwardControls
<1>3. ASSUME NEW p \in Pumps, Drain(p) PROVE WorkerUntold'
  <2>1. UNCHANGED control
    BY <1>3, DrainActs
  <2>2. \/ UNCHANGED pump
        \/ PumpFails(p)
        \/ \E step \in {"pumping", "check", "wait", "call"} : PumpTo(p, step)
        \/ PumpTo(p, "exited") /\ pump[p].stop
    BY <1>3 DEF Drain, PumpCall, PumpStep, PumpCheck, PumpWait
  <2>3. /\ \A q \in Pumps \ {p} : pump'[q] = pump[q]
        /\ pump'[p].stop = pump[p].stop
        /\ \/ pump'[p] = pump[p]
           \/ pump'[p].failed
           \/ pump'[p].pc # "exited"
           \/ pump[p].stop
    BY <2>2 DEF PumpFails, PumpTo, PumpType
  <2>4. control.worker \in Pumps \cup {NoPump}
    BY DEF ControlType
  <2>5. control'.worker # NoPump => ~pump'[control'.worker].stop
    BY <2>1, <2>3, <2>4
  <2>6. \A q \in Pumps : pump'[q].pc = "exited" /\ ~pump'[q].failed => pump'[q].stop
    BY <2>3
  <2> QED
    BY <2>5, <2>6
<1>4. ASSUME NEW c \in Commands, Command(c) \/ SlotMove(c) \/ Begins(c) PROVE WorkerUntold'
  <2>1. UNCHANGED <<control, pump>>
    BY <1>4, SlotMoveEffect, BeginsEffect DEF Command, Accept
  <2> QED
    BY <1>1, <2>1
<1> QED
  BY <1>2, <1>3, <1>4, ServeIsOnward DEF DesktopNext

---------------------------------------------------------------------------
(* The page's sessions: recordings and their workers.                      *)

(* A call inside the runtime goes on there.                                *)
LEMMA InsideGoesOn ==
  ASSUME DisciplineInv, NEW c \in Commands, SlotMove(c) \/ Begins(c) \/ Onward(c),
         cmd[c].pc \in DOMAIN CallAt
  PROVE  /\ RuntimeStep(c) /\ Continue(c) /\ c \in Threads
         /\ op[c].call = CallAt[cmd[c].pc] /\ op[c].id = cmd[c].id
         /\ \/ op'[c] # Idle /\ cmd' = cmd
            \/ op'[c] = Idle /\ Step(c, Resume(c))
<1>1. cmd[c].pc \in {"starting", "finalizing", "transcribing", "failing", "cancelling", "abandoning"}
  BY DEF CallAt
<1>2. ~SlotMove(c)
  BY <1>1
  DEF SlotMove, ClaimStart, Load, Occupy, ClaimFinish, AwaitInsertion, BeginInsertion,
      InsertText, EnsureInserting, ClaimCancel, Reset, Doing
<1>3. ~Begins(c)
  BY <1>1 DEF Begins, Doing
<1>4. /\ ~ClaimCapture(c) /\ ~Join(c) /\ ~TakeRefused(c) /\ ~Refused(c) /\ ~Deliver(c)
      /\ ~GivesUp(c)
  BY <1>1 DEF ClaimCapture, Join, Joined, TakeRefused, Refused, Deliver, GivesUp, Doing
<1>5. \A step : ~Takes(c, step)
  BY <1>1 DEF Takes
<1>6. \A p \in Pumps : ~Spawns(c, p)
  BY <1>1 DEF Spawns
<1>7. \A step \in DOMAIN EnteredFrom : ~EntersFor(c, step)
  BY <1>1 DEF EntersFor, EnteredFrom
<1>8. RuntimeStep(c)
  BY <1>2, <1>3, <1>4, <1>5, <1>6, <1>7 DEF Onward
<1>9. op[c].call = CallAt[cmd[c].pc] /\ op[c].call # "none"
  BY <1>1 DEF DisciplineInv, OpsFollow, CommandFollows, CallAt
<1>10. op[c].id = cmd[c].id
  BY <1>9 DEF DisciplineInv, OpsFollow, CommandFollows
<1> QED
  BY <1>8, <1>9, <1>10, ThreadsApart DEF RuntimeStep

(* A cancel under way goes on until the session is over.                   *)
LEMMA CancellingStays ==
  ASSUME DisciplineInv, RuntimeInv, AttendedInv, NEW c \in Commands,
         SlotMove(c) \/ Begins(c) \/ Onward(c), OthersWait(c),
         NEW d \in Commands, Cancelling(d), Live', current'.id = current.id
  PROVE  Cancelling(d)'
<1>1. CASE d # c
  BY <1>1 DEF Cancelling, OthersWait
<1>2. CASE d = c
  <2>1. cmd[c].pc \in {"cancelling", "abandoning"} /\ cmd[c].id = current.id
    BY <1>2 DEF Cancelling
  <2>2. /\ Continue(c) /\ c \in Threads /\ op[c].call = "cancel" /\ op[c].id = current.id
        /\ op'[c] = Idle \/ cmd' = cmd
    BY <2>1, InsideGoesOn DEF CallAt
  <2>3. op'[c] # Idle
    BY <2>2, OthersAnswer DEF Answers
  <2> QED
    BY <1>2, <2>2, <2>3 DEF Cancelling
<1> QED
  BY <1>1, <1>2

(* The workers after a step of a command.                                  *)
LEMMA PumpsAfter ==
  ASSUME DisciplineInv, NEW c \in Commands, SlotMove(c) \/ Begins(c) \/ Onward(c),
         NEW p \in Pumps
  PROVE  /\ \/ pump'[p].id \in {pump[p].id, 0}
            \/ cmd[c].pc = "install" /\ pump'[p].id = cmd[c].id
         /\ pump'[p].failed => pump[p].failed /\ pump'[p].id = pump[p].id
<1> pump \in [Pumps -> PumpType] /\ ServiceTypes /\ CommandsFit
  BY DEF DisciplineInv, ServiceTypes
<1>1. CASE SlotMove(c) \/ Begins(c)
  BY <1>1, SlotMoveEffect, BeginsEffect
<1>2. CASE ClaimCapture(c)
  <2>1. pump'[p] \in {pump[p], NoWorker}
    BY <1>2, ClaimCaptureEffect
  <2> QED
    BY <2>1 DEF NoWorker
<1>3. CASE Join(c)
  <2>1. pump'[p] \in {pump[p], NoWorker}
    BY <1>3 DEF Join
  <2> QED
    BY <2>1 DEF NoWorker
<1>4. ASSUME NEW q \in Pumps, Spawns(c, q)
      PROVE  /\ pump'[p].id = pump[p].id \/ (cmd[c].pc = "install" /\ pump'[p].id = cmd[c].id)
             /\ pump'[p].failed => pump[p].failed /\ pump'[p].id = pump[p].id
  BY <1>4 DEF Spawns, NoWorker
<1>5. ASSUME NEW step, Takes(c, step)
      PROVE  pump'[p].id = pump[p].id /\ pump'[p].failed = pump[p].failed
  BY <1>5 DEF Takes, TakeWorker, PumpType
<1>6. CASE GivesUp(c) \/ UNCHANGED <<control, pump>>
  BY <1>6 DEF GivesUp
<1> QED
  BY <1>1, <1>2, <1>3, <1>4, <1>5, <1>6, OnwardControls

(* Work on a session goes from hand to hand, and starts with its start.    *)
LEMMA WorkFrom ==
  ASSUME DisciplineInv, NEW c \in Commands, SlotMove(c) \/ Onward(c), OthersWait(c),
         NEW s, s # 0, WorkedOn(s)'
  PROVE  WorkedOn(s) \/ (cmd[c].pc = "starting" /\ cmd[c].id = s /\ cmd' # cmd)
<1> cmd \in [Commands -> CmdType] /\ ServiceTypes /\ CommandsFit /\ WorkersClaimed
  BY DEF DisciplineInv, ServiceTypes
<1>1. ASSUME NEW p \in Pumps, pump'[p].id = s PROVE WorkedOn(s)
  BY <1>1, PumpsAfter DEF WorkedOn
<1>2. ASSUME NEW d \in Commands \ {c}, cmd'[d].id = s, cmd'[d].pc \in {"install", "finalize"}
      PROVE  WorkedOn(s)
  BY <1>2 DEF WorkedOn, OthersWait
<1>3. ASSUME cmd'[c].id = s, cmd'[c].pc \in {"install", "finalize"}, ~WorkedOn(s)
      PROVE  cmd[c].pc = "starting" /\ cmd[c].id = s /\ cmd' # cmd
  <2>1. ~SlotMove(c)
    <3>1. \A step : Goes(c, step) => cmd'[c].pc = step
      BY DEF Goes, CmdType
    <3>2. ~Ends(c)
      BY <1>3 DEF Ends, NoCall
    <3>3. ~SlotMoves(c)
      BY <1>3, <3>1, <3>2 DEF SlotMoves
    <3> QED
      BY <3>3, SlotMoveEffect
  <2>2. Onward(c) /\ cmd[c].id = s
    BY <1>3, <2>1, OnwardGoesOn DEF GoesOn, NoCall
  <2>3. \A step \in {"leave", "begin", "abandon", "cancel_session", "fail_recognition", "reset",
                     "occupy"} : ~Step(c, step)
    BY <1>3, StepLeads DEF OnwardTo, OnwardFinally, NoCall
  <2>4. ~Done(c)
    BY <1>3, DoneEffect DEF Ends, NoCall
  <2>5. ~ClaimCapture(c) /\ ~GivesUp(c) /\ ~TakeRefused(c) /\ ~Refused(c) /\ ~Deliver(c)
    BY <2>3 DEF ClaimCapture, GivesUp, TakeRefused, Refused, Deliver
  <2>6. \A p \in Pumps : ~Spawns(c, p)
    BY <2>3, <2>4 DEF Spawns
  <2>7. \A step \in {"join", "cancel_join"} : ~Takes(c, step)
    <3>1. \A step : Takes(c, step) => cmd'[c].pc = step
      BY DEF Takes, TakeWorker, CmdType
    <3> QED
      BY <1>3, <3>1
  <2>8. \A step \in DOMAIN EnteredFrom : ~EntersFor(c, step)
    <3>1. \A step \in DOMAIN EnteredFrom : Step(c, step) => OnwardTo(c, step)
      BY StepLeads DEF EnteredFrom
    <3> QED
      BY <1>3, <3>1 DEF EntersFor, EnteredFrom, OnwardTo
  <2>9. ~Join(c)
    <3>1. Join(c) => cmd[c].pump \in Pumps /\ pump[cmd[c].pump].id = cmd[c].id
      BY DEF Join, CommandsFit, CommandFits, WorkersClaimed, CmdType
    <3> QED
      BY <1>3, <2>2, <3>1 DEF WorkedOn
  <2>10. RuntimeStep(c)
    BY <2>2, <2>5, <2>6, <2>7, <2>8, <2>9 DEF Onward
  <2>11. cmd' # cmd /\ Step(c, Resume(c))
    <3>1. cmd' # cmd
      BY <1>3, <2>2 DEF WorkedOn
    <3> QED
      BY <2>10, <3>1 DEF RuntimeStep
  <2>12. cmd[c].pc \in DOMAIN CallAt
    <3>1. op[c].call # "none"
      BY <2>10, ContinueEffect, ThreadsApart DEF RuntimeStep, DisciplineInv
    <3> QED
      BY <3>1 DEF DisciplineInv, OpsFollow, CommandFollows
  <2>13. cmd[c].pc # "starting" => Resume(c) \in {"leave", "transcribe", "cancel_session",
                                                 "fail_recognition", "await"}
    BY <2>12, ResumeSteps DEF CallAt
  <2>14. \A step \in {"transcribe", "await"} : ~Step(c, step)
    BY <1>3, StepLeads DEF OnwardTo
  <2> QED
    BY <2>2, <2>3, <2>11, <2>13, <2>14
<1> QED
  BY <1>1, <1>2, <1>3 DEF WorkedOn

(* The steps of a command that begin no session.                           *)
LEMMA CommandKeepsSession ==
  ASSUME DisciplineInv, NEW c \in Commands, SlotMove(c) \/ Onward(c)
  PROVE  /\ OthersWait(c) /\ UNCHANGED <<tests, caller>>
         /\ current'.id = current.id
         /\ Live' => Live
         /\ \/ \E s : FinalizeRecording(c, s)
            \/ Live' /\ current.state = "Recording" => current'.state = "Recording"
<1> BasicInv /\ ServiceTypes /\ CommandsFit /\ c \in Threads
  BY ThreadsApart DEF DisciplineInv
<1>1. OthersWait(c) /\ UNCHANGED <<next_id, tests, caller>> /\ Acts(c)
  BY SlotMoveEffect, OnwardGoesOn, OnwardActs DEF GoesOn, Acts
<1>2. ~BeginRecording(c)
  BY <1>1 DEF BeginRecording, Begin, BasicInv, TypeOK, LifecycleTypeOK
<1> QED
  BY <1>1, <1>2, ActsKeepSession

(* A finalization starts when nobody works on the session any more.        *)
LEMMA FinalizeEndsWork ==
  ASSUME BasicInv, InsertionInv', NEW c \in Commands, NEW s \in Begun, FinalizeRecording(c, s)
  PROVE  ~WorkedOn(s)'
<1>1. op \in [Threads -> OpType] /\ c \in Threads
  BY ThreadsApart DEF BasicInv, TypeOK, OpType
<1>2. op'[c].call = "finalize" /\ op'[c].id = s
  BY <1>1, EnterEffect DEF FinalizeRecording
<1>3. /\ cmd'[c].pc = "finalizing" /\ cmd'[c].id = s
  BY <1>2 DEF InsertionInv, DisciplineInv, OpsFollow, CommandFollows, CallAt
<1>4. Finishing(c)'
  <2>1. cmd'[c].call \in {"start", "finish", "cancel", "test", "test_finish", "test_cancel", "none"}
    BY DesktopAssumptions DEF InsertionInv, DisciplineInv, ServiceTypes, CmdType, DictationCalls
  <2>2. cmd'[c].pc \in CallSteps[cmd'[c].call]
    BY DEF InsertionInv, DisciplineInv, CommandsFit, CommandFits
  <2>3. cmd'[c].call \in {"finish", "test_finish"}
    BY <1>3, <2>1, <2>2 DEF CallSteps, StartSteps, CancelSteps
  <2> QED
    BY <1>3, <2>3 DEF Finishing, FinishCalls
<1>5. ASSUME NEW p \in Pumps, pump'[p].id = s PROVE FALSE
  BY <1>3, <1>4, <1>5 DEF InsertionInv, WorkerGone
<1>6. ASSUME NEW d \in Commands, cmd'[d].id = s, cmd'[d].pc \in {"install", "finalize"}
      PROVE  FALSE
  <2>1. cmd'[d].call \in {"start", "finish", "cancel", "test", "test_finish", "test_cancel", "none"}
    BY DesktopAssumptions DEF InsertionInv, DisciplineInv, ServiceTypes, CmdType, DictationCalls
  <2>2. cmd'[d].pc \in CallSteps[cmd'[d].call]
    BY DEF InsertionInv, DisciplineInv, CommandsFit, CommandFits
  <2>3. d # c
    BY <1>3, <1>6
  <2>4. CASE cmd'[d].pc = "install"
    <3>1. cmd'[d].call \in StartCalls
      BY <2>1, <2>2, <2>4 DEF CallSteps, StartCalls, StartSteps, CancelSteps
    <3>2. s # 0
      BY DEF Begun
    <3> QED
      BY <1>3, <1>6, <2>3, <3>1, <3>2 DEF InsertionInv, NamesInv, StartUnnamed
  <2>5. CASE cmd'[d].pc = "finalize"
    <3>1. cmd'[d].call \in {"finish", "test_finish"}
      BY <2>1, <2>2, <2>5 DEF CallSteps, StartSteps, CancelSteps
    <3>2. Finishing(d)'
      BY <2>5, <3>1 DEF Finishing, FinishCalls
    <3> QED
      BY <1>3, <1>4, <1>6, <2>3, <3>2 DEF InsertionInv, DisciplineInv, FinishedOnce
  <2> QED
    BY <1>6, <2>4, <2>5
<1> QED
  BY <1>5, <1>6 DEF WorkedOn

LEMMA RecordingStaysWorked ==
  ASSUME PageInv, RuntimeInv, AttendedInv, InsertionInv', DesktopNext
  PROVE  RecordingWorked'
<1> /\ DisciplineInv /\ BasicInv /\ ServiceTypes /\ CommandsFit /\ PumpsFit /\ RecordingWorked
    /\ LifecycleTypeOK /\ CurrentIsNewest
  BY DEF PageInv, InsertionInv, DisciplineInv, BasicInv, TypeOK
<1> SUFFICES ASSUME Live', WorkedOn(current.id)' PROVE current'.state = "Recording"
  BY DEF RecordingWorked
<1>1. PICK s : s = current'.id
  OBVIOUS
<1>2. WorkedOn(s)'
  BY <1>1 DEF WorkedOn
<1>3. ASSUME current'.id = current.id, Live
      PROVE  s = current.id /\ s \in Begun /\ s # 0 /\ (WorkedOn(s) => current.state = "Recording")
  <2>1. s = current.id /\ current.id # 0
    BY <1>1, <1>3 DEF CurrentIsNewest, Live, Terminal
  <2>2. s \in Begun
    BY <2>1 DEF CurrentIsNewest, Begun, LifecycleTypeOK
  <2>3. WorkedOn(s) => WorkedOn(current.id)
    BY <2>1
  <2> QED
    BY <1>3, <2>1, <2>2, <2>3 DEF RecordingWorked
<1>4. ASSUME NEW c \in Commands, Command(c) PROVE current'.state = "Recording"
  <2>1. PICK call, id : call \in Offered /\ Accept(c, call, id)
    BY <1>4 DEF Command
  <2>2. /\ UNCHANGED <<current, pump>> /\ OthersWait(c)
        /\ cmd'[c].pc = FirstStep[call]
    BY <2>1 DEF Accept, OthersWait, NoCall, ServiceTypes, vars
  <2>3. call \in {"start", "finish", "cancel", "test", "test_finish", "test_cancel"}
    BY <2>1, DesktopAssumptions DEF DictationCalls
  <2>4. cmd'[c].pc \notin {"install", "finalize"}
    BY <2>2, <2>3 DEF FirstStep
  <2>5. WorkedOn(s)
    BY <1>2, <2>2, <2>4 DEF WorkedOn, OthersWait
  <2> QED
    BY <1>3, <2>2, <2>5 DEF Live
<1>5. ASSUME NEW c \in Commands, Begins(c) PROVE current'.state = "Recording"
  <2>1. /\ UNCHANGED pump /\ OthersWait(c)
        /\ \/ BeginRecording(c) /\ cmd'[c].pc = "starting"
           \/ UNCHANGED vars /\ cmd'[c].pc = "uninstall"
    BY <1>5, BeginsEffect
  <2>2. WorkedOn(s)
    BY <1>2, <2>1 DEF WorkedOn, OthersWait
  <2>3. CASE BeginRecording(c)
    <3>1. s = next_id /\ s \notin Begun /\ s # 0
      BY <1>1, <2>3, BeginEffect, ThreadsApart DEF Begun, LifecycleTypeOK
    <3>2. \A p \in Pumps : pump[p].id # s
      BY <3>1 DEF PumpsFit, NoWorker
    <3>3. \A d \in Commands : cmd[d].id # s
      BY <3>1 DEF CommandsFit, CommandFits
    <3> QED
      BY <2>2, <3>2, <3>3 DEF WorkedOn
  <2>4. CASE UNCHANGED vars
    BY <1>3, <2>2, <2>4 DEF vars, Live
  <2> QED
    BY <2>1, <2>3, <2>4
<1>6. ASSUME NEW c \in Commands, SlotMove(c) \/ Onward(c) PROVE current'.state = "Recording"
  <2>1. /\ OthersWait(c) /\ current'.id = current.id /\ Live
        /\ \/ \E r : FinalizeRecording(c, r)
           \/ current.state = "Recording" => current'.state = "Recording"
    BY <1>6, CommandKeepsSession
  <2>2. s = current.id /\ s \in Begun /\ s # 0 /\ (WorkedOn(s) => current.state = "Recording")
    BY <1>3, <2>1
  <2>3. ~\E r : FinalizeRecording(c, r)
    <3>1. ASSUME NEW r, FinalizeRecording(c, r) PROVE r = s
      BY <2>2, <3>1 DEF FinalizeRecording, Submit, Submittable
    <3>2. ~FinalizeRecording(c, s)
      BY <1>2, <2>2, FinalizeEndsWork
    <3> QED
      BY <3>1, <3>2
  <2>4. CASE WorkedOn(s)
    BY <2>1, <2>2, <2>3, <2>4
  <2>5. CASE cmd[c].pc = "starting" /\ cmd[c].id = s /\ cmd' # cmd
    <3>1. /\ Continue(c) /\ c \in Threads /\ op[c].call = "start" /\ op[c].id = s
          /\ op'[c] = Idle
      BY <1>6, <2>5, InsideGoesOn DEF CallAt
    <3>2. op[c].pc = "store"
      BY <2>2, <3>1, OthersAnswer DEF Answers
    <3>3. current.state = "Recording"
      BY <3>1, <3>2 DEF RuntimeInv, StartOwns
    <3> QED
      BY <2>1, <2>3, <3>3
  <2> QED
    BY <1>2, <1>6, <2>1, <2>2, <2>4, <2>5, WorkFrom
<1>7. ASSUME NEW p \in Pumps, Drain(p) PROVE current'.state = "Recording"
  <2>1. /\ UNCHANGED cmd /\ current'.id = current.id /\ Live
        /\ current.state = "Recording" => current'.state = "Recording"
    BY <1>7, DrainActs, ActsKeepSession, ThreadsApart
  <2>2. \A q \in Pumps : pump'[q].id = pump[q].id
    BY <1>7 DEF Drain, PumpCall, PumpStep, PumpCheck, PumpWait, PumpTo, PumpFails, ServiceTypes,
                PumpType
  <2>3. WorkedOn(s)
    BY <1>2, <2>1, <2>2 DEF WorkedOn
  <2> QED
    BY <1>3, <2>1, <2>3
<1> QED
  BY <1>4, <1>5, <1>6, <1>7, ServeIsOnward DEF DesktopNext

(* A worker fails on a live session only when a cancel has got ahead of it *)
(* and cleared the slot.                                                   *)
LEMMA FailureFollowsCancel ==
  ASSUME PageInv, RuntimeInv, AttendedInv, NEW p \in Pumps, Drain(p),
         ~pump[p].failed, pump'[p].failed, pump[p].id = current.id, Live, Live'
  PROVE  \E c \in Commands : Cancelling(c)
<1> /\ DisciplineInv /\ BasicInv /\ TypeOK /\ StepsMatchCalls /\ ServiceTypes /\ CommandsFit
    /\ RecordingWorked /\ InsertionInv /\ p \in Threads /\ pump \in [Pumps -> PumpType]
  BY ThreadsApart DEF PageInv, InsertionInv, DisciplineInv, BasicInv, ServiceTypes
<1>1. current.state = "Recording"
  BY DEF RecordingWorked, WorkedOn
<1>2. current.id # 0
  BY DEF BasicInv, CurrentIsNewest, Live
<1>3. \A step : ~PumpTo(p, step)
  BY DEF PumpTo, PumpType
<1>4. pump' # pump
  OBVIOUS
<1>5. /\ PumpAt(p, "pumping") /\ Continue(p) /\ op'[p] = Idle
      /\ ~(At(p, "pump") /\ Holds("Recording", op[p].id))
  BY <1>1, <1>3, <1>4 DEF Drain, PumpCall, PumpStep, PumpCheck, PumpWait, MayPump
<1>6. op[p].call = "pump" /\ op[p].id = current.id
  BY <1>5 DEF DisciplineInv, OpsFollow, PumpFollows, PumpAt
<1>7. op[p].pc = "pump" /\ ~Holds("Recording", current.id)
  BY <1>5, <1>6, OthersAnswer DEF Answers, At
<1>8. NobodyStarts(current.id)
  BY PumpsWait
<1>9. work.slot = "Empty"
  <2> SUFFICES ASSUME work.slot # "Empty" PROVE FALSE
    OBVIOUS
  <2>1. work.id = current.id /\ current.state \in OwnerStates[work.slot]
    BY DEF RuntimeInv, WorkMatchesSession
  <2>2. work.slot \in {"Arming", "Recording", "Finalizing", "Finalized", "Transcribing"}
    BY DEF TypeOK
  <2>3. work = [slot |-> work.slot, id |-> work.id]
    BY DEF TypeOK
  <2>4. work.slot # "Recording"
    BY <1>7, <2>1, <2>3 DEF Holds, Slot
  <2>5. work.slot = "Arming"
    BY <1>1, <2>1, <2>2, <2>4 DEF OwnerStates
  <2> QED
    BY <1>8, <2>1, <2>5 DEF RuntimeInv, Reserved, NobodyStarts
<1>10. PICK t \in Threads : op[t].id = current.id /\ Concludes(t)
  BY <1>1, <1>9 DEF AttendedInv, LossIsAttended
<1>11. t # p /\ op[t].call # "start" /\ op[t].call # "none"
  BY <1>6, <1>7, <1>8, <1>10 DEF Concludes, NobodyStarts, StepsMatchCalls
<1>12. t \notin Pumps
  <2> SUFFICES ASSUME t \in Pumps PROVE FALSE
    OBVIOUS
  <2>1. pump[t].id = current.id
    BY <1>10, <1>11 DEF DisciplineInv, OpsFollow, PumpFollows
  <2> QED
    BY <1>2, <1>11, <2>1 DEF InsertionInv, OneWorker
<1>13. t \in Commands /\ cmd[t].id = current.id /\ cmd[t].pc \in DOMAIN CallAt
         /\ op[t].call = CallAt[cmd[t].pc]
  BY <1>10, <1>11, <1>12, DesktopAssumptions DEF DisciplineInv, OpsFollow, CommandFollows
<1>14. ~(Finishing(t) /\ cmd[t].pc # "join")
  BY <1>13 DEF InsertionInv, WorkerGone
<1>15. cmd[t].pc \notin {"finalizing", "transcribing", "failing"}
  BY <1>13, <1>14, CallsOfSteps DEF Finishing, FinishCalls
<1>16. cmd[t].pc \in {"cancelling", "abandoning"}
  BY <1>11, <1>13, <1>15 DEF CallAt
<1> QED
  BY <1>13, <1>16 DEF Cancelling

LEMMA FailureStaysAttended ==
  ASSUME PageInv, RuntimeInv, AttendedInv, DesktopNext
  PROVE  FailureAttended'
<1> /\ DisciplineInv /\ BasicInv /\ ServiceTypes /\ PumpsFit /\ FailureAttended
    /\ LifecycleTypeOK /\ pump \in [Pumps -> PumpType]
  BY DEF PageInv, InsertionInv, DisciplineInv, BasicInv, TypeOK, ServiceTypes
<1> SUFFICES ASSUME NEW p \in Pumps, pump'[p].failed, pump'[p].id = current'.id, Live'
             PROVE  \E c \in Commands : Cancelling(c)'
  BY DEF FailureAttended
<1>1. ASSUME NEW c \in Commands, Command(c) PROVE \E d \in Commands : Cancelling(d)'
  <2> PICK call, s : Accept(c, call, s)
    BY <1>1 DEF Command
  <2>1. UNCHANGED <<current, pump>> /\ OthersWait(c) /\ cmd[c] = NoCall
    BY DEF Accept, OthersWait, vars
  <2>2. PICK d \in Commands : Cancelling(d)
    BY <2>1 DEF FailureAttended, Live
  <2>3. d # c
    BY <2>1, <2>2 DEF Cancelling, NoCall
  <2> QED
    BY <2>1, <2>2, <2>3 DEF Cancelling, OthersWait
<1>2. ASSUME NEW c \in Commands, SlotMove(c) \/ Begins(c) \/ Onward(c), OthersWait(c),
             current'.id = current.id, Live
      PROVE  \E d \in Commands : Cancelling(d)'
  <2>1. pump[p].failed /\ pump[p].id = current.id
    BY <1>2, PumpsAfter
  <2>2. PICK d \in Commands : Cancelling(d)
    BY <1>2, <2>1 DEF FailureAttended
  <2> QED
    BY <1>2, <2>2, CancellingStays, SlotMoveEffect DEF PageInv
<1>3. ASSUME NEW c \in Commands, Begins(c) PROVE \E d \in Commands : Cancelling(d)'
  <2>1. OthersWait(c) /\ UNCHANGED pump /\ (BeginRecording(c) \/ UNCHANGED vars)
    BY <1>3, BeginsEffect
  <2>2. ~BeginRecording(c)
    <3>1. BeginRecording(c) => current'.id = next_id
      BY BeginEffect, ThreadsApart
    <3>2. pump[p].id \in Begun \cup {0}
      BY DEF PumpsFit, NoWorker
    <3> QED
      BY <2>1, <3>1, <3>2 DEF Begun, LifecycleTypeOK
  <2>3. current' = current /\ Live
    BY <2>1, <2>2 DEF vars, Live
  <2> QED
    BY <1>2, <1>3, <2>1, <2>3
<1>4. ASSUME NEW c \in Commands, SlotMove(c) \/ Onward(c) PROVE \E d \in Commands : Cancelling(d)'
  BY <1>2, <1>4, CommandKeepsSession
<1>5. ASSUME NEW q \in Pumps, Drain(q) PROVE \E d \in Commands : Cancelling(d)'
  <2>1. UNCHANGED cmd /\ current'.id = current.id /\ Live
    BY <1>5, DrainActs, ActsKeepSession, ThreadsApart
  <2>2. /\ \A r \in Pumps \ {q} : pump'[r] = pump[r]
        /\ pump'[q].id = pump[q].id
    BY <1>5 DEF Drain, PumpCall, PumpStep, PumpCheck, PumpWait, PumpTo, PumpFails, PumpType
  <2>3. pump[p].id = current.id
    BY <2>1, <2>2
  <2>4. CASE pump[p].failed
    BY <2>1, <2>3, <2>4 DEF FailureAttended, Cancelling
  <2>5. CASE ~pump[p].failed
    <3>1. q = p
      BY <2>2, <2>5
    <3>2. \E d \in Commands : Cancelling(d)
      BY <1>5, <2>1, <2>3, <2>5, <3>1, FailureFollowsCancel
    <3> QED
      BY <2>1, <3>2 DEF Cancelling
  <2> QED
    BY <2>4, <2>5
<1> QED
  BY <1>1, <1>3, <1>4, <1>5, ServeIsOnward DEF DesktopNext

---------------------------------------------------------------------------
(* The page's sessions: somebody can always end the current one.           *)

(* Steps that depend on more than their effect tells.                      *)
LEMMA ServeAt ==
  ASSUME DisciplineInv, NEW c \in Commands, Serve(c)
  PROVE  /\ cmd[c].pc = "finalize" => Finalizes(c)
         /\ cmd[c].pc = "take" => FinishTake(c)
         /\ cmd[c].pc = "cancel_capture" => CancelTake(c)
         /\ cmd[c].pc = "occupy" => Occupy(c)
<1> SUFFICES ASSUME cmd[c].pc \in {"finalize", "take", "cancel_capture", "occupy"}
             PROVE  Finalizes(c) \/ FinishTake(c) \/ CancelTake(c) \/ Occupy(c)
  BY DEF Finalizes, FinishTake, CancelTake, Occupy, Doing
<1>1. ~RuntimeStep(c)
  <2>1. op[c].call = "none"
    BY DEF DisciplineInv, OpsFollow, CommandFollows, CallAt
  <2> QED
    BY <2>1, ContinueEffect, ThreadsApart DEF RuntimeStep, DisciplineInv
<1> QED
  BY <1>1
  DEF Serve, ClaimStart, Load, ClaimFinish, AwaitInsertion, BeginInsertion, InsertText,
      EnsureInserting, ClaimCancel, Reset, ClaimCapture, Install, Uninstall, Join, Joined, Begins,
      Transcribes, FailsRecognition, FailsDelivery, Cancels, Deliver, Doing

(* The session is held after the step.                                     *)
Held == \/ \E c \in Commands : Attends(c)
        \/ HasWorker(current.id) /\ Reachable

LEMMA AttendedByOther ==
  ASSUME NEW c, OthersWait(c), current'.id = current.id, NEW d \in Commands \ {c}, Attends(d)
  PROVE  Held'
BY DEF Held, Attends, OthersWait

LEMMA AttendedStill ==
  ASSUME NEW c \in Commands, current'.id = current.id, cmd[c].id = current.id,
         NEW step \in AttendSteps, OnwardTo(c, step)
  PROVE  Held'
BY DEF Held, Attends, OnwardTo

(* A call inside the runtime for a session that stays live goes on for it, *)
(* or somebody else does.                                                  *)
LEMMA InsideAttends ==
  ASSUME PageInv, RuntimeInv, AttendedInv, NEW c \in Commands, Onward(c), Attends(c),
         cmd[c].pc \in DOMAIN CallAt, Live'
  PROVE  Held'
<1> /\ DisciplineInv /\ cmd \in [Commands -> CmdType] /\ InsertionInv /\ StepsMatchCalls
  BY DEF PageInv, InsertionInv, DisciplineInv, ServiceTypes, BasicInv
<1>1. OthersWait(c) /\ current'.id = current.id /\ Live
  BY CommandKeepsSession
<1>2. /\ Continue(c) /\ c \in Threads /\ op[c].call = CallAt[cmd[c].pc] /\ op[c].id = cmd[c].id
      /\ \/ op'[c] # Idle /\ cmd' = cmd
         \/ op'[c] = Idle /\ Step(c, Resume(c))
  BY InsideGoesOn
<1>3. cmd[c].id = current.id /\ cmd[c].pc \in AttendSteps
  BY DEF Attends
<1>4. CASE cmd' = cmd
  BY <1>1, <1>3, <1>4 DEF Held, Attends
<1>5. CASE op'[c] = Idle /\ Step(c, Resume(c))
  <2>1. Answers(c)
    BY <1>2, <1>3, <1>5 DEF Answers
  <2>2. op[c].call \notin {"cancel", "fail"} /\ op[c].pc # "nospeech"
    BY <1>2, <2>1, OthersAnswer
  <2>3. ASSUME NEW step \in AttendSteps, Resume(c) = step PROVE Held'
    <3>1. step # "leave"
      BY DEF AttendSteps
    <3>2. OnwardTo(c, step)
      BY <1>5, <2>3, <3>1, StepLeads
    <3> QED
      BY <1>1, <1>3, <3>2, AttendedStill
  <2>4. CASE cmd[c].pc = "starting"
    <3>1. op[c].call = "start"
      BY <1>2, <2>4 DEF CallAt
    <3>2. op[c].pc = "store" /\ Holds("Arming", op[c].id)
      BY <1>2, <2>1, <3>1, OthersAnswer
    <3>3. Resume(c) = "install"
      BY <2>4, <3>2 DEF Resume, Succeeds, Doing, At
    <3> QED
      BY <2>3, <3>3 DEF AttendSteps
  <2>5. CASE cmd[c].pc = "finalizing"
    <3>1. op[c].call = "finalize"
      BY <1>2, <2>5 DEF CallAt
    <3>2. CASE op[c].pc = "keep" /\ Holds("Finalizing", op[c].id)
      <4>1. Resume(c) \in {"transcribe", "cancel_session"}
        BY <2>5, <3>2 DEF Resume, Succeeds, Doing, At
      <4> QED
        BY <2>3, <4>1 DEF AttendSteps
    <3>3. ASSUME NEW u \in Threads \ {c}, op[u].id = current.id, op[u].call # "none"
          PROVE  Held'
      <4>1. u \notin Pumps
        <5> SUFFICES ASSUME u \in Pumps PROVE FALSE
          OBVIOUS
        <5>1. pump[u].id = cmd[c].id
          BY <1>3, <3>3 DEF DisciplineInv, OpsFollow, PumpFollows
        <5>2. cmd[c].call \in FinishCalls
          BY <2>5, CallsOfSteps DEF DisciplineInv
        <5> QED
          BY <2>5, <5>1, <5>2 DEF InsertionInv, WorkerGone, Finishing
      <4>2. u \in Commands /\ cmd[u].id = current.id /\ cmd[u].pc \in DOMAIN CallAt
        BY <3>3, <4>1, DesktopAssumptions DEF DisciplineInv, OpsFollow, CommandFollows
      <4>3. Attends(u)
        BY <4>2 DEF Attends, AttendSteps, CallAt
      <4> QED
        BY <1>1, <3>3, <4>2, <4>3, AttendedByOther
    <3> QED
      BY <1>2, <2>1, <3>1, <3>2, <3>3, FinalizeAnswers
  <2>6. CASE cmd[c].pc = "transcribing"
    <3>1. op[c].call = "transcribe"
      BY <1>2, <2>6 DEF CallAt
    <3>2. op[c].pc \notin {"store", "keep", "nospeech"}
      BY <1>2, <2>2, <3>1 DEF StepsMatchCalls
    <3>3. Resume(c) \in {"fail_recognition", "await"}
      BY <2>6, <3>2 DEF Resume, Succeeds, Doing, At
    <3> QED
      BY <2>3, <3>3 DEF AttendSteps
  <2>7. CASE cmd[c].pc \in {"failing", "cancelling", "abandoning"}
    BY <1>2, <2>2, <2>7 DEF CallAt
  <2> QED
    BY <2>4, <2>5, <2>6, <2>7 DEF CallAt
<1> QED
  BY <1>2, <1>4, <1>5

(* ... and so does a call outside of it.                                   *)
LEMMA OutsideAttends ==
  ASSUME PageInv, RuntimeInv, NEW c \in Commands, Onward(c), Serve(c), Attends(c),
         cmd[c].pc \notin DOMAIN CallAt, Live'
  PROVE  Held'
<1> /\ DisciplineInv /\ cmd \in [Commands -> CmdType] /\ InsertionInv /\ ServiceTypes
    /\ CommandsFit /\ pump \in [Pumps -> PumpType] /\ control \in ControlType
  BY DEF PageInv, InsertionInv, DisciplineInv, ServiceTypes, BasicInv
<1>1. OthersWait(c) /\ current'.id = current.id /\ Live /\ UNCHANGED <<tests, caller>>
  BY CommandKeepsSession
<1>2. cmd[c].id = current.id /\ cmd[c].pc \in AttendSteps
  BY DEF Attends
<1>3. ASSUME NEW step \in AttendSteps, Step(c, step) PROVE Held'
  <2>1. step # "leave"
    BY DEF AttendSteps
  <2>2. OnwardTo(c, step)
    BY <1>3, <2>1, StepLeads
  <2> QED
    BY <1>1, <1>2, <2>2, AttendedStill
<1>4. ~ClaimCapture(c) /\ ~TakeRefused(c)
  BY <1>2 DEF ClaimCapture, TakeRefused, Doing, AttendSteps
<1>5. \A step : ~Takes(c, step)
  BY <1>2 DEF Takes, AttendSteps
<1>6. CASE GivesUp(c)
  <2>1. Step(c, "abandon")
    BY <1>2, <1>6 DEF GivesUp, AttendSteps
  <2> QED
    BY <1>3, <2>1 DEF AttendSteps
<1>7. ASSUME NEW p \in Pumps, Spawns(c, p) PROVE Held'
  <2>1. /\ cmd[c].pc = "install" /\ control'.worker = p /\ pump'[p].id = cmd[c].id
        /\ IF cmd[c].call = "start" THEN Step(c, "occupy") ELSE Done(c)
    BY <1>7 DEF Spawns, NoWorker
  <2>2. HasWorker(current.id)'
    BY <1>1, <1>2, <2>1, ThreadsApart DEF HasWorker
  <2>3. CASE cmd[c].call = "start"
    <3>1. OnwardTo(c, "occupy")
      BY <2>1, <2>3, StepLeads
    <3>2. Approaches(c)'
      BY <1>1, <1>2, <3>1 DEF Approaches, OnwardTo
    <3> QED
      BY <2>2, <3>2 DEF Held, Reachable
  <2>4. CASE cmd[c].call # "start"
    <3>1. cmd[c].call = "test" /\ cmd[c].id # 0
      BY <2>1, <2>4, CallsOfSteps DEF StartSteps, StartCalls, CommandsFit, CommandFits
    <3>2. cmd[c].id \in tests
      BY <3>1 DEF InsertionInv, NamesInv, TestsApart
    <3> QED
      BY <1>1, <1>2, <2>2, <3>2 DEF Held, Reachable
  <2> QED
    BY <2>3, <2>4
<1>8. CASE Join(c)
  <2>1. cmd[c].pc \in {"join", "cancel_join"}
    BY <1>8 DEF Join, Joined
  <2>2. cmd[c].pump \in Pumps /\ pump[cmd[c].pump].id = current.id
    BY <1>2, <2>1 DEF CommandsFit, CommandFits, CmdType, Joined, DisciplineInv, WorkersClaimed
  <2>3. CASE pump[cmd[c].pump].failed
    <3>1. PICK d \in Commands : Cancelling(d)
      BY <1>1, <2>2, <2>3 DEF PageInv, FailureAttended
    <3>2. d # c /\ Attends(d)
      BY <2>1, <3>1 DEF Cancelling, Attends, AttendSteps
    <3> QED
      BY <1>1, <3>2, AttendedByOther
  <2>4. CASE ~pump[cmd[c].pump].failed
    <3>1. PICK step \in {"finalize", "cancel_session"} : step = Joined[cmd[c].pc]
      BY <2>1 DEF Joined
    <3>2. cmd' = [cmd EXCEPT ![c].pump = NoPump, ![c].pc = step]
      BY <1>8, <2>4, <3>1 DEF Join
    <3>3. OnwardTo(c, step)
      BY <3>2 DEF OnwardTo, CmdType
    <3> QED
      BY <1>1, <1>2, <3>3, AttendedStill DEF AttendSteps
  <2> QED
    BY <2>3, <2>4
<1>9. CASE Refused(c)
  <2>1. CASE cmd[c].pc = "transcribe" /\ Step(c, "fail_recognition")
    BY <1>3, <2>1 DEF AttendSteps
  <2>2. CASE cmd[c].pc = "finalize"
    <3>1. current.state = "Recording"
      BY <1>1, <1>2, <2>2 DEF PageInv, RecordingWorked, WorkedOn
    <3>2. Submittable(cmd[c].id, "RecordingStopped")
      BY <1>2, <3>1 DEF Submittable, Accepts, Source
    <3>3. Step(c, "finalizing")
      BY <2>2, <3>2, ServeAt DEF Finalizes
    <3> QED
      BY <1>3, <3>3 DEF AttendSteps
  <2> QED
    BY <1>9, <2>1, <2>2 DEF Refused
<1>10. ~Deliver(c)
  <2> SUFFICES ASSUME Deliver(c) PROVE FALSE
    OBVIOUS
  <2>1. cmd[c].pc = "deliver" /\ cmd[c].call = "finish"
    BY CallsOfSteps DEF Deliver, Doing
  <2>2. current.state = "Inserting"
    BY <2>1 DEF InsertionInv, InsertingHeld, HasText
  <2>3. Submittable(cmd[c].id, "InsertionDelivered")
    BY <1>2, <2>2 DEF Submittable, Accepts, Source
  <2>4. Submit(cmd[c].id, "InsertionDelivered", "None")
    BY <2>3 DEF Deliver, InsertionDelivered
  <2>5. current'.state = "Completed"
    BY <2>4, SubmitEffect, <2>3 DEF DisciplineInv, BasicInv, TypeOK, Events, Target
  <2> QED
    BY <2>5 DEF Live, Terminal
<1>11. ASSUME NEW step \in DOMAIN EnteredFrom, EntersFor(c, step) PROVE Held'
  BY <1>3, <1>11 DEF EntersFor, EnteredFrom, AttendSteps
<1>12. ~RuntimeStep(c)
  <2>1. op[c].call = "none"
    BY DEF DisciplineInv, OpsFollow, CommandFollows
  <2> QED
    BY <2>1, ContinueEffect, ThreadsApart DEF RuntimeStep, DisciplineInv
<1> QED
  BY <1>4, <1>5, <1>6, <1>7, <1>8, <1>9, <1>10, <1>11, <1>12 DEF Onward

(* A step of the slot leads an attending call on.                          *)
LEMMA SlotMoveAttends ==
  ASSUME PageInv, NEW c \in Commands, SlotMove(c), Attends(c)
  PROVE  Held'
<1> /\ DisciplineInv /\ ServiceTypes /\ CommandsFit /\ DictatesAlone /\ SlotFollows
    /\ cmd \in [Commands -> CmdType]
  BY DEF PageInv, InsertionInv, DisciplineInv, ServiceTypes
<1>1. current' = current /\ PageSlotMoves(c)
  BY SlotMoveEffect, PageSlotMoved
<1>2. cmd[c].id = current.id /\ cmd[c].pc \in AttendSteps
  BY DEF Attends
<1>3. \E step \in {"begin_insertion", "insert", "complete", "fail_insertion", "deliver",
                   "fail_delivery"} : Goes(c, step)
  BY <1>1, <1>2 DEF PageSlotMoves, Doing, AttendSteps
<1>4. PICK step \in AttendSteps : Goes(c, step)
  BY <1>3 DEF AttendSteps
<1>5. OnwardTo(c, step)
  BY <1>4 DEF Goes, OnwardTo, CmdType
<1> QED
  BY <1>1, <1>2, <1>5, AttendedStill

(* A call of the page that takes the slot from a recording is on its way   *)
(* to the worker.                                                          *)
LEMMA SlotMoveReaches ==
  ASSUME PageInv, NEW c \in Commands, SlotMove(c), HasWorker(current.id), Reachable
  PROVE  Held'
<1> /\ DisciplineInv /\ ServiceTypes /\ CommandsFit /\ DictatesAlone /\ SlotFollows
    /\ cmd \in [Commands -> CmdType]
  BY DEF PageInv, InsertionInv, DisciplineInv, ServiceTypes
<1>1. /\ UNCHANGED <<current, control, pump, tests>> /\ OthersWait(c)
      /\ PageSlotMoves(c) /\ cmd[c].call \in DictationCalls
  BY SlotMoveEffect, PageSlotMoved
<1>2. HasWorker(current.id)'
  BY <1>1 DEF HasWorker
<1> SUFFICES Reachable'
  BY <1>2 DEF Held
<1>3. CASE current.id \in tests
  BY <1>1, <1>3 DEF Reachable
<1>4. ASSUME NEW d \in Commands \ {c}, Approaches(d) PROVE Reachable'
  BY <1>1, <1>4 DEF Reachable, Approaches, OthersWait
<1>5. ASSUME Approaches(c) PROVE Reachable'
  <2>1. cmd[c].id = current.id /\ Gives(c, "Recording")
    BY <1>1, <1>5 DEF Approaches, PageSlotMoves, Doing
  <2> QED
    BY <1>1, <2>1 DEF Reachable, Gives
<1>6. ASSUME slot = In("Recording", current.id) PROVE Reachable'
  <2>1. slot.state = "Recording" /\ slot.id = current.id
    BY <1>6 DEF In
  <2>2. ~Claimed(c, "start") /\ ~Claimed(c, "finish") /\ ~Claimed(c, "cancel")
    BY <2>1 DEF SlotFollows, SlotOf, SlotIdle, In
  <2>3. Doing(c, "claim")
    BY <1>1, <2>2 DEF Claimed, Doing, DictationCalls
  <2>4. CASE UNCHANGED slot
    BY <1>1, <1>6, <2>4 DEF Reachable
  <2>5. \/ UNCHANGED slot
        \/ cmd[c].call = "finish" /\ slot = In("Recording", cmd[c].id) /\ Goes(c, "take")
        \/ cmd[c].call = "cancel" /\ slot = In("Recording", cmd[c].id)
             /\ Goes(c, "cancel_capture")
    BY <1>1, <2>1, <2>3 DEF PageSlotMoves, Doing, SlotIdle, In
  <2>6. slot = In("Recording", cmd[c].id) => cmd[c].id = current.id
    BY <2>1 DEF In
  <2>7. \A step : Goes(c, step) => OnwardTo(c, step)
    BY DEF Goes, OnwardTo, CmdType
  <2>8. CASE ~UNCHANGED slot
    <3>1. Approaches(c)'
      BY <1>1, <2>5, <2>6, <2>7, <2>8 DEF Approaches, OnwardTo
    <3> QED
      BY <3>1 DEF Reachable
  <2> QED
    BY <2>4, <2>8
<1> QED
  BY <1>3, <1>4, <1>5, <1>6 DEF Reachable

(* A worker is taken by the call on its way to it, and reaped by another   *)
(* only after it failed.                                                   *)
LEMMA OnwardReaches ==
  ASSUME PageInv, NEW c \in Commands, Onward(c), Serve(c), HasWorker(current.id), Reachable,
         Live'
  PROVE  Held'
<1> /\ DisciplineInv /\ ServiceTypes /\ CommandsFit /\ WorkersClaimed /\ OneStart
    /\ cmd \in [Commands -> CmdType] /\ pump \in [Pumps -> PumpType] /\ control \in ControlType
  BY DEF PageInv, InsertionInv, DisciplineInv, ServiceTypes
<1> DEFINE w == control.worker
<1>1. /\ OthersWait(c) /\ current'.id = current.id /\ Live
      /\ UNCHANGED <<slot, tests>>
  BY CommandKeepsSession, OnwardGoesOn
<1>2. w \in Pumps /\ w # NoPump /\ pump[w].id = current.id
  BY DEF HasWorker, ControlType
<1>3. ~control.start_in_flight
  BY <1>2 DEF PageInv, StartHasNoWorker
<1>4. ASSUME NEW step \in {"join", "cancel_join"}, TakeWorker(c, step) PROVE Held'
  <2>1. OnwardTo(c, step) /\ cmd[c].id = current.id
    BY <1>2, <1>4 DEF TakeWorker, OwnWorker, OnwardTo, CmdType
  <2>2. step \in AttendSteps
    BY DEF AttendSteps
  <2> QED
    BY <1>1, <2>1, <2>2, AttendedStill
<1>5. ASSUME Approaches(c) PROVE Held'
  <2>1. OwnWorker(c)
    BY <1>2, <1>5 DEF OwnWorker, Approaches
  <2>2. CASE cmd[c].pc = "take"
    BY <1>4, <2>1, <2>2, ServeAt DEF FinishTake
  <2>3. CASE cmd[c].pc = "cancel_capture"
    BY <1>3, <1>4, <2>1, <2>3, ServeAt DEF CancelTake
  <2>4. CASE cmd[c].pc = "occupy"
    <3>1. SlotMove(c)
      BY <2>4, ServeAt DEF SlotMove
    <3> QED
      BY <3>1, SlotMoveReaches
  <2> QED
    BY <1>5, <2>2, <2>3, <2>4 DEF Approaches
<1>6. ASSUME ~Approaches(c) PROVE Reachable'
  <2>1. CASE current.id \in tests \/ slot = In("Recording", current.id)
    BY <1>1, <2>1 DEF Reachable
  <2>2. ASSUME NEW d \in Commands, Approaches(d) PROVE Reachable'
    BY <1>1, <1>6, <2>2 DEF Reachable, Approaches, OthersWait
  <2> QED
    BY <2>1, <2>2 DEF Reachable
<1>7. ASSUME control'.worker = w, pump'[w].id = current.id PROVE HasWorker(current.id)'
  BY <1>1, <1>2, <1>7 DEF HasWorker
<1>8. HasWorker(current.id)' => Held'
  BY <1>5, <1>6 DEF Held
<1>9. CASE ClaimCapture(c)
  <2>1. CASE pump' = pump /\ control'.worker = w
    BY <1>2, <1>7, <1>8, <2>1
  <2>2. CASE pump[w].pc = "exited"
    <3>1. pump[w].failed
      BY <1>2, <2>2 DEF PageInv, WorkerUntold, Exited
    <3>2. PICK d \in Commands : Cancelling(d)
      BY <1>1, <1>2, <3>1 DEF PageInv, FailureAttended
    <3>3. d # c /\ Attends(d)
      BY <1>9, <3>2 DEF ClaimCapture, Doing, Cancelling, Attends, AttendSteps
    <3> QED
      BY <1>1, <3>3, AttendedByOther
  <2> QED
    BY <1>9, <2>1, <2>2, ClaimCaptureEffect
<1>10. CASE GivesUp(c) \/ UNCHANGED <<control, pump>>
  <2>1. control'.worker = w /\ pump' = pump
    BY <1>10 DEF GivesUp, ControlType
  <2> QED
    BY <1>2, <1>7, <1>8, <2>1
<1>11. CASE Join(c)
  <2>1. cmd[c].pc \in DOMAIN Joined /\ control' = control
          /\ pump' = [pump EXCEPT ![cmd[c].pump] = NoWorker]
    BY <1>11 DEF Join
  <2>2. cmd[c].pump # w
    BY <2>1 DEF CommandsFit, CommandFits, WorkersClaimed
  <2> QED
    BY <1>2, <1>7, <1>8, <2>1, <2>2
<1>12. \A p \in Pumps : ~Spawns(c, p)
  BY <1>3 DEF Spawns, OneStart, InFlightSteps
<1>13. ASSUME NEW step, Takes(c, step) PROVE Held'
  BY <1>4, <1>13 DEF Takes
<1> QED
  BY <1>9, <1>10, <1>11, <1>12, <1>13, OnwardControls

LEMMA SessionStaysHeld ==
  ASSUME PageInv, RuntimeInv, AttendedInv, DesktopNext
  PROVE  SessionHeld'
<1> /\ DisciplineInv /\ BasicInv /\ ServiceTypes /\ pump \in [Pumps -> PumpType]
    /\ control \in ControlType /\ (Live => Held)
  BY DEF PageInv, InsertionInv, DisciplineInv, ServiceTypes, SessionHeld, Held
<1> SUFFICES ASSUME Live' PROVE Held'
  BY DEF SessionHeld, Held
<1>1. ASSUME NEW c \in Commands, OthersWait(c), UNCHANGED <<current, control, pump, slot>>,
             tests \subseteq tests', ~Attends(c), ~Approaches(c)
      PROVE  Held'
  <2>1. Held
    BY <1>1 DEF Live
  <2>2. ASSUME NEW d \in Commands, Attends(d) PROVE Held'
    BY <1>1, <2>2 DEF Held, Attends, OthersWait
  <2>3. ASSUME HasWorker(current.id), Reachable PROVE Held'
    <3>1. HasWorker(current.id)'
      BY <1>1, <2>3 DEF HasWorker
    <3>2. Reachable'
      BY <1>1, <2>3 DEF Reachable, Approaches, OthersWait
    <3> QED
      BY <3>1, <3>2 DEF Held
  <2> QED
    BY <2>1, <2>2, <2>3 DEF Held
<1>2. ASSUME NEW c \in Commands, Command(c) PROVE Held'
  <2> PICK call, s : Accept(c, call, s)
    BY <1>2 DEF Command
  <2>1. OthersWait(c) /\ UNCHANGED <<current, control, pump, slot, tests>> /\ cmd[c] = NoCall
    BY DEF Accept, OthersWait, vars
  <2>2. ~Attends(c) /\ ~Approaches(c)
    BY <2>1 DEF Attends, AttendSteps, Approaches, NoCall
  <2> QED
    BY <1>1, <2>1, <2>2
<1>3. ASSUME NEW c \in Commands, Begins(c) PROVE Held'
  <2>1. /\ cmd[c].pc = "begin" /\ UNCHANGED <<control, pump, slot>>
        /\ OthersWait(c) /\ tests \subseteq tests'
        /\ \/ BeginRecording(c) /\ cmd'[c].pc = "starting" /\ cmd'[c].id = next_id
           \/ UNCHANGED vars
    BY <1>3, BeginsEffect
  <2>2. CASE BeginRecording(c) /\ cmd'[c].pc = "starting" /\ cmd'[c].id = next_id
    <3>1. current'.id = next_id
      BY <2>2, BeginEffect, ThreadsApart
    <3> QED
      BY <2>2, <3>1 DEF Held, Attends, AttendSteps
  <2>3. CASE UNCHANGED vars
    <3>1. ~Attends(c) /\ ~Approaches(c) /\ current' = current
      BY <2>1, <2>3 DEF Attends, AttendSteps, Approaches, vars
    <3> QED
      BY <1>1, <2>1, <3>1
  <2> QED
    BY <2>1, <2>2, <2>3
<1>4. ASSUME NEW c \in Commands, Serve(c), SlotMove(c) \/ Onward(c) PROVE Held'
  <2>1. OthersWait(c) /\ current'.id = current.id /\ Held
    BY <1>4, CommandKeepsSession
  <2>2. ASSUME NEW d \in Commands, Attends(d) PROVE Held'
    <3>1. CASE d # c
      BY <2>1, <2>2, <3>1, AttendedByOther
    <3>2. CASE d = c
      BY <1>4, <2>2, <3>2, SlotMoveAttends, InsideAttends, OutsideAttends
    <3> QED
      BY <3>1, <3>2
  <2>3. ASSUME HasWorker(current.id), Reachable PROVE Held'
    BY <1>4, <2>3, SlotMoveReaches, OnwardReaches
  <2> QED
    BY <2>1, <2>2, <2>3 DEF Held
<1>5. ASSUME NEW p \in Pumps, Drain(p) PROVE Held'
  <2>1. UNCHANGED <<control, slot, cmd, tests>> /\ current'.id = current.id /\ Held
    BY <1>5, DrainActs, ActsKeepSession, ThreadsApart
  <2>2. \A q \in Pumps : pump'[q].id = pump[q].id
    BY <1>5 DEF Drain, PumpCall, PumpStep, PumpCheck, PumpWait, PumpTo, PumpFails, PumpType
  <2>3. HasWorker(current.id) => HasWorker(current.id)'
    BY <2>1, <2>2 DEF HasWorker, ControlType
  <2> QED
    BY <2>1, <2>3 DEF Held, Reachable, Attends, Approaches
<1> QED
  BY <1>2, <1>3, <1>4, <1>5, ServeIsOnward DEF DesktopNext

(* The steps together.                                                     *)
LEMMA CallerStays ==
  ASSUME DisciplineInv, [DesktopNext]_desktopVars
  PROVE  caller' = caller
<1>1. ASSUME NEW c \in Commands, Command(c) PROVE caller' = caller
  BY <1>1 DEF Command, Accept
<1>2. ASSUME NEW c \in Commands, Serve(c) PROVE caller' = caller
  BY <1>2, ServeIsOnward, CommandKeepsSession, BeginsEffect
<1>3. ASSUME NEW p \in Pumps, Drain(p) PROVE caller' = caller
  BY <1>3, DrainActs
<1> QED
  BY <1>1, <1>2, <1>3 DEF DesktopNext, desktopVars

LEMMA PageKept ==
  ASSUME caller = "page", PageInv, RuntimeInv, AttendedInv, [DesktopNext]_desktopVars
  PROVE  PageInv'
<1>1. InsertionInv'
  BY InsertionKept DEF PageInv
<1>2. CASE UNCHANGED desktopVars
  <2>1. UNCHANGED <<current, control, pump, slot, cmd, tests>>
    BY <1>2 DEF desktopVars, vars
  <2>2. DictatesAlone' /\ StartHasNoWorker' /\ WorkerUntold'
    BY <2>1 DEF PageInv, DictatesAlone, StartHasNoWorker, WorkerUntold, Exited
  <2>3. SlotFollows'
    BY <2>1 DEF PageInv, SlotFollows, SlotOf, Claimed
  <2>4. RecordingWorked'
    BY <2>1 DEF PageInv, RecordingWorked, WorkedOn, Live
  <2>5. FailureAttended'
    BY <2>1 DEF PageInv, FailureAttended, Cancelling, Live
  <2>6. SessionHeld'
    BY <2>1 DEF PageInv, SessionHeld, Attends, HasWorker, Reachable, Approaches, Live
  <2> QED
    BY <1>1, <2>2, <2>3, <2>4, <2>5, <2>6 DEF PageInv
<1>3. CASE DesktopNext
  <2>1. DictatesAlone' /\ SlotFollows'
    BY <1>3, DictationStaysAlone, SlotStillFollows
  <2>2. StartHasNoWorker' /\ WorkerUntold'
    BY <1>3, StartStaysWithoutWorker, WorkerStaysUntold DEF PageInv, InsertionInv
  <2>3. RecordingWorked' /\ FailureAttended' /\ SessionHeld'
    BY <1>1, <1>3, RecordingStaysWorked, FailureStaysAttended, SessionStaysHeld
  <2> QED
    BY <1>1, <2>1, <2>2, <2>3 DEF PageInv
<1> QED
  BY <1>2, <1>3

LEMMA DesktopInitIsThePage == DesktopInit => PageInv
<1> SUFFICES ASSUME DesktopInit PROVE PageInv
  OBVIOUS
<1>1. /\ \A c \in Commands : cmd[c] = NoCall
      /\ \A p \in Pumps : pump[p] = NoWorker
      /\ control = [start_in_flight |-> FALSE, worker |-> NoPump] /\ slot = SlotIdle
  BY DEF DesktopInit
<1>2. ~Live
  BY DEF DesktopInit, Init, LifecycleInit, NoSession, Live, Terminal
<1>3. InsertionInv
  BY DesktopInitIsNamed
<1>4. DictatesAlone /\ SlotFollows
  BY <1>1 DEF DictatesAlone, SlotFollows, SlotOf, Claimed, NoCall, DictationCalls, SlotIdle, In
<1>5. StartHasNoWorker /\ WorkerUntold
  BY <1>1 DEF StartHasNoWorker, WorkerUntold, Exited, NoWorker
<1> QED
  BY <1>2, <1>3, <1>4, <1>5 DEF PageInv, RecordingWorked, FailureAttended, SessionHeld

(* When no call is in flight, what holds the session is its worker.        *)
LEMMA PageAgrees ==
  ASSUME caller = "page" => PageInv
  PROVE  ServicesAgree
<1> SUFFICES ASSUME PageInv, Quiet
             PROVE  /\ ~control.start_in_flight
                    /\ slot.state \in {"Idle", "Recording"}
                    /\ Live => /\ HasWorker(current.id)
                               /\ slot = In("Recording", current.id) \/ current.id \in tests
  BY DEF ServicesAgree
<1>1. \A c \in Commands : cmd[c].call = "none" /\ cmd[c].pc = "none"
  BY DEF Quiet, NoCall
<1>2. ~control.start_in_flight
  BY <1>1 DEF PageInv, StartHasNoWorker, InFlightSteps
<1>3. slot.state \in {"Idle", "Recording"}
  BY <1>1 DEF PageInv, SlotFollows, Claimed
<1>4. \A c \in Commands : ~Attends(c) /\ ~Approaches(c)
  BY <1>1 DEF Attends, AttendSteps, Approaches
<1> QED
  BY <1>2, <1>3, <1>4 DEF PageInv, SessionHeld, Reachable

(* Named twice, once with Disciplined TRUE, the invariant is the same.      *)
LEMMA SameRuntimeInv ==
  ASSUME R!RuntimeInv, R!AttendedInv
  PROVE  RuntimeInv /\ AttendedInv
<1> /\ R!TypeOK /\ R!StepsMatchCalls /\ R!CurrentIsNewest /\ R!EmptyHasNoOwner /\ R!Exclusive
    /\ R!StartOwns /\ R!ClearedStaysClear /\ R!StateAtStep /\ R!SlotAtStep /\ R!Reserved
    /\ R!WorkMatchesSession /\ R!LossIsAttended /\ R!FinalizingIsHeld /\ R!StoppedIsTaken
    /\ R!ReleasesAreLate
  BY DEF R!RuntimeInv, R!BasicInv, R!AttendedInv
<1>1. TypeOK
  BY DEF TypeOK, LifecycleTypeOK, SessionState, Terminal, FailureStage, Calls, Steps, R!TypeOK,
         R!LifecycleTypeOK, R!SessionState, R!Terminal, R!FailureStage, R!Calls, R!Steps
<1>2. StepsMatchCalls
  BY DEF StepsMatchCalls, Pipeline, Begun, R!StepsMatchCalls, R!Pipeline, R!Begun
<1>3. CurrentIsNewest /\ EmptyHasNoOwner
  BY DEF CurrentIsNewest, EmptyHasNoOwner, R!CurrentIsNewest, R!EmptyHasNoOwner
<1>4. Exclusive
  BY DEF Exclusive, Pipeline, R!Exclusive, R!Pipeline
<1>5. StartOwns
  BY DEF StartOwns, Owns, Live, Terminal, EmptySlot, Slot, R!StartOwns, R!Owns, R!Live,
         R!Terminal, R!EmptySlot, R!Slot
<1>6. ClearedStaysClear /\ Reserved
  BY DEF ClearedStaysClear, Reserved, R!ClearedStaysClear, R!Reserved
<1>7. StateAtStep /\ SlotAtStep
  BY DEF StateAtStep, SlotAtStep, Owns, Live, Terminal, R!StateAtStep, R!SlotAtStep, R!Owns,
         R!Live, R!Terminal
<1>8. WorkMatchesSession
  BY DEF WorkMatchesSession, OwnerStates, R!WorkMatchesSession, R!OwnerStates
<1>9. LossIsAttended
  BY DEF LossIsAttended, Concludes, Live, Terminal, R!LossIsAttended, R!Concludes, R!Live,
         R!Terminal
<1>10. FinalizingIsHeld /\ StoppedIsTaken
  BY DEF FinalizingIsHeld, StoppedIsTaken, R!FinalizingIsHeld, R!StoppedIsTaken
<1>11. ReleasesAreLate
  BY DEF ReleasesAreLate, Owns, Live, Terminal, R!ReleasesAreLate, R!Owns, R!Live, R!Terminal
<1> QED
  BY <1>1, <1>2, <1>3, <1>4, <1>5, <1>6, <1>7, <1>8, <1>9, <1>10, <1>11
  DEF RuntimeInv, BasicInv, AttendedInv

(* What the runtime promises its disciplined callers, as one invariant.    *)
LEMMA RuntimeServes == DesktopSpec => [](RuntimeInv /\ AttendedInv)
<1>1. TRUE
  OBVIOUS
<1>2. R!Spec => [](R!RuntimeInv /\ R!AttendedInv)
  BY <1>1, RuntimeAssumed, R!AttendedHolds
<1>3. R!RuntimeInv /\ R!AttendedInv => RuntimeInv /\ AttendedInv
  BY SameRuntimeInv
<1> QED
  BY <1>2, <1>3, RuntimeImplemented, SameRuntime, PTL

(* When the page waits for every answer, no sequence of its calls and of   *)
(* microphone tests leaves a recording that nobody can stop.               *)
THEOREM PageControlsSessions == DesktopSpec => []ServicesAgree
<1> DEFINE Paged == caller = "page" => PageInv
<1>1. DesktopInit => Paged
  BY DesktopInitIsThePage
<1>2. Paged /\ DisciplineInv /\ RuntimeInv /\ AttendedInv /\ [DesktopNext]_desktopVars => Paged'
  BY CallerStays, PageKept
<1>3. Paged => ServicesAgree
  BY PageAgrees
<1> QED
  BY <1>1, <1>2, <1>3, ServicesDisciplined, RuntimeServes, PTL DEF DesktopSpec
=============================================================================
