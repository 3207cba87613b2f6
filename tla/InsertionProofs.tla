---------------------------- MODULE InsertionProofs ----------------------------
(***************************************************************************)
(* Theorems about InsertionService for any number of dictations, texts,    *)
(* keycodes, devices, events and crashes.                                  *)
(***************************************************************************)
EXTENDS InsertionService, SequenceTheorems, WellFoundedInduction, TLAPS

---------------------------------------------------------------------------
(* Types.                                                                  *)

Results == ErrorKinds \cup {"Ok"}

JobType ==
  [owner: Owners \cup {None}, pc: {"none", "call", "submit", "asked"}, submitted: Nat,
   failed: BOOLEAN]

CallStates == {"none", "waiting", "holding", "returned"}

CallTypes ==
  /\ text \in [Owners -> Texts]
  /\ job \in JobType
  /\ job.owner = None <=> job.pc = "none"
  /\ typed \in [Owners -> Seq(Piece)]
  /\ outcome \in [Owners -> Results \cup {"none"}]
  /\ calls \in [Owners -> CallStates]

XRecord ==
  [scratch: Keycodes \cup {0}, original: Piece, active: Piece, left: SUBSET (Keycodes \cup {0})]

XTypes ==
  /\ layout \in [Keycodes -> Piece]
  /\ keymap \in [Keycodes -> Piece]
  /\ x11 \in XRecord

SlotType == [device: Devices, added: Nat, resumed: BOOLEAN, emulating: BOOLEAN]

WorkerType ==
  [pc: {"none", "waiting", "serving", "exited"}, slots: SUBSET SlotType, serial: Nat]

EventType == [kind: {"added", "resumed", "paused", "removed"}, device: Devices, serial: Nat]

StartType == [kind: {"start"}, device: Devices, serial: Nat, owner: Owners]

TextType == [kind: {"text"}, device: Devices, piece: Piece, owner: Owners]

RequestType == StartType \cup TextType

DeviceType == [state: {"absent", "paused", "resumed"}, emulating: BOOLEAN, since: Nat]

CompositorType == [device: [Devices -> DeviceType], sent: Nat]

EisTypes ==
  /\ eis \in WorkerType
  /\ events \in Seq(EventType)
  /\ requests \in Seq(RequestType)
  /\ compositor \in CompositorType

(* A call that holds the lock has not ended, and one that has not begun    *)
(* has no outcome.                                                         *)
LockHeld ==
  \A o \in Owners :
    /\ job.owner = o => calls[o] = "holding" /\ outcome[o] = "none"
    /\ calls[o] \in {"none", "waiting"} => outcome[o] = "none"

(* Each backend's steps belong to its own environment, and a worker that   *)
(* waits for a device has a call waiting for it.                           *)
BackendsApart ==
  /\ job.pc = "submit" => Backend = "x11" /\ x11.scratch # 0
  /\ job.pc = "asked" => Backend = "eis"
  /\ eis.pc = "waiting" => JobAt("eis", "call")

Types == CallTypes /\ XTypes /\ EisTypes /\ LockHeld /\ BackendsApart
---------------------------------------------------------------------------
(* The least of some numbers.                                              *)

(* The natural numbers are well-ordered.                                   *)
LEMMA LeastNat ==
  ASSUME NEW T, T \subseteq Nat, T # {}
  PROVE  \E m \in T : \A n \in T : m <= n
<1> DEFINE R == {p \in Nat \X Nat : p[1] < p[2]}
<1>1. IsWellFoundedOn(R, Nat)
  BY NatLessThanWellFounded DEF OpToRel
<1> HIDE DEF R
<1>2. PICK m \in T : \A n \in T : <<n, m>> \notin R
  BY <1>1, WFMin
<1>3. \A n \in T : ~(n < m)
  BY <1>2 DEF R
<1> QED
  BY <1>3

(* The scratch key is a free key, as long as there is one.                 *)
LEMMA FirstFreeKeyIsFree == ASSUME FreeKeys # {} PROVE FirstFreeKey \in FreeKeys
<1>1. FreeKeys \subseteq Nat
  BY XTestAssumption DEF FreeKeys
<1> QED
  BY <1>1, LeastNat DEF FirstFreeKey

---------------------------------------------------------------------------
(* Types are kept.                                                         *)

(* The meanings of keys are pieces, and the texts consist of them.         *)
LEMMA PiecesOfTexts ==
  /\ {"user", "Return", Unused} \subseteq Piece
  /\ \A t \in Texts : t \in Seq(Piece) /\ \A i \in 1 .. Len(t) : t[i] \in Piece /\ t[i] # Unused
<1> DEFINE Contents(t) == {t[i] : i \in DOMAIN t}
<1> DEFINE All == UNION {Contents(t) : t \in Texts}
<1>3. Piece = {"Return", Unused, "user"} \cup All
  BY DEF Piece
<1>4. ASSUME NEW t \in Texts, NEW i \in DOMAIN t
      PROVE  t[i] \in All
  <2>1. t[i] \in Contents(t)
    OBVIOUS
  <2> HIDE DEF Contents
  <2> QED
    BY <2>1
<1> HIDE DEF All
<1>1. {"user", "Return", Unused} \subseteq Piece
  BY <1>3
<1>2. ASSUME NEW t \in Texts
      PROVE  t \in Seq(Piece) /\ \A i \in 1 .. Len(t) : t[i] \in Piece /\ t[i] # Unused
  <2>1. t \in Seq(STRING) /\ \A i \in DOMAIN t : t[i] # Unused
    BY ServiceAssumption
  <2>2. DOMAIN t = 1 .. Len(t) /\ Len(t) \in Nat /\ t = [i \in 1 .. Len(t) |-> t[i]]
    BY <2>1
  <2>3. \A i \in DOMAIN t : t[i] \in Piece
    BY <1>3, <1>4
  <2>4. t \in [1 .. Len(t) -> Piece]
    BY <2>2, <2>3
  <2>5. t \in Seq(Piece)
    BY <2>2, <2>4, SeqDef
  <2> QED
    BY <2>1, <2>2, <2>3, <2>5
<1> QED
  BY <1>1, <1>2

(* The text of a job is one of the texts, of pieces that mean something.   *)
LEMMA JobTextTyped ==
  ASSUME CallTypes, job.owner # None
  PROVE  /\ job.owner \in Owners
         /\ JobText \in Seq(Piece)
         /\ \A i \in 1 .. Len(JobText) : JobText[i] \in Piece /\ JobText[i] # Unused
<1>1. job.owner \in Owners
  BY DEF CallTypes, JobType
<1>2. JobText \in Texts
  BY <1>1 DEF CallTypes, JobText
<1> QED
  BY <1>1, <1>2, PiecesOfTexts

(* What a step of an insertion does to the call it serves: ends it, takes  *)
(* it on or leaves it alone.                                               *)
CallStep ==
  /\ UNCHANGED <<text, calls>>
  /\ \/ job.owner # None /\ \E result \in Results : End(result)
     \/ /\ job.owner # None /\ job' \in JobType /\ job'.owner = job.owner /\ job'.pc # "none"
        /\ UNCHANGED outcome
     \/ UNCHANGED <<job, outcome>>

LEMMA CallStepKeeps ==
  ASSUME CallTypes, LockHeld, CallStep, typed' \in [Owners -> Seq(Piece)]
  PROVE  CallTypes' /\ LockHeld'
<1>1. CASE job.owner # None /\ \E result \in Results : End(result)
  <2>1. PICK result \in Results : End(result)
    BY <1>1
  <2>2. job.owner \in Owners /\ None \notin Owners
    BY <1>1, InsertionAssumption DEF CallTypes, JobType
  <2>3. job' \in JobType /\ job'.owner = None /\ job'.pc = "none"
    BY <2>1 DEF End, NoJob, JobType
  <2>4. outcome' \in [Owners -> Results \cup {"none"}]
    BY <2>1, <2>2 DEF End, CallTypes
  <2>5. CallTypes'
    BY <2>3, <2>4 DEF CallTypes, CallStep
  <2>6. \A o \in Owners : o # job.owner => outcome'[o] = outcome[o]
    BY <2>1, <2>2 DEF End, CallTypes
  <2>7. calls[job.owner] = "holding"
    BY <2>2 DEF LockHeld
  <2>8. LockHeld'
    BY <2>2, <2>3, <2>6, <2>7 DEF LockHeld, CallStep
  <2> QED
    BY <2>5, <2>8
<1>2. CASE /\ job.owner # None /\ job' \in JobType /\ job'.owner = job.owner
           /\ job'.pc # "none" /\ UNCHANGED outcome
  BY <1>2 DEF CallTypes, LockHeld, CallStep
<1>3. CASE UNCHANGED <<job, outcome>>
  BY <1>3 DEF CallTypes, LockHeld, CallStep
<1> QED
  BY <1>1, <1>2, <1>3 DEF CallStep

(* The backend stays the same.                                             *)
LEMMA BackendKept == ASSUME UNCHANGED environment PROVE Backend' = Backend
BY DEF Backend

LEMMA EndStep ==
  ASSUME job.owner # None, UNCHANGED <<text, calls>>, \E result \in Results : End(result)
  PROVE  CallStep /\ job' = NoJob /\ job'.pc = "none" /\ job'.owner = None
<1>1. CallStep
  BY DEF CallStep
<1>2. job' = NoJob
  BY DEF End
<1> QED
  BY <1>1, <1>2 DEF NoJob

LEMMA JobMoves ==
  ASSUME CallTypes, job.owner # None, NEW step \in {"call", "submit", "asked"}, JobGoes(step)
  PROVE  job' \in JobType /\ job'.owner = job.owner /\ job'.pc = step
BY DEF CallTypes, JobType, JobGoes

(* A piece received is appended to what its dictation has typed.           *)
LEMMA ReceivesTyped ==
  ASSUME CallTypes, NEW o \in Owners, NEW piece \in Piece, Receives(o, piece)
  PROVE  typed' \in [Owners -> Seq(Piece)]
BY DEF CallTypes, Receives

---------------------------------------------------------------------------
(* The X11 adapter.                                                        *)

LEMMA XStepKeepsTypes ==
  ASSUME Types, XStep, UNCHANGED <<eisVars, callVars, environment, text>>
  PROVE  Types'
<1>1. /\ CallTypes /\ LockHeld /\ job.owner # None /\ Backend = "x11" /\ Backend' = "x11"
      /\ UNCHANGED <<calls, text>> /\ eis.pc # "waiting"
  BY BackendKept
  DEF Types, BackendsApart, XStep, XConnect, XBegin, ApplyKeysym, Submitting, EmitKey,
      RestoreMapping, JobAt, callVars
<1>2. /\ job \in JobType /\ x11 \in XRecord /\ layout \in [Keycodes -> Piece]
      /\ keymap \in [Keycodes -> Piece]
  BY DEF Types, CallTypes, XTypes
<1>3. EisTypes' /\ eis'.pc = eis.pc
  BY DEF Types, EisTypes, eisVars
<1>4. SUFFICES CallStep /\ typed' \in [Owners -> Seq(Piece)] /\ XTypes'
               /\ (job'.pc = "submit" => x11'.scratch # 0) /\ job'.pc # "asked"
  <2>1. BackendsApart'
    BY <1>1, <1>3, <1>4 DEF BackendsApart
  <2> QED
    BY <1>1, <1>3, <1>4, <2>1, CallStepKeeps DEF Types
<1>5. "BackendUnavailable" \in Results /\ "InvalidText" \in Results
  BY DEF Results, ErrorKinds
<1>6. CASE XConnect
  <2>1. CASE FreeKeys # {} /\ UNCHANGED <<job, outcome>>
             /\ x11' = [x11 EXCEPT !.scratch = FirstFreeKey, !.original = keymap[FirstFreeKey]]
    <3>1. FirstFreeKey \in Keycodes
      BY <2>1, FirstFreeKeyIsFree DEF FreeKeys
    <3>2. x11' \in XRecord
      BY <1>2, <2>1, <3>1 DEF XRecord
    <3> QED
      BY <1>1, <1>2, <1>6, <2>1, <3>2 DEF XConnect, CallStep, XTypes, CallTypes, JobAt
  <2>2. CASE End("BackendUnavailable") /\ UNCHANGED x11
    BY <1>1, <1>2, <1>5, <1>6, <2>2 DEF XConnect, CallStep, XTypes, CallTypes, End, NoJob
  <2> QED
    BY <1>6, <2>1, <2>2 DEF XConnect
<1>7. CASE XBegin
  <2>1. x11' \in XRecord /\ x11'.scratch = x11.scratch
    BY <1>2, <1>7, PiecesOfTexts DEF XBegin, XRecord
  <2>2. CASE JobGoes("submit") /\ UNCHANGED outcome
    <3>1. job' \in JobType /\ job'.owner = job.owner /\ job'.pc = "submit"
      BY <1>1, <2>2, JobMoves
    <3> QED
      BY <1>1, <1>2, <1>7, <2>1, <2>2, <3>1 DEF XBegin, CallStep, XTypes, CallTypes
  <2>3. CASE End("InvalidText")
    BY <1>1, <1>2, <1>5, <1>7, <2>1, <2>3 DEF XBegin, CallStep, XTypes, CallTypes, End, NoJob
  <2> QED
    BY <1>7, <2>2, <2>3 DEF XBegin
<1>8. CASE ApplyKeysym
  <2>1. job.submitted \in Nat /\ job.submitted + 1 \in 1 .. Len(JobText)
    BY <1>1, <1>2, <1>8, JobTextTyped DEF ApplyKeysym, Submitting, JobType
  <2>2. NextKeysym \in Piece
    BY <1>1, <2>1, JobTextTyped, PiecesOfTexts DEF NextKeysym, Keysym
  <2>3. keymap' \in [Keycodes -> Piece]
    BY <1>2, <1>8, <2>2 DEF ApplyKeysym, GiveMeaning
  <2>4. x11' \in XRecord /\ x11'.scratch = x11.scratch
    BY <1>2, <1>8, <2>2 DEF ApplyKeysym, XRecord
  <2>5. UNCHANGED job \/ Fail
    BY <1>8 DEF ApplyKeysym
  <2>6. job' \in JobType /\ job'.owner = job.owner /\ job'.pc = "submit"
    BY <1>2, <1>8, <2>5 DEF ApplyKeysym, Submitting, JobAt, Fail, JobType
  <2>7. x11.scratch # 0
    BY <1>8 DEF ApplyKeysym, Submitting, JobAt, Types, BackendsApart
  <2> QED
    BY <1>1, <1>2, <1>8, <2>3, <2>4, <2>6, <2>7 DEF ApplyKeysym, CallStep, XTypes, CallTypes
<1>9. CASE EmitKey
  <2>1. x11.scratch \in Keycodes
    BY <1>2, <1>9 DEF EmitKey, Submitting, JobAt, Types, BackendsApart, XRecord
  <2>2. keymap[x11.scratch] \in Piece /\ job.owner \in Owners
    BY <1>1, <1>2, <2>1, JobTextTyped
  <2>3. typed' \in [Owners -> Seq(Piece)]
    <3>1. CASE UNCHANGED typed
      BY <1>1, <3>1 DEF CallTypes
    <3>2. CASE Receives(job.owner, keymap[x11.scratch])
      BY <1>1, <2>2, <3>2, ReceivesTyped
    <3> QED
      BY <1>9, <3>1, <3>2 DEF EmitKey
  <2>4. job' = [job EXCEPT !.submitted = @ + 1] \/ Fail
    BY <1>9 DEF EmitKey
  <2>5. job' \in JobType /\ job'.owner = job.owner /\ job'.pc = "submit"
    <3>1. job.pc = "submit"
      BY <1>9 DEF EmitKey, Submitting, JobAt
    <3>2. CASE job' = [job EXCEPT !.submitted = @ + 1]
      BY <1>2, <3>1, <3>2 DEF JobType
    <3>3. CASE Fail
      BY <1>2, <3>1, <3>3 DEF Fail, JobType
    <3> QED
      BY <2>4, <3>2, <3>3
  <2>6. UNCHANGED <<outcome, layout, keymap, x11>>
    BY <1>9 DEF EmitKey, xVars
  <2> QED
    BY <1>1, <1>2, <2>1, <2>3, <2>5, <2>6, XTestAssumption DEF CallStep, XTypes
<1>10. CASE RestoreMapping
  <2>1. PICK restored \in BOOLEAN : End(XResult(restored))
    BY <1>10 DEF RestoreMapping
  <2>2. XResult(restored) \in Results
    BY <2>1 DEF XResult, BrokenOff, Results, ErrorKinds
  <2>3. UNCHANGED keymap \/ GiveMeaning(x11.original)
    BY <1>10 DEF RestoreMapping
  <2>4. keymap' \in [Keycodes -> Piece]
    BY <1>2, <2>3 DEF GiveMeaning, XRecord
  <2>5. \E s \in {0, x11.scratch}, left \in {x11.left \ {x11.scratch}, x11.left \cup {x11.scratch}} :
          x11' = [x11 EXCEPT !.scratch = s, !.left = left]
    BY <1>10 DEF RestoreMapping
  <2>6. x11' \in XRecord
    <3>1. PICK s \in {0, x11.scratch},
               left \in {x11.left \ {x11.scratch}, x11.left \cup {x11.scratch}} :
                 x11' = [x11 EXCEPT !.scratch = s, !.left = left]
      BY <2>5
    <3>2. s \in Keycodes \cup {0}
      BY <1>2 DEF XRecord
    <3>3. left \in SUBSET (Keycodes \cup {0})
      BY <1>2 DEF XRecord
    <3> QED
      BY <1>2, <3>1, <3>2, <3>3 DEF XRecord
  <2>7. job' = NoJob /\ UNCHANGED <<typed, layout>>
    BY <1>10, <2>1 DEF RestoreMapping, End
  <2> QED
    BY <1>1, <1>2, <2>1, <2>2, <2>4, <2>6, <2>7 DEF CallStep, XTypes, CallTypes, NoJob
<1> QED
  BY <1>6, <1>7, <1>8, <1>9, <1>10 DEF XStep

---------------------------------------------------------------------------
(* The EIS adapter.                                                        *)

(* The parts of a request.                                                 *)
LEMMA RequestParts ==
  ASSUME NEW r \in RequestType
  PROVE  /\ r.kind \in {"start", "text"} /\ r.device \in Devices /\ r.owner \in Owners
         /\ r.kind = "start" => r.serial \in Nat
         /\ r.kind = "text" => r.piece \in Piece
<1>1. CASE r \in StartType
  BY <1>1 DEF StartType
<1>2. CASE r \in TextType
  BY <1>2 DEF TextType
<1> QED
  BY <1>1, <1>2 DEF RequestType

LEMMA DisconnectTyped ==
  ASSUME EisTypes, NEW step \in {"none", "exited"}, Disconnect(step)
  PROVE  EisTypes' /\ eis'.pc = step
<1>1. eis' \in WorkerType /\ eis'.pc = step
  BY DEF Disconnect, NoWorker, WorkerType
<1>2. compositor' \in CompositorType
  BY DEF Disconnect, EisTypes, CompositorType, DeviceType, Absent
<1>3. events' \in Seq(EventType) /\ requests' \in Seq(RequestType)
  BY DEF Disconnect
<1> QED
  BY <1>1, <1>2, <1>3 DEF EisTypes

(* Whatever the event, the slots stay slots.                               *)
LEMMA SlotsAfterTyped ==
  ASSUME eis \in WorkerType, NEW event \in EventType
  PROVE  SlotsAfter(event) \subseteq SlotType
<1>1. eis.slots \subseteq SlotType
  BY DEF WorkerType
<1>2. event.device \in Devices /\ event.serial \in Nat
  BY DEF EventType
<1>3. Slot(event) \in SlotType
  BY <1>2 DEF Slot, SlotType
<1>4. ASSUME NEW resumed \in BOOLEAN
      PROVE  SetResumed(eis.slots, event.device, resumed) \subseteq SlotType
  <2>1. \A slot \in eis.slots :
          [slot EXCEPT !.resumed = resumed, !.emulating = FALSE] \in SlotType
    BY <1>1 DEF SlotType
  <2> QED
    BY <1>1, <2>1 DEF SetResumed
<1>5. CASE event.kind = "added"
  BY <1>1, <1>3, <1>5 DEF SlotsAfter
<1>6. CASE event.kind = "removed"
  BY <1>1, <1>6 DEF SlotsAfter
<1>7. CASE event.kind \notin {"added", "removed"}
  BY <1>4, <1>7 DEF SlotsAfter
<1> QED
  BY <1>5, <1>6, <1>7

(* What is left of the requests, or of the events, has its type.           *)
LEMMA TailTyped ==
  ASSUME NEW S, NEW s \in Seq(S), s # <<>>
  PROVE  Head(s) \in S /\ Tail(s) \in Seq(S)
OBVIOUS

LEMMA TextRequestsTyped ==
  ASSUME CallTypes, job.owner # None, NEW d \in Devices, NEW n \in 0 .. Len(JobText)
  PROVE  TextRequests(d, n) \in Seq(RequestType) /\ Len(TextRequests(d, n)) = n
<1>1. Len(JobText) \in Nat
  BY JobTextTyped
<1>2. ASSUME NEW i \in 1 .. n
      PROVE  [kind |-> "text", device |-> d, piece |-> JobText[i], owner |-> job.owner]
               \in RequestType
  <2>1. JobText[i] \in Piece /\ job.owner \in Owners
    BY <1>1, JobTextTyped
  <2> QED
    BY <2>1 DEF RequestType, TextType
<1>3. TextRequests(d, n) \in [1 .. n -> RequestType]
  BY <1>2 DEF TextRequests
<1>4. n \in Nat
  BY <1>1
<1>5. TextRequests(d, n) \in Seq(RequestType)
  BY <1>3, <1>4, SeqDef
<1> QED
  BY <1>3, <1>4, <1>5, LenProperties

(* What every step of the EIS adapter has to keep, and what follows.       *)
LEMMA EisStepTypes ==
  ASSUME Types, CallStep, UNCHANGED <<xVars, environment>>, EisTypes',
         typed' \in [Owners -> Seq(Piece)],
         job'.pc = "submit" => job.pc = "submit",
         job'.pc = "asked" => Backend = "eis",
         eis'.pc = "waiting" => Backend = "eis" /\ job'.owner # None /\ job'.pc = "call"
  PROVE  Types'
<1>1. XTypes' /\ UNCHANGED x11
  BY DEF Types, XTypes, xVars
<1>2. BackendsApart'
  BY <1>1, BackendKept DEF Types, BackendsApart, JobAt
<1> QED
  BY <1>1, <1>2, CallStepKeeps DEF Types

LEMMA EisCallKeepsTypes ==
  ASSUME Types, EisCall, UNCHANGED <<xVars, callVars, environment, text>>
  PROVE  Types'
<1>1. /\ CallTypes /\ job.owner # None /\ job.pc = "call" /\ Backend = "eis"
      /\ UNCHANGED <<calls, text, typed, events, requests, compositor>>
      /\ typed' \in [Owners -> Seq(Piece)]
  BY DEF Types, CallTypes, EisCall, EisConnect, Ask, JobAt, callVars
<1>2. {"PermissionDenied", "BackendFailure", "InvalidText", "BackendUnavailable"} \subseteq Results
  BY DEF Results, ErrorKinds
<1>3. eis' \in WorkerType /\ (eis'.pc = "waiting" => EisConnect /\ UNCHANGED <<job, outcome>>)
  <2>1. eis \in WorkerType
    BY DEF Types, EisTypes
  <2>2. NoWorker \in WorkerType /\ [NoWorker EXCEPT !.pc = "waiting"] \in WorkerType
    BY DEF NoWorker, WorkerType
  <2>3. NoWorker.pc = "none"
    BY DEF NoWorker
  <2>4. CASE Ask
    <3>1. eis.pc \in {"serving", "exited"} /\ eis' \in {eis, NoWorker}
      BY <2>4 DEF Ask
    <3> QED
      BY <2>1, <2>2, <2>3, <3>1
  <2>5. CASE EisConnect
    BY <2>1, <2>2, <2>5 DEF EisConnect
  <2> QED
    BY <2>4, <2>5 DEF EisCall
<1>4. EisTypes'
  BY <1>1, <1>3 DEF Types, EisTypes
<1>5. CASE \E result \in Results : End(result)
  <2>1. CallStep /\ job'.pc = "none"
    BY <1>1, <1>5, EndStep
  <2>2. eis'.pc # "waiting"
    BY <1>1, <1>3, <2>1
  <2> QED
    BY <1>1, <1>4, <2>1, <2>2, EisStepTypes
<1>6. CASE UNCHANGED <<job, outcome>>
  <2>1. CallStep
    BY <1>1, <1>6 DEF CallStep
  <2> QED
    BY <1>1, <1>4, <1>6, <2>1, EisStepTypes
<1>7. CASE Ask /\ JobGoes("asked") /\ UNCHANGED outcome
  <2>1. CallStep /\ job'.pc = "asked"
    BY <1>1, <1>7, JobMoves DEF CallStep
  <2> QED
    BY <1>1, <1>3, <1>4, <1>7, <2>1, EisStepTypes
<1> QED
  BY <1>2, <1>5, <1>6, <1>7 DEF EisCall, EisConnect, Ask

LEMMA WorkerKeepsTypes ==
  ASSUME Types, Worker, UNCHANGED <<xVars, callVars, environment, text>>
  PROVE  Types'
<1>1. /\ CallTypes /\ UNCHANGED <<calls, text, typed>> /\ typed' \in [Owners -> Seq(Piece)]
      /\ eis \in WorkerType /\ EisTypes
  BY DEF Types, CallTypes, EisTypes, Worker, Ready, ReadyFails, HandleEvent, WorkerExits,
         NoTextDevice, WorkerInserts, insertionVars, callVars
<1>2. {"BackendUnavailable", "BackendFailure"} \subseteq Results
  BY DEF Results, ErrorKinds
<1>3. CASE Ready
  <2>1. eis' \in WorkerType /\ eis'.pc = "serving"
    BY <1>1, <1>3 DEF Ready, WorkerType
  <2>2. EisTypes' /\ CallStep /\ UNCHANGED job
    BY <1>1, <1>3, <2>1 DEF Ready, EisTypes, insertionVars, CallStep
  <2> QED
    BY <1>1, <2>1, <2>2, EisStepTypes DEF Types, BackendsApart
<1>4. CASE HandleEvent
  <2>1. Head(events) \in EventType /\ Tail(events) \in Seq(EventType)
    BY <1>1, <1>4, TailTyped DEF HandleEvent, EisTypes
  <2>2. SlotsAfter(Head(events)) \subseteq SlotType /\ Head(events).serial \in Nat
    BY <1>1, <2>1, SlotsAfterTyped DEF EventType
  <2>3. \E serial \in Nat :
          eis' = [eis EXCEPT !.slots = SlotsAfter(Head(events)), !.serial = serial]
    <3>1. eis.serial \in Nat
      BY <1>1 DEF WorkerType
    <3> QED
      BY <1>4, <2>2, <3>1 DEF HandleEvent
  <2>4. eis' \in WorkerType /\ eis'.pc = eis.pc
    BY <1>1, <2>2, <2>3 DEF WorkerType
  <2>5. EisTypes' /\ CallStep /\ UNCHANGED job
    BY <1>1, <1>4, <2>1, <2>4 DEF HandleEvent, EisTypes, insertionVars, CallStep
  <2> QED
    BY <1>1, <2>4, <2>5, EisStepTypes DEF Types, BackendsApart, JobAt
<1>5. CASE \E step \in {"none", "exited"} : Disconnect(step)
  <2>1. EisTypes' /\ eis'.pc # "waiting"
    BY <1>1, <1>5, DisconnectTyped
  <2>2. CallStep /\ (UNCHANGED job \/ job'.pc = "none")
    <3>1. CASE ReadyFails
      <4>1. job.owner # None
        BY <3>1 DEF ReadyFails, Types, BackendsApart, JobAt
      <4>2. \E result \in Results : End(result)
        BY <1>2, <3>1 DEF ReadyFails
      <4> QED
        BY <1>1, <4>1, <4>2, EndStep
    <3>2. CASE WorkerExits
      <4>1. CASE UNCHANGED <<job, outcome>>
        BY <1>1, <4>1 DEF CallStep
      <4>2. CASE job.owner # None /\ End("BackendFailure")
        BY <1>1, <1>2, <4>2, EndStep
      <4> QED
        BY <3>2, <4>1, <4>2 DEF WorkerExits, JobAt
    <3>3. CASE NoTextDevice
      <4>1. job.owner # None /\ \E result \in Results : End(result)
        BY <1>2, <3>3 DEF NoTextDevice, JobAt
      <4> QED
        BY <1>1, <4>1, EndStep
    <3>4. CASE WorkerInserts
      <4>1. job.owner # None /\ \E result \in Results : End(result)
        BY <3>4 DEF WorkerInserts, Submit, BrokenOff, JobAt, Results, ErrorKinds
      <4> QED
        BY <1>1, <4>1, EndStep
    <3>5. CASE Ready \/ HandleEvent
      BY <1>1, <3>5 DEF Ready, HandleEvent, insertionVars, CallStep
    <3> QED
      BY <3>1, <3>2, <3>3, <3>4, <3>5 DEF Worker
  <2> QED
    BY <1>1, <2>1, <2>2, EisStepTypes DEF Types, BackendsApart
<1>6. CASE WorkerInserts /\ ~\E step \in {"none", "exited"} : Disconnect(step)
  <2>1. PICK slot \in TextSlots, n \in 0 .. Len(JobText), out \in 0 .. Len(JobText) :
          Submit(slot, n, out)
    BY <1>6 DEF WorkerInserts
  <2> DEFINE start == IF slot.emulating THEN <<>> ELSE <<StartRequest(slot.device)>>
  <2>2. /\ \E result \in Results : End(result)
        /\ requests' = requests \o start \o TextRequests(slot.device, out)
        /\ eis' = [eis EXCEPT !.slots = (@ \ {slot}) \cup {[slot EXCEPT !.emulating = TRUE]}]
        /\ UNCHANGED <<events, compositor>>
    BY <1>6, <2>1 DEF Submit, BrokenOff, Results, ErrorKinds
  <2>3. job.owner # None /\ job.owner \in Owners /\ eis.pc = "serving" /\ eis.serial \in Nat
    BY <1>1, <1>6, JobTextTyped DEF WorkerInserts, JobAt, WorkerType
  <2>4. slot \in SlotType /\ slot.device \in Devices
    BY <1>1 DEF TextSlots, WorkerType, SlotType
  <2>5. eis' \in WorkerType /\ eis'.pc = "serving"
    <3>1. [slot EXCEPT !.emulating = TRUE] \in SlotType
      BY <2>4 DEF SlotType
    <3> QED
      BY <1>1, <2>2, <2>3, <3>1 DEF WorkerType
  <2>6. requests' \in Seq(RequestType)
    <3>1. StartRequest(slot.device) \in StartType
      BY <2>3, <2>4 DEF StartRequest, StartType
    <3>2. start \in Seq(RequestType)
      <4>1. <<StartRequest(slot.device)>> \in Seq(RequestType)
        BY <3>1 DEF RequestType
      <4> QED
        BY <4>1
    <3>3. TextRequests(slot.device, out) \in Seq(RequestType)
      BY <1>1, <2>3, <2>4, TextRequestsTyped
    <3>4. requests \in Seq(RequestType)
      BY <1>1 DEF EisTypes
    <3> HIDE DEF start
    <3> QED
      BY <2>2, <3>2, <3>3, <3>4
  <2>7. EisTypes'
    BY <1>1, <2>2, <2>5, <2>6 DEF EisTypes
  <2>8. CallStep /\ job'.pc = "none"
    BY <1>1, <2>2, <2>3, EndStep
  <2> QED
    BY <1>1, <2>5, <2>7, <2>8, EisStepTypes
<1> QED
  BY <1>3, <1>4, <1>5, <1>6 DEF Worker, ReadyFails, WorkerExits, NoTextDevice

(* The compositor changes its devices and takes requests; the user may     *)
(* change the layout.                                                      *)
LEMMA OutsideKeepsTypes ==
  ASSUME Types, Outside, UNCHANGED <<environment, text>>
  PROVE  Types'
<1>1. CallTypes /\ EisTypes /\ XTypes /\ UNCHANGED <<calls, text>>
  BY DEF Types, Outside, callVars
<1>2. CASE ChangeLayout /\ UNCHANGED eisVars
  <2>1. UNCHANGED <<job, typed, outcome, x11, eis, events, requests, compositor>>
    BY <1>2 DEF ChangeLayout, insertionVars, eisVars
  <2>2. layout' \in [Keycodes -> Piece] /\ keymap' \in [Keycodes -> Piece]
    <3>1. "user" \in Piece
      BY PiecesOfTexts
    <3>2. layout \in [Keycodes -> Piece] /\ keymap \in [Keycodes -> Piece]
      BY <1>1 DEF XTypes
    <3> QED
      BY <1>2, <3>1, <3>2 DEF ChangeLayout
  <2>3. CallTypes' /\ EisTypes' /\ XTypes'
    BY <1>1, <2>1, <2>2 DEF CallTypes, EisTypes, XTypes
  <2>4. LockHeld'
    BY <1>1, <2>1 DEF Types, LockHeld
  <2>5. BackendsApart'
    BY <2>1, BackendKept DEF Types, BackendsApart, JobAt
  <2> QED
    BY <2>3, <2>4, <2>5 DEF Types
<1>3. CASE ChangeDevice /\ UNCHANGED xVars
  <2>1. PICK d \in Devices, kind \in {"added", "resumed", "paused", "removed"},
            state \in {"absent", "paused", "resumed"} : Change(d, kind, state)
    BY <1>3 DEF ChangeDevice
  <2>2. UNCHANGED <<job, typed, outcome, eis, requests>>
    BY <2>1 DEF Change, insertionVars
  <2>3. compositor.sent \in Nat /\ compositor.device \in [Devices -> DeviceType]
    BY <1>1 DEF EisTypes, CompositorType
  <2>4. compositor' \in CompositorType
    <3>1. [state |-> state, emulating |-> FALSE, since |-> compositor.sent + 1] \in DeviceType
      BY <2>1, <2>3 DEF DeviceType
    <3> QED
      BY <2>1, <2>3, <3>1 DEF Change, CompositorType
  <2>5. events' \in Seq(EventType)
    <3>1. [kind |-> kind, device |-> d, serial |-> compositor.sent + 1] \in EventType
      BY <2>1, <2>3 DEF EventType
    <3> QED
      BY <1>1, <2>1, <3>1 DEF Change, EisTypes
  <2>6. EisTypes' /\ CallStep /\ typed' \in [Owners -> Seq(Piece)]
    BY <1>1, <2>2, <2>4, <2>5 DEF EisTypes, CallStep, CallTypes
  <2> QED
    BY <1>3, <2>2, <2>6, EisStepTypes DEF Types, BackendsApart, JobAt
<1>4. CASE HandleRequest /\ UNCHANGED xVars
  <2> DEFINE request == Head(requests)
  <2>1. request \in RequestType /\ Tail(requests) \in Seq(RequestType)
    BY <1>1, <1>4, TailTyped DEF HandleRequest, EisTypes
  <2>2. UNCHANGED <<job, outcome, eis, events>> /\ requests' = Tail(requests)
    BY <1>4 DEF HandleRequest
  <2>3. typed' \in [Owners -> Seq(Piece)]
    <3>1. CASE UNCHANGED typed
      BY <1>1, <3>1 DEF CallTypes
    <3>2. CASE request.kind = "text" /\ Receives(request.owner, request.piece)
      BY <1>1, <2>1, <3>2, ReceivesTyped, RequestParts
    <3> QED
      BY <1>4, <3>1, <3>2 DEF HandleRequest
  <2>4. compositor' \in CompositorType
    <3>1. CASE UNCHANGED compositor
      BY <1>1, <3>1 DEF EisTypes
    <3>2. CASE \E emulating \in BOOLEAN :
                 compositor' = [compositor EXCEPT !.device[request.device].emulating = emulating]
      <4>1. compositor.device \in [Devices -> DeviceType] /\ request.device \in Devices
        BY <1>1, <2>1, RequestParts DEF EisTypes, CompositorType
      <4>2. PICK emulating \in BOOLEAN :
              compositor' = [compositor EXCEPT !.device[request.device].emulating = emulating]
        BY <3>2
      <4>3. [compositor.device EXCEPT ![request.device].emulating = emulating]
              \in [Devices -> DeviceType]
        BY <4>1 DEF DeviceType
      <4>4. compositor'.device \in [Devices -> DeviceType] /\ compositor'.sent = compositor.sent
        BY <1>1, <4>2, <4>3 DEF EisTypes, CompositorType
      <4> QED
        BY <1>1, <4>2, <4>4 DEF EisTypes, CompositorType
    <3>3. request.kind = "start" =>
            compositor.device[request.device].emulating \in BOOLEAN
      BY <1>1, <2>1, RequestParts DEF EisTypes, CompositorType, DeviceType
    <3> QED
      BY <1>4, <3>1, <3>2, <3>3 DEF HandleRequest
  <2>5. EisTypes' /\ CallStep
    BY <1>1, <2>1, <2>2, <2>4 DEF EisTypes, CallStep
  <2> QED
    BY <1>4, <2>2, <2>3, <2>5, EisStepTypes DEF Types, BackendsApart, JobAt
<1> QED
  BY <1>2, <1>3, <1>4 DEF Outside

---------------------------------------------------------------------------
(* The other backends, the calls and the crash.                            *)

LEMMA OtherBackendsKeepTypes ==
  ASSUME Types, NoBackend \/ NativeInsert,
         UNCHANGED <<xVars, eisVars, callVars, environment, text>>
  PROVE  Types'
<1>1. /\ CallTypes /\ job.owner # None /\ UNCHANGED <<calls, text>> /\ Backend # "eis"
      /\ {"BackendUnavailable", "PermissionDenied", "InvalidText", "BackendFailure", "Ok"}
           \subseteq Results
  BY DEF Types, NoBackend, NativeInsert, JobAt, callVars, Results, ErrorKinds
<1>2. \E result \in Results : End(result)
  BY <1>1 DEF NoBackend, NativeInsert
<1>3. typed' \in [Owners -> Seq(Piece)]
  <2>1. CASE UNCHANGED typed
    BY <1>1, <2>1 DEF CallTypes
  <2>2. CASE \E n \in 0 .. Len(JobText) :
               typed' = [typed EXCEPT ![job.owner] = SubSeq(JobText, 1, n)]
    <3>1. PICK n \in 0 .. Len(JobText) :
            typed' = [typed EXCEPT ![job.owner] = SubSeq(JobText, 1, n)]
      BY <2>2
    <3>2. SubSeq(JobText, 1, n) \in Seq(Piece)
      BY <1>1, JobTextTyped, SubSeqProperties
    <3> QED
      BY <1>1, <3>1, <3>2 DEF CallTypes
  <2> QED
    BY <2>1, <2>2 DEF NoBackend, NativeInsert
<1>4. CallStep /\ job'.pc = "none"
  BY <1>1, <1>2, EndStep
<1>5. EisTypes' /\ UNCHANGED eis
  BY DEF Types, EisTypes, eisVars
<1>6. eis'.pc # "waiting"
  BY <1>1, <1>5 DEF Types, BackendsApart, JobAt
<1> QED
  BY <1>3, <1>4, <1>5, <1>6, EisStepTypes

(* Waiting for the lock, taking it and returning from the call.            *)
LEMMA CallKeepsTypes ==
  ASSUME Types, NEW o \in Owners, Call(o) \/ Take(o) \/ Return(o), UNCHANGED <<environment, text>>
  PROVE  Types'
<1>1. CallTypes /\ UNCHANGED <<typed, outcome, xVars, eisVars>>
  BY DEF Types, Call, Take, Return, insertionVars
<1>2. XTypes' /\ EisTypes' /\ UNCHANGED <<x11, eis>>
  BY <1>1 DEF Types, XTypes, EisTypes, xVars, eisVars
<1>3. calls' \in [Owners -> CallStates]
  BY <1>1 DEF Call, Take, Return, CallTypes, CallStates
<1>4. CASE Take(o)
  <2>1. /\ job = NoJob /\ calls[o] = "waiting"
        /\ job' = [NoJob EXCEPT !.owner = o, !.pc = "call"]
        /\ calls' = [calls EXCEPT ![o] = "holding"]
    BY <1>4 DEF Take
  <2>2. /\ job' \in JobType /\ job'.owner = o /\ job'.pc = "call" /\ o # None
        /\ job.owner = None /\ job.pc = "none"
    BY <2>1, InsertionAssumption DEF NoJob, JobType
  <2>3. CallTypes'
    BY <1>1, <1>3, <2>2 DEF CallTypes
  <2>4. LockHeld'
    BY <1>1, <2>1, <2>2 DEF Types, LockHeld, CallTypes
  <2>5. BackendsApart'
    BY <1>2, <2>2, BackendKept DEF Types, BackendsApart, JobAt
  <2> QED
    BY <1>2, <2>3, <2>4, <2>5 DEF Types
<1>5. CASE Call(o) \/ Return(o)
  <2>1. UNCHANGED job
    BY <1>5 DEF Call, Return, insertionVars
  <2>2. /\ calls[o] \in {"none", "holding"}
        /\ calls' = [calls EXCEPT ![o] = IF calls[o] = "none" THEN "waiting" ELSE "returned"]
        /\ calls[o] = "holding" => outcome[o] # "none"
    BY <1>5 DEF Call, Return
  <2>3. CallTypes'
    BY <1>1, <1>3, <2>1 DEF CallTypes
  <2>4. LockHeld'
    BY <1>1, <2>1, <2>2 DEF Types, LockHeld, CallTypes
  <2>5. BackendsApart'
    BY <1>2, <2>1, BackendKept DEF Types, BackendsApart, JobAt
  <2> QED
    BY <1>2, <2>3, <2>4, <2>5 DEF Types
<1> QED
  BY <1>4, <1>5

LEMMA CrashKeepsTypes ==
  ASSUME Types, Crash, UNCHANGED <<environment, text>>
  PROVE  Types'
<1>1. /\ CallTypes /\ EisTypes /\ XTypes /\ UNCHANGED <<typed, outcome, layout, keymap>>
      /\ job' = NoJob
      /\ calls' = [o \in Owners |-> IF calls[o] = "none" THEN "none" ELSE "returned"]
  BY DEF Types, Crash, XCrash
<1>2. job' \in JobType /\ job'.owner = None /\ job'.pc = "none" /\ None \notin Owners
  BY <1>1, InsertionAssumption DEF NoJob, JobType
<1>3. CallTypes'
  BY <1>1, <1>2 DEF CallTypes, CallStates
<1>4. LockHeld'
  BY <1>1, <1>2 DEF Types, LockHeld, CallTypes
<1>5. EisTypes' /\ eis'.pc = "none"
  BY <1>1, DisconnectTyped DEF Crash, EisCrash
<1>6. XTypes'
  <2>1. \E left \in {x11.left, x11.left \cup {x11.scratch}} :
          x11' = [x11 EXCEPT !.scratch = 0, !.left = left]
    BY DEF Crash, XCrash
  <2>2. x11' \in XRecord
    BY <1>1, <2>1 DEF XTypes, XRecord
  <2> QED
    BY <1>1, <2>2 DEF XTypes
<1>7. BackendsApart'
  BY <1>2, <1>5 DEF BackendsApart
<1> QED
  BY <1>3, <1>4, <1>5, <1>6, <1>7 DEF Types

LEMMA InitHasTypes == Init => Types
<1> SUFFICES ASSUME Init PROVE Types
  OBVIOUS
<1>1. job \in JobType /\ job.owner = None /\ job.pc = "none" /\ None \notin Owners
  BY InsertionAssumption DEF Init, NoJob, JobType
<1>2. CallTypes
  BY <1>1 DEF Init, CallTypes, CallStates
<1>3. XTypes
  BY PiecesOfTexts DEF Init, XInit, XTypes, XRecord
<1>4. EisTypes /\ eis.pc = "none"
  BY DEF Init, EisInit, EisTypes, NoWorker, WorkerType, Absent, DeviceType, CompositorType
<1>5. LockHeld
  BY <1>1 DEF Init, LockHeld
<1>6. BackendsApart
  BY <1>1, <1>4 DEF BackendsApart
<1> QED
  BY <1>2, <1>3, <1>4, <1>5, <1>6 DEF Types

LEMMA NextKeepsTypes == Types /\ [Next]_vars => Types'
<1> SUFFICES ASSUME Types, [Next]_vars PROVE Types'
  OBVIOUS
<1>1. CASE Insertion /\ UNCHANGED <<environment, text>>
  BY <1>1, XStepKeepsTypes, EisCallKeepsTypes, WorkerKeepsTypes, OtherBackendsKeepTypes
  DEF Insertion
<1>2. CASE UNCHANGED vars
  BY <1>2, BackendKept
  DEF vars, insertionVars, xVars, eisVars, callVars, Types, CallTypes, XTypes, EisTypes,
      LockHeld, BackendsApart, JobAt
<1> QED
  BY <1>1, <1>2, CallKeepsTypes, OutsideKeepsTypes, CrashKeepsTypes DEF Next

---------------------------------------------------------------------------
(* The keyboard is given back.                                             *)

(* The scratch key is one that never meant anything to the user.           *)
ScratchFree ==
  x11.scratch # 0 =>
    x11.scratch \in Keycodes \ Modifiers /\ x11.original = Unused

KeysInv == Types /\ ScratchFree /\ KeymapRestored

(* The user does not give the key that the inserter holds a meaning.       *)
ScratchKept == x11.scratch # 0 => layout[x11.scratch] = Unused

(* Nothing about the keys changes, and no submission ends.                 *)
LEMMA KeysUntouched ==
  ASSUME KeysInv, Types', UNCHANGED xVars, job.pc = "submit" => job'.pc = "submit"
  PROVE  KeysInv'
BY DEF KeysInv, ScratchFree, KeymapRestored, xVars

LEMMA XStepRestores ==
  ASSUME KeysInv, Types', XStep, ScratchKept
  PROVE  KeysInv'
<1>1. /\ Types /\ x11 \in XRecord /\ layout \in [Keycodes -> Piece]
      /\ keymap \in [Keycodes -> Piece] /\ UNCHANGED layout /\ 0 \notin Keycodes
  BY XTestAssumption
  DEF KeysInv, Types, XTypes, XStep, XConnect, XBegin, ApplyKeysym, EmitKey, RestoreMapping, xVars
<1>2. SUFFICES ScratchFree' /\ KeymapRestored'
  BY DEF KeysInv
<1>3. CASE XConnect
  <2>1. UNCHANGED keymap /\ x11.scratch = 0 /\ job.pc = "call"
    BY <1>3 DEF XConnect, JobAt
  <2>2. x11'.left = x11.left
    BY <1>1, <1>3 DEF XConnect, XRecord
  <2>3. ScratchFree'
    <3>1. CASE UNCHANGED x11
      BY <3>1 DEF KeysInv, ScratchFree
    <3>2. CASE FreeKeys # {} /\ x11' = [x11 EXCEPT !.scratch = FirstFreeKey,
                                                  !.original = keymap[FirstFreeKey]]
      <4>1. FirstFreeKey \in Keycodes \ Modifiers /\ keymap[FirstFreeKey] = Unused
        BY <3>2, FirstFreeKeyIsFree DEF FreeKeys
      <4> QED
        BY <1>1, <3>2, <4>1 DEF ScratchFree, XRecord
    <3> QED
      BY <1>3, <3>1, <3>2 DEF XConnect
  <2>4. KeymapRestored'
    BY <1>1, <2>1, <2>2 DEF KeysInv, KeymapRestored
  <2> QED
    BY <2>3, <2>4
<1>4. CASE XBegin
  <2>1. UNCHANGED keymap /\ job.pc = "call"
    BY <1>4 DEF XBegin, JobAt
  <2>2. x11'.left = x11.left /\ x11'.scratch = x11.scratch /\ x11'.original = x11.original
    BY <1>1, <1>4 DEF XBegin, XRecord
  <2> QED
    BY <1>1, <2>1, <2>2 DEF KeysInv, KeymapRestored, ScratchFree
<1>5. CASE ApplyKeysym
  <2>1. job.pc = "submit" /\ x11.scratch # 0 /\ x11.scratch \in Keycodes \ Modifiers
    BY <1>1, <1>5
    DEF ApplyKeysym, Submitting, JobAt, Types, BackendsApart, KeysInv, ScratchFree
  <2>2. \A k \in Keycodes \ {x11.scratch} : keymap'[k] = keymap[k]
    BY <1>1, <1>5 DEF ApplyKeysym, GiveMeaning
  <2>3. x11'.left = x11.left /\ x11'.scratch = x11.scratch /\ x11'.original = x11.original
    BY <1>1, <1>5 DEF ApplyKeysym, XRecord
  <2>4. job'.pc = "submit"
    BY <1>1, <1>5, <2>1 DEF ApplyKeysym, Fail, Types, CallTypes, JobType
  <2>5. layout[x11.scratch] = Unused
    BY <2>1 DEF ScratchKept
  <2>6. KeymapRestored'
    BY <1>1, <2>1, <2>2, <2>3, <2>4, <2>5 DEF KeysInv, KeymapRestored
  <2>7. ScratchFree'
    BY <2>3 DEF KeysInv, ScratchFree
  <2> QED
    BY <2>6, <2>7
<1>6. CASE EmitKey
  <2>1. UNCHANGED xVars
    BY <1>6 DEF EmitKey, xVars
  <2>2. job.pc = "submit" /\ (Fail \/ job' = [job EXCEPT !.submitted = @ + 1])
    BY <1>6 DEF EmitKey, Submitting, JobAt
  <2>3. job'.pc = "submit"
    BY <1>1, <2>2 DEF Fail, Types, CallTypes, JobType
  <2> QED
    BY <2>1, <2>3, KeysUntouched DEF KeysInv
<1>7. CASE RestoreMapping
  <2>1. job.pc = "submit" /\ x11.scratch # 0 /\ x11.scratch \in Keycodes \ Modifiers
        /\ x11.original = Unused /\ layout[x11.scratch] = Unused
    BY <1>1, <1>7 DEF RestoreMapping, JobAt, Types, BackendsApart, KeysInv, ScratchFree, ScratchKept
  <2>2. PICK clean \in BOOLEAN, s \in {0, x11.scratch} :
          /\ IF clean THEN GiveMeaning(x11.original) ELSE UNCHANGED keymap
          /\ x11' = [x11 EXCEPT !.scratch = s,
                                !.left = IF clean THEN @ \ {x11.scratch}
                                         ELSE @ \cup {x11.scratch}]
    BY <1>7 DEF RestoreMapping
  <2>3. x11'.scratch \in {0, x11.scratch} /\ x11'.original = x11.original
    BY <1>1, <2>2 DEF XRecord
  <2>4. \A k \in Keycodes \ {x11.scratch} : keymap'[k] = keymap[k]
    BY <1>1, <2>2 DEF GiveMeaning
  <2>5. \A k \in Keycodes \ {x11.scratch} : k \in x11.left => k \in x11'.left
    BY <1>1, <2>2 DEF XRecord
  <2>6. keymap'[x11.scratch] = layout[x11.scratch] \/ x11.scratch \in x11'.left
    <3>1. CASE clean
      BY <1>1, <2>1, <2>2, <3>1 DEF GiveMeaning
    <3>2. CASE ~clean
      BY <1>1, <2>2, <3>2 DEF XRecord
    <3> QED
      BY <3>1, <3>2
  <2>7. KeymapRestored'
    BY <1>1, <2>1, <2>4, <2>5, <2>6 DEF KeysInv, KeymapRestored
  <2>8. ScratchFree'
    BY <2>1, <2>3 DEF ScratchFree
  <2> QED
    BY <2>7, <2>8
<1> QED
  BY <1>3, <1>4, <1>5, <1>6, <1>7 DEF XStep

(* Only the X11 adapter, the user and a crash touch the keys.              *)
LEMMA NextRestores ==
  ASSUME KeysInv, ScratchKept, [Next]_vars
  PROVE  KeysInv'
<1>1. Types /\ Types'
  BY NextKeepsTypes DEF KeysInv
<1>2. CASE Insertion
  <2>1. CASE XStep
    BY <1>1, <2>1, XStepRestores
  <2>2. CASE (EisCall \/ Worker \/ NoBackend \/ NativeInsert) /\ UNCHANGED xVars
    <3>1. job.pc # "submit" \/ UNCHANGED job
      BY <1>1, <2>2
      DEF EisCall, EisConnect, Ask, Worker, Ready, ReadyFails, HandleEvent, WorkerExits,
          NoTextDevice, WorkerInserts, NoBackend, NativeInsert, JobAt, Types, BackendsApart,
          insertionVars
    <3>2. job.pc = "submit" => job'.pc = "submit"
      BY <3>1
    <3> QED
      BY <1>1, <2>2, <3>2, KeysUntouched
  <2> QED
    BY <1>2, <2>1, <2>2 DEF Insertion
<1>3. CASE Outside
  <2>1. CASE ChangeLayout
    <3>1. job.pc = "none" /\ UNCHANGED <<job, x11>>
      BY <2>1 DEF ChangeLayout, NoJob, insertionVars
    <3>2. PICK k \in Keycodes \ Modifiers :
            /\ layout[k] = Unused
            /\ layout' = [layout EXCEPT ![k] = "user"]
            /\ keymap' = [keymap EXCEPT ![k] = "user"]
      BY <2>1, XTestAssumption DEF ChangeLayout
    <3>3. layout \in [Keycodes -> Piece] /\ keymap \in [Keycodes -> Piece]
      BY <1>1 DEF Types, XTypes
    <3>4. /\ layout'[k] = keymap'[k]
          /\ \A l \in Keycodes \ {k} : layout'[l] = layout[l] /\ keymap'[l] = keymap[l]
      BY <3>2, <3>3
    <3>5. KeymapRestored'
      BY <3>1, <3>4 DEF KeysInv, KeymapRestored
    <3> QED
      BY <1>1, <3>1, <3>5 DEF KeysInv, ScratchFree
  <2>2. CASE (ChangeDevice \/ HandleRequest) /\ UNCHANGED xVars
    <3>1. UNCHANGED job
      BY <2>2 DEF ChangeDevice, Change, HandleRequest, insertionVars
    <3> QED
      BY <1>1, <2>2, <3>1, KeysUntouched
  <2> QED
    BY <1>3, <2>1, <2>2 DEF Outside
<1>4. CASE \E o \in Owners : Call(o) \/ Take(o) \/ Return(o)
  <2>1. UNCHANGED xVars
    BY <1>4 DEF Call, Take, Return
  <2>2. job.pc # "submit" \/ UNCHANGED job
    BY <1>4 DEF Call, Take, Return, insertionVars, NoJob
  <2>3. job.pc = "submit" => job'.pc = "submit"
    BY <2>2
  <2> QED
    BY <1>1, <2>1, <2>3, KeysUntouched
<1>5. CASE Crash
  <2>1. UNCHANGED <<layout, keymap>> /\ x11 \in XRecord
    BY <1>1, <1>5 DEF Crash, XCrash, Types, XTypes
  <2>2. /\ x11'.scratch = 0
        /\ x11.left \subseteq x11'.left
        /\ x11.scratch # 0 /\ keymap[x11.scratch] # layout[x11.scratch] => x11.scratch \in x11'.left
    BY <1>5, <2>1 DEF Crash, XCrash, XRecord
  <2>3. \A k \in Keycodes : keymap[k] # layout[k] => k \in x11'.left
    BY <2>2, XTestAssumption DEF KeysInv, KeymapRestored
  <2>4. KeymapRestored' /\ ScratchFree'
    BY <2>1, <2>2, <2>3 DEF KeysInv, KeymapRestored, ScratchFree
  <2> QED
    BY <1>1, <2>4 DEF KeysInv
<1>6. CASE UNCHANGED vars
  BY <1>1, <1>6, KeysUntouched DEF vars, insertionVars
<1> QED
  BY <1>2, <1>3, <1>4, <1>5, <1>6 DEF Next

(* The keyboard is given back (KeymapRestored), as long as the user does   *)
(* not give the one key that the inserter holds a meaning: only that key,  *)
(* while a text is submitted, and those whose restoration failed or which  *)
(* a crash left behind differ from the user's layout.                      *)
THEOREM KeymapGivenBack == Spec /\ []ScratchKept => []KeymapRestored
<1>1. Init => KeysInv
  <2> SUFFICES ASSUME Init PROVE KeysInv
    OBVIOUS
  <2>1. Types
    BY InitHasTypes
  <2>2. ScratchFree /\ KeymapRestored
    BY DEF Init, XInit, ScratchFree, KeymapRestored
  <2> QED
    BY <2>1, <2>2 DEF KeysInv
<1>2. KeysInv /\ ScratchKept /\ [Next]_vars => KeysInv'
  BY NextRestores
<1>3. KeysInv => KeymapRestored
  BY DEF KeysInv
<1> QED
  BY <1>1, <1>2, <1>3, PTL DEF Spec

(* Nor does the user lose a key that has a meaning (UserKeysKept), under   *)
(* the same condition.                                                     *)
THEOREM UserKeysSafe == Spec /\ []ScratchKept => []UserKeysKept
<1>1. KeymapRestored => UserKeysKept
  BY DEF KeymapRestored, UserKeysKept, Unused
<1> QED
  BY <1>1, KeymapGivenBack, PTL

(* The scratch key keeps being free of the user, if the layout stays.      *)
LEMMA ScratchStaysFree ==
  ASSUME ChangedKeys = {}, KeysInv, ScratchKept, [Next]_vars
  PROVE  ScratchKept'
<1>1. x11 \in XRecord
  BY DEF KeysInv, Types, XTypes
<1>2. UNCHANGED layout
  <2>1. ~ChangeLayout
    BY DEF ChangeLayout
  <2> QED
    BY <2>1
    DEF Next, Call, Take, Return, Insertion, Outside, Crash, XCrash, XStep, XConnect, XBegin,
        ApplyKeysym, EmitKey, RestoreMapping, xVars, vars
<1>3. x11'.scratch \in {0, x11.scratch} \/ XConnect
  <2>1. CASE XBegin \/ ApplyKeysym \/ EmitKey \/ RestoreMapping \/ UNCHANGED x11 \/ XCrash
    BY <1>1, <2>1 DEF XBegin, ApplyKeysym, EmitKey, RestoreMapping, XCrash, XRecord, xVars
  <2>2. ~ChangeLayout
    BY DEF ChangeLayout
  <2> QED
    BY <2>1, <2>2
    DEF Next, Call, Take, Return, Insertion, Outside, Crash, XStep, xVars, vars
<1>4. CASE XConnect /\ UNCHANGED x11
  BY <1>2, <1>4 DEF ScratchKept
<1>5. CASE FreeKeys # {} /\ x11' = [x11 EXCEPT !.scratch = FirstFreeKey,
                                               !.original = keymap[FirstFreeKey]]
  <2>1. x11'.scratch = FirstFreeKey
    BY <1>1, <1>5 DEF XRecord
  <2>2. FirstFreeKey \in Keycodes /\ keymap[FirstFreeKey] = Unused
    BY <1>5, FirstFreeKeyIsFree DEF FreeKeys
  <2>3. layout[FirstFreeKey] = Unused
    BY <2>2 DEF KeysInv, KeymapRestored
  <2> QED
    BY <1>2, <2>1, <2>3 DEF ScratchKept
<1>6. CASE x11'.scratch \in {0, x11.scratch}
  BY <1>2, <1>6 DEF ScratchKept
<1> QED
  BY <1>3, <1>4, <1>5, <1>6 DEF XConnect

(* With a layout that stays the keyboard is given back without any further *)
(* condition: after partial submissions, failed restorations and crashes.  *)
THEOREM FixedLayoutGivenBack ==
  ASSUME ChangedKeys = {}
  PROVE  Spec => [](KeymapRestored /\ UserKeysKept)
<1>1. Init => KeysInv /\ ScratchKept
  <2> SUFFICES ASSUME Init PROVE KeysInv /\ ScratchKept
    OBVIOUS
  <2>1. Types
    BY InitHasTypes
  <2>2. ScratchFree /\ KeymapRestored /\ ScratchKept
    BY DEF Init, XInit, ScratchFree, KeymapRestored, ScratchKept
  <2> QED
    BY <2>1, <2>2 DEF KeysInv
<1>2. KeysInv /\ ScratchKept /\ [Next]_vars => (KeysInv /\ ScratchKept)'
  BY NextRestores, ScratchStaysFree
<1>3. KeysInv => KeymapRestored /\ UserKeysKept
  BY DEF KeysInv, KeymapRestored, UserKeysKept, Unused
<1> QED
  BY <1>1, <1>2, <1>3, PTL DEF Spec

---------------------------------------------------------------------------
(* What X11 has typed.                                                     *)

(* What was typed of a text is its beginning.                              *)
Beginning(o) ==
  /\ Len(typed[o]) <= Len(text[o])
  /\ \A i \in 1 .. Len(typed[o]) : typed[o][i] = Keysym(text[o][i])

Reported(o) ==
  /\ calls[o] \in {"none", "waiting"} => typed[o] = <<>>
  /\ outcome[o] = "Ok" => Len(typed[o]) = Len(text[o])
  /\ outcome[o] = "PartialSubmission" => typed[o] # <<>>
  /\ outcome[o] \in {"InvalidText", "PermissionDenied", "BackendUnavailable"} => typed[o] = <<>>

(* A submission has typed what it counts, one more if it broke off, and    *)
(* the scratch key means what the adapter believes.                        *)
Counted ==
  /\ job.pc = "call" => job.submitted = 0 /\ ~job.failed /\ typed[job.owner] = <<>>
  /\ job.pc = "submit" =>
       /\ job.submitted <= Len(JobText)
       /\ ~job.failed => Len(typed[job.owner]) = job.submitted
       /\ job.failed => Len(typed[job.owner]) \in {job.submitted, job.submitted + 1}
       /\ ~job.failed /\ x11.active # Unused => keymap[x11.scratch] = x11.active

TypingInv ==
  /\ Types
  /\ Backend # "eis" => requests = <<>>
  /\ Backend = "x11" => Counted /\ \A o \in Owners : Beginning(o) /\ Reported(o)

(* The dictations whose typing and call do not change keep what they say.  *)
LEMMA OthersReported ==
  ASSUME NEW o \in Owners, Beginning(o), Reported(o), UNCHANGED text,
         typed'[o] = typed[o], outcome'[o] = outcome[o],
         calls'[o] \in {"none", "waiting"} => calls[o] \in {"none", "waiting"}
  PROVE  Beginning(o)' /\ Reported(o)'
BY DEF Beginning, Reported

(* A piece that continues the text.                                        *)
LEMMA ReceiveNext ==
  ASSUME CallTypes, NEW o \in Owners, NEW piece \in Piece, Receives(o, piece), UNCHANGED text,
         Beginning(o), Len(typed[o]) < Len(text[o]), piece = Keysym(text[o][Len(typed[o]) + 1])
  PROVE  /\ Beginning(o)'
         /\ Len(typed'[o]) = Len(typed[o]) + 1
         /\ \A p \in Owners \ {o} : typed'[p] = typed[p]
<1>1. typed[o] \in Seq(Piece) /\ typed' = [typed EXCEPT ![o] = Append(typed[o], piece)]
  BY DEF CallTypes, Receives
<1>2. typed'[o] = Append(typed[o], piece) /\ \A p \in Owners \ {o} : typed'[p] = typed[p]
  BY <1>1 DEF CallTypes
<1>3. text[o] \in Seq(Piece)
  BY PiecesOfTexts DEF CallTypes
<1>4. Len(typed'[o]) = Len(typed[o]) + 1 /\ Len(typed[o]) \in Nat /\ Len(text[o]) \in Nat
  BY <1>1, <1>2, <1>3
<1>5. \A i \in 1 .. Len(typed[o]) + 1 :
        typed'[o][i] = IF i = Len(typed[o]) + 1 THEN piece ELSE typed[o][i]
  BY <1>1, <1>2, AppendProperties
<1>6. Beginning(o)'
  <2>1. \A i \in 1 .. Len(typed'[o]) : typed'[o][i] = Keysym(text[o][i])
    BY <1>4, <1>5 DEF Beginning
  <2> QED
    BY <1>4, <2>1 DEF Beginning
<1> QED
  BY <1>2, <1>4, <1>6

(* What may be said of a text when its insertion ends.                     *)
Truthful(result) ==
  /\ result = "Ok" => Len(typed[job.owner]) = Len(JobText)
  /\ result = "PartialSubmission" => typed[job.owner] # <<>>
  /\ result \in {"InvalidText", "PermissionDenied", "BackendUnavailable"} =>
       typed[job.owner] = <<>>

LEMMA EndReports ==
  ASSUME TypingInv, Types', Backend = "x11", job.owner # None, NEW result \in Results,
         End(result), Truthful(result),
         UNCHANGED <<typed, text, calls, requests, environment>>
  PROVE  TypingInv'
<1>1. job.owner \in Owners /\ calls[job.owner] = "holding" /\ CallTypes
  BY DEF TypingInv, Types, CallTypes, JobType, LockHeld
<1>2. job' = NoJob /\ job'.pc = "none"
  BY DEF End, NoJob
<1>3. Counted'
  BY <1>2 DEF Counted
<1>4. ASSUME NEW o \in Owners
      PROVE  Beginning(o)' /\ Reported(o)'
  <2>1. Beginning(o) /\ Reported(o)
    BY DEF TypingInv
  <2>2. CASE o = job.owner
    <3>1. outcome'[o] = result
      BY <1>1, <2>2 DEF End, CallTypes
    <3> QED
      BY <1>1, <2>1, <2>2, <3>1 DEF Beginning, Reported, Truthful, JobText
  <2>3. CASE o # job.owner
    <3>1. outcome'[o] = outcome[o]
      BY <1>1, <2>3 DEF End, CallTypes
    <3> QED
      BY <2>1, <3>1, OthersReported
  <2> QED
    BY <2>2, <2>3
<1>5. requests' = <<>>
  BY DEF TypingInv
<1> QED
  BY <1>3, <1>4, <1>5, BackendKept DEF TypingInv

(* A step of the X11 adapter that ends nothing and types nothing.          *)
LEMMA SubmissionGoesOn ==
  ASSUME TypingInv, Types', Backend = "x11", Counted',
         UNCHANGED <<typed, text, calls, outcome, requests, environment>>
  PROVE  TypingInv'
<1>1. \A o \in Owners : Beginning(o)' /\ Reported(o)'
  BY DEF TypingInv, Beginning, Reported
<1>2. requests' = <<>>
  BY DEF TypingInv
<1> QED
  BY <1>1, <1>2, BackendKept DEF TypingInv

LEMMA XStepReports ==
  ASSUME TypingInv, Types', XStep, UNCHANGED <<eisVars, callVars, environment, text>>
  PROVE  TypingInv'
<1>1. /\ Types /\ CallTypes /\ Backend = "x11" /\ job.owner # None /\ Counted
      /\ job.owner \in Owners
      /\ UNCHANGED <<text, calls, requests, environment>>
      /\ \A o \in Owners : Beginning(o) /\ Reported(o)
  BY JobTextTyped
  DEF TypingInv, Types, XStep, XConnect, XBegin, ApplyKeysym, Submitting, EmitKey,
      RestoreMapping, JobAt, callVars, eisVars
<1>2. job \in JobType /\ x11 \in XRecord /\ keymap \in [Keycodes -> Piece]
  BY <1>1 DEF Types, CallTypes, XTypes
<1>3. {"BackendUnavailable", "InvalidText", "Ok", "BackendFailure", "PartialSubmission"}
        \subseteq Results
  BY DEF Results, ErrorKinds
<1>4. /\ typed[job.owner] \in Seq(Piece) /\ Len(typed[job.owner]) \in Nat
      /\ JobText \in Seq(Piece) /\ Len(JobText) \in Nat
  BY <1>1, JobTextTyped DEF CallTypes
<1>5. CASE XConnect
  <2>1. job.pc = "call" /\ UNCHANGED <<typed, keymap>>
    BY <1>5 DEF XConnect, JobAt
  <2>2. CASE UNCHANGED <<job, outcome>>
    <3>1. Counted'
      BY <1>1, <2>1, <2>2 DEF Counted
    <3> QED
      BY <1>1, <2>1, <2>2, <3>1, SubmissionGoesOn
  <2>3. CASE End("BackendUnavailable")
    <3>1. Truthful("BackendUnavailable")
      BY <1>1, <2>1 DEF Truthful, Counted
    <3> QED
      BY <1>1, <1>3, <2>1, <2>3, <3>1, EndReports
  <2> QED
    BY <1>5, <2>2, <2>3 DEF XConnect
<1>6. CASE XBegin
  <2>1. job.pc = "call" /\ UNCHANGED <<typed, keymap>>
    BY <1>6 DEF XBegin, JobAt
  <2>2. CASE JobGoes("submit") /\ UNCHANGED outcome
    <3>1. job'.pc = "submit" /\ job'.owner = job.owner /\ job'.submitted = job.submitted
          /\ job'.failed = job.failed
      BY <1>2, <2>2 DEF JobGoes, JobType
    <3>2. x11'.active = Unused
      BY <1>2, <1>6 DEF XBegin, XRecord
    <3>3. typed[job.owner] = <<>> /\ job.submitted = 0 /\ ~job.failed
      BY <1>1, <2>1 DEF Counted
    <3>4. JobText' = JobText
      BY <1>1, <3>1 DEF JobText
    <3>5. Counted'
      BY <1>4, <2>1, <3>1, <3>2, <3>3, <3>4 DEF Counted
    <3> QED
      BY <1>1, <2>1, <2>2, <3>5, SubmissionGoesOn
  <2>3. CASE End("InvalidText")
    <3>1. Truthful("InvalidText")
      BY <1>1, <2>1 DEF Truthful, Counted
    <3> QED
      BY <1>1, <1>3, <2>1, <2>3, <3>1, EndReports
  <2> QED
    BY <1>6, <2>2, <2>3 DEF XBegin
<1>7. CASE ApplyKeysym
  <2>1. job.pc = "submit" /\ ~job.failed /\ UNCHANGED <<typed, outcome>> /\ x11.scratch \in Keycodes
    BY <1>1, <1>2, <1>7
    DEF ApplyKeysym, Submitting, JobAt, Types, BackendsApart, XRecord
  <2>2. CASE GiveMeaning(NextKeysym) /\ x11' = [x11 EXCEPT !.active = NextKeysym] /\ UNCHANGED job
    <3>1. x11'.active = NextKeysym /\ x11'.scratch = x11.scratch
      BY <1>2, <2>2 DEF XRecord
    <3>2. keymap'[x11.scratch] = NextKeysym
      BY <1>2, <2>1, <2>2 DEF GiveMeaning
    <3>3. JobText' = JobText
      BY <1>1, <2>2 DEF JobText
    <3>4. Counted'
      BY <1>1, <2>1, <2>2, <3>1, <3>2, <3>3 DEF Counted
    <3> QED
      BY <1>1, <2>1, <3>4, SubmissionGoesOn
  <2>3. CASE Fail
    <3>1. /\ job'.pc = "submit" /\ job'.owner = job.owner /\ job'.submitted = job.submitted
          /\ job'.failed
      BY <1>2, <2>1, <2>3 DEF Fail, JobType
    <3>2. JobText' = JobText
      BY <1>1, <3>1 DEF JobText
    <3>3. Counted'
      BY <1>1, <2>1, <3>1, <3>2 DEF Counted
    <3> QED
      BY <1>1, <2>1, <3>3, SubmissionGoesOn
  <2> QED
    BY <1>7, <2>2, <2>3 DEF ApplyKeysym
<1>8. CASE EmitKey
  <2>1. /\ job.pc = "submit" /\ ~job.failed /\ job.submitted < Len(JobText)
        /\ x11.active = NextKeysym /\ UNCHANGED <<outcome, keymap, x11>>
    BY <1>8 DEF EmitKey, Submitting, JobAt, xVars
  <2>2. job.submitted \in Nat /\ Len(typed[job.owner]) = job.submitted
    BY <1>1, <1>2, <2>1 DEF Counted, JobType
  <2>3. NextKeysym # Unused /\ NextKeysym \in Piece
    <3>1. JobText[job.submitted + 1] \in Piece /\ JobText[job.submitted + 1] # Unused
      BY <1>1, <1>4, <2>1, <2>2, JobTextTyped
    <3> QED
      BY <3>1, PiecesOfTexts DEF NextKeysym, Keysym, Unused
  <2>4. keymap[x11.scratch] = NextKeysym
    BY <1>1, <2>1, <2>3 DEF Counted
  <2>0. PICK o \in Owners : o = job.owner
    BY <1>1
  <2>5. ASSUME Receives(job.owner, keymap[x11.scratch])
        PROVE  /\ Beginning(o)'
               /\ Len(typed'[o]) = Len(typed[o]) + 1
               /\ \A p \in Owners \ {o} : typed'[p] = typed[p]
    <3>1. NextKeysym = Keysym(text[o][Len(typed[o]) + 1])
      BY <2>2, <2>0 DEF NextKeysym, JobText
    <3>2. Len(typed[o]) < Len(text[o])
      BY <2>1, <2>2, <2>0 DEF JobText
    <3>3. Receives(o, NextKeysym)
      BY <2>4, <2>5, <2>0
    <3> QED
      BY <1>1, <2>3, <3>1, <3>2, <3>3, ReceiveNext
  <2>6. /\ job'.pc = "submit" /\ job'.owner = job.owner
        /\ \/ /\ job'.submitted = job.submitted + 1 /\ ~job'.failed
              /\ Receives(job.owner, keymap[x11.scratch])
           \/ /\ job'.submitted = job.submitted /\ job'.failed
              /\ Receives(job.owner, keymap[x11.scratch]) \/ UNCHANGED typed
    BY <1>2, <1>8, <2>1 DEF EmitKey, Fail, JobType
  <2>7. JobText' = JobText
    BY <1>1, <2>6 DEF JobText
  <2>8. Counted'
    <3>1. CASE Receives(job.owner, keymap[x11.scratch])
      <4>1. Len(typed'[job.owner]) = job.submitted + 1
        BY <2>2, <2>5, <2>0, <3>1
      <4>2. job.submitted + 1 <= Len(JobText) /\ job.submitted \in Nat
        BY <1>4, <2>1, <2>2
      <4>3. keymap'[x11'.scratch] = x11'.active
        BY <2>1, <2>4
      <4> QED
        BY <2>6, <2>7, <4>1, <4>2, <4>3 DEF Counted
    <3>2. CASE UNCHANGED typed /\ job'.failed
      BY <1>4, <2>1, <2>2, <2>6, <2>7, <3>2 DEF Counted
    <3> QED
      BY <2>6, <3>1, <3>2
  <2>9. \A p \in Owners : Beginning(p)' /\ Reported(p)'
    <3>1. CASE UNCHANGED typed
      BY <1>1, <2>1, <3>1, OthersReported
    <3>2. CASE Receives(job.owner, keymap[x11.scratch])
      <4>1. calls[job.owner] = "holding" /\ outcome[job.owner] = "none"
        BY <1>1 DEF Types, LockHeld
      <4>2. Beginning(o)'
        BY <2>5, <3>2
      <4>3. Reported(o)'
        BY <1>1, <2>1, <2>0, <4>1 DEF Reported
      <4>4. ASSUME NEW p \in Owners \ {o}
            PROVE  Beginning(p)' /\ Reported(p)'
        BY <1>1, <2>1, <2>5, <3>2, OthersReported
      <4> QED
        BY <4>2, <4>3, <4>4
    <3>3. UNCHANGED typed \/ Receives(job.owner, keymap[x11.scratch])
      BY <1>8 DEF EmitKey
    <3> QED
      BY <3>1, <3>2, <3>3
  <2>10. requests' = <<>>
    BY <1>1 DEF TypingInv
  <2> QED
    BY <2>8, <2>9, <2>10 DEF TypingInv
<1>9. CASE RestoreMapping
  <2>1. PICK restored \in BOOLEAN : End(XResult(restored))
    BY <1>9 DEF RestoreMapping
  <2>2. job.pc = "submit" /\ ~Submitting /\ UNCHANGED typed
    BY <1>9 DEF RestoreMapping, JobAt
  <2>3. job.failed \/ job.submitted >= Len(JobText)
    BY <1>1, <1>2, <1>4, <2>2 DEF Submitting, JobAt, JobType
  <2>4. XResult(restored) \in {"Ok", "BackendFailure", "PartialSubmission"}
    BY DEF XResult, BrokenOff
  <2>5. Truthful(XResult(restored))
    <3>1. CASE XResult(restored) = "Ok"
      <4>1. ~job.failed
        BY <1>2, <3>1 DEF XResult, BrokenOff, JobType
      <4> QED
        BY <1>1, <1>2, <1>4, <2>2, <2>3, <3>1, <4>1 DEF Truthful, Counted, JobType
    <3>2. CASE XResult(restored) = "PartialSubmission"
      <4>1. job.failed /\ job.submitted # 0
        BY <1>2, <3>2 DEF XResult, BrokenOff, JobType
      <4>2. Len(typed[job.owner]) > 0
        BY <1>1, <1>2, <2>2, <4>1 DEF Counted, JobType
      <4> QED
        BY <1>4, <3>2, <4>2 DEF Truthful
    <3>3. CASE XResult(restored) = "BackendFailure"
      BY <3>3 DEF Truthful
    <3> QED
      BY <2>4, <3>1, <3>2, <3>3
  <2> QED
    BY <1>1, <1>3, <2>1, <2>2, <2>4, <2>5, EndReports
<1> QED
  BY <1>5, <1>6, <1>7, <1>8, <1>9 DEF XStep

(* Steps that type nothing by X11 and end no call of it.                   *)
LEMMA NothingTyped ==
  ASSUME TypingInv, Types', UNCHANGED <<text, environment>>,
         Backend # "eis" => UNCHANGED requests,
         Backend = "x11" => Counted' /\ UNCHANGED <<typed, outcome>>,
         \A o \in Owners : calls'[o] \in {"none", "waiting"} => calls[o] \in {"none", "waiting"}
  PROVE  TypingInv'
<1>1. Backend' = Backend
  BY BackendKept
<1>2. Backend = "x11" => \A o \in Owners : Beginning(o)' /\ Reported(o)'
  BY OthersReported DEF TypingInv
<1>3. Backend # "eis" => requests' = <<>>
  BY DEF TypingInv
<1> QED
  BY <1>1, <1>2, <1>3 DEF TypingInv

(* Whoever waits or waits no longer has not typed.                         *)
LEMMA CallReports ==
  ASSUME TypingInv, Types', NEW o \in Owners, Call(o) \/ Take(o) \/ Return(o),
         UNCHANGED <<environment, text>>
  PROVE  TypingInv'
<1>1. UNCHANGED <<typed, outcome, requests, keymap, x11>>
  BY DEF Call, Take, Return, insertionVars, eisVars, xVars
<1>2. calls \in [Owners -> CallStates] /\ job \in JobType
  BY DEF TypingInv, Types, CallTypes
<1>3. \A p \in Owners : calls'[p] \in {"none", "waiting"} => calls[p] \in {"none", "waiting"}
  BY <1>2 DEF Call, Take, Return
<1>4. Backend = "x11" => Counted'
  <2>1. CASE Take(o)
    <3>1. /\ job' = [NoJob EXCEPT !.owner = o, !.pc = "call"] /\ calls[o] = "waiting"
      BY <2>1 DEF Take
    <3>2. job'.owner = o /\ job'.pc = "call" /\ job'.submitted = 0 /\ ~job'.failed
      BY <3>1 DEF NoJob
    <3>3. Backend = "x11" => typed[o] = <<>>
      BY <3>1 DEF TypingInv, Reported
    <3> QED
      BY <1>1, <3>2, <3>3 DEF Counted
  <2>2. CASE Call(o) \/ Return(o)
    <3>1. UNCHANGED job
      BY <2>2 DEF Call, Return, insertionVars
    <3>2. JobText' = JobText
      BY <3>1 DEF JobText
    <3> QED
      BY <1>1, <3>1, <3>2 DEF TypingInv, Counted
  <2> QED
    BY <2>1, <2>2
<1> QED
  BY <1>1, <1>3, <1>4, NothingTyped

(* The other backends' steps, the compositor's and the user's.             *)
LEMMA OthersLetType ==
  ASSUME TypingInv, Types', UNCHANGED <<environment, text, calls>>,
         \/ (EisCall \/ Worker \/ ChangeDevice \/ HandleRequest) /\ UNCHANGED xVars
         \/ (NoBackend \/ NativeInsert) /\ UNCHANGED <<xVars, eisVars>>
         \/ ChangeLayout /\ UNCHANGED eisVars
  PROVE  TypingInv'
<1>1. BackendsApart /\ job \in JobType
  BY DEF TypingInv, Types, CallTypes
<1>2. Backend # "eis" => UNCHANGED requests
  <2>1. ASSUME Backend # "eis", Worker
        PROVE  UNCHANGED requests \/ Disconnect("exited")
    BY <1>1, <2>1
    DEF Worker, Ready, ReadyFails, HandleEvent, WorkerExits, NoTextDevice, WorkerInserts,
        BackendsApart, JobAt
  <2>2. ASSUME Disconnect("exited") PROVE requests' = <<>>
    BY <2>2 DEF Disconnect
  <2>3. Backend # "eis" => requests = <<>>
    BY DEF TypingInv
  <2>4. CASE HandleRequest
    BY <2>3, <2>4 DEF HandleRequest
  <2>5. CASE EisCall \/ ChangeDevice \/ ((NoBackend \/ NativeInsert) /\ UNCHANGED eisVars)
             \/ (ChangeLayout /\ UNCHANGED eisVars)
    BY <2>5 DEF EisCall, EisConnect, Ask, ChangeDevice, Change, eisVars
  <2> QED
    BY <2>1, <2>2, <2>3, <2>4, <2>5
<1>3. Backend = "x11" => UNCHANGED <<job, typed, outcome>>
  <2>1. ASSUME Backend = "x11", Worker
        PROVE  UNCHANGED <<job, typed, outcome>>
    BY <1>1, <2>1
    DEF Worker, Ready, ReadyFails, HandleEvent, WorkerExits, NoTextDevice, WorkerInserts,
        BackendsApart, JobAt, insertionVars
  <2>2. CASE HandleRequest
    BY <2>2 DEF HandleRequest, TypingInv
  <2>3. CASE EisCall \/ ChangeDevice \/ NoBackend \/ NativeInsert \/ ChangeLayout
    BY <2>3
    DEF EisCall, EisConnect, Ask, ChangeDevice, Change, NoBackend, NativeInsert, ChangeLayout,
        JobAt, insertionVars
  <2> QED
    BY <2>1, <2>2, <2>3
<1>4. Backend = "x11" => Counted'
  <2>1. SUFFICES ASSUME Backend = "x11" PROVE Counted'
    OBVIOUS
  <2>2. UNCHANGED <<job, typed, text>> /\ JobText' = JobText /\ Counted
    BY <1>3, <2>1 DEF TypingInv, JobText
  <2>3. CASE UNCHANGED xVars
    BY <2>2, <2>3 DEF Counted, xVars
  <2>4. CASE ChangeLayout
    BY <2>2, <2>4 DEF Counted, ChangeLayout, NoJob
  <2> QED
    BY <2>3, <2>4
<1> QED
  BY <1>2, <1>3, <1>4, NothingTyped

LEMMA CrashReports ==
  ASSUME TypingInv, Types', Crash, UNCHANGED <<environment, text>>
  PROVE  TypingInv'
<1>1. job'.pc = "none" /\ UNCHANGED <<typed, outcome>> /\ requests' = <<>>
  BY DEF Crash, NoJob, EisCrash, Disconnect
<1>2. Counted'
  BY <1>1 DEF Counted
<1>3. \A o \in Owners : calls'[o] \in {"none", "waiting"} => calls[o] \in {"none", "waiting"}
  BY DEF Crash
<1>4. Backend # "eis" => UNCHANGED requests
  BY <1>1 DEF TypingInv
<1> QED
  BY <1>1, <1>2, <1>3, <1>4, NothingTyped

LEMMA NextReports == TypingInv /\ [Next]_vars => TypingInv'
<1> SUFFICES ASSUME TypingInv, [Next]_vars PROVE TypingInv'
  OBVIOUS
<1>1. Types'
  BY NextKeepsTypes DEF TypingInv
<1>2. CASE Insertion /\ UNCHANGED <<environment, text>>
  BY <1>1, <1>2, XStepReports, OthersLetType DEF Insertion, callVars
<1>3. CASE Outside /\ UNCHANGED <<environment, text>>
  BY <1>1, <1>3, OthersLetType DEF Outside, callVars
<1>4. CASE UNCHANGED vars
  <2>1. /\ UNCHANGED <<job, typed, outcome, text, environment, requests, calls, keymap, x11>>
        /\ JobText' = JobText
    BY <1>4 DEF vars, insertionVars, eisVars, xVars, callVars, JobText
  <2>2. Backend = "x11" => Counted'
    BY <2>1 DEF TypingInv, Counted
  <2> QED
    BY <1>1, <2>1, <2>2, NothingTyped
<1> QED
  BY <1>1, <1>2, <1>3, <1>4, CallReports, CrashReports DEF Next

LEMMA InitTypesNothing == Init => TypingInv
<1> SUFFICES ASSUME Init PROVE TypingInv
  OBVIOUS
<1>1. Types
  BY InitHasTypes
<1>2. job.pc = "none" /\ requests = <<>>
  BY DEF Init, NoJob, EisInit
<1>3. ASSUME NEW o \in Owners
      PROVE  Beginning(o) /\ Reported(o)
  <2>1. typed[o] = <<>> /\ outcome[o] = "none" /\ calls[o] = "none"
    BY DEF Init
  <2>2. text[o] \in Seq(Piece)
    BY <1>1, PiecesOfTexts DEF Types, CallTypes
  <2> QED
    BY <2>1, <2>2 DEF Beginning, Reported
<1> QED
  BY <1>1, <1>2, <1>3 DEF TypingInv, Counted

(* A sequence that is the beginning of another, said as TypedAsReported    *)
(* says it.                                                                *)
LEMMA BeginningIsSubSeq ==
  ASSUME CallTypes, NEW o \in Owners, Beginning(o)
  PROVE  /\ typed[o] = SubSeq(XKeysyms(text[o]), 1, Len(typed[o]))
         /\ Len(typed[o]) = Len(text[o]) => typed[o] = XKeysyms(text[o])
<1>1. typed[o] \in Seq(Piece) /\ text[o] \in Seq(Piece)
  BY PiecesOfTexts DEF CallTypes
<1> DEFINE t == text[o]
           n == Len(typed[o])
           k == XKeysyms(t)
<1>2. n \in Nat /\ Len(t) \in Nat /\ n <= Len(t) /\ DOMAIN t = 1 .. Len(t)
  BY <1>1 DEF Beginning
<1>3. k = [i \in 1 .. Len(t) |-> Keysym(t[i])]
  BY <1>2 DEF XKeysyms
<1>4. \A i \in 1 .. Len(t) : Keysym(t[i]) \in Piece
  BY <1>1, <1>2, PiecesOfTexts DEF Keysym
<1>5. k \in Seq(Piece) /\ Len(k) = Len(t)
  <2>1. k \in [1 .. Len(t) -> Piece]
    BY <1>3, <1>4
  <2>2. k \in Seq(Piece)
    BY <1>2, <2>1, SeqDef
  <2> QED
    BY <1>2, <2>1, <2>2, LenProperties
<1>6. \A i \in 1 .. n : typed[o][i] = k[i]
  BY <1>2, <1>3 DEF Beginning
<1> HIDE DEF k
<1>7. /\ SubSeq(k, 1, n) \in Seq(Piece) /\ Len(SubSeq(k, 1, n)) = n
      /\ \A i \in 1 .. n : SubSeq(k, 1, n)[i] = k[i]
  BY <1>2, <1>5, SubSeqProperties
<1>8. typed[o] = SubSeq(k, 1, n)
  BY <1>1, <1>2, <1>6, <1>7, SeqEqual
<1>9. n = Len(t) => typed[o] = k
  BY <1>1, <1>5, <1>6, SeqEqual
<1> QED
  BY <1>8, <1>9 DEF k

(* What X11 reports is what it typed (TypedAsReported): of every text a    *)
(* beginning, each character under its own meaning, all of it if the       *)
(* insertion is reported as complete, some of it if as partial, nothing if *)
(* it was refused; whatever requests fail, whatever texts the inserter     *)
(* typed before and wherever the process is killed.                        *)
THEOREM XReportsTrue == Spec => []TypedAsReported
<1>1. TypingInv => TypedAsReported
  <2> SUFFICES ASSUME TypingInv, NEW o \in Owners, Backend = "x11"
               PROVE  /\ typed[o] = SubSeq(XKeysyms(text[o]), 1, Len(typed[o]))
                      /\ outcome[o] = "Ok" => typed[o] = XKeysyms(text[o])
                      /\ outcome[o] = "PartialSubmission" => typed[o] # <<>>
                      /\ outcome[o] \in {"InvalidText", "PermissionDenied", "BackendUnavailable"}
                           => typed[o] = <<>>
    BY DEF TypedAsReported
  <2>1. CallTypes /\ Beginning(o) /\ Reported(o)
    BY DEF TypingInv, Types
  <2> QED
    BY <2>1, BeginningIsSubSeq DEF Reported
<1> QED
  BY <1>1, InitTypesNothing, NextReports, PTL DEF Spec

---------------------------------------------------------------------------
(* What the EIS worker knows of its devices.                               *)

(* Serials rise, and those of the events not read are above the last read. *)
SerialsRise ==
  /\ eis.serial <= compositor.sent
  /\ \A i \in DOMAIN events :
       eis.serial < events[i].serial /\ events[i].serial <= compositor.sent
  /\ \A i, j \in DOMAIN events : i < j => events[i].serial < events[j].serial

Awaited(d) == \E i \in DOMAIN events : events[i].device = d

(* The last event of a device tells how the compositor has it.             *)
Told(event) ==
  /\ compositor.device[event.device].since = event.serial
  /\ event.kind = "resumed" => DeviceState(event.device) = "resumed"
  /\ event.kind = "removed" => DeviceState(event.device) = "absent"
  /\ event.kind \in {"added", "paused"} => DeviceState(event.device) = "paused"

LastTells ==
  \A i \in DOMAIN events :
    (\A j \in DOMAIN events : i < j => events[j].device # events[i].device) => Told(events[i])

(* A device is added when it has no slot: at first, or after its removal.  *)
AddedOnce ==
  \A i \in DOMAIN events : events[i].kind = "added" =>
    \/ \E j \in DOMAIN events :
         /\ j < i /\ events[j].device = events[i].device /\ events[j].kind = "removed"
         /\ \A k \in DOMAIN events : j < k /\ k < i => events[k].device # events[i].device
    \/ /\ \A j \in DOMAIN events : j < i => events[j].device # events[i].device
       /\ \A slot \in eis.slots : slot.device # events[i].device

(* A slot of which no event is awaited is as the compositor has it.        *)
SlotsFollow ==
  \A slot \in eis.slots : ~Awaited(slot.device) =>
    /\ DeviceState(slot.device) # "absent"
    /\ slot.resumed => /\ DeviceState(slot.device) = "resumed"
                       /\ compositor.device[slot.device].since <= eis.serial

(* A device emulates, or will by one of the first n requests.              *)
Started(d, n) ==
  \/ compositor.device[d].emulating
  \/ \E j \in 1 .. n :
       /\ requests[j].kind = "start" /\ requests[j].device = d
       /\ compositor.device[d].since <= requests[j].serial

SlotsEmulate ==
  \A slot \in eis.slots : slot.emulating =>
    /\ slot.resumed
    /\ ~Awaited(slot.device) => Started(slot.device, Len(requests))

(* The text of an undisturbed dictation meets a device that takes it.      *)
TextTaken ==
  \A i \in DOMAIN requests : requests[i].kind = "text" /\ requests[i].owner \notin disturbed =>
    DeviceState(requests[i].device) = "resumed" /\ Started(requests[i].device, i - 1)

(* The rest of a text is in the requests from b + 1 on.                    *)
RestAfter(o, b) ==
  LET done == Len(typed[o])
      left == Len(text[o]) - done
  IN /\ left >= 0 /\ b + left <= Len(requests)
     /\ \A i \in DOMAIN requests :
          (requests[i].kind = "text" /\ requests[i].owner = o) <=> (b < i /\ i <= b + left)
     /\ \A i \in DOMAIN requests : b < i /\ i <= b + left =>
          requests[i].piece = text[o][done + i - b]
     /\ \A i \in 1 .. done : typed[o][i] = text[o][i]

Submitted(o) ==
  /\ outcome[o] = "none" =>
       typed[o] = <<>> /\ \A i \in DOMAIN requests : requests[i].owner # o
  /\ outcome[o] = "Ok" /\ o \notin disturbed => \E b \in Nat : RestAfter(o, b)

DevicesKnown ==
  SerialsRise /\ LastTells /\ AddedOnce /\ SlotsFollow /\ SlotsEmulate /\ TextTaken

ReceiptInv ==
  /\ Types
  /\ Backend = "eis" => DevicesKnown /\ \A o \in Owners : Submitted(o)

---------------------------------------------------------------------------
(* What is left of a text.                                                 *)

(* The parts of the state that the EIS invariant is about.                 *)
LEMMA EisParts ==
  ASSUME Types
  PROVE  /\ text \in [Owners -> Seq(Piece)] /\ typed \in [Owners -> Seq(Piece)]
         /\ events \in Seq(EventType) /\ requests \in Seq(RequestType)
         /\ DOMAIN events = 1 .. Len(events) /\ Len(events) \in Nat
         /\ DOMAIN requests = 1 .. Len(requests) /\ Len(requests) \in Nat
         /\ eis.slots \subseteq SlotType /\ eis.serial \in Nat
         /\ compositor.device \in [Devices -> DeviceType] /\ compositor.sent \in Nat
<1>1. text \in [Owners -> Seq(Piece)] /\ typed \in [Owners -> Seq(Piece)]
  BY PiecesOfTexts DEF Types, CallTypes
<1>2. events \in Seq(EventType) /\ requests \in Seq(RequestType)
  BY DEF Types, EisTypes
<1>3. eis.slots \subseteq SlotType /\ eis.serial \in Nat
  BY DEF Types, EisTypes, WorkerType
<1>4. compositor.device \in [Devices -> DeviceType] /\ compositor.sent \in Nat
  BY DEF Types, EisTypes, CompositorType
<1> QED
  BY <1>1, <1>2, <1>3, <1>4, LenProperties

(* Nothing is left of a text of which no request is pending.               *)
LEMMA NothingLeft ==
  ASSUME Types, NEW o \in Owners, NEW b \in Nat, RestAfter(o, b), ~Pending(o)
  PROVE  Len(typed[o]) = Len(text[o])
<1> DEFINE left == Len(text[o]) - Len(typed[o])
<1>1. Len(text[o]) \in Nat /\ Len(typed[o]) \in Nat /\ Len(requests) \in Nat
      /\ DOMAIN requests = 1 .. Len(requests)
  BY EisParts
<1>2. left >= 0 /\ b + left <= Len(requests)
      /\ \A i \in DOMAIN requests :
           (requests[i].kind = "text" /\ requests[i].owner = o) <=> (b < i /\ i <= b + left)
  BY DEF RestAfter
<1>4. left \in Int /\ (left = 0 => Len(typed[o]) = Len(text[o]))
  BY <1>1
<1> HIDE DEF left
<1>3. ASSUME left > 0 PROVE FALSE
  <2>1. b + 1 \in DOMAIN requests /\ b < b + 1 /\ b + 1 <= b + left
    <3>1. b + left <= Len(requests)
      BY <1>2
    <3>2. b + 1 \in 1 .. Len(requests) /\ b < b + 1 /\ b + 1 <= b + left
      BY <1>1, <1>3, <1>4, <3>1
    <3> QED
      BY <1>1, <3>2
  <2>2. requests[b + 1].owner = o
    BY <1>2, <2>1
  <2> QED
    BY <2>1, <2>2 DEF Pending
<1> QED
  BY <1>2, <1>3, <1>4

(* What a step leaves as it is, for a dictation.                           *)
LEMMA SubmittedKept ==
  ASSUME NEW o \in Owners, Submitted(o), UNCHANGED <<text, requests>>, typed'[o] = typed[o],
         outcome'[o] \in {"none", "Ok"} => outcome'[o] = outcome[o],
         disturbed \subseteq disturbed'
  PROVE  Submitted(o)'
<1>1. outcome'[o] = "none" =>
        typed'[o] = <<>> /\ \A i \in DOMAIN requests' : requests'[i].owner # o
  BY DEF Submitted
<1>2. ASSUME outcome'[o] = "Ok", o \notin disturbed'
      PROVE  \E b \in Nat : RestAfter(o, b)'
  <2>1. PICK b \in Nat : RestAfter(o, b)
    BY <1>2 DEF Submitted
  <2>2. RestAfter(o, b)'
    BY <2>1 DEF RestAfter
  <2> QED
    BY <2>2
<1> QED
  BY <1>1, <1>2 DEF Submitted

(* A connection that ends disturbs whoever has text on it.                 *)
LEMMA SubmittedDisconnected ==
  ASSUME Types, NEW o \in Owners, Submitted(o), UNCHANGED text, typed'[o] = typed[o],
         outcome'[o] \in {"none", "Ok"} => outcome'[o] = outcome[o],
         NEW step, Disconnect(step)
  PROVE  Submitted(o)'
<1>1. requests' = <<>> /\ disturbed' = disturbed \cup {requests[i].owner : i \in DOMAIN requests}
  BY DEF Disconnect
<1>2. outcome'[o] = "none" =>
        typed'[o] = <<>> /\ \A i \in DOMAIN requests' : requests'[i].owner # o
  BY <1>1 DEF Submitted
<1>3. ASSUME outcome'[o] = "Ok", o \notin disturbed'
      PROVE  RestAfter(o, 0)'
  <2>1. PICK b \in Nat : RestAfter(o, b)
    BY <1>1, <1>3 DEF Submitted
  <2>2. ~Pending(o)
    BY <1>1, <1>3 DEF Pending
  <2>3. Len(typed[o]) = Len(text[o])
    BY <2>1, <2>2, NothingLeft
  <2>4. Len(text[o]) \in Nat
    BY EisParts
  <2> QED
    BY <1>1, <2>1, <2>3, <2>4 DEF RestAfter
<1> QED
  BY <1>2, <1>3 DEF Submitted

(* What an ending that is not a success, or none, leaves of the outcomes.  *)
LEMMA EndsWithoutReceipt ==
  ASSUME CallTypes, NEW o \in Owners,
         UNCHANGED outcome \/ \E result \in Results \ {"Ok"} : job.owner \in Owners /\ End(result)
  PROVE  outcome'[o] \in {"none", "Ok"} => outcome'[o] = outcome[o]
<1>1. CASE \E result \in Results \ {"Ok"} : job.owner \in Owners /\ End(result)
  <2>1. PICK result \in Results \ {"Ok"} : job.owner \in Owners /\ End(result)
    BY <1>1
  <2>2. outcome'[o] = IF o = job.owner THEN result ELSE outcome[o]
    BY <2>1 DEF End, CallTypes
  <2>3. result # "none"
    BY DEF Results, ErrorKinds
  <2> QED
    BY <2>1, <2>2, <2>3
<1> QED
  BY <1>1

(* A worker that starts again knows no device.                             *)
LEMMA WorkerForgets ==
  ASSUME Types, DevicesKnown, UNCHANGED <<events, requests, compositor, disturbed>>,
         \/ UNCHANGED <<eis.slots, eis.serial>>
         \/ eis'.slots = {} /\ eis'.serial = 0
  PROVE  DevicesKnown'
<1>1. SerialsRise' /\ LastTells' /\ AddedOnce' /\ TextTaken'
  <2>1. SerialsRise'
    <3>1. \A i \in DOMAIN events : events[i].serial \in Nat /\ 0 <= eis.serial
      <4>1. \A i \in DOMAIN events : events[i] \in EventType
        BY EisParts
      <4> QED
        BY <4>1, EisParts DEF EventType
    <3>2. compositor.sent \in Nat /\ eis.serial \in Nat
      BY EisParts
    <3> QED
      BY <3>1, <3>2 DEF DevicesKnown, SerialsRise
  <2>2. LastTells'
    BY DEF DevicesKnown, LastTells, Told, DeviceState
  <2>3. AddedOnce'
    BY DEF DevicesKnown, AddedOnce
  <2>4. TextTaken'
    BY DEF DevicesKnown, TextTaken, Started, DeviceState
  <2> QED
    BY <2>1, <2>2, <2>3, <2>4
<1>2. CASE eis'.slots = {}
  BY <1>1, <1>2 DEF DevicesKnown, SlotsFollow, SlotsEmulate
<1>3. CASE UNCHANGED <<eis.slots, eis.serial>>
  <2>1. \A d : Awaited(d)' = Awaited(d) /\ DeviceState(d)' = DeviceState(d)
    BY DEF Awaited, DeviceState
  <2>2. \A d : Started(d, Len(requests))' = Started(d, Len(requests))
    BY DEF Started
  <2>3. SlotsFollow'
    BY <1>3, <2>1 DEF DevicesKnown, SlotsFollow
  <2>4. SlotsEmulate'
    BY <1>3, <2>1, <2>2 DEF DevicesKnown, SlotsEmulate
  <2> QED
    BY <1>1, <2>3, <2>4 DEF DevicesKnown
<1> QED
  BY <1>2, <1>3

LEMMA DisconnectForgets ==
  ASSUME Types, NEW step, Disconnect(step)
  PROVE  DevicesKnown'
<1>1. /\ eis'.slots = {} /\ eis'.serial = 0 /\ events' = <<>> /\ requests' = <<>>
      /\ compositor'.sent = compositor.sent /\ compositor.sent \in Nat
  BY EisParts DEF Disconnect, NoWorker, Types, EisTypes, CompositorType
<1>2. DOMAIN events' = {} /\ DOMAIN requests' = {}
  BY <1>1
<1> QED
  BY <1>1, <1>2
  DEF DevicesKnown, SerialsRise, LastTells, AddedOnce, SlotsFollow, SlotsEmulate, TextTaken

---------------------------------------------------------------------------
(* The worker handles an event.                                            *)

(* The first of a sequence, and where the others go.                       *)
LEMMA TailShifts ==
  ASSUME NEW S, NEW s \in Seq(S), s # <<>>
  PROVE  /\ Len(s) \in Nat /\ 1 \in 1 .. Len(s) /\ Head(s) = s[1]
         /\ Len(Tail(s)) = Len(s) - 1
         /\ DOMAIN Tail(s) = 1 .. Len(s) - 1
         /\ \A i \in 1 .. Len(s) - 1 : Tail(s)[i] = s[i + 1] /\ i + 1 \in 1 .. Len(s)
OBVIOUS

(* The slots of other devices stay as they are, those of the device do not *)
(* emulate.                                                                *)
LEMMA SlotsOfEvent ==
  ASSUME eis.slots \subseteq SlotType, NEW event \in EventType,
         event.kind = "added" => \A slot \in eis.slots : slot.device # event.device,
         NEW slot \in SlotsAfter(event)
  PROVE  \/ slot \in eis.slots /\ slot.device # event.device
         \/ /\ slot.device = event.device /\ ~slot.emulating /\ event.kind # "removed"
            /\ slot.resumed <=> event.kind = "resumed"
<1>1. CASE event.kind = "added"
  <2>1. slot \in eis.slots \/ slot = Slot(event)
    BY <1>1 DEF SlotsAfter
  <2> QED
    BY <1>1, <2>1 DEF Slot
<1>2. CASE event.kind = "removed"
  BY <1>2 DEF SlotsAfter
<1>3. CASE event.kind \notin {"added", "removed"}
  <2>1. slot \in SetResumed(eis.slots, event.device, event.kind = "resumed")
    BY <1>3 DEF SlotsAfter
  <2>2. PICK old \in eis.slots :
          slot = IF old.device = event.device
                 THEN [old EXCEPT !.resumed = (event.kind = "resumed"), !.emulating = FALSE]
                 ELSE old
    BY <2>1 DEF SetResumed
  <2>3. old \in SlotType
    BY <2>2
  <2>4. CASE old.device = event.device
    BY <1>3, <2>2, <2>3, <2>4 DEF SlotType
  <2>5. CASE old.device # event.device
    BY <2>2, <2>5
  <2> QED
    BY <2>4, <2>5
<1> QED
  BY <1>1, <1>2, <1>3

(* A device that is just being added has no slot.                          *)
LEMMA AddedFirst ==
  ASSUME Types, DevicesKnown, events # <<>>, Head(events).kind = "added"
  PROVE  \A slot \in eis.slots : slot.device # Head(events).device
<1>1. /\ DOMAIN events = 1 .. Len(events) /\ Len(events) \in Nat /\ 1 \in DOMAIN events
      /\ Head(events) = events[1]
  BY EisParts, TailShifts
<1>2. ~\E j \in DOMAIN events : j < 1
  BY <1>1
<1> QED
  BY <1>1, <1>2 DEF DevicesKnown, AddedOnce

LEMMA EventHandled ==
  ASSUME Types, DevicesKnown, HandleEvent
  PROVE  DevicesKnown'
<1> DEFINE event == Head(events)
<1>1. /\ UNCHANGED <<requests, compositor, disturbed>>
      /\ events # <<>> /\ events' = Tail(events)
      /\ eis'.slots = SlotsAfter(event)
      /\ eis'.serial = IF event.kind \in {"resumed", "paused"} THEN event.serial ELSE eis.serial
  BY DEF HandleEvent, Types, EisTypes, WorkerType
<1>2. /\ Len(events) \in Nat /\ 1 \in DOMAIN events /\ event = events[1]
      /\ DOMAIN events = 1 .. Len(events) /\ DOMAIN events' = 1 .. Len(events) - 1
      /\ \A i \in DOMAIN events' : events'[i] = events[i + 1] /\ i + 1 \in DOMAIN events
  BY <1>1, EisParts, TailShifts
<1>3. \A i \in DOMAIN events : events[i] \in EventType
  BY EisParts
<1>4. event \in EventType /\ event.serial \in Nat /\ event.device \in Devices
      /\ event.kind \in {"added", "resumed", "paused", "removed"}
  BY <1>2, <1>3 DEF EventType
<1>5. /\ eis.slots \subseteq SlotType /\ eis.serial \in Nat /\ compositor.sent \in Nat
      /\ \A i \in DOMAIN events : events[i].serial \in Nat
  BY <1>3, EisParts DEF EventType
<1>6. \A slot \in eis'.slots :
        \/ slot \in eis.slots /\ slot.device # event.device
        \/ /\ slot.device = event.device /\ ~slot.emulating /\ event.kind # "removed"
           /\ slot.resumed <=> event.kind = "resumed"
  BY <1>1, <1>4, <1>5, AddedFirst, SlotsOfEvent
<1>7. eis.serial <= eis'.serial /\ eis'.serial \in Nat
  BY <1>1, <1>2, <1>4, <1>5 DEF DevicesKnown, SerialsRise
<1> HIDE DEF event
<1>8. SerialsRise'
  <2>1. eis'.serial <= compositor'.sent
    BY <1>1, <1>2, <1>4, <1>5 DEF DevicesKnown, SerialsRise
  <2>2. ASSUME NEW i \in DOMAIN events'
        PROVE  eis'.serial < events'[i].serial /\ events'[i].serial <= compositor'.sent
    <3>1. i + 1 \in DOMAIN events /\ 1 < i + 1 /\ events'[i] = events[i + 1]
      BY <1>2
    <3>2. events[1].serial < events[i + 1].serial /\ eis.serial < events[i + 1].serial
          /\ events[i + 1].serial <= compositor.sent
      BY <1>2, <3>1 DEF DevicesKnown, SerialsRise
    <3> QED
      BY <1>1, <1>2, <3>1, <3>2
  <2>3. ASSUME NEW i \in DOMAIN events', NEW j \in DOMAIN events', i < j
        PROVE  events'[i].serial < events'[j].serial
    <3>1. i + 1 \in DOMAIN events /\ j + 1 \in DOMAIN events /\ i + 1 < j + 1
      BY <1>2, <2>3
    <3> QED
      BY <1>2, <3>1 DEF DevicesKnown, SerialsRise
  <2> QED
    BY <2>1, <2>2, <2>3 DEF SerialsRise
<1>9. ASSUME NEW d, ~Awaited(d)', Awaited(d)
      PROVE  d = event.device /\ Told(event)
  <2>1. PICK i \in DOMAIN events : events[i].device = d
    BY <1>9 DEF Awaited
  <2>2. \A j \in DOMAIN events : 1 < j => events[j].device # d
    <3>1. ASSUME NEW j \in DOMAIN events, 1 < j
          PROVE  events[j].device # d
      <4>1. j - 1 \in DOMAIN events' /\ (j - 1) + 1 = j
        BY <1>2, <3>1
      <4>2. events'[j - 1] = events[j]
        BY <1>2, <4>1
      <4> QED
        BY <1>9, <4>1, <4>2 DEF Awaited
    <3> QED
      BY <3>1
  <2>3. i = 1
    BY <1>2, <2>1, <2>2
  <2> QED
    BY <1>2, <2>1, <2>2, <2>3 DEF DevicesKnown, LastTells
<1>10. LastTells'
  <2>1. ASSUME NEW i \in DOMAIN events',
               \A j \in DOMAIN events' : i < j => events'[j].device # events'[i].device
        PROVE  Told(events[i])'
    <3>1. i + 1 \in DOMAIN events /\ events'[i] = events[i + 1]
      BY <1>2
    <3>2. ASSUME NEW j \in DOMAIN events, i + 1 < j
          PROVE  events[j].device # events[i + 1].device
      <4>1. j - 1 \in DOMAIN events' /\ i < j - 1 /\ (j - 1) + 1 = j
        BY <1>2, <3>2
      <4>2. events'[j - 1] = events[j]
        BY <1>2, <4>1
      <4> QED
        BY <2>1, <3>1, <4>1, <4>2
    <3>3. Told(events[i + 1])
      BY <3>1, <3>2 DEF DevicesKnown, LastTells
    <3> QED
      BY <1>1, <3>1, <3>3 DEF Told, DeviceState
  <2> QED
    BY <2>1 DEF LastTells
<1>11. AddedOnce'
  <2>1. ASSUME NEW i \in DOMAIN events', events'[i].kind = "added"
        PROVE  \/ \E j \in DOMAIN events' :
                    /\ j < i /\ events'[j].device = events'[i].device
                    /\ events'[j].kind = "removed"
                    /\ \A k \in DOMAIN events' : j < k /\ k < i =>
                         events'[k].device # events'[i].device
               \/ /\ \A j \in DOMAIN events' : j < i => events'[j].device # events'[i].device
                  /\ \A slot \in eis'.slots : slot.device # events'[i].device
    <3> DEFINE d == events'[i].device
    <3>1. i + 1 \in DOMAIN events /\ events'[i] = events[i + 1] /\ d = events[i + 1].device
          /\ i \in Nat
      BY <1>2
    <3> HIDE DEF d
    <3>2. CASE \E j \in DOMAIN events :
                 /\ j < i + 1 /\ events[j].device = d /\ events[j].kind = "removed"
                 /\ \A k \in DOMAIN events : j < k /\ k < i + 1 => events[k].device # d
      <4>1. PICK j \in DOMAIN events :
                 /\ j < i + 1 /\ events[j].device = d /\ events[j].kind = "removed"
                 /\ \A k \in DOMAIN events : j < k /\ k < i + 1 => events[k].device # d
        BY <3>2
      <4>2. \A k \in DOMAIN events' : j < k + 1 /\ k < i => events'[k].device # d
        <5>1. ASSUME NEW k \in DOMAIN events', j < k + 1, k < i
              PROVE  events'[k].device # d
          <6>1. k + 1 \in DOMAIN events /\ k + 1 < i + 1 /\ events'[k] = events[k + 1]
            BY <1>2, <3>1, <5>1
          <6> QED
            BY <4>1, <5>1, <6>1
        <5> QED
          BY <5>1
      <4>3. CASE j = 1
        <5>1. \A k \in DOMAIN events' : k < i => events'[k].device # d
          BY <1>2, <4>2, <4>3
        <5>2. event.device = d /\ event.kind = "removed"
          BY <1>2, <4>1, <4>3
        <5>3. \A slot \in eis'.slots : slot.device # d
          BY <1>6, <5>2
        <5> QED
          BY <5>1, <5>3 DEF d
      <4>4. CASE j # 1
        <5>1. j - 1 \in DOMAIN events' /\ events'[j - 1] = events[j] /\ j - 1 < i
          <6>1. j - 1 \in DOMAIN events' /\ (j - 1) + 1 = j /\ j - 1 < i
            BY <1>2, <3>1, <4>1, <4>4
          <6> QED
            BY <1>2, <6>1
        <5>2. \A k \in DOMAIN events' : j - 1 < k /\ k < i => events'[k].device # d
          <6>1. \A k \in DOMAIN events' : j - 1 < k => j < k + 1
            BY <1>2
          <6> QED
            BY <4>2, <6>1
        <5> QED
          BY <4>1, <5>1, <5>2 DEF d
      <4> QED
        BY <4>3, <4>4
    <3>3. CASE /\ \A j \in DOMAIN events : j < i + 1 => events[j].device # d
               /\ \A slot \in eis.slots : slot.device # d
      <4>1. \A j \in DOMAIN events' : j < i => events'[j].device # d
        <5>1. ASSUME NEW j \in DOMAIN events', j < i
              PROVE  events'[j].device # d
          <6>1. j + 1 \in DOMAIN events /\ j + 1 < i + 1 /\ events'[j] = events[j + 1]
            BY <1>2, <3>1, <5>1
          <6> QED
            BY <3>3, <6>1
        <5> QED
          BY <5>1
      <4>2. event.device # d
        <5>1. 1 \in DOMAIN events /\ 1 < i + 1
          BY <1>2
        <5> QED
          BY <1>2, <3>3, <5>1
      <4>3. \A slot \in eis'.slots : slot.device # d
        BY <1>6, <3>3, <4>2
      <4> QED
        BY <4>1, <4>3 DEF d
    <3>4. events[i + 1].kind = "added"
      BY <2>1, <3>1
    <3> QED
      BY <3>1, <3>2, <3>3, <3>4 DEF DevicesKnown, AddedOnce
  <2> QED
    BY <2>1 DEF AddedOnce
<1>12. ASSUME NEW slot \in eis'.slots, ~Awaited(slot.device)'
       PROVE  /\ DeviceState(slot.device)' # "absent"
              /\ slot.resumed => /\ DeviceState(slot.device)' = "resumed"
                                 /\ compositor'.device[slot.device].since <= eis'.serial
  <2>1. CASE slot.device # event.device
    <3>1. slot \in eis.slots /\ ~Awaited(slot.device)
      BY <1>6, <1>9, <1>12, <2>1
    <3>2. slot.device \in Devices
      BY <1>5, <3>1 DEF SlotType
    <3>3. compositor.device[slot.device].since \in Nat
      BY <3>2, EisParts DEF DeviceType
    <3> QED
      BY <1>1, <1>5, <1>7, <3>1, <3>3 DEF DevicesKnown, SlotsFollow, DeviceState
  <2>2. CASE slot.device = event.device
    <3>1. Awaited(event.device)
      BY <1>2 DEF Awaited
    <3>2. Told(event)
      BY <1>9, <1>12, <2>2, <3>1
    <3>3. event.kind # "removed" /\ (slot.resumed <=> event.kind = "resumed")
      BY <1>6, <2>2
    <3>4. DeviceState(event.device) # "absent"
          /\ (slot.resumed => DeviceState(event.device) = "resumed")
      BY <1>4, <3>2, <3>3 DEF Told
    <3>5. slot.resumed => compositor.device[event.device].since = eis'.serial
      BY <1>1, <3>2, <3>3 DEF Told
    <3> QED
      BY <1>1, <1>7, <2>2, <3>4, <3>5 DEF DeviceState
  <2> QED
    BY <2>1, <2>2
<1>13. SlotsEmulate'
  <2>1. ASSUME NEW slot \in eis'.slots, slot.emulating
        PROVE  slot.resumed /\ (~Awaited(slot.device)' => Started(slot.device, Len(requests))')
    <3>1. slot \in eis.slots /\ slot.device # event.device
      BY <1>6, <2>1
    <3>2. ~Awaited(slot.device)' => ~Awaited(slot.device)
      BY <1>9, <3>1
    <3>3. slot.resumed /\ (~Awaited(slot.device) => Started(slot.device, Len(requests)))
      BY <2>1, <3>1 DEF DevicesKnown, SlotsEmulate
    <3> QED
      BY <1>1, <3>2, <3>3 DEF Started
  <2> QED
    BY <2>1 DEF SlotsEmulate
<1>14. TextTaken'
  BY <1>1 DEF DevicesKnown, TextTaken, Started, DeviceState
<1>15. SlotsFollow'
  BY <1>12 DEF SlotsFollow, DeviceState
<1> QED
  BY <1>8, <1>10, <1>11, <1>13, <1>14, <1>15 DEF DevicesKnown

---------------------------------------------------------------------------
(* The compositor changes a device.                                        *)

(* A device that an event is awaited of has a last one.                    *)
LEMMA LastEvent ==
  ASSUME Types, NEW d, Awaited(d)
  PROVE  \E i \in DOMAIN events :
           events[i].device = d /\ \A j \in DOMAIN events : i < j => events[j].device # d
<1>1. DOMAIN events = 1 .. Len(events) /\ Len(events) \in Nat
  BY EisParts
<1> DEFINE After == {n \in Nat : \E i \in DOMAIN events : events[i].device = d /\ n = Len(events) - i}
<1>2. After \subseteq Nat /\ After # {}
  <2>1. PICK i \in DOMAIN events : events[i].device = d
    BY DEF Awaited
  <2>2. Len(events) - i \in Nat
    BY <1>1
  <2> QED
    BY <2>1, <2>2
<1>3. \A i \in DOMAIN events : events[i].device = d => Len(events) - i \in After
  BY <1>1
<1>4. \A n \in After : n \in Nat /\ \E i \in DOMAIN events : events[i].device = d /\ n = Len(events) - i
  OBVIOUS
<1> HIDE DEF After
<1>5. PICK m \in After : \A n \in After : m <= n
  BY <1>2, LeastNat
<1>6. PICK i \in DOMAIN events : events[i].device = d /\ m = Len(events) - i
  BY <1>4, <1>5
<1>7. ASSUME NEW j \in DOMAIN events, i < j, events[j].device = d
      PROVE  FALSE
  <2>1. Len(events) - j \in After
    BY <1>3, <1>7
  <2>2. m <= Len(events) - j
    BY <1>5, <2>1
  <2> QED
    BY <1>1, <1>6, <1>7, <2>2
<1> QED
  BY <1>6, <1>7

LEMMA ChangeKnown ==
  ASSUME Types, DevicesKnown, NEW d \in Devices,
         NEW kind \in {"added", "resumed", "paused", "removed"},
         NEW state \in {"absent", "paused", "resumed"}, Change(d, kind, state),
         kind = "added" => DeviceState(d) = "absent",
         kind = "resumed" => state = "resumed",
         kind = "removed" => state = "absent",
         kind \in {"added", "paused"} => state = "paused"
  PROVE  DevicesKnown'
<1> DEFINE last == Len(events) + 1
           event == [kind |-> kind, device |-> d, serial |-> compositor.sent + 1]
<1>1. /\ DOMAIN events = 1 .. Len(events) /\ Len(events) \in Nat /\ events \in Seq(EventType)
      /\ compositor.sent \in Nat /\ compositor.device \in [Devices -> DeviceType]
      /\ DOMAIN requests = 1 .. Len(requests) /\ Len(requests) \in Nat /\ eis.serial \in Nat
      /\ eis.slots \subseteq SlotType
  BY EisParts
<1>2. /\ UNCHANGED <<eis, requests>>
      /\ events' = Append(events, event)
      /\ disturbed' = disturbed \cup {requests[i].owner : i \in DOMAIN requests}
  BY DEF Change
<1>3. /\ compositor'.sent = compositor.sent + 1
      /\ compositor'.device[d].state = state
      /\ compositor'.device[d].since = compositor.sent + 1
      /\ \A e \in Devices \ {d} : compositor'.device[e] = compositor.device[e]
  BY <1>1 DEF Change
<1>4. /\ event.kind = kind /\ event.device = d /\ event.serial = compositor.sent + 1
  OBVIOUS
<1> HIDE DEF event
<1>5. /\ DOMAIN events' = 1 .. last /\ events'[last] = event /\ last \in DOMAIN events'
      /\ \A i \in DOMAIN events : i \in DOMAIN events' /\ i < last /\ events'[i] = events[i]
      /\ \A i \in DOMAIN events' : i = last \/ i \in DOMAIN events
  <2>1. Len(events') = last /\ events'[last] = event
        /\ \A i \in 1 .. Len(events) : events'[i] = events[i]
    BY <1>1, <1>2
  <2>2. DOMAIN events' = 1 .. last
    BY <1>1, <1>2
  <2>3. last \in 1 .. last
    BY <1>1
  <2> QED
    BY <1>1, <2>1, <2>2, <2>3
<1> HIDE DEF last
<1>6. \A i \in DOMAIN events : events[i].serial \in Nat /\ events[i].device \in Devices
        /\ events[i].kind \in {"added", "resumed", "paused", "removed"}
  <2>1. \A i \in DOMAIN events : events[i] \in EventType
    BY <1>1
  <2> QED
    BY <2>1 DEF EventType
<1>7. SerialsRise'
  <2>1. eis.serial < compositor.sent + 1
    BY <1>1 DEF DevicesKnown, SerialsRise
  <2>2. ASSUME NEW i \in DOMAIN events'
        PROVE  eis'.serial < events'[i].serial /\ events'[i].serial <= compositor'.sent
    BY <1>1, <1>2, <1>3, <1>4, <1>5, <1>6, <2>1 DEF DevicesKnown, SerialsRise
  <2>3. ASSUME NEW i \in DOMAIN events', NEW j \in DOMAIN events', i < j
        PROVE  events'[i].serial < events'[j].serial
    <3>1. i \in DOMAIN events /\ events'[i] = events[i]
      BY <1>1, <1>5, <2>3
    <3>2. CASE j = last
      BY <1>1, <1>4, <1>5, <1>6, <3>1, <3>2 DEF DevicesKnown, SerialsRise
    <3>3. CASE j \in DOMAIN events
      BY <1>5, <2>3, <3>1, <3>3 DEF DevicesKnown, SerialsRise
    <3> QED
      BY <1>5, <3>2, <3>3
  <2> QED
    BY <1>1, <1>2, <1>3, <2>1, <2>2, <2>3 DEF SerialsRise
<1>8. \A e : Awaited(e)' <=> Awaited(e) \/ e = d
  BY <1>4, <1>5 DEF Awaited
<1>9. LastTells'
  <2>1. ASSUME NEW i \in DOMAIN events',
               \A j \in DOMAIN events' : i < j => events'[j].device # events'[i].device
        PROVE  Told(events[i])'
    <3>1. CASE i = last
      BY <1>3, <1>4, <1>5, <3>1 DEF Told, DeviceState
    <3>2. CASE i \in DOMAIN events
      <4>1. events'[i] = events[i] /\ events[i].device \in Devices \ {d}
        <5>1. last \in DOMAIN events' /\ i < last
          BY <1>1, <1>5, <3>2
        <5>2. events'[i] = events[i]
          BY <1>5, <3>2
        <5>3. events'[last].device # events'[i].device
          BY <2>1, <5>1
        <5> QED
          BY <1>4, <1>5, <1>6, <3>2, <5>2, <5>3
      <4>2. \A j \in DOMAIN events : i < j => events[j].device # events[i].device
        BY <1>5, <2>1, <4>1
      <4>3. Told(events[i])
        BY <3>2, <4>2 DEF DevicesKnown, LastTells
      <4> QED
        BY <1>3, <4>1, <4>3 DEF Told, DeviceState
    <3> QED
      BY <1>5, <3>1, <3>2
  <2> QED
    BY <2>1 DEF LastTells
<1>10. AddedOnce'
  <2>1. ASSUME NEW i \in DOMAIN events', events'[i].kind = "added"
        PROVE  \/ \E j \in DOMAIN events' :
                    /\ j < i /\ events'[j].device = events'[i].device
                    /\ events'[j].kind = "removed"
                    /\ \A k \in DOMAIN events' : j < k /\ k < i =>
                         events'[k].device # events'[i].device
               \/ /\ \A j \in DOMAIN events' : j < i => events'[j].device # events'[i].device
                  /\ \A slot \in eis'.slots : slot.device # events'[i].device
    <3>1. CASE i \in DOMAIN events
      <4>1. events'[i] = events[i] /\ events[i].kind = "added"
        BY <1>5, <2>1, <3>1
      <4>2. \A k \in DOMAIN events' : k < i => k \in DOMAIN events /\ events'[k] = events[k]
        BY <1>1, <1>5, <3>1
      <4>3. CASE \E j \in DOMAIN events :
                   /\ j < i /\ events[j].device = events[i].device /\ events[j].kind = "removed"
                   /\ \A k \in DOMAIN events : j < k /\ k < i => events[k].device # events[i].device
        BY <1>5, <4>1, <4>2, <4>3
      <4>4. CASE /\ \A j \in DOMAIN events : j < i => events[j].device # events[i].device
                 /\ \A slot \in eis.slots : slot.device # events[i].device
        BY <1>2, <4>1, <4>2, <4>4
      <4> QED
        BY <3>1, <4>1, <4>3, <4>4 DEF DevicesKnown, AddedOnce
    <3>2. CASE i = last
      <4>1. kind = "added" /\ DeviceState(d) = "absent" /\ events'[i].device = d
        BY <1>4, <1>5, <2>1, <3>2
      <4>2. \A k \in DOMAIN events' : k < i => k \in DOMAIN events /\ events'[k] = events[k]
        BY <1>1, <1>5, <3>2
      <4>3. CASE Awaited(d)
        <5>1. PICK j \in DOMAIN events :
                events[j].device = d /\ \A k \in DOMAIN events : j < k => events[k].device # d
          BY <4>3, LastEvent
        <5>2. Told(events[j])
          BY <5>1 DEF DevicesKnown, LastTells
        <5>3. events[j].kind = "removed"
          BY <1>6, <4>1, <5>1, <5>2 DEF Told
        <5> QED
          BY <1>5, <3>2, <4>1, <4>2, <5>1, <5>3
      <4>4. CASE ~Awaited(d)
        <5>1. \A slot \in eis'.slots : slot.device # d
          BY <1>2, <4>1, <4>4 DEF DevicesKnown, SlotsFollow
        <5>2. \A j \in DOMAIN events' : j < i => events'[j].device # d
          BY <4>2, <4>4 DEF Awaited
        <5> QED
          BY <4>1, <5>1, <5>2
      <4> QED
        BY <4>3, <4>4
    <3> QED
      BY <1>5, <3>1, <3>2
  <2> QED
    BY <2>1 DEF AddedOnce
<1>11. \A slot \in eis.slots : slot.device \in Devices
  BY <1>1 DEF SlotType
<1>12. SlotsFollow'
  <2>1. ASSUME NEW slot \in eis'.slots, ~Awaited(slot.device)'
        PROVE  /\ DeviceState(slot.device)' # "absent"
               /\ slot.resumed => /\ DeviceState(slot.device)' = "resumed"
                                  /\ compositor'.device[slot.device].since <= eis'.serial
    <3>1. slot \in eis.slots /\ slot.device \in Devices \ {d} /\ ~Awaited(slot.device)
      BY <1>2, <1>8, <1>11, <2>1
    <3> QED
      BY <1>2, <1>3, <3>1 DEF DevicesKnown, SlotsFollow, DeviceState
  <2> QED
    BY <2>1 DEF SlotsFollow, DeviceState
<1>13. SlotsEmulate'
  <2>1. ASSUME NEW slot \in eis'.slots, slot.emulating
        PROVE  slot.resumed /\ (~Awaited(slot.device)' => Started(slot.device, Len(requests))')
    <3>1. slot \in eis.slots /\ slot.device \in Devices /\ slot.resumed
      BY <1>2, <1>11, <2>1 DEF DevicesKnown, SlotsEmulate
    <3>2. ASSUME ~Awaited(slot.device)' PROVE Started(slot.device, Len(requests))'
      <4>1. slot.device # d /\ ~Awaited(slot.device)
        BY <1>8, <3>2
      <4>2. Started(slot.device, Len(requests))
        BY <2>1, <3>1, <4>1 DEF DevicesKnown, SlotsEmulate
      <4> QED
        BY <1>2, <1>3, <3>1, <4>1, <4>2 DEF Started
    <3> QED
      BY <3>1, <3>2
  <2> QED
    BY <2>1 DEF SlotsEmulate
<1>14. TextTaken'
  <2>1. \A i \in DOMAIN requests' : requests'[i].owner \in disturbed'
    BY <1>2
  <2> QED
    BY <2>1 DEF TextTaken
<1> QED
  BY <1>7, <1>9, <1>10, <1>12, <1>13, <1>14 DEF DevicesKnown

---------------------------------------------------------------------------
(* The compositor handles a request.                                       *)

(* A request starts at most its own device, and that if it was resumed     *)
(* before the request; of devices it changes nothing else.                 *)
LEMMA RequestOnDevice ==
  ASSUME Types, HandleRequest, NEW d \in Devices
  PROVE  /\ compositor'.device[d].since = compositor.device[d].since
         /\ compositor'.device[d].state = compositor.device[d].state
         /\ compositor.device[d].emulating => compositor'.device[d].emulating
         /\ Head(requests).kind = "start" /\ Head(requests).device = d
              /\ compositor.device[d].state = "resumed"
              /\ compositor.device[d].since <= Head(requests).serial =>
                compositor'.device[d].emulating
<1> DEFINE request == Head(requests)
<1>1. /\ requests # <<>> /\ requests' = Tail(requests)
      /\ compositor.device \in [Devices -> DeviceType] /\ compositor \in CompositorType
  BY EisParts DEF HandleRequest, Types, EisTypes
<1>2. request.device \in Devices /\ request.kind \in {"start", "text"}
  BY <1>1, EisParts, TailTyped, RequestParts
<1> HIDE DEF request
<1>3. CASE UNCHANGED compositor /\ request.kind = "text"
  BY <1>3 DEF request
<1>4. CASE /\ request.kind = "start"
           /\ compositor' = [compositor EXCEPT !.device[request.device].emulating =
                               @ \/ (compositor.device[request.device].state = "resumed"
                                     /\ compositor.device[request.device].since
                                          <= request.serial)]
  <2>1. PICK e : e = (compositor.device[request.device].emulating
                      \/ (compositor.device[request.device].state = "resumed"
                          /\ compositor.device[request.device].since <= request.serial))
    OBVIOUS
  <2>2. compositor' = [compositor EXCEPT !.device[request.device].emulating = e]
    BY <1>4, <2>1
  <2>3. compositor'.device =
          [compositor.device EXCEPT ![request.device] =
             [compositor.device[request.device] EXCEPT !.emulating = e]]
    BY <1>1, <1>2, <2>2 DEF CompositorType
  <2>4. compositor.device[request.device] \in DeviceType
    BY <1>1, <1>2
  <2>5. CASE d = request.device
    <3>1. compositor'.device[d] = [compositor.device[d] EXCEPT !.emulating = e]
      BY <1>1, <2>3, <2>5
    <3> QED
      BY <2>1, <2>4, <2>5, <3>1 DEF DeviceType, request
  <2>6. CASE d # request.device
    BY <1>1, <2>3, <2>6 DEF request
  <2> QED
    BY <2>5, <2>6
<1> QED
  BY <1>3, <1>4 DEF HandleRequest, request

(* What a device that was resumed will emulate by, it still does.          *)
LEMMA StartedShifts ==
  ASSUME Types, HandleRequest, NEW d \in Devices, NEW n \in Nat, n + 1 <= Len(requests),
         DeviceState(d) = "resumed", Started(d, n + 1)
  PROVE  Started(d, n)'
<1>1. /\ requests # <<>> /\ requests' = Tail(requests)
      /\ Len(requests) \in Nat /\ Head(requests) = requests[1]
      /\ \A i \in 1 .. Len(requests) - 1 : requests'[i] = requests[i + 1]
  BY EisParts, TailShifts DEF HandleRequest
<1>2. /\ compositor'.device[d].since = compositor.device[d].since
      /\ compositor.device[d].emulating => compositor'.device[d].emulating
      /\ Head(requests).kind = "start" /\ Head(requests).device = d
           /\ compositor.device[d].state = "resumed"
           /\ compositor.device[d].since <= Head(requests).serial =>
             compositor'.device[d].emulating
  BY RequestOnDevice
<1>3. CASE compositor.device[d].emulating
  BY <1>2, <1>3 DEF Started
<1>4. CASE \E j \in 1 .. n + 1 :
             /\ requests[j].kind = "start" /\ requests[j].device = d
             /\ compositor.device[d].since <= requests[j].serial
  <2>1. PICK j \in 1 .. n + 1 :
             /\ requests[j].kind = "start" /\ requests[j].device = d
             /\ compositor.device[d].since <= requests[j].serial
    BY <1>4
  <2>2. CASE j = 1
    <3>1. compositor'.device[d].emulating
      BY <1>1, <1>2, <2>1, <2>2 DEF DeviceState
    <3> QED
      BY <3>1 DEF Started
  <2>3. CASE j # 1
    <3>1. j - 1 \in 1 .. n /\ j - 1 \in 1 .. Len(requests) - 1 /\ (j - 1) + 1 = j
      BY <1>1, <2>3
    <3>2. requests'[j - 1] = requests[j]
      BY <1>1, <3>1
    <3> QED
      BY <1>2, <2>1, <3>1, <3>2 DEF Started
  <2> QED
    BY <2>2, <2>3
<1> QED
  BY <1>3, <1>4 DEF Started

LEMMA RequestKnown ==
  ASSUME Types, DevicesKnown, HandleRequest
  PROVE  DevicesKnown'
<1>1. /\ UNCHANGED <<eis, events, disturbed>> /\ compositor'.sent = compositor.sent
      /\ requests # <<>> /\ requests' = Tail(requests)
  <2>1. compositor \in CompositorType
    BY DEF Types, EisTypes
  <2> QED
    BY <2>1 DEF HandleRequest, CompositorType
<1>2. /\ eis.slots \subseteq SlotType /\ Len(requests) \in Nat /\ Len(requests) >= 1
      /\ DOMAIN requests' = 1 .. Len(requests) - 1 /\ Len(requests') = Len(requests) - 1
      /\ \A i \in 1 .. Len(requests) - 1 :
           requests'[i] = requests[i + 1] /\ i + 1 \in DOMAIN requests
  BY <1>1, EisParts, TailShifts
<1>3. \A d \in Devices : /\ compositor'.device[d].since = compositor.device[d].since
                         /\ compositor'.device[d].state = compositor.device[d].state
  BY RequestOnDevice
<1>4. \A e : Awaited(e)' = Awaited(e)
  BY <1>1 DEF Awaited
<1>5. SerialsRise' /\ AddedOnce'
  BY <1>1 DEF DevicesKnown, SerialsRise, AddedOnce
<1>6. LastTells'
  <2>1. \A i \in DOMAIN events : events[i].device \in Devices
    <3>1. \A i \in DOMAIN events : events[i] \in EventType
      BY EisParts
    <3> QED
      BY <3>1 DEF EventType
  <2>2. ASSUME NEW i \in DOMAIN events, Told(events[i])
        PROVE  Told(events[i])'
    BY <1>1, <1>3, <2>1, <2>2 DEF Told, DeviceState
  <2> QED
    BY <1>1, <2>2 DEF DevicesKnown, LastTells
<1>7. \A slot \in eis.slots : slot.device \in Devices
  BY <1>2 DEF SlotType
<1>8. SlotsFollow'
  <2>1. ASSUME NEW slot \in eis.slots, ~Awaited(slot.device)
        PROVE  /\ DeviceState(slot.device)' # "absent"
               /\ slot.resumed => /\ DeviceState(slot.device)' = "resumed"
                                  /\ compositor'.device[slot.device].since <= eis.serial
    BY <1>3, <1>7, <2>1 DEF DevicesKnown, SlotsFollow, DeviceState
  <2> QED
    BY <1>1, <1>4, <2>1 DEF SlotsFollow, DeviceState
<1>9. SlotsEmulate'
  <2>1. ASSUME NEW slot \in eis.slots, slot.emulating
        PROVE  slot.resumed /\ (~Awaited(slot.device) => Started(slot.device, Len(requests))')
    <3>1. slot.resumed /\ (~Awaited(slot.device) => Started(slot.device, Len(requests)))
      BY <2>1 DEF DevicesKnown, SlotsEmulate
    <3>2. ASSUME ~Awaited(slot.device) PROVE Started(slot.device, Len(requests))'
      <4>1. DeviceState(slot.device) = "resumed"
        BY <3>1, <3>2 DEF DevicesKnown, SlotsFollow
      <4> DEFINE n == Len(requests) - 1
      <4>2. n \in Nat /\ n + 1 = Len(requests) /\ Len(requests') = n
        BY <1>2
      <4> HIDE DEF n
      <4>3. Started(slot.device, n + 1)
        BY <3>1, <3>2, <4>2
      <4>4. PICK d \in Devices, m \in Nat : d = slot.device /\ m = n
        BY <1>7, <4>2
      <4>5. n + 1 <= Len(requests)
        BY <1>2, <4>2
      <4>6. Started(d, m)'
        BY <4>1, <4>3, <4>4, <4>5, StartedShifts
      <4> QED
        BY <4>2, <4>4, <4>6 DEF Started
    <3> QED
      BY <3>1, <3>2
  <2> QED
    BY <1>1, <1>4, <2>1 DEF SlotsEmulate
<1>10. TextTaken'
  <2>1. ASSUME NEW i \in DOMAIN requests', requests'[i].kind = "text",
               requests'[i].owner \notin disturbed'
        PROVE  (DeviceState(requests[i].device) = "resumed" /\ Started(requests[i].device, i - 1))'
    <3>1. i + 1 \in DOMAIN requests /\ requests'[i] = requests[i + 1] /\ i - 1 \in Nat
          /\ (i - 1) + 1 = i /\ (i + 1) - 1 = i /\ i <= Len(requests)
      BY <1>2
    <3>2. PICK d \in Devices, m \in Nat : d = requests[i + 1].device /\ m = i - 1
      <4>1. requests[i + 1] \in RequestType
        BY <3>1, EisParts
      <4> QED
        BY <3>1, <4>1, RequestParts
    <3>3. DeviceState(d) = "resumed" /\ Started(d, m + 1)
      BY <1>1, <2>1, <3>1, <3>2 DEF DevicesKnown, TextTaken
    <3>4. Started(d, m)'
      BY <3>1, <3>2, <3>3, StartedShifts
    <3>5. DeviceState(d)' = "resumed"
      BY <1>3, <3>3 DEF DeviceState
    <3> QED
      BY <3>1, <3>2, <3>4, <3>5 DEF DeviceState, Started
  <2> QED
    BY <2>1 DEF TextTaken
<1> QED
  BY <1>5, <1>6, <1>8, <1>9, <1>10 DEF DevicesKnown

(* A request that is not text of a dictation leaves its rest in the queue. *)
LEMMA RestMovesUp ==
  ASSUME Types, NEW o \in Owners, NEW b \in Nat, RestAfter(o, b), UNCHANGED text,
         typed'[o] = typed[o], requests # <<>>, requests' = Tail(requests),
         ~(Head(requests).kind = "text" /\ Head(requests).owner = o)
  PROVE  \E c \in Nat : RestAfter(o, c)'
<1> DEFINE left == Len(text[o]) - Len(typed[o])
           c == IF b = 0 THEN 0 ELSE b - 1
<1>1. /\ Len(requests) \in Nat /\ 1 \in DOMAIN requests /\ Head(requests) = requests[1]
      /\ DOMAIN requests = 1 .. Len(requests)
      /\ DOMAIN requests' = 1 .. Len(requests) - 1 /\ Len(requests') = Len(requests) - 1
      /\ \A i \in 1 .. Len(requests) - 1 :
           requests'[i] = requests[i + 1] /\ i + 1 \in DOMAIN requests
  BY EisParts, TailShifts
<1>2. Len(text[o]) \in Nat /\ Len(typed[o]) \in Nat
  BY EisParts
<1>3. /\ left >= 0 /\ b + left <= Len(requests)
      /\ \A i \in DOMAIN requests :
           (requests[i].kind = "text" /\ requests[i].owner = o) <=> (b < i /\ i <= b + left)
      /\ \A i \in DOMAIN requests : b < i /\ i <= b + left =>
           requests[i].piece = text[o][Len(typed[o]) + i - b]
      /\ \A i \in 1 .. Len(typed[o]) : typed[o][i] = text[o][i]
  BY DEF RestAfter
<1>4. left \in Int /\ (Len(text[o]) - Len(typed[o]))' = left
  BY <1>2
<1> HIDE DEF left
<1>5. b # 0 \/ left = 0
  <2>1. ~(b < 1 /\ 1 <= b + left)
    BY <1>1, <1>3
  <2> QED
    BY <1>3, <1>4, <2>1
<1>6. c \in Nat /\ (b # 0 => c = b - 1) /\ (b = 0 => c = 0)
  OBVIOUS
<1> HIDE DEF c
<1>7. c + left <= Len(requests')
  BY <1>1, <1>3, <1>4, <1>5, <1>6
<1>8. ASSUME NEW i \in DOMAIN requests'
      PROVE  /\ (requests'[i].kind = "text" /\ requests'[i].owner = o) <=> (c < i /\ i <= c + left)
             /\ c < i /\ i <= c + left => requests'[i].piece = text[o][Len(typed[o]) + i - c]
  <2>1. requests'[i] = requests[i + 1] /\ i + 1 \in DOMAIN requests /\ i \in Nat /\ i >= 1
    BY <1>1
  <2>2. (b < i + 1 /\ i + 1 <= b + left) <=> (c < i /\ i <= c + left)
    BY <1>4, <1>5, <1>6, <2>1
  <2>3. c < i /\ i <= c + left => Len(typed[o]) + i - c = Len(typed[o]) + (i + 1) - b
    BY <1>2, <1>4, <1>5, <1>6, <2>1
  <2> QED
    BY <1>3, <2>1, <2>2, <2>3
<1>9. RestAfter(o, c)'
  BY <1>3, <1>4, <1>7, <1>8 DEF RestAfter
<1> QED
  BY <1>6, <1>9

(* A chunk that is received is the next of its text.                       *)
LEMMA RestIsTyped ==
  ASSUME Types, NEW o \in Owners, NEW b \in Nat, RestAfter(o, b), UNCHANGED text,
         requests # <<>>, requests' = Tail(requests),
         Head(requests).kind = "text", Head(requests).owner = o,
         Receives(o, Head(requests).piece)
  PROVE  RestAfter(o, 0)'
<1> DEFINE done == Len(typed[o])
           left == Len(text[o]) - done
<1>1. /\ Len(requests) \in Nat /\ 1 \in DOMAIN requests /\ Head(requests) = requests[1]
      /\ DOMAIN requests = 1 .. Len(requests)
      /\ DOMAIN requests' = 1 .. Len(requests) - 1 /\ Len(requests') = Len(requests) - 1
      /\ \A i \in 1 .. Len(requests) - 1 :
           requests'[i] = requests[i + 1] /\ i + 1 \in DOMAIN requests
  BY EisParts, TailShifts
<1>2. typed[o] \in Seq(Piece) /\ Len(text[o]) \in Nat /\ done \in Nat
  BY EisParts
<1>3. /\ left >= 0 /\ b + left <= Len(requests)
      /\ \A i \in DOMAIN requests :
           (requests[i].kind = "text" /\ requests[i].owner = o) <=> (b < i /\ i <= b + left)
      /\ \A i \in DOMAIN requests : b < i /\ i <= b + left =>
           requests[i].piece = text[o][done + i - b]
      /\ \A i \in 1 .. done : typed[o][i] = text[o][i]
  BY DEF RestAfter
<1>4. left \in Int /\ left = Len(text[o]) - done
  BY <1>2
<1>5. Head(requests).piece \in Piece
  BY EisParts, TailTyped, RequestParts
<1>6. typed'[o] = Append(typed[o], Head(requests).piece)
  BY EisParts DEF Receives
<1>7. /\ Len(typed'[o]) = done + 1
      /\ \A i \in 1 .. done : typed'[o][i] = typed[o][i]
      /\ typed'[o][done + 1] = Head(requests).piece
  BY <1>2, <1>5, <1>6, AppendProperties
<1> HIDE DEF left, done
<1>8. b = 0 /\ left >= 1
  <2>1. b < 1 /\ 1 <= b + left
    BY <1>1, <1>3
  <2> QED
    BY <1>4, <2>1
<1>9. Head(requests).piece = text[o][done + 1]
  <2>1. b < 1 /\ 1 <= b + left /\ done + 1 - b = done + 1
    BY <1>2, <1>4, <1>8
  <2> QED
    BY <1>1, <1>3, <2>1
<1>10. Len(text'[o]) - Len(typed'[o]) = left - 1
  BY <1>2, <1>4, <1>7
<1>11. ASSUME NEW i \in DOMAIN requests'
       PROVE  /\ (requests'[i].kind = "text" /\ requests'[i].owner = o) <=> (0 < i /\ i <= left - 1)
              /\ 0 < i /\ i <= left - 1 => requests'[i].piece = text[o][(done + 1) + i - 0]
  <2>1. requests'[i] = requests[i + 1] /\ i + 1 \in DOMAIN requests /\ i \in Nat /\ i >= 1
    BY <1>1
  <2>2. (b < i + 1 /\ i + 1 <= b + left) <=> (0 < i /\ i <= left - 1)
    BY <1>4, <1>8, <2>1
  <2>3. (done + 1) + i - 0 = done + (i + 1) - b
    BY <1>2, <1>8, <2>1
  <2> QED
    BY <1>3, <2>1, <2>2, <2>3
<1>12. \A i \in 1 .. done + 1 : typed'[o][i] = text[o][i]
  <2>1. ASSUME NEW i \in 1 .. done + 1
        PROVE  typed'[o][i] = text[o][i]
    <3>1. CASE i = done + 1
      BY <1>7, <1>9, <3>1
    <3>2. CASE i \in 1 .. done
      BY <1>3, <1>7, <3>2
    <3> QED
      BY <1>2, <3>1, <3>2
  <2> QED
    BY <2>1
<1>13. left - 1 >= 0 /\ 0 + (left - 1) <= Len(requests')
  BY <1>1, <1>3, <1>4, <1>8
<1> QED
  BY <1>7, <1>10, <1>11, <1>12, <1>13 DEF RestAfter

LEMMA RequestSubmits ==
  ASSUME Types, Types', DevicesKnown, HandleRequest, UNCHANGED text, NEW o \in Owners, Submitted(o)
  PROVE  Submitted(o)'
<1> DEFINE request == Head(requests)
<1>1. /\ UNCHANGED <<outcome, disturbed>> /\ requests # <<>> /\ requests' = Tail(requests)
      /\ typed \in [Owners -> Seq(Piece)]
  BY EisParts DEF HandleRequest
<1>2. /\ 1 \in DOMAIN requests /\ request = requests[1]
      /\ \A i \in DOMAIN requests' : requests'[i] = requests[i + 1] /\ i + 1 \in DOMAIN requests
  BY <1>1, EisParts, TailShifts
<1>3. request \in RequestType /\ request.owner \in Owners /\ request.kind \in {"start", "text"}
  BY <1>1, EisParts, TailTyped, RequestParts
<1>4. outcome[o] = "none" => request.owner # o
  BY <1>2 DEF Submitted
<1>5. ~(request.kind = "text" /\ request.owner = o) => typed'[o] = typed[o]
  BY <1>1, <1>3 DEF HandleRequest, Receives
<1>6. outcome'[o] = "none" =>
        typed'[o] = <<>> /\ \A i \in DOMAIN requests' : requests'[i].owner # o
  BY <1>1, <1>2, <1>4, <1>5 DEF Submitted
<1>7. ASSUME outcome'[o] = "Ok", o \notin disturbed'
      PROVE  \E b \in Nat : RestAfter(o, b)'
  <2>1. PICK b \in Nat : RestAfter(o, b)
    BY <1>1, <1>7 DEF Submitted
  <2>2. CASE ~(request.kind = "text" /\ request.owner = o)
    BY <1>1, <1>5, <2>1, <2>2, RestMovesUp
  <2>3. CASE request.kind = "text" /\ request.owner = o
    <3>1. DeviceState(request.device) = "resumed" /\ Started(request.device, 1 - 1)
      BY <1>1, <1>2, <1>7, <2>3 DEF DevicesKnown, TextTaken
    <3>2. ~\E j \in 1 .. 1 - 1 : TRUE
      OBVIOUS
    <3>3. compositor.device[request.device].emulating
      BY <3>1, <3>2 DEF Started
    <3>4. Receives(o, request.piece)
      BY <2>3, <3>1, <3>3 DEF HandleRequest, DeviceState
    <3>5. RestAfter(o, 0)'
      BY <1>1, <2>1, <2>3, <3>4, RestIsTyped
    <3> QED
      BY <3>5
  <2> QED
    BY <2>2, <2>3
<1> QED
  BY <1>6, <1>7 DEF Submitted

---------------------------------------------------------------------------
(* The worker submits a text.                                              *)

(* Two sequences in a row.                                                 *)
Row(u, s, t) ==
  /\ Len(u) = Len(s) + Len(t) /\ DOMAIN u = 1 .. Len(s) + Len(t)
  /\ \A i \in 1 .. Len(s) : u[i] = s[i]
  /\ \A i \in 1 .. Len(t) : u[Len(s) + i] = t[i]

LEMMA InARow ==
  ASSUME NEW S, NEW s \in Seq(S), NEW t \in Seq(S)
  PROVE  s \o t \in Seq(S) /\ Row(s \o t, s, t)
<1> DEFINE u == s \o t
<1> HIDE DEF u
<1>1. /\ u \in Seq(S) /\ Len(u) = Len(s) + Len(t)
      /\ \A i \in 1 .. Len(s) + Len(t) : u[i] = IF i <= Len(s) THEN s[i] ELSE t[i - Len(s)]
  BY ConcatProperties DEF u
<1>2. Len(s) \in Nat /\ Len(t) \in Nat
  OBVIOUS
<1>3. ASSUME NEW i \in 1 .. Len(s) PROVE u[i] = s[i]
  BY <1>1, <1>2
<1>4. ASSUME NEW i \in 1 .. Len(t) PROVE u[Len(s) + i] = t[i]
  <2>1. /\ Len(s) + i \in 1 .. Len(s) + Len(t) /\ ~(Len(s) + i <= Len(s))
        /\ (Len(s) + i) - Len(s) = i
    BY <1>2
  <2> QED
    BY <1>1, <2>1
<1>5. DOMAIN u = 1 .. Len(s) + Len(t)
  BY <1>1, LenProperties
<1>6. Row(u, s, t)
  BY <1>1, <1>3, <1>4, <1>5 DEF Row
<1> QED
  BY <1>1, <1>6 DEF u

(* What a submission that goes out does to the connection.                 *)
GoesOut(slot, start, out) ==
  /\ slot \in TextSlots /\ job.owner # None /\ out \in 0 .. Len(JobText)
  /\ start = IF slot.emulating THEN <<>> ELSE <<StartRequest(slot.device)>>
  /\ requests' = requests \o start \o TextRequests(slot.device, out)
  /\ eis'.slots = (eis.slots \ {slot}) \cup {[slot EXCEPT !.emulating = TRUE]}
  /\ eis'.serial = eis.serial
  /\ disturbed' = IF events = <<>> THEN disturbed ELSE disturbed \cup {job.owner}
  /\ UNCHANGED <<events, compositor>>

(* Its requests, in their places.                                          *)
Follows(slot, start, out) ==
  /\ Len(start) = IF slot.emulating THEN 0 ELSE 1
  /\ Len(requests') = Len(requests) + Len(start) + out
  /\ DOMAIN requests' = 1 .. Len(requests) + Len(start) + out
  /\ \A i \in DOMAIN requests : i \in DOMAIN requests' /\ requests'[i] = requests[i]
  /\ ~slot.emulating => requests'[Len(requests) + 1] = StartRequest(slot.device)
  /\ \A i \in 1 .. out :
       requests'[Len(requests) + Len(start) + i] =
         [kind |-> "text", device |-> slot.device, piece |-> JobText[i], owner |-> job.owner]

(* The requests of a submission follow those that are pending.             *)
LEMMA RequestsFollow ==
  ASSUME Types, NEW slot, NEW start, NEW out, GoesOut(slot, start, out)
  PROVE  Follows(slot, start, out)
<1>0. /\ slot \in TextSlots /\ job.owner # None /\ out \in 0 .. Len(JobText)
      /\ start = IF slot.emulating THEN <<>> ELSE <<StartRequest(slot.device)>>
      /\ requests' = requests \o start \o TextRequests(slot.device, out)
      /\ slot \in SlotType
  BY EisParts DEF GoesOut, TextSlots
<1>1. /\ requests \in Seq(RequestType) /\ Len(requests) \in Nat
      /\ DOMAIN requests = 1 .. Len(requests) /\ CallTypes /\ slot.device \in Devices
      /\ eis.serial \in Nat
  BY <1>0, EisParts DEF Types, SlotType
<1>2. StartRequest(slot.device) \in RequestType
  <2>1. job.owner \in Owners
    BY <1>0, <1>1, JobTextTyped
  <2> QED
    BY <1>1, <2>1 DEF StartRequest, RequestType, StartType
<1>3. /\ start \in Seq(RequestType) /\ Len(start) = IF slot.emulating THEN 0 ELSE 1
      /\ ~slot.emulating => start[1] = StartRequest(slot.device)
  BY <1>0, <1>2 DEF SlotType
<1> DEFINE new == TextRequests(slot.device, out)
<1>4. new \in Seq(RequestType) /\ Len(new) = out /\ out \in Nat
  <2>1. Len(JobText) \in Nat
    BY <1>0, <1>1, JobTextTyped
  <2> QED
    BY <1>0, <1>1, <2>1, TextRequestsTyped
<1>5. \A i \in 1 .. out :
        new[i] = [kind |-> "text", device |-> slot.device, piece |-> JobText[i], owner |-> job.owner]
  BY DEF TextRequests
<1> HIDE DEF new
<1> DEFINE old == requests \o start
<1>6. /\ old \in Seq(RequestType) /\ Len(old) = Len(requests) + Len(start)
      /\ \A i \in 1 .. Len(requests) : old[i] = requests[i]
      /\ ~slot.emulating => old[Len(requests) + 1] = start[1]
  <2>1. old \in Seq(RequestType) /\ Row(old, requests, start)
    BY <1>1, <1>3, InARow
  <2> HIDE DEF old
  <2>2. /\ old \in Seq(RequestType) /\ Len(old) = Len(requests) + Len(start)
        /\ \A i \in 1 .. Len(requests) : old[i] = requests[i]
        /\ \A i \in 1 .. Len(start) : old[Len(requests) + i] = start[i]
    BY <2>1 DEF Row
  <2>3. ~slot.emulating => 1 \in 1 .. Len(start)
    BY <1>3
  <2> QED
    BY <2>2, <2>3
<1> HIDE DEF old
<1>7. /\ requests' = old \o new /\ Len(requests') = Len(old) + out
      /\ DOMAIN requests' = 1 .. Len(old) + out
      /\ \A i \in 1 .. Len(old) : requests'[i] = old[i]
      /\ \A i \in 1 .. out : requests'[Len(old) + i] = new[i]
  <2>1. requests' = old \o new
    BY <1>0 DEF old, new
  <2>2. Row(old \o new, old, new)
    BY <1>4, <1>6, InARow
  <2> QED
    BY <1>4, <2>1, <2>2 DEF Row
<1>8. Len(old) \in Nat /\ Len(start) \in Nat /\ Len(requests) <= Len(old)
  BY <1>1, <1>3, <1>6
<1>9. \A i \in DOMAIN requests : i \in DOMAIN requests' /\ requests'[i] = requests[i]
  <2>1. ASSUME NEW i \in DOMAIN requests
        PROVE  i \in DOMAIN requests' /\ requests'[i] = requests[i]
    <3>1. i \in 1 .. Len(requests) /\ i \in 1 .. Len(old) /\ i \in 1 .. Len(old) + out
      BY <1>1, <1>4, <1>8
    <3> QED
      BY <1>6, <1>7, <3>1
  <2> QED
    BY <2>1
<1>10. ~slot.emulating => requests'[Len(requests) + 1] = StartRequest(slot.device)
  BY <1>1, <1>3, <1>6, <1>7
<1>11. ASSUME NEW i \in 1 .. out
       PROVE  requests'[Len(requests) + Len(start) + i] =
                [kind |-> "text", device |-> slot.device, piece |-> JobText[i], owner |-> job.owner]
  <2>1. requests'[Len(old) + i] = new[i]
    BY <1>7
  <2> QED
    BY <1>5, <1>6, <2>1
<1> QED
  BY <1>3, <1>6, <1>7, <1>9, <1>10, <1>11 DEF Follows

LEMMA SubmissionKnown ==
  ASSUME Types, DevicesKnown, NEW slot, NEW start, NEW out, GoesOut(slot, start, out)
  PROVE  DevicesKnown'
<1>1. /\ slot \in TextSlots /\ job.owner # None /\ out \in 0 .. Len(JobText)
      /\ eis'.slots = (eis.slots \ {slot}) \cup {[slot EXCEPT !.emulating = TRUE]}
      /\ eis'.serial = eis.serial /\ UNCHANGED <<events, compositor>>
      /\ start = IF slot.emulating THEN <<>> ELSE <<StartRequest(slot.device)>>
      /\ requests' = requests \o start \o TextRequests(slot.device, out)
      /\ disturbed \subseteq disturbed'
      /\ events # <<>> => job.owner \in disturbed'
  BY DEF GoesOut
<1>2. /\ eis.slots \subseteq SlotType /\ Len(requests) \in Nat
      /\ DOMAIN requests = 1 .. Len(requests) /\ CallTypes
  BY EisParts DEF Types
<1>3. slot \in eis.slots /\ slot \in SlotType /\ slot.resumed /\ slot.device \in Devices
  BY <1>1, <1>2 DEF TextSlots, AcceptsText, SlotType
<1>4. /\ Len(start) = IF slot.emulating THEN 0 ELSE 1
      /\ Len(requests') = Len(requests) + Len(start) + out
      /\ DOMAIN requests' = 1 .. Len(requests) + Len(start) + out
      /\ \A i \in DOMAIN requests : i \in DOMAIN requests' /\ requests'[i] = requests[i]
      /\ ~slot.emulating => requests'[Len(requests) + 1] = StartRequest(slot.device)
      /\ \A i \in 1 .. out :
           requests'[Len(requests) + Len(start) + i] =
             [kind |-> "text", device |-> slot.device, piece |-> JobText[i], owner |-> job.owner]
  BY RequestsFollow DEF Follows
<1>5. Len(start) \in {0, 1} /\ out \in Nat /\ Len(start) + out \in Nat
  <2>1. Len(JobText) \in Nat
    BY <1>1, <1>2, JobTextTyped
  <2> QED
    BY <1>1, <1>4, <2>1
<1>6. \A d : Awaited(d)' = Awaited(d)
  BY <1>1 DEF Awaited
<1>7. ASSUME NEW d, NEW n \in Nat, n <= Len(requests), Started(d, n), NEW m \in Nat, n <= m
      PROVE  Started(d, m)'
  <2>1. CASE compositor.device[d].emulating
    BY <1>1, <2>1 DEF Started
  <2>2. CASE \E j \in 1 .. n :
               /\ requests[j].kind = "start" /\ requests[j].device = d
               /\ compositor.device[d].since <= requests[j].serial
    <3>1. PICK j \in 1 .. n :
               /\ requests[j].kind = "start" /\ requests[j].device = d
               /\ compositor.device[d].since <= requests[j].serial
      BY <2>2
    <3>2. j \in DOMAIN requests /\ j \in 1 .. m
      BY <1>2, <1>7
    <3> QED
      BY <1>1, <1>4, <3>1, <3>2 DEF Started
  <2> QED
    BY <1>7, <2>1, <2>2 DEF Started
<1>8. ASSUME ~Awaited(slot.device), NEW m \in Nat, Len(requests) + Len(start) <= m
      PROVE  DeviceState(slot.device) = "resumed" /\ Started(slot.device, m)'
  <2>1. /\ DeviceState(slot.device) = "resumed"
        /\ compositor.device[slot.device].since <= eis.serial
    BY <1>3, <1>8 DEF DevicesKnown, SlotsFollow
  <2>2. CASE slot.emulating
    <3>1. Started(slot.device, Len(requests))
      BY <1>3, <1>8, <2>2 DEF DevicesKnown, SlotsEmulate
    <3>2. Len(requests) <= m
      BY <1>2, <1>5, <1>8
    <3> QED
      BY <1>2, <1>7, <2>1, <3>1, <3>2
  <2>3. CASE ~slot.emulating
    <3>1. Len(requests) + 1 \in 1 .. m
      BY <1>2, <1>4, <1>8, <2>3
    <3>2. requests'[Len(requests) + 1] = StartRequest(slot.device)
      BY <1>4, <2>3
    <3>3. /\ requests'[Len(requests) + 1].kind = "start"
          /\ requests'[Len(requests) + 1].device = slot.device
          /\ compositor.device[slot.device].since <= requests'[Len(requests) + 1].serial
      BY <2>1, <3>2 DEF StartRequest
    <3> QED
      BY <1>1, <2>1, <3>1, <3>3 DEF Started
  <2> QED
    BY <2>2, <2>3
<1>9. \A other \in eis'.slots :
        \/ other \in eis.slots
        \/ other.device = slot.device /\ other.resumed /\ other.emulating
  <2>1. [slot EXCEPT !.emulating = TRUE].device = slot.device
        /\ [slot EXCEPT !.emulating = TRUE].resumed
        /\ [slot EXCEPT !.emulating = TRUE].emulating
    BY <1>3 DEF SlotType
  <2> QED
    BY <1>1, <2>1
<1>10. SerialsRise' /\ LastTells'
  BY <1>1 DEF DevicesKnown, SerialsRise, LastTells, Told, DeviceState
<1>11. AddedOnce'
  <2>1. ASSUME NEW d, \A other \in eis.slots : other.device # d
        PROVE  \A other \in eis'.slots : other.device # d
    BY <1>3, <1>9, <2>1
  <2>2. ASSUME NEW i \in DOMAIN events, events[i].kind = "added"
        PROVE  \/ \E j \in DOMAIN events :
                    /\ j < i /\ events[j].device = events[i].device /\ events[j].kind = "removed"
                    /\ \A k \in DOMAIN events : j < k /\ k < i => events[k].device # events[i].device
               \/ /\ \A j \in DOMAIN events : j < i => events[j].device # events[i].device
                  /\ \A other \in eis'.slots : other.device # events[i].device
    BY <2>1, <2>2 DEF DevicesKnown, AddedOnce
  <2> QED
    BY <1>1, <2>2 DEF AddedOnce
<1>12. SlotsFollow'
  <2>1. ASSUME NEW other \in eis'.slots, ~Awaited(other.device)
        PROVE  /\ DeviceState(other.device) # "absent"
               /\ other.resumed => /\ DeviceState(other.device) = "resumed"
                                   /\ compositor.device[other.device].since <= eis.serial
    BY <1>3, <1>9, <2>1 DEF DevicesKnown, SlotsFollow
  <2> QED
    BY <1>1, <1>6, <2>1 DEF SlotsFollow, DeviceState
<1>13. SlotsEmulate'
  <2>1. ASSUME NEW other \in eis'.slots, other.emulating
        PROVE  other.resumed /\ (~Awaited(other.device) => Started(other.device, Len(requests))')
    <3>1. Len(requests') \in Nat /\ Len(requests) <= Len(requests')
          /\ Len(requests) + Len(start) <= Len(requests')
      BY <1>2, <1>4, <1>5
    <3>2. CASE other \in eis.slots
      <4>1. other.resumed /\ (~Awaited(other.device) => Started(other.device, Len(requests)))
        BY <2>1, <3>2 DEF DevicesKnown, SlotsEmulate
      <4>2. ASSUME ~Awaited(other.device) PROVE Started(other.device, Len(requests))'
        <5>1. PICK m \in Nat : m = Len(requests')
          BY <3>1
        <5>2. Started(other.device, m)'
          BY <1>2, <1>7, <3>1, <4>1, <4>2, <5>1
        <5> QED
          BY <5>1, <5>2 DEF Started
      <4> QED
        BY <4>1, <4>2
    <3>3. CASE other.device = slot.device /\ other.resumed
      <4>1. ASSUME ~Awaited(other.device) PROVE Started(other.device, Len(requests))'
        <5>1. PICK m \in Nat : m = Len(requests')
          BY <3>1
        <5>2. Started(slot.device, m)'
          BY <1>8, <3>1, <3>3, <4>1, <5>1
        <5> QED
          BY <3>3, <5>1, <5>2 DEF Started
      <4> QED
        BY <3>3, <4>1
    <3> QED
      BY <1>9, <3>2, <3>3
  <2> QED
    BY <1>6, <2>1 DEF SlotsEmulate
<1>14. TextTaken'
  <2>1. ASSUME NEW i \in DOMAIN requests', requests'[i].kind = "text",
               requests'[i].owner \notin disturbed'
        PROVE  (DeviceState(requests[i].device) = "resumed" /\ Started(requests[i].device, i - 1))'
    <3>1. CASE i \in DOMAIN requests
      <4>1. requests'[i] = requests[i]
        BY <1>4, <3>1
      <4>2. DeviceState(requests[i].device) = "resumed" /\ Started(requests[i].device, i - 1)
        BY <1>1, <2>1, <3>1, <4>1 DEF DevicesKnown, TextTaken
      <4>3. i - 1 \in Nat /\ i - 1 <= Len(requests)
        BY <1>2, <3>1
      <4>4. PICK d : d = requests[i].device
        OBVIOUS
      <4>6. PICK m \in Nat : m = i - 1
        BY <4>3
      <4>5. Started(d, m)'
        BY <1>7, <4>2, <4>3, <4>4, <4>6
      <4>7. Started(requests[i].device, i - 1)'
        BY <4>1, <4>4, <4>5, <4>6 DEF Started
      <4> QED
        BY <1>1, <4>1, <4>2, <4>7 DEF DeviceState
    <3>2. CASE i \notin DOMAIN requests
      <4>1. i \in Nat /\ Len(requests) < i /\ i <= Len(requests) + Len(start) + out
        BY <1>2, <1>4, <1>5, <3>2
      <4>2. Len(requests) + Len(start) < i
        <5>1. CASE ~slot.emulating /\ i = Len(requests) + 1
          BY <1>4, <2>1, <5>1 DEF StartRequest
        <5> QED
          BY <1>2, <1>4, <4>1, <5>1
      <4>3. PICK k \in 1 .. out : i = Len(requests) + Len(start) + k
        <5>1. i - (Len(requests) + Len(start)) \in 1 .. out
          BY <1>2, <1>5, <4>1, <4>2
        <5>2. i = Len(requests) + Len(start) + (i - (Len(requests) + Len(start)))
          BY <1>2, <1>5, <4>1
        <5> QED
          BY <5>1, <5>2
      <4>4. requests'[i].device = slot.device /\ requests'[i].owner = job.owner
        <5>1. requests'[i] = [kind |-> "text", device |-> slot.device, piece |-> JobText[k],
                              owner |-> job.owner]
          BY <1>4, <4>3
        <5> QED
          BY <5>1
      <4>5. ~Awaited(slot.device)
        <5>1. events = <<>>
          BY <1>1, <2>1, <4>4
        <5> QED
          BY <5>1 DEF Awaited
      <4>6. PICK m \in Nat : m = i - 1 /\ Len(requests) + Len(start) <= m
        BY <1>2, <1>5, <4>1, <4>2
      <4>7. DeviceState(slot.device) = "resumed" /\ Started(slot.device, m)'
        BY <1>8, <4>5, <4>6
      <4> QED
        BY <1>1, <4>4, <4>6, <4>7 DEF Started, DeviceState
    <3> QED
      BY <3>1, <3>2
  <2> QED
    BY <2>1 DEF TextTaken
<1> QED
  BY <1>10, <1>11, <1>12, <1>13, <1>14 DEF DevicesKnown

(* Of the text of this submission all is in the requests when it is        *)
(* reported as complete; of the others, what was there before.             *)
LEMMA SubmissionSubmits ==
  ASSUME Types, Types', NEW slot, NEW start, NEW out, GoesOut(slot, start, out),
         NEW result \in Results, End(result), result = "Ok" => out = Len(JobText),
         UNCHANGED <<typed, text>>, NEW o \in Owners, \A p \in Owners : Submitted(p)
  PROVE  Submitted(o)'
<1>1. /\ slot \in TextSlots /\ job.owner # None /\ out \in 0 .. Len(JobText)
      /\ start = IF slot.emulating THEN <<>> ELSE <<StartRequest(slot.device)>>
      /\ requests' = requests \o start \o TextRequests(slot.device, out)
      /\ disturbed \subseteq disturbed'
  BY DEF GoesOut
<1>2. /\ eis.slots \subseteq SlotType /\ Len(requests) \in Nat
      /\ DOMAIN requests = 1 .. Len(requests) /\ CallTypes /\ job.owner \in Owners
      /\ Len(JobText) \in Nat
  BY <1>1, EisParts, JobTextTyped DEF Types
<1>3. slot \in SlotType
  BY <1>1, <1>2 DEF TextSlots
<1>4. /\ Len(start) = IF slot.emulating THEN 0 ELSE 1
      /\ Len(requests') = Len(requests) + Len(start) + out
      /\ DOMAIN requests' = 1 .. Len(requests) + Len(start) + out
      /\ \A i \in DOMAIN requests : i \in DOMAIN requests' /\ requests'[i] = requests[i]
      /\ ~slot.emulating => requests'[Len(requests) + 1] = StartRequest(slot.device)
      /\ \A i \in 1 .. out :
           requests'[Len(requests) + Len(start) + i] =
             [kind |-> "text", device |-> slot.device, piece |-> JobText[i], owner |-> job.owner]
  BY RequestsFollow DEF Follows
<1>5. Len(start) \in {0, 1} /\ out \in Nat
  BY <1>1, <1>2, <1>4
<1> DEFINE base == Len(requests) + Len(start)
<1>6. base \in Nat /\ Len(requests) <= base /\ DOMAIN requests' = 1 .. base + out
      /\ Len(requests') = base + out
  BY <1>2, <1>4, <1>5
<1>7. \A i \in 1 .. out : requests'[base + i] =
        [kind |-> "text", device |-> slot.device, piece |-> JobText[i], owner |-> job.owner]
  BY <1>4
<1>8. ~slot.emulating => base = Len(requests) + 1
  BY <1>4
<1>9. slot.emulating => base = Len(requests)
  BY <1>2, <1>4
<1> HIDE DEF base
<1>10. ASSUME NEW i \in DOMAIN requests', i \notin DOMAIN requests
       PROVE  /\ requests'[i].owner = job.owner
              /\ \/ requests'[i].kind = "start" /\ i = base
                 \/ /\ requests'[i].kind = "text" /\ base < i /\ i - base \in 1 .. out
                    /\ requests'[i].piece = JobText[i - base]
  <2>1. i \in Nat /\ Len(requests) < i /\ i <= base + out
    BY <1>2, <1>5, <1>6, <1>10
  <2>2. CASE base < i
    <3>1. i - base \in 1 .. out /\ base + (i - base) = i
      BY <1>5, <1>6, <2>1, <2>2
    <3>2. requests'[i] = [kind |-> "text", device |-> slot.device, piece |-> JobText[i - base],
                          owner |-> job.owner]
      BY <1>7, <3>1
    <3> QED
      BY <2>2, <3>1, <3>2
  <2>3. CASE ~(base < i)
    <3>1. ~slot.emulating /\ i = base /\ i = Len(requests) + 1
      BY <1>2, <1>3, <1>6, <1>8, <1>9, <2>1, <2>3
    <3> QED
      BY <1>4, <3>1 DEF StartRequest
  <2> QED
    BY <2>2, <2>3
<1>11. outcome[job.owner] = "none"
  BY <1>2 DEF Types, LockHeld
<1>12. outcome'[o] = IF o = job.owner THEN result ELSE outcome[o]
  BY <1>2 DEF End, CallTypes
<1>13. result # "none"
  BY DEF Results, ErrorKinds
<1>14. CASE o # job.owner
  <2>1. outcome'[o] = "none" =>
          typed'[o] = <<>> /\ \A i \in DOMAIN requests' : requests'[i].owner # o
    BY <1>4, <1>10, <1>12, <1>14 DEF Submitted
  <2>2. ASSUME outcome'[o] = "Ok", o \notin disturbed'
        PROVE  \E b \in Nat : RestAfter(o, b)'
    <3>1. PICK b \in Nat : RestAfter(o, b)
      BY <1>1, <1>12, <1>14, <2>2 DEF Submitted
    <3> DEFINE left == Len(text[o]) - Len(typed[o])
    <3>2. Len(text[o]) \in Nat /\ Len(typed[o]) \in Nat
      BY EisParts
    <3>8. left \in Int
      BY <3>2
    <3>3. /\ left >= 0 /\ b + left <= Len(requests)
          /\ \A i \in DOMAIN requests :
               (requests[i].kind = "text" /\ requests[i].owner = o) <=> (b < i /\ i <= b + left)
          /\ \A i \in DOMAIN requests : b < i /\ i <= b + left =>
               requests[i].piece = text[o][Len(typed[o]) + i - b]
          /\ \A i \in 1 .. Len(typed[o]) : typed[o][i] = text[o][i]
      BY <3>1 DEF RestAfter
    <3>4. (Len(text[o]) - Len(typed[o]))' = left
      OBVIOUS
    <3> HIDE DEF left
    <3>5. b + left <= Len(requests')
      BY <1>2, <1>5, <1>6, <3>3, <3>8
    <3>6. ASSUME NEW i \in DOMAIN requests'
          PROVE  /\ (requests'[i].kind = "text" /\ requests'[i].owner = o)
                      <=> (b < i /\ i <= b + left)
                 /\ b < i /\ i <= b + left =>
                      requests'[i].piece = text[o][Len(typed[o]) + i - b]
      <4>1. CASE i \in DOMAIN requests
        BY <1>4, <3>3, <4>1
      <4>2. CASE i \notin DOMAIN requests
        <5>1. requests'[i].owner # o
          BY <1>10, <1>14, <4>2
        <5>2. ~(i <= b + left)
          BY <1>2, <1>6, <3>3, <3>8, <4>2
        <5> QED
          BY <5>1, <5>2
      <4> QED
        BY <4>1, <4>2
    <3>7. RestAfter(o, b)'
      BY <3>3, <3>4, <3>5, <3>6 DEF RestAfter
    <3> QED
      BY <3>7
  <2> QED
    BY <2>1, <2>2 DEF Submitted
<1>15. CASE o = job.owner
  <2>1. typed[o] = <<>> /\ \A i \in DOMAIN requests : requests[i].owner # o
    BY <1>11, <1>15 DEF Submitted
  <2>4. PICK b \in Nat : b = base
    BY <1>6
  <2>2. ASSUME outcome'[o] = "Ok", o \notin disturbed'
        PROVE  RestAfter(o, b)'
    <3>1. out = Len(text[o]) /\ JobText = text[o]
      BY <1>12, <1>15, <2>2 DEF JobText
    <3>2. Len(typed'[o]) = 0 /\ Len(text'[o]) - Len(typed'[o]) = out
      BY <1>5, <2>1, <3>1
    <3>3. ASSUME NEW i \in DOMAIN requests'
          PROVE  /\ (requests'[i].kind = "text" /\ requests'[i].owner = o)
                      <=> (base < i /\ i <= base + out)
                 /\ base < i /\ i <= base + out => requests'[i].piece = text[o][0 + i - base]
      <4>1. i \in Nat /\ i <= base + out
        BY <1>5, <1>6
      <4>2. 0 + i - base = i - base
        BY <1>6, <4>1
      <4>3. CASE i \in DOMAIN requests
        <5>1. requests'[i].owner # o /\ ~(base < i)
          BY <1>2, <1>4, <1>6, <2>1, <4>3
        <5> QED
          BY <5>1
      <4>4. CASE i \notin DOMAIN requests
        BY <1>6, <1>10, <1>15, <3>1, <4>1, <4>2, <4>4
      <4> QED
        BY <4>3, <4>4
    <3>4. \A i \in 1 .. 0 : FALSE
      OBVIOUS
    <3>5. out >= 0 /\ base + out <= Len(requests')
      BY <1>5, <1>6
    <3> QED
      BY <2>4, <3>2, <3>3, <3>4, <3>5 DEF RestAfter
  <2>3. outcome'[o] = "Ok" /\ o \notin disturbed' => \E c \in Nat : RestAfter(o, c)'
    BY <2>2, <2>4
  <2> QED
    BY <1>12, <1>13, <1>15, <2>3 DEF Submitted
<1> QED
  BY <1>14, <1>15

---------------------------------------------------------------------------
(* A receipt is kept.                                                      *)

(* A step that leaves the EIS adapter alone, or ends without a receipt.    *)
LEMMA ReceiptUntouched ==
  ASSUME ReceiptInv, Types', UNCHANGED <<environment, text>>,
         Backend = "eis" =>
           /\ UNCHANGED <<typed, events, requests, compositor, disturbed>>
           /\ UNCHANGED <<eis.slots, eis.serial>> \/ (eis'.slots = {} /\ eis'.serial = 0)
           /\ UNCHANGED outcome
              \/ \E result \in Results \ {"Ok"} : job.owner \in Owners /\ End(result)
  PROVE  ReceiptInv'
<1>1. Types /\ CallTypes /\ Backend' = Backend
  BY BackendKept DEF ReceiptInv, Types
<1>2. Backend = "eis" => DevicesKnown'
  BY <1>1, WorkerForgets DEF ReceiptInv
<1>3. ASSUME Backend = "eis", NEW o \in Owners
      PROVE  Submitted(o)'
  <2>1. outcome'[o] \in {"none", "Ok"} => outcome'[o] = outcome[o]
    BY <1>1, <1>3, EndsWithoutReceipt
  <2> QED
    BY <1>3, <2>1, SubmittedKept DEF ReceiptInv
<1> QED
  BY <1>1, <1>2, <1>3 DEF ReceiptInv

(* A step that ends the connection.                                        *)
LEMMA ReceiptDisconnected ==
  ASSUME ReceiptInv, Types', UNCHANGED <<environment, text, typed>>, NEW step, Disconnect(step),
         UNCHANGED outcome \/ \E result \in Results \ {"Ok"} : job.owner \in Owners /\ End(result)
  PROVE  ReceiptInv'
<1>1. Types /\ CallTypes /\ Backend' = Backend
  BY BackendKept DEF ReceiptInv, Types
<1>2. DevicesKnown'
  BY <1>1, DisconnectForgets
<1>3. ASSUME Backend = "eis", NEW o \in Owners
      PROVE  Submitted(o)'
  <2>1. outcome'[o] \in {"none", "Ok"} => outcome'[o] = outcome[o]
    BY <1>1, EndsWithoutReceipt
  <2> QED
    BY <1>1, <1>3, <2>1, SubmittedDisconnected DEF ReceiptInv
<1> QED
  BY <1>1, <1>2, <1>3 DEF ReceiptInv

LEMMA EisCallReceipt ==
  ASSUME ReceiptInv, Types', EisCall, UNCHANGED <<environment, text>>
  PROVE  ReceiptInv'
<1>1. job.owner \in Owners
  BY JobTextTyped DEF ReceiptInv, Types, EisCall, EisConnect, Ask, JobAt
<1>2. UNCHANGED outcome \/ \E result \in Results \ {"Ok"} : job.owner \in Owners /\ End(result)
  BY <1>1 DEF EisCall, EisConnect, Ask, Results, ErrorKinds
<1>3. UNCHANGED <<typed, events, requests, compositor, disturbed>>
  BY DEF EisCall, EisConnect, Ask
<1>4. UNCHANGED eis \/ (eis'.slots = {} /\ eis'.serial = 0)
  BY DEF EisCall, EisConnect, Ask, NoWorker
<1> QED
  BY <1>2, <1>3, <1>4, ReceiptUntouched

LEMMA WorkerReceipt ==
  ASSUME ReceiptInv, Types', Worker, UNCHANGED <<environment, text>>
  PROVE  ReceiptInv'
<1>1. Types /\ CallTypes /\ UNCHANGED typed /\ Backend' = Backend
  BY BackendKept
  DEF ReceiptInv, Types, Worker, Ready, ReadyFails, HandleEvent, WorkerExits, NoTextDevice,
      WorkerInserts, insertionVars
<1>2. {"BackendUnavailable", "BackendFailure"} \subseteq Results \ {"Ok"}
  BY DEF Results, ErrorKinds
<1>3. CASE Ready
  <2>1. UNCHANGED <<eis.slots, eis.serial>>
    <3>1. eis \in WorkerType
      BY <1>1 DEF Types, EisTypes
    <3> QED
      BY <1>3, <3>1 DEF Ready, WorkerType
  <2> QED
    BY <1>3, <2>1, ReceiptUntouched DEF Ready, insertionVars
<1>4. CASE HandleEvent
  <2>1. UNCHANGED <<requests, disturbed, outcome>>
    BY <1>4 DEF HandleEvent, insertionVars
  <2>2. Backend = "eis" => DevicesKnown'
    BY <1>1, <1>4, EventHandled DEF ReceiptInv
  <2>3. ASSUME Backend = "eis", NEW o \in Owners
        PROVE  Submitted(o)'
    BY <1>1, <2>1, <2>3, SubmittedKept DEF ReceiptInv
  <2> QED
    BY <1>1, <2>2, <2>3 DEF ReceiptInv
<1>5. CASE ReadyFails \/ WorkerExits \/ NoTextDevice
  <2>1. \E step : Disconnect(step)
    BY <1>5 DEF ReadyFails, WorkerExits, NoTextDevice
  <2>2. UNCHANGED outcome \/ \E result \in Results \ {"Ok"} : job.owner # None /\ End(result)
    BY <1>1, <1>2, <1>5 DEF ReadyFails, WorkerExits, NoTextDevice, Types, BackendsApart, JobAt
  <2>3. job.owner # None => job.owner \in Owners
    BY <1>1, JobTextTyped
  <2>4. UNCHANGED outcome
        \/ \E result \in Results \ {"Ok"} : job.owner \in Owners /\ End(result)
    BY <2>2, <2>3
  <2> QED
    BY <1>1, <2>1, <2>4, ReceiptDisconnected
<1>6. CASE WorkerInserts
  <2>1. PICK slot \in TextSlots, n \in 0 .. Len(JobText), out \in 0 .. Len(JobText) :
          Submit(slot, n, out)
    BY <1>6 DEF WorkerInserts
  <2> DEFINE result == IF n = Len(JobText) THEN "Ok" ELSE BrokenOff(n)
             start == IF slot.emulating THEN <<>> ELSE <<StartRequest(slot.device)>>
  <2>2. job.owner # None /\ job.owner \in Owners /\ Backend = "eis" /\ Len(JobText) \in Nat
    BY <1>1, <1>6, JobTextTyped DEF WorkerInserts, JobAt
  <2>3. result \in Results /\ End(result)
    BY <2>1 DEF Submit, BrokenOff, Results, ErrorKinds
  <2>4. CASE Drops(result)
    <3>1. Disconnect("none")
      BY <2>1, <2>4 DEF Submit
    <3>2. result # "Ok"
      BY <2>4 DEF Drops
    <3> QED
      BY <1>1, <2>2, <2>3, <3>1, <3>2, ReceiptDisconnected
  <2>5. CASE ~Drops(result)
    <3>1. GoesOut(slot, start, out)
      <4>1. /\ requests' = requests \o start \o TextRequests(slot.device, out)
            /\ eis' = [eis EXCEPT !.slots = (@ \ {slot}) \cup {[slot EXCEPT !.emulating = TRUE]}]
            /\ disturbed' = IF events = <<>> THEN disturbed ELSE disturbed \cup {job.owner}
            /\ UNCHANGED <<events, compositor>>
        BY <2>1, <2>5 DEF Submit
      <4>2. eis \in WorkerType
        BY <1>1 DEF Types, EisTypes
      <4>3. /\ eis'.slots = (eis.slots \ {slot}) \cup {[slot EXCEPT !.emulating = TRUE]}
            /\ eis'.serial = eis.serial
        BY <4>1, <4>2 DEF WorkerType
      <4> QED
        BY <2>2, <4>1, <4>3 DEF GoesOut
    <3>2. result = "Ok" => out = Len(JobText)
      <4>1. result = "Ok" => n = Len(JobText)
        BY DEF BrokenOff
      <4>2. n <= out /\ out <= Len(JobText)
        BY <2>1 DEF Submit
      <4> QED
        BY <2>2, <4>1, <4>2
    <3> HIDE DEF result, start
    <3>3. DevicesKnown'
      BY <1>1, <2>2, <3>1, SubmissionKnown DEF ReceiptInv
    <3>4. ASSUME NEW o \in Owners
          PROVE  Submitted(o)'
      <4>1. \A p \in Owners : Submitted(p)
        BY <2>2 DEF ReceiptInv
      <4> QED
        BY <1>1, <2>3, <3>1, <3>2, <4>1, SubmissionSubmits
    <3> QED
      BY <1>1, <3>3, <3>4 DEF ReceiptInv
  <2> QED
    BY <2>4, <2>5
<1> QED
  BY <1>3, <1>4, <1>5, <1>6 DEF Worker

LEMMA OutsideReceipt ==
  ASSUME ReceiptInv, Types', ChangeDevice \/ HandleRequest, UNCHANGED <<environment, text>>
  PROVE  ReceiptInv'
<1>1. Types /\ Backend' = Backend
  BY BackendKept DEF ReceiptInv
<1>2. CASE ChangeDevice
  <2>1. PICK d \in Devices, kind \in {"added", "resumed", "paused", "removed"},
             state \in {"absent", "paused", "resumed"} :
          /\ Change(d, kind, state)
          /\ kind = "added" => DeviceState(d) = "absent"
          /\ kind = "resumed" => state = "resumed"
          /\ kind = "removed" => state = "absent"
          /\ kind \in {"added", "paused"} => state = "paused"
    BY <1>2 DEF ChangeDevice
  <2>2. Backend = "eis" => DevicesKnown'
    BY <1>1, <2>1, ChangeKnown DEF ReceiptInv
  <2>3. UNCHANGED <<typed, outcome, requests>> /\ disturbed \subseteq disturbed'
    BY <2>1 DEF Change, insertionVars
  <2>4. ASSUME Backend = "eis", NEW o \in Owners
        PROVE  Submitted(o)'
    BY <2>3, <2>4, SubmittedKept DEF ReceiptInv
  <2> QED
    BY <1>1, <2>2, <2>4 DEF ReceiptInv
<1>3. CASE HandleRequest
  <2>1. Backend = "eis" => DevicesKnown'
    BY <1>1, <1>3, RequestKnown DEF ReceiptInv
  <2>2. ASSUME Backend = "eis", NEW o \in Owners
        PROVE  Submitted(o)'
    BY <1>1, <1>3, <2>2, RequestSubmits DEF ReceiptInv
  <2> QED
    BY <1>1, <2>1, <2>2 DEF ReceiptInv
<1> QED
  BY <1>2, <1>3

LEMMA NextReceipt == ReceiptInv /\ [Next]_vars => ReceiptInv'
<1> SUFFICES ASSUME ReceiptInv, [Next]_vars PROVE ReceiptInv'
  OBVIOUS
<1>1. Types /\ Types'
  BY NextKeepsTypes DEF ReceiptInv
<1>2. CASE Insertion /\ UNCHANGED <<environment, text>>
  <2>1. CASE XStep /\ UNCHANGED eisVars
    <3>1. Backend # "eis"
      BY <2>1 DEF XStep, XConnect, XBegin, ApplyKeysym, EmitKey, Submitting, RestoreMapping, JobAt
    <3> QED
      BY <1>1, <1>2, <3>1, ReceiptUntouched
  <2>2. CASE (NoBackend \/ NativeInsert) /\ UNCHANGED <<xVars, eisVars>>
    <3>1. Backend # "eis"
      BY <2>2 DEF NoBackend, NativeInsert, JobAt
    <3> QED
      BY <1>1, <1>2, <3>1, ReceiptUntouched
  <2> QED
    BY <1>1, <1>2, <2>1, <2>2, EisCallReceipt, WorkerReceipt DEF Insertion
<1>3. CASE Outside /\ UNCHANGED <<environment, text>>
  <2>1. CASE ChangeLayout
    <3>1. Backend # "eis"
      BY <2>1 DEF ChangeLayout
    <3> QED
      BY <1>1, <1>3, <3>1, ReceiptUntouched
  <2> QED
    BY <1>1, <1>3, <2>1, OutsideReceipt DEF Outside
<1>4. CASE (\E o \in Owners : Call(o) \/ Take(o) \/ Return(o)) /\ UNCHANGED <<environment, text>>
  BY <1>1, <1>4, ReceiptUntouched DEF Call, Take, Return, insertionVars, eisVars
<1>5. CASE Crash /\ UNCHANGED <<environment, text>>
  BY <1>1, <1>5, ReceiptDisconnected DEF Crash, EisCrash
<1>6. CASE UNCHANGED vars
  BY <1>1, <1>6, ReceiptUntouched DEF vars, insertionVars, eisVars
<1> QED
  BY <1>2, <1>3, <1>4, <1>5, <1>6 DEF Next

LEMMA InitReceipt == Init => ReceiptInv
<1> SUFFICES ASSUME Init PROVE ReceiptInv
  OBVIOUS
<1>1. Types
  BY InitHasTypes
<1>2. /\ events = <<>> /\ requests = <<>> /\ eis.slots = {} /\ eis.serial = 0
      /\ compositor.sent = 0
  BY DEF Init, EisInit, NoWorker
<1>3. DOMAIN events = {} /\ DOMAIN requests = {}
  BY <1>2
<1>4. DevicesKnown
  BY <1>2, <1>3
  DEF DevicesKnown, SerialsRise, LastTells, AddedOnce, SlotsFollow, SlotsEmulate, TextTaken
<1>5. \A o \in Owners : Submitted(o)
  BY <1>3 DEF Init, Submitted
<1> QED
  BY <1>1, <1>4, <1>5 DEF ReceiptInv

(* An EIS receipt is kept (ReceiptHonoured): of a text reported as         *)
(* submitted, whose dictation no change of a device disturbed, the         *)
(* application receives every chunk; for any number of devices that come,  *)
(* go, pause and resume, texts that follow on one connection, and events   *)
(* and requests that cross.                                                *)
THEOREM ReceiptsHonoured == Spec => []ReceiptHonoured
<1>1. ReceiptInv => ReceiptHonoured
  <2> SUFFICES ASSUME ReceiptInv, NEW o \in Owners, Backend = "eis", outcome[o] = "Ok",
                      o \notin disturbed, ~Pending(o)
               PROVE  typed[o] = text[o]
    BY DEF ReceiptHonoured
  <2>1. Types
    BY DEF ReceiptInv
  <2>2. PICK b \in Nat : RestAfter(o, b)
    BY DEF ReceiptInv, Submitted
  <2>3. Len(typed[o]) = Len(text[o])
    BY <2>1, <2>2, NothingLeft
  <2>4. \A i \in 1 .. Len(typed[o]) : typed[o][i] = text[o][i]
    BY <2>2 DEF RestAfter
  <2>5. typed[o] \in Seq(Piece) /\ text[o] \in Seq(Piece)
    BY <2>1, EisParts
  <2> QED
    BY <2>3, <2>4, <2>5, SeqEqual
<1> QED
  BY <1>1, InitReceipt, NextReceipt, PTL DEF Spec

=============================================================================
