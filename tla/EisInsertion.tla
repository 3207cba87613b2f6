----------------------------- MODULE EisInsertion -----------------------------
(***************************************************************************)
(* The Wayland adapter (blcvoice-insertion-eis): a worker thread asks the  *)
(* portal for a session, follows the devices the compositor announces over *)
(* the EIS socket and submits text to the first that accepts it.  Portal   *)
(* and compositor are external; events and requests cross on the socket.   *)
(***************************************************************************)
EXTENDS TextInsertion

CONSTANTS
  Devices,          \* devices the compositor may offer
  TextDevices,      \* those of them that take text
  MaxEvents         \* bound: events the compositor sends

ASSUME EisAssumption == TextDevices \subseteq Devices /\ MaxEvents \in Nat

VARIABLES
  eis,              \* the worker: its step, device slots and last serial
  events,           \* what the compositor has sent and the worker not read
  requests,         \* what the worker has sent and the compositor not handled
  compositor,       \* the devices as the compositor has them, and the events it has sent
  disturbed         \* history: dictations inserted while a device changed

eisVars == <<eis, events, requests, compositor, disturbed>>

NoWorker == [pc |-> "none", slots |-> {}, serial |-> 0]

Absent == [state |-> "absent", emulating |-> FALSE, since |-> 0]

EisInit ==
  /\ eis = NoWorker
  /\ events = <<>>
  /\ requests = <<>>
  /\ compositor = [device |-> [d \in Devices |-> Absent], sent |-> 0]
  /\ disturbed = {}

---------------------------------------------------------------------------
(* The worker.  It keeps its slots in the order in which their devices     *)
(* were added: a slot tells its place in it.                               *)

Slot(event) ==
  [device |-> event.device, added |-> event.serial, resumed |-> FALSE, emulating |-> FALSE]

AcceptsText(slot) == slot.resumed /\ slot.device \in TextDevices

TextSlots == {slot \in eis.slots : AcceptsText(slot)}

(* The socket is closed: both directions are gone, and with them every     *)
(* device of this connection.                                              *)
Disconnect(step) ==
  /\ eis' = [NoWorker EXCEPT !.pc = step]
  /\ events' = <<>>
  /\ requests' = <<>>
  /\ compositor' = [compositor EXCEPT !.device = [d \in Devices |-> Absent]]
  /\ disturbed' = disturbed \cup {requests[i].owner : i \in DOMAIN requests}

(* connect: thread, portal session, device selection, consent and socket.  *)
(* Only a refused consent is a missing permission.                         *)
EisConnect ==
  /\ JobAt("eis", "call")
  /\ eis.pc = "none"
  /\ \/ /\ eis' = [NoWorker EXCEPT !.pc = "waiting"]
        /\ UNCHANGED <<job, outcome>>
     \/ /\ \E kind \in {"PermissionDenied", "BackendFailure"} : End(kind)
        /\ UNCHANGED eis
  /\ UNCHANGED <<typed, events, requests, compositor, disturbed>>

(* The worker waits for a device: it is ready with the first, gives up     *)
(* after five seconds or loses the connection.  Its thread is joined.      *)
Ready ==
  /\ eis.pc = "waiting"
  /\ TextSlots # {}
  /\ eis' = [eis EXCEPT !.pc = "serving"]
  /\ UNCHANGED <<insertionVars, events, requests, compositor, disturbed>>

ReadyFails ==
  /\ eis.pc = "waiting"
  /\ TextSlots = {}
  /\ \E kind \in {"BackendUnavailable", "BackendFailure"} : End(kind)
  /\ Disconnect("none")
  /\ UNCHANGED typed

(* handle_event on the slots.                                              *)
(* Fault: a device that is resumed or paused goes on emulating.            *)
SetResumedOnly(slots, d, resumed) ==
  {IF slot.device = d THEN [slot EXCEPT !.resumed = resumed] ELSE slot : slot \in slots}
SetResumed(slots, d, resumed) ==
  {IF slot.device = d THEN [slot EXCEPT !.resumed = resumed, !.emulating = FALSE] ELSE slot :
     slot \in slots}

SlotsAfter(event) ==
  CASE event.kind = "added" -> eis.slots \cup {Slot(event)}
    [] event.kind = "removed" -> {slot \in eis.slots : slot.device # event.device}
    [] OTHER -> SetResumed(eis.slots, event.device, event.kind = "resumed")

HandleEvent ==
  /\ eis.pc = "serving" \/ (eis.pc = "waiting" /\ TextSlots = {})
  /\ events # <<>>
  /\ eis' = [eis EXCEPT !.slots = SlotsAfter(Head(events)),
                        !.serial = IF Head(events).kind \in {"resumed", "paused"}
                                   THEN Head(events).serial ELSE @]
  /\ events' = Tail(events)
  /\ UNCHANGED <<insertionVars, requests, compositor, disturbed>>

(* The stream ends, an event cannot be read or answered, or the compositor *)
(* says goodbye: the worker exits, and drops a command it has not taken.   *)
(* Fault: the caller is not told of the command that is dropped.           *)
WorkerExitsSilently ==
  /\ eis.pc = "serving"
  /\ Disconnect("exited")
  /\ UNCHANGED insertionVars
WorkerExits ==
  /\ eis.pc = "serving"
  /\ Disconnect("exited")
  /\ IF JobAt("eis", "asked")
     THEN End("BackendFailure")
     ELSE UNCHANGED <<job, outcome>>
  /\ UNCHANGED typed

(* insert_text hands the text to the worker and waits for its reply.       *)
Ask ==
  /\ JobAt("eis", "call")
  /\ eis.pc \in {"serving", "exited"}
  /\ CASE ~Valid(JobText) -> End("InvalidText") /\ UNCHANGED eis
       [] Valid(JobText) /\ eis.pc = "exited" ->
            End("BackendUnavailable") /\ eis' = NoWorker
       [] OTHER -> JobGoes("asked") /\ UNCHANGED <<outcome, eis>>
  /\ UNCHANGED <<typed, events, requests, compositor, disturbed>>

(* No device accepts text: the service drops the inserter, which stops and *)
(* joins its worker.                                                       *)
NoTextDevice ==
  /\ JobAt("eis", "asked")
  /\ eis.pc = "serving"
  /\ TextSlots = {}
  /\ End("BackendUnavailable")
  /\ Disconnect("none")
  /\ UNCHANGED typed

StartRequest(d) == [kind |-> "start", device |-> d, serial |-> eis.serial, owner |-> job.owner]

TextRequests(d, n) ==
  [i \in 1 .. n |-> [kind |-> "text", device |-> d, piece |-> JobText[i], owner |-> job.owner]]

(* Submit: start emulating unless that was done, then one request per      *)
(* chunk, each flushed.  The flush of chunk n + 1 may fail, after the      *)
(* chunk went out or before.                                               *)
Submit(slot, n, out) ==
  LET d == slot.device
      start == IF slot.emulating THEN <<>> ELSE <<StartRequest(d)>>
      complete == n = Len(JobText)
      result == IF complete THEN "Ok" ELSE BrokenOff(n)
  IN /\ \A other \in TextSlots : slot.added <= other.added
     /\ n <= out /\ out <= n + 1 /\ out <= Len(JobText)
     /\ End(result)
     /\ IF Drops(result)
        THEN Disconnect("none")
        ELSE /\ requests' = requests \o start \o TextRequests(d, out)
             /\ eis' = [eis EXCEPT !.slots = (@ \ {slot}) \cup {[slot EXCEPT !.emulating = TRUE]}]
             /\ disturbed' = IF events = <<>> THEN disturbed ELSE disturbed \cup {job.owner}
             /\ UNCHANGED <<events, compositor>>

WorkerInserts ==
  /\ JobAt("eis", "asked")
  /\ eis.pc = "serving"
  /\ \E slot \in TextSlots, n, out \in 0 .. Len(JobText) : Submit(slot, n, out)
  /\ UNCHANGED typed

Worker == Ready \/ ReadyFails \/ HandleEvent \/ WorkerExits \/ NoTextDevice \/ WorkerInserts

EisCall == EisConnect \/ Ask

EisCrash == Disconnect("none")

---------------------------------------------------------------------------
(* The compositor.                                                         *)

DeviceState(d) == compositor.device[d].state

Change(d, kind, state) ==
  /\ eis.pc \in {"waiting", "serving"}
  /\ compositor.sent < MaxEvents
  /\ compositor' = [device |-> [compositor.device EXCEPT ![d] =
                      [state |-> state, emulating |-> FALSE, since |-> compositor.sent + 1]],
                    sent |-> compositor.sent + 1]
  /\ events' = Append(events, [kind |-> kind, device |-> d, serial |-> compositor.sent + 1])
  /\ disturbed' = disturbed \cup {requests[i].owner : i \in DOMAIN requests}
  /\ UNCHANGED <<insertionVars, eis, requests>>

ChangeDevice ==
  \E d \in Devices :
    \/ DeviceState(d) = "absent" /\ Change(d, "added", "paused")
    \/ DeviceState(d) = "paused" /\ Change(d, "resumed", "resumed")
    \/ DeviceState(d) = "resumed" /\ Change(d, "paused", "paused")
    \/ DeviceState(d) # "absent" /\ Change(d, "removed", "absent")

(* Text counts only from a device that emulates, and a device emulates     *)
(* only at the request of a client that knows it was resumed.              *)
HandleRequest ==
  /\ requests # <<>>
  /\ LET request == Head(requests)
         device == compositor.device[request.device]
     IN \/ /\ request.kind = "start"
           /\ compositor' = [compositor EXCEPT !.device[request.device].emulating =
                               @ \/ (device.state = "resumed" /\ device.since <= request.serial)]
           /\ UNCHANGED typed
        \/ /\ request.kind = "text"
           /\ IF device.state = "resumed" /\ device.emulating
              THEN Receives(request.owner, request.piece)
              ELSE UNCHANGED typed
           /\ UNCHANGED compositor
  /\ requests' = Tail(requests)
  /\ UNCHANGED <<job, outcome, eis, events, disturbed>>

---------------------------------------------------------------------------
Pending(o) == \E i \in DOMAIN requests : requests[i].owner = o

(* A receipt is kept: of a text the worker reported as submitted while no  *)
(* device changed, the application receives every chunk, also when the     *)
(* device was paused and resumed since the text before it.                 *)
ReceiptHonoured ==
  \A o \in Owners :
    Backend = "eis" /\ outcome[o] = "Ok" /\ o \notin disturbed /\ ~Pending(o) =>
      typed[o] = text[o]
=============================================================================
