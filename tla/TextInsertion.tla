----------------------------- MODULE TextInsertion -----------------------------
(***************************************************************************)
(* What every text inserter has to keep to (blcvoice-insertion): one text  *)
(* is submitted at a time, piece by piece and in order, and the caller is  *)
(* told how that ended.  A piece is a character for the X11 adapter and a  *)
(* chunk of at most 254 bytes for the EIS adapter.                         *)
(***************************************************************************)
EXTENDS Naturals, Sequences, FiniteSets

CONSTANTS
  Owners,           \* the dictations whose text may be inserted
  None,             \* no dictation
  Environments      \* desktop environments the program may find itself in

ASSUME InsertionAssumption ==
  /\ None \notin Owners
  /\ Environments \subseteq {"windows", "macos", "x11", "wayland", "unknown", "other"}

VARIABLES
  environment,      \* what platform detection has found
  text,             \* per dictation, the text recognized, in pieces
  job,              \* the insertion under way: owner, step, pieces submitted, failed
  typed,            \* per dictation, what the focused application has received
  outcome           \* per dictation, how its insertion ended

insertionVars == <<job, typed, outcome>>

(* resolve_insertion_capability: on Wayland nothing but the portal is used,*)
(* and an unknown display server has no backend.                           *)
Backend ==
  CASE environment \in {"windows", "macos"} -> "native"
    [] environment = "x11" -> "x11"
    [] environment = "wayland" -> "eis"
    [] OTHER -> "none"

ErrorKinds == {"InvalidText", "PermissionDenied", "BackendUnavailable", "PartialSubmission",
               "BackendFailure"}

NoJob == [owner |-> None, pc |-> "none", submitted |-> 0, failed |-> FALSE]

JobText == text[job.owner]

JobAt(backend, step) == Backend = backend /\ job.owner # None /\ job.pc = step

JobGoes(step) == job' = [job EXCEPT !.pc = step]

(* No adapter takes an empty text or a NUL; X11 has no key for a control   *)
(* character either.                                                       *)
Unsendable == IF Backend = "x11" THEN {"NUL", "BEL"} ELSE {"NUL"}

Valid(pieces) == pieces # <<>> /\ \A i \in DOMAIN pieces : pieces[i] \notin Unsendable

End(result) ==
  /\ outcome' = [outcome EXCEPT ![job.owner] = result]
  /\ job' = NoJob

Receives(owner, piece) == typed' = [typed EXCEPT ![owner] = Append(@, piece)]

(* The kind of the error for a submission that broke off.                  *)
BrokenOff(submitted) == IF submitted = 0 THEN "BackendFailure" ELSE "PartialSubmission"

(* After an error of these kinds the service drops its inserter.           *)
Drops(result) == result \in {"BackendUnavailable", "BackendFailure"}

(* The environment has no backend.                                         *)
NoBackend ==
  /\ JobAt("none", "call")
  /\ End("BackendUnavailable")
  /\ UNCHANGED typed

(* Windows and macOS: the library submits the text in one call, which may  *)
(* fail after any part of it was typed.  Only an error of Accessibility is *)
(* a missing permission.                                                   *)
NativeInsert ==
  /\ JobAt("native", "call")
  /\ \/ /\ \E kind \in {"PermissionDenied", "BackendUnavailable"} : End(kind)
        /\ UNCHANGED typed
     \/ /\ ~Valid(JobText)
        /\ End("InvalidText")
        /\ UNCHANGED typed
     \/ /\ Valid(JobText)
        /\ \E n \in 0 .. Len(JobText) :
             /\ typed' = [typed EXCEPT ![job.owner] = SubSeq(JobText, 1, n)]
             /\ \/ End("BackendFailure")
                \/ n = Len(JobText) /\ End("Ok")
=============================================================================
