--------------------------- MODULE InsertionService ---------------------------
(***************************************************************************)
(* The insertion service of the desktop program (src-tauri/insertion.rs):  *)
(* it picks the backend for the environment, keeps one inserter under a    *)
(* lock, connects it when it is first needed and drops it after an error   *)
(* that may have broken it.  The finishes of several dictations call it.   *)
(***************************************************************************)
EXTENDS XTestInsertion, EisInsertion

CONSTANTS
  Texts,            \* texts that may be recognized
  MaxCrashes        \* bound: times the process ends unexpectedly

(* No character has the meaning of a key that has none.                    *)
ASSUME ServiceAssumption ==
  /\ MaxCrashes \in Nat
  /\ \A t \in Texts : t \in Seq(STRING) /\ \A i \in DOMAIN t : t[i] # Unused

VARIABLES
  calls,            \* per dictation, how far its call is
  crashes

callVars == <<calls, crashes>>
vars == <<environment, text, insertionVars, xVars, eisVars, callVars>>

(* detect_linux_display_server: the type of the session decides where it   *)
(* names one of the two, else a socket of Wayland, else one of X11.        *)
DisplayServer(session, wayland, x) ==
  CASE session \in {"wayland", "x11"} -> session
    [] session \notin {"wayland", "x11"} /\ wayland -> "wayland"
    [] session \notin {"wayland", "x11"} /\ ~wayland /\ x -> "x11"
    [] OTHER -> "unknown"

LinuxEnvironments ==
  {DisplayServer(s, w, x) : s \in {"x11", "wayland", "tty"}, w \in BOOLEAN, x \in BOOLEAN}

Init ==
  /\ environment \in Environments \cap ({"windows", "macos", "other"} \cup LinuxEnvironments)
  /\ text \in [Owners -> Texts]
  /\ job = NoJob
  /\ typed = [o \in Owners |-> <<>>]
  /\ outcome = [o \in Owners |-> "none"]
  /\ XInit
  /\ EisInit
  /\ calls = [o \in Owners |-> "none"]
  /\ crashes = 0

(* insert_text: the call waits for the lock, holds it for the whole        *)
(* insertion, and returns with what that came to.                          *)
Call(o) ==
  /\ calls[o] = "none"
  /\ calls' = [calls EXCEPT ![o] = "waiting"]
  /\ UNCHANGED <<insertionVars, xVars, eisVars, crashes>>

Take(o) ==
  /\ calls[o] = "waiting"
  /\ job = NoJob
  /\ job' = [NoJob EXCEPT !.owner = o, !.pc = "call"]
  /\ calls' = [calls EXCEPT ![o] = "holding"]
  /\ UNCHANGED <<typed, outcome, xVars, eisVars, crashes>>

Return(o) ==
  /\ calls[o] = "holding"
  /\ outcome[o] # "none"
  /\ calls' = [calls EXCEPT ![o] = "returned"]
  /\ UNCHANGED <<insertionVars, xVars, eisVars, crashes>>

Insertion ==
  /\ \/ XStep /\ UNCHANGED eisVars
     \/ (EisCall \/ Worker) /\ UNCHANGED xVars
     \/ (NoBackend \/ NativeInsert) /\ UNCHANGED <<xVars, eisVars>>
  /\ UNCHANGED callVars

Outside ==
  /\ \/ ChangeLayout /\ UNCHANGED eisVars
     \/ (ChangeDevice \/ HandleRequest) /\ UNCHANGED xVars
  /\ UNCHANGED callVars

(* The process ends: its calls are gone, the X server and what has been    *)
(* typed are not.                                                          *)
Crash ==
  /\ crashes < MaxCrashes
  /\ crashes' = crashes + 1
  /\ job' = NoJob
  /\ calls' = [o \in Owners |-> IF calls[o] = "none" THEN "none" ELSE "returned"]
  /\ XCrash
  /\ EisCrash
  /\ UNCHANGED <<typed, outcome>>

Next ==
  /\ \/ \E o \in Owners : Call(o) \/ Take(o) \/ Return(o)
     \/ Insertion
     \/ Outside
     \/ Crash
  /\ UNCHANGED <<environment, text>>

(* The threads of the process go on, the lock is fair enough, the user     *)
(* answers the portal and the X server answers its requests.               *)
Fairness ==
  /\ WF_vars(Insertion /\ UNCHANGED <<environment, text>>)
  /\ \A o \in Owners : SF_vars((Take(o) \/ Return(o)) /\ UNCHANGED <<environment, text>>)

Spec == Init /\ [][Next]_vars /\ Fairness

---------------------------------------------------------------------------
Piece == {"Return", Unused, "user"} \cup UNION {{t[i] : i \in DOMAIN t} : t \in Texts}

InsertionTypeOK ==
  /\ environment \in Environments
  /\ text \in [Owners -> Texts]
  /\ \A o \in Owners : (job.owner = o) <=> (calls[o] = "holding" /\ outcome[o] = "none")
  /\ job.owner # None => job.submitted \in 0 .. Len(JobText)
  /\ \A o \in Owners : typed[o] \in Seq(Piece) /\ Len(typed[o]) <= Len(text[o])
  /\ outcome \in [Owners -> ErrorKinds \cup {"none", "Ok"}]
  /\ x11.scratch \in Keycodes \cup {0}
  /\ \A slot \in eis.slots : slot.device \in Devices
  /\ calls \in [Owners -> {"none", "waiting", "holding", "returned"}]

(* What an insertion's result says is true: a complete submission typed    *)
(* all of the text through XTEST, a partial one some of it, a refused one  *)
(* nothing, and what was typed is a beginning of the text, each character  *)
(* under its own meaning (blcvoice-insertion, "Ok is reserved for complete *)
(* submission").                                                           *)
XKeysyms(pieces) == [i \in DOMAIN pieces |-> Keysym(pieces[i])]

TypedAsReported ==
  \A o \in Owners : Backend = "x11" =>
    /\ typed[o] = SubSeq(XKeysyms(text[o]), 1, Len(typed[o]))
    /\ outcome[o] = "Ok" => typed[o] = XKeysyms(text[o])
    /\ outcome[o] = "PartialSubmission" => typed[o] # <<>>
    /\ outcome[o] \in {"InvalidText", "PermissionDenied", "BackendUnavailable"} => typed[o] = <<>>

(* A text that was typed as a whole is never reported as one that was not  *)
(* submitted (ADR 0022: "Failures after some text has been submitted are   *)
(* reported as partial submission").  A failed restore of the scratch key  *)
(* breaks it; see the README, Findings.                                    *)
PartialIsReported ==
  \A o \in Owners :
    Backend = "x11" /\ outcome[o] = "BackendFailure" => Len(typed[o]) < Len(text[o])

(* Every call returns, unless the process ends: also when another text is  *)
(* being inserted, when the EIS worker goes away with the text in its      *)
(* queue, and when no device ever takes text.                              *)
CallReturns == \A o \in Owners : calls[o] = "waiting" ~> calls[o] = "returned"
=============================================================================
