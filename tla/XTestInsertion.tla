---------------------------- MODULE XTestInsertion ----------------------------
(***************************************************************************)
(* The X11 adapter (blcvoice-insertion-x11): it types any character with   *)
(* one key that has no meaning of its own, the scratch key, by giving it   *)
(* the meaning needed and taking it away again at the end.  The X server   *)
(* is external: a request it reports as failed may have had its effect.    *)
(***************************************************************************)
EXTENDS TextInsertion

CONSTANTS
  Keycodes,         \* keycodes of the X server
  Modifiers,        \* keycodes that are modifiers
  UserKeys,         \* keycodes that the layout of the user gives a meaning
  ChangedKeys       \* keycodes that the user may give a meaning meanwhile

ASSUME XTestAssumption ==
  /\ Keycodes \subseteq Nat \ {0}
  /\ Modifiers \subseteq Keycodes
  /\ UserKeys \subseteq Keycodes
  /\ ChangedKeys \subseteq Keycodes \ Modifiers

VARIABLES
  layout,           \* the meaning the user gives each keycode
  keymap,           \* the meaning each keycode has in the X server
  x11               \* scratch key, its first meaning, the meaning it was given, keys left mapped

xVars == <<layout, keymap, x11>>

Unused == "unused"

Keysym(piece) == IF piece \in {"LF", "CR"} THEN "Return" ELSE piece

(* Fault: a modifier without a meaning of its own is taken for free.       *)
FreeKeysAndModifiers == {k \in Keycodes : keymap[k] = Unused}
FreeKeys == {k \in Keycodes \ Modifiers : keymap[k] = Unused}

FirstFreeKey == CHOOSE k \in FreeKeys : \A l \in FreeKeys : k <= l

XInit ==
  /\ layout = [k \in Keycodes |-> IF k \in UserKeys THEN "user" ELSE Unused]
  /\ keymap = layout
  /\ x11 = [scratch |-> 0, original |-> Unused, active |-> Unused, left |-> {}]

(* connect.  The mapping of the key is read here, once for all insertions. *)
XConnect ==
  /\ JobAt("x11", "call")
  /\ x11.scratch = 0
  /\ \/ /\ FreeKeys # {}
        /\ x11' = [x11 EXCEPT !.scratch = FirstFreeKey, !.original = keymap[FirstFreeKey]]
        /\ UNCHANGED <<job, outcome>>
     \/ /\ End("BackendUnavailable")
        /\ UNCHANGED x11
  /\ UNCHANGED <<typed, layout, keymap>>

(* insert_text and insert_inner up to the first character.                 *)
(* Fault: the keysym of the last text still counts as mapped.              *)
XBeginMapped ==
  /\ JobAt("x11", "call")
  /\ x11.scratch # 0
  /\ IF Valid(JobText) THEN JobGoes("submit") /\ UNCHANGED outcome ELSE End("InvalidText")
  /\ UNCHANGED <<typed, xVars>>
XBegin ==
  /\ JobAt("x11", "call")
  /\ x11.scratch # 0
  /\ IF Valid(JobText) THEN JobGoes("submit") /\ UNCHANGED outcome ELSE End("InvalidText")
  /\ x11' = [x11 EXCEPT !.active = Unused]
  /\ UNCHANGED <<typed, layout, keymap>>

Submitting == JobAt("x11", "submit") /\ ~job.failed /\ job.submitted < Len(JobText)

NextKeysym == Keysym(JobText[job.submitted + 1])

GiveMeaning(symbol) == keymap' = [keymap EXCEPT ![x11.scratch] = symbol]

Fail == job' = [job EXCEPT !.failed = TRUE]

(* A key that has the meaning already is not mapped again.                 *)
ApplyKeysym ==
  /\ Submitting
  /\ x11.active # NextKeysym
  /\ \/ /\ GiveMeaning(NextKeysym)
        /\ x11' = [x11 EXCEPT !.active = NextKeysym]
        /\ UNCHANGED job
     \/ /\ GiveMeaning(NextKeysym) \/ UNCHANGED keymap
        /\ Fail
        /\ UNCHANGED x11
  /\ UNCHANGED <<typed, outcome, layout>>

(* Press, release and flush; the application receives the press.           *)
EmitKey ==
  /\ Submitting
  /\ x11.active = NextKeysym
  /\ \/ /\ Receives(job.owner, keymap[x11.scratch])
        /\ job' = [job EXCEPT !.submitted = @ + 1]
     \/ /\ Receives(job.owner, keymap[x11.scratch]) \/ UNCHANGED typed
        /\ Fail
  /\ UNCHANGED <<outcome, xVars>>

XResult(restored) ==
  CASE ~job.failed /\ restored -> "Ok"
    [] ~job.failed /\ ~restored -> "BackendFailure"
    [] OTHER -> BrokenOff(job.submitted)

(* Success or not, the key gets its first meaning back; an inserter that   *)
(* is dropped then tries so once more.                                     *)
(* Fault: a submission that broke off is not followed by a restoration.    *)
RestoreAfterSuccess ==
  /\ JobAt("x11", "submit") /\ ~Submitting
  /\ End(XResult(TRUE))
  /\ IF job.failed THEN UNCHANGED keymap ELSE GiveMeaning(x11.original)
  /\ x11' = [x11 EXCEPT !.scratch = IF Drops(XResult(TRUE)) THEN 0 ELSE @]
  /\ UNCHANGED <<typed, layout>>
RestoreMapping ==
  /\ JobAt("x11", "submit") /\ ~Submitting
  /\ \E restored, applied, again \in BOOLEAN :
       LET dropped == Drops(XResult(restored))
           clean == restored \/ applied \/ (dropped /\ again)
       IN /\ End(XResult(restored))
          /\ IF clean THEN GiveMeaning(x11.original) ELSE UNCHANGED keymap
          /\ x11' = [x11 EXCEPT !.scratch = IF dropped THEN 0 ELSE @,
                                !.left = IF clean THEN @ \ {x11.scratch}
                                         ELSE @ \cup {x11.scratch}]
  /\ UNCHANGED <<typed, layout>>

XStep == XConnect \/ XBegin \/ ApplyKeysym \/ EmitKey \/ RestoreMapping

(* The user gives a free key a meaning, by another layout or by hand.      *)
ChangeLayout ==
  /\ Backend = "x11" /\ job = NoJob
  /\ \E k \in ChangedKeys :
       /\ layout[k] = Unused
       /\ layout' = [layout EXCEPT ![k] = "user"]
       /\ keymap' = [keymap EXCEPT ![k] = "user"]
  /\ UNCHANGED <<insertionVars, x11>>

(* The process ends: the server keeps what the key means at that moment.   *)
XCrash ==
  /\ x11' = [x11 EXCEPT !.scratch = 0,
                        !.left = IF x11.scratch # 0 /\ keymap[x11.scratch] # layout[x11.scratch]
                                 THEN @ \cup {x11.scratch} ELSE @]
  /\ UNCHANGED <<layout, keymap>>

---------------------------------------------------------------------------
(* The keyboard of the user is left as it was: only the scratch key, while *)
(* text is submitted, and keys whose restoration failed or which a crash   *)
(* left behind have another meaning, and none of them ever has one for the *)
(* user or is a modifier (ADR 0022, "restores the original mapping").      *)
KeymapRestored ==
  \A k \in Keycodes : keymap[k] # layout[k] =>
    /\ layout[k] = Unused
    /\ k \notin Modifiers
    /\ k \in x11.left \/ (k = x11.scratch /\ job.pc = "submit")

(* No key the user has given a meaning loses it.  A key that gets its      *)
(* meaning after the mapping was read may; see the README, Findings.       *)
UserKeysKept == \A k \in Keycodes : layout[k] = "user" => keymap[k] = "user"
=============================================================================
