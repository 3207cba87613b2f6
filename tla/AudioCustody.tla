------------------------------ MODULE AudioCustody ------------------------------
(***************************************************************************)
(* What the runtime promises about recorded speech, without its locks and  *)
(* steps: one session at a time has custody of audio, each session takes   *)
(* custody once, live audio becomes final and never live again, and the    *)
(* next session begins only when nobody has custody (docs/adr/0012).       *)
(***************************************************************************)
EXTENDS Naturals

VARIABLES
  begun,     \* how many sessions have begun: the id of the newest
  fresh,     \* the newest session has not taken custody yet
  owner,     \* the session that has custody, 0 when none has
  form       \* "none", "live" while it is captured, "final" when it is complete

custodyVars == <<begun, fresh, owner, form>>

CustodyInit ==
  /\ begun = 0
  /\ fresh = FALSE
  /\ owner = 0
  /\ form = "none"

BeginSession ==
  /\ owner = 0
  /\ ~fresh
  /\ begun' = begun + 1
  /\ fresh' = TRUE
  /\ UNCHANGED <<owner, form>>

TakeCustody ==
  /\ fresh
  /\ owner = 0
  /\ fresh' = FALSE
  /\ owner' = begun
  /\ form' = "live"
  /\ UNCHANGED begun

Complete ==
  /\ form = "live"
  /\ form' = "final"
  /\ UNCHANGED <<begun, fresh, owner>>

ReleaseCustody ==
  /\ owner # 0
  /\ owner' = 0
  /\ form' = "none"
  /\ UNCHANGED <<begun, fresh>>

CustodyNext == BeginSession \/ TakeCustody \/ Complete \/ ReleaseCustody

CustodySpec == CustodyInit /\ [][CustodyNext]_custodyVars
=============================================================================
