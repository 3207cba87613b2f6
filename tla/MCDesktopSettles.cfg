CONSTANTS
  Threads = {c1, c2, p1, p2}
  Commands = {c1, c2}
  Pumps = {p1, p2}
  NoPump = none
  Offered = {"start", "finish", "cancel"}
  Callers = {"threads"}
  MaxSession = 4
  Disciplined = FALSE
SPECIFICATION DesktopFairSpec
INVARIANTS
  InsertsOnlyCurrent
PROPERTIES
  CallsReturn
  SlotSettles
  MicrophoneReleased
  TransitEnds
