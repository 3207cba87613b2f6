CONSTANTS
  Threads = {c1, c2, p1, p2}
  Commands = {c1, c2}
  Pumps = {p1, p2}
  NoPump = none
  Offered = {"start", "finish", "cancel", "test", "test_finish", "test_cancel"}
  Callers = {"page", "anyone"}
  MaxSession = 3
  Disciplined = FALSE
SPECIFICATION DesktopSpec
SYMMETRY DesktopSymmetry
INVARIANTS
  ServicesAgree
PROPERTIES
  ImplementsRuntime
