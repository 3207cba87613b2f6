CONSTANTS
  Threads = {t1, t2, t3}
  MaxSession = 4
  Disciplined = TRUE
SPECIFICATION Spec
SYMMETRY ThreadSymmetry
INVARIANTS
  TypeOK
  WorkMatchesSession
  NewSessionUnblocked
  NoAbandonedSession
PROPERTIES
  StaleWorkHarmless
  ImplementsCustody
