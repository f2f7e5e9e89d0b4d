SPECIFICATION Spec
CONSTANTS
  Callers = {c1, c2, c3}
  Backends = {"redis"}
  Window = 2
  Expiry = 4
  ScriptsFail = FALSE
  MaxDelay = 1
  MaxTime = 7
INVARIANTS ToldRight
SYMMETRY MCSymmetry
CHECK_DEADLOCK FALSE
