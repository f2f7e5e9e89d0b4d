SPECIFICATION Spec
CONSTANTS
  r1 = r1
  r2 = r2
  a1 = a1
  a2 = a2
  nokey = nokey
  Requests = {r1, r2}
  Accounts = {a1, a2}
  NoAccount = none
  NoKey = nokey
  Keys <- MCOneKey
  ExactKey <- MCSameExactKey
  SemanticKey <- MCNoSemanticKey
  Weight <- MCWeight
  Errors <- MCErrors
  MaxRetries = 1
INVARIANTS ConnsExact CallIsCounted RefusedNeverCalledAgain
PROPERTIES NoRetryAfterOutput
SYMMETRY MCSymmetry
CHECK_DEADLOCK FALSE
