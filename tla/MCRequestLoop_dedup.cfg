SPECIFICATION Spec
CONSTANTS
  r1 = r1
  r2 = r2
  a1 = a1
  a2 = a2
  nokey = nokey
  Requests = {r1, r2}
  Accounts = {a1}
  NoAccount = none
  NoKey = nokey
  Keys <- MCKeys
  ExactKey <- MCSameExactKey
  SemanticKey <- MCSemanticKey
  Weight <- MCOneAccount
  Errors <- MCTwoErrors
  MaxRetries = 1
INVARIANTS InFlightExact OneReply NothingHeldWhenDone AttemptsBounded
SYMMETRY MCRequestSymmetry
CHECK_DEADLOCK FALSE
