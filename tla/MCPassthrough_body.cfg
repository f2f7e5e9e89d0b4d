SPECIFICATION PassSpec
CONSTANTS
  a1 = a1
  a2 = a2
  PassAccounts <- MCAccounts
  NoPassAccount = noAccount
  NoError = noError
  Errors <- MCErrors
  MaxRetries = 2
  MaxFrames = 3
INVARIANT NonStreamAnswered
CHECK_DEADLOCK FALSE
