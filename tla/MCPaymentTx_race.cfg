\* An abort may overtake the prepare request.
SPECIFICATION Spec
CONSTANTS
  User <- MCUser
  Tx <- MCTx
  PrepareReq <- MCPrepareReq
  AbortReq <- MCAbortReq
  TxOf <- MCTxOf
  PayerOf <- MCPayerOf
  Cost <- MCCost
  InitCredit <- MCInitCredit
  Delta <- MCDelta
  MaxFunds = 3
  Failures = FALSE
  EarlyAbort <- MCEarlyAbort
INVARIANTS
  AlreadyRolledBack
\* The finite pool of requests runs out.
CHECK_DEADLOCK FALSE
