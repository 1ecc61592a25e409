\* The aborts of the second transaction may overtake its prepare request; abort
\* handlers may stop.
SPECIFICATION FairSpec
CONSTANTS
  User <- MCUser
  Tx <- MCTx
  PrepareReq <- MCPrepareReq
  AbortReq <- MCAbortReq
  TxOf <- MCTxOf
  PayerOf <- MCPayerOf
  Cost <- MCCost
  InitCredit <- MCInitCredit
  Delta <- MCDelta
  MaxFunds = 3
  Failures = TRUE
  EarlyAbort <- MCEarlyAbort
INVARIANTS
  TypeOK
  FundsConserved
  HeldIffAcknowledged
PROPERTIES
  AbortReturnsCredit
\* The finite pool of requests runs out.
CHECK_DEADLOCK FALSE
