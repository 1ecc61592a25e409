\* One command is repeated; handlers are fair; no handler fails otherwise.
SPECIFICATION RetryFairSpec
CONSTANTS
  Item <- MCItem
  Tx <- MCTx
  PrepareReq <- MCPrepareReq
  AbortReq <- MCAbortReq
  TxOf <- MCTxOf
  Amount <- MCAmount
  Price <- MCPrice
  InitStock <- MCInitStock
  Delta <- MCDelta
  MaxSupply = 2
  Paged = TRUE
  Failures = FALSE
  MaxRepeats = 1
INVARIANTS
  OnlyAddsMake
  OnlyMovesAndSubtractsLose
PROPERTIES
  OnlyRepeatedAbortsStrand
  OnlyRepeatedPreparesHang
\* The finite pool of requests runs out.
CHECK_DEADLOCK FALSE
