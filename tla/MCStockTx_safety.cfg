\* Safety, with handlers that may stop at any point.
SPECIFICATION Spec
CONSTANTS
  Item <- MCItem
  Tx <- MCTx
  PrepareReq <- MCPrepareReq
  AbortReq <- MCAbortReq
  TxOf <- MCTxOf
  Amount <- MCAmount
  Price <- MCPrice
  InitStock <- MCInitStock
  Delta <- MCDelta
  MaxSupply = 2
  Paged = TRUE
  Failures = TRUE
INVARIANTS
  TypeOK
  StockConserved
  AcknowledgedHoldsCart
  QuoteIsCost
  AnswersAgree
  AbortedIsBeingRolledBack
PROPERTY StockLifecycle
\* The finite pool of requests runs out.
CHECK_DEADLOCK FALSE
