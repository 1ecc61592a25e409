\* Safety, and answers for every client, with handlers that may stop.
SPECIFICATION FairSpec
CONSTANTS
  Order <- MCOrder
  Tx <- MCTx
  OrderOf <- MCOrderOf
  Db <- MCDb
  Payment = "payment"
  DbsOf <- MCDbsOf
  EmptyCart <- MCEmptyCart
  NoTx = "none"
  Quote <- MCQuote
  Failures = TRUE
INVARIANTS
  LockedWhileLive
  PaidKeepsLock
  CommitIsUnanimous
  ReleasedAfterAborts
  OkMeansCommitted
PROPERTIES
  DecisionIsFinal
  EveryCheckoutAnswered
\* The finite pool of transactions runs out.
CHECK_DEADLOCK FALSE
