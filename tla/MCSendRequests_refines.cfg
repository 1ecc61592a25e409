\* The stock phase with its goroutines implements that of OrderTx.
SPECIFICATION SendFairSpec
CONSTANTS
  Order <- MCOrder
  Tx <- MCTx
  OrderOf <- MCOrderOf
  Db <- MCDb
  Payment = "payment"
  DbsOf <- MCDbsOf
  EmptyCart = {}
  NoTx = "none"
  Quote <- MCQuote
  Failures = TRUE
INVARIANTS
  EveryMessageReceived
  SettledBeforePayment
  TotalIsSum
PROPERTIES
  EveryGoroutineEnds
  ImplementsOrderTx
\* The finite pool of transactions runs out.
CHECK_DEADLOCK FALSE
