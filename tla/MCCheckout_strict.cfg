\* One checkout that both databases refuse; every call is answered.
SPECIFICATION Spec
CONSTANTS
  Order <- OneOrder
  Tx <- OneTx
  OrderOf <- OrderOfOne
  Db <- MCDb
  Payment = "payment"
  NoTx = "none"
  Item <- MCItem
  DbOf <- MCDbOf
  Price <- MCPrice
  InitStock <- StockOnlyA
  User <- MCUser
  UserOf <- UserOfOne
  InitCredit <- CreditForOne
  Cart <- CartOfOne
  Lossy = FALSE
INVARIANT StrictRollback
\* The finite pool of transactions runs out.
CHECK_DEADLOCK FALSE
