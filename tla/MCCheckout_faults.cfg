\* Two checkouts of one order: calls are lost or late, anybody may stop.
SPECIFICATION Spec
CONSTANTS
  Order <- OneOrder
  Tx <- TwoTx
  OrderOf <- SameOrder
  Db <- MCDb
  Payment = "payment"
  NoTx = "none"
  Item <- MCItem
  DbOf <- MCDbOf
  Price <- MCPrice
  InitStock <- StockForOne
  User <- MCUser
  UserOf <- UserOfOne
  InitCredit <- CreditForOne
  Cart <- CartShrinks
  Lossy = TRUE
INVARIANT PaidIsTakenInFull
PROPERTY AtomicCheckout
\* The finite pool of transactions runs out.
CHECK_DEADLOCK FALSE
