\* Three checkouts of two orders: every call arrives and is answered.
SPECIFICATION FairSpec
CONSTANTS
  Order <- TwoOrders
  Tx <- ThreeTx
  OrderOf <- OrderOfThree
  Db <- MCDb
  Payment = "payment"
  NoTx = "none"
  Item <- MCItem
  DbOf <- MCDbOf
  Price <- MCPrice
  InitStock <- StockForTwo
  User <- MCUser
  UserOf <- UserOfBoth
  InitCredit <- CreditForTwo
  Cart <- CartOfThree
  Lossy = FALSE
INVARIANT NoDoubleCharge
PROPERTIES
  PaymentUsedAsPromised
  EventuallySettled
\* The finite pool of transactions runs out.
CHECK_DEADLOCK FALSE
