\* cancelPayment finds an order with up to three items, while its cart changes;
\* anything may fail.
SPECIFICATION FairSpec
CONSTANTS
  a = a
  b = b
  x = x
  Order <- OneOrder
  Item <- ThreeItems
  Known <- KnownItems
  Price <- PriceOfEach
  Find <- OneFind
  Cancel <- OneFind
  OrderOf <- OnlyOrder
  MaxAmount <- UpToTwoOfA
  Failures = TRUE
INVARIANTS
  ReceivesMatchSends
  TotalIsCost
PROPERTY EveryFindEnds
CHECK_DEADLOCK FALSE
