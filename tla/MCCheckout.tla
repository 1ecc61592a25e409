----------------------------- MODULE MCCheckout -----------------------------
(***************************************************************************)
(* Instances of CheckoutSystem for TLC.                                    *)
(***************************************************************************)
EXTENDS CheckoutSystem, TLC

\* Two databases: "a" and "b" on one, "c" on the other.
MCItem == {"a", "b", "c"}
MCDb == {"d1", "d2"}
MCDbOf == "a" :> "d1" @@ "b" :> "d1" @@ "c" :> "d2"
MCPrice == "a" :> 1 @@ "b" :> 2 @@ "c" :> 1
MCUser == {"u"}

\* Two checkouts of one order; the cart changes in between.
OneOrder == {"o"}
TwoTx == {"t1", "t2"}
SameOrder == [t \in TwoTx |-> "o"]
UserOfOne == [o \in OneOrder |-> "u"]
CartShrinks == "t1" :> ("a" :> 1 @@ "c" :> 1) @@ "t2" :> ("a" :> 0 @@ "c" :> 1)
StockForOne == "a" :> 1 @@ "b" :> 0 @@ "c" :> 1
CreditForOne == "u" :> 2

\* The same, with a third checkout of another order of the same user, who
\* cannot pay for it.  As long as it holds all of "b", the first one is refused.
TwoOrders == {"o", "p"}
ThreeTx == {"t1", "t2", "t3"}
OrderOfThree == [t \in ThreeTx |-> IF t = "t3" THEN "p" ELSE "o"]
UserOfBoth == [o \in TwoOrders |-> "u"]
CartOfThree == "t1" :> ("a" :> 1 @@ "b" :> 1 @@ "c" :> 1)
            @@ "t2" :> ("c" :> 1) @@ "t3" :> ("b" :> 3)
StockForTwo == "a" :> 1 @@ "b" :> 3 @@ "c" :> 2
CreditForTwo == "u" :> 5

\* One checkout, refused by both databases.
OneTx == {"t1"}
OrderOfOne == [t \in OneTx |-> "o"]
CartOfOne == "t1" :> ("a" :> 1 @@ "b" :> 1 @@ "c" :> 1)
StockOnlyA == "a" :> 1 @@ "b" :> 0 @@ "c" :> 0

=============================================================================
