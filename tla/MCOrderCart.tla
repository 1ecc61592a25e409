---------------------------- MODULE MCOrderCart ----------------------------
(***************************************************************************)
(* An instance of OrderCart for TLC.                                       *)
(***************************************************************************)
EXTENDS OrderCart, TLC

CONSTANTS a, b, x

\* One order; the stock service knows the items a and b, and not x.
OneOrder == {"o"}
ThreeItems == {a, b, x}
KnownItems == {a, b}
PriceOfEach == a :> 2 @@ b :> 3 @@ x :> 0
UpToTwoOfA == a :> 2 @@ b :> 1 @@ x :> 1

\* The find that cancelPayment makes.
OneFind == {"f"}
OnlyOrder == [f \in OneFind |-> "o"]

=============================================================================
