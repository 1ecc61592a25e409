----------------------------- MODULE MCOrderTx -----------------------------
(***************************************************************************)
(* Instances of OrderTx for TLC: four checkouts of one order, whose cart   *)
(* changes in between: items on two databases when "t1" locks it, nothing  *)
(* at all for "t2", entries without a positive amount for "t3", items on   *)
(* one database for "t4".                                                  *)
(***************************************************************************)
EXTENDS OrderTx, TLC

MCOrder == {"o"}
MCTx == {"t1", "t2", "t3", "t4"}
MCOrderOf == [t \in MCTx |-> "o"]
MCDb == {"d1", "d2"}
MCDbsOf == "t1" :> {"d1", "d2"} @@ "t2" :> {} @@ "t3" :> {} @@ "t4" :> {"d1"}
MCEmptyCart == {"t2"}
MCQuote == {1}

=============================================================================
