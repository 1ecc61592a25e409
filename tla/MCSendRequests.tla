--------------------------- MODULE MCSendRequests ---------------------------
(***************************************************************************)
(* Instances of SendRequests for TLC: the items of one cart are on three   *)
(* databases, of another on none.                                          *)
(***************************************************************************)
EXTENDS SendRequests, TLC

MCOrder == {"o"}
MCDb == {"d1", "d2", "d3"}
MCTx == {"t1", "t2"}
MCOrderOf == [t \in MCTx |-> "o"]
MCDbsOf == "t1" :> MCDb @@ "t2" :> {}
MCQuote == {1}

=============================================================================
