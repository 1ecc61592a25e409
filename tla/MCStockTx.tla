----------------------------- MODULE MCStockTx -----------------------------
(***************************************************************************)
(* Instances of StockTx for TLC.  Two transactions contend for item "a";   *)
(* the first also wants "b", sends its prepare request twice and may be    *)
(* aborted twice at the same time (by a request, and by itself when an     *)
(* item is out of stock).                                                  *)
(***************************************************************************)
EXTENDS StockTx, TLC

MCItem == {"a", "b"}
MCTx == {"t1", "t2"}
MCPrepareReq == {"p1", "p1dup", "p2"}
MCAbortReq == {"x1", "x2"}
MCTxOf == [r \in Request |-> IF r \in {"p1", "p1dup", "x1"} THEN "t1" ELSE "t2"]
MCAmount == "t1" :> ("a" :> 1 @@ "b" :> 2) @@ "t2" :> ("a" :> 1 @@ "b" :> 0)
MCPrice == "a" :> 3 @@ "b" :> 5
MCInitStock == "a" :> 1 @@ "b" :> 0
MCDelta == {2, -1}

=============================================================================
