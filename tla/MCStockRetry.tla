---------------------------- MODULE MCStockRetry ----------------------------
(***************************************************************************)
(* An instance of StockRetry for TLC.  Two transactions contend for item   *)
(* "a"; the first also wants "b" and is aborted by a request, or by itself *)
(* when an item is out of stock.                                           *)
(***************************************************************************)
EXTENDS StockRetry, TLC

MCItem == {"a", "b"}
MCTx == {"t1", "t2"}
MCPrepareReq == {"p1", "p1dup", "p2"}
MCAbortReq == {"x1"}
MCTxOf == [r \in Request |-> IF r = "p2" THEN "t2" ELSE "t1"]
MCAmount == "t1" :> ("a" :> 1 @@ "b" :> 1) @@ "t2" :> ("a" :> 1 @@ "b" :> 0)
MCPrice == "a" :> 3 @@ "b" :> 5
MCInitStock == "a" :> 2 @@ "b" :> 2
MCDelta == {2, -2}

=============================================================================
