---------------------------- MODULE MCPaymentTx ----------------------------
(***************************************************************************)
(* Instances of PaymentTx for TLC: two transactions of one user who cannot *)
(* always afford both, and a second user who does not exist at the start.  *)
(* The first is prepared and aborted twice, the second aborted twice, and  *)
(* its aborts may overtake its prepare request.                            *)
(***************************************************************************)
EXTENDS PaymentTx, TLC

MCUser == {"u", "v"}
MCTx == {"t1", "t2", "t3"}
MCPrepareReq == {"p1", "p1dup", "p2", "p3"}
MCAbortReq == {"x1", "x1dup", "x2", "x2dup"}
MCTxOf == [r \in Request |->
             CASE r \in {"p1", "p1dup", "x1", "x1dup"} -> "t1"
               [] r \in {"p2", "x2", "x2dup"} -> "t2"
               [] r = "p3" -> "t3"]
MCPayerOf == "t1" :> "u" @@ "t2" :> "u" @@ "t3" :> "v"
MCCost == "t1" :> 1 @@ "t2" :> 2 @@ "t3" :> 0
MCInitCredit == "u" :> 2 @@ "v" :> 0
MCDelta == {1, -2}
MCEarlyAbort == {"t2"}

=============================================================================
