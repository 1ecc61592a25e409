------------------------------ MODULE TxStates ------------------------------
(***************************************************************************)
(* The life of a checkout transaction in one Redis database, as            *)
(* src/src/common/transaction.go defines it.  The key tx_<id>:state is     *)
(* absent (TxNone: `false' in Lua, "" in Go) until some script writes it.  *)
(***************************************************************************)

TxNone         == "none"
TxPreparing    == "PRP"
TxAcknowledged == "ACK"
TxCommitted    == "CMT"
TxAborted      == "ABT"

TxState == {TxNone, TxPreparing, TxAcknowledged, TxCommitted, TxAborted}

(***************************************************************************)
(* The arrows of the diagram in transaction.go:11-19.  The order database  *)
(* is not a receiver in the sense of that comment and has its own rules.   *)
(***************************************************************************)
Arrow(s, t) ==
  <<s, t>> \in { <<TxNone, TxPreparing>>,         <<TxNone, TxAborted>>,
                 <<TxPreparing, TxAcknowledged>>, <<TxPreparing, TxAborted>>,
                 <<TxAcknowledged, TxCommitted>>, <<TxAcknowledged, TxAborted>> }

=============================================================================
