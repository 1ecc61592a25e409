------------------------------ MODULE MCShard ------------------------------
(***************************************************************************)
(* An instance of Shard for TLC: every word of up to five runes, of which  *)
(* three are digits, and two databases: "1" and "02" lead to one each, "0" *)
(* and "12" to none.                                                       *)
(***************************************************************************)
EXTENDS Shard, TLC

MCValue == "0" :> 0 @@ "1" :> 1 @@ "2" :> 2

=============================================================================
