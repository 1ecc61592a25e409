---------------------------- MODULE AtomicCommit ----------------------------
(***************************************************************************)
(* What checkout promises: every participant of a transaction (the order,  *)
(* the payment service, the stock databases of its cart) comes to the same *)
(* end, and of the transactions of one order at most one commits.  How the *)
(* participants get to know of each other is left out.                     *)
(***************************************************************************)

CONSTANTS
  Tx,           \* transactions
  OrderOf,      \* the order a transaction checks out
  PartOf        \* PartOf[t]: the participants of t

VARIABLE rm     \* rm[t][p]: the state of participant p of transaction t

Init == rm = [t \in Tx |-> [p \in PartOf[t] |-> "working"]]

SomeCommitted(t) == \E p \in PartOf[t] : rm[t][p] = "committed"

\* Everybody is ready, or has been, and nobody has gone for another
\* transaction of the same order.
MayCommit(t) ==
  /\ \A p \in PartOf[t] : rm[t][p] \in {"prepared", "committed"}
  /\ \A u \in Tx \ {t} : OrderOf[u] = OrderOf[t] => ~SomeCommitted(u)

Become(t, p, s) == rm' = [rm EXCEPT ![t][p] = s]

Prepare(t, p) == rm[t][p] = "working" /\ Become(t, p, "prepared")

Commit(t, p) == MayCommit(t) /\ rm[t][p] = "prepared" /\ Become(t, p, "committed")

Abort(t, p) ==
  /\ rm[t][p] \in {"working", "prepared"} /\ ~SomeCommitted(t)
  /\ Become(t, p, "aborted")

Next == \E t \in Tx : \E p \in PartOf[t] : Prepare(t, p) \/ Commit(t, p) \/ Abort(t, p)

Spec == Init /\ [][Next]_rm

=============================================================================
