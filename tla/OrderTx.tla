------------------------------ MODULE OrderTx ------------------------------
(***************************************************************************)
(* The order service as the coordinator of checkout (src/src/order): the   *)
(* keys of an order, the lock order_<id>:tx_id, and one checkoutOrder   *)
(* handler per transaction with the goroutines it starts.  Steps are Redis *)
(* scripts, and HTTP calls split into the request and its answer; what the *)
(* participants answer is left open here and settled in CheckoutSystem.    *)
(***************************************************************************)
EXTENDS Integers, TxStates

CONSTANTS
  Order,        \* order ids
  Tx,           \* transaction ids: every checkout request draws a fresh one
  OrderOf,      \* the order a transaction checks out
  Db,           \* stock databases
  Payment,      \* the payment service, as a participant
  DbsOf,        \* databases of the items its snapshot of the cart names with a
                \* positive amount
  EmptyCart,    \* transactions whose snapshot of the cart has no entry at all
  NoTx,         \* the lock is free
  Quote,        \* the prices a stock database may answer
  Failures      \* may a handler stop between two steps?

Participant == Db \cup {Payment}

ASSUME OrderConstants ==
  /\ OrderOf \in [Tx -> Order]
  /\ Payment \notin Db
  /\ DbsOf \in [Tx -> SUBSET Db]
  /\ EmptyCart \subseteq Tx /\ \A t \in EmptyCart : DbsOf[t] = {}
  /\ NoTx \notin Tx
  /\ Quote \subseteq Nat
  /\ Failures \in BOOLEAN

VARIABLES
  status,       \* the keys order_<id>:user_id and order_<id>:paid
  ckTx,         \* order_<id>:tx_id
  txState,      \* tx_<id>:state in the order's database
  pc,           \* where checkoutOrder stands
  prep,         \* the prepare call of a transaction to a participant
  abrt,         \* the abort call of a transaction to a participant
  price         \* the sum of the prices answered so far

orderVars == <<status, ckTx, txState>>
callVars  == <<prep, abrt, price>>
vars      == <<orderVars, pc, callVars>>

\* A handler that has answered: 200, 400 or 406, 404, 429, 500.
Answered == {"ok", "rejected", "notFound", "busy", "failed"}

Exists(o) == status[o] \in {"open", "paid"}

LockedBy(t) == ckTx[OrderOf[t]] = t

Goto(t, label) == pc' = [pc EXCEPT ![t] = label]

Init ==
  /\ status = [o \in Order |-> "absent"]
  /\ ckTx = [o \in Order |-> NoTx]
  /\ txState = [t \in Tx |-> TxNone]
  /\ pc = [t \in Tx |-> "idle"]
  /\ prep = [t \in Tx |-> [p \in Participant |-> "none"]]
  /\ abrt = [t \in Tx |-> [p \in Participant |-> "none"]]
  /\ price = [t \in Tx |-> 0]

-----------------------------------------------------------------------------
(* Orders: order/handle.go                                                 *)

\* Both keys are set in one MULTI, under a fresh id.
CreateOrder(o) ==
  /\ status[o] = "absent"
  /\ status' = [status EXCEPT ![o] = "open"]
  /\ UNCHANGED <<ckTx, txState, pc, callVars>>

\* The lock stays, and nobody looks whether a checkout is under way.
RemoveOrder(o) ==
  /\ Exists(o)
  /\ status' = [status EXCEPT ![o] = "removed"]
  /\ UNCHANGED <<ckTx, txState, pc, callVars>>

-----------------------------------------------------------------------------
(* checkoutOrder, the part before the participants are asked               *)

\* Mutant: SET without NX.
LockFreeUnchecked(o) == TRUE

LockFree(o) == ckTx[o] = NoTx

Lock(t) == ckTx' = [ckTx EXCEPT ![OrderOf[t]] = t]

\* Mutant: the flag the wrong way round.
AnswerIfLockedInverted(o) == IF status[o] = "paid" THEN "busy" ELSE "ok"

AnswerIfLocked(o) == IF status[o] = "paid" THEN "ok" ELSE "busy"

\* luaPrepareCkTx, and the handler's switch on its answer.
PrepareCkTx(t) ==
  LET o == OrderOf[t] IN
  /\ pc[t] = "idle"
  /\ IF ~Exists(o)
     THEN Goto(t, "notFound") /\ UNCHANGED <<ckTx, txState>>
     ELSE IF ~LockFree(o)
     THEN Goto(t, AnswerIfLocked(o)) /\ UNCHANGED <<ckTx, txState>>
     ELSE /\ Lock(t)
          /\ txState' = [txState EXCEPT ![t] = TxPreparing]
          /\ Goto(t, IF t \in EmptyCart THEN "commit" ELSE "stock")
  /\ UNCHANGED <<status, callVars>>

-----------------------------------------------------------------------------
(* prepareCkTxStock: one goroutine per database, all of which share a flag *)
(* that the first error sets.                                              *)

StockError(t) == \E d \in DbsOf[t] : prep[t][d] = "err"

\* A goroutine that has found the flag down has as good as sent its request.
\* The others never do: they are not started, or return "abort".
PostPrepare(t, d) ==
  /\ pc[t] = "stock" /\ d \in DbsOf[t]
  /\ prep[t][d] = "none" /\ ~StockError(t)
  /\ prep' = [prep EXCEPT ![t][d] = "sent"]
  /\ UNCHANGED <<orderVars, pc, abrt, price>>

\* Mutant: the last price instead of the sum.
StockAcceptsLast(t, d, quote) ==
  /\ pc[t] = "stock" /\ prep[t][d] = "sent" /\ ~StockError(t)
  /\ prep' = [prep EXCEPT ![t][d] = "ok"]
  /\ price' = [price EXCEPT ![t] = quote]
  /\ UNCHANGED <<orderVars, pc, abrt>>

\* Answers that come after the first error are thrown away.
StockAccepts(t, d, quote) ==
  /\ pc[t] = "stock" /\ prep[t][d] = "sent" /\ ~StockError(t)
  /\ prep' = [prep EXCEPT ![t][d] = "ok"]
  /\ price' = [price EXCEPT ![t] = @ + quote]
  /\ UNCHANGED <<orderVars, pc, abrt>>

StockRefuses(t, d) ==
  /\ pc[t] = "stock" /\ prep[t][d] = "sent" /\ ~StockError(t)
  /\ prep' = [prep EXCEPT ![t][d] = "err"]
  /\ UNCHANGED <<orderVars, pc, abrt, price>>

\* The first error is forwarded at once: the calls to the other databases may
\* still be under way.
AbortStock(t) ==
  /\ Goto(t, "abortStock")
  /\ abrt' = [abrt EXCEPT ![t] = [p \in Participant |->
                                    IF p \in DbsOf[t] THEN "sent" ELSE @[p]]]

StockRefused(t) ==
  /\ pc[t] = "stock" /\ StockError(t)
  /\ AbortStock(t)
  /\ UNCHANGED <<orderVars, prep, price>>

\* Mutants: some answers are not waited for; one answer is always waited for.
AllPreparedOrSent(t) == \A d \in DbsOf[t] : prep[t][d] \in {"sent", "ok"}

AllPreparedAndSome(t) == DbsOf[t] # {} /\ \A d \in DbsOf[t] : prep[t][d] = "ok"

AllPrepared(t) == \A d \in DbsOf[t] : prep[t][d] = "ok"

\* Every database has answered 200 (or there was none to ask): ask payment.
StockPrepared(t) ==
  /\ pc[t] = "stock" /\ AllPrepared(t)
  /\ Goto(t, "payment")
  /\ prep' = [prep EXCEPT ![t][Payment] = "sent"]
  /\ UNCHANGED <<orderVars, abrt, price>>

-----------------------------------------------------------------------------
(* prepareCkTxPayment                                                      *)

PaymentAccepts(t) ==
  /\ pc[t] = "payment"
  /\ prep' = [prep EXCEPT ![t][Payment] = "ok"]
  /\ Goto(t, "acknowledge")
  /\ UNCHANGED <<orderVars, abrt, price>>

PaymentRefuses(t) ==
  /\ pc[t] = "payment"
  /\ prep' = [prep EXCEPT ![t][Payment] = "err"]
  /\ abrt' = [abrt EXCEPT ![t][Payment] = "sent"]
  /\ Goto(t, "abortPayment")
  /\ UNCHANGED <<orderVars, price>>

-----------------------------------------------------------------------------
(* abortCkTxPayment, abortCkTxStock: what is answered is ignored, that it  *)
(* is answered is waited for.                                              *)

AbortAnswered(t, p) ==
  /\ pc[t] = IF p = Payment THEN "abortPayment" ELSE "abortStock"
  /\ abrt[t][p] = "sent"
  /\ abrt' = [abrt EXCEPT ![t][p] = "done"]
  /\ UNCHANGED <<orderVars, pc, prep, price>>

PaymentAborted(t) ==
  /\ pc[t] = "abortPayment" /\ abrt[t][Payment] = "done"
  /\ AbortStock(t)
  /\ UNCHANGED <<orderVars, prep, price>>

\* Mutant: strictConsistency off, the databases are not waited for.
AllAbortedLater(t) == TRUE

AllAborted(t) == \A d \in DbsOf[t] : abrt[t][d] = "done"

\* Mutant: the lock is not deleted.
ReleaseForgotten(t) == UNCHANGED ckTx

Release(t) == ckTx' = [ckTx EXCEPT ![OrderOf[t]] = NoTx]

\* luaAbortCkTx releases the order.
AbortCkTx(t) ==
  /\ pc[t] = "abortStock" /\ AllAborted(t)
  /\ IF LockedBy(t)
     THEN /\ Release(t)
          /\ txState' = [txState EXCEPT ![t] = TxAborted]
          /\ Goto(t, "rejected")
     ELSE Goto(t, "failed") /\ UNCHANGED <<ckTx, txState>>
  /\ UNCHANGED <<status, callVars>>

-----------------------------------------------------------------------------
(* Acknowledge and commit                                                  *)

\* luaAcknowledgeCkTx; commitCkTxRemote is started right after it.
AcknowledgeCkTx(t) ==
  /\ pc[t] = "acknowledge"
  /\ IF LockedBy(t)
     THEN txState' = [txState EXCEPT ![t] = TxAcknowledged] /\ Goto(t, "commit")
     ELSE Goto(t, "failed") /\ UNCHANGED txState
  /\ UNCHANGED <<status, ckTx, callVars>>

\* commitCkTxRemote posts to every participant and waits for nothing.
CommitPosted(t) ==
  t \notin EmptyCart /\ txState[t] \in {TxAcknowledged, TxCommitted}

Participants(t) == IF t \in EmptyCart THEN {} ELSE DbsOf[t] \cup {Payment}

\* Mutant: the lock is deleted, as an abort does.
CommitCkTxReleases(t) ==
  /\ pc[t] = "commit" /\ LockedBy(t)
  /\ Release(t)
  /\ txState' = [txState EXCEPT ![t] = TxCommitted]
  /\ status' = [status EXCEPT ![OrderOf[t]] = IF Exists(OrderOf[t]) THEN "paid" ELSE @]
  /\ Goto(t, "ok")
  /\ UNCHANGED callVars

\* luaCommitCkTx.  The lock is kept; a removed order is not marked as paid.
CommitCkTx(t) ==
  LET o == OrderOf[t] IN
  /\ pc[t] = "commit"
  /\ IF LockedBy(t)
     THEN /\ txState' = [txState EXCEPT ![t] = TxCommitted]
          /\ status' = [status EXCEPT ![o] = IF Exists(o) THEN "paid" ELSE @]
          /\ Goto(t, "ok")
     ELSE Goto(t, "failed") /\ UNCHANGED <<txState, status>>
  /\ UNCHANGED <<ckTx, callVars>>

-----------------------------------------------------------------------------
\* A script returns an error, or the process dies: the handler goes no further
\* and nothing it has written is undone.
Fail(t) ==
  /\ Failures
  /\ pc[t] \notin Answered \cup {"idle"}
  /\ Goto(t, "failed")
  /\ UNCHANGED <<orderVars, callVars>>

\* The handler's own next step.
Proceed(t) ==
  \/ StockRefused(t) \/ StockPrepared(t) \/ PaymentAborted(t)
  \/ AbortCkTx(t) \/ AcknowledgeCkTx(t) \/ CommitCkTx(t)
  \/ \E d \in DbsOf[t] : PostPrepare(t, d)

\* The end of a call.
CallAnswered(t) ==
  \/ \E d \in DbsOf[t] : StockRefuses(t, d) \/ \E q \in Quote : StockAccepts(t, d, q)
  \/ PaymentAccepts(t) \/ PaymentRefuses(t)
  \/ \E p \in Participants(t) : AbortAnswered(t, p)

Next ==
  \/ \E o \in Order : CreateOrder(o) \/ RemoveOrder(o)
  \/ \E t \in Tx : PrepareCkTx(t) \/ Proceed(t) \/ CallAnswered(t) \/ Fail(t)

Spec == Init /\ [][Next]_vars

\* Goroutines are scheduled, Redis answers, and so does every participant;
\* nobody has to send a checkout request.
FairSpec ==
  Spec /\ \A t \in Tx : WF_vars(Proceed(t)) /\ WF_vars(CallAnswered(t))

-----------------------------------------------------------------------------
(* Properties                                                              *)

\* The keys of an order and of a transaction hold what the scripts read back.
TypeOK ==
  /\ status \in [Order -> {"absent", "open", "paid", "removed"}]
  /\ ckTx \in [Order -> Tx \cup {NoTx}]
  /\ txState \in [Tx -> TxState]
  /\ pc \in [Tx -> {"idle", "stock", "payment", "abortPayment", "abortStock",
                    "acknowledge", "commit"} \cup Answered]
  /\ prep \in [Tx -> [Participant -> {"none", "sent", "ok", "err"}]]
  /\ abrt \in [Tx -> [Participant -> {"none", "sent", "done"}]]
  /\ price \in [Tx -> Nat]

\* An order is locked exactly by the transaction that prepares, acknowledges or
\* has committed it, so no two checkouts of one order are ever under way, and
\* none starts once one has paid.
LockedWhileLive ==
  \A t \in Tx :
    LockedBy(t) <=> txState[t] \in {TxPreparing, TxAcknowledged, TxCommitted}

\* "if already paid, the paying tx will be locked by the transaction id"
\* (order/lua.go:31), and that one is committed.
PaidKeepsLock ==
  \A o \in Order :
    status[o] = "paid" => ckTx[o] # NoTx /\ txState[ckTx[o]] = TxCommitted

\* The decision to commit is everybody's: no participant is told to commit
\* unless all have answered 200, and none of them is ever told to abort.
CommitIsUnanimous ==
  \A t \in Tx : CommitPosted(t) =>
    \A p \in Participants(t) : prep[t][p] = "ok" /\ abrt[t][p] = "none"

\* strictConsistency (order/checkout.go:68,92): the order is released, and the
\* client told, only when every participant that was asked has been told to
\* abort and has answered.
ReleasedAfterAborts ==
  \A t \in Tx : txState[t] = TxAborted =>
    \A p \in Participants(t) : prep[t][p] # "none" => abrt[t][p] = "done"

\* A 200 means that the order has been committed, by this checkout or by one
\* before it.
OkMeansCommitted ==
  \A t \in Tx : pc[t] = "ok" =>
    \E u \in Tx : OrderOf[u] = OrderOf[t] /\ txState[u] = TxCommitted

\* A commit or an abort is final, and the lock of a committed order with it.
DecisionIsFinal ==
  [][\A t \in Tx :
       /\ txState[t] \in {TxCommitted, TxAborted} => txState'[t] = txState[t]
       /\ txState[t] = TxCommitted => ckTx'[OrderOf[t]] = t]_<<txState, ckTx>>

\* Every checkout request that has arrived is answered.
EveryCheckoutAnswered == \A t \in Tx : pc[t] # "idle" ~> pc[t] \in Answered

=============================================================================
