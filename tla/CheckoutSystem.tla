--------------------------- MODULE CheckoutSystem ---------------------------
(***************************************************************************)
(* Checkout as a whole: the coordinator of OrderTx with StockTx and        *)
(* PaymentTx as its participants.  A call is under way from the moment the *)
(* coordinator makes it; it arrives at any later time, or never, and its   *)
(* answer is what the participant's handler has ended with.  Items, users  *)
(* and orders exist from the start; restocking, add_funds and the others   *)
(* that do not take part in a transaction are left to the components.      *)
(* A handler or a process that dies is one that takes no further step,     *)
(* which Spec allows at any point; what its peer then sees is an error,    *)
(* which Lossy allows.  Failures of the components adds nothing to that.   *)
(***************************************************************************)
EXTENDS Integers, FiniteSets, Functions, TxStates

CONSTANTS
  Order, Tx, OrderOf,           \* see OrderTx
  Db, Payment, NoTx,
  Item, DbOf, Price, InitStock, \* see StockTx; DbOf[i] is the m part of i's id
  User, UserOf, InitCredit,     \* see PaymentTx; UserOf[o] placed order o
  Cart,         \* Cart[t]: amounts by item, the snapshot that t checks out
  Lossy         \* may a call end in an error whatever becomes of it?

ASSUME CheckoutConstants ==
  /\ \A t \in Tx : DOMAIN Cart[t] \subseteq Item /\ \A i \in DOMAIN Cart[t] : Cart[t][i] \in Int
  /\ OrderOf \in [Tx -> Order] /\ NoTx \notin Tx
  /\ DbOf \in [Item -> Db] /\ Payment \notin Db
  /\ UserOf \in [Order -> User]
  /\ Price \in [Item -> Nat] /\ InitStock \in [Item -> Nat] /\ InitCredit \in [User -> Nat]
  /\ Lossy \in BOOLEAN

\* Ids are 64-bit words, databases those of the configuration.
ASSUME CheckoutFinite == IsFiniteSet(Item) /\ IsFiniteSet(Tx) /\ IsFiniteSet(Db)

\* In the list of participants "order" is the order's own database.
ASSUME OrderIsNoOther == "order" \notin Db \cup {Payment}

VARIABLES
  created, stock, supply, sState, locked, lockedPrice, sPc, todo, quote,
  known, credit, funds, pState, held, pPc,
  status, ckTx, oState, pc, prep, abrt, price

stockVars == <<created, stock, supply, sState, locked, lockedPrice, sPc, todo, quote>>
payVars   == <<known, credit, funds, pState, held, pPc>>
ordVars   == <<status, ckTx, oState, pc, prep, abrt, price>>
vars      == <<stockVars, payVars, ordVars>>

-----------------------------------------------------------------------------
(* What the coordinator makes of the cart                                  *)

\* Amounts that are not positive are skipped.
Wanted(t, i) == IF i \in DOMAIN Cart[t] /\ Cart[t][i] > 0 THEN Cart[t][i] ELSE 0

\* The items are grouped by database; the request to one names its items.
DbsOf == [t \in Tx |-> {DbOf[i] : i \in {j \in Item : Wanted(t, j) > 0}}]

Amount == [td \in Tx \X Db |->
            [i \in Item |-> IF DbOf[i] = td[2] THEN Wanted(td[1], i) ELSE 0]]

EmptyCart == {t \in Tx : DOMAIN Cart[t] = {}}

CostAt(t, d) == SumFunction([i \in Item |-> Price[i] * Amount[<<t, d>>][i]])

Cost == [t \in Tx |-> SumFunction([d \in DbsOf[t] |-> CostAt(t, d)])]

PayerOf == [t \in Tx |-> UserOf[OrderOf[t]]]

-----------------------------------------------------------------------------
(* The parts                                                               *)

\* Request <<"prepare", td>> or <<"abort", td>>, td a transaction and database.
Stock == INSTANCE StockTx WITH
  Tx <- Tx \X Db,
  PrepareReq <- {"prepare"} \X (Tx \X Db), AbortReq <- {"abort"} \X (Tx \X Db),
  TxOf <- [r \in {"prepare", "abort"} \X (Tx \X Db) |-> r[2]],
  Delta <- {}, MaxSupply <- 0, Paged <- FALSE, Failures <- FALSE,
  txState <- sState, pc <- sPc

Pay == INSTANCE PaymentTx WITH
  PrepareReq <- {"prepare"} \X Tx, AbortReq <- {"abort"} \X Tx,
  TxOf <- [r \in {"prepare", "abort"} \X Tx |-> r[2]],
  Delta <- {}, MaxFunds <- 0, Failures <- FALSE, EarlyAbort <- IF Lossy THEN Tx ELSE {},
  txState <- pState, pc <- pPc

Ord == INSTANCE OrderTx WITH
  Quote <- {CostAt(t, d) : t \in Tx, d \in Db}, Failures <- FALSE,
  txState <- oState

Init ==
  /\ Stock!Init
  /\ Pay!Init
  /\ Ord!Init

-----------------------------------------------------------------------------
(* Calls that arrive                                                       *)

StockPrepare(t, d) ==
  /\ prep[t][d] # "none"
  /\ Stock!PrepareCkTx(<<"prepare", <<t, d>>>>)
  /\ UNCHANGED <<payVars, ordVars>>

StockAbort(t, d) ==
  /\ abrt[t][d] # "none"
  /\ Stock!AbortCkTx(<<"abort", <<t, d>>>>)
  /\ UNCHANGED <<payVars, ordVars>>

StockCommit(t, d) ==
  /\ Ord!CommitPosted(t)
  /\ Stock!CommitCkTx(<<t, d>>)
  /\ UNCHANGED <<payVars, ordVars>>

PaymentPrepare(t) ==
  /\ prep[t][Payment] # "none"
  /\ Pay!PrepareCkTx(<<"prepare", t>>, price[t])
  /\ UNCHANGED <<stockVars, ordVars>>

PaymentAbort(t) ==
  /\ abrt[t][Payment] # "none"
  /\ Pay!HGetAll(<<"abort", t>>)
  /\ UNCHANGED <<stockVars, ordVars>>

PaymentCommit(t) ==
  /\ Ord!CommitPosted(t)
  /\ Pay!CommitCkTx(t)
  /\ UNCHANGED <<stockVars, ordVars>>

-----------------------------------------------------------------------------
(* Handlers that go on                                                     *)

StockStep(r) ==
  /\ Stock!Proceed(r)
  /\ UNCHANGED <<payVars, ordVars>>

PaymentStep(t) ==
  /\ Pay!Proceed(<<"abort", t>>)
  /\ UNCHANGED <<stockVars, ordVars>>

Checkout(t) ==
  /\ Ord!PrepareCkTx(t)
  /\ UNCHANGED <<stockVars, payVars>>

CoordinatorStep(t) ==
  /\ Ord!Proceed(t)
  /\ UNCHANGED <<stockVars, payVars>>

NewOrder(o) ==
  /\ Ord!CreateOrder(o)
  /\ UNCHANGED <<stockVars, payVars>>

-----------------------------------------------------------------------------
(* Calls that are answered                                                 *)

StockAnswers(t, d) ==
  LET r == <<"prepare", <<t, d>>>> IN
  /\ \/ sPc[r] = "ok" /\ Ord!StockAccepts(t, d, quote[r])
     \/ (sPc[r] \in {"rejected", "failed"} \/ Lossy) /\ Ord!StockRefuses(t, d)
  /\ UNCHANGED <<stockVars, payVars>>

PaymentAnswers(t) ==
  LET r == <<"prepare", t>> IN
  /\ \/ pPc[r] = "ok" /\ Ord!PaymentAccepts(t)
     \/ (pPc[r] = "rejected" \/ Lossy) /\ Ord!PaymentRefuses(t)
  /\ UNCHANGED <<stockVars, payVars>>

AbortAnswers(t, p) ==
  /\ \/ Lossy
     \/ p = Payment /\ pPc[<<"abort", t>>] \in Pay!Answered
     \/ p \in Db /\ sPc[<<"abort", <<t, p>>>>] \in Stock!Answered
  /\ Ord!AbortAnswered(t, p)
  /\ UNCHANGED <<stockVars, payVars>>

-----------------------------------------------------------------------------
Arrival(t) ==
  \/ \E d \in Db : StockPrepare(t, d) \/ StockAbort(t, d) \/ StockCommit(t, d)
  \/ PaymentPrepare(t) \/ PaymentAbort(t) \/ PaymentCommit(t)

Handling(t) ==
  \/ \E d \in Db : StockStep(<<"prepare", <<t, d>>>>) \/ StockStep(<<"abort", <<t, d>>>>)
  \/ PaymentStep(t) \/ CoordinatorStep(t)

Answer(t) ==
  \/ \E d \in Db : StockAnswers(t, d)
  \/ PaymentAnswers(t)
  \/ \E p \in Db \cup {Payment} : AbortAnswers(t, p)

Next ==
  \/ \E o \in Order : NewOrder(o)
  \/ \E t \in Tx : Checkout(t) \/ Arrival(t) \/ Handling(t) \/ Answer(t)

Spec == Init /\ [][Next]_vars

\* Used where nothing is lost and nothing fails: every call arrives, every
\* handler goes on and every answer comes back.  Checkout requests are up to
\* the clients.
FairSpec ==
  /\ Spec
  /\ \A t \in Tx :
       /\ WF_vars(PaymentPrepare(t)) /\ WF_vars(PaymentAbort(t)) /\ WF_vars(PaymentCommit(t))
       /\ WF_vars(PaymentStep(t)) /\ WF_vars(CoordinatorStep(t)) /\ WF_vars(PaymentAnswers(t))
       /\ \A d \in Db :
            /\ WF_vars(StockPrepare(t, d)) /\ WF_vars(StockAbort(t, d))
            /\ WF_vars(StockCommit(t, d)) /\ WF_vars(StockAnswers(t, d))
            /\ WF_vars(StockStep(<<"prepare", <<t, d>>>>))
            /\ WF_vars(StockStep(<<"abort", <<t, d>>>>))
       /\ \A p \in Db \cup {Payment} : WF_vars(AbortAnswers(t, p))

-----------------------------------------------------------------------------
(* Properties                                                              *)

\* The records as states of the abstract commitment.  An order whose cart is
\* empty has nobody to wait for: preparing, it may commit.
AsRM(s) ==
  IF s = TxCommitted THEN "committed"
  ELSE IF s = TxAborted THEN "aborted"
  ELSE IF s = TxAcknowledged THEN "prepared" ELSE "working"

OrderAsRM(t) ==
  IF t \in EmptyCart /\ oState[t] = TxPreparing THEN "prepared" ELSE AsRM(oState[t])

Atomic == INSTANCE AtomicCommit WITH
  PartOf <- [t \in Tx |-> {"order"} \cup Ord!Participants(t)],
  rm <- [t \in Tx |-> [p \in {"order"} \cup Ord!Participants(t) |->
           IF p = "order" THEN OrderAsRM(t)
           ELSE IF p = Payment THEN AsRM(pState[t]) ELSE AsRM(sState[<<t, p>>])]]

\* Checkout is atomic: the three services implement AtomicCommit, whatever
\* calls are lost or late and wherever handlers stop.
AtomicCheckout == Atomic!Spec

\* The coordinator asks payment only what the payment service counts on: to
\* charge the price of the cart, and to commit or abort, never both.
PaymentUsedAsPromised == Pay!Spec

\* Stock and credit a transaction has taken and not given back.
StockTaken(t) ==
  \E d \in Db : sState[<<t, d>>] = TxCommitted \/ \E i \in Item : locked[<<t, d>>][i] > 0

CreditTaken(t) == pState[t] = TxCommitted \/ held[t] # Pay!NoHold

\* strictConsistency (order/checkout.go:68,92): a client that is told that its
\* checkout has failed finds stock and credit as they were before.
StrictRollback ==
  \A t \in Tx : pc[t] = "rejected" => ~StockTaken(t) /\ ~CreditTaken(t)

\* No order is charged twice, not even for a moment: of the transactions of one
\* order at most one has credit, held or spent.
NoDoubleCharge ==
  \A t, u \in Tx :
    t # u /\ OrderOf[t] = OrderOf[u] => ~(CreditTaken(t) /\ CreditTaken(u))

\* What a paid order names is taken in full and paid in full: each participant
\* has committed, or holds the whole cart or its whole price until the commit
\* call arrives.
PaidIsTakenInFull ==
  \A t \in Tx : oState[t] = TxCommitted /\ t \notin EmptyCart =>
    /\ pState[t] = TxCommitted \/ (pState[t] = TxAcknowledged /\ held[t] = Cost[t])
    /\ \A d \in DbsOf[t] :
         LET td == <<t, d>> IN
         sState[td] = TxCommitted \/ (sState[td] = TxAcknowledged /\ locked[td] = Amount[td])

\* In the end every checkout is answered and every transaction has either
\* committed with everybody or taken nothing from anybody.
EventuallySettled ==
  \A t \in Tx : pc[t] = "stock" ~>
    \/ /\ pc[t] = "ok"
       /\ \A p \in Ord!Participants(t) :
            (IF p = Payment THEN pState[t] ELSE sState[<<t, p>>]) = TxCommitted
    \/ pc[t] = "rejected" /\ ~StockTaken(t) /\ ~CreditTaken(t)

=============================================================================
