--------------------------- MODULE CheckoutProofs ---------------------------
(***************************************************************************)
(* Proofs about CheckoutSystem, for every set of orders, transactions,     *)
(* databases, items and users.  What StockTxProofs, PaymentTxProofs and    *)
(* OrderTxProofs prove of the parts is proved of them here by showing that *)
(* every step of the system is a step of each part, as that part's own     *)
(* specification has it, or leaves it alone.  The coordinator's and the    *)
(* payment service's are so only because of what links them to the others: *)
(* that answers are true, that the price asked is that of the cart, and that *)
(* nobody is told to commit and to abort.  From the links and the parts'   *)
(* invariants follow atomicity and what is taken and charged.              *)
(***************************************************************************)
EXTENDS CheckoutSystem, SumProofs

SP == INSTANCE StockTxProofs WITH
  Tx <- Tx \X Db,
  PrepareReq <- {"prepare"} \X (Tx \X Db), AbortReq <- {"abort"} \X (Tx \X Db),
  TxOf <- [r \in {"prepare", "abort"} \X (Tx \X Db) |-> r[2]],
  Delta <- {}, MaxSupply <- 0, Paged <- FALSE, Failures <- FALSE,
  MaxRepeats <- 0, repeats <- 0, repeated <- {},  \* no answer is lost within it
  txState <- sState, pc <- sPc

PP == INSTANCE PaymentTxProofs WITH
  PrepareReq <- {"prepare"} \X Tx, AbortReq <- {"abort"} \X Tx,
  TxOf <- [r \in {"prepare", "abort"} \X Tx |-> r[2]],
  Delta <- {}, MaxFunds <- 0, Failures <- FALSE, EarlyAbort <- IF Lossy THEN Tx ELSE {},
  txState <- pState, pc <- pPc

OP == INSTANCE OrderTxProofs WITH
  Quote <- {CostAt(t, d) : t \in Tx, d \in Db}, Failures <- FALSE,
  sender <- <<>>, rest <- <<>>, run <- <<>>, abort <- <<>>, quoted <- <<>>,
  left <- <<>>, total <- <<>>, hasErr <- <<>>,    \* no goroutines within it
  txState <- oState

-----------------------------------------------------------------------------
(* The assumptions of the parts                                            *)

\* What a cart asks for is a number of units of each item.
LEMMA AmountType == Amount \in [Tx \X Db -> [Item -> Nat]]
<1>1. \A t \in Tx, i \in Item : Wanted(t, i) \in Nat
  BY CheckoutConstants DEF Wanted
<1>2. \A td \in Tx \X Db : [i \in Item |-> IF DbOf[i] = td[2] THEN Wanted(td[1], i) ELSE 0]
                             \in [Item -> Nat]
  BY <1>1
<1>3. QED
  BY <1>2 DEF Amount

\* Prices times amounts are numbers.
LEMMA NatProduct == \A m, n \in Nat : m * n \in Nat
  OBVIOUS

\* What a database is asked for has a price, which is a number.
LEMMA CostAtType == \A t \in Tx, d \in Db : CostAt(t, d) \in Nat
<1>1. SUFFICES ASSUME NEW t \in Tx, NEW d \in Db PROVE CostAt(t, d) \in Nat
  OBVIOUS
<1> DEFINE f == [i \in Item |-> Price[i] * Amount[<<t, d>>][i]]
<1>2. \A i \in Item : Price[i] \in Nat /\ Amount[<<t, d>>][i] \in Nat
  BY AmountType, CheckoutConstants
<1>3. \A i \in Item : f[i] \in Nat
  BY <1>2, NatProduct
<1>4. SumFunctionOnSet(f, Item) \in Nat
  <2>1. \A i \in Item : f[i] \in Int
    BY <1>3
  <2>2. QED
    BY <1>3, <2>1, SumType, CheckoutFinite
<1>5. SumFunction(f) = SumFunctionOnSet(f, Item)
  BY DEF SumFunction
<1>6. QED
  BY <1>4, <1>5 DEF CostAt

\* The databases a cart reaches are databases.
LEMMA DbsOfType == DbsOf \in [Tx -> SUBSET Db]
BY CheckoutConstants DEF DbsOf

\* A cart has a price, which is a number.
LEMMA CostType == Cost \in [Tx -> Nat]
<1>1. ASSUME NEW t \in Tx PROVE SumFunction([d \in DbsOf[t] |-> CostAt(t, d)]) \in Nat
  <2> DEFINE f == [d \in DbsOf[t] |-> CostAt(t, d)]
  <2>1. DbsOf[t] \subseteq Db /\ IsFiniteSet(DbsOf[t])
    BY DbsOfType, CheckoutFinite, FS_Subset
  <2>2. \A d \in DbsOf[t] : f[d] \in Nat
    BY <2>1, CostAtType
  <2>3. \A d \in DbsOf[t] : f[d] \in Int
    BY <2>2
  <2>4. SumFunctionOnSet(f, DbsOf[t]) \in Nat
    BY <2>1, <2>2, <2>3, SumType
  <2>5. SumFunction(f) = SumFunctionOnSet(f, DbsOf[t])
    BY DEF SumFunction
  <2>6. QED
    BY <2>4, <2>5
<1>2. QED
  BY <1>1 DEF Cost

\* An empty cart reaches no database.
LEMMA EmptyReachesNone == EmptyCart \subseteq Tx /\ \A t \in EmptyCart : DbsOf[t] = {}
BY DEF EmptyCart, DbsOf, Wanted

\* Stock: requests name their records, and the records are finitely many.
LEMMA StockAssumed ==
  /\ ({"prepare"} \X (Tx \X Db)) \cap ({"abort"} \X (Tx \X Db)) = {}
  /\ [r \in {"prepare", "abort"} \X (Tx \X Db) |-> r[2]] \in [SP!Request -> Tx \X Db]
  /\ Amount \in [Tx \X Db -> [Item -> Nat]]
  /\ Price \in [Item -> Nat]
  /\ InitStock \in [Item -> Nat]
  /\ {} \subseteq Int /\ 0 \in Nat /\ FALSE \in BOOLEAN
  /\ SP!IsFiniteSet(Item) /\ SP!IsFiniteSet(Tx \X Db)
<1>1. {"prepare", "abort"} \X (Tx \X Db) = SP!Request
  BY DEF SP!Request
<1>2. SP!IsFiniteSet(Item) /\ SP!IsFiniteSet(Tx \X Db)
  <2>1. IsFiniteSet(Tx \X Db)
    BY CheckoutFinite, FS_Product
  <2>2. QED
    BY <2>1, CheckoutFinite DEF IsFiniteSet, SP!IsFiniteSet
<1>3. QED
  BY <1>1, <1>2, AmountType, CheckoutConstants

\* Payment: the same of its requests, payers and prices.
LEMMA PaymentAssumed ==
  /\ ({"prepare"} \X Tx) \cap ({"abort"} \X Tx) = {}
  /\ [r \in {"prepare", "abort"} \X Tx |-> r[2]] \in [PP!Request -> Tx]
  /\ PayerOf \in [Tx -> User]
  /\ Cost \in [Tx -> Nat]
  /\ InitCredit \in [User -> Nat]
  /\ {} \subseteq Int /\ 0 \in Nat /\ FALSE \in BOOLEAN
  /\ (IF Lossy THEN Tx ELSE {}) \subseteq Tx
  /\ PP!IsFiniteSet(Tx)
<1>1. {"prepare", "abort"} \X Tx = PP!Request
  BY DEF PP!Request
<1>0. PP!IsFiniteSet(Tx)
  BY CheckoutFinite DEF IsFiniteSet, PP!IsFiniteSet
<1>2. PayerOf \in [Tx -> User]
  BY CheckoutConstants DEF PayerOf
<1>3. QED
  BY <1>0, <1>1, <1>2, CostType, CheckoutConstants

\* The order service: the same of its orders, databases and quotes.
LEMMA OrderAssumed ==
  /\ OrderOf \in [Tx -> Order]
  /\ Payment \notin Db
  /\ DbsOf \in [Tx -> SUBSET Db]
  /\ EmptyCart \subseteq Tx /\ \A t \in EmptyCart : DbsOf[t] = {}
  /\ NoTx \notin Tx
  /\ {CostAt(t, d) : t \in Tx, d \in Db} \subseteq Nat
  /\ FALSE \in BOOLEAN
  /\ OP!IsFiniteSet(Db)
<1>1. OP!IsFiniteSet(Db)
  BY CheckoutFinite DEF IsFiniteSet, OP!IsFiniteSet
<1>2. QED
  BY <1>1, CheckoutConstants, DbsOfType, EmptyReachesNone, CostAtType

-----------------------------------------------------------------------------
(* A part and the instance its proofs are about say the same               *)

\* The stock service's operations.
LEMMA StockSame ==
  /\ Stock!Init => SP!Init
  /\ \A r : Stock!PrepareCkTx(r) => SP!PrepareCkTx(r)
  /\ \A r : Stock!AbortCkTx(r) => SP!AbortCkTx(r)
  /\ \A r : Stock!Proceed(r) => SP!Proceed(r)
  /\ \A td : Stock!CommitCkTx(td) => SP!CommitCkTx(td)
<1> USE DEF Stock!TxNone, SP!TxNone, Stock!TxPreparing, SP!TxPreparing, Stock!TxAborted, SP!TxAborted,
            Stock!TxAcknowledged, SP!TxAcknowledged, Stock!TxCommitted, SP!TxCommitted,
            Stock!Goto, SP!Goto, Stock!itemVars, SP!itemVars, Stock!lockVars, SP!lockVars,
            Stock!reqVars, SP!reqVars
<1>1. Stock!Init => SP!Init
  BY DEF Stock!Init, SP!Init, Stock!Request, SP!Request, Stock!NoPrice, SP!NoPrice
<1>2. ASSUME NEW r PROVE Stock!PrepareCkTx(r) => SP!PrepareCkTx(r)
  BY DEF Stock!PrepareCkTx, SP!PrepareCkTx, Stock!TakeOver, SP!TakeOver, Stock!OnState, SP!OnState,
         Stock!Requested, SP!Requested
<1>3. ASSUME NEW r PROVE Stock!AbortCkTx(r) => SP!AbortCkTx(r)
  BY DEF Stock!AbortCkTx, SP!AbortCkTx, Stock!RolledBack, SP!RolledBack, Stock!MustRollBack,
         SP!MustRollBack, Stock!NoPrice, SP!NoPrice
<1>4. ASSUME NEW r PROVE Stock!WaitPrepared(r) \/ Stock!ReadPrice(r) => SP!WaitPrepared(r) \/ SP!ReadPrice(r)
  BY DEF Stock!WaitPrepared, SP!WaitPrepared, Stock!OnState, SP!OnState, Stock!ReadPrice,
         SP!ReadPrice, Stock!NoPrice, SP!NoPrice
<1>5. ASSUME NEW r, NEW i PROVE Stock!PrepareCkTxMove(r, i) => SP!PrepareCkTxMove(r, i)
  BY DEF Stock!PrepareCkTxMove, SP!PrepareCkTxMove, Stock!StillPreparing, SP!StillPreparing,
         Stock!Overtaken, SP!Overtaken, Stock!InStock, SP!InStock, Stock!Move, SP!Move
<1>6. ASSUME NEW r PROVE Stock!AcknowledgeCkTx(r) => SP!AcknowledgeCkTx(r)
  BY DEF Stock!AcknowledgeCkTx, SP!AcknowledgeCkTx, Stock!StillPreparing, SP!StillPreparing,
         Stock!Overtaken, SP!Overtaken
<1>7. ASSUME NEW r PROVE Stock!HScan(r) => SP!HScan(r)
  BY DEF Stock!HScan, SP!HScan, Stock!Pages, SP!Pages, Stock!Fields, SP!Fields,
         Stock!RolledBack, SP!RolledBack
<1>8. ASSUME NEW r, NEW i PROVE Stock!AbortCkTxRollback(r, i) => SP!AbortCkTxRollback(r, i)
  BY DEF Stock!AbortCkTxRollback, SP!AbortCkTxRollback, Stock!Fields, SP!Fields, Stock!InPage, SP!InPage,
         Stock!GiveBack, SP!GiveBack, Stock!AfterPage, SP!AfterPage, Stock!RolledBack, SP!RolledBack
<1>9. ASSUME NEW r PROVE Stock!Proceed(r) => SP!Proceed(r)
  BY <1>3, <1>4, <1>5, <1>6, <1>7, <1>8 DEF Stock!Proceed, SP!Proceed
<1>10. ASSUME NEW td PROVE Stock!CommitCkTx(td) => SP!CommitCkTx(td)
  BY DEF Stock!CommitCkTx, SP!CommitCkTx
<1>11. QED
  BY <1>1, <1>2, <1>3, <1>9, <1>10

\* The payment service's.
LEMMA PaymentSame ==
  /\ Pay!Init <=> PP!Init
  /\ \A r, amount : Pay!PrepareCkTx(r, amount) <=> PP!PrepareCkTx(r, amount)
  /\ \A r : Pay!HGetAll(r) <=> PP!HGetAll(r)
  /\ \A r : Pay!Proceed(r) <=> PP!Proceed(r)
  /\ \A t : Pay!CommitCkTx(t) <=> PP!CommitCkTx(t)
  /\ \A r : Pay!MayPrepare(r) <=> PP!MayPrepare(r)
  /\ \A r : Pay!MayAbort(r) <=> PP!MayAbort(r)
  /\ \A t : Pay!MayCommit(t) <=> PP!MayCommit(t)
<1> USE DEF Pay!TxNone, PP!TxNone, Pay!TxAborted, PP!TxAborted,
            Pay!TxAcknowledged, PP!TxAcknowledged, Pay!TxCommitted, PP!TxCommitted,
            Pay!Goto, PP!Goto, Pay!userVars, PP!userVars, Pay!NoHold, PP!NoHold
<1>1. Pay!Init <=> PP!Init
  BY DEF Pay!Init, PP!Init, Pay!Request, PP!Request
<1>2. ASSUME NEW r, NEW amount PROVE Pay!PrepareCkTx(r, amount) <=> PP!PrepareCkTx(r, amount)
  BY DEF Pay!PrepareCkTx, PP!PrepareCkTx, Pay!Decided, PP!Decided, Pay!RepeatAnswer,
         PP!RepeatAnswer, Pay!Affordable, PP!Affordable
<1>3. ASSUME NEW r PROVE Pay!HGetAll(r) <=> PP!HGetAll(r)
  BY DEF Pay!HGetAll, PP!HGetAll
<1>4. ASSUME NEW r PROVE Pay!Proceed(r) <=> PP!Proceed(r)
  <2>1. Pay!SetAborted(r) <=> PP!SetAborted(r)
    BY DEF Pay!SetAborted, PP!SetAborted
  <2>2. Pay!AbtThenRollback(r) <=> PP!AbtThenRollback(r)
    BY DEF Pay!AbtThenRollback, PP!AbtThenRollback
  <2>3. QED
    BY <2>1, <2>2 DEF Pay!Proceed, PP!Proceed
<1>5. ASSUME NEW t PROVE Pay!CommitCkTx(t) <=> PP!CommitCkTx(t)
  BY DEF Pay!CommitCkTx, PP!CommitCkTx
<1>6. ASSUME NEW t PROVE Pay!AbortArrived(t) <=> PP!AbortArrived(t)
  BY DEF Pay!AbortArrived, PP!AbortArrived
<1>7. ASSUME NEW r PROVE /\ Pay!MayPrepare(r) <=> PP!MayPrepare(r)
                         /\ Pay!MayAbort(r) <=> PP!MayAbort(r)
                         /\ Pay!MayCommit(r) <=> PP!MayCommit(r)
  BY <1>6 DEF Pay!MayPrepare, PP!MayPrepare, Pay!MayAbort, PP!MayAbort, Pay!MayCommit, PP!MayCommit
<1>8. QED
  BY <1>1, <1>2, <1>3, <1>4, <1>5, <1>7

\* The order service's.
LEMMA OrderSame ==
  /\ Ord!Init => OP!Init
  /\ \A o : Ord!CreateOrder(o) => OP!CreateOrder(o)
  /\ \A t : Ord!PrepareCkTx(t) => OP!PrepareCkTx(t)
  /\ \A t : Ord!Proceed(t) => OP!Proceed(t)
  /\ \A t, d, q : Ord!StockAccepts(t, d, q) => OP!StockAccepts(t, d, q)
  /\ \A t, d : Ord!StockRefuses(t, d) => OP!StockRefuses(t, d)
  /\ \A t : Ord!PaymentAccepts(t) => OP!PaymentAccepts(t)
  /\ \A t : Ord!PaymentRefuses(t) => OP!PaymentRefuses(t)
  /\ \A t, p : Ord!AbortAnswered(t, p) => OP!AbortAnswered(t, p)
<1> USE DEF Ord!TxNone, OP!TxNone, Ord!TxPreparing, OP!TxPreparing, Ord!TxAborted, OP!TxAborted,
            Ord!TxAcknowledged, OP!TxAcknowledged, Ord!TxCommitted, OP!TxCommitted,
            Ord!Goto, OP!Goto, Ord!orderVars, OP!orderVars, Ord!callVars, OP!callVars,
            Ord!StockError, OP!StockError, Ord!LockedBy, OP!LockedBy
<1>1. Ord!Init => OP!Init
  BY DEF Ord!Init, OP!Init, Ord!Participant, OP!Participant
<1>2. ASSUME NEW o PROVE Ord!CreateOrder(o) => OP!CreateOrder(o)
  BY DEF Ord!CreateOrder, OP!CreateOrder
<1>3. ASSUME NEW t PROVE Ord!PrepareCkTx(t) => OP!PrepareCkTx(t)
  BY DEF Ord!PrepareCkTx, OP!PrepareCkTx, Ord!Exists, OP!Exists, Ord!LockFree, OP!LockFree,
         Ord!AnswerIfLocked, OP!AnswerIfLocked, Ord!Lock, OP!Lock
<1>4. ASSUME NEW t PROVE Ord!Proceed(t) => OP!Proceed(t)
  <2>1. Ord!StockRefused(t) => OP!StockRefused(t)
    BY DEF Ord!StockRefused, OP!StockRefused, Ord!AbortStock, OP!AbortStock,
           Ord!Participant, OP!Participant
  <2>2. Ord!StockPrepared(t) => OP!StockPrepared(t)
    BY DEF Ord!StockPrepared, OP!StockPrepared, Ord!AllPrepared, OP!AllPrepared
  <2>3. Ord!PaymentAborted(t) => OP!PaymentAborted(t)
    BY DEF Ord!PaymentAborted, OP!PaymentAborted, Ord!AbortStock, OP!AbortStock,
           Ord!Participant, OP!Participant
  <2>4. Ord!AbortCkTx(t) => OP!AbortCkTx(t)
    BY DEF Ord!AbortCkTx, OP!AbortCkTx, Ord!AllAborted, OP!AllAborted, Ord!Release, OP!Release
  <2>5. Ord!AcknowledgeCkTx(t) => OP!AcknowledgeCkTx(t)
    BY DEF Ord!AcknowledgeCkTx, OP!AcknowledgeCkTx
  <2>6. Ord!CommitCkTx(t) => OP!CommitCkTx(t)
    BY DEF Ord!CommitCkTx, OP!CommitCkTx, Ord!Exists, OP!Exists
  <2>7. ASSUME NEW d PROVE Ord!PostPrepare(t, d) => OP!PostPrepare(t, d)
    BY DEF Ord!PostPrepare, OP!PostPrepare
  <2>8. QED
    BY <2>1, <2>2, <2>3, <2>4, <2>5, <2>6, <2>7 DEF Ord!Proceed, OP!Proceed
<1>5. ASSUME NEW t, NEW d, NEW q PROVE Ord!StockAccepts(t, d, q) => OP!StockAccepts(t, d, q)
  BY DEF Ord!StockAccepts, OP!StockAccepts
<1>6. ASSUME NEW t, NEW d PROVE Ord!StockRefuses(t, d) => OP!StockRefuses(t, d)
  BY DEF Ord!StockRefuses, OP!StockRefuses
<1>7. ASSUME NEW t PROVE Ord!PaymentAccepts(t) => OP!PaymentAccepts(t)
  BY DEF Ord!PaymentAccepts, OP!PaymentAccepts
<1>8. ASSUME NEW t PROVE Ord!PaymentRefuses(t) => OP!PaymentRefuses(t)
  BY DEF Ord!PaymentRefuses, OP!PaymentRefuses
<1>9. ASSUME NEW t, NEW p PROVE Ord!AbortAnswered(t, p) => OP!AbortAnswered(t, p)
  BY DEF Ord!AbortAnswered, OP!AbortAnswered
<1>10. QED
  BY <1>1, <1>2, <1>3, <1>4, <1>5, <1>6, <1>7, <1>8, <1>9

\* The parts speak of the same states, participants and decisions.
LEMMA NamesSame ==
  /\ SP!TxNone = TxNone /\ SP!TxPreparing = TxPreparing /\ SP!TxAborted = TxAborted
  /\ SP!TxAcknowledged = TxAcknowledged /\ SP!TxCommitted = TxCommitted
  /\ PP!TxNone = TxNone /\ PP!TxPreparing = TxPreparing /\ PP!TxAborted = TxAborted
  /\ PP!TxAcknowledged = TxAcknowledged /\ PP!TxCommitted = TxCommitted
  /\ OP!TxNone = TxNone /\ OP!TxPreparing = TxPreparing /\ OP!TxAborted = TxAborted
  /\ OP!TxAcknowledged = TxAcknowledged /\ OP!TxCommitted = TxCommitted
  /\ PP!NoHold = Pay!NoHold
  /\ OP!Participant = Db \cup {Payment}
  /\ \A t : OP!Participants(t) = Ord!Participants(t)
  /\ \A t : OP!CommitPosted(t) <=> Ord!CommitPosted(t)
BY DEF SP!TxNone, SP!TxPreparing, SP!TxAborted, SP!TxAcknowledged, SP!TxCommitted,
       PP!TxNone, PP!TxPreparing, PP!TxAborted, PP!TxAcknowledged, PP!TxCommitted,
       OP!TxNone, OP!TxPreparing, OP!TxAborted, OP!TxAcknowledged, OP!TxCommitted,
       TxNone, TxPreparing, TxAborted, TxAcknowledged, TxCommitted, PP!NoHold, Pay!NoHold,
       OP!Participant, OP!Participants, Ord!Participants, OP!CommitPosted, Ord!CommitPosted,
       Ord!TxAcknowledged, Ord!TxCommitted

\* The states are different from each other.
LEMMA StatesDiffer ==
  /\ TxNone # TxPreparing /\ TxNone # TxAcknowledged /\ TxNone # TxCommitted
  /\ TxNone # TxAborted /\ TxPreparing # TxAcknowledged /\ TxPreparing # TxCommitted
  /\ TxPreparing # TxAborted /\ TxAcknowledged # TxCommitted
  /\ TxAcknowledged # TxAborted /\ TxCommitted # TxAborted
BY DEF TxNone, TxPreparing, TxAcknowledged, TxCommitted, TxAborted

-----------------------------------------------------------------------------
(* The steps of the system                                                 *)

\* Whose step it is: the stock service's, the payment service's or the
\* coordinator's.
StockMoves(t, d) == StockPrepare(t, d) \/ StockAbort(t, d) \/ StockCommit(t, d)
                    \/ StockStep(<<"prepare", <<t, d>>>>) \/ StockStep(<<"abort", <<t, d>>>>)

PaymentMoves(t) == PaymentPrepare(t) \/ PaymentAbort(t) \/ PaymentCommit(t) \/ PaymentStep(t)

OrderMoves(t) == \/ Checkout(t) \/ CoordinatorStep(t) \/ PaymentAnswers(t)
                 \/ \E d \in Db : StockAnswers(t, d)
                 \/ \E p \in Db \cup {Payment} : AbortAnswers(t, p)

\* Every step is one of these.
LEMMA Moves ==
  [Next]_vars =>
    \/ \E t \in Tx, d \in Db : StockMoves(t, d)
    \/ \E t \in Tx : PaymentMoves(t)
    \/ \E t \in Tx : OrderMoves(t)
    \/ \E o \in Order : NewOrder(o)
    \/ UNCHANGED vars
BY DEF Next, Arrival, Handling, Answer, StockMoves, PaymentMoves, OrderMoves

\* Each leaves the other parts alone.
LEMMA MovesAreLocal ==
  /\ \A t, d : StockMoves(t, d) => UNCHANGED <<payVars, ordVars>>
  /\ \A t : PaymentMoves(t) => UNCHANGED <<stockVars, ordVars>>
  /\ \A t : OrderMoves(t) => UNCHANGED <<stockVars, payVars>>
  /\ \A o : NewOrder(o) => UNCHANGED <<stockVars, payVars>>
BY DEF StockMoves, StockPrepare, StockAbort, StockCommit, StockStep,
       PaymentMoves, PaymentPrepare, PaymentAbort, PaymentCommit, PaymentStep,
       OrderMoves, Checkout, CoordinatorStep, PaymentAnswers, StockAnswers, AbortAnswers, NewOrder

-----------------------------------------------------------------------------
(* The stock service in the system                                         *)

\* The requests about the record of transaction t on database d.
Prp(t, d) == <<"prepare", <<t, d>>>>
Abt(t, d) == <<"abort", <<t, d>>>>

\* They are requests of the stock service, about that record and no other.
LEMMA StockRequests ==
  /\ \A t \in Tx, d \in Db :
       /\ Prp(t, d) \in {"prepare"} \X (Tx \X Db) /\ Abt(t, d) \in {"abort"} \X (Tx \X Db)
       /\ Prp(t, d) \in {"prepare", "abort"} \X (Tx \X Db)
       /\ Abt(t, d) \in {"prepare", "abort"} \X (Tx \X Db)
       /\ Prp(t, d) \in SP!Request /\ Abt(t, d) \in SP!Request
       /\ [r \in {"prepare", "abort"} \X (Tx \X Db) |-> r[2]][Prp(t, d)] = <<t, d>>
       /\ [r \in {"prepare", "abort"} \X (Tx \X Db) |-> r[2]][Abt(t, d)] = <<t, d>>
  /\ \A r \in SP!Request : \E t \in Tx, d \in Db : r = Prp(t, d) \/ r = Abt(t, d)
BY DEF Prp, Abt, SP!Request

\* What happens to a record is its commit, or a step of one of its two handlers.
LEMMA StockMovesAs ==
  ASSUME NEW t \in Tx, NEW d \in Db, StockMoves(t, d)
  PROVE  SP!CommitCkTx(<<t, d>>) \/ SP!Step(Prp(t, d)) \/ SP!Step(Abt(t, d))
<1>1. CASE StockPrepare(t, d)
  BY <1>1, StockSame, StockRequests DEF StockPrepare, SP!Step, Prp
<1>2. CASE StockAbort(t, d)
  BY <1>2, StockSame, StockRequests DEF StockAbort, SP!Step, Abt
<1>3. CASE StockCommit(t, d)
  BY <1>3, StockSame DEF StockCommit
<1>4. ASSUME NEW r, StockStep(r) PROVE SP!Step(r)
  BY <1>4, StockSame DEF StockStep, SP!Step, SP!Proceed
<1>5. QED
  BY <1>1, <1>2, <1>3, <1>4 DEF StockMoves, Prp, Abt

\* So each step of the system is one of the stock service or leaves it alone.
LEMMA StockNext == [Next]_vars => [SP!Next]_(SP!vars)
<1>1. ASSUME NEW t \in Tx, NEW d \in Db, StockMoves(t, d) PROVE SP!Next
  <2>1. StockPrepare(t, d) => SP!Next
    BY StockSame, StockRequests DEF StockPrepare, SP!Next, Prp
  <2>2. StockAbort(t, d) => SP!Next
    BY StockSame, StockRequests DEF StockAbort, SP!Next, Abt
  <2>3. StockCommit(t, d) => SP!Next
    BY StockSame DEF StockCommit, SP!Next
  <2>4. ASSUME NEW r \in SP!Request, StockStep(r) PROVE SP!Next
    BY <2>4, StockSame DEF StockStep, SP!Next
  <2>5. QED
    BY <1>1, <2>1, <2>2, <2>3, <2>4, StockRequests DEF StockMoves, Prp, Abt
<1>2. UNCHANGED stockVars => UNCHANGED SP!vars
  BY DEF stockVars, SP!vars, SP!itemVars, SP!lockVars, SP!reqVars
<1>3. QED
  BY <1>1, <1>2, Moves, MovesAreLocal DEF vars

\* In the system the stock service behaves as its specification says.
LEMMA StockServes == Spec => SP!Spec
<1>1. Init => SP!Init
  BY StockSame DEF Init
<1>2. QED
  BY <1>1, StockNext, PTL DEF Spec, SP!Spec

\* What is proved of the stock service: its records' types, their holdings and
\* what their requests are told.
StockFine == SP!Typed /\ SP!Holding /\ SP!Agreeing /\ SP!QuoteIsCost

\* So all of that is true of it in the system.
LEMMA StockIsFine == Spec => []StockFine
<1>1. SP!Init => SP!Typed /\ SP!Holding /\ SP!Rolling /\ SP!Agreeing
  BY StockAssumed, SP!TypedInit, SP!HoldingInit, SP!RollingInit, SP!AgreeingInit
<1>2. SP!Typed /\ SP!Holding /\ SP!Rolling /\ SP!Agreeing /\ [SP!Next]_(SP!vars)
        => SP!Typed' /\ SP!Holding' /\ SP!Rolling' /\ SP!Agreeing'
  BY StockAssumed, SP!TypedStep, SP!HoldingStep, SP!RollingStep, SP!AgreeingStep
<1>3. SP!Spec => []SP!QuoteIsCost
  BY StockAssumed, SP!QuotesInFull
<1>4. QED
  BY <1>1, <1>2, <1>3, StockServes, PTL DEF SP!Spec, StockFine

-----------------------------------------------------------------------------
(* The coordinator in the system                                           *)

\* What is proved of the coordinator.
OrderFine == OP!TypeOK /\ OP!LockedWhileLive /\ OP!Phases /\ OP!Calls

\* It is true at the start.
LEMMA OrderFineInit == Init => OrderFine
<1>1. Init => OP!Init
  BY OrderSame DEF Init
<1>2. QED
  BY <1>1, OrderAssumed, OP!TypedInit, OP!LockedInit, OP!PhasesInit, OP!CallsInit DEF OrderFine

\* A price that a database has answered is that of what it was asked for.
LEMMA QuoteIsCostAt ==
  ASSUME StockFine, NEW t \in Tx, NEW d \in Db, sPc[Prp(t, d)] = "ok"
  PROVE  quote[Prp(t, d)] = CostAt(t, d)
<1>1. quote[Prp(t, d)] = SP!CostOf(<<t, d>>)
  <2> DEFINE r == Prp(t, d)
             td == [q \in {"prepare", "abort"} \X (Tx \X Db) |-> q[2]][r]
  <2>1. r \in {"prepare"} \X (Tx \X Db) /\ td = <<t, d>>
    BY StockRequests
  <2>2. quote[r] = SP!CostOf(td)
    <3> HIDE DEF r
    <3>1. SP!QuoteIsCost
      BY DEF StockFine
    <3>2. QED
      BY <2>1, <3>1 DEF SP!QuoteIsCost, r
  <2> HIDE DEF td
  <2>3. QED
    BY <2>1, <2>2
<1>2. SP!CostOf(<<t, d>>) = CostAt(t, d)
  BY DEF SP!CostOf, CostAt, SP!SumFunction, SumFunction, SP!SumFunctionOnSet, SumFunctionOnSet,
         SP!FoldFunctionOnSet, FoldFunctionOnSet, SP!MapThenFoldSet, MapThenFoldSet
<1>3. QED
  BY <1>1, <1>2

\* Who is called is a participant.
LEMMA CalledIsParticipant ==
  ASSUME OrderFine, NEW t \in Tx, NEW p \in Db \cup {Payment},
         prep[t][p] # "none" \/ abrt[t][p] # "none"
  PROVE  /\ p \in OP!Participants(t) /\ oState[t] # TxNone
         /\ p \in Db => p \in DbsOf[t]
<1>1. p \in OP!Participants(t) /\ oState[t] # TxNone
  BY NamesSame DEF OrderFine, OP!Calls, OP!CallsAt
<1>2. p \in Db => p \in DbsOf[t]
  BY <1>1, CheckoutConstants DEF OP!Participants
<1>3. QED
  BY <1>1, <1>2

\* Each step of the system is one of the coordinator or leaves it alone.
LEMMA OrderNext == StockFine /\ OrderFine /\ [Next]_vars => [OP!Next]_(OP!vars)
<1> SUFFICES ASSUME StockFine, OrderFine, [Next]_vars PROVE [OP!Next]_(OP!vars)
  OBVIOUS
<1>0. UNCHANGED ordVars => UNCHANGED OP!vars
  BY DEF ordVars, OP!vars, OP!orderVars, OP!callVars
<1>1. ASSUME NEW t \in Tx, OrderMoves(t) PROVE OP!Next
  <2>1. CASE Checkout(t)
    BY <2>1, OrderSame DEF Checkout, OP!Next
  <2>2. CASE CoordinatorStep(t)
    BY <2>2, OrderSame DEF CoordinatorStep, OP!Next
  <2>3. CASE PaymentAnswers(t)
    BY <2>3, OrderSame DEF PaymentAnswers, OP!Next, OP!CallAnswered
  <2>4. ASSUME NEW d \in Db, StockAnswers(t, d) PROVE OP!Next
    <3>1. CASE OP!StockRefuses(t, d)
      <4>1. d \in DbsOf[t]
        BY <3>1, CalledIsParticipant DEF OP!StockRefuses
      <4>2. QED
        BY <3>1, <4>1 DEF OP!Next, OP!CallAnswered
    <3>2. CASE sPc[Prp(t, d)] = "ok" /\ OP!StockAccepts(t, d, quote[Prp(t, d)])
      <4>1. d \in DbsOf[t]
        BY <3>2, CalledIsParticipant DEF OP!StockAccepts
      <4>2. quote[Prp(t, d)] \in {CostAt(u, e) : u \in Tx, e \in Db}
        BY <3>2, QuoteIsCostAt
      <4>3. QED
        BY <3>2, <4>1, <4>2 DEF OP!Next, OP!CallAnswered
    <3>3. QED
      BY <2>4, <3>1, <3>2, OrderSame DEF StockAnswers, Prp
  <2>5. ASSUME NEW p \in Db \cup {Payment}, AbortAnswers(t, p) PROVE OP!Next
    <3>1. OP!AbortAnswered(t, p)
      BY <2>5, OrderSame DEF AbortAnswers
    <3>2. p \in OP!Participants(t)
      BY <3>1, CalledIsParticipant DEF OP!AbortAnswered
    <3>3. QED
      BY <3>1, <3>2 DEF OP!Next, OP!CallAnswered
  <2>6. QED
    BY <1>1, <2>1, <2>2, <2>3, <2>4, <2>5 DEF OrderMoves
<1>2. ASSUME NEW o \in Order, NewOrder(o) PROVE OP!Next
  BY <1>2, OrderSame DEF NewOrder, OP!Next
<1>3. QED
  BY <1>0, <1>1, <1>2, Moves, MovesAreLocal DEF vars

\* So what is proved of the coordinator stays true.
LEMMA OrderFineStep ==
  ASSUME StockFine, OrderFine, [Next]_vars PROVE OrderFine'
<1>1. [OP!Next]_(OP!vars)
  BY OrderNext
<1>2. OP!TypeOK /\ OP!LockedWhileLive /\ OP!Phases /\ OP!Calls
  BY DEF OrderFine
<1>3. OP!TypeOK' /\ OP!LockedWhileLive' /\ OP!Phases' /\ OP!Calls'
  BY <1>1, <1>2, OrderAssumed, OP!TypedStep, OP!LockedStep, OP!PhasesStep, OP!CallsStep
<1>4. QED
  BY <1>3 DEF OrderFine

-----------------------------------------------------------------------------
(* The payment service in the system                                       *)

\* The requests about transaction t.
PayPrp(t) == <<"prepare", t>>
PayAbt(t) == <<"abort", t>>

\* They are requests of the payment service, about that transaction and no other.
LEMMA PaymentRequests ==
  /\ \A t \in Tx :
       /\ PayPrp(t) \in {"prepare"} \X Tx /\ PayAbt(t) \in {"abort"} \X Tx
       /\ PayPrp(t) \in PP!Request /\ PayAbt(t) \in PP!Request
       /\ [r \in {"prepare", "abort"} \X Tx |-> r[2]][PayPrp(t)] = t
       /\ [r \in {"prepare", "abort"} \X Tx |-> r[2]][PayAbt(t)] = t
  /\ \A r \in {"prepare"} \X Tx : \E t \in Tx : r = PayPrp(t)
  /\ \A r \in {"abort"} \X Tx : \E t \in Tx : r = PayAbt(t)
  /\ \A t, u \in Tx : /\ PayPrp(t) # PayAbt(u)
                      /\ t # u => PayPrp(t) # PayPrp(u) /\ PayAbt(t) # PayAbt(u)
BY DEF PayPrp, PayAbt, PP!Request

\* One abort request there is for a transaction.
LEMMA PaymentAbortArrived ==
  \A t \in Tx : PP!AbortArrived(t) <=> pPc[PayAbt(t)] # "idle"
<1>1. SUFFICES ASSUME NEW t \in Tx PROVE PP!AbortArrived(t) <=> pPc[PayAbt(t)] # "idle"
  OBVIOUS
<1>2. ASSUME NEW a \in {"abort"} \X Tx, [r \in {"prepare", "abort"} \X Tx |-> r[2]][a] = t
      PROVE  a = PayAbt(t)
  BY <1>2 DEF PayAbt
<1>3. QED
  BY <1>2, PaymentRequests DEF PP!AbortArrived

\* What payment knows of a transaction is what the coordinator has asked for: its
\* handlers have been called, it has said yes if the coordinator thinks so, it
\* has committed only what may be committed, and where every call is answered it
\* is told to abort only what it has refused.
PaymentLinked(t) ==
  /\ pPc[PayPrp(t)] # "idle" => prep[t][Payment] # "none"
  /\ pPc[PayAbt(t)] # "idle" => abrt[t][Payment] # "none"
  /\ prep[t][Payment] = "ok" => pPc[PayPrp(t)] = "ok"
  /\ pState[t] = TxCommitted => Ord!CommitPosted(t)
  /\ ~Lossy /\ abrt[t][Payment] # "none" => pPc[PayPrp(t)] = "rejected"

\* The price so far is that of the databases that have said yes.
CostSoFar(t) == SumFunction([d \in DbsOf[t] |-> IF prep[t][d] = "ok" THEN CostAt(t, d) ELSE 0])

Priced == \A t \in Tx : price[t] = CostSoFar(t)

PaymentLinks == \A t \in Tx : PaymentLinked(t)

\* So payment is asked the price of the whole cart.
LEMMA FullPrice ==
  ASSUME OrderFine, Priced, NEW t \in Tx, prep[t][Payment] # "none"
  PROVE  price[t] = Cost[t]
<1>1. \A d \in DbsOf[t] : prep[t][d] = "ok"
  BY NamesSame DEF OrderFine, OP!Calls, OP!CallsAt, OP!Asked
<1>2. [d \in DbsOf[t] |-> IF prep[t][d] = "ok" THEN CostAt(t, d) ELSE 0]
        = [d \in DbsOf[t] |-> CostAt(t, d)]
  BY <1>1
<1>3. CostSoFar(t) = Cost[t]
  BY <1>2 DEF CostSoFar, Cost
<1>4. QED
  BY <1>3 DEF Priced

\* Nobody who may be told to commit is told to abort, and all have said yes.
LEMMA PostedIsUnanimous ==
  ASSUME OrderFine, NEW t \in Tx, Ord!CommitPosted(t), NEW p \in OP!Participants(t)
  PROVE  prep[t][p] = "ok" /\ abrt[t][p] = "none"
BY NamesSame DEF OrderFine, OP!Phases, OP!Phase, OP!Unanimous

\* Payment is a participant of whatever may be committed.
LEMMA PaymentTakesPart ==
  ASSUME NEW t \in Tx, Ord!CommitPosted(t) PROVE Payment \in OP!Participants(t)
BY DEF Ord!CommitPosted, OP!Participants

\* Each step of the system is one of the payment service, as it expects to be
\* called, or leaves it alone.
LEMMA PaymentNext == OrderFine /\ Priced /\ PaymentLinks /\ [Next]_vars => [PP!Next]_(PP!vars)
<1> SUFFICES ASSUME OrderFine, Priced, PaymentLinks, [Next]_vars PROVE [PP!Next]_(PP!vars)
  OBVIOUS
<1>0. UNCHANGED payVars => UNCHANGED PP!vars
  BY DEF payVars, PP!vars, PP!userVars
<1>1. ASSUME NEW t \in Tx, PaymentMoves(t) PROVE PP!Next
  <2> DEFINE TxOf == [r \in {"prepare", "abort"} \X Tx |-> r[2]]
  <2>0. PaymentLinked(t)
    BY DEF PaymentLinks
  <2>1. CASE PaymentPrepare(t)
    <3>1. PP!PrepareCkTx(PayPrp(t), Cost[t])
      BY <2>1, FullPrice, PaymentSame DEF PaymentPrepare, PayPrp
    <3>2. pPc[PayPrp(t)] = "idle"
      BY <3>1 DEF PP!PrepareCkTx
    <3>3. t \in (IF Lossy THEN Tx ELSE {}) \/ ~PP!AbortArrived(t)
      BY <2>0, <3>2, PaymentAbortArrived DEF PaymentLinked
    <3>4. TxOf[PayPrp(t)] = t /\ PayPrp(t) \in {"prepare"} \X Tx
      BY PaymentRequests
    <3>5. PP!MayPrepare(PayPrp(t)) /\ PP!PrepareCkTx(PayPrp(t), Cost[TxOf[PayPrp(t)]])
      BY <3>1, <3>3, <3>4 DEF PP!MayPrepare
    <3>6. QED
      BY <3>4, <3>5 DEF PP!Next
  <2>2. CASE PaymentAbort(t)
    <3>1. PP!HGetAll(PayAbt(t)) /\ abrt[t][Payment] # "none"
      BY <2>2, PaymentSame DEF PaymentAbort, PayAbt
    <3>2. pState[t] # TxCommitted
      BY <2>0, <3>1, PaymentTakesPart, PostedIsUnanimous DEF PaymentLinked
    <3>3. TxOf[PayAbt(t)] = t /\ PayAbt(t) \in {"abort"} \X Tx
      BY PaymentRequests
    <3>4. PP!MayAbort(PayAbt(t))
      BY <3>2, <3>3, NamesSame DEF PP!MayAbort
    <3>5. QED
      BY <3>1, <3>3, <3>4 DEF PP!Next
  <2>3. CASE PaymentCommit(t)
    <3>1. PP!CommitCkTx(t) /\ Ord!CommitPosted(t)
      BY <2>3, PaymentSame DEF PaymentCommit
    <3>2. abrt[t][Payment] = "none"
      BY <3>1, PaymentTakesPart, PostedIsUnanimous
    <3>3. PP!MayCommit(t)
      BY <2>0, <3>2, PaymentAbortArrived DEF PaymentLinked, PP!MayCommit
    <3>4. QED
      BY <3>1, <3>3 DEF PP!Next
  <2>4. CASE PaymentStep(t)
    <3>1. PP!Proceed(PayAbt(t))
      BY <2>4, PaymentSame DEF PaymentStep, PayAbt
    <3>2. QED
      BY <3>1, PaymentRequests DEF PP!Next
  <2>5. QED
    BY <1>1, <2>1, <2>2, <2>3, <2>4 DEF PaymentMoves
<1>2. QED
  BY <1>0, <1>1, Moves, MovesAreLocal DEF vars

-----------------------------------------------------------------------------
(* What the coordinator knows of the participants                          *)

\* It is their answers that make the coordinator think that they have said yes,
\* or (where every call is answered) tell payment to abort.
LEMMA AnswersAreTheirs ==
  ASSUME OrderFine, NEW t \in Tx, OrderMoves(t), NEW u \in Tx, NEW p \in Db \cup {Payment}
  PROVE  /\ prep'[u][p] = "ok" /\ prep[u][p] # "ok" =>
              \/ p = Payment /\ pPc[PayPrp(u)] = "ok"
              \/ p \in Db /\ sPc[Prp(u, p)] = "ok"
         /\ ~Lossy /\ abrt'[u][Payment] # "none" /\ abrt[u][Payment] = "none" =>
              pPc[PayPrp(u)] = "rejected"
<1> DEFINE Goal == /\ prep'[u][p] = "ok" /\ prep[u][p] # "ok" =>
                        \/ p = Payment /\ pPc[PayPrp(u)] = "ok"
                        \/ p \in Db /\ sPc[Prp(u, p)] = "ok"
                   /\ ~Lossy /\ abrt'[u][Payment] # "none" /\ abrt[u][Payment] = "none" =>
                        pPc[PayPrp(u)] = "rejected"
<1>0. /\ prep \in [Tx -> [Db \cup {Payment} -> {"none", "sent", "ok", "err"}]]
      /\ abrt \in [Tx -> [Db \cup {Payment} -> {"none", "sent", "done"}]]
      /\ DbsOf[t] \subseteq Db /\ Payment \notin Db
  BY NamesSame, DbsOfType, CheckoutConstants DEF OrderFine, OP!TypeOK
<1>1. CASE UNCHANGED <<prep, abrt>>
  BY <1>1
<1>2. CASE Checkout(t)
  BY <1>1, <1>2, OrderSame DEF Checkout, OP!PrepareCkTx, OP!callVars
<1>3. CASE CoordinatorStep(t)
  <2>1. OP!Proceed(t)
    BY <1>3, OrderSame DEF CoordinatorStep
  <2>2. CASE OP!AbortCkTx(t) \/ OP!AcknowledgeCkTx(t) \/ OP!CommitCkTx(t)
    BY <1>1, <2>2 DEF OP!AbortCkTx, OP!AcknowledgeCkTx, OP!CommitCkTx, OP!callVars
  <2>3. CASE OP!StockRefused(t) \/ OP!PaymentAborted(t)
    <3>1. OP!AbortStock(t) /\ prep' = prep
      BY <2>3 DEF OP!StockRefused, OP!PaymentAborted
    <3>2. abrt'[u][Payment] = abrt[u][Payment]
      BY <1>0, <3>1, NamesSame DEF OP!AbortStock
    <3>3. QED
      BY <3>1, <3>2
  <2>4. CASE OP!StockPrepared(t)
    BY <1>0, <2>4 DEF OP!StockPrepared
  <2>5. ASSUME NEW d \in DbsOf[t], OP!PostPrepare(t, d) PROVE Goal
    BY <1>0, <2>5 DEF OP!PostPrepare
  <2>6. QED
    BY <2>1, <2>2, <2>3, <2>4, <2>5 DEF OP!Proceed
<1>4. CASE PaymentAnswers(t)
  <2>1. \/ pPc[PayPrp(t)] = "ok" /\ OP!PaymentAccepts(t)
        \/ (pPc[PayPrp(t)] = "rejected" \/ Lossy) /\ OP!PaymentRefuses(t)
    BY <1>4, OrderSame DEF PaymentAnswers, PayPrp
  <2>2. CASE pPc[PayPrp(t)] = "ok" /\ OP!PaymentAccepts(t)
    BY <1>0, <2>2 DEF OP!PaymentAccepts
  <2>3. CASE (pPc[PayPrp(t)] = "rejected" \/ Lossy) /\ OP!PaymentRefuses(t)
    BY <1>0, <2>3 DEF OP!PaymentRefuses
  <2>4. QED
    BY <2>1, <2>2, <2>3
<1>5. ASSUME NEW d \in Db, StockAnswers(t, d) PROVE Goal
  <2>1. \/ sPc[Prp(t, d)] = "ok" /\ OP!StockAccepts(t, d, quote[Prp(t, d)])
        \/ OP!StockRefuses(t, d)
    BY <1>5, OrderSame DEF StockAnswers, Prp
  <2>2. CASE sPc[Prp(t, d)] = "ok" /\ OP!StockAccepts(t, d, quote[Prp(t, d)])
    BY <1>0, <2>2 DEF OP!StockAccepts
  <2>3. CASE OP!StockRefuses(t, d)
    BY <1>0, <2>3 DEF OP!StockRefuses
  <2>4. QED
    BY <2>1, <2>2, <2>3
<1>6. ASSUME NEW q \in Db \cup {Payment}, AbortAnswers(t, q) PROVE Goal
  <2>1. OP!AbortAnswered(t, q)
    BY <1>6, OrderSame DEF AbortAnswers
  <2>2. QED
    BY <1>0, <2>1 DEF OP!AbortAnswered
<1>7. QED
  BY <1>2, <1>3, <1>4, <1>5, <1>6 DEF OrderMoves

\* What is proved of the payment service.
PaymentFine == PP!Typed /\ PP!Booked /\ PP!Told /\ PP!Aborts

\* What a handler of payment changes is about one transaction.
LEMMA PaymentHandlerIsLocal ==
  ASSUME PP!Typed, NEW r \in PP!Request,
         \/ r \in {"prepare"} \X Tx
            /\ PP!PrepareCkTx(r, Cost[[q \in {"prepare", "abort"} \X Tx |-> q[2]][r]])
         \/ PP!HGetAll(r) \/ PP!SetAborted(r) \/ PP!AbtThenRollback(r)
  PROVE  /\ \A x \in Tx \ {[q \in {"prepare", "abort"} \X Tx |-> q[2]][r]} : pState'[x] = pState[x]
         /\ \A s \in PP!Request \ {r} : pPc'[s] = pPc[s]
BY PaymentAssumed, PP!Local

\* So what a step of payment changes is about one transaction.
LEMMA PaymentMovesAreLocal ==
  ASSUME PaymentFine, NEW t \in Tx, PaymentMoves(t),
         OrderFine, Priced, NEW u \in Tx \ {t}
  PROVE  /\ pPc'[PayPrp(u)] = pPc[PayPrp(u)] /\ pPc'[PayAbt(u)] = pPc[PayAbt(u)]
         /\ pState'[u] = pState[u]
<1>0. PP!Typed
  BY DEF PaymentFine
<1>1. /\ PayPrp(u) \in PP!Request /\ PayAbt(u) \in PP!Request
      /\ PayPrp(t) \in PP!Request /\ PayAbt(t) \in PP!Request
      /\ PayPrp(t) \in {"prepare"} \X Tx
      /\ [q \in {"prepare", "abort"} \X Tx |-> q[2]][PayPrp(t)] = t
      /\ [q \in {"prepare", "abort"} \X Tx |-> q[2]][PayAbt(t)] = t
  BY PaymentRequests
<1>2. {PayPrp(u), PayAbt(u)} \cap {PayPrp(t), PayAbt(t)} = {}
  BY DEF PayPrp, PayAbt
<1>3. CASE PaymentCommit(t)
  BY <1>0, <1>1, <1>3, PaymentSame DEF PaymentCommit, PP!CommitCkTx, PP!Typed, PP!TypeOK
<1>4. CASE PaymentPrepare(t)
  <2>1. PP!PrepareCkTx(PayPrp(t), Cost[[q \in {"prepare", "abort"} \X Tx |-> q[2]][PayPrp(t)]])
    BY <1>1, <1>4, FullPrice, PaymentSame DEF PaymentPrepare, PayPrp
  <2>2. /\ \A x \in Tx \ {t} : pState'[x] = pState[x]
        /\ \A s \in PP!Request \ {PayPrp(t)} : pPc'[s] = pPc[s]
    BY <1>0, <1>1, <2>1, PaymentHandlerIsLocal
  <2>3. QED
    BY <1>1, <1>2, <2>2
<1>5. CASE PaymentAbort(t) \/ PaymentStep(t)
  <2>1. PP!HGetAll(PayAbt(t)) \/ PP!SetAborted(PayAbt(t)) \/ PP!AbtThenRollback(PayAbt(t))
    BY <1>5, PaymentSame DEF PaymentAbort, PaymentStep, PayAbt, PP!Proceed
  <2>2. /\ \A x \in Tx \ {t} : pState'[x] = pState[x]
        /\ \A s \in PP!Request \ {PayAbt(t)} : pPc'[s] = pPc[s]
    BY <1>0, <1>1, <2>1, PaymentHandlerIsLocal
  <2>3. QED
    BY <1>1, <1>2, <2>2
<1>6. QED
  BY <1>3, <1>4, <1>5 DEF PaymentMoves

\* The steps of the other parts: they may call, and may learn what payment has said.
LEMMA PaymentLinkedElsewhere ==
  ASSUME StockFine, OrderFine, NEW u \in Tx, PaymentLinked(u), [Next]_vars, UNCHANGED payVars
  PROVE  PaymentLinked(u)'
<1>1. UNCHANGED <<pState, pPc>>
  BY DEF payVars
<1>2. [OP!Next]_(OP!vars)
  BY OrderNext
<1>3. /\ prep[u][Payment] # "none" => prep'[u][Payment] # "none"
      /\ abrt[u][Payment] # "none" => abrt'[u][Payment] # "none"
  BY <1>2, OrderAssumed, NamesSame, OP!CallsStay DEF OrderFine
<1>4. Ord!CommitPosted(u) => Ord!CommitPosted(u)'
  <2>1. OP!CommitPosted(u) => OP!CommitPosted(u)'
    BY <1>2, OrderAssumed, OP!PostedStays DEF OrderFine
  <2>2. OP!CommitPosted(u)' <=> Ord!CommitPosted(u)'
    BY DEF OP!CommitPosted, Ord!CommitPosted, OP!TxAcknowledged, OP!TxCommitted,
           Ord!TxAcknowledged, Ord!TxCommitted
  <2>3. QED
    BY <2>1, <2>2, NamesSame
<1>5. /\ prep'[u][Payment] = "ok" /\ prep[u][Payment] # "ok" => pPc[PayPrp(u)] = "ok"
      /\ ~Lossy /\ abrt'[u][Payment] # "none" /\ abrt[u][Payment] = "none" =>
            pPc[PayPrp(u)] = "rejected"
  <2>1. CASE UNCHANGED <<prep, abrt>>
    BY <2>1
  <2>2. ASSUME NEW t \in Tx, OrderMoves(t)
        PROVE  /\ prep'[u][Payment] = "ok" /\ prep[u][Payment] # "ok" => pPc[PayPrp(u)] = "ok"
               /\ ~Lossy /\ abrt'[u][Payment] # "none" /\ abrt[u][Payment] = "none" =>
                     pPc[PayPrp(u)] = "rejected"
    BY <2>2, AnswersAreTheirs, CheckoutConstants
  <2>3. ASSUME NEW o \in Order, NewOrder(o) PROVE UNCHANGED <<prep, abrt>>
    BY <2>3, OrderSame DEF NewOrder, OP!CreateOrder, OP!callVars
  <2>4. UNCHANGED ordVars => UNCHANGED <<prep, abrt>>
    BY DEF ordVars
  <2>5. QED
    BY <2>1, <2>2, <2>3, <2>4, Moves, MovesAreLocal DEF vars
<1>6. QED
  BY <1>1, <1>3, <1>4, <1>5 DEF PaymentLinked, PayPrp, PayAbt

\* A step of payment about the transaction itself.
LEMMA PaymentLinkedHere ==
  ASSUME PaymentFine, OrderFine, Priced, NEW t \in Tx, PaymentLinked(t), PaymentMoves(t)
  PROVE  PaymentLinked(t)'
<1> DEFINE TxOf == [q \in {"prepare", "abort"} \X Tx |-> q[2]]
<1>0. /\ pPc \in [PP!Request -> {"idle", "setAborted", "rollback", "stopped",
                              "ok", "rejected", "failed"}]
      /\ pState \in [Tx -> PP!TxState \ {PP!TxPreparing}]
  BY DEF PaymentFine, PP!Typed, PP!TypeOK, PP!Answered
<1>1. /\ PayPrp(t) \in PP!Request /\ PayAbt(t) \in PP!Request /\ PayPrp(t) # PayAbt(t)
      /\ TxOf[PayPrp(t)] = t /\ TxOf[PayAbt(t)] = t
  BY PaymentRequests
<1>2. UNCHANGED <<prep, abrt>> /\ (Ord!CommitPosted(t)' <=> Ord!CommitPosted(t))
  BY MovesAreLocal DEF ordVars, Ord!CommitPosted
<1> HIDE DEF TxOf
<1>3. CASE PaymentPrepare(t)
  <2>1. PP!PrepareCkTx(PayPrp(t), price[t]) /\ prep[t][Payment] # "none"
    BY <1>3, PaymentSame DEF PaymentPrepare, PayPrp
  <2>2. pPc[PayPrp(t)] = "idle" /\ pPc'[PayAbt(t)] = pPc[PayAbt(t)]
    BY <1>0, <1>1, <2>1 DEF PP!PrepareCkTx, PP!Goto
  <2>3. pState'[t] # pState[t] => pState'[t] \in {TxAborted, TxAcknowledged}
    BY <1>0, <1>1, <2>1, NamesSame DEF PP!PrepareCkTx, TxOf
  <2>4. pState'[t] = TxCommitted => pState[t] = TxCommitted
    BY <2>3, StatesDiffer
  <2>5. QED
    BY <1>2, <2>1, <2>2, <2>4 DEF PaymentLinked, PayPrp, PayAbt
<1>4. CASE PaymentAbort(t)
  <2>1. PP!HGetAll(PayAbt(t)) /\ abrt[t][Payment] # "none"
    BY <1>4, PaymentSame DEF PaymentAbort, PayAbt
  <2>2. pPc'[PayPrp(t)] = pPc[PayPrp(t)] /\ pState' = pState
    BY <1>0, <1>1, <2>1 DEF PP!HGetAll, PP!Goto
  <2>3. QED
    BY <1>2, <2>1, <2>2 DEF PaymentLinked, PayPrp, PayAbt
<1>5. CASE PaymentStep(t)
  <2>1. PP!SetAborted(PayAbt(t)) \/ PP!AbtThenRollback(PayAbt(t))
    BY <1>5, PaymentSame DEF PaymentStep, PayAbt, PP!Proceed
  <2>2. pPc[PayAbt(t)] # "idle" /\ pPc'[PayPrp(t)] = pPc[PayPrp(t)]
    BY <1>0, <1>1, <2>1 DEF PP!SetAborted, PP!AbtThenRollback, PP!Goto
  <2>3. pState'[t] # pState[t] => pState'[t] = TxAborted
    <3>1. CASE PP!SetAborted(PayAbt(t))
      BY <1>0, <1>1, <3>1, NamesSame DEF PP!SetAborted, TxOf
    <3>2. CASE PP!AbtThenRollback(PayAbt(t))
      BY <1>0, <1>1, <3>2, NamesSame DEF PP!AbtThenRollback, TxOf
    <3>3. QED
      BY <2>1, <3>1, <3>2
  <2>4. pState'[t] = TxCommitted => pState[t] = TxCommitted
    BY <2>3, StatesDiffer
  <2>5. QED
    BY <1>2, <2>2, <2>4 DEF PaymentLinked, PayPrp, PayAbt
<1>6. CASE PaymentCommit(t)
  <2>1. PP!CommitCkTx(t) /\ Ord!CommitPosted(t)
    BY <1>6, PaymentSame DEF PaymentCommit
  <2>2. pPc' = pPc
    BY <2>1 DEF PP!CommitCkTx
  <2>3. QED
    BY <1>2, <2>1, <2>2 DEF PaymentLinked, PayPrp, PayAbt
<1>7. QED
  BY <1>3, <1>4, <1>5, <1>6 DEF PaymentMoves

\* So the link holds after every step.
LEMMA PaymentLinksStep ==
  ASSUME StockFine, OrderFine, Priced, PaymentFine, PaymentLinks, [Next]_vars
  PROVE  PaymentLinks'
<1>1. SUFFICES ASSUME NEW u \in Tx PROVE PaymentLinked(u)'
  BY DEF PaymentLinks
<1>2. PaymentLinked(u)
  BY DEF PaymentLinks
<1>3. CASE UNCHANGED payVars
  BY <1>2, <1>3, PaymentLinkedElsewhere
<1>4. ASSUME NEW t \in Tx, PaymentMoves(t) PROVE PaymentLinked(u)'
  <2>1. CASE t = u
    BY <1>2, <1>4, <2>1, PaymentLinkedHere
  <2>2. CASE t # u
    <3>1. /\ pPc'[PayPrp(u)] = pPc[PayPrp(u)] /\ pPc'[PayAbt(u)] = pPc[PayAbt(u)]
          /\ pState'[u] = pState[u]
      BY <1>4, <2>2, PaymentMovesAreLocal
    <3>2. UNCHANGED <<prep, abrt>> /\ (Ord!CommitPosted(u)' <=> Ord!CommitPosted(u))
      BY <1>4, MovesAreLocal DEF ordVars, Ord!CommitPosted
    <3>3. QED
      BY <1>2, <3>1, <3>2 DEF PaymentLinked, PayPrp, PayAbt
  <2>3. QED
    BY <2>1, <2>2
<1>5. QED
  BY <1>3, <1>4, Moves, MovesAreLocal DEF vars

\* Of the stock service it knows the same: the handlers of a record have been
\* called, it has said yes if the coordinator thinks so, and is committed only
\* if it may be.
StockLinked(t, d) ==
  /\ sPc[Prp(t, d)] # "idle" => prep[t][d] # "none"
  /\ sPc[Abt(t, d)] # "idle" => abrt[t][d] # "none"
  /\ prep[t][d] = "ok" => sPc[Prp(t, d)] = "ok"
  /\ sState[<<t, d>>] = TxCommitted => Ord!CommitPosted(t)

StockLinks == \A t \in Tx, d \in Db : StockLinked(t, d)

\* A handler's step in the stock service is about one record and no other
\* handler; if it has answered it takes none, and it does not commit.
LEMMA StockHandler ==
  ASSUME StockFine, NEW r \in SP!Request, SP!Step(r),
         NEW td, td = [q \in {"prepare", "abort"} \X (Tx \X Db) |-> q[2]][r]
  PROVE  /\ \A x \in (Tx \X Db) \ {td} : sState'[x] = sState[x]
         /\ \A s \in SP!Request \ {r} : sPc'[s] = sPc[s]
         /\ sPc[r] \notin SP!Answered
         /\ sState'[td] = TxCommitted => sState[td] = TxCommitted
<1>1. SP!Typed
  BY DEF StockFine
<1>2. /\ \A u \in (Tx \X Db) \ {[q \in {"prepare", "abort"} \X (Tx \X Db) |-> q[2]][r]} : SP!Untouched(u)
      /\ \A s \in SP!Request \ {r} : sPc'[s] = sPc[s]
  BY <1>1, StockAssumed, SP!StepIsLocal
<1>3. /\ sPc[r] \notin SP!Answered
      /\ sState'[td] = SP!TxCommitted => sState[td] = SP!TxCommitted
  BY <1>1, StockAssumed, SP!StepIsAwake
<1>4. \A x \in (Tx \X Db) \ {td} : sState'[x] = sState[x]
  BY <1>2 DEF SP!Untouched
<1>5. QED
  BY <1>2, <1>3, <1>4, NamesSame

\* The steps about one record leave the others and their handlers alone.
LEMMA StockMovesAreLocal ==
  ASSUME StockFine, NEW t \in Tx, NEW d \in Db, StockMoves(t, d),
         NEW u \in Tx, NEW e \in Db, <<u, e>> # <<t, d>>
  PROVE  /\ sState'[<<u, e>>] = sState[<<u, e>>]
         /\ sPc'[Prp(u, e)] = sPc[Prp(u, e)] /\ sPc'[Abt(u, e)] = sPc[Abt(u, e)]
<1>1. /\ Prp(u, e) \in SP!Request /\ Abt(u, e) \in SP!Request
      /\ Prp(t, d) \in SP!Request /\ Abt(t, d) \in SP!Request
      /\ [q \in {"prepare", "abort"} \X (Tx \X Db) |-> q[2]][Prp(t, d)] = <<t, d>>
      /\ [q \in {"prepare", "abort"} \X (Tx \X Db) |-> q[2]][Abt(t, d)] = <<t, d>>
  BY StockRequests
<1>2. {Prp(u, e), Abt(u, e)} \cap {Prp(t, d), Abt(t, d)} = {}
  BY DEF Prp, Abt
<1>3. <<u, e>> \in (Tx \X Db) \ {<<t, d>>}
  OBVIOUS
<1>4. CASE SP!CommitCkTx(<<t, d>>)
  BY <1>3, <1>4 DEF SP!CommitCkTx, SP!reqVars, StockFine, SP!Typed, SP!TypeOK
<1>5. ASSUME NEW r \in {Prp(t, d), Abt(t, d)}, SP!Step(r)
      PROVE  /\ \A x \in (Tx \X Db) \ {<<t, d>>} : sState'[x] = sState[x]
             /\ \A s \in SP!Request \ {r} : sPc'[s] = sPc[s]
  BY <1>1, <1>5, StockHandler
<1>6. QED
  BY <1>1, <1>2, <1>3, <1>4, <1>5, StockMovesAs

\* The steps of the other parts: they may call, and may learn what stock has said.
LEMMA StockLinkedElsewhere ==
  ASSUME StockFine, OrderFine, NEW u \in Tx, NEW e \in Db, StockLinked(u, e), [Next]_vars,
         UNCHANGED stockVars
  PROVE  StockLinked(u, e)'
<1>1. UNCHANGED <<sState, sPc>>
  BY DEF stockVars
<1>2. [OP!Next]_(OP!vars)
  BY OrderNext
<1>3. /\ prep[u][e] # "none" => prep'[u][e] # "none"
      /\ abrt[u][e] # "none" => abrt'[u][e] # "none"
  BY <1>2, OrderAssumed, NamesSame, OP!CallsStay DEF OrderFine
<1>4. Ord!CommitPosted(u) => Ord!CommitPosted(u)'
  <2>1. OP!CommitPosted(u) => OP!CommitPosted(u)'
    BY <1>2, OrderAssumed, OP!PostedStays DEF OrderFine
  <2>2. OP!CommitPosted(u)' <=> Ord!CommitPosted(u)'
    BY DEF OP!CommitPosted, Ord!CommitPosted, OP!TxAcknowledged, OP!TxCommitted,
           Ord!TxAcknowledged, Ord!TxCommitted
  <2>3. QED
    BY <2>1, <2>2, NamesSame
<1>5. prep'[u][e] = "ok" /\ prep[u][e] # "ok" => sPc[Prp(u, e)] = "ok"
  <2>1. CASE UNCHANGED <<prep, abrt>>
    BY <2>1
  <2>2. ASSUME NEW t \in Tx, OrderMoves(t)
        PROVE  prep'[u][e] = "ok" /\ prep[u][e] # "ok" => sPc[Prp(u, e)] = "ok"
    BY <2>2, AnswersAreTheirs, CheckoutConstants
  <2>3. ASSUME NEW o \in Order, NewOrder(o) PROVE UNCHANGED <<prep, abrt>>
    BY <2>3, OrderSame DEF NewOrder, OP!CreateOrder, OP!callVars
  <2>4. UNCHANGED ordVars => UNCHANGED <<prep, abrt>>
    BY DEF ordVars
  <2>5. QED
    BY <2>1, <2>2, <2>3, <2>4, Moves, MovesAreLocal DEF vars
<1>6. QED
  BY <1>1, <1>3, <1>4, <1>5 DEF StockLinked, Prp, Abt

\* A step about the record itself.
LEMMA StockLinkedHere ==
  ASSUME StockFine, NEW t \in Tx, NEW d \in Db, StockLinked(t, d), StockMoves(t, d)
  PROVE  StockLinked(t, d)'
<1>1. /\ Prp(t, d) \in SP!Request /\ Abt(t, d) \in SP!Request /\ Prp(t, d) # Abt(t, d)
      /\ [q \in {"prepare", "abort"} \X (Tx \X Db) |-> q[2]][Prp(t, d)] = <<t, d>>
      /\ [q \in {"prepare", "abort"} \X (Tx \X Db) |-> q[2]][Abt(t, d)] = <<t, d>>
  BY StockRequests DEF Prp, Abt
<1>2. UNCHANGED <<prep, abrt>> /\ (Ord!CommitPosted(t)' <=> Ord!CommitPosted(t))
  BY MovesAreLocal DEF ordVars, Ord!CommitPosted
<1>3. CASE StockCommit(t, d)
  <2>1. SP!CommitCkTx(<<t, d>>) /\ Ord!CommitPosted(t)
    BY <1>3, StockSame DEF StockCommit
  <2>2. sPc' = sPc
    BY <2>1 DEF SP!CommitCkTx, SP!reqVars
  <2>3. QED
    BY <1>2, <2>1, <2>2 DEF StockLinked, Prp, Abt
<1>4. ASSUME SP!Step(Prp(t, d)), prep[t][d] # "none" PROVE StockLinked(t, d)'
  <2>1. /\ sPc'[Abt(t, d)] = sPc[Abt(t, d)] /\ sPc[Prp(t, d)] \notin SP!Answered
        /\ sState'[<<t, d>>] = TxCommitted => sState[<<t, d>>] = TxCommitted
    BY <1>1, <1>4, StockHandler
  <2>2. sPc[Prp(t, d)] # "ok"
    BY <2>1 DEF SP!Answered
  <2>3. QED
    BY <1>2, <1>4, <2>1, <2>2 DEF StockLinked, Prp, Abt
<1>5. ASSUME SP!Step(Abt(t, d)), abrt[t][d] # "none" PROVE StockLinked(t, d)'
  <2>1. /\ sPc'[Prp(t, d)] = sPc[Prp(t, d)]
        /\ sState'[<<t, d>>] = TxCommitted => sState[<<t, d>>] = TxCommitted
    BY <1>1, <1>5, StockHandler
  <2>2. QED
    BY <1>2, <1>5, <2>1 DEF StockLinked, Prp, Abt
<1>6. ASSUME NEW r \in {Prp(t, d), Abt(t, d)}, StockStep(r) PROVE SP!Step(r) /\ sPc[r] # "idle"
  <2>1. SP!Proceed(r)
    BY <1>6, StockSame DEF StockStep
  <2>2. r \in {"prepare"} \X (Tx \X Db) => r \notin {"abort"} \X (Tx \X Db)
    OBVIOUS
  <2>3. QED
    BY <2>1, <2>2 DEF SP!Step, SP!Proceed, SP!WaitPrepared, SP!ReadPrice, SP!AcknowledgeCkTx, SP!AbortCkTx,
                      SP!PrepareCkTxMove, SP!HScan, SP!AbortCkTxRollback, SP!InPage
<1>7. CASE StockPrepare(t, d)
  BY <1>4, <1>7, StockSame, StockRequests DEF StockPrepare, SP!Step, Prp
<1>8. CASE StockAbort(t, d)
  BY <1>5, <1>8, StockSame, StockRequests DEF StockAbort, SP!Step, Abt
<1>9. CASE StockStep(Prp(t, d))
  BY <1>4, <1>6, <1>9 DEF StockLinked
<1>10. CASE StockStep(Abt(t, d))
  BY <1>5, <1>6, <1>10 DEF StockLinked
<1>11. QED
  BY <1>3, <1>7, <1>8, <1>9, <1>10 DEF StockMoves, Prp, Abt

\* So this link, too, holds after every step.
LEMMA StockLinksStep ==
  ASSUME StockFine, OrderFine, StockLinks, [Next]_vars PROVE StockLinks'
<1>1. SUFFICES ASSUME NEW u \in Tx, NEW e \in Db PROVE StockLinked(u, e)'
  BY DEF StockLinks
<1>2. StockLinked(u, e)
  BY DEF StockLinks
<1>3. CASE UNCHANGED stockVars
  BY <1>2, <1>3, StockLinkedElsewhere
<1>4. ASSUME NEW t \in Tx, NEW d \in Db, StockMoves(t, d) PROVE StockLinked(u, e)'
  <2>1. CASE t = u /\ d = e
    BY <1>2, <1>4, <2>1, StockLinkedHere
  <2>2. CASE ~(t = u /\ d = e)
    <3>1. <<u, e>> # <<t, d>>
      BY <2>2
    <3>2. /\ sState'[<<u, e>>] = sState[<<u, e>>]
          /\ sPc'[Prp(u, e)] = sPc[Prp(u, e)] /\ sPc'[Abt(u, e)] = sPc[Abt(u, e)]
      BY <1>4, <3>1, StockMovesAreLocal
    <3>3. UNCHANGED <<prep, abrt>> /\ (Ord!CommitPosted(u)' <=> Ord!CommitPosted(u))
      BY <1>4, MovesAreLocal DEF ordVars, Ord!CommitPosted
    <3>4. QED
      BY <1>2, <3>2, <3>3 DEF StockLinked, Prp, Abt
  <2>3. QED
    BY <2>1, <2>2
<1>5. QED
  BY <1>3, <1>4, Moves, MovesAreLocal DEF vars

-----------------------------------------------------------------------------
(* The price of a checkout                                                 *)

\* The price does not change unless a database says yes.
LEMMA PricedQuiet ==
  ASSUME Priced, price' = price,
         \A u \in Tx : \A e \in DbsOf[u] : prep'[u][e] = "ok" <=> prep[u][e] = "ok"
  PROVE  Priced'
<1>1. ASSUME NEW u \in Tx PROVE CostSoFar(u)' = CostSoFar(u)
  <2>1. [e \in DbsOf[u] |-> IF prep'[u][e] = "ok" THEN CostAt(u, e) ELSE 0]
          = [e \in DbsOf[u] |-> IF prep[u][e] = "ok" THEN CostAt(u, e) ELSE 0]
    OBVIOUS
  <2>2. QED
    BY <2>1 DEF CostSoFar
<1>2. QED
  BY <1>1 DEF Priced

\* A database that says yes adds its price.
LEMMA PricedAccepts ==
  ASSUME OrderFine, Priced, NEW t \in Tx, NEW d \in DbsOf[t],
         OP!StockAccepts(t, d, CostAt(t, d))
  PROVE  Priced'
<1>0. /\ prep \in [Tx -> [Db \cup {Payment} -> {"none", "sent", "ok", "err"}]]
      /\ price \in [Tx -> Nat] /\ DbsOf[t] \subseteq Db /\ d \in Db
  BY NamesSame, DbsOfType DEF OrderFine, OP!TypeOK
<1>1. /\ prep[t][d] = "sent" /\ prep' = [prep EXCEPT ![t][d] = "ok"]
      /\ price' = [price EXCEPT ![t] = @ + CostAt(t, d)]
  BY DEF OP!StockAccepts
<1>2. ASSUME NEW u \in Tx, u # t PROVE price'[u] = CostSoFar(u)'
  <2>1. prep'[u] = prep[u] /\ price'[u] = price[u]
    BY <1>0, <1>1, <1>2
  <2>2. CostSoFar(u)' = CostSoFar(u)
    BY <2>1 DEF CostSoFar
  <2>3. QED
    BY <2>1, <2>2 DEF Priced
<1>3. price'[t] = CostSoFar(t)'
  <2> DEFINE f == [e \in DbsOf[t] |-> IF prep[t][e] = "ok" THEN CostAt(t, e) ELSE 0]
             g == [e \in DbsOf[t] |-> IF prep'[t][e] = "ok" THEN CostAt(t, e) ELSE 0]
  <2>1. \A e \in DbsOf[t] : CostAt(t, e) \in Nat
    BY <1>0, CostAtType
  <2>2. f \in [DbsOf[t] -> Nat] /\ g \in [DbsOf[t] -> Nat]
    BY <2>1
  <2>3. f[d] = 0 /\ g[d] = CostAt(t, d) /\ \A e \in DbsOf[t] \ {d} : g[e] = f[e]
    BY <1>0, <1>1
  <2>4. IsFiniteSet(DbsOf[t])
    BY <1>0, CheckoutFinite, FS_Subset
  <2>5. SumFunction(g) = SumFunction(f) + CostAt(t, d)
    <3> HIDE DEF f, g
    <3>1. QED
      BY <2>2, <2>3, <2>4, SumOneMore
  <2>6. CostSoFar(t) = SumFunction(f) /\ CostSoFar(t)' = SumFunction(g)
    BY DEF CostSoFar
  <2>7. price'[t] = price[t] + CostAt(t, d)
    BY <1>0, <1>1
  <2>8. price[t] = SumFunction(f)
    BY <2>6 DEF Priced
  <2>9. QED
    BY <2>5, <2>6, <2>7, <2>8
<1>4. QED
  BY <1>2, <1>3 DEF Priced

\* Every step keeps the price right.
LEMMA PricedStep ==
  ASSUME StockFine, OrderFine, Priced, [Next]_vars PROVE Priced'
<1>0. /\ prep \in [Tx -> [Db \cup {Payment} -> {"none", "sent", "ok", "err"}]]
      /\ \A u \in Tx : DbsOf[u] \subseteq Db
      /\ Payment \notin Db
  BY NamesSame, DbsOfType, CheckoutConstants DEF OrderFine, OP!TypeOK
<1>1. CASE UNCHANGED <<prep, price>>
  BY <1>1, PricedQuiet
<1>2. ASSUME NEW o \in Order, NewOrder(o) PROVE UNCHANGED <<prep, price>>
  BY <1>2, OrderSame DEF NewOrder, OP!CreateOrder, OP!callVars
<1>3. ASSUME NEW t \in Tx, OrderMoves(t) PROVE Priced'
  <2>1. CASE Checkout(t)
    BY <1>1, <2>1, OrderSame DEF Checkout, OP!PrepareCkTx, OP!callVars
  <2>2. CASE CoordinatorStep(t)
    <3>1. OP!Proceed(t)
      BY <2>2, OrderSame DEF CoordinatorStep
    <3>2. CASE OP!AbortCkTx(t) \/ OP!AcknowledgeCkTx(t) \/ OP!CommitCkTx(t)
      BY <1>1, <3>2 DEF OP!AbortCkTx, OP!AcknowledgeCkTx, OP!CommitCkTx, OP!callVars
    <3>3. CASE OP!StockRefused(t) \/ OP!PaymentAborted(t)
      BY <1>1, <3>3 DEF OP!StockRefused, OP!PaymentAborted
    <3>4. CASE OP!StockPrepared(t)
      <4>1. price' = price /\ prep' = [prep EXCEPT ![t][Payment] = "sent"]
        BY <3>4 DEF OP!StockPrepared
      <4>2. QED
        BY <1>0, <4>1, PricedQuiet
    <3>5. ASSUME NEW d \in DbsOf[t], OP!PostPrepare(t, d) PROVE Priced'
      <4>1. price' = price /\ prep[t][d] = "none" /\ prep' = [prep EXCEPT ![t][d] = "sent"]
        BY <3>5 DEF OP!PostPrepare
      <4>2. QED
        BY <1>0, <4>1, PricedQuiet
    <3>6. QED
      BY <3>1, <3>2, <3>3, <3>4, <3>5 DEF OP!Proceed
  <2>3. CASE PaymentAnswers(t)
    <3>1. PICK answer : price' = price /\ prep' = [prep EXCEPT ![t][Payment] = answer]
      BY <2>3, OrderSame DEF PaymentAnswers, OP!PaymentAccepts, OP!PaymentRefuses
    <3>2. QED
      BY <1>0, <3>1, PricedQuiet
  <2>4. ASSUME NEW d \in Db, StockAnswers(t, d) PROVE Priced'
    <3>1. CASE OP!StockRefuses(t, d)
      <4>1. price' = price /\ prep[t][d] = "sent" /\ prep' = [prep EXCEPT ![t][d] = "err"]
        BY <3>1 DEF OP!StockRefuses
      <4>2. QED
        BY <1>0, <4>1, PricedQuiet
    <3>2. CASE sPc[Prp(t, d)] = "ok" /\ OP!StockAccepts(t, d, quote[Prp(t, d)])
      <4>1. d \in DbsOf[t]
        BY <3>2, CalledIsParticipant DEF OP!StockAccepts
      <4>2. quote[Prp(t, d)] = CostAt(t, d)
        BY <3>2, QuoteIsCostAt
      <4>3. OP!StockAccepts(t, d, CostAt(t, d))
        BY <3>2, <4>2
      <4>4. QED
        BY <4>1, <4>3, PricedAccepts
    <3>3. QED
      BY <2>4, <3>1, <3>2, OrderSame DEF StockAnswers, Prp
  <2>5. ASSUME NEW p \in Db \cup {Payment}, AbortAnswers(t, p) PROVE Priced'
    BY <1>1, <2>5, OrderSame DEF AbortAnswers, OP!AbortAnswered
  <2>6. QED
    BY <1>3, <2>1, <2>2, <2>3, <2>4, <2>5 DEF OrderMoves
<1>4. UNCHANGED ordVars => UNCHANGED <<prep, price>>
  BY DEF ordVars
<1>5. QED
  BY <1>1, <1>2, <1>3, <1>4, Moves, MovesAreLocal DEF vars

-----------------------------------------------------------------------------
(* All of it together                                                      *)

\* What is proved of the payment service stays true in the system.
LEMMA PaymentFineStep ==
  ASSUME OrderFine, Priced, PaymentLinks, PaymentFine, [Next]_vars PROVE PaymentFine'
<1>1. [PP!Next]_(PP!vars)
  BY PaymentNext
<1>2. PP!Typed /\ PP!Booked /\ PP!Told /\ PP!Aborts
  BY DEF PaymentFine
<1>3. PP!Typed' /\ PP!Booked' /\ PP!Told' /\ PP!Aborts'
  BY <1>1, <1>2, PaymentAssumed, PP!TypedStep, PP!BookedStep, PP!ToldStep, PP!AbortsStep
<1>4. QED
  BY <1>3 DEF PaymentFine

\* And so it is at the start.
LEMMA PaymentFineInit == Init => PaymentFine
<1>1. Init => PP!Init
  BY PaymentSame DEF Init
<1>2. QED
  BY <1>1, PaymentAssumed, PP!TypedInit, PP!BookedInit, PP!ToldInit, PP!AbortsInit DEF PaymentFine

\* At the start nothing is asked, so nothing costs anything.
LEMMA PricedInit == Init => Priced
<1>1. SUFFICES ASSUME Init, NEW t \in Tx PROVE price[t] = CostSoFar(t)
  BY DEF Priced
<1> DEFINE f == [d \in DbsOf[t] |-> IF prep[t][d] = "ok" THEN CostAt(t, d) ELSE 0]
<1>2. DbsOf[t] \subseteq Db /\ IsFiniteSet(DbsOf[t])
  BY DbsOfType, CheckoutFinite, FS_Subset
<1>3. price[t] = 0 /\ \A d \in Db : prep[t][d] = "none"
  BY <1>1 DEF Init, Ord!Init, Ord!Participant
<1>4. \A d \in DbsOf[t] : f[d] = 0
  BY <1>2, <1>3
<1>5. SumFunctionOnSet(f, DbsOf[t]) = 0
  <2> HIDE DEF f
  <2>1. QED
    BY <1>2, <1>4, SumZero
<1>6. SumFunction(f) = SumFunctionOnSet(f, DbsOf[t])
  BY DEF SumFunction
<1>7. QED
  BY <1>3, <1>5, <1>6 DEF CostSoFar

\* And nobody knows anything of anybody.
LEMMA LinksInit == Init => PaymentLinks /\ StockLinks
<1>1. SUFFICES ASSUME Init PROVE PaymentLinks /\ StockLinks
  OBVIOUS
<1>2. \A t \in Tx, p \in Db \cup {Payment} : prep[t][p] = "none" /\ abrt[t][p] = "none"
  BY <1>1 DEF Init, Ord!Init, Ord!Participant
<1>3. \A t \in Tx : /\ pPc[PayPrp(t)] = "idle" /\ pPc[PayAbt(t)] = "idle"
                    /\ pState[t] # TxCommitted
  <2>1. PP!Init
    BY <1>1, PaymentSame DEF Init
  <2>2. /\ pState = [t \in Tx |-> TxNone]
        /\ pPc = [r \in PP!Request |-> "idle"]
    BY <2>1, NamesSame DEF PP!Init
  <2>3. QED
    BY <2>2, PaymentRequests, StatesDiffer
<1>4. \A t \in Tx, d \in Db : /\ sPc[Prp(t, d)] = "idle" /\ sPc[Abt(t, d)] = "idle"
                              /\ sState[<<t, d>>] # TxCommitted
  <2>1. SP!Init
    BY <1>1, StockSame DEF Init
  <2>2. /\ sState = [td \in Tx \X Db |-> TxNone]
        /\ sPc = [r \in SP!Request |-> "idle"]
    BY <2>1, NamesSame DEF SP!Init
  <2>3. QED
    BY <2>2, StockRequests, StatesDiffer
<1>5. PaymentLinks
  BY <1>2, <1>3 DEF PaymentLinks, PaymentLinked
<1>6. StockLinks
  BY <1>2, <1>4 DEF StockLinks, StockLinked
<1>7. QED
  BY <1>5, <1>6

\* The invariant of the system: each part keeps what is proved of it alone, and
\* the coordinator knows of the participants what is true of them.
Fine == StockFine /\ OrderFine /\ PaymentFine /\ Priced /\ PaymentLinks /\ StockLinks

\* The invariant holds in every state.
LEMMA IsFine == Spec => []Fine
<1>1. Init => OrderFine /\ PaymentFine /\ Priced /\ PaymentLinks /\ StockLinks
  BY OrderFineInit, PaymentFineInit, PricedInit, LinksInit
<1>2. Fine /\ [Next]_vars
        => OrderFine' /\ PaymentFine' /\ Priced' /\ PaymentLinks' /\ StockLinks'
  BY OrderFineStep, PaymentFineStep, PricedStep, PaymentLinksStep, StockLinksStep
  DEF Fine
<1>3. QED
  BY <1>1, <1>2, StockIsFine, PTL DEF Spec, Fine

-----------------------------------------------------------------------------
(* The parts do in the system what they do alone                           *)

\* The sums of a part and of the instance its proofs are about are the same.
LEMMA SumsSame ==
  /\ SP!StockConserved <=> Stock!StockConserved
  /\ PP!FundsConserved <=> Pay!FundsConserved
<1>1. /\ \A f : SP!SumFunction(f) = SumFunction(f) /\ PP!SumFunction(f) = SumFunction(f)
      /\ \A f : Stock!SumFunction(f) = SumFunction(f) /\ Pay!SumFunction(f) = SumFunction(f)
  BY DEF SumFunction, SumFunctionOnSet, FoldFunctionOnSet, MapThenFoldSet,
         SP!SumFunction, SP!SumFunctionOnSet, SP!FoldFunctionOnSet, SP!MapThenFoldSet,
         PP!SumFunction, PP!SumFunctionOnSet, PP!FoldFunctionOnSet, PP!MapThenFoldSet,
         Stock!SumFunction, Stock!SumFunctionOnSet, Stock!FoldFunctionOnSet, Stock!MapThenFoldSet,
         Pay!SumFunction, Pay!SumFunctionOnSet, Pay!FoldFunctionOnSet, Pay!MapThenFoldSet
<1>2. \A i \in Item : SP!HeldOf(i) = Stock!HeldOf(i) /\ SP!SoldOf(i) = Stock!SoldOf(i)
  BY <1>1 DEF SP!HeldOf, Stock!HeldOf, SP!SoldOf, Stock!SoldOf, SP!TxCommitted, Stock!TxCommitted
<1>3. \A u \in User : PP!HeldOf(u) = Pay!HeldOf(u) /\ PP!PaidBy(u) = Pay!PaidBy(u)
  BY <1>1 DEF PP!HeldOf, Pay!HeldOf, PP!PaidBy, Pay!PaidBy, PP!TxCommitted, Pay!TxCommitted,
              PP!NoHold, Pay!NoHold
<1>4. QED
  BY <1>2, <1>3 DEF SP!StockConserved, Stock!StockConserved, PP!FundsConserved, Pay!FundsConserved

\* Payment is charged the price of the cart, and told to commit or to abort, never
\* both, whatever calls are lost and wherever handlers stop.
THEOREM UsedAsPromised == Spec => PaymentUsedAsPromised
<1>1. Init => Pay!Init
  BY DEF Init
<1>2. Fine /\ [Next]_vars => [PP!Next]_(PP!vars)
  BY PaymentNext DEF Fine
<1>3. [PP!Next]_(PP!vars) => [Pay!Next]_(Pay!vars)
  <2>1. ASSUME PP!Next PROVE Pay!Next
    <3>1. ASSUME NEW u \in User, PP!CreateUser(u) PROVE Pay!Next
      BY <3>1 DEF PP!CreateUser, Pay!CreateUser, Pay!Next
    <3>2. ASSUME NEW r \in {"prepare"} \X Tx, PP!MayPrepare(r),
                 PP!PrepareCkTx(r, Cost[[q \in {"prepare", "abort"} \X Tx |-> q[2]][r]])
          PROVE  Pay!Next
      BY <3>2, PaymentSame DEF Pay!Next
    <3>3. ASSUME NEW r \in {"abort"} \X Tx, (PP!MayAbort(r) /\ PP!HGetAll(r)) \/ PP!Proceed(r)
          PROVE  Pay!Next
      BY <3>3, PaymentSame DEF Pay!Next
    <3>4. ASSUME NEW t \in Tx, PP!MayCommit(t), PP!CommitCkTx(t) PROVE Pay!Next
      BY <3>4, PaymentSame DEF Pay!Next
    <3>5. \A r : ~PP!Fail(r)
      BY DEF PP!Fail
    <3>6. QED
      BY <2>1, <3>1, <3>2, <3>3, <3>4, <3>5 DEF PP!Next
  <2>2. UNCHANGED PP!vars => UNCHANGED Pay!vars
    BY DEF PP!vars, PP!userVars, Pay!vars, Pay!userVars
  <2>3. QED
    BY <2>1, <2>2
<1>4. QED
  BY <1>1, <1>2, <1>3, IsFine, PTL DEF Spec, Pay!Spec, PaymentUsedAsPromised

\* In the whole system no unit of an item is lost or made, and no money either:
\* it is on the shelf (the user's credit), held by a record or taken by a commit.
THEOREM NothingIsLost == Spec => [](Stock!StockConserved /\ Pay!FundsConserved)
<1>1. SP!Spec => []SP!StockConserved
  BY StockAssumed, SP!Conserved
<1>2. PP!Spec => []PP!FundsConserved
  BY PaymentAssumed, PP!Conserved
<1>3. Init => PP!Init
  BY PaymentSame DEF Init
<1>4. Fine /\ [Next]_vars => [PP!Next]_(PP!vars)
  BY PaymentNext DEF Fine
<1>5. QED
  BY <1>1, <1>2, <1>3, <1>4, StockServes, IsFine, SumsSame, PTL DEF Spec, PP!Spec

-----------------------------------------------------------------------------
(* What everybody has taken once the coordinator has decided to commit     *)

\* Payment has said yes and no abort has come: it holds the price, or has it.
LEMMA PostedPayment ==
  ASSUME Fine, NEW t \in Tx, Ord!CommitPosted(t)
  PROVE  /\ pState[t] \in {TxAcknowledged, TxCommitted}
         /\ pState[t] = TxAcknowledged => held[t] = Cost[t]
         /\ pPc[PayPrp(t)] = "ok" /\ pPc[PayAbt(t)] = "idle"
<1>1. prep[t][Payment] = "ok" /\ abrt[t][Payment] = "none"
  BY PaymentTakesPart, PostedIsUnanimous DEF Fine
<1>2. pPc[PayPrp(t)] = "ok" /\ pPc[PayAbt(t)] = "idle"
  BY <1>1 DEF Fine, PaymentLinks, PaymentLinked
<1>3. PP!ToldAt(t) /\ PP!BookedAt(t)
  BY DEF Fine, PaymentFine, PP!Told, PP!Booked
<1>4. ~PP!AbortArrived(t)
  BY <1>2, PaymentAbortArrived
<1>5. pState[t] \in {TxAcknowledged, TxCommitted}
  BY <1>2, <1>3, <1>4, PaymentRequests, NamesSame DEF PP!ToldAt
<1>6. QED
  BY <1>2, <1>3, <1>5, NamesSame DEF PP!BookedAt

\* So has every database of the cart: it holds what the cart names, or has sold it.
LEMMA PostedStock ==
  ASSUME Fine, NEW t \in Tx, Ord!CommitPosted(t), NEW d \in DbsOf[t]
  PROVE  /\ d \in Db
         /\ sState[<<t, d>>] \in {TxAcknowledged, TxCommitted}
         /\ sState[<<t, d>>] = TxAcknowledged => locked[<<t, d>>] = Amount[<<t, d>>]
         /\ sPc[Prp(t, d)] = "ok" /\ sPc[Abt(t, d)] = "idle"
<1>0. d \in Db
  BY DbsOfType
<1>1. prep[t][d] = "ok" /\ abrt[t][d] = "none"
  <2>1. d \in OP!Participants(t)
    BY DEF OP!Participants, Ord!CommitPosted
  <2>2. QED
    BY <2>1, PostedIsUnanimous DEF Fine
<1>2. sPc[Prp(t, d)] = "ok" /\ sPc[Abt(t, d)] = "idle"
  BY <1>0, <1>1 DEF Fine, StockLinks, StockLinked
<1>3. SP!Told(Prp(t, d))
  <2>1. SP!AgreeingAt(<<t, d>>)
    BY <1>0 DEF Fine, StockFine, SP!Agreeing
  <2>2. QED
    BY <1>0, <2>1, StockRequests DEF SP!AgreeingAt
<1>4. ~SP!AbortArrived(<<t, d>>)
  <2>1. ASSUME NEW a \in {"abort"} \X (Tx \X Db),
               [r \in {"prepare", "abort"} \X (Tx \X Db) |-> r[2]][a] = <<t, d>>
        PROVE  a = Abt(t, d)
    BY <2>1 DEF Abt
  <2>2. QED
    BY <1>2, <2>1 DEF SP!AbortArrived
<1>5. sState[<<t, d>>] \in {TxAcknowledged, TxCommitted}
  BY <1>0, <1>2, <1>3, <1>4, StockRequests, NamesSame DEF SP!Told
<1>6. sState[<<t, d>>] = TxAcknowledged => locked[<<t, d>>] = Amount[<<t, d>>]
  BY <1>0, NamesSame DEF Fine, StockFine, SP!Holding, SP!Holds, SP!AcknowledgedHoldsCart
<1>7. QED
  BY <1>0, <1>2, <1>5, <1>6

\* What a paid order names is taken in full and paid in full, by everybody: the
\* commit calls find what the prepare calls have taken.
THEOREM PaidInFull == Spec => []PaidIsTakenInFull
<1>1. Fine => PaidIsTakenInFull
  <2>1. SUFFICES ASSUME Fine, NEW t \in Tx, oState[t] = TxCommitted, t \notin EmptyCart
                 PROVE  /\ pState[t] = TxCommitted
                             \/ (pState[t] = TxAcknowledged /\ held[t] = Cost[t])
                        /\ \A d \in DbsOf[t] :
                             \/ sState[<<t, d>>] = TxCommitted
                             \/ /\ sState[<<t, d>>] = TxAcknowledged
                                /\ locked[<<t, d>>] = Amount[<<t, d>>]
    BY DEF PaidIsTakenInFull
  <2>2. Ord!CommitPosted(t)
    BY <2>1 DEF Ord!CommitPosted, Ord!TxCommitted, TxCommitted
  <2>3. QED
    BY <2>1, <2>2, PostedPayment, PostedStock
<1>2. QED
  BY <1>1, IsFine, PTL

\* Where every call is answered, a transaction that has credit is live or has
\* committed: payment is told to abort only what it has refused, and an order is
\* released only when everybody has been told to abort.
LEMMA ChargedIsLive ==
  ASSUME Fine, ~Lossy, NEW t \in Tx, CreditTaken(t)
  PROVE  OP!LockedBy(t)
<1>1. pState[t] \in {TxAcknowledged, TxCommitted}
  <2>1. held[t] = IF pState[t] = TxAcknowledged THEN Cost[t] ELSE PP!NoHold
    BY NamesSame DEF Fine, PaymentFine, PP!Booked, PP!BookedAt
  <2>2. QED
    BY <2>1, NamesSame DEF CreditTaken
<1>2. pPc[PayPrp(t)] = "ok"
  <2>1. PP!ToldAt(t)
    BY DEF Fine, PaymentFine, PP!Told
  <2>2. PICK r \in {"prepare"} \X Tx :
               [q \in {"prepare", "abort"} \X Tx |-> q[2]][r] = t /\ pPc[r] = "ok"
    BY <1>1, <2>1, NamesSame DEF PP!ToldAt
  <2>3. r = PayPrp(t)
    BY <2>2 DEF PayPrp
  <2>4. QED
    BY <2>2, <2>3
<1>3. prep[t][Payment] # "none" /\ abrt[t][Payment] = "none"
  BY <1>2 DEF Fine, PaymentLinks, PaymentLinked
<1>4. Payment \in OP!Participants(t) /\ oState[t] # TxNone
  BY <1>3, CalledIsParticipant DEF Fine
<1>5. oState[t] # TxAborted
  BY <1>3, <1>4, NamesSame DEF Fine, OrderFine, OP!Phases, OP!Phase, OP!Cancelled
<1>6. oState[t] \in {TxNone, TxPreparing, TxAborted, TxAcknowledged, TxCommitted}
  BY NamesSame DEF Fine, OrderFine, OP!TypeOK, OP!TxState
<1>7. OP!LockedBy(t) <=> oState[t] \in {TxPreparing, TxAcknowledged, TxCommitted}
  BY NamesSame DEF Fine, OrderFine, OP!LockedWhileLive
<1>8. QED
  BY <1>4, <1>5, <1>6, <1>7

\* So no order is ever charged twice, where every call is answered: two that have
\* credit would both have the lock.
THEOREM ChargedOnce == ASSUME ~Lossy PROVE Spec => []NoDoubleCharge
<1>1. Fine => NoDoubleCharge
  <2>1. SUFFICES ASSUME Fine, NEW t \in Tx, NEW u \in Tx, t # u, OrderOf[t] = OrderOf[u],
                        CreditTaken(t), CreditTaken(u)
                 PROVE  FALSE
    BY DEF NoDoubleCharge
  <2>2. OP!LockedBy(t) /\ OP!LockedBy(u)
    BY <2>1, ChargedIsLive
  <2>3. QED
    BY <2>1, <2>2 DEF OP!LockedBy
<1>2. QED
  BY <1>1, IsFine, PTL

-----------------------------------------------------------------------------
(* Checkout is atomic                                                      *)

\* The records as states of AtomicCommit, participant by participant.
Part(t) == {"order"} \cup Ord!Participants(t)

RmOf(t, p) ==
  IF p = "order" THEN OrderAsRM(t)
  ELSE IF p = Payment THEN AsRM(pState[t]) ELSE AsRM(sState[<<t, p>>])

Rm == [t \in Tx |-> [p \in Part(t) |-> RmOf(t, p)]]

\* Some participant has committed; all are ready and the order is free for t.
SomeHave(t) == \E p \in Part(t) : RmOf(t, p) = "committed"

MayNow(t) ==
  /\ \A p \in Part(t) : RmOf(t, p) \in {"prepared", "committed"}
  /\ \A u \in Tx \ {t} : OrderOf[u] = OrderOf[t] => ~SomeHave(u)

\* What AtomicCommit lets one participant do.
Allowed(t, p) ==
  \/ RmOf(t, p)' = RmOf(t, p)
  \/ RmOf(t, p) = "working" /\ RmOf(t, p)' = "prepared"
  \/ MayNow(t) /\ RmOf(t, p) = "prepared" /\ RmOf(t, p)' = "committed"
  \/ RmOf(t, p) \in {"working", "prepared"} /\ ~SomeHave(t) /\ RmOf(t, p)' = "aborted"

\* A participant is the order, payment or a database.
LEMMA PartType ==
  ASSUME NEW t \in Tx, NEW p \in Part(t)
  PROVE  \/ p = "order" /\ p # Payment /\ p \notin Db
         \/ p = Payment /\ p # "order" /\ t \notin EmptyCart
         \/ p \in DbsOf[t] /\ p \in Db /\ p # "order" /\ p # Payment /\ t \notin EmptyCart
BY OrderIsNoOther, DbsOfType, CheckoutConstants DEF Part, Ord!Participants

\* One participant doing what it may is a step of AtomicCommit.
LEMMA AllowedStep ==
  ASSUME NEW t \in Tx, NEW p \in Part(t), Allowed(t, p),
         \A u \in Tx : \A q \in Part(u) : <<u, q>> # <<t, p>> => RmOf(u, q)' = RmOf(u, q)
  PROVE  Atomic!Next \/ Rm' = Rm
<1>1. Rm' = [Rm EXCEPT ![t][p] = RmOf(t, p)']
  BY DEF Rm, Part, Ord!Participants
<1>2. \A u \in Tx : Atomic!SomeCommitted(u) <=> SomeHave(u)
  BY DEF Atomic!SomeCommitted, SomeHave, RmOf, Part
<1>3. Atomic!MayCommit(t) <=> MayNow(t)
  BY <1>2 DEF Atomic!MayCommit, MayNow, RmOf, Part
<1>4. ASSUME NEW s, s = RmOf(t, p)' PROVE Atomic!Become(t, p, s)
  BY <1>1, <1>4 DEF Atomic!Become, Rm, RmOf, Part
<1>5. CASE RmOf(t, p)' = RmOf(t, p)
  BY <1>1, <1>5 DEF Rm
<1>6. CASE RmOf(t, p) = "working" /\ RmOf(t, p)' = "prepared"
  <2>1. Atomic!Prepare(t, p)
    BY <1>4, <1>6 DEF Atomic!Prepare, RmOf, Part
  <2>2. QED
    BY <2>1 DEF Atomic!Next, Part
<1>7. CASE MayNow(t) /\ RmOf(t, p) = "prepared" /\ RmOf(t, p)' = "committed"
  <2>1. Atomic!Commit(t, p)
    BY <1>3, <1>4, <1>7 DEF Atomic!Commit, RmOf, Part
  <2>2. QED
    BY <2>1 DEF Atomic!Next, Part
<1>8. CASE RmOf(t, p) \in {"working", "prepared"} /\ ~SomeHave(t) /\ RmOf(t, p)' = "aborted"
  <2>1. Atomic!Abort(t, p)
    BY <1>2, <1>4, <1>8 DEF Atomic!Abort, RmOf, Part
  <2>2. QED
    BY <2>1 DEF Atomic!Next, Part
<1>9. QED
  BY <1>5, <1>6, <1>7, <1>8 DEF Allowed

\* Once the coordinator has decided, everybody is ready or has committed; the state
\* predicate that the next lemmas need before and after a step.
Taken ==
  \A t \in Tx : Ord!CommitPosted(t) =>
    /\ pState[t] \in {TxAcknowledged, TxCommitted}
    /\ \A d \in DbsOf[t] : sState[<<t, d>>] \in {TxAcknowledged, TxCommitted}

\* The states are those of the diagram, the order's and those of the participants.
Stated ==
  \A t \in Tx :
    /\ oState[t] \in TxState
    /\ pState[t] \in TxState \ {TxPreparing}
    /\ \A d \in Db : sState[<<t, d>>] \in TxState

Settled == Fine /\ Taken /\ Stated

\* The invariant implies both.
LEMMA IsSettled == Fine => Settled
<1>1. SUFFICES ASSUME Fine PROVE Taken /\ Stated
  BY DEF Settled
<1>2. Taken
  BY <1>1, PostedPayment, PostedStock DEF Taken
<1>3. ASSUME NEW t \in Tx PROVE oState[t] \in TxState
  BY <1>1, NamesSame DEF Fine, OrderFine, OP!TypeOK, OP!TxState, TxState
<1>4. ASSUME NEW t \in Tx PROVE pState[t] \in TxState \ {TxPreparing}
  BY <1>1, NamesSame DEF Fine, PaymentFine, PP!Typed, PP!TypeOK, PP!TxState, TxState
<1>5. ASSUME NEW t \in Tx, NEW d \in Db PROVE sState[<<t, d>>] \in TxState
  BY <1>1, NamesSame DEF Fine, StockFine, SP!Typed, SP!TypeOK, SP!TxState, TxState
<1>6. QED
  BY <1>2, <1>3, <1>4, <1>5 DEF Stated

\* Who is ready and who has committed, in the terms of the records.
LEMMA AsRMOf ==
  /\ \A s : AsRM(s) = "committed" <=> s = TxCommitted
  /\ \A s : AsRM(s) = "aborted" <=> s = TxAborted
  /\ \A s : AsRM(s) = "prepared" <=> s = TxAcknowledged
  /\ \A s : AsRM(s) \in {"working", "prepared", "committed", "aborted"}
BY StatesDiffer DEF AsRM

\* Who has committed was told to, so the order is locked by the transaction.
LEMMA SomeHaveLocked ==
  ASSUME Settled, NEW t \in Tx, SomeHave(t)
  PROVE  /\ oState[t] \in {TxAcknowledged, TxCommitted}
         /\ OP!LockedBy(t)
<1>1. oState[t] \in {TxAcknowledged, TxCommitted}
  <2>1. PICK p \in Part(t) : RmOf(t, p) = "committed"
    BY DEF SomeHave
  <2>2. CASE p = "order"
    BY <2>1, <2>2, AsRMOf DEF RmOf, OrderAsRM
  <2>3. CASE p = Payment /\ p # "order"
    <3>1. pState[t] = TxCommitted
      BY <2>1, <2>3, AsRMOf DEF RmOf
    <3>2. Ord!CommitPosted(t)
      BY <3>1 DEF Settled, Fine, PaymentLinks, PaymentLinked
    <3>3. QED
      BY <3>2, NamesSame DEF Ord!CommitPosted, Ord!TxAcknowledged, Ord!TxCommitted, TxAcknowledged, TxCommitted
  <2>4. CASE p \in Db /\ p # "order" /\ p # Payment
    <3>1. sState[<<t, p>>] = TxCommitted
      BY <2>1, <2>4, AsRMOf DEF RmOf
    <3>2. Ord!CommitPosted(t)
      BY <2>4, <3>1 DEF Settled, Fine, StockLinks, StockLinked
    <3>3. QED
      BY <3>2, NamesSame DEF Ord!CommitPosted, Ord!TxAcknowledged, Ord!TxCommitted, TxAcknowledged, TxCommitted
  <2>5. QED
    BY <2>2, <2>3, <2>4, PartType
<1>2. OP!LockedBy(t)
  BY <1>1, NamesSame DEF Settled, Fine, OrderFine, OP!LockedWhileLive
<1>3. QED
  BY <1>1, <1>2

\* While t has the lock no other transaction of its order has a commit.
LEMMA LockExcludes ==
  ASSUME Settled, NEW t \in Tx, oState[t] \in {TxPreparing, TxAcknowledged, TxCommitted},
         NEW u \in Tx \ {t}, OrderOf[u] = OrderOf[t]
  PROVE  ~SomeHave(u)
<1>1. OP!LockedBy(t)
  BY NamesSame DEF Settled, Fine, OrderFine, OP!LockedWhileLive
<1>2. SUFFICES ASSUME SomeHave(u) PROVE FALSE
  OBVIOUS
<1>3. OP!LockedBy(u)
  BY <1>2, SomeHaveLocked
<1>4. QED
  BY <1>1, <1>3 DEF OP!LockedBy

\* So the decision to commit is one AtomicCommit would allow everybody to follow.
LEMMA PostedMayNow ==
  ASSUME Settled, NEW t \in Tx, Ord!CommitPosted(t) PROVE MayNow(t)
<1>1. oState[t] \in {TxAcknowledged, TxCommitted} /\ t \notin EmptyCart
  BY DEF Ord!CommitPosted, Ord!TxAcknowledged, Ord!TxCommitted, TxAcknowledged, TxCommitted
<1>2. ASSUME NEW p \in Part(t) PROVE RmOf(t, p) \in {"prepared", "committed"}
  <2>1. CASE p = "order"
    BY <1>1, <2>1, AsRMOf DEF RmOf, OrderAsRM
  <2>2. CASE p = Payment /\ p # "order"
    BY <2>2, AsRMOf DEF RmOf, Settled, Taken
  <2>3. CASE p \in DbsOf[t] /\ p # "order" /\ p # Payment
    BY <2>3, AsRMOf DEF RmOf, Settled, Taken
  <2>4. QED
    BY <2>1, <2>2, <2>3, PartType
<1>3. QED
  BY <1>1, <1>2, LockExcludes DEF MayNow

\* An order whose cart is empty may commit as soon as it has the lock.
LEMMA EmptyMayNow ==
  ASSUME Settled, NEW t \in Tx, t \in EmptyCart, oState[t] \in {TxPreparing, TxAcknowledged}
  PROVE  MayNow(t)
<1>1. ASSUME NEW p \in Part(t) PROVE RmOf(t, p) \in {"prepared", "committed"}
  BY <1>1, PartType, AsRMOf DEF RmOf, OrderAsRM
<1>2. QED
  BY <1>1, LockExcludes DEF MayNow

\* A database moves its record as AtomicCommit allows.
LEMMA AtomicStock ==
  ASSUME Settled, Settled', [Next]_vars, NEW t \in Tx, NEW d \in Db, StockMoves(t, d)
  PROVE  Atomic!Next \/ Rm' = Rm
<1>0. UNCHANGED <<pState, oState>> /\ (Ord!CommitPosted(t)' <=> Ord!CommitPosted(t))
  BY MovesAreLocal DEF payVars, ordVars, Ord!CommitPosted
<1>1. \A u \in Tx, e \in Db : <<u, e>> # <<t, d>> => sState'[<<u, e>>] = sState[<<u, e>>]
  BY StockMovesAreLocal DEF Settled, Fine
<1>2. \A u \in Tx : \A q \in Part(u) : <<u, q>> # <<t, d>> => RmOf(u, q)' = RmOf(u, q)
  <2>1. SUFFICES ASSUME NEW u \in Tx, NEW q \in Part(u), <<u, q>> # <<t, d>>
                 PROVE  RmOf(u, q)' = RmOf(u, q)
    OBVIOUS
  <2>2. CASE q = "order" \/ q = Payment
    BY <1>0, <2>2 DEF RmOf, OrderAsRM
  <2>3. CASE q \in Db /\ q # "order" /\ q # Payment
    <3>1. sState'[<<u, q>>] = sState[<<u, q>>]
      BY <1>1, <2>1, <2>3
    <3>2. QED
      BY <2>3, <3>1 DEF RmOf
  <2>4. QED
    BY <2>2, <2>3, PartType
<1>3. CASE d \notin Part(t)
  <2>1. \A u \in Tx : \A q \in Part(u) : RmOf(u, q)' = RmOf(u, q)
    BY <1>2, <1>3
  <2>2. QED
    BY <2>1 DEF Rm, Part, Ord!Participants
<1>4. CASE d \in Part(t)
  <2>1. d \in DbsOf[t] /\ d # "order" /\ d # Payment /\ t \notin EmptyCart
    BY <1>4, PartType, OrderIsNoOther, CheckoutConstants
  <2>2. RmOf(t, d) = AsRM(sState[<<t, d>>]) /\ RmOf(t, d)' = AsRM(sState'[<<t, d>>])
    BY <2>1 DEF RmOf
  <2> DEFINE s == sState[<<t, d>>]
             n == sState'[<<t, d>>]
  <2>3. s = n \/ Arrow(s, n)
    <3>1. [SP!Next]_(SP!vars) /\ SP!TypeOK
      BY StockNext DEF Settled, Fine, StockFine, SP!Typed
    <3>2. sState' # sState => \A x \in Tx \X Db : sState'[x] # sState[x] => SP!Arrow(sState[x], sState'[x])
      BY <3>1, StockAssumed, SP!ArrowStep
    <3>3. \A a, b : SP!Arrow(a, b) => Arrow(a, b)
      BY NamesSame DEF SP!Arrow, Arrow
    <3>4. QED
      BY <3>2, <3>3
  <2>4. n = TxCommitted => MayNow(t)
    <3>1. n = TxCommitted => Ord!CommitPosted(t)'
      BY DEF Settled, Fine, StockLinks, StockLinked
    <3>2. QED
      BY <1>0, <3>1, PostedMayNow
  <2>5. n = TxAborted => ~SomeHave(t)
    <3>1. SUFFICES ASSUME SomeHave(t), n = TxAborted PROVE FALSE
      OBVIOUS
    <3>2. Ord!CommitPosted(t)'
      BY <1>0, <2>1, <3>1, SomeHaveLocked
      DEF Ord!CommitPosted, Ord!TxAcknowledged, Ord!TxCommitted, TxAcknowledged, TxCommitted
    <3>3. n \in {TxAcknowledged, TxCommitted}
      BY <2>1, <3>2 DEF Settled, Taken
    <3>4. QED
      BY <3>1, <3>3, StatesDiffer
  <2>6. Allowed(t, d)
    <3> HIDE DEF s, n
    <3>1. RmOf(t, d) = AsRM(s) /\ RmOf(t, d)' = AsRM(n)
      BY <2>2 DEF s, n
    <3>2. \/ s = n
          \/ s = TxNone /\ n = TxPreparing
          \/ s = TxPreparing /\ n = TxAcknowledged
          \/ s = TxAcknowledged /\ n = TxCommitted
          \/ s \in {TxNone, TxPreparing, TxAcknowledged} /\ n = TxAborted
      BY <2>3 DEF Arrow
    <3>3. \/ AsRM(s) = AsRM(n)
          \/ AsRM(s) = "working" /\ AsRM(n) = "prepared"
          \/ AsRM(s) = "prepared" /\ AsRM(n) = "committed" /\ n = TxCommitted
          \/ AsRM(s) \in {"working", "prepared"} /\ AsRM(n) = "aborted" /\ n = TxAborted
      BY <3>2, StatesDiffer DEF AsRM
    <3>4. QED
      BY <2>4, <2>5, <3>1, <3>3 DEF Allowed
  <2>7. QED
    BY <1>2, <1>4, <2>6, AllowedStep
<1>5. QED
  BY <1>3, <1>4

\* What a step of payment does to the record it is about.
LEMMA PaymentRecord ==
  ASSUME Settled, NEW t \in Tx, PaymentMoves(t)
  PROVE  \/ pState'[t] = pState[t]
         \/ pState[t] = TxNone /\ pState'[t] = TxAcknowledged
         \/ pState[t] = TxAcknowledged /\ pState'[t] = TxCommitted
         \/ pState'[t] = TxAborted
<1>0. /\ pState \in [Tx -> PP!TxState \ {PP!TxPreparing}]
      /\ [q \in {"prepare", "abort"} \X Tx |-> q[2]][PayPrp(t)] = t
      /\ [q \in {"prepare", "abort"} \X Tx |-> q[2]][PayAbt(t)] = t
  BY PaymentRequests DEF Settled, Fine, PaymentFine, PP!Typed, PP!TypeOK
<1>1. CASE PaymentPrepare(t)
  <2>1. PP!PrepareCkTx(PayPrp(t), price[t])
    BY <1>1, PaymentSame DEF PaymentPrepare, PayPrp
  <2>2. QED
    BY <1>0, <2>1, NamesSame DEF PP!PrepareCkTx, PP!Decided
<1>2. CASE PaymentAbort(t)
  BY <1>2, PaymentSame DEF PaymentAbort, PP!HGetAll
<1>3. CASE PaymentCommit(t)
  BY <1>0, <1>3, PaymentSame, NamesSame DEF PaymentCommit, PP!CommitCkTx
<1>4. CASE PaymentStep(t)
  <2>1. PP!SetAborted(PayAbt(t)) \/ PP!AbtThenRollback(PayAbt(t))
    BY <1>4, PaymentSame DEF PaymentStep, PayAbt, PP!Proceed
  <2>2. CASE PP!SetAborted(PayAbt(t))
    BY <1>0, <2>2, NamesSame DEF PP!SetAborted
  <2>3. CASE PP!AbtThenRollback(PayAbt(t))
    BY <1>0, <2>3, NamesSame DEF PP!AbtThenRollback
  <2>4. QED
    BY <2>1, <2>2, <2>3
<1>5. QED
  BY <1>1, <1>2, <1>3, <1>4 DEF PaymentMoves

\* Payment moves its record as AtomicCommit allows.
LEMMA AtomicPayment ==
  ASSUME Settled, Settled', [Next]_vars, NEW t \in Tx, PaymentMoves(t)
  PROVE  Atomic!Next \/ Rm' = Rm
<1>0. UNCHANGED <<sState, oState>> /\ (Ord!CommitPosted(t)' <=> Ord!CommitPosted(t))
  BY MovesAreLocal DEF stockVars, ordVars, Ord!CommitPosted
<1>1. \A u \in Tx \ {t} : pState'[u] = pState[u]
  BY PaymentMovesAreLocal DEF Settled, Fine
<1>2. \A u \in Tx : \A q \in Part(u) : <<u, q>> # <<t, Payment>> => RmOf(u, q)' = RmOf(u, q)
  <2>1. SUFFICES ASSUME NEW u \in Tx, NEW q \in Part(u), <<u, q>> # <<t, Payment>>
                 PROVE  RmOf(u, q)' = RmOf(u, q)
    OBVIOUS
  <2>2. CASE q = Payment /\ q # "order"
    BY <1>1, <2>1, <2>2 DEF RmOf
  <2>3. CASE q = "order" \/ q # Payment
    BY <1>0, <2>3 DEF RmOf, OrderAsRM
  <2>4. QED
    BY <2>2, <2>3
<1>3. CASE Payment \notin Part(t)
  <2>1. \A u \in Tx : \A q \in Part(u) : RmOf(u, q)' = RmOf(u, q)
    BY <1>2, <1>3
  <2>2. QED
    BY <2>1 DEF Rm, Part, Ord!Participants
<1>4. CASE Payment \in Part(t)
  <2>1. Payment # "order" /\ t \notin EmptyCart
    BY <1>4, PartType, OrderIsNoOther, CheckoutConstants
  <2> DEFINE s == pState[t]
             n == pState'[t]
  <2>2. RmOf(t, Payment) = AsRM(s) /\ RmOf(t, Payment)' = AsRM(n)
    BY <2>1 DEF RmOf
  <2>3. n = TxCommitted => MayNow(t)
    <3>1. n = TxCommitted => Ord!CommitPosted(t)'
      BY DEF Settled, Fine, PaymentLinks, PaymentLinked
    <3>2. QED
      BY <1>0, <3>1, PostedMayNow
  <2>4. n = TxAborted => ~SomeHave(t)
    <3>1. SUFFICES ASSUME SomeHave(t), n = TxAborted PROVE FALSE
      OBVIOUS
    <3>2. Ord!CommitPosted(t)'
      BY <1>0, <2>1, <3>1, SomeHaveLocked
      DEF Ord!CommitPosted, Ord!TxAcknowledged, Ord!TxCommitted, TxAcknowledged, TxCommitted
    <3>3. n \in {TxAcknowledged, TxCommitted}
      BY <3>2 DEF Settled, Taken
    <3>4. QED
      BY <3>1, <3>3, StatesDiffer
  <2>5. s = TxCommitted => SomeHave(t)
    BY <1>4, <2>2, AsRMOf DEF SomeHave
  <2>6. s \in TxState \ {TxPreparing} /\ n \in TxState \ {TxPreparing}
    BY DEF Settled, Stated
  <2>7. Allowed(t, Payment)
    <3>0. \/ n = s
          \/ s = TxNone /\ n = TxAcknowledged
          \/ s = TxAcknowledged /\ n = TxCommitted
          \/ n = TxAborted
      BY PaymentRecord
    <3> HIDE DEF s, n
    <3>1. n = TxAborted => s \in {TxNone, TxAcknowledged, TxAborted}
      BY <2>4, <2>5, <2>6 DEF TxState
    <3>2. \/ AsRM(s) = AsRM(n)
          \/ AsRM(s) = "working" /\ AsRM(n) = "prepared"
          \/ AsRM(s) = "prepared" /\ AsRM(n) = "committed" /\ n = TxCommitted
          \/ AsRM(s) \in {"working", "prepared"} /\ AsRM(n) = "aborted" /\ n = TxAborted
      BY <3>0, <3>1, StatesDiffer DEF AsRM
    <3>3. QED
      BY <2>2, <2>3, <2>4, <3>2 DEF Allowed
  <2>8. QED
    BY <1>2, <1>4, <2>7, AllowedStep
<1>5. QED
  BY <1>3, <1>4

\* What a step of the coordinator does to the state it has for the order.
LEMMA OrderRecord ==
  ASSUME OrderFine, NEW t \in Tx, OP!Step(t)
  PROVE  \/ oState'[t] = oState[t]
         \/ oState[t] = TxNone /\ oState'[t] = TxPreparing
         \/ oState[t] = TxPreparing /\ oState'[t] \in {TxAcknowledged, TxAborted}
         \/ /\ oState[t] = TxAcknowledged \/ (oState[t] = TxPreparing /\ t \in EmptyCart)
            /\ oState'[t] = TxCommitted
<1>0. oState \in [Tx -> OP!TxState] /\ OP!Phase(t)
  BY DEF OrderFine, OP!TypeOK, OP!Phases
<1>1. CASE OP!PrepareCkTx(t)
  BY <1>0, <1>1, NamesSame DEF OP!PrepareCkTx, OP!Phase
<1>2. CASE OP!Asking(t)
  BY <1>2 DEF OP!Asking, OP!PostPrepare, OP!StockRefuses, OP!StockAccepts, OP!StockPrepared,
              OP!PaymentAccepts, OP!orderVars
<1>3. CASE OP!Aborting(t)
  BY <1>3 DEF OP!Aborting, OP!StockRefused, OP!PaymentRefuses, OP!PaymentAborted,
              OP!AbortAnswered, OP!orderVars
<1>4. CASE OP!AbortCkTx(t)
  BY <1>0, <1>4, NamesSame DEF OP!AbortCkTx, OP!Phase
<1>5. CASE OP!AcknowledgeCkTx(t)
  BY <1>0, <1>5, NamesSame DEF OP!AcknowledgeCkTx, OP!Phase
<1>6. CASE OP!CommitCkTx(t)
  BY <1>0, <1>6, NamesSame DEF OP!CommitCkTx, OP!Phase
<1>7. CASE OP!Fail(t)
  BY <1>7 DEF OP!Fail
<1>8. QED
  BY <1>1, <1>2, <1>3, <1>4, <1>5, <1>6, <1>7 DEF OP!Step

\* The coordinator moves the order as AtomicCommit allows.
LEMMA AtomicOrder ==
  ASSUME Settled, UNCHANGED <<stockVars, payVars>>, NEW t \in Tx, OP!Step(t)
  PROVE  Atomic!Next \/ Rm' = Rm
<1>0. UNCHANGED <<sState, pState>> /\ OrderFine
  BY DEF stockVars, payVars, Settled, Fine
<1>1. \A u \in Tx \ {t} : oState'[u] = oState[u]
  <2>1. OP!TypeOK
    BY <1>0 DEF OrderFine
  <2>2. \A u \in Tx \ {t} : OP!Same(u)
    BY <2>1, OrderAssumed, OP!StepIsLocal
  <2>3. QED
    BY <2>2 DEF OP!Same
<1>2. \A u \in Tx : \A q \in Part(u) : <<u, q>> # <<t, "order">> => RmOf(u, q)' = RmOf(u, q)
  BY <1>0, <1>1 DEF RmOf, OrderAsRM
<1>3. "order" \in Part(t) /\ RmOf(t, "order") = OrderAsRM(t) /\ RmOf(t, "order")' = OrderAsRM(t)'
  BY DEF Part, RmOf
<1> DEFINE s == oState[t]
           n == oState'[t]
<1>4. \/ n = s
      \/ s = TxNone /\ n = TxPreparing
      \/ s = TxPreparing /\ n \in {TxAcknowledged, TxAborted}
      \/ (s = TxAcknowledged \/ (s = TxPreparing /\ t \in EmptyCart)) /\ n = TxCommitted
  BY <1>0, OrderRecord
<1>5. s \in {TxNone, TxPreparing} => ~SomeHave(t)
  BY SomeHaveLocked, StatesDiffer
<1>6. s = TxAcknowledged \/ (s = TxPreparing /\ t \in EmptyCart) => MayNow(t)
  BY PostedMayNow, EmptyMayNow
  DEF Ord!CommitPosted, Ord!TxAcknowledged, TxAcknowledged
<1>7. Allowed(t, "order")
  <2>1. /\ OrderAsRM(t) = IF t \in EmptyCart /\ s = TxPreparing THEN "prepared" ELSE AsRM(s)
        /\ OrderAsRM(t)' = IF t \in EmptyCart /\ n = TxPreparing THEN "prepared" ELSE AsRM(n)
    BY DEF OrderAsRM
  <2> HIDE DEF s, n
  <2>2. CASE n = s
    BY <1>3, <2>1, <2>2 DEF Allowed
  <2>3. CASE s = TxNone /\ n = TxPreparing
    BY <1>3, <2>1, <2>3, StatesDiffer DEF Allowed, AsRM
  <2>4. CASE s = TxPreparing /\ n = TxAcknowledged
    BY <1>3, <2>1, <2>4, StatesDiffer DEF Allowed, AsRM
  <2>5. CASE s = TxPreparing /\ n = TxAborted
    BY <1>3, <1>5, <2>1, <2>5, StatesDiffer DEF Allowed, AsRM
  <2>6. CASE (s = TxAcknowledged \/ (s = TxPreparing /\ t \in EmptyCart)) /\ n = TxCommitted
    BY <1>3, <1>6, <2>1, <2>6, StatesDiffer DEF Allowed, AsRM
  <2>7. QED
    BY <1>4, <2>2, <2>3, <2>4, <2>5, <2>6
<1>8. QED
  BY <1>2, <1>3, <1>7, AllowedStep

\* So every step of the system is one of AtomicCommit or a stutter.
LEMMA AtomicStep ==
  ASSUME Settled, Settled', [Next]_vars PROVE Atomic!Next \/ Rm' = Rm
<1>1. CASE UNCHANGED <<stockVars, payVars>>
  <2>1. [OP!Next]_(OP!vars)
    BY OrderNext DEF Settled, Fine
  <2>2. CASE oState' = oState
    BY <1>1, <2>2 DEF Rm, RmOf, Part, Ord!Participants, OrderAsRM, stockVars, payVars
  <2>3. ASSUME NEW t \in Tx, OP!Step(t) PROVE Atomic!Next \/ Rm' = Rm
    BY <1>1, <2>3, AtomicOrder
  <2>4. \/ \E o \in Order : OP!CreateOrder(o) \/ OP!RemoveOrder(o)
        \/ \E t \in Tx : OP!Step(t)
        \/ UNCHANGED OP!vars
    BY <2>1, OrderAssumed, OP!Steps
  <2>5. ASSUME NEW o \in Order, OP!CreateOrder(o) \/ OP!RemoveOrder(o) PROVE oState' = oState
    BY <2>5 DEF OP!CreateOrder, OP!RemoveOrder
  <2>6. UNCHANGED OP!vars => oState' = oState
    BY DEF OP!vars, OP!orderVars
  <2>7. QED
    BY <2>2, <2>3, <2>4, <2>5, <2>6
<1>2. QED
  BY <1>1, AtomicStock, AtomicPayment, Moves, MovesAreLocal DEF vars

\* At the start everybody is working.
LEMMA AtomicInit == Init => Atomic!Init
<1>1. SUFFICES ASSUME Init PROVE Rm = [t \in Tx |-> [p \in Part(t) |-> "working"]]
  BY DEF Atomic!Init, Rm, RmOf, Part
<1>2. \A t \in Tx : oState[t] = TxNone /\ pState[t] = TxNone
  BY <1>1 DEF Init, Ord!Init, Pay!Init, Ord!TxNone, Pay!TxNone, TxNone
<1>3. \A t \in Tx, d \in Db : sState[<<t, d>>] = TxNone
  BY <1>1 DEF Init, Stock!Init, Stock!TxNone, TxNone
<1>4. ASSUME NEW t \in Tx, NEW p \in Part(t) PROVE RmOf(t, p) = "working"
  <2>1. AsRM(TxNone) = "working" /\ OrderAsRM(t) = "working"
    BY <1>2, StatesDiffer DEF AsRM, OrderAsRM
  <2>2. QED
    BY <1>2, <1>3, <2>1, PartType DEF RmOf
<1>5. QED
  BY <1>4 DEF Rm

\* Checkout is atomic, for any number of orders, transactions and databases,
\* whatever calls are lost or late and wherever handlers stop: order, payment and
\* the databases of a cart come to the same end, and of the checkouts of one order
\* at most one commits.
THEOREM Atomicity == Spec => AtomicCheckout
<1>1. Init => Atomic!Init
  BY AtomicInit
<1>2. Settled /\ Settled' /\ [Next]_vars =>
        [Atomic!Next]_[t \in Tx |-> [p \in {"order"} \cup Ord!Participants(t) |->
           IF p = "order" THEN OrderAsRM(t)
           ELSE IF p = Payment THEN AsRM(pState[t]) ELSE AsRM(sState[<<t, p>>])]]
  BY AtomicStep DEF Rm, RmOf, Part
<1>3. Fine => Settled
  BY IsSettled
<1>4. QED
  BY <1>1, <1>2, <1>3, IsFine, PTL DEF Spec, AtomicCheckout, Atomic!Spec

-----------------------------------------------------------------------------
(* The parts keep their specifications                                     *)

\* In the system the coordinator behaves as its specification says.
LEMMA Coordinates == Spec => OP!Spec
<1>1. Init => OP!Init
  BY OrderSame DEF Init
<1>2. Fine /\ [Next]_vars => [OP!Next]_(OP!vars)
  BY OrderNext DEF Fine
<1>3. QED
  BY <1>1, <1>2, IsFine, PTL DEF Spec, OP!Spec

\* Whatever is proved or checked of the stock service alone, for any requests and
\* interleavings, is true of it in the system: the coordinator's calls and their
\* arrival are requests that its specification allows.
THEOREM StockAsAlone == Spec => Stock!Spec
<1>1. Init => Stock!Init
  BY DEF Init
<1>2. ASSUME NEW t \in Tx, NEW d \in Db, StockMoves(t, d) PROVE Stock!Next
  <2>0. /\ <<"prepare", <<t, d>>>> \in {"prepare"} \X (Tx \X Db)
        /\ <<"abort", <<t, d>>>> \in {"abort"} \X (Tx \X Db)
    OBVIOUS
  <2>1. StockPrepare(t, d) => Stock!Next
    BY <2>0 DEF StockPrepare, Stock!Next
  <2>2. StockAbort(t, d) => Stock!Next
    BY <2>0 DEF StockAbort, Stock!Next
  <2>3. StockCommit(t, d) => Stock!Next
    BY DEF StockCommit, Stock!Next
  <2>4. ASSUME NEW r \in Stock!Request, StockStep(r) PROVE Stock!Next
    BY <2>4 DEF StockStep, Stock!Next
  <2>5. QED
    BY <1>2, <2>0, <2>1, <2>2, <2>3, <2>4 DEF StockMoves, Stock!Request
<1>3. UNCHANGED stockVars => UNCHANGED Stock!vars
  BY DEF stockVars, Stock!vars, Stock!itemVars, Stock!lockVars, Stock!reqVars
<1>4. [Next]_vars => [Stock!Next]_(Stock!vars)
  BY <1>2, <1>3, Moves, MovesAreLocal DEF vars
<1>5. QED
  BY <1>1, <1>4, PTL DEF Spec, Stock!Spec

\* So it is of the coordinator, whose specification leaves open what participants
\* answer: only those who were called do, and a database answers a price.
THEOREM CoordinatorAsAlone == Spec => Ord!Spec
<1>1. Init => Ord!Init
  BY DEF Init
<1>2. ASSUME Fine, NEW t \in Tx, OrderMoves(t) PROVE Ord!Next
  <2>0. StockFine /\ OrderFine
    BY <1>2 DEF Fine
  <2>1. CASE Checkout(t)
    BY <2>1 DEF Checkout, Ord!Next
  <2>2. CASE CoordinatorStep(t)
    BY <2>2 DEF CoordinatorStep, Ord!Next
  <2>3. CASE PaymentAnswers(t)
    BY <2>3 DEF PaymentAnswers, Ord!Next, Ord!CallAnswered
  <2>4. ASSUME NEW d \in Db, StockAnswers(t, d) PROVE Ord!Next
    <3>1. CASE Ord!StockRefuses(t, d)
      <4>1. d \in DbsOf[t]
        BY <2>0, <3>1, CalledIsParticipant DEF Ord!StockRefuses
      <4>2. QED
        BY <3>1, <4>1 DEF Ord!Next, Ord!CallAnswered
    <3>2. CASE sPc[Prp(t, d)] = "ok" /\ Ord!StockAccepts(t, d, quote[Prp(t, d)])
      <4>1. d \in DbsOf[t]
        BY <2>0, <3>2, CalledIsParticipant DEF Ord!StockAccepts
      <4>2. quote[Prp(t, d)] \in {CostAt(u, e) : u \in Tx, e \in Db}
        BY <2>0, <3>2, QuoteIsCostAt
      <4>3. QED
        BY <3>2, <4>1, <4>2 DEF Ord!Next, Ord!CallAnswered
    <3>3. QED
      BY <2>4, <3>1, <3>2 DEF StockAnswers, Prp
  <2>5. ASSUME NEW p \in Db \cup {Payment}, AbortAnswers(t, p) PROVE Ord!Next
    <3>1. Ord!AbortAnswered(t, p)
      BY <2>5 DEF AbortAnswers
    <3>2. p \in Ord!Participants(t)
      BY <2>0, <3>1, CalledIsParticipant, NamesSame DEF Ord!AbortAnswered
    <3>3. QED
      BY <3>1, <3>2 DEF Ord!Next, Ord!CallAnswered
  <2>6. QED
    BY <1>2, <2>1, <2>2, <2>3, <2>4, <2>5 DEF OrderMoves
<1>3. ASSUME NEW o \in Order, NewOrder(o) PROVE Ord!Next
  BY <1>3 DEF NewOrder, Ord!Next
<1>4. UNCHANGED ordVars => UNCHANGED Ord!vars
  BY DEF ordVars, Ord!vars, Ord!orderVars, Ord!callVars
<1>5. Fine /\ [Next]_vars => [Ord!Next]_(Ord!vars)
  BY <1>2, <1>3, <1>4, Moves, MovesAreLocal DEF vars
<1>6. QED
  BY <1>1, <1>5, IsFine, PTL DEF Spec, Ord!Spec

-----------------------------------------------------------------------------
(* What the client is told                                                 *)

\* A 200 means that somebody has paid: the order has a transaction, this one or
\* one before it, that is committed, and whatever its cart names is taken in full
\* and paid in full, however many checkouts of the order there were.
THEOREM OkIsPaidInFull ==
  Spec => [](\A t \in Tx : pc[t] = "ok" =>
               \E u \in Tx :
                 /\ OrderOf[u] = OrderOf[t] /\ oState[u] = TxCommitted
                 /\ u \notin EmptyCart =>
                      /\ pState[u] = TxCommitted \/ (pState[u] = TxAcknowledged /\ held[u] = Cost[u])
                      /\ \A d \in DbsOf[u] :
                           \/ sState[<<u, d>>] = TxCommitted
                           \/ /\ sState[<<u, d>>] = TxAcknowledged
                              /\ locked[<<u, d>>] = Amount[<<u, d>>])
<1> DEFINE Paid ==
      \A t \in Tx : pc[t] = "ok" =>
        \E u \in Tx :
          /\ OrderOf[u] = OrderOf[t] /\ oState[u] = TxCommitted
          /\ u \notin EmptyCart =>
               /\ pState[u] = TxCommitted \/ (pState[u] = TxAcknowledged /\ held[u] = Cost[u])
               /\ \A d \in DbsOf[u] :
                    \/ sState[<<u, d>>] = TxCommitted
                    \/ /\ sState[<<u, d>>] = TxAcknowledged
                       /\ locked[<<u, d>>] = Amount[<<u, d>>]
<1>1. OP!Spec => []OP!OkMeansCommitted
  BY OrderAssumed, OP!OkIsTrue
<1>2. OP!OkMeansCommitted /\ PaidIsTakenInFull => Paid
  BY NamesSame DEF OP!OkMeansCommitted, PaidIsTakenInFull
<1> HIDE DEF Paid
<1>3. Spec => []Paid
  BY <1>1, <1>2, Coordinates, PaidInFull, PTL
<1>4. QED
  BY <1>3 DEF Paid

\* Where every call is answered, a database whose abort is answered has answered.
AbortLinked(t, d) == ~Lossy /\ abrt[t][d] = "done" => sPc[Abt(t, d)] \in SP!Answered

AbortLinks == \A t \in Tx, d \in Db : AbortLinked(t, d)

\* It is the handler's answer that the coordinator hears.
LEMMA DoneIsAnswered ==
  ASSUME OrderFine, ~Lossy, NEW t \in Tx, OrderMoves(t), NEW u \in Tx, NEW e \in Db,
         abrt'[u][e] = "done", abrt[u][e] # "done"
  PROVE  sPc[Abt(u, e)] \in SP!Answered
<1>0. /\ abrt \in [Tx -> [Db \cup {Payment} -> {"none", "sent", "done"}]]
      /\ Payment \notin Db
  BY NamesSame, CheckoutConstants DEF OrderFine, OP!TypeOK
<1>1. ASSUME NEW p \in Db \cup {Payment}, AbortAnswers(t, p)
      PROVE  sPc[Abt(u, e)] \in SP!Answered
  <2>1. t = u /\ p = e
    BY <1>0, <1>1 DEF AbortAnswers, Ord!AbortAnswered
  <2>2. QED
    BY <1>0, <1>1, <2>1 DEF AbortAnswers, Abt, Stock!Answered, SP!Answered
<1>2. CASE Checkout(t)
  BY <1>2, OrderSame DEF Checkout, OP!PrepareCkTx, OP!callVars
<1>3. CASE CoordinatorStep(t)
  <2>1. OP!Proceed(t)
    BY <1>3, OrderSame DEF CoordinatorStep
  <2>2. ASSUME OP!AbortStock(t) PROVE FALSE
    BY <1>0, <2>2, NamesSame DEF OP!AbortStock
  <2>3. QED
    BY <2>1, <2>2 DEF OP!Proceed, OP!StockRefused, OP!PaymentAborted, OP!AbortCkTx,
                      OP!AcknowledgeCkTx, OP!CommitCkTx, OP!StockPrepared, OP!PostPrepare, OP!callVars
<1>4. CASE PaymentAnswers(t)
  <2>1. OP!PaymentAccepts(t) \/ OP!PaymentRefuses(t)
    BY <1>4, OrderSame DEF PaymentAnswers
  <2>2. QED
    BY <1>0, <2>1 DEF OP!PaymentAccepts, OP!PaymentRefuses
<1>5. ASSUME NEW d \in Db, StockAnswers(t, d) PROVE FALSE
  <2>1. OP!StockAccepts(t, d, quote[Prp(t, d)]) \/ OP!StockRefuses(t, d)
    BY <1>5, OrderSame DEF StockAnswers, Prp
  <2>2. QED
    BY <2>1 DEF OP!StockAccepts, OP!StockRefuses
<1>6. QED
  BY <1>1, <1>2, <1>3, <1>4, <1>5 DEF OrderMoves

\* A handler that has answered takes no further step.
LEMMA AbortLinksStep ==
  ASSUME StockFine, OrderFine, AbortLinks, [Next]_vars PROVE AbortLinks'
<1>1. SUFFICES ASSUME NEW u \in Tx, NEW e \in Db, ~Lossy, abrt'[u][e] = "done"
               PROVE  sPc'[Abt(u, e)] \in SP!Answered
  BY DEF AbortLinks, AbortLinked, Abt
<1>2. abrt[u][e] = "done" => sPc[Abt(u, e)] \in SP!Answered
  BY <1>1 DEF AbortLinks, AbortLinked
<1>3. CASE UNCHANGED stockVars
  <2>1. sPc' = sPc
    BY <1>3 DEF stockVars
  <2>2. CASE abrt[u][e] # "done"
    <3>1. abrt' # abrt
      BY <1>1, <2>2
    <3>2. PICK t \in Tx : OrderMoves(t)
      <4>1. ASSUME NEW o \in Order, NewOrder(o) PROVE FALSE
        BY <3>1, <4>1, OrderSame DEF NewOrder, OP!CreateOrder, OP!callVars
      <4>2. UNCHANGED ordVars => FALSE
        BY <3>1 DEF ordVars
      <4>3. QED
        BY <4>1, <4>2, Moves, MovesAreLocal DEF vars
    <3>3. QED
      BY <1>1, <2>1, <2>2, <3>2, DoneIsAnswered
  <2>3. QED
    BY <1>2, <2>1, <2>2
<1>4. ASSUME NEW t \in Tx, NEW d \in Db, StockMoves(t, d)
      PROVE  sPc'[Abt(u, e)] \in SP!Answered
  <2>1. sPc[Abt(u, e)] \in SP!Answered
    BY <1>1, <1>2, <1>4, MovesAreLocal DEF ordVars
  <2>2. CASE <<u, e>> # <<t, d>>
    BY <1>4, <2>1, <2>2, StockMovesAreLocal
  <2>3. CASE t = u /\ d = e
    <3>1. /\ Prp(u, e) \in SP!Request /\ Abt(u, e) \in SP!Request /\ Prp(u, e) # Abt(u, e)
          /\ [q \in {"prepare", "abort"} \X (Tx \X Db) |-> q[2]][Prp(u, e)] = <<u, e>>
          /\ [q \in {"prepare", "abort"} \X (Tx \X Db) |-> q[2]][Abt(u, e)] = <<u, e>>
      BY StockRequests DEF Prp, Abt
    <3>2. ~SP!Step(Abt(u, e))
      BY <2>1, <3>1, StockHandler
    <3>3. SP!Step(Prp(u, e)) => sPc'[Abt(u, e)] = sPc[Abt(u, e)]
      BY <3>1, StockHandler
    <3>4. SP!CommitCkTx(<<u, e>>) => sPc' = sPc
      BY DEF SP!CommitCkTx, SP!reqVars
    <3>5. QED
      BY <1>4, <2>1, <2>3, <3>2, <3>3, <3>4, StockMovesAs
  <2>4. QED
    BY <2>2, <2>3
<1>5. QED
  BY <1>3, <1>4, Moves, MovesAreLocal DEF vars

\* What is held of a transaction that the coordinator has released is being given
\* back by the handler of its own prepare request.
LEMMA HeldIsGivenBack ==
  ASSUME Fine, SP!Rolling, SP!Begun, AbortLinks, ~Lossy, NEW t \in Tx, NEW d \in Db,
         ~OP!LockedBy(t),
         \A p \in OP!Participants(t) :
           prep[t][p] # "none" \/ abrt[t][p] # "none" => abrt[t][p] = "done"
  PROVE  /\ sState[<<t, d>>] # TxCommitted
         /\ (\E i \in Item : locked[<<t, d>>][i] > 0) =>
              sPc[Prp(t, d)] \in {"scan"} \cup SP!InPage
<1> DEFINE td == <<t, d>>
           about == [q \in {"prepare", "abort"} \X (Tx \X Db) |-> q[2]]
<1>0. /\ td \in Tx \X Db
      /\ SP!RollingAt(td) /\ SP!BegunAt(td) /\ StockLinked(t, d) /\ AbortLinked(t, d)
  BY DEF SP!Rolling, SP!Begun, AbortLinks, Fine, StockLinks
<1>1. sState[td] # TxCommitted
  <2>1. ~Ord!CommitPosted(t)
    BY NamesSame DEF Fine, OrderFine, OP!LockedWhileLive, OP!CommitPosted
  <2>2. QED
    BY <1>0, <2>1 DEF StockLinked
<1>2. ASSUME NEW i \in Item, locked[td][i] > 0
      PROVE  sPc[Prp(t, d)] \in {"scan"} \cup SP!InPage
  <2>1. SP!Fields(td) # {}
    BY <1>2 DEF SP!Fields
  <2>2. \A r \in SP!Request : about[r] = td => r = Prp(t, d) \/ r = Abt(t, d)
    BY DEF Prp, Abt, SP!Request
  <2>3. sState[td] # TxNone
    BY <1>0, <2>1, NamesSame DEF SP!RollingAt
  <2>4. sPc[Prp(t, d)] # "idle" \/ sPc[Abt(t, d)] # "idle"
    BY <1>0, <2>2, <2>3, NamesSame DEF SP!BegunAt
  <2>5. prep[t][d] # "none" \/ abrt[t][d] # "none"
    BY <1>0, <2>4 DEF StockLinked
  <2>6. abrt[t][d] = "done"
    BY <2>5, CalledIsParticipant DEF Fine
  <2>7. sPc[Abt(t, d)] \in SP!Answered
    BY <1>0, <2>6 DEF AbortLinked
  <2>8. sPc[Abt(t, d)] # "idle"
    BY <2>7 DEF SP!Answered
  <2>9. Abt(t, d) \in {"abort"} \X (Tx \X Db) /\ about[Abt(t, d)] = td
    BY StockRequests
  <2>10. sState[td] = TxAborted
    BY <1>0, <1>1, <2>8, <2>9, NamesSame DEF SP!BegunAt
  <2>11. PICK r \in SP!Request : about[r] = td /\ SP!Roller(r)
    BY <1>0, <2>1, <2>10, NamesSame DEF SP!RollingAt
  <2>12. r # Abt(t, d)
    BY <2>7, <2>11 DEF SP!Roller, SP!InPage, SP!Answered
  <2>13. QED
    BY <2>2, <2>11, <2>12 DEF SP!Roller
<1>3. QED
  BY <1>1, <1>2

\* "strict consistency" (order/checkout.go:92) to the extent that the code gives it:
\* where every call is answered, a client that is told that its checkout has failed
\* finds no credit taken, and stock taken only where the prepare handler that found
\* an item out of stock is still giving back what it had moved before.
THEOREM RejectedGivesBack ==
  ASSUME ~Lossy
  PROVE  Spec => [](\A t \in Tx : pc[t] = "rejected" =>
                      /\ ~CreditTaken(t)
                      /\ \A d \in Db :
                           /\ sState[<<t, d>>] # TxCommitted
                           /\ (\E i \in Item : locked[<<t, d>>][i] > 0) =>
                                sPc[Prp(t, d)] \in {"scan"} \cup Stock!InPage)
<1> DEFINE Released ==
      \A t \in Tx : pc[t] = "rejected" =>
        /\ ~OP!LockedBy(t)
        /\ \A p \in OP!Participants(t) :
             prep[t][p] # "none" \/ abrt[t][p] # "none" => abrt[t][p] = "done"
    GivenBack ==
      \A t \in Tx : pc[t] = "rejected" =>
        /\ ~CreditTaken(t)
        /\ \A d \in Db :
             /\ sState[<<t, d>>] # TxCommitted
             /\ (\E i \in Item : locked[<<t, d>>][i] > 0) =>
                  sPc[Prp(t, d)] \in {"scan"} \cup Stock!InPage
<1>1. OP!Spec => []Released
  BY OrderAssumed, OP!RejectedAfterAborts
<1>2. SP!Spec => [](SP!Rolling /\ SP!Begun)
  <2>1. SP!Init => SP!Typed /\ SP!Rolling /\ SP!Begun
    BY StockAssumed, SP!TypedInit, SP!RollingInit, SP!BegunInit
  <2>2. SP!Typed /\ SP!Rolling /\ SP!Begun /\ [SP!Next]_(SP!vars)
          => SP!Typed' /\ SP!Rolling' /\ SP!Begun'
    BY StockAssumed, SP!TypedStep, SP!RollingStep, SP!BegunStep
  <2>3. QED
    BY <2>1, <2>2, PTL DEF SP!Spec
<1>3. Init => AbortLinks
  BY DEF Init, Ord!Init, Ord!Participant, AbortLinks, AbortLinked
<1>4. Fine /\ AbortLinks /\ [Next]_vars => AbortLinks'
  BY AbortLinksStep DEF Fine
<1>5. Fine /\ SP!Rolling /\ SP!Begun /\ AbortLinks /\ Released => GivenBack
  <2>1. SP!InPage = Stock!InPage
    BY DEF SP!InPage, Stock!InPage
  <2>2. QED
    BY <2>1, ChargedIsLive, HeldIsGivenBack
<1> HIDE DEF Released, GivenBack
<1>6. Spec => []GivenBack
  BY <1>1, <1>2, <1>3, <1>4, <1>5, Coordinates, StockServes, IsFine, PTL DEF Spec
<1>7. QED
  BY <1>6 DEF GivenBack

=============================================================================
