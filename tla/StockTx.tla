------------------------------ MODULE StockTx ------------------------------
(***************************************************************************)
(* The stock service as a participant of the checkout transaction          *)
(* (src/src/stock): the item keys, the transaction records and the HTTP    *)
(* handlers, interleaved at the granularity of one Redis command, which is *)
(* also one Lua script: Redis runs each of them atomically.                *)
(*                                                                         *)
(* A transaction touches one record tx_<id>:state / tx_<id>:locked on each *)
(* stock database its cart reaches.  The records of one transaction on two *)
(* databases never meet, so a member of Tx is one such record, and Amount  *)
(* holds the items of the one request that is ever sent about it.          *)
(***************************************************************************)
EXTENDS Integers, FiniteSets, Functions, TxStates

CONSTANTS
  Item,         \* item ids
  Tx,           \* transaction records, one per (transaction, database)
  PrepareReq,   \* requests POST /tx/checkout/prepare
  AbortReq,     \* requests POST /tx/checkout/abort
  TxOf,         \* the record a request is about
  Amount,       \* Amount[t][i]: how much of item i the prepare requests of t name
  Price,        \* Price[i]: the price item i is created with
  InitStock,    \* stock of the items that exist at the start, 0 for the others
  Delta,        \* the signed amounts of /add and /subtract requests
  MaxSupply,    \* bound: no more than this much of an item is ever supplied
  Paged,        \* are the hashes so large that HSCAN returns them in pages?
  Failures      \* may a handler stop between two commands?

Request == PrepareReq \cup AbortReq

ASSUME StockConstants ==
  /\ PrepareReq \cap AbortReq = {}
  /\ TxOf \in [Request -> Tx]
  /\ Amount \in [Tx -> [Item -> Nat]]
  /\ Price \in [Item -> Nat]
  /\ InitStock \in [Item -> Nat]
  /\ Delta \subseteq Int
  /\ MaxSupply \in Nat
  /\ Paged \in BOOLEAN
  /\ Failures \in BOOLEAN

\* Ids are 64-bit words (common/snowflake.go): there are finitely many.
ASSUME StockFinite == IsFiniteSet(Item) /\ IsFiniteSet(Tx)

VARIABLES
  created,      \* items whose keys item_<id>:price and item_<id>:stock exist
  stock,        \* item_<id>:stock
  supply,       \* history: what /add and /subtract have put there in total
  txState,      \* tx_<id>:state
  locked,       \* tx_<id>:locked, field item_<id> (0: no such field)
  lockedPrice,  \* tx_<id>:locked, field price (NoPrice: no such field)
  pc,           \* where the handler of a request stands
  todo,         \* the items its loop has still to visit
  quote         \* TotalCost of its 200 answer

NoPrice == -1

itemVars == <<created, stock, supply>>
lockVars == <<txState, locked, lockedPrice>>
reqVars  == <<pc, todo, quote>>
vars     == <<itemVars, lockVars, reqVars>>

\* A handler that has answered: 200, 406 NotAcceptable, 500.
Answered == {"ok", "rejected", "failed"}

\* A handler in the pipeline of a page: HSCAN's cursor is 0, or not yet; or a
\* script of the pipeline has returned nil.
InPage == {"rollback", "rollbackMore", "rollbackNil"}

\* A handler stands before its first command, in the loop or before the command
\* named, or has answered.
Label == {"idle", "wait", "readPrice", "move", "abort", "scan"} \cup InPage \cup Answered

\* The items of the request, in no order: the coordinator ranges over a map
\* and leaves out the amounts that are not positive.
Requested(t) == {i \in Item : Amount[t][i] > 0}

\* The fields item_<id> of the record's hash.
Fields(t) == {i \in Item : locked[t][i] > 0}

Goto(r, label) == pc' = [pc EXCEPT ![r] = label]

Init ==
  /\ created = {i \in Item : InitStock[i] > 0}
  /\ stock = InitStock
  /\ supply = InitStock
  /\ txState = [t \in Tx |-> TxNone]
  /\ locked = [t \in Tx |-> [i \in Item |-> 0]]
  /\ lockedPrice = [t \in Tx |-> NoPrice]
  /\ pc = [r \in Request |-> "idle"]
  /\ todo = [r \in Request |-> {}]
  /\ quote = [r \in Request |-> 0]

-----------------------------------------------------------------------------
(* Items: stock/handle.go                                                  *)

\* Both keys are set in one MULTI, under a fresh id.
CreateItem(i) ==
  /\ i \notin created
  /\ created' = created \cup {i}
  /\ UNCHANGED <<stock, supply, lockVars, reqVars>>

\* /add and /subtract: LuaIncrByIfGe0XX.  A missing key or a negative result
\* changes nothing and is answered 404.
IncrByIfGe0XX(i, delta) ==
  /\ i \in created
  /\ stock[i] + delta >= 0
  /\ supply[i] + delta <= MaxSupply
  /\ stock' = [stock EXCEPT ![i] = @ + delta]
  /\ supply' = [supply EXCEPT ![i] = @ + delta]
  /\ UNCHANGED <<created, lockVars, reqVars>>

-----------------------------------------------------------------------------
(* prepareCkTx                                                             *)

\* Mutants of OnState: a duplicate reads the price while the owner is still
\* adding to it; is refused while the owner goes on; waits for an abort to end.
OnStateImpatient(s) ==
  IF s = TxAborted THEN "rejected" ELSE "readPrice"

OnStateRefuses(s) ==
  IF s \in {TxPreparing, TxAborted} THEN "rejected" ELSE "readPrice"

OnStateForgetsAbort(s) ==
  IF s \in {TxPreparing, TxAborted} THEN "wait" ELSE "readPrice"

\* Where prepareCkTx goes once it has read a state that is not "".
OnState(s) ==
  IF s = TxPreparing THEN "wait" ELSE IF s = TxAborted THEN "rejected" ELSE "readPrice"

\* What luaPrepareCkTx writes when it finds no state.
TakeOver(t) ==
  /\ txState' = [txState EXCEPT ![t] = TxPreparing]
  /\ locked' = [locked EXCEPT ![t] = [i \in Item |-> 0]]
  /\ lockedPrice' = [lockedPrice EXCEPT ![t] = 0]

\* The request that finds no state owns the transaction from here on.
PrepareCkTx(r) ==
  LET t == TxOf[r] IN
  /\ pc[r] = "idle"
  /\ IF txState[t] = TxNone
     THEN /\ TakeOver(t)
          /\ todo' = [todo EXCEPT ![r] = Requested(t)]
          /\ Goto(r, "move")
     ELSE /\ Goto(r, OnState(txState[t]))
          /\ UNCHANGED <<lockVars, todo>>
  /\ UNCHANGED <<itemVars, quote>>

\* Poll the state every few milliseconds until the owner has moved it on.
WaitPrepared(r) ==
  /\ pc[r] = "wait"
  /\ txState[TxOf[r]] # TxPreparing
  /\ Goto(r, OnState(txState[TxOf[r]]))
  /\ UNCHANGED <<itemVars, lockVars, todo, quote>>

\* A minute has passed.
WaitTimeout(r) ==
  /\ pc[r] = "wait"
  /\ Goto(r, "failed")
  /\ UNCHANGED <<itemVars, lockVars, todo, quote>>

\* HGET price: a command of its own, so an abort may have come in between.
ReadPrice(r) ==
  LET p == lockedPrice[TxOf[r]] IN
  /\ pc[r] = "readPrice"
  /\ IF p = NoPrice
     THEN Goto(r, "failed") /\ UNCHANGED quote
     ELSE Goto(r, "ok") /\ quote' = [quote EXCEPT ![r] = p]
  /\ UNCHANGED <<itemVars, lockVars, todo>>

\* Mutant: the script decrements whatever is there.
InStockUnchecked(t, i) == i \in created

\* The script's test of item_<id>:stock.
InStock(t, i) == i \in created /\ stock[i] >= Amount[t][i]

\* Mutant: nobody looks whether an abort has come in between.
StillPreparingUnchecked(t) == TRUE

\* The first test of the scripts that carry on a preparation.
StillPreparing(t) == txState[t] = TxPreparing

\* The answer to the owner that is no longer preparing.
Overtaken(t) == IF txState[t] = TxAborted THEN "rejected" ELSE "failed"

\* What luaPrepareCkTxMove writes.
Move(t, i) ==
  /\ stock' = [stock EXCEPT ![i] = @ - Amount[t][i]]
  /\ locked' = [locked EXCEPT ![t][i] = Amount[t][i]]
  /\ lockedPrice' = [lockedPrice EXCEPT ![t] = @ + Price[i] * Amount[t][i]]

\* luaPrepareCkTxMove on one item, and the handler's switch on its answer.
PrepareCkTxMove(r, i) ==
  LET t == TxOf[r] IN
  /\ pc[r] = "move" /\ i \in todo[r]
  /\ IF ~StillPreparing(t)
     THEN /\ Goto(r, Overtaken(t))
          /\ UNCHANGED <<stock, locked, lockedPrice, todo>>
     ELSE IF ~InStock(t, i)
     THEN /\ Goto(r, "abort")
          /\ UNCHANGED <<stock, locked, lockedPrice, todo>>
     ELSE /\ Move(t, i)
          /\ todo' = [todo EXCEPT ![r] = @ \ {i}]
          /\ UNCHANGED pc
  /\ UNCHANGED <<created, supply, txState, quote>>

\* All items are moved.
AcknowledgeCkTx(r) ==
  LET t == TxOf[r] IN
  /\ pc[r] = "move" /\ todo[r] = {}
  /\ IF StillPreparing(t)
     THEN /\ txState' = [txState EXCEPT ![t] = TxAcknowledged]
          /\ quote' = [quote EXCEPT ![r] = lockedPrice[t]]
          /\ Goto(r, "ok")
     ELSE Goto(r, Overtaken(t)) /\ UNCHANGED <<txState, quote>>
  /\ UNCHANGED <<itemVars, locked, lockedPrice, todo>>

-----------------------------------------------------------------------------
(* commitCkTx: one script, and nobody reads its answer.                    *)

\* Mutant: the fields item_<id> are not deleted.
CommitCkTxKeepsFields(t) ==
  /\ txState[t] = TxAcknowledged
  /\ txState' = [txState EXCEPT ![t] = TxCommitted]
  /\ UNCHANGED <<itemVars, locked, lockedPrice, reqVars>>

CommitCkTx(t) ==
  /\ txState[t] = TxAcknowledged
  /\ txState' = [txState EXCEPT ![t] = TxCommitted]
  /\ locked' = [locked EXCEPT ![t] = [i \in Item |-> 0]]
  /\ UNCHANGED <<itemVars, lockedPrice, reqVars>>

-----------------------------------------------------------------------------
(* abtThenRollback: the body of abortCkTx, and what prepareCkTx runs when  *)
(* an item is out of stock.                                                *)

\* The answer once abtThenRollback has returned nil.
RolledBack(r) == IF r \in AbortReq THEN "ok" ELSE "rejected"

\* Mutant: only a preparation is rolled back.
MustRollBackPreparing(s) == s = TxPreparing

MustRollBack(s) == s \in {TxPreparing, TxAcknowledged}

\* luaAbortCkTx, and the handler's switch on the state that it found.
AbortCkTx(r) ==
  LET t == TxOf[r]
      found == txState[t]
  IN
  /\ pc[r] = IF r \in AbortReq THEN "idle" ELSE "abort"
  /\ IF found = TxCommitted
     THEN Goto(r, "failed") /\ UNCHANGED <<txState, lockedPrice>>
     ELSE /\ txState' = [txState EXCEPT ![t] = TxAborted]
          /\ lockedPrice' = [lockedPrice EXCEPT ![t] = NoPrice]
          /\ Goto(r, IF MustRollBack(found) THEN "scan" ELSE RolledBack(r))
  /\ UNCHANGED <<itemVars, locked, todo, quote>>

\* What HSCAN may return: fields that are gone are not repeated, and the cursor
\* is 0 with the page that has what is left.  (A page without fields and with a
\* cursor changes nothing.)
Pages(t) == {page \in SUBSET Fields(t) : ~Paged \/ page = {} => page = Fields(t)}

\* rollbackStock: HSCAN of the next page.
HScan(r) ==
  LET fields == Fields(TxOf[r]) IN
  /\ pc[r] = "scan"
  /\ \E page \in Pages(TxOf[r]) :
       /\ todo' = [todo EXCEPT ![r] = page]
       /\ Goto(r, IF page # fields THEN "rollbackMore"
                  ELSE IF page = {} THEN RolledBack(r) ELSE "rollback")
  /\ UNCHANGED <<itemVars, lockVars, quote>>

\* Mutant: the pages that follow the first are forgotten.
AfterPageFirstOnly(r, label) ==
  IF label = "rollbackNil" THEN "failed" ELSE RolledBack(r)

\* Where rollbackStock goes after the pipeline of a page.  Exec returns the
\* first nil as an error.
AfterPage(r, label) ==
  IF label = "rollbackNil" THEN "failed"
  ELSE IF label = "rollbackMore" THEN "scan" ELSE RolledBack(r)

\* Mutant: the fields are left for later.
GiveBackKeepsField(t, i) ==
  /\ stock' = [stock EXCEPT ![i] = @ + locked[t][i]]
  /\ UNCHANGED locked

\* Mutant: the field is deleted before its value is read.
GiveBackDeletedFirst(t, i) ==
  /\ locked' = [locked EXCEPT ![t][i] = 0]
  /\ UNCHANGED stock

\* INCRBY and HDEL of luaAbortCkTxRollback.  (Nothing to add: the field is gone.)
GiveBack(t, i) ==
  /\ stock' = [stock EXCEPT ![i] = @ + locked[t][i]]
  /\ locked' = [locked EXCEPT ![t][i] = 0]

\* The pipeline is not a transaction: other clients' commands fall between
\* the rollback scripts of two items.
AbortCkTxRollback(r, i) ==
  LET t == TxOf[r]
      nil == txState[t] = TxAborted /\ i \notin Fields(t)
      label == IF nil THEN "rollbackNil" ELSE pc[r]
  IN
  /\ pc[r] \in InPage /\ i \in todo[r]
  /\ IF txState[t] = TxAborted THEN GiveBack(t, i) ELSE UNCHANGED <<stock, locked>>
  /\ todo' = [todo EXCEPT ![r] = @ \ {i}]
  /\ Goto(r, IF todo[r] = {i} THEN AfterPage(r, label) ELSE label)
  /\ UNCHANGED <<created, supply, txState, lockedPrice, quote>>

-----------------------------------------------------------------------------
\* A command returns an error, or the process dies: the handler goes no further
\* and nothing it has written is undone.
Fail(r) ==
  /\ Failures
  /\ pc[r] \notin Answered \cup {"idle"}
  /\ Goto(r, "failed")
  /\ UNCHANGED <<itemVars, lockVars, todo, quote>>

\* What a started handler does next, the minute's timeout apart.
Proceed(r) ==
  \/ /\ r \in PrepareReq
     /\ \/ WaitPrepared(r) \/ ReadPrice(r) \/ AcknowledgeCkTx(r) \/ AbortCkTx(r)
        \/ \E i \in Item : PrepareCkTxMove(r, i)
  \/ HScan(r) \/ \E i \in Item : AbortCkTxRollback(r, i)

Next ==
  \/ \E i \in Item : CreateItem(i) \/ \E d \in Delta : IncrByIfGe0XX(i, d)
  \/ \E r \in PrepareReq : PrepareCkTx(r) \/ WaitTimeout(r)
  \/ \E r \in AbortReq : AbortCkTx(r)
  \/ \E r \in Request : Proceed(r) \/ Fail(r)
  \/ \E t \in Tx : CommitCkTx(t)

Spec == Init /\ [][Next]_vars

-----------------------------------------------------------------------------
(* Properties                                                              *)

\* The keys hold what their commands can read back; stock and locked amounts
\* are never negative (the guards of the scripts in stock/lua.go).
TypeOK ==
  /\ created \subseteq Item
  /\ stock \in [Item -> Nat]
  /\ supply \in [Item -> Int]
  /\ txState \in [Tx -> TxState]
  /\ locked \in [Tx -> [Item -> Nat]]
  /\ lockedPrice \in [Tx -> Nat \cup {NoPrice}]
  /\ pc \in [Request -> Label]
  /\ todo \in [Request -> SUBSET Item]
  /\ quote \in [Request -> Nat]

\* What the hashes hold of an item, and what the committed records have sold.
HeldOf(i) == SumFunction([t \in Tx |-> locked[t][i]])
SoldOf(i) == SumFunction([t \in Tx |-> IF txState[t] = TxCommitted THEN Amount[t][i] ELSE 0])

\* What the items of a record's request cost.
CostOf(t) == SumFunction([i \in Item |-> Price[i] * Amount[t][i]])

\* No unit of an item is lost or made: it is on the shelf, held by a record's
\* hash, or sold by a committed record, whatever the interleaving of moves,
\* rollbacks, commits and restocking, and wherever a handler stops.
StockConserved ==
  \A i \in Item : supply[i] = stock[i] + HeldOf(i) + SoldOf(i)

\* The incremental moves add up to all or nothing: a record the coordinator
\* may commit (ACK) holds exactly the items of its request.
AcknowledgedHoldsCart ==
  \A t \in Tx : txState[t] = TxAcknowledged => locked[t] = Amount[t]

\* The price a prepare request is answered, by the owner or by a duplicate that
\* read it from the hash, is that of the whole request.
QuoteIsCost ==
  \A r \in PrepareReq : pc[r] = "ok" => quote[r] = CostOf(TxOf[r])

\* "results of multiple calls should be consistent" (stock/transaction.go:46):
\* two prepare requests of one transaction that are both answered 200 are told
\* the same price, and none is refused where another is answered 200 unless an
\* abort request came for that transaction.  (500 tells no result.)
AnswersAgree ==
  \A r1, r2 \in PrepareReq :
    TxOf[r1] = TxOf[r2] /\ pc[r1] = "ok" =>
      /\ pc[r2] = "ok" => quote[r1] = quote[r2]
      /\ pc[r2] = "rejected" =>
           \E a \in AbortReq : TxOf[a] = TxOf[r1] /\ pc[a] # "idle"

\* An aborted record holds items only as long as the one handler that aborted
\* it is giving them back (or stopped while doing so).
AbortedIsBeingRolledBack ==
  \A t \in Tx :
    txState[t] = TxAborted /\ Fields(t) # {} =>
      \E r \in Request :
        /\ TxOf[r] = t
        /\ pc[r] \in {"scan"} \cup InPage \/ (Failures /\ pc[r] = "failed")

\* A record only moves along the arrows of common/transaction.go:11-19.
StockLifecycle ==
  [][\A t \in Tx : txState'[t] # txState[t] => Arrow(txState[t], txState'[t])]_txState

=============================================================================
