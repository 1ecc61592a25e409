----------------------------- MODULE StockRetry -----------------------------
(***************************************************************************)
(* The stock service over a connection that loses answers.  The Redis      *)
(* client (stock/redis.go) sends a command again when the connection fails *)
(* before the answer has come, also when the server has executed it.  Here *)
(* each script may be executed without its handler hearing of it; the next *)
(* step of the handler is then the repetition, which is an action of       *)
(* StockTx: the handler answers for that one.  No action is needed for the *)
(* scripts of the commit, which change nothing when they find their own    *)
(* result, nor for the MULTI that creates an item, which writes the same   *)
(* values twice under an id that nobody has been told.                     *)
(***************************************************************************)
EXTENDS StockTx

CONSTANT MaxRepeats  \* bound: this many commands are repeated

ASSUME RetryConstants == MaxRepeats \in Nat

VARIABLES
  repeats,    \* how many commands have been repeated so far
  repeated    \* history: which scripts

retryVars == <<vars, repeats, repeated>>

RetryInit == Init /\ repeats = 0 /\ repeated = {}

-----------------------------------------------------------------------------
\* The answer of a script that has just run does not arrive.
AnswerLost(script) ==
  /\ repeats < MaxRepeats
  /\ repeats' = repeats + 1
  /\ repeated' = repeated \cup {script}

\* /add and /subtract, named for the sign of the amount.  What is executed here is
\* not in supply, which counts what requests have been granted, each once.
IncrByIfGe0XXLost(i, delta) ==
  /\ i \in created
  /\ stock[i] + delta >= 0
  /\ supply[i] + delta <= MaxSupply
  /\ stock' = [stock EXCEPT ![i] = @ + delta]
  /\ UNCHANGED <<created, supply, lockVars, reqVars>>
  /\ AnswerLost(IF delta > 0 THEN "add" ELSE "subtract")

\* The record has an owner now that will take itself for a duplicate.
PrepareCkTxLost(r) ==
  LET t == TxOf[r] IN
  /\ pc[r] = "idle" /\ txState[t] = TxNone
  /\ TakeOver(t)
  /\ UNCHANGED <<itemVars, reqVars>>
  /\ AnswerLost("prepare")

\* The item will be moved again.
PrepareCkTxMoveLost(r, i) ==
  LET t == TxOf[r] IN
  /\ pc[r] = "move" /\ i \in todo[r]
  /\ StillPreparing(t) /\ InStock(t, i)
  /\ Move(t, i)
  /\ UNCHANGED <<created, supply, txState, reqVars>>
  /\ AnswerLost("move")

\* The owner will find the state that it has written.
AcknowledgeCkTxLost(r) ==
  LET t == TxOf[r] IN
  /\ pc[r] = "move" /\ todo[r] = {} /\ StillPreparing(t)
  /\ txState' = [txState EXCEPT ![t] = TxAcknowledged]
  /\ UNCHANGED <<itemVars, locked, lockedPrice, reqVars>>
  /\ AnswerLost("acknowledge")

\* The handler will find an aborted record and leave the rollback to others.
AbortCkTxLost(r) ==
  LET t == TxOf[r] IN
  /\ pc[r] = IF r \in AbortReq THEN "idle" ELSE "abort"
  /\ MustRollBack(txState[t])
  /\ txState' = [txState EXCEPT ![t] = TxAborted]
  /\ lockedPrice' = [lockedPrice EXCEPT ![t] = NoPrice]
  /\ UNCHANGED <<itemVars, locked, reqVars>>
  /\ AnswerLost("abort")

\* A pipeline is repeated as a whole: some of its scripts run twice.
AbortCkTxRollbackLost(r, i) ==
  LET t == TxOf[r] IN
  /\ pc[r] \in InPage /\ i \in todo[r] \cap Fields(t)
  /\ txState[t] = TxAborted
  /\ GiveBack(t, i)
  /\ UNCHANGED <<created, supply, txState, lockedPrice, reqVars>>
  /\ AnswerLost("rollback")

-----------------------------------------------------------------------------
RetryNext ==
  \/ Next /\ UNCHANGED <<repeats, repeated>>
  \/ \E i \in Item, d \in Delta : IncrByIfGe0XXLost(i, d)
  \/ \E r \in PrepareReq :
       \/ PrepareCkTxLost(r) \/ AcknowledgeCkTxLost(r)
       \/ \E i \in Item : PrepareCkTxMoveLost(r, i)
  \/ \E r \in Request :
       AbortCkTxLost(r) \/ \E i \in Item : AbortCkTxRollbackLost(r, i)

RetrySpec == RetryInit /\ [][RetryNext]_retryVars

\* Go schedules every goroutine and Redis answers every command; nothing says
\* that a client sends a request or that the minute runs out.
RetryFairSpec ==
  RetrySpec /\ \A r \in Request :
                 WF_retryVars(Proceed(r) /\ UNCHANGED <<repeats, repeated>>)

-----------------------------------------------------------------------------
(* Properties                                                              *)

\* What has been supplied is on the shelf, held by a record or sold; no more.
Accounted(i) == stock[i] + HeldOf(i) + SoldOf(i)

\* Of the repeated scripts only that of /add makes units of an item, since it
\* adds to whatever it finds (common/lua.go:12).  Those of a transaction
\* make none: none is given back twice or sold while it is on the shelf, because
\* luaAbortCkTxRollback deletes the field it has given back (stock/lua.go:148).
OnlyAddsMake == "add" \notin repeated => \A i \in Item : Accounted(i) <= supply[i]

\* Of the repeated scripts only those of /subtract and luaPrepareCkTxMove lose
\* units; luaPrepareCkTxMove decrements the stock and adds to the price again,
\* but only sets the amount, so that it alone also spoils the price told.
OnlyMovesAndSubtractsLose ==
  /\ repeated \cap {"move", "subtract"} = {} => \A i \in Item : supply[i] <= Accounted(i)
  /\ "move" \notin repeated => QuoteIsCost

\* Whatever an aborted record holds goes back on the shelf, in however many
\* pages, unless the command that aborted it was repeated, so that its handler
\* leaves the rollback to others, or a pipeline of the rollback: its second run
\* returns nil, which ends rollbackStock (stock/transaction.go:278-284).
OnlyRepeatedAbortsStrand ==
  \A t \in Tx :
    txState[t] = TxAborted ~> Fields(t) = {} \/ repeated \cap {"abort", "rollback"} # {}

\* Every request that has arrived is answered, a duplicate that waits for the
\* owner of its transaction included, without the help of the minute's timeout;
\* unless luaPrepareCkTx was repeated, so that the owner waits for itself.
OnlyRepeatedPreparesHang ==
  \A r \in Request : pc[r] # "idle" ~> pc[r] \in Answered \/ "prepare" \in repeated

=============================================================================
