---------------------------- MODULE SendRequests ----------------------------
(***************************************************************************)
(* The stock phase of a checkout as the order service runs it              *)
(* (order/checkout_prepare.go): prepareCkTxStockSendRequests starts one    *)
(* goroutine per database, collects what they send on two unbuffered       *)
(* channels and tells the handler, which waits on a third.  The goroutines *)
(* share the flag "abort" and nothing else.  Everything before and after   *)
(* is that of OrderTx, whose variables prep and price serve here as a      *)
(* record of what has happened: no step of the goroutines or of the        *)
(* collector reads them.                                                   *)
(***************************************************************************)
EXTENDS OrderTx, FiniteSets

\* A cart is a finite map.
ASSUME SendConstants == IsFiniteSet(Db)

VARIABLES
  sender,       \* where prepareCkTxStockSendRequests stands
  rest,         \* the requests its first loop has not come to
  run,          \* where the goroutine of a request stands
  abort,        \* the flag
  quoted,       \* the price a goroutine has read
  left,         \* count - i: what is still to be received
  total,        \* totalPrice
  hasErr        \* an error has been passed on

collectVars == <<left, total, hasErr>>
sendVars    == <<sender, rest, run, abort, quoted, collectVars>>
allVars     == <<vars, sendVars>>

\* Goroutines that are blocked until the collector receives from them.
Sending == {"sendOk", "sendErr"}

\* Started, and not at the end of their function.
Alive == {"started", "posting", "reading", "failing"} \cup Sending

RunTo(t, d, label) == run' = [run EXCEPT ![t][d] = label]

SendInit ==
  /\ Init
  /\ sender = [t \in Tx |-> "none"]
  /\ rest = DbsOf
  /\ run = [t \in Tx |-> [d \in Db |-> "none"]]
  /\ abort = [t \in Tx |-> FALSE]
  /\ quoted = [t \in Tx |-> [d \in Db |-> 0]]
  /\ left = [t \in Tx |-> 0]
  /\ total = [t \in Tx |-> 0]
  /\ hasErr = [t \in Tx |-> FALSE]

\* The order is locked, and prepareCkTxStock starts the sender.
Begin(t) ==
  /\ PrepareCkTx(t)
  /\ sender' = [sender EXCEPT ![t] = IF pc'[t] = "stock" THEN "loop" ELSE @]
  /\ UNCHANGED <<rest, run, abort, quoted, collectVars>>

-----------------------------------------------------------------------------
(* The first loop: a goroutine for each request, until the flag is seen.   *)

Start(t, d) ==
  /\ sender[t] = "loop" /\ d \in rest[t] /\ ~abort[t]
  /\ rest' = [rest EXCEPT ![t] = @ \ {d}]
  /\ RunTo(t, d, "started")
  /\ left' = [left EXCEPT ![t] = @ + 1]
  /\ UNCHANGED <<vars, sender, abort, quoted, total, hasErr>>

EndLoop(t) ==
  /\ sender[t] = "loop" /\ (abort[t] \/ rest[t] = {})
  /\ sender' = [sender EXCEPT ![t] = "collect"]
  /\ UNCHANGED <<vars, rest, run, abort, quoted, collectVars>>

-----------------------------------------------------------------------------
(* A goroutine.  The flag is read before the request is made and when      *)
(* http.Post is back, and raised by whoever meets an error.                *)

\* Mutant: the flag is not looked at.
CheckSkipped(t, d) ==
  /\ run[t][d] = "started"
  /\ RunTo(t, d, "posting")
  /\ prep' = [prep EXCEPT ![t][d] = "sent"]
  /\ UNCHANGED <<orderVars, pc, abrt, price, sender, rest, abort, quoted, collectVars>>

Check(t, d) ==
  /\ run[t][d] = "started"
  /\ IF abort[t]
     THEN RunTo(t, d, "sendErr") /\ UNCHANGED prep
     ELSE RunTo(t, d, "posting") /\ prep' = [prep EXCEPT ![t][d] = "sent"]
  /\ UNCHANGED <<orderVars, pc, abrt, price, sender, rest, abort, quoted, collectVars>>

\* Mutant: a goroutine that sees the flag returns and sends nothing.
PostReturnsSilently(t, d) ==
  /\ run[t][d] = "posting"
  /\ \/ abort[t] /\ RunTo(t, d, "ended")
     \/ ~abort[t] /\ \E label \in {"reading", "failing"} : RunTo(t, d, label)
  /\ UNCHANGED <<vars, sender, rest, abort, quoted, collectVars>>

\* A 200, or else another status or an error of the call; but once the flag is
\* up the answer is not looked at.
PostReturns(t, d) ==
  /\ run[t][d] = "posting"
  /\ \/ abort[t] /\ RunTo(t, d, "sendErr")
     \/ ~abort[t] /\ \E label \in {"reading", "failing"} : RunTo(t, d, label)
  /\ UNCHANGED <<vars, sender, rest, abort, quoted, collectVars>>

\* The body of a 200 is read without looking at the flag again.  The database
\* counts as prepared unless somebody has failed before.
ReadBody(t, d, quote) ==
  /\ run[t][d] = "reading"
  /\ RunTo(t, d, "sendOk")
  /\ quoted' = [quoted EXCEPT ![t][d] = quote]
  /\ IF abort[t]
     THEN UNCHANGED <<prep, price>>
     ELSE /\ prep' = [prep EXCEPT ![t][d] = "ok"]
          /\ price' = [price EXCEPT ![t] = @ + quote]
  /\ UNCHANGED <<orderVars, pc, abrt, sender, rest, abort, collectVars>>

ReadFails(t, d) ==
  /\ run[t][d] = "reading"
  /\ RunTo(t, d, "failing")
  /\ UNCHANGED <<vars, sender, rest, abort, quoted, collectVars>>

\* abort.Store(true).  Several goroutines may get here: the first one is the
\* error of the phase.
RaiseAbort(t, d) ==
  /\ run[t][d] = "failing"
  /\ RunTo(t, d, "sendErr")
  /\ abort' = [abort EXCEPT ![t] = TRUE]
  /\ prep' = [prep EXCEPT ![t][d] = IF abort[t] THEN @ ELSE "err"]
  /\ UNCHANGED <<orderVars, pc, abrt, price, sender, rest, quoted, collectVars>>

-----------------------------------------------------------------------------
(* The second loop: as many messages as goroutines, in any order.          *)

\* Mutant: the last price instead of the sum.
CollectLast(t, d) ==
  /\ sender[t] = "collect" /\ left[t] > 0 /\ run[t][d] = "sendOk"
  /\ RunTo(t, d, "ended")
  /\ left' = [left EXCEPT ![t] = @ - 1]
  /\ total' = [total EXCEPT ![t] = quoted[t][d]]
  /\ UNCHANGED <<vars, sender, rest, abort, quoted, hasErr>>

CollectOk(t, d) ==
  /\ sender[t] = "collect" /\ left[t] > 0 /\ run[t][d] = "sendOk"
  /\ RunTo(t, d, "ended")
  /\ left' = [left EXCEPT ![t] = @ - 1]
  /\ total' = [total EXCEPT ![t] = @ + quoted[t][d]]
  /\ UNCHANGED <<vars, sender, rest, abort, quoted, hasErr>>

CollectErr(t, d) ==
  /\ sender[t] = "collect" /\ left[t] > 0 /\ run[t][d] = "sendErr"
  /\ RunTo(t, d, "ended")
  /\ left' = [left EXCEPT ![t] = @ - 1]
  /\ sender' = [sender EXCEPT ![t] = IF hasErr[t] THEN @ ELSE "forward"]
  /\ UNCHANGED <<vars, rest, abort, quoted, total, hasErr>>

\* Mutant: the collector returns with the first error, as findOrder does.
ForwardAndReturn(t) ==
  /\ sender[t] = "forward" /\ pc[t] = "stock"
  /\ AbortStock(t)
  /\ hasErr' = [hasErr EXCEPT ![t] = TRUE]
  /\ sender' = [sender EXCEPT ![t] = "ended"]
  /\ UNCHANGED <<orderVars, prep, price, rest, run, abort, quoted, left, total>>

\* The first error is passed on at once; the handler goes on to abort while the
\* other goroutines are still being collected.
Forward(t) ==
  /\ sender[t] = "forward" /\ pc[t] = "stock"
  /\ AbortStock(t)
  /\ hasErr' = [hasErr EXCEPT ![t] = TRUE]
  /\ sender' = [sender EXCEPT ![t] = "collect"]
  /\ UNCHANGED <<orderVars, prep, price, rest, run, abort, quoted, left, total>>

\* Mutant: the second loop ends one message early.
FinishOneEarly(t) ==
  /\ sender[t] = "collect" /\ left[t] <= 1
  /\ sender' = [sender EXCEPT ![t] = "ended"]
  /\ IF hasErr[t]
     THEN UNCHANGED <<pc, prep, price>>
     ELSE /\ pc[t] = "stock" /\ Goto(t, "payment")
          /\ prep' = [prep EXCEPT ![t][Payment] = "sent"]
          /\ price' = [price EXCEPT ![t] = total[t]]
  /\ UNCHANGED <<orderVars, abrt, rest, run, abort, quoted, collectVars>>

\* "OK " and the sum, which the handler takes to the payment service.
Finish(t) ==
  /\ sender[t] = "collect" /\ left[t] = 0
  /\ sender' = [sender EXCEPT ![t] = "ended"]
  /\ IF hasErr[t]
     THEN UNCHANGED <<pc, prep, price>>
     ELSE /\ pc[t] = "stock" /\ Goto(t, "payment")
          /\ prep' = [prep EXCEPT ![t][Payment] = "sent"]
          /\ price' = [price EXCEPT ![t] = total[t]]
  /\ UNCHANGED <<orderVars, abrt, rest, run, abort, quoted, collectVars>>

-----------------------------------------------------------------------------
\* Goroutines stop with the process, and only with it: when a script fails they
\* go on.  In the stock phase nothing but the end of the process stops a handler.
FailSending(t) ==
  /\ Fail(t)
  /\ \/ /\ sender' = [sender EXCEPT ![t] = "ended"]
        /\ run' = [run EXCEPT ![t] = [d \in Db |-> IF @[d] \in Alive THEN "killed" ELSE @[d]]]
     \/ pc[t] # "stock" /\ UNCHANGED <<sender, run>>
  /\ UNCHANGED <<rest, abort, quoted, collectVars>>

Goroutine(t, d) ==
  \/ Check(t, d) \/ PostReturns(t, d) \/ ReadFails(t, d) \/ RaiseAbort(t, d)
  \/ \E q \in Quote : ReadBody(t, d, q)

Sender(t) ==
  \/ EndLoop(t) \/ Forward(t) \/ Finish(t)
  \/ \E d \in Db : Start(t, d) \/ CollectOk(t, d) \/ CollectErr(t, d)

\* The rest of the checkout is that of OrderTx.
Handler(t) ==
  /\ \/ PaymentAborted(t) \/ AbortCkTx(t) \/ AcknowledgeCkTx(t) \/ CommitCkTx(t)
     \/ PaymentAccepts(t) \/ PaymentRefuses(t)
     \/ \E p \in Participants(t) : AbortAnswered(t, p)
  /\ UNCHANGED sendVars

SendNext ==
  \/ \E o \in Order : (CreateOrder(o) \/ RemoveOrder(o)) /\ UNCHANGED sendVars
  \/ \E t \in Tx :
       \/ Begin(t) \/ Sender(t) \/ Handler(t) \/ FailSending(t)
       \/ \E d \in Db : Goroutine(t, d)

SendSpec == SendInit /\ [][SendNext]_allVars

\* Goroutines are scheduled, and every call is answered at last.
SendFairSpec ==
  /\ SendSpec
  /\ \A t \in Tx :
       /\ WF_allVars(Sender(t)) /\ WF_allVars(Handler(t))
       /\ \A d \in Db : WF_allVars(Goroutine(t, d))

-----------------------------------------------------------------------------
(* Properties                                                              *)

\* The local variables of the sender and of its goroutines; the count never
\* exceeds the number of requests the loop has come to.
SendTypeOK ==
  /\ sender \in [Tx -> {"none", "loop", "collect", "forward", "ended"}]
  /\ run \in [Tx -> [Db -> {"none", "ended", "killed"} \cup Alive]]
  /\ abort \in [Tx -> BOOLEAN] /\ hasErr \in [Tx -> BOOLEAN]
  /\ quoted \in [Tx -> [Db -> Quote \cup {0}]]
  /\ total \in [Tx -> Nat] /\ left \in [Tx -> Nat]
  /\ rest \in [Tx -> SUBSET Db]
  /\ \A t \in Tx : left[t] <= Cardinality(DbsOf[t] \ rest[t])

\* The sender receives exactly as many messages as there are goroutines: it is
\* never left waiting for one that has returned, and no goroutine is left
\* blocked on a channel nobody receives from (order/checkout_prepare.go:200).
EveryMessageReceived ==
  \A t \in Tx : left[t] = Cardinality({d \in Db : run[t][d] \in Alive})
                \/ \E d \in Db : run[t][d] = "killed"

\* When the handler has been told OK no request to a stock database is still
\* under way, so none can come after the commit; and all of them were answered
\* with 200, whatever the order in which flag, answers and messages came.
SettledBeforePayment ==
  \A t \in Tx : pc[t] \in {"payment", "acknowledge", "commit"} =>
    \A d \in DbsOf[t] : run[t][d] = "ended" /\ prep[t][d] = "ok" /\ ~abort[t]

\* Every goroutine that is started ends, also when the handler has long been
\* told of an error and aborted the transaction.
EveryGoroutineEnds ==
  \A t \in Tx : \A d \in Db :
    run[t][d] = "started" ~> run[t][d] \in {"ended", "killed"}

\* Without an error, what has been received at the end is the sum of what the
\* databases have answered, no price left out or counted twice.
TotalIsSum ==
  \A t \in Tx : sender[t] = "collect" /\ left[t] = 0 /\ ~hasErr[t] => total[t] = price[t]

\* The phase with its flag, channels and goroutines is the phase of OrderTx, in
\* which a database is asked only as long as nobody has failed, the first error
\* decides, and payment is asked for the sum of what all databases answered.
ImplementsOrderTx == FairSpec

=============================================================================
