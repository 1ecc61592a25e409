--------------------------- MODULE OrderTxProofs ---------------------------
(***************************************************************************)
(* Proofs about OrderTx, for every set of orders, transactions and stock   *)
(* databases, whatever the participants answer and wherever a handler      *)
(* stops; and about SendRequests, that the collector and the goroutines    *)
(* neither wait for each other in vain nor leave anyone behind, that       *)
(* payment is asked only when all databases have answered, and for the sum *)
(* of what they answered, so that the stock phase with its goroutines      *)
(* implements that of OrderTx.                                             *)
(***************************************************************************)
EXTENDS SendRequests, SumProofs, TLAPS

\* The five states are different from each other.
LEMMA StatesDiffer ==
  /\ TxState = {TxNone, TxPreparing, TxAcknowledged, TxCommitted, TxAborted}
  /\ TxNone # TxPreparing /\ TxNone # TxAcknowledged /\ TxNone # TxCommitted
  /\ TxNone # TxAborted /\ TxPreparing # TxAcknowledged /\ TxPreparing # TxCommitted
  /\ TxPreparing # TxAborted /\ TxAcknowledged # TxCommitted
  /\ TxAcknowledged # TxAborted /\ TxCommitted # TxAborted
BY DEF TxState, TxNone, TxPreparing, TxAcknowledged, TxCommitted, TxAborted

\* The handler of one transaction takes a step, or a call of its own ends.
Asking(t) ==
  \/ \E d \in DbsOf[t] : PostPrepare(t, d)
  \/ \E d \in DbsOf[t] : StockRefuses(t, d)
  \/ \E d \in DbsOf[t] : \E q \in Quote : StockAccepts(t, d, q)
  \/ StockPrepared(t) \/ PaymentAccepts(t)

Aborting(t) ==
  \/ StockRefused(t) \/ PaymentRefuses(t) \/ PaymentAborted(t)
  \/ \E p \in Participants(t) : AbortAnswered(t, p)

Step(t) ==
  \/ PrepareCkTx(t) \/ Asking(t) \/ Aborting(t)
  \/ AbortCkTx(t) \/ AcknowledgeCkTx(t) \/ CommitCkTx(t) \/ Fail(t)

\* Every step of the coordinator is one of these.
LEMMA Steps ==
  [Next]_vars =>
    \/ \E o \in Order : CreateOrder(o) \/ RemoveOrder(o)
    \/ \E t \in Tx : Step(t)
    \/ UNCHANGED vars
BY DEF Next, Proceed, CallAnswered, Step, Asking, Aborting

-----------------------------------------------------------------------------
(* Type correctness                                                        *)

\* The keys have their types at the start.
LEMMA TypedInit == Init => TypeOK
BY OrderConstants, StatesDiffer DEF Init, TypeOK, Answered

\* Every step keeps them.
LEMMA TypedStep == TypeOK /\ [Next]_vars => TypeOK'
<1> SUFFICES ASSUME TypeOK, [Next]_vars PROVE TypeOK'
  OBVIOUS
<1> USE OrderConstants, StatesDiffer DEF TypeOK, Answered, Goto, orderVars, callVars
<1>0. CASE UNCHANGED vars
  BY <1>0 DEF vars
<1>1. ASSUME NEW o \in Order, CreateOrder(o) \/ RemoveOrder(o) PROVE TypeOK'
  BY <1>1 DEF CreateOrder, RemoveOrder
<1>2. ASSUME NEW t \in Tx, PrepareCkTx(t) PROVE TypeOK'
  <2>1. pc' \in [Tx -> {"idle", "stock", "payment", "abortPayment", "abortStock",
                        "acknowledge", "commit"} \cup Answered]
    BY <1>2 DEF PrepareCkTx, AnswerIfLocked
  <2>2. ckTx' \in [Order -> Tx \cup {NoTx}] /\ txState' \in [Tx -> TxState]
    <3>1. CASE UNCHANGED <<ckTx, txState>>
      BY <3>1
    <3>2. CASE Lock(t) /\ txState' = [txState EXCEPT ![t] = TxPreparing]
      <4>1. ckTx' \in [Order -> Tx \cup {NoTx}]
        BY <3>2 DEF Lock
      <4>2. QED
        BY <3>2, <4>1
    <3>3. QED
      BY <1>2, <3>1, <3>2 DEF PrepareCkTx
  <2>3. UNCHANGED <<status, prep, abrt, price>>
    BY <1>2 DEF PrepareCkTx
  <2>4. QED
    BY <2>1, <2>2, <2>3
<1>3. ASSUME NEW t \in Tx, Asking(t) PROVE TypeOK'
  <2>1. ASSUME NEW d \in DbsOf[t], PostPrepare(t, d) \/ StockRefuses(t, d) PROVE TypeOK'
    <3>1. PICK answer \in {"sent", "err"} : prep' = [prep EXCEPT ![t][d] = answer]
      BY <2>1 DEF PostPrepare, StockRefuses
    <3>2. prep' \in [Tx -> [Participant -> {"none", "sent", "ok", "err"}]]
      BY <3>1
    <3>3. UNCHANGED <<status, ckTx, txState, pc, abrt, price>>
      BY <2>1 DEF PostPrepare, StockRefuses
    <3>4. QED
      BY <3>2, <3>3
  <2>2. ASSUME NEW d \in DbsOf[t], NEW q \in Quote, StockAccepts(t, d, q) PROVE TypeOK'
    <3>1. price' \in [Tx -> Nat]
      BY <2>2 DEF StockAccepts
    <3>2. prep' \in [Tx -> [Participant -> {"none", "sent", "ok", "err"}]]
      BY <2>2 DEF StockAccepts
    <3>3. UNCHANGED <<status, ckTx, txState, pc, abrt>>
      BY <2>2 DEF StockAccepts
    <3>4. QED
      BY <3>1, <3>2, <3>3
  <2>3. CASE StockPrepared(t) \/ PaymentAccepts(t)
    <3>1. PICK answer \in {"sent", "ok"} : prep' = [prep EXCEPT ![t][Payment] = answer]
      BY <2>3 DEF StockPrepared, PaymentAccepts
    <3>2. prep' \in [Tx -> [Participant -> {"none", "sent", "ok", "err"}]]
      BY <3>1 DEF Participant
    <3>3. UNCHANGED <<status, ckTx, txState, abrt, price>>
      BY <2>3 DEF StockPrepared, PaymentAccepts
    <3>4. PICK label \in {"payment", "acknowledge"} : pc' = [pc EXCEPT ![t] = label]
      BY <2>3 DEF StockPrepared, PaymentAccepts
    <3>5. QED
      BY <3>2, <3>3, <3>4
  <2>4. QED
    BY <1>3, <2>1, <2>2, <2>3 DEF Asking
<1>4. ASSUME NEW t \in Tx, Aborting(t) PROVE TypeOK'
  <2>1. CASE StockRefused(t) \/ PaymentAborted(t)
    <3>1. AbortStock(t) /\ UNCHANGED <<status, ckTx, txState, prep, price>>
      BY <2>1 DEF StockRefused, PaymentAborted
    <3>2. abrt' \in [Tx -> [Participant -> {"none", "sent", "done"}]]
      BY <3>1 DEF AbortStock
    <3>3. pc' = [pc EXCEPT ![t] = "abortStock"]
      BY <3>1 DEF AbortStock
    <3>4. QED
      BY <3>1, <3>2, <3>3
  <2>2. CASE PaymentRefuses(t)
    <3>1. prep' \in [Tx -> [Participant -> {"none", "sent", "ok", "err"}]]
      BY <2>2 DEF PaymentRefuses, Participant
    <3>2. abrt' \in [Tx -> [Participant -> {"none", "sent", "done"}]]
      BY <2>2 DEF PaymentRefuses, Participant
    <3>3. UNCHANGED <<status, ckTx, txState, price>>
          /\ pc' = [pc EXCEPT ![t] = "abortPayment"]
      BY <2>2 DEF PaymentRefuses
    <3>4. QED
      BY <3>1, <3>2, <3>3
  <2>3. ASSUME NEW p \in Participants(t), AbortAnswered(t, p) PROVE TypeOK'
    <3>1. abrt' \in [Tx -> [Participant -> {"none", "sent", "done"}]]
      BY <2>3 DEF AbortAnswered
    <3>2. QED
      BY <2>3, <3>1 DEF AbortAnswered
  <2>4. QED
    BY <1>4, <2>1, <2>2, <2>3 DEF Aborting
<1>5. ASSUME NEW t \in Tx, AbortCkTx(t) PROVE TypeOK'
  BY <1>5 DEF AbortCkTx, Release
<1>6. ASSUME NEW t \in Tx, AcknowledgeCkTx(t) PROVE TypeOK'
  BY <1>6 DEF AcknowledgeCkTx
<1>7. ASSUME NEW t \in Tx, CommitCkTx(t) PROVE TypeOK'
  <2>1. status' \in [Order -> {"absent", "open", "paid", "removed"}]
    <3> DEFINE o == OrderOf[t]
    <3>1. status' = status
          \/ status' = [status EXCEPT ![o] = IF Exists(o) THEN "paid" ELSE status[o]]
      BY <1>7 DEF CommitCkTx
    <3>2. (IF Exists(o) THEN "paid" ELSE status[o]) \in {"absent", "open", "paid", "removed"}
      OBVIOUS
    <3> HIDE DEF o
    <3>3. QED
      BY <3>1, <3>2
  <2>2. txState' \in [Tx -> TxState]
    <3>1. txState' = txState \/ txState' = [txState EXCEPT ![t] = TxCommitted]
      BY <1>7 DEF CommitCkTx
    <3>2. QED
      BY <3>1
  <2>3. pc' \in [Tx -> {"idle", "stock", "payment", "abortPayment", "abortStock",
                        "acknowledge", "commit"} \cup Answered]
    BY <1>7 DEF CommitCkTx
  <2>4. UNCHANGED <<ckTx, prep, abrt, price>>
    BY <1>7 DEF CommitCkTx
  <2>5. QED
    BY <2>1, <2>2, <2>3, <2>4
<1>8. ASSUME NEW t \in Tx, Fail(t) PROVE TypeOK'
  BY <1>8 DEF Fail
<1>9. QED
  BY <1>0, <1>1, <1>2, <1>3, <1>4, <1>5, <1>6, <1>7, <1>8, Steps DEF Step

\* TypeOK holds in every state.
THEOREM TypeCorrect == Spec => []TypeOK
<1>1. QED
  BY TypedInit, TypedStep, PTL DEF Spec

-----------------------------------------------------------------------------
(* The lock                                                                *)

\* At the start no order is locked and no transaction is live.
LEMMA LockedInit == Init => LockedWhileLive
BY OrderConstants, StatesDiffer DEF Init, LockedWhileLive, LockedBy

\* Only the scripts that test or take the lock change who holds it or who is live.
LEMMA LockedStep == TypeOK /\ LockedWhileLive /\ [Next]_vars => LockedWhileLive'
<1> SUFFICES ASSUME TypeOK, LockedWhileLive, [Next]_vars PROVE LockedWhileLive'
  OBVIOUS
<1> USE OrderConstants, StatesDiffer DEF TypeOK, LockedWhileLive, LockedBy
<1>1. CASE UNCHANGED <<ckTx, txState>>
  BY <1>1
<1>2. ASSUME NEW t \in Tx, PrepareCkTx(t) PROVE LockedWhileLive'
  BY <1>1, <1>2 DEF PrepareCkTx, Lock, LockFree
<1>3. ASSUME NEW t \in Tx, AbortCkTx(t) PROVE LockedWhileLive'
  BY <1>1, <1>3 DEF AbortCkTx, Release
<1>4. ASSUME NEW t \in Tx, AcknowledgeCkTx(t) PROVE LockedWhileLive'
  BY <1>1, <1>4 DEF AcknowledgeCkTx
<1>5. ASSUME NEW t \in Tx, CommitCkTx(t) PROVE LockedWhileLive'
  BY <1>1, <1>5 DEF CommitCkTx
<1>6. ASSUME NEW t \in Tx, Asking(t) \/ Aborting(t) \/ Fail(t) PROVE LockedWhileLive'
  BY <1>1, <1>6 DEF Asking, Aborting, Fail, PostPrepare, StockRefuses, StockAccepts,
     StockPrepared, PaymentAccepts, StockRefused, PaymentRefuses, PaymentAborted,
     AbortAnswered, orderVars
<1>7. ASSUME NEW o \in Order, CreateOrder(o) \/ RemoveOrder(o) PROVE LockedWhileLive'
  BY <1>1, <1>7 DEF CreateOrder, RemoveOrder
<1>8. QED
  BY <1>1, <1>2, <1>3, <1>4, <1>5, <1>6, <1>7, Steps DEF Step, vars, orderVars

\* An order is locked exactly by its live or committed transaction: luaPrepareCkTx
\* takes the lock only if it is free, and the other scripts test it before they
\* write.
THEOREM OneLiveCheckout == Spec => []LockedWhileLive
<1>1. QED
  BY TypedInit, TypedStep, LockedInit, LockedStep, PTL DEF Spec

-----------------------------------------------------------------------------
(* The phases of a checkout                                                *)

NoAborts(t) == \A p \in Participant : abrt[t][p] = "none"

Asked(t) == \A d \in DbsOf[t] : prep[t][d] = "ok"

Unanimous(t) == \A p \in Participants(t) : prep[t][p] = "ok" /\ abrt[t][p] = "none"

Cancelled(t) ==
  \A p \in Participants(t) : prep[t][p] # "none" \/ abrt[t][p] # "none" => abrt[t][p] = "done"

\* What the place where the handler of t stands says of its calls, and what the
\* state of t says of the place where its handler stands or has ended.
Phase(t) ==
  /\ pc[t] = "idle" =>
       txState[t] = TxNone /\ NoAborts(t) /\ \A p \in Participant : prep[t][p] = "none"
  /\ pc[t] \in {"stock", "payment", "acknowledge", "abortPayment", "abortStock"} =>
       txState[t] = TxPreparing
  /\ pc[t] = "stock" => prep[t][Payment] = "none"
  /\ pc[t] \in {"stock", "payment", "acknowledge"} => NoAborts(t)
  /\ pc[t] \in {"payment", "acknowledge"} => Asked(t)
  /\ pc[t] = "acknowledge" => prep[t][Payment] = "ok"
  /\ pc[t] = "abortStock" =>
       abrt[t][Payment] = "done" \/ (prep[t][Payment] = "none" /\ abrt[t][Payment] = "none")
  /\ pc[t] = "commit" /\ t \notin EmptyCart => txState[t] = TxAcknowledged
  /\ pc[t] = "commit" => txState[t] \in {TxPreparing, TxAcknowledged}
  /\ txState[t] = TxAcknowledged => pc[t] \in {"commit", "failed"}
  /\ txState[t] = TxCommitted => pc[t] = "ok"
  /\ txState[t] = TxAborted => pc[t] = "rejected"
  /\ CommitPosted(t) => Unanimous(t)
  /\ txState[t] = TxAborted => Cancelled(t)

Phases == \A t \in Tx : Phase(t)

\* Everything Phase(t) is about is as it was.
Same(t) ==
  /\ pc'[t] = pc[t] /\ txState'[t] = txState[t]
  /\ prep'[t] = prep[t] /\ abrt'[t] = abrt[t]

\* A transaction that nothing happens to stays in its phase.
LEMMA PhaseKept == ASSUME NEW t \in Tx, Phase(t), Same(t) PROVE Phase(t)'
BY DEF Phase, Same, NoAborts, Asked, Unanimous, Cancelled, CommitPosted, Participants

\* The steps of one transaction leave the others alone.
LEMMA StepIsLocal ==
  ASSUME TypeOK, NEW t \in Tx, Step(t), NEW u \in Tx, u # t
  PROVE  Same(u)
<1> USE DEF TypeOK, Same, Goto, orderVars, callVars
<1>1. CASE PrepareCkTx(t)
  BY <1>1 DEF PrepareCkTx
<1>2. CASE Asking(t)
  BY <1>2 DEF Asking, PostPrepare, StockRefuses, StockAccepts, StockPrepared, PaymentAccepts
<1>3. CASE Aborting(t)
  BY <1>3 DEF Aborting, StockRefused, PaymentRefuses, PaymentAborted, AbortAnswered, AbortStock
<1>4. CASE AbortCkTx(t)
  BY <1>4 DEF AbortCkTx
<1>5. CASE AcknowledgeCkTx(t)
  BY <1>5 DEF AcknowledgeCkTx
<1>6. CASE CommitCkTx(t)
  BY <1>6 DEF CommitCkTx
<1>7. CASE Fail(t)
  BY <1>7 DEF Fail
<1>8. QED
  BY <1>1, <1>2, <1>3, <1>4, <1>5, <1>6, <1>7 DEF Step

\* At the start no checkout has begun.
LEMMA PhasesInit == Init => Phases
BY StatesDiffer DEF Init, Phases, Phase, NoAborts, CommitPosted

\* While its handler asks, a checkout stays in the phases before the decision.
LEMMA AskingStep ==
  ASSUME TypeOK, NEW t \in Tx, Phase(t), Asking(t) PROVE Phase(t)'
<1> USE OrderConstants, StatesDiffer DEF TypeOK, Goto, orderVars, callVars, Participant
<1> USE DEF Phase, NoAborts, Asked, CommitPosted
<1>1. ASSUME NEW d \in DbsOf[t], NEW answer \in {"sent", "err", "ok"},
             pc[t] = "stock", UNCHANGED <<pc, txState, abrt>>,
             prep' = [prep EXCEPT ![t][d] = answer]
      PROVE  Phase(t)'
  <2>1. prep'[t][Payment] = prep[t][Payment]
    BY <1>1
  <2>2. QED
    BY <1>1, <2>1
<1>2. CASE \E d \in DbsOf[t] : PostPrepare(t, d)
  BY <1>1, <1>2 DEF PostPrepare
<1>3. CASE \E d \in DbsOf[t] : StockRefuses(t, d)
  BY <1>1, <1>3 DEF StockRefuses
<1>4. CASE \E d \in DbsOf[t] : \E q \in Quote : StockAccepts(t, d, q)
  BY <1>1, <1>4 DEF StockAccepts
<1>5. CASE StockPrepared(t)
  <2>1. pc'[t] = "payment" /\ txState'[t] = TxPreparing /\ abrt'[t] = abrt[t]
    BY <1>5 DEF StockPrepared
  <2>2. \A d \in DbsOf[t] : prep'[t][d] = "ok"
    BY <1>5 DEF StockPrepared, AllPrepared
  <2>3. QED
    BY <1>5, <2>1, <2>2 DEF StockPrepared
<1>6. CASE PaymentAccepts(t)
  <2>1. pc'[t] = "acknowledge" /\ txState'[t] = TxPreparing /\ abrt'[t] = abrt[t]
    BY <1>6 DEF PaymentAccepts
  <2>2. \A d \in DbsOf[t] : prep'[t][d] = "ok"
    BY <1>6 DEF PaymentAccepts
  <2>3. prep'[t][Payment] = "ok"
    BY <1>6 DEF PaymentAccepts
  <2>4. QED
    BY <1>6, <2>1, <2>2, <2>3 DEF PaymentAccepts
<1>7. QED
  BY <1>2, <1>3, <1>4, <1>5, <1>6 DEF Asking

\* While its handler cancels calls, payment is cancelled first, if it was asked.
LEMMA AbortingStep ==
  ASSUME TypeOK, NEW t \in Tx, Phase(t), Aborting(t) PROVE Phase(t)'
<1> USE OrderConstants, StatesDiffer DEF TypeOK, Goto, orderVars, callVars, Participant
<1> USE DEF Phase, NoAborts, Asked, CommitPosted
<1>1. ASSUME AbortStock(t), UNCHANGED <<txState, prep>>, txState[t] = TxPreparing,
             abrt[t][Payment] = "done" \/ (prep[t][Payment] = "none" /\ abrt[t][Payment] = "none")
      PROVE  Phase(t)'
  <2>1. pc'[t] = "abortStock" /\ txState'[t] = TxPreparing
    BY <1>1 DEF AbortStock
  <2>2. abrt'[t][Payment] = abrt[t][Payment]
    BY <1>1 DEF AbortStock
  <2>3. QED
    BY <1>1, <2>1, <2>2
<1>2. CASE StockRefused(t)
  BY <1>1, <1>2 DEF StockRefused
<1>3. CASE PaymentAborted(t)
  BY <1>1, <1>3 DEF PaymentAborted
<1>4. CASE PaymentRefuses(t)
  <2>1. pc'[t] = "abortPayment" /\ txState'[t] = TxPreparing
    BY <1>4 DEF PaymentRefuses
  <2>2. QED
    BY <2>1
<1>5. ASSUME NEW p \in Participants(t), AbortAnswered(t, p) PROVE Phase(t)'
  <2>1. pc'[t] = pc[t] /\ pc[t] \in {"abortPayment", "abortStock"}
        /\ txState'[t] = TxPreparing /\ prep'[t] = prep[t]
    BY <1>5 DEF AbortAnswered
  <2>2. pc[t] = "abortStock" => abrt'[t][Payment] = abrt[t][Payment]
    BY <1>5 DEF AbortAnswered, Participants
  <2>3. QED
    BY <2>1, <2>2
<1>6. QED
  BY <1>2, <1>3, <1>4, <1>5 DEF Aborting

\* Every step keeps every checkout in its phase.
LEMMA PhasesStep == TypeOK /\ Phases /\ [Next]_vars => Phases'
<1> SUFFICES ASSUME TypeOK, Phases, [Next]_vars, NEW u \in Tx PROVE Phase(u)'
  BY DEF Phases
<1>0. Phase(u)
  BY DEF Phases
<1> USE OrderConstants, StatesDiffer DEF TypeOK, Goto, orderVars, callVars
<1>1. CASE UNCHANGED vars
  BY <1>0, <1>1, PhaseKept DEF Same, vars
<1>2. ASSUME NEW o \in Order, CreateOrder(o) \/ RemoveOrder(o) PROVE Phase(u)'
  BY <1>0, <1>2, PhaseKept DEF Same, CreateOrder, RemoveOrder
<1>3. ASSUME NEW t \in Tx, Step(t), t # u PROVE Phase(u)'
  BY <1>0, <1>3, PhaseKept, StepIsLocal
<1>4. CASE PrepareCkTx(u)
  <2>1. prep'[u] = prep[u] /\ abrt'[u] = abrt[u]
    BY <1>4 DEF PrepareCkTx
  <2>2. NoAborts(u)' /\ prep'[u][Payment] = "none"
    BY <1>0, <1>4, <2>1 DEF PrepareCkTx, Phase, NoAborts, Participant
  <2>3. CASE UNCHANGED txState /\ pc'[u] \in {"notFound", "ok", "busy"}
    BY <1>0, <1>4, <2>2, <2>3 DEF PrepareCkTx, Phase, CommitPosted
  <2>4. CASE /\ txState'[u] = TxPreparing
             /\ pc'[u] = IF u \in EmptyCart THEN "commit" ELSE "stock"
    BY <2>2, <2>4 DEF Phase, CommitPosted
  <2>5. QED
    BY <1>4, <2>3, <2>4 DEF PrepareCkTx, AnswerIfLocked
<1>5. CASE Asking(u)
  BY <1>0, <1>5, AskingStep
<1>6. CASE Aborting(u)
  BY <1>0, <1>6, AbortingStep
<1>7. CASE AbortCkTx(u)
  <2>1. prep'[u] = prep[u] /\ abrt'[u] = abrt[u] /\ txState[u] = TxPreparing
    BY <1>0, <1>7 DEF AbortCkTx, Phase
  <2>2. CASE UNCHANGED txState /\ pc'[u] = "failed"
    BY <2>1, <2>2 DEF Phase, CommitPosted
  <2>3. CASE txState'[u] = TxAborted /\ pc'[u] = "rejected"
    <3>1. Cancelled(u)'
      BY <1>0, <1>7, <2>1 DEF AbortCkTx, AllAborted, Phase, Cancelled, Participants
    <3>2. QED
      BY <2>3, <3>1 DEF Phase, CommitPosted
  <2>4. QED
    BY <1>7, <2>2, <2>3 DEF AbortCkTx
<1>8. CASE AcknowledgeCkTx(u)
  <2>1. prep'[u] = prep[u] /\ abrt'[u] = abrt[u] /\ txState[u] = TxPreparing
    BY <1>0, <1>8 DEF AcknowledgeCkTx, Phase
  <2>2. CASE UNCHANGED txState /\ pc'[u] = "failed"
    BY <2>1, <2>2 DEF Phase, CommitPosted
  <2>3. CASE txState'[u] = TxAcknowledged /\ pc'[u] = "commit"
    <3>1. Unanimous(u)'
      BY <1>0, <1>8, <2>1
      DEF AcknowledgeCkTx, Phase, Unanimous, Asked, NoAborts, Participants, Participant
    <3>2. QED
      BY <2>3, <3>1 DEF Phase, CommitPosted
  <2>4. QED
    BY <1>8, <2>2, <2>3 DEF AcknowledgeCkTx
<1>9. CASE CommitCkTx(u)
  <2>1. prep'[u] = prep[u] /\ abrt'[u] = abrt[u]
        /\ txState[u] \in {TxPreparing, TxAcknowledged} /\ (CommitPosted(u) \/ u \in EmptyCart)
    BY <1>0, <1>9 DEF CommitCkTx, Phase, CommitPosted
  <2>2. Unanimous(u)' \/ u \in EmptyCart
    BY <1>0, <2>1 DEF Phase, Unanimous, Participants
  <2>3. CASE UNCHANGED txState /\ pc'[u] = "failed"
    BY <2>1, <2>2, <2>3 DEF Phase, CommitPosted
  <2>4. CASE txState'[u] = TxCommitted /\ pc'[u] = "ok"
    BY <2>2, <2>4 DEF Phase, CommitPosted
  <2>5. QED
    BY <1>9, <2>3, <2>4 DEF CommitCkTx
<1>10. CASE Fail(u)
  <2>1. prep'[u] = prep[u] /\ abrt'[u] = abrt[u] /\ txState'[u] = txState[u]
        /\ pc'[u] = "failed" /\ pc[u] \notin Answered
    BY <1>10 DEF Fail
  <2>2. txState[u] # TxCommitted /\ txState[u] # TxAborted
    BY <1>0, <2>1 DEF Phase, Answered
  <2>3. CommitPosted(u)' => Unanimous(u)'
    BY <1>0, <2>1 DEF Phase, CommitPosted, Unanimous, Participants
  <2>4. QED
    BY <2>1, <2>2, <2>3 DEF Phase
<1>11. QED
  BY <1>1, <1>2, <1>3, <1>4, <1>5, <1>6, <1>7, <1>8, <1>9, <1>10, Steps DEF Step

\* A participant is told to commit only if every participant has answered 200 and
\* none is told to abort.
THEOREM Unanimity == Spec => []CommitIsUnanimous
<1>1. Phases => CommitIsUnanimous
  BY DEF Phases, Phase, CommitIsUnanimous, Unanimous
<1>2. QED
  BY <1>1, TypedInit, TypedStep, PhasesInit, PhasesStep, PTL DEF Spec

\* The order is released only when everybody who was asked has been told to abort
\* and has answered.
THEOREM ReleaseWaits == Spec => []ReleasedAfterAborts
<1>1. Phases => ReleasedAfterAborts
  BY DEF Phases, Phase, ReleasedAfterAborts, Cancelled
<1>2. QED
  BY <1>1, TypedInit, TypedStep, PhasesInit, PhasesStep, PTL DEF Spec

-----------------------------------------------------------------------------
(* The calls                                                               *)

\* Only participants are called, on behalf of a transaction that has the lock or
\* had it; payment is asked when all the databases have said yes.
CallsAt(t) ==
  /\ pc[t] \in {"stock", "payment", "acknowledge", "abortPayment", "abortStock"} => t \notin EmptyCart
  /\ \A p \in Participant : prep[t][p] # "none" \/ abrt[t][p] # "none" =>
       p \in Participants(t) /\ txState[t] # TxNone
  /\ prep[t][Payment] # "none" => Asked(t)

Calls == \A t \in Tx : CallsAt(t)

\* At the start nobody is called.
LEMMA CallsInit == Init => Calls
BY OrderConstants DEF Init, Calls, CallsAt, Participant

\* A call once made stays made.
LEMMA CallsStay ==
  ASSUME TypeOK, [Next]_vars, NEW t \in Tx, NEW p \in Participant
  PROVE  /\ prep[t][p] # "none" => prep'[t][p] # "none"
         /\ abrt[t][p] # "none" => abrt'[t][p] # "none"
<1> USE OrderConstants DEF TypeOK, orderVars, callVars, Participant, Goto
<1>0. CASE UNCHANGED <<prep, abrt>>
  BY <1>0
<1>1. CASE \E o \in Order : CreateOrder(o) \/ RemoveOrder(o)
  BY <1>0, <1>1 DEF CreateOrder, RemoveOrder
<1>2. ASSUME NEW u \in Tx, Step(u)
      PROVE  /\ prep[t][p] # "none" => prep'[t][p] # "none"
             /\ abrt[t][p] # "none" => abrt'[t][p] # "none"
  <2>1. CASE PrepareCkTx(u) \/ AbortCkTx(u) \/ AcknowledgeCkTx(u) \/ CommitCkTx(u) \/ Fail(u)
    BY <1>0, <2>1 DEF PrepareCkTx, AbortCkTx, AcknowledgeCkTx, CommitCkTx, Fail
  <2>2. CASE Asking(u)
    <3>1. abrt' = abrt
      BY <2>2 DEF Asking, PostPrepare, StockRefuses, StockAccepts, StockPrepared, PaymentAccepts
    <3>2. \E q \in Participant, answer \in {"sent", "err", "ok"} : prep' = [prep EXCEPT ![u][q] = answer]
      <4>1. CASE StockPrepared(u) \/ PaymentAccepts(u)
        BY <4>1 DEF StockPrepared, PaymentAccepts
      <4>2. ASSUME NEW d \in DbsOf[u],
                   PostPrepare(u, d) \/ StockRefuses(u, d) \/ \E q \in Quote : StockAccepts(u, d, q)
            PROVE  \E answer \in {"sent", "err", "ok"} : prep' = [prep EXCEPT ![u][d] = answer]
        BY <4>2 DEF PostPrepare, StockRefuses, StockAccepts
      <4>3. DbsOf[u] \subseteq Participant
        OBVIOUS
      <4>4. QED
        BY <2>2, <4>1, <4>2, <4>3 DEF Asking
    <3>3. QED
      BY <3>1, <3>2
  <2>3. CASE StockRefused(u) \/ PaymentAborted(u)
    <3>1. AbortStock(u) /\ UNCHANGED prep
      BY <2>3 DEF StockRefused, PaymentAborted
    <3>2. QED
      BY <3>1 DEF AbortStock
  <2>4. CASE PaymentRefuses(u) \/ \E q \in Participants(u) : AbortAnswered(u, q)
    BY <2>4 DEF PaymentRefuses, AbortAnswered
  <2>5. QED
    BY <1>2, <2>1, <2>2, <2>3, <2>4 DEF Step, Aborting
<1>3. QED
  BY <1>0, <1>1, <1>2, Steps DEF vars

\* Every step calls participants only.
LEMMA CallsStep == TypeOK /\ Phases /\ Calls /\ [Next]_vars => Calls'
<1> SUFFICES ASSUME TypeOK, Phases, Calls, [Next]_vars, NEW u \in Tx PROVE CallsAt(u)'
  BY DEF Calls
<1>0. Phase(u) /\ CallsAt(u)
  BY DEF Phases, Calls
<1> USE OrderConstants, StatesDiffer DEF TypeOK, Goto, orderVars, callVars, Participant
<1>1. CASE Same(u)
  BY <1>0, <1>1 DEF Same, CallsAt, Asked, Participants
<1>2. CASE \E o \in Order : CreateOrder(o) \/ RemoveOrder(o)
  BY <1>1, <1>2 DEF CreateOrder, RemoveOrder, Same
<1>3. ASSUME NEW t \in Tx, Step(t) PROVE CallsAt(u)'
  <2>1. CASE t # u
    BY <1>1, <1>3, <2>1, StepIsLocal
  <2>2. CASE t = u
    <3>1. CASE PrepareCkTx(u)
      BY <1>0, <3>1 DEF PrepareCkTx, CallsAt, Phase, NoAborts, Answered, AnswerIfLocked, Participants
    <3>2. CASE AbortCkTx(u) \/ AcknowledgeCkTx(u) \/ CommitCkTx(u) \/ Fail(u)
      <4>1. UNCHANGED <<prep, abrt>> /\ (txState[u] # TxNone => txState'[u] # TxNone)
        BY <3>2 DEF AbortCkTx, AcknowledgeCkTx, CommitCkTx, Fail
      <4>2. pc'[u] \notin {"stock", "payment", "acknowledge", "abortPayment", "abortStock"}
        BY <3>2 DEF AbortCkTx, AcknowledgeCkTx, CommitCkTx, Fail
      <4>3. QED
        BY <1>0, <4>1, <4>2 DEF CallsAt, Asked, Participants
    <3>3. CASE StockRefused(u) \/ PaymentAborted(u)
      <4>1. AbortStock(u) /\ UNCHANGED <<txState, prep>> /\ pc[u] \in {"stock", "abortPayment"}
        BY <3>3 DEF StockRefused, PaymentAborted
      <4>2. u \notin EmptyCart /\ txState[u] = TxPreparing
        BY <1>0, <4>1 DEF Phase, CallsAt
      <4>3. QED
        BY <1>0, <4>1, <4>2 DEF AbortStock, CallsAt, Asked, Participants
    <3>4. CASE PaymentRefuses(u) \/ PaymentAccepts(u)
      BY <1>0, <3>4 DEF PaymentRefuses, PaymentAccepts, CallsAt, Phase, Asked, Participants
    <3>5. CASE \E p \in Participants(u) : AbortAnswered(u, p)
      BY <1>0, <3>5 DEF AbortAnswered, CallsAt, Asked, Participants
    <3>6. CASE StockPrepared(u)
      BY <1>0, <3>6 DEF StockPrepared, AllPrepared, CallsAt, Phase, Asked, Participants
    <3>7. ASSUME NEW d \in DbsOf[u], NEW answer, pc[u] = "stock", UNCHANGED <<txState, pc, abrt>>,
                 prep' = [prep EXCEPT ![u][d] = answer]
          PROVE  CallsAt(u)'
      BY <1>0, <3>7 DEF CallsAt, Phase, Participants
    <3>8. CASE \E d \in DbsOf[u] : \/ PostPrepare(u, d) \/ StockRefuses(u, d)
                                   \/ \E q \in Quote : StockAccepts(u, d, q)
      BY <3>7, <3>8 DEF PostPrepare, StockRefuses, StockAccepts
    <3>9. QED
      BY <1>3, <2>2, <3>1, <3>2, <3>3, <3>4, <3>5, <3>6, <3>8 DEF Step, Asking, Aborting
  <2>3. QED
    BY <2>1, <2>2
<1>4. QED
  BY <1>1, <1>2, <1>3, Steps DEF vars, Same

\* Once everybody may be told to commit, nobody may be told anything else.
LEMMA PostedStays ==
  ASSUME TypeOK, Phases, [Next]_vars, NEW u \in Tx, CommitPosted(u) PROVE CommitPosted(u)'
<1> USE OrderConstants, StatesDiffer DEF CommitPosted, Goto, orderVars
<1>0. /\ txState[u] = TxAcknowledged => pc[u] \in {"commit", "failed"}
      /\ txState[u] = TxCommitted => pc[u] = "ok"
  BY DEF Phases, Phase
<1>1. CASE UNCHANGED txState
  BY <1>1
<1>2. CASE \E o \in Order : CreateOrder(o) \/ RemoveOrder(o)
  BY <1>1, <1>2 DEF CreateOrder, RemoveOrder
<1>3. ASSUME NEW t \in Tx, Step(t) PROVE CommitPosted(u)'
  <2>1. CASE t # u
    BY <1>3, <2>1, StepIsLocal DEF Same
  <2>2. CASE t = u
    <3>1. CASE PrepareCkTx(u) \/ AbortCkTx(u) \/ AcknowledgeCkTx(u)
      BY <1>0, <3>1 DEF PrepareCkTx, AbortCkTx, AcknowledgeCkTx
    <3>2. CASE CommitCkTx(u)
      BY <1>1, <3>2 DEF CommitCkTx, TypeOK
    <3>3. CASE Asking(u) \/ Fail(u)
      BY <1>1, <3>3 DEF Asking, PostPrepare, StockRefuses, StockAccepts, StockPrepared,
                        PaymentAccepts, Fail
    <3>4. CASE Aborting(u)
      BY <1>1, <3>4 DEF Aborting, StockRefused, PaymentRefuses, PaymentAborted, AbortAnswered
    <3>5. QED
      BY <1>3, <2>2, <3>1, <3>2, <3>3, <3>4 DEF Step
  <2>3. QED
    BY <2>1, <2>2
<1>4. QED
  BY <1>1, <1>2, <1>3, Steps DEF vars

-----------------------------------------------------------------------------
(* The decision                                                            *)

\* What a commit leaves behind: the lock names a transaction of the order it
\* locks, a paid order is locked by a committed one, and a 200 has its reason.
Decision ==
  /\ \A o \in Order : ckTx[o] # NoTx => OrderOf[ckTx[o]] = o
  /\ PaidKeepsLock
  /\ OkMeansCommitted

\* A transaction that has committed or aborted is done: no step changes its state,
\* and none takes the lock away from one that has committed.
LEMMA Final ==
  ASSUME TypeOK, LockedWhileLive, Phases, [Next]_vars, NEW u \in Tx
  PROVE  /\ txState[u] \in {TxCommitted, TxAborted} => txState'[u] = txState[u]
         /\ txState[u] = TxCommitted => ckTx'[OrderOf[u]] = u
<1> USE OrderConstants, StatesDiffer
<1>0. Phase(u) /\ (txState[u] = TxCommitted => ckTx[OrderOf[u]] = u)
  BY DEF Phases, LockedWhileLive, LockedBy
<1>1. CASE UNCHANGED <<txState, ckTx>>
  BY <1>0, <1>1
<1>2. ASSUME NEW o \in Order, CreateOrder(o) \/ RemoveOrder(o) PROVE UNCHANGED <<txState, ckTx>>
  BY <1>2 DEF CreateOrder, RemoveOrder
<1>3. ASSUME NEW t \in Tx, Step(t), t # u PROVE txState'[u] = txState[u]
  BY <1>3, StepIsLocal DEF Same
<1>4. ASSUME Step(u), txState[u] \in {TxCommitted, TxAborted} PROVE UNCHANGED <<txState, ckTx>>
  <2>1. pc[u] \in {"ok", "rejected"}
    BY <1>0, <1>4 DEF Phase
  <2>2. QED
    BY <1>4, <2>1 DEF Step, Asking, Aborting, PrepareCkTx, PostPrepare, StockRefuses,
       StockAccepts, StockPrepared, PaymentAccepts, StockRefused, PaymentRefuses,
       PaymentAborted, AbortAnswered, AbortCkTx, AcknowledgeCkTx, CommitCkTx, Fail, orderVars
<1>5. ASSUME NEW t \in Tx, Step(t), t # u, txState[u] = TxCommitted
      PROVE  ckTx'[OrderOf[u]] = u
  <2>1. CASE UNCHANGED ckTx
    BY <1>0, <1>5, <2>1
  <2>2. CASE PrepareCkTx(t) /\ LockFree(OrderOf[t]) /\ Lock(t)
    BY <1>0, <1>5, <2>2 DEF LockFree, Lock, TypeOK
  <2>3. CASE LockedBy(t) /\ Release(t)
    BY <1>0, <1>5, <2>3 DEF LockedBy, Release, TypeOK
  <2>4. QED
    BY <1>5, <2>1, <2>2, <2>3 DEF Step, Asking, Aborting, PrepareCkTx, PostPrepare,
       StockRefuses, StockAccepts, StockPrepared, PaymentAccepts, StockRefused,
       PaymentRefuses, PaymentAborted, AbortAnswered, AbortCkTx, AcknowledgeCkTx,
       CommitCkTx, Fail, orderVars
<1>6. QED
  BY <1>0, <1>1, <1>2, <1>3, <1>4, <1>5, Steps DEF vars, orderVars

\* A commit or an abort is final, and so is the lock of a committed order.
THEOREM Finality == Spec => DecisionIsFinal
<1>1. TypeOK /\ LockedWhileLive /\ Phases /\ [Next]_vars =>
        [\A t \in Tx :
           /\ txState[t] \in {TxCommitted, TxAborted} => txState'[t] = txState[t]
           /\ txState[t] = TxCommitted => ckTx'[OrderOf[t]] = t]_<<txState, ckTx>>
  BY Final
<1>2. QED
  BY <1>1, TypedInit, TypedStep, LockedInit, LockedStep, PhasesInit, PhasesStep, PTL
  DEF Spec, DecisionIsFinal

\* At the start nothing is locked, paid or answered.
LEMMA DecisionInit == Init => Decision
BY DEF Init, Decision, PaidKeepsLock, OkMeansCommitted

\* Only a commit marks an order as paid or answers 200 for the first time.
LEMMA DecisionStep ==
  TypeOK /\ LockedWhileLive /\ Phases /\ Decision /\ [Next]_vars => Decision'
<1> SUFFICES ASSUME TypeOK, LockedWhileLive, Phases, Decision, [Next]_vars PROVE Decision'
  OBVIOUS
<1> USE OrderConstants, StatesDiffer
<1>1. \A o \in Order : ckTx'[o] # NoTx => OrderOf[ckTx'[o]] = o
  <2>1. CASE UNCHANGED ckTx
    BY <2>1 DEF Decision
  <2>2. ASSUME NEW t \in Tx, Lock(t) \/ Release(t)
        PROVE  \A o \in Order : ckTx'[o] # NoTx => OrderOf[ckTx'[o]] = o
    BY <2>2 DEF Decision, Lock, Release, TypeOK
  <2>3. ASSUME NEW t \in Tx, Step(t) PROVE UNCHANGED ckTx \/ Lock(t) \/ Release(t)
    BY <2>3 DEF Step, Asking, Aborting, PrepareCkTx, PostPrepare,
       StockRefuses, StockAccepts, StockPrepared, PaymentAccepts, StockRefused,
       PaymentRefuses, PaymentAborted, AbortAnswered, AbortCkTx, AcknowledgeCkTx,
       CommitCkTx, Fail, orderVars
  <2>4. QED
    BY <2>1, <2>2, <2>3, Steps DEF CreateOrder, RemoveOrder, vars, orderVars
<1>2. ASSUME NEW o \in Order, status'[o] = "paid"
      PROVE  ckTx'[o] # NoTx /\ txState'[ckTx'[o]] = TxCommitted
  <2>1. CASE status[o] = "paid"
    <3>1. /\ ckTx[o] \in Tx /\ txState[ckTx[o]] = TxCommitted /\ OrderOf[ckTx[o]] = o
      BY <2>1 DEF Decision, PaidKeepsLock, TypeOK
    <3>2. QED
      BY <3>1, Final
  <2>2. CASE status[o] # "paid"
    <3>1. PICK t \in Tx : CommitCkTx(t) /\ LockedBy(t) /\ OrderOf[t] = o
      BY <1>2, <2>2, Steps DEF Step, Asking, Aborting, PrepareCkTx, PostPrepare,
         StockRefuses, StockAccepts, StockPrepared, PaymentAccepts, StockRefused,
         PaymentRefuses, PaymentAborted, AbortAnswered, AbortCkTx, AcknowledgeCkTx,
         CommitCkTx, Fail, CreateOrder, RemoveOrder, vars, orderVars, TypeOK
    <3>2. QED
      BY <3>1 DEF CommitCkTx, LockedBy, TypeOK
  <2>3. QED
    BY <2>1, <2>2
<1>3. ASSUME NEW t \in Tx, pc'[t] = "ok"
      PROVE  \E u \in Tx : OrderOf[u] = OrderOf[t] /\ txState'[u] = TxCommitted
  <2>1. CASE pc[t] = "ok"
    BY <2>1, Final DEF Decision, OkMeansCommitted
  <2>2. CASE pc[t] # "ok" /\ PrepareCkTx(t)
    <3>1. status[OrderOf[t]] = "paid"
      BY <1>3, <2>2 DEF PrepareCkTx, AnswerIfLocked, Goto, TypeOK
    <3>2. PICK u \in Tx : u = ckTx[OrderOf[t]] /\ txState[u] = TxCommitted
      BY <3>1 DEF Decision, PaidKeepsLock, TypeOK
    <3>3. OrderOf[u] = OrderOf[t]
      BY <3>2 DEF Decision
    <3>4. QED
      BY <3>2, <3>3, Final
  <2>3. CASE pc[t] # "ok" /\ CommitCkTx(t)
    BY <1>3, <2>3 DEF CommitCkTx, Goto, TypeOK
  <2>4. CASE pc[t] # "ok" /\ ~PrepareCkTx(t) /\ ~CommitCkTx(t)
    <3>1. ASSUME NEW u \in Tx, Step(u) PROVE pc'[t] # "ok"
      <4>1. CASE u # t
        BY <2>4, <3>1, <4>1, StepIsLocal DEF Same
      <4>2. CASE u = t
        BY <2>4, <3>1, <4>2 DEF Step, Asking, Aborting, PostPrepare, StockRefuses,
           StockAccepts, StockPrepared, PaymentAccepts, StockRefused, PaymentRefuses,
           PaymentAborted, AbortAnswered, AbortCkTx, AbortStock, AcknowledgeCkTx, Fail,
           Goto, TypeOK
      <4>3. QED
        BY <4>1, <4>2
    <3>2. QED
      BY <1>3, <2>4, <3>1, Steps DEF CreateOrder, RemoveOrder, vars
  <2>5. QED
    BY <2>1, <2>2, <2>3, <2>4
<1>4. QED
  BY <1>1, <1>2, <1>3 DEF Decision, PaidKeepsLock, OkMeansCommitted

\* A paid order is locked by the committed transaction that has paid it.
THEOREM PaidIsLocked == Spec => []PaidKeepsLock
<1>1. QED
  BY TypedInit, TypedStep, LockedInit, LockedStep, PhasesInit, PhasesStep,
     DecisionInit, DecisionStep, PTL DEF Spec, Decision

\* A checkout is answered 200 only if its order has been committed.
THEOREM OkIsTrue == Spec => []OkMeansCommitted
<1>1. QED
  BY TypedInit, TypedStep, LockedInit, LockedStep, PhasesInit, PhasesStep,
     DecisionInit, DecisionStep, PTL DEF Spec, Decision

\* Whoever is told that its checkout is refused has been aborted.
Rejections == \A t \in Tx : pc[t] = "rejected" => txState[t] = TxAborted

\* Only luaAbortCkTx is answered so, and an abort is final.
LEMMA RejectionsStep ==
  TypeOK /\ LockedWhileLive /\ Phases /\ Rejections /\ [Next]_vars => Rejections'
<1> SUFFICES ASSUME TypeOK, LockedWhileLive, Phases, Rejections, [Next]_vars,
                    NEW t \in Tx, pc'[t] = "rejected"
             PROVE  txState'[t] = TxAborted
  BY DEF Rejections
<1> USE OrderConstants, StatesDiffer
<1>1. CASE pc[t] = "rejected"
  BY <1>1, Final DEF Rejections
<1>2. CASE pc[t] # "rejected" /\ AbortCkTx(t)
  BY <1>2 DEF AbortCkTx, Goto, TypeOK
<1>3. CASE pc[t] # "rejected" /\ ~AbortCkTx(t)
  <2>1. ASSUME NEW u \in Tx, Step(u) PROVE pc'[t] # "rejected"
    <3>1. CASE u # t
      BY <1>3, <2>1, <3>1, StepIsLocal DEF Same
    <3>2. CASE u = t
      BY <1>3, <2>1, <3>2 DEF Step, Asking, Aborting, PrepareCkTx, AnswerIfLocked, PostPrepare,
         StockRefuses, StockAccepts, StockPrepared, PaymentAccepts, StockRefused, PaymentRefuses,
         PaymentAborted, AbortAnswered, AbortStock, AcknowledgeCkTx, CommitCkTx, Fail,
         Goto, TypeOK
    <3>3. QED
      BY <3>1, <3>2
  <2>2. QED
    BY <1>3, <2>1, Steps DEF CreateOrder, RemoveOrder, vars
<1>4. QED
  BY <1>1, <1>2, <1>3

\* A client is told that its checkout is refused only when the order is free for
\* the next one and everybody who was asked, or told to abort, has answered the abort.
THEOREM RejectedAfterAborts ==
  Spec => [](\A t \in Tx : pc[t] = "rejected" =>
               /\ ~LockedBy(t)
               /\ \A p \in Participants(t) :
                    prep[t][p] # "none" \/ abrt[t][p] # "none" => abrt[t][p] = "done")
<1> DEFINE Told ==
      \A t \in Tx : pc[t] = "rejected" =>
        /\ ~LockedBy(t)
        /\ \A p \in Participants(t) :
             prep[t][p] # "none" \/ abrt[t][p] # "none" => abrt[t][p] = "done"
<1>1. Init => Rejections
  BY DEF Init, Rejections
<1>2. LockedWhileLive /\ Phases /\ Rejections => Told
  BY StatesDiffer DEF LockedWhileLive, Phases, Phase, Cancelled, Rejections
<1> HIDE DEF Told
<1>3. Spec => []Told
  BY <1>1, <1>2, TypedInit, TypedStep, LockedInit, LockedStep, PhasesInit, PhasesStep,
     RejectionsStep, PTL DEF Spec
<1>4. QED
  BY <1>3 DEF Told

-----------------------------------------------------------------------------
(* No lock is lost                                                         *)

\* Where no handler stops, none is told that it does not hold the lock, and who
\* prepares has a handler that has not answered.
Steady(t) ==
  ~Failures => /\ pc[t] # "failed"
               /\ txState[t] = TxPreparing => pc[t] \notin Answered

\* At the start nothing is prepared.
LEMMA SteadyInit == ASSUME Init, NEW t \in Tx PROVE Steady(t)
BY StatesDiffer DEF Init, Steady

\* A handler that is about to release, acknowledge or commit prepares or has
\* acknowledged, and so holds the lock.
LEMMA SteadyStep ==
  ASSUME TypeOK, LockedWhileLive, Phases, [Next]_vars, NEW t \in Tx, Steady(t)
  PROVE  Steady(t)'
<1> SUFFICES ASSUME ~Failures
             PROVE  /\ pc'[t] # "failed"
                    /\ txState'[t] = TxPreparing => pc'[t] \notin Answered
  BY DEF Steady
<1>0. Phase(t) /\ pc[t] # "failed" /\ (txState[t] = TxPreparing => pc[t] \notin Answered)
  BY DEF Phases, Steady
<1> USE StatesDiffer DEF TypeOK, Answered, Goto
<1>1. pc[t] \in {"abortStock", "acknowledge", "commit"} => LockedBy(t)
  BY <1>0 DEF Phase, LockedWhileLive
<1>2. CASE Step(t)
  <2>1. CASE PrepareCkTx(t)
    BY <1>0, <2>1 DEF PrepareCkTx, AnswerIfLocked, Phase
  <2>2. CASE Asking(t)
    BY <1>0, <2>2 DEF Asking, PostPrepare, StockRefuses, StockAccepts, StockPrepared,
                      PaymentAccepts, orderVars
  <2>3. CASE Aborting(t)
    BY <1>0, <2>3 DEF Aborting, StockRefused, PaymentRefuses, PaymentAborted, AbortAnswered,
                      AbortStock, orderVars
  <2>4. CASE AbortCkTx(t)
    BY <1>1, <2>4 DEF AbortCkTx
  <2>5. CASE AcknowledgeCkTx(t)
    BY <1>1, <2>5 DEF AcknowledgeCkTx
  <2>6. CASE CommitCkTx(t)
    BY <1>1, <2>6 DEF CommitCkTx
  <2>7. QED
    BY <1>2, <2>1, <2>2, <2>3, <2>4, <2>5, <2>6 DEF Step, Fail
<1>3. ASSUME NEW u \in Tx, u # t, Step(u) PROVE pc'[t] = pc[t] /\ txState'[t] = txState[t]
  BY <1>3, StepIsLocal DEF Same
<1>4. QED
  BY <1>0, <1>2, <1>3, Steps DEF CreateOrder, RemoveOrder, vars, orderVars

\* Where no handler stops, an order is never left locked: whoever locks it has
\* been committed, or has a handler that still decides; and no handler ends
\* with 500 because a script finds the order locked by another, although every
\* script of the coordinator tests for that and orders are removed meanwhile.
THEOREM NoLockIsLost ==
  ASSUME ~Failures
  PROVE  Spec => [](\A t \in Tx :
           /\ pc[t] # "failed"
           /\ LockedBy(t) => txState[t] = TxCommitted \/ pc[t] \notin Answered \cup {"idle"})
<1> DEFINE AllSteady == \A t \in Tx : Steady(t)
<1> DEFINE Led ==
      \A t \in Tx :
        /\ pc[t] # "failed"
        /\ LockedBy(t) => txState[t] = TxCommitted \/ pc[t] \notin Answered \cup {"idle"}
<1>1. ASSUME ~Failures PROVE LockedWhileLive /\ Phases /\ AllSteady => Led
  <2>1. SUFFICES ASSUME LockedWhileLive, NEW t \in Tx, Phase(t), Steady(t)
                 PROVE  /\ pc[t] # "failed"
                        /\ LockedBy(t) =>
                             txState[t] = TxCommitted \/ pc[t] \notin Answered \cup {"idle"}
    BY DEF Phases
  <2>2. pc[t] # "failed" /\ (txState[t] = TxPreparing => pc[t] \notin Answered)
    BY <1>1, <2>1 DEF Steady
  <2>3. LockedBy(t) => txState[t] \in {TxPreparing, TxAcknowledged, TxCommitted}
    BY <2>1 DEF LockedWhileLive
  <2>4. txState[t] = TxAcknowledged => pc[t] = "commit"
    BY <2>1, <2>2 DEF Phase
  <2>5. txState[t] = TxPreparing => pc[t] # "idle"
    BY <2>1, StatesDiffer DEF Phase
  <2>6. QED
    BY <2>2, <2>3, <2>4, <2>5 DEF Answered
<1>2. Init => AllSteady
  BY SteadyInit
<1>3. TypeOK /\ LockedWhileLive /\ Phases /\ AllSteady /\ [Next]_vars => AllSteady'
  BY SteadyStep
<1> HIDE DEF Led, AllSteady
<1>4. ASSUME ~Failures PROVE Spec => []Led
  <2>1. LockedWhileLive /\ Phases /\ AllSteady => Led
    BY <1>1, <1>4
  <2>2. QED
    BY <1>2, <1>3, <2>1, TypedInit, TypedStep, LockedInit, LockedStep, PhasesInit, PhasesStep,
       PTL DEF Spec
<1>5. QED
  BY <1>4 DEF Led

-----------------------------------------------------------------------------
(* The stock phase with its goroutines (SendRequests)                      *)

Label == {"idle", "stock", "payment", "abortPayment", "abortStock",
          "acknowledge", "commit"} \cup Answered

Settling == {"payment", "acknowledge", "commit"}

\* The variables of OrderTx that the argument is about.
OrderTyped ==
  /\ pc \in [Tx -> Label]
  /\ prep \in [Tx -> [Participant -> {"none", "sent", "ok", "err"}]]

Live(t) == {d \in Db : run[t][d] \in Alive}

Killed(t) == \E d \in Db : run[t][d] = "killed"

\* The conjunct of EveryMessageReceived for one transaction.
Counted(t) == left[t] = Cardinality(Live(t)) \/ Killed(t)

\* The collector may still tell the handler something.
Undecided(t) == sender[t] \in {"loop", "forward"} \/ (sender[t] = "collect" /\ ~hasErr[t])

\* Where the sender stands when the handler stands somewhere.
Paired(t) ==
  /\ Undecided(t) <=> pc[t] = "stock"
  /\ pc[t] = "idle" => sender[t] = "none"
  /\ hasErr[t] => sender[t] \in {"collect", "ended"}
  /\ Killed(t) => sender[t] = "ended" /\ pc[t] = "failed"

\* The requests that the first loop has come to are those with a goroutine.
Ranged(t) ==
  /\ \A d \in Db : run[t][d] = "none" <=> d \notin DbsOf[t] \ rest[t]
  /\ rest[t] \subseteq DbsOf[t]
  /\ sender[t] \in {"collect", "forward"} /\ ~abort[t] => rest[t] = {}

\* Until the collector has met an error, the flag has somebody who will send
\* one, and whoever has sent or is about to send a price has been recorded.
Flagged(t) ==
  Undecided(t) /\ sender[t] # "forward" =>
    /\ abort[t] => \E d \in Db : run[t][d] = "sendErr"
    /\ ~abort[t] => \A d \in Db : run[t][d] \in {"sendOk", "ended"} => prep[t][d] = "ok"

\* The conjunct of SettledBeforePayment for one transaction.
Settled(t) ==
  pc[t] \in Settling =>
    \A d \in DbsOf[t] : run[t][d] = "ended" /\ prep[t][d] = "ok" /\ ~abort[t]

\* A handler that has not started has no goroutine.
Fresh(t) == sender[t] = "none" => left[t] = 0 /\ ~abort[t] /\ rest[t] = DbsOf[t]

Sound(t) == Counted(t) /\ Paired(t) /\ Ranged(t) /\ Flagged(t) /\ Settled(t) /\ Fresh(t)

Inductive == OrderTyped /\ SendTypeOK /\ \A t \in Tx : Sound(t)

-----------------------------------------------------------------------------
(* What the steps do to one transaction                                    *)

\* Sets of databases are finite.
LEMMA Finite ==
  ASSUME NEW S \in SUBSET Db PROVE IsFiniteSet(S) /\ Cardinality(S) \in Nat
BY SendConstants, FS_Subset, FS_CardinalityType

\* The handler's steps outside the stock phase.
LEMMA HandlerSteps ==
  ASSUME OrderTyped, NEW t \in Tx, Handler(t)
  PROVE  /\ UNCHANGED sendVars
         /\ pc[t] \notin {"idle", "stock"}
         /\ \E label \in Label \ {"idle", "stock"} :
              /\ pc' = [pc EXCEPT ![t] = label]
              /\ label \in Settling => pc[t] \in Settling
         /\ \/ prep' = prep
            \/ \E answer \in {"ok", "err"} : prep' = [prep EXCEPT ![t][Payment] = answer]
<1> USE DEF OrderTyped, Label, Answered, Settling, Goto
<1>1. CASE PaymentAborted(t)
  <2>1. /\ pc[t] = "abortPayment" /\ pc' = [pc EXCEPT ![t] = "abortStock"]
        /\ prep' = prep /\ UNCHANGED sendVars
    BY <1>1 DEF Handler, PaymentAborted, AbortStock
  <2>2. "abortStock" \in Label \ {"idle", "stock"} /\ "abortStock" \notin Settling
    OBVIOUS
  <2>3. QED
    BY <2>1, <2>2
<1>2. CASE AbortCkTx(t)
  BY <1>2 DEF Handler, AbortCkTx, callVars
<1>3. CASE AcknowledgeCkTx(t)
  BY <1>3 DEF Handler, AcknowledgeCkTx, callVars
<1>4. CASE CommitCkTx(t)
  BY <1>4 DEF Handler, CommitCkTx, callVars
<1>5. CASE PaymentAccepts(t)
  BY <1>5 DEF Handler, PaymentAccepts
<1>6. CASE PaymentRefuses(t)
  BY <1>6 DEF Handler, PaymentRefuses
<1>7. ASSUME NEW p \in Participants(t), AbortAnswered(t, p) PROVE
         /\ pc[t] \in {"abortPayment", "abortStock"}
         /\ UNCHANGED <<pc, prep>>
  BY <1>7 DEF AbortAnswered
<1>8. CASE \E p \in Participants(t) : AbortAnswered(t, p)
  <2>1. pc[t] \in {"abortPayment", "abortStock"} /\ UNCHANGED <<pc, prep>>
    BY <1>7, <1>8
  <2>2. pc' = [pc EXCEPT ![t] = pc[t]]
    BY <2>1
  <2>3. UNCHANGED sendVars
    BY DEF Handler
  <2>4. QED
    BY <2>1, <2>2, <2>3
<1>9. QED
  BY <1>1, <1>2, <1>3, <1>4, <1>5, <1>6, <1>8 DEF Handler

\* Every step is one of these.
LEMMA SendSteps ==
  [SendNext]_allVars =>
    \/ UNCHANGED <<pc, prep, sendVars>>
    \/ \E t \in Tx : Begin(t) \/ Sender(t) \/ Handler(t) \/ FailSending(t)
    \/ \E t \in Tx : \E d \in Db : Goroutine(t, d)
BY DEF SendNext, allVars, vars, callVars, CreateOrder, RemoveOrder

\* What a transaction owes depends on its own variables only.
LEMMA Untouched ==
  ASSUME NEW u \in Tx, Sound(u),
         pc'[u] = pc[u], sender'[u] = sender[u], rest'[u] = rest[u], run'[u] = run[u],
         abort'[u] = abort[u], left'[u] = left[u], hasErr'[u] = hasErr[u],
         \A d \in Db : prep'[u][d] = prep[u][d]
  PROVE  Sound(u)'
<1>1. Live(u)' = Live(u) /\ Killed(u)' = Killed(u) /\ Undecided(u)' = Undecided(u)
  BY DEF Live, Killed, Undecided
<1>2. Counted(u)'
  BY <1>1 DEF Sound, Counted
<1>3. Paired(u)' /\ Ranged(u)' /\ Flagged(u)' /\ Fresh(u)'
  BY <1>1 DEF Sound, Paired, Ranged, Flagged, Fresh
<1>4. Settled(u)'
  BY OrderConstants DEF Sound, Settled
<1>5. QED
  BY <1>2, <1>3, <1>4 DEF Sound

-----------------------------------------------------------------------------
(* At the start nothing has been done                                      *)

\* The invariant holds at the start.
LEMMA SoundInit == SendInit => Inductive
<1> SUFFICES ASSUME SendInit PROVE Inductive
  OBVIOUS
<1>1. OrderTyped
  BY DEF SendInit, Init, OrderTyped, Label
<1>2. ASSUME NEW t \in Tx PROVE
        left[t] <= Cardinality(DbsOf[t] \ rest[t]) /\ rest[t] \in SUBSET Db
  <2>1. DbsOf[t] \ rest[t] = {} /\ left[t] = 0
    BY OrderConstants DEF SendInit
  <2>2. Cardinality(DbsOf[t] \ rest[t]) = 0
    BY <2>1, FS_EmptySet
  <2>3. QED
    BY <2>1, <2>2, OrderConstants DEF SendInit
<1>3. SendTypeOK
  BY <1>2, OrderConstants DEF SendInit, SendTypeOK
<1>4. ASSUME NEW t \in Tx PROVE Sound(t)
  <2>1. Live(t) = {} /\ ~Killed(t)
    BY DEF SendInit, Live, Alive, Killed, Sending
  <2>2. Counted(t)
    BY <2>1, FS_EmptySet DEF SendInit, Counted
  <2>3. Paired(t) /\ Flagged(t) /\ Settled(t) /\ Fresh(t)
    BY <2>1 DEF SendInit, Init, Paired, Undecided, Flagged, Settled, Settling, Fresh
  <2>4. Ranged(t)
    BY OrderConstants DEF SendInit, Ranged
  <2>5. QED
    BY <2>2, <2>3, <2>4 DEF Sound
<1>5. QED
  BY <1>1, <1>3, <1>4 DEF Inductive

-----------------------------------------------------------------------------
(* The steps of the handler                                                *)

\* A handler starts: either the stock phase begins, or there is none.
LEMMA BeginSound ==
  ASSUME Inductive, NEW t \in Tx, Begin(t) PROVE Inductive'
<1> USE OrderConstants DEF Inductive
<1>1. PICK label \in Label \ {"idle"} :
        /\ pc' = [pc EXCEPT ![t] = label]
        /\ label \in Settling => DbsOf[t] = {}
  BY DEF Begin, PrepareCkTx, Goto, AnswerIfLocked, Label, Answered, OrderTyped, Settling
<1>2. /\ pc[t] = "idle" /\ prep' = prep
      /\ UNCHANGED <<rest, run, abort, quoted, left, total, hasErr>>
      /\ sender' = [sender EXCEPT ![t] = IF pc'[t] = "stock" THEN "loop" ELSE @]
  BY DEF Begin, PrepareCkTx, callVars, collectVars
<1>3. OrderTyped'
  BY <1>1, <1>2 DEF OrderTyped
<1>4. SendTypeOK'
  BY <1>2 DEF SendTypeOK
<1>5. /\ sender[t] = "none" /\ ~hasErr[t] /\ ~Killed(t) /\ ~abort[t]
      /\ left[t] = Cardinality(Live(t))
      /\ \A d \in Db : run[t][d] = "none"
  BY <1>2 DEF Sound, Paired, Ranged, Fresh, Counted
<1>6. Sound(t)'
  <2>1. Live(t)' = Live(t) /\ Killed(t)' = Killed(t)
    BY <1>2 DEF Live, Killed
  <2>2. pc'[t] = label /\ sender'[t] = IF label = "stock" THEN "loop" ELSE "none"
    BY <1>1, <1>2, <1>5 DEF OrderTyped, SendTypeOK
  <2>3. Counted(t)' /\ Paired(t)' /\ Fresh(t)'
    BY <1>2, <1>5, <2>1, <2>2 DEF Sound, Counted, Paired, Undecided, Fresh
  <2>4. Ranged(t)'
    BY <1>2, <2>2 DEF Sound, Ranged
  <2>5. Flagged(t)' /\ Settled(t)'
    BY <1>1, <1>2, <1>5, <2>2 DEF Flagged, Settled, Settling
  <2>6. QED
    BY <2>3, <2>4, <2>5 DEF Sound
<1>7. ASSUME NEW u \in Tx, u # t PROVE Sound(u)'
  BY <1>1, <1>2, <1>7, Untouched DEF OrderTyped, SendTypeOK
<1>8. QED
  BY <1>3, <1>4, <1>6, <1>7

\* Outside the stock phase nothing is done to the goroutines, and the answers
\* of the databases stay what they are.
LEMMA HandlerSound ==
  ASSUME Inductive, NEW t \in Tx, Handler(t) PROVE Inductive'
<1> USE OrderConstants DEF Inductive
<1>1. UNCHANGED <<sender, rest, run, abort, quoted, left, total, hasErr>>
  BY HandlerSteps DEF sendVars, collectVars
<1>2. PICK label \in Label \ {"idle", "stock"} :
        /\ pc' = [pc EXCEPT ![t] = label]
        /\ label \in Settling => pc[t] \in Settling
  BY HandlerSteps
<1>3. /\ prep' \in [Tx -> [Participant -> {"none", "sent", "ok", "err"}]]
      /\ \A u \in Tx : \A d \in Db : prep'[u][d] = prep[u][d]
  <2>1. CASE prep' = prep
    BY <2>1 DEF OrderTyped
  <2>2. ASSUME NEW answer \in {"ok", "err"},
               prep' = [prep EXCEPT ![t][Payment] = answer]
        PROVE  <1>3!1 /\ <1>3!2
    BY <2>2 DEF OrderTyped, Participant
  <2>3. QED
    BY <2>1, <2>2, HandlerSteps
<1>4. OrderTyped' /\ SendTypeOK'
  BY <1>1, <1>2, <1>3 DEF OrderTyped, SendTypeOK
<1>5. pc'[t] = label /\ pc[t] \notin {"idle", "stock"} /\ label \notin {"idle", "stock"}
  BY <1>2, HandlerSteps DEF OrderTyped
<1>6. Sound(t)'
  <2>1. Live(t)' = Live(t) /\ Killed(t)' = Killed(t) /\ Undecided(t)' = Undecided(t)
    BY <1>1 DEF Live, Killed, Undecided
  <2>2. Counted(t)' /\ Ranged(t)' /\ Flagged(t)' /\ Fresh(t)'
    BY <1>1, <1>3, <2>1 DEF Sound, Counted, Ranged, Flagged, Fresh
  <2>3. pc[t] # "failed"
    BY DEF Handler, PaymentAborted, AbortCkTx, AcknowledgeCkTx, CommitCkTx,
           PaymentAccepts, PaymentRefuses, AbortAnswered
  <2>4. Paired(t)'
    BY <1>1, <1>5, <2>1, <2>3 DEF Sound, Paired
  <2>5. Settled(t)'
    BY <1>1, <1>2, <1>3, <1>5 DEF Sound, Settled
  <2>6. QED
    BY <2>2, <2>4, <2>5 DEF Sound
<1>7. ASSUME NEW u \in Tx, u # t PROVE Sound(u)'
  <2>1. pc'[u] = pc[u]
    BY <1>2, <1>7 DEF OrderTyped
  <2>2. QED
    BY <1>1, <1>3, <2>1, Untouched
<1>8. QED
  BY <1>4, <1>6, <1>7

\* A handler stops, alone or with its process.
LEMMA FailSound ==
  ASSUME Inductive, NEW t \in Tx, FailSending(t) PROVE Inductive'
<1> USE OrderConstants DEF Inductive
<1>1. /\ pc[t] # "idle" /\ pc' = [pc EXCEPT ![t] = "failed"] /\ prep' = prep
      /\ UNCHANGED <<rest, abort, quoted, left, total, hasErr>>
  BY DEF FailSending, Fail, Goto, callVars, collectVars
<1>2. OrderTyped'
  BY <1>1 DEF OrderTyped, Label, Answered
<1>3. pc'[t] = "failed" /\ \A u \in Tx \ {t} : pc'[u] = pc[u]
  BY <1>1 DEF OrderTyped
<1>4. CASE pc[t] # "stock" /\ UNCHANGED <<sender, run>>
  <2>1. SendTypeOK'
    BY <1>1, <1>4 DEF SendTypeOK
  <2>2. Live(t)' = Live(t) /\ Killed(t)' = Killed(t) /\ Undecided(t)' = Undecided(t)
    BY <1>1, <1>4 DEF Live, Killed, Undecided
  <2>3. Counted(t)' /\ Ranged(t)' /\ Flagged(t)' /\ Fresh(t)' /\ Paired(t)' /\ Settled(t)'
    BY <1>1, <1>3, <1>4, <2>2
       DEF Sound, Counted, Ranged, Flagged, Fresh, Paired, Settled, Settling
  <2>4. \A u \in Tx \ {t} : Sound(u)'
    BY <1>1, <1>3, <1>4, Untouched
  <2>5. QED
    BY <1>2, <2>1, <2>3, <2>4 DEF Sound
<1>5. CASE /\ sender' = [sender EXCEPT ![t] = "ended"]
           /\ run' = [run EXCEPT ![t] = [d \in Db |->
                        IF @[d] \in Alive THEN "killed" ELSE @[d]]]
  <2>1. SendTypeOK'
    <3>1. run' \in [Tx -> [Db -> {"none", "ended", "killed"} \cup Alive]]
      BY <1>5 DEF SendTypeOK
    <3>2. QED
      BY <1>1, <1>5, <3>1 DEF SendTypeOK
  <2>2. /\ sender'[t] = "ended"
        /\ \A d \in Db : run'[t][d] = IF run[t][d] \in Alive THEN "killed" ELSE run[t][d]
        /\ \A u \in Tx \ {t} : sender'[u] = sender[u] /\ run'[u] = run[u]
    BY <1>5 DEF SendTypeOK
  <2>3. Counted(t)'
    <3>1. CASE Live(t) = {}
      <4>1. Live(t)' = Live(t) /\ (Killed(t) => Killed(t)')
        BY <2>2, <3>1 DEF Live, Killed, Alive, Sending
      <4>2. QED
        BY <1>1, <4>1 DEF Sound, Counted
    <3>2. CASE Live(t) # {}
      BY <2>2, <3>2 DEF Live, Counted, Killed
    <3>3. QED
      BY <3>1, <3>2
  <2>4. Ranged(t)'
    BY <1>1, <2>2 DEF Sound, Ranged, Alive, Sending
  <2>5. Paired(t)' /\ Flagged(t)' /\ Settled(t)' /\ Fresh(t)'
    BY <1>1, <1>3, <2>2 DEF Paired, Undecided, Flagged, Settled, Settling, Fresh, SendTypeOK
  <2>6. \A u \in Tx \ {t} : Sound(u)'
    BY <1>1, <1>3, <2>2, Untouched
  <2>7. QED
    BY <1>2, <2>1, <2>3, <2>4, <2>5, <2>6 DEF Sound
<1>6. QED
  BY <1>4, <1>5 DEF FailSending

-----------------------------------------------------------------------------
(* The steps of a goroutine                                                *)

\* What any of them does.
LEMMA GoroutineSteps ==
  ASSUME Inductive, NEW t \in Tx, NEW d \in Db, Goroutine(t, d)
  PROVE  /\ UNCHANGED <<pc, sender, rest, left, total, hasErr>>
         /\ run[t][d] \in Alive \ Sending
         /\ \E label \in Alive \ {"started"} : run' = [run EXCEPT ![t][d] = label]
         /\ abort' = abort \/ (abort' = [abort EXCEPT ![t] = TRUE] /\ run'[t][d] = "sendErr")
         /\ quoted' = quoted
              \/ \E quote \in Quote : quoted' = [quoted EXCEPT ![t][d] = quote]
         /\ prep' = prep
              \/ \E answer \in {"sent", "ok", "err"} : prep' = [prep EXCEPT ![t][d] = answer]
         /\ run'[t][d] = "sendOk" /\ ~abort[t] => prep'[t][d] = "ok"
<1> USE DEF Inductive, RunTo, Alive, Sending, SendTypeOK, OrderTyped, vars, callVars, collectVars
<1>1. CASE Check(t, d)
  <2>1. CASE abort[t]
    <3>1. /\ run' = [run EXCEPT ![t][d] = "sendErr"] /\ run[t][d] = "started"
          /\ UNCHANGED <<pc, sender, rest, left, total, hasErr, abort, quoted, prep>>
      BY <1>1, <2>1 DEF Check
    <3>2. QED
      BY <3>1
  <2>2. CASE ~abort[t]
    <3>1. /\ run' = [run EXCEPT ![t][d] = "posting"] /\ run[t][d] = "started"
          /\ prep' = [prep EXCEPT ![t][d] = "sent"]
          /\ UNCHANGED <<pc, sender, rest, left, total, hasErr, abort, quoted>>
      BY <1>1, <2>2 DEF Check
    <3>2. QED
      BY <3>1
  <2>3. QED
    BY <2>1, <2>2
<1>2. CASE PostReturns(t, d)
  <2>1. PICK label \in {"sendErr", "reading", "failing"} : run' = [run EXCEPT ![t][d] = label]
    BY <1>2 DEF PostReturns
  <2>2. /\ run[t][d] = "posting"
        /\ UNCHANGED <<pc, sender, rest, left, total, hasErr, abort, quoted, prep>>
    BY <1>2 DEF PostReturns
  <2>3. QED
    BY <2>1, <2>2
<1>3. CASE ReadFails(t, d)
  <2>1. /\ run' = [run EXCEPT ![t][d] = "failing"] /\ run[t][d] = "reading"
        /\ UNCHANGED <<pc, sender, rest, left, total, hasErr, abort, quoted, prep>>
    BY <1>3 DEF ReadFails
  <2>2. QED
    BY <2>1
<1>4. CASE RaiseAbort(t, d)
  <2>1. /\ run' = [run EXCEPT ![t][d] = "sendErr"] /\ run[t][d] = "failing"
        /\ abort' = [abort EXCEPT ![t] = TRUE]
        /\ UNCHANGED <<pc, sender, rest, left, total, hasErr, quoted>>
    BY <1>4 DEF RaiseAbort
  <2>2. prep' = prep \/ prep' = [prep EXCEPT ![t][d] = "err"]
    BY <1>4 DEF RaiseAbort
  <2>3. QED
    BY <2>1, <2>2
<1>5. ASSUME NEW quote \in Quote, ReadBody(t, d, quote) PROVE
        /\ run' = [run EXCEPT ![t][d] = "sendOk"] /\ run[t][d] = "reading"
        /\ quoted' = [quoted EXCEPT ![t][d] = quote]
        /\ UNCHANGED <<pc, sender, rest, left, total, hasErr, abort>>
        /\ IF abort[t] THEN prep' = prep ELSE prep' = [prep EXCEPT ![t][d] = "ok"]
  BY <1>5 DEF ReadBody
<1>6. CASE \E quote \in Quote : ReadBody(t, d, quote)
  <2>1. PICK quote \in Quote : ReadBody(t, d, quote)
    BY <1>6
  <2>2. /\ run' = [run EXCEPT ![t][d] = "sendOk"] /\ run[t][d] = "reading"
        /\ quoted' = [quoted EXCEPT ![t][d] = quote]
        /\ UNCHANGED <<pc, sender, rest, left, total, hasErr, abort>>
    BY <1>5, <2>1
  <2>3. IF abort[t] THEN prep' = prep ELSE prep' = [prep EXCEPT ![t][d] = "ok"]
    BY <1>5, <2>1
  <2>4. d \in Participant
    BY DEF Participant
  <2>5. ~abort[t] => prep'[t][d] = "ok"
    BY <2>3, <2>4
  <2>6. QED
    BY <2>2, <2>3, <2>5
<1>7. QED
  BY <1>1, <1>2, <1>3, <1>4, <1>6 DEF Goroutine

\* A goroutine that raises the flag is about to send an error, and one that is
\* about to send a price has been recorded unless the flag was up.
LEMMA GoroutineSound ==
  ASSUME Inductive, NEW t \in Tx, NEW d \in Db, Goroutine(t, d) PROVE Inductive'
<1>0. /\ abort' = abort \/ (abort' = [abort EXCEPT ![t] = TRUE] /\ run'[t][d] = "sendErr")
      /\ quoted' = quoted
           \/ \E quote \in Quote : quoted' = [quoted EXCEPT ![t][d] = quote]
      /\ prep' = prep
           \/ \E answer \in {"sent", "ok", "err"} : prep' = [prep EXCEPT ![t][d] = answer]
      /\ run'[t][d] = "sendOk" /\ ~abort[t] => prep'[t][d] = "ok"
  BY GoroutineSteps
<1>1. UNCHANGED <<pc, sender, rest, left, total, hasErr>> /\ run[t][d] \in Alive \ Sending
  BY GoroutineSteps
<1>2. PICK label \in Alive \ {"started"} : run' = [run EXCEPT ![t][d] = label]
  BY GoroutineSteps
<1> USE OrderConstants DEF Inductive
<1>3. /\ run'[t][d] = label
      /\ \A e \in Db \ {d} : run'[t][e] = run[t][e]
      /\ \A u \in Tx \ {t} : run'[u] = run[u] /\ abort'[u] = abort[u]
      /\ run' \in [Tx -> [Db -> {"none", "ended", "killed"} \cup Alive]]
  BY <1>0, <1>2 DEF SendTypeOK
<1>4. d \in Participant
  BY DEF Participant
<1>5. /\ prep' \in [Tx -> [Participant -> {"none", "sent", "ok", "err"}]]
      /\ \A e \in Db \ {d} : prep'[t][e] = prep[t][e]
      /\ \A u \in Tx \ {t} : prep'[u] = prep[u]
  <2>1. CASE prep' = prep
    BY <2>1 DEF OrderTyped
  <2>2. ASSUME NEW answer \in {"sent", "ok", "err"}, prep' = [prep EXCEPT ![t][d] = answer]
        PROVE  <1>5!1 /\ <1>5!2 /\ <1>5!3
    BY <1>4, <2>2 DEF OrderTyped, Participant
  <2>3. QED
    BY <1>0, <2>1, <2>2
<1>6. /\ abort' \in [Tx -> BOOLEAN] /\ (abort[t] => abort'[t])
      /\ abort'[t] /\ ~abort[t] => label = "sendErr"
  <2>1. CASE abort' = abort
    BY <2>1 DEF SendTypeOK
  <2>2. CASE abort' = [abort EXCEPT ![t] = TRUE] /\ run'[t][d] = "sendErr"
    BY <1>3, <2>2 DEF SendTypeOK
  <2>3. QED
    BY <1>0, <2>1, <2>2
<1>7. quoted' \in [Tx -> [Db -> Quote \cup {0}]]
  <2>1. CASE quoted' = quoted
    BY <2>1 DEF SendTypeOK
  <2>2. ASSUME NEW quote \in Quote, quoted' = [quoted EXCEPT ![t][d] = quote]
        PROVE  quoted' \in [Tx -> [Db -> Quote \cup {0}]]
    BY <2>2 DEF SendTypeOK
  <2>3. QED
    BY <1>0, <2>1, <2>2
<1>8. OrderTyped' /\ SendTypeOK'
  BY <1>1, <1>3, <1>5, <1>6, <1>7 DEF OrderTyped, SendTypeOK
<1>9. Sound(t)'
  <2>1. Live(t)' = Live(t) /\ Killed(t)' = Killed(t) /\ Undecided(t)' = Undecided(t)
    BY <1>1, <1>3 DEF Live, Killed, Undecided, Alive, Sending
  <2>2. Counted(t)' /\ Paired(t)'
    BY <1>1, <2>1 DEF Sound, Counted, Paired
  <2>3. Ranged(t)'
    BY <1>1, <1>3, <1>6 DEF Sound, Ranged, Alive, Sending
  <2>4. Fresh(t)' /\ Settled(t)'
    <3>1. d \in DbsOf[t] /\ d \notin rest[t]
      BY <1>1 DEF Sound, Ranged, Alive, Sending
    <3>2. sender[t] # "none" /\ pc[t] \notin Settling
      BY <1>1, <3>1 DEF Sound, Fresh, Settled, Alive, Sending
    <3>3. QED
      BY <1>1, <3>2 DEF Fresh, Settled
  <2>5. Flagged(t)'
    <3>1. SUFFICES ASSUME Undecided(t), sender[t] # "forward" PROVE
            /\ abort'[t] => \E e \in Db : run'[t][e] = "sendErr"
            /\ ~abort'[t] => \A e \in Db : run'[t][e] \in {"sendOk", "ended"}
                                            => prep'[t][e] = "ok"
      BY <1>1, <2>1 DEF Flagged
    <3>2. CASE abort[t]
      <4>1. PICK e \in Db : run[t][e] = "sendErr"
        BY <3>1, <3>2 DEF Sound, Flagged
      <4>2. run'[t][e] = "sendErr"
        BY <1>1, <1>3, <4>1 DEF Sending
      <4>3. QED
        BY <1>6, <3>2, <4>2
    <3>3. CASE ~abort[t] /\ abort'[t]
      BY <1>3, <1>6, <3>3
    <3>4. CASE ~abort[t] /\ ~abort'[t]
      <4>1. ASSUME NEW e \in Db, run'[t][e] \in {"sendOk", "ended"} PROVE prep'[t][e] = "ok"
        <5>1. CASE e = d
          BY <1>0, <1>3, <3>4, <4>1, <5>1 DEF Alive, Sending
        <5>2. CASE e # d
          BY <1>3, <1>5, <3>1, <3>4, <4>1, <5>2 DEF Sound, Flagged
        <5>3. QED
          BY <5>1, <5>2
      <4>2. QED
        BY <3>4, <4>1
    <3>5. QED
      BY <3>2, <3>3, <3>4
  <2>6. QED
    BY <2>2, <2>3, <2>4, <2>5 DEF Sound
<1>10. ASSUME NEW u \in Tx, u # t PROVE Sound(u)'
  BY <1>1, <1>3, <1>5, <1>10, Untouched
<1>11. QED
  BY <1>8, <1>9, <1>10

-----------------------------------------------------------------------------
(* The steps of the sender                                                 *)

\* A goroutine more, and one to be received from.
LEMMA StartSound ==
  ASSUME Inductive, NEW t \in Tx, NEW d \in Db, Start(t, d) PROVE Inductive'
<1> USE OrderConstants DEF Inductive
<1>1. /\ sender[t] = "loop" /\ d \in rest[t] /\ ~abort[t]
      /\ rest' = [rest EXCEPT ![t] = @ \ {d}]
      /\ run' = [run EXCEPT ![t][d] = "started"]
      /\ left' = [left EXCEPT ![t] = @ + 1]
      /\ UNCHANGED <<pc, prep, sender, abort, quoted, total, hasErr>>
  BY DEF Start, RunTo, vars, callVars
<1>2. left[t] \in Nat /\ rest[t] \subseteq Db /\ d \in DbsOf[t]
  BY <1>1 DEF Sound, Ranged, SendTypeOK
<1>3. /\ run'[t][d] = "started" /\ \A e \in Db \ {d} : run'[t][e] = run[t][e]
      /\ rest'[t] = rest[t] \ {d} /\ left'[t] = left[t] + 1
      /\ \A u \in Tx \ {t} : run'[u] = run[u] /\ rest'[u] = rest[u] /\ left'[u] = left[u]
      /\ left' \in [Tx -> Nat]
      /\ run' \in [Tx -> [Db -> {"none", "ended", "killed"} \cup Alive]]
      /\ rest' \in [Tx -> SUBSET Db]
  BY <1>1 DEF SendTypeOK, Alive
<1>4. SendTypeOK'
  <2>1. DbsOf[t] \ rest'[t] = (DbsOf[t] \ rest[t]) \cup {d}
    BY <1>2, <1>3
  <2>2. Cardinality(DbsOf[t] \ rest'[t]) = Cardinality(DbsOf[t] \ rest[t]) + 1
    BY <1>1, <2>1, Finite, FS_AddElement
  <2>3. left'[t] <= Cardinality(DbsOf[t] \ rest'[t])
    <3>1. Cardinality(DbsOf[t] \ rest[t]) \in Nat
      BY Finite
    <3>2. left[t] <= Cardinality(DbsOf[t] \ rest[t])
      BY DEF SendTypeOK
    <3>3. QED
      BY <1>2, <1>3, <2>2, <3>1, <3>2
  <2>4. \A u \in Tx : left'[u] <= Cardinality(DbsOf[u] \ rest'[u])
    BY <1>3, <2>3 DEF SendTypeOK
  <2>5. QED
    BY <1>1, <1>3, <2>4 DEF SendTypeOK
<1>5. OrderTyped'
  BY <1>1 DEF OrderTyped
<1>6. Sound(t)'
  <2>1. run[t][d] = "none" /\ ~Killed(t)
    BY <1>1 DEF Sound, Ranged, Paired
  <2>2. Live(t)' = Live(t) \cup {d} /\ d \notin Live(t) /\ ~Killed(t)'
    BY <1>3, <2>1 DEF Live, Killed, Alive, Sending
  <2>3. Counted(t)'
    <3>1. Cardinality(Live(t)') = Cardinality(Live(t)) + 1
      BY <2>2, Finite, FS_AddElement DEF Live
    <3>2. left[t] = Cardinality(Live(t))
      BY <2>1 DEF Sound, Counted
    <3>3. QED
      BY <1>3, <3>1, <3>2 DEF Counted
  <2>4. Paired(t)' /\ Settled(t)' /\ Fresh(t)'
    BY <1>1, <2>2 DEF Sound, Paired, Undecided, Settled, Settling, Fresh
  <2>5. Ranged(t)'
    BY <1>1, <1>2, <1>3 DEF Sound, Ranged
  <2>6. Flagged(t)'
    BY <1>1, <1>3 DEF Sound, Flagged, Undecided
  <2>7. QED
    BY <2>3, <2>4, <2>5, <2>6 DEF Sound
<1>7. ASSUME NEW u \in Tx, u # t PROVE Sound(u)'
  BY <1>1, <1>3, <1>7, Untouched
<1>8. QED
  BY <1>4, <1>5, <1>6, <1>7

\* One message, and a goroutine less.
LEMMA CollectSound ==
  ASSUME Inductive, NEW t \in Tx, NEW d \in Db, CollectOk(t, d) \/ CollectErr(t, d)
  PROVE  Inductive'
<1> USE OrderConstants DEF Inductive
<1>1. /\ sender[t] = "collect" /\ left[t] > 0 /\ run[t][d] \in Sending
      /\ run' = [run EXCEPT ![t][d] = "ended"]
      /\ left' = [left EXCEPT ![t] = @ - 1]
      /\ UNCHANGED <<pc, prep, rest, abort, quoted, hasErr>>
  BY DEF CollectOk, CollectErr, RunTo, Sending, vars, callVars
<1>2. \/ /\ run[t][d] = "sendErr" /\ ~hasErr[t]
         /\ sender' = [sender EXCEPT ![t] = "forward"]
      \/ (run[t][d] = "sendOk" \/ hasErr[t]) /\ sender' = sender
  <2>1. CASE CollectOk(t, d)
    BY <2>1 DEF CollectOk, vars
  <2>2. CASE CollectErr(t, d) /\ hasErr[t]
    <3>1. sender' = [sender EXCEPT ![t] = sender[t]]
      BY <2>2 DEF CollectErr
    <3>2. QED
      BY <2>2, <3>1 DEF SendTypeOK
  <2>3. CASE CollectErr(t, d) /\ ~hasErr[t]
    BY <2>3 DEF CollectErr
  <2>4. QED
    BY <2>1, <2>2, <2>3
<1>3. total' \in [Tx -> Nat]
  <2>1. quoted[t][d] \in Nat
    <3>1. quoted[t][d] \in Quote \cup {0} /\ Quote \subseteq Nat
      BY DEF SendTypeOK
    <3>2. CASE quoted[t][d] \in Quote
      BY <3>1, <3>2
    <3>3. CASE quoted[t][d] = 0
      BY <3>3
    <3>4. QED
      BY <3>1, <3>2, <3>3
  <2>2. CASE total' = [total EXCEPT ![t] = @ + quoted[t][d]]
    BY <2>1, <2>2 DEF SendTypeOK
  <2>3. CASE total' = total
    BY <2>3 DEF SendTypeOK
  <2>4. QED
    BY <2>2, <2>3 DEF CollectOk, CollectErr
<1>4. left[t] \in Nat /\ Cardinality(DbsOf[t] \ rest[t]) \in Nat
  BY Finite DEF SendTypeOK
<1>5. /\ run'[t][d] = "ended" /\ \A e \in Db \ {d} : run'[t][e] = run[t][e]
      /\ \A u \in Tx \ {t} : run'[u] = run[u]
      /\ run' \in [Tx -> [Db -> {"none", "ended", "killed"} \cup Alive]]
  BY <1>1 DEF SendTypeOK
<1>6. /\ \A u \in Tx \ {t} : left'[u] = left[u] /\ sender'[u] = sender[u]
      /\ left' \in [Tx -> Nat] /\ left'[t] = left[t] - 1
      /\ sender' \in [Tx -> {"none", "loop", "collect", "forward", "ended"}]
  BY <1>1, <1>2 DEF SendTypeOK
<1>7. SendTypeOK' /\ OrderTyped'
  <2>1. OrderTyped'
    BY <1>1 DEF OrderTyped
  <2>2. ASSUME NEW u \in Tx PROVE left'[u] <= Cardinality(DbsOf[u] \ rest'[u])
    <3>1. left[u] <= Cardinality(DbsOf[u] \ rest[u]) /\ rest'[u] = rest[u]
      BY <1>1 DEF SendTypeOK
    <3>2. CASE u = t
      BY <1>4, <1>6, <3>1, <3>2
    <3>3. CASE u # t
      BY <1>6, <3>1, <3>3
    <3>4. QED
      BY <3>2, <3>3
  <2>3. QED
    BY <1>1, <1>3, <1>5, <1>6, <2>1, <2>2 DEF SendTypeOK
<1>8. Sound(t)'
  <2>1. ~Killed(t) /\ ~Killed(t)'
    BY <1>1, <1>5 DEF Sound, Paired, Killed
  <2>2. Live(t)' = Live(t) \ {d} /\ d \in Live(t)
    BY <1>1, <1>5 DEF Live, Alive, Sending
  <2>3. Counted(t)'
    <3>1. Cardinality(Live(t)') = Cardinality(Live(t)) - 1
      <4>1. IsFiniteSet(Live(t))
        BY Finite DEF Live
      <4>2. QED
        BY <2>2, <4>1, FS_RemoveElement
    <3>2. QED
      BY <1>1, <1>4, <2>1, <3>1 DEF Sound, Counted, SendTypeOK
  <2>4. sender'[t] = IF run[t][d] = "sendErr" /\ ~hasErr[t] THEN "forward" ELSE "collect"
    BY <1>1, <1>2 DEF SendTypeOK, Sending
  <2>5. Undecided(t)' = Undecided(t)
    BY <1>1, <2>4 DEF Undecided
  <2>6. Paired(t)' /\ Fresh(t)'
    BY <1>1, <2>1, <2>4, <2>5 DEF Sound, Paired, Fresh, Undecided
  <2>7. Ranged(t)'
    BY <1>1, <1>5, <2>4 DEF Sound, Ranged, Sending
  <2>8. Settled(t)'
    BY <1>1, <1>5 DEF Sound, Settled
  <2>9. Flagged(t)'
    <3>1. CASE run[t][d] = "sendErr"
      BY <1>1, <2>4, <3>1 DEF Flagged, Undecided
    <3>2. CASE run[t][d] = "sendOk"
      <4>1. SUFFICES ASSUME ~hasErr[t] PROVE Flagged(t)'
        BY <1>1, <2>4, <3>2 DEF Flagged, Undecided
      <4>2. Undecided(t) /\ sender[t] # "forward"
        BY <1>1, <4>1 DEF Undecided
      <4>3. CASE abort[t]
        <5>1. PICK e \in Db : run[t][e] = "sendErr"
          BY <4>2, <4>3 DEF Sound, Flagged
        <5>2. run'[t][e] = "sendErr"
          BY <1>5, <3>2, <5>1
        <5>3. QED
          BY <1>1, <4>3, <5>2 DEF Flagged
      <4>4. CASE ~abort[t]
        <5>1. \A e \in Db : run[t][e] \in {"sendOk", "ended"} => prep[t][e] = "ok"
          BY <4>2, <4>4 DEF Sound, Flagged
        <5>2. \A e \in Db : run'[t][e] \in {"sendOk", "ended"} => prep[t][e] = "ok"
          BY <1>5, <3>2, <5>1
        <5>3. QED
          BY <1>1, <4>4, <5>2 DEF Flagged
      <4>5. QED
        BY <4>3, <4>4
    <3>3. QED
      BY <1>1, <3>1, <3>2 DEF Sending
  <2>10. QED
    BY <2>3, <2>6, <2>7, <2>8, <2>9 DEF Sound
<1>9. ASSUME NEW u \in Tx, u # t PROVE Sound(u)'
  BY <1>1, <1>5, <1>6, <1>9, Untouched
<1>10. QED
  BY <1>7, <1>8, <1>9

-----------------------------------------------------------------------------
\* The first loop ends: without the flag it has come to every request.
LEMMA EndLoopSound ==
  ASSUME Inductive, NEW t \in Tx, EndLoop(t) PROVE Inductive'
<1> USE OrderConstants DEF Inductive
<1>1. /\ sender[t] = "loop" /\ (abort[t] \/ rest[t] = {})
      /\ sender' = [sender EXCEPT ![t] = "collect"]
      /\ UNCHANGED <<pc, prep, rest, run, abort, quoted, left, total, hasErr>>
  BY DEF EndLoop, vars, callVars, collectVars
<1>2. OrderTyped' /\ SendTypeOK'
  BY <1>1 DEF OrderTyped, SendTypeOK
<1>3. sender'[t] = "collect" /\ \A u \in Tx \ {t} : sender'[u] = sender[u]
  BY <1>1 DEF SendTypeOK
<1>4. ~hasErr[t] /\ Undecided(t) /\ Undecided(t)'
  BY <1>1, <1>3 DEF Sound, Paired, Undecided
<1>5. Live(t)' = Live(t) /\ Killed(t)' = Killed(t)
  BY <1>1 DEF Live, Killed
<1>6. Counted(t)' /\ Ranged(t)' /\ Settled(t)' /\ Fresh(t)'
  BY <1>1, <1>3, <1>5 DEF Sound, Counted, Ranged, Settled, Fresh
<1>7. Paired(t)' /\ Flagged(t)'
  BY <1>1, <1>3, <1>4, <1>5 DEF Sound, Paired, Flagged
<1>8. ASSUME NEW u \in Tx, u # t PROVE Sound(u)'
  BY <1>1, <1>3, <1>8, Untouched
<1>9. QED
  BY <1>2, <1>6, <1>7, <1>8 DEF Sound

\* The handler learns of the first error and goes on to abort.
LEMMA ForwardSound ==
  ASSUME Inductive, NEW t \in Tx, Forward(t) PROVE Inductive'
<1> USE OrderConstants DEF Inductive
<1>1. /\ sender[t] = "forward" /\ pc[t] = "stock"
      /\ pc' = [pc EXCEPT ![t] = "abortStock"]
      /\ hasErr' = [hasErr EXCEPT ![t] = TRUE]
      /\ sender' = [sender EXCEPT ![t] = "collect"]
      /\ UNCHANGED <<prep, rest, run, abort, quoted, left, total>>
  BY DEF Forward, AbortStock, Goto
<1>2. OrderTyped' /\ SendTypeOK'
  BY <1>1 DEF OrderTyped, SendTypeOK, Label
<1>3. /\ sender'[t] = "collect" /\ hasErr'[t] /\ pc'[t] = "abortStock"
      /\ \A u \in Tx \ {t} : sender'[u] = sender[u] /\ hasErr'[u] = hasErr[u] /\ pc'[u] = pc[u]
  BY <1>1 DEF SendTypeOK, OrderTyped
<1>4. Live(t)' = Live(t) /\ Killed(t)' = Killed(t) /\ ~Undecided(t)' /\ ~Killed(t)
  BY <1>1, <1>3 DEF Live, Killed, Undecided, Sound, Paired
<1>5. Counted(t)' /\ Ranged(t)' /\ Settled(t)' /\ Fresh(t)' /\ Paired(t)' /\ Flagged(t)'
  BY <1>1, <1>3, <1>4
     DEF Sound, Counted, Ranged, Settled, Settling, Fresh, Paired, Flagged
<1>6. ASSUME NEW u \in Tx, u # t PROVE Sound(u)'
  BY <1>1, <1>3, <1>6, Untouched
<1>7. QED
  BY <1>2, <1>5, <1>6 DEF Sound

\* Everything is collected; without an error all databases have answered 200.
LEMMA FinishSound ==
  ASSUME Inductive, NEW t \in Tx, Finish(t) PROVE Inductive'
<1> USE OrderConstants DEF Inductive
<1>1. /\ sender[t] = "collect" /\ left[t] = 0
      /\ sender' = [sender EXCEPT ![t] = "ended"]
      /\ UNCHANGED <<rest, run, abort, quoted, left, total, hasErr>>
  BY DEF Finish, collectVars
<1>2. /\ sender'[t] = "ended" /\ \A u \in Tx \ {t} : sender'[u] = sender[u]
      /\ SendTypeOK'
  BY <1>1 DEF SendTypeOK
<1>3. /\ Live(t)' = Live(t) /\ Killed(t)' = Killed(t) /\ ~Killed(t) /\ ~Undecided(t)'
  BY <1>1, <1>2 DEF Live, Killed, Undecided, Sound, Paired
<1>4. Counted(t)' /\ Ranged(t)' /\ Fresh(t)' /\ Flagged(t)'
  BY <1>1, <1>2, <1>3 DEF Sound, Counted, Ranged, Fresh, Flagged
<1>5. CASE hasErr[t]
  <2>1. UNCHANGED <<pc, prep>>
    BY <1>5 DEF Finish
  <2>2. OrderTyped' /\ Settled(t)'
    BY <1>1, <2>1 DEF OrderTyped, Sound, Settled
  <2>3. Paired(t)'
    BY <1>1, <1>2, <1>3, <1>5, <2>1 DEF Sound, Paired, Undecided
  <2>4. \A u \in Tx \ {t} : Sound(u)'
    BY <1>1, <1>2, <2>1, Untouched
  <2>5. QED
    BY <1>2, <1>4, <2>2, <2>3, <2>4 DEF Sound
<1>6. CASE ~hasErr[t]
  <2>1. /\ pc[t] = "stock" /\ pc' = [pc EXCEPT ![t] = "payment"]
        /\ prep' = [prep EXCEPT ![t][Payment] = "sent"]
    BY <1>6 DEF Finish, Goto
  <2>2. /\ pc'[t] = "payment" /\ \A u \in Tx \ {t} : pc'[u] = pc[u]
        /\ \A u \in Tx : \A d \in Db : prep'[u][d] = prep[u][d]
        /\ OrderTyped'
    BY <2>1 DEF OrderTyped, Participant, Label
  <2>3. \A d \in Db : run[t][d] \notin Alive
    <3>1. Cardinality(Live(t)) = 0 /\ IsFiniteSet(Live(t))
      BY <1>1, <1>3, Finite DEF Sound, Counted, Live
    <3>2. Live(t) = {}
      BY <3>1, FS_EmptySet
    <3>3. QED
      BY <3>2 DEF Live
  <2>4. Undecided(t) /\ sender[t] # "forward"
    BY <1>1, <1>6 DEF Undecided
  <2>5. ~abort[t]
    BY <2>3, <2>4 DEF Sound, Flagged, Alive, Sending
  <2>6. ASSUME NEW d \in DbsOf[t] PROVE run[t][d] = "ended" /\ prep[t][d] = "ok"
    <3>1. d \in Db
      OBVIOUS
    <3>2. run[t][d] # "none" /\ run[t][d] # "killed"
      BY <1>1, <1>3, <2>5, <3>1 DEF Sound, Ranged, Killed
    <3>3. run[t][d] = "ended"
      BY <2>3, <3>1, <3>2 DEF SendTypeOK
    <3>4. QED
      BY <2>4, <2>5, <3>1, <3>3 DEF Sound, Flagged
  <2>7. Settled(t)'
    BY <1>1, <2>2, <2>5, <2>6 DEF Settled
  <2>8. Paired(t)'
    BY <1>1, <1>2, <1>3, <1>6, <2>2 DEF Paired
  <2>9. \A u \in Tx \ {t} : Sound(u)'
    BY <1>1, <1>2, <2>2, Untouched
  <2>10. QED
    BY <1>2, <1>4, <2>2, <2>7, <2>8, <2>9 DEF Sound
<1>7. QED
  BY <1>5, <1>6

-----------------------------------------------------------------------------
(* Every step                                                              *)

\* Inductive is an inductive invariant.
LEMMA SoundStep == Inductive /\ [SendNext]_allVars => Inductive'
<1> SUFFICES ASSUME Inductive, [SendNext]_allVars PROVE Inductive'
  OBVIOUS
<1>1. CASE UNCHANGED <<pc, prep, sendVars>>
  <2>1. UNCHANGED <<pc, prep, sender, rest, run, abort, quoted, left, total, hasErr>>
    BY <1>1 DEF sendVars, collectVars
  <2>2. OrderTyped' /\ SendTypeOK'
    BY <2>1 DEF Inductive, OrderTyped, SendTypeOK
  <2>3. ASSUME NEW t \in Tx PROVE Sound(t)'
    BY <2>1, Untouched DEF Inductive
  <2>4. QED
    BY <2>2, <2>3 DEF Inductive
<1>2. ASSUME NEW t \in Tx, Begin(t) \/ Handler(t) \/ FailSending(t) PROVE Inductive'
  BY <1>2, BeginSound, HandlerSound, FailSound
<1>3. ASSUME NEW t \in Tx, Sender(t) PROVE Inductive'
  BY <1>3, EndLoopSound, ForwardSound, FinishSound, StartSound, CollectSound DEF Sender
<1>4. ASSUME NEW t \in Tx, NEW d \in Db, Goroutine(t, d) PROVE Inductive'
  BY <1>4, GoroutineSound
<1>5. QED
  BY <1>1, <1>2, <1>3, <1>4, SendSteps

\* The invariant holds in every reachable state.
LEMMA AlwaysSound == SendSpec => []Inductive
<1>1. QED
  BY SoundInit, SoundStep, PTL DEF SendSpec

\* The sender's count never exceeds the requests it has come to
\* (order/checkout_prepare.go:145).
THEOREM SendTypeCorrect == SendSpec => []SendTypeOK
<1>1. Inductive => SendTypeOK
  BY DEF Inductive
<1>2. QED
  BY <1>1, AlwaysSound, PTL

\* For any number of databases, the collector waits for as many messages as
\* there are goroutines: nobody is left behind on an unbuffered channel.
THEOREM Received == SendSpec => []EveryMessageReceived
<1>1. Inductive => EveryMessageReceived
  BY DEF Inductive, Sound, Counted, Live, Killed, EveryMessageReceived
<1>2. QED
  BY <1>1, AlwaysSound, PTL

\* Payment is asked, and a commit sent, only when every request to a database
\* has been answered with 200, whatever was read of the flag in between.
THEOREM SettledFirst == SendSpec => []SettledBeforePayment
<1>1. Inductive => SettledBeforePayment
  BY DEF Inductive, Sound, Settled, Settling, SettledBeforePayment
<1>2. QED
  BY <1>1, AlwaysSound, PTL

-----------------------------------------------------------------------------
(* What OrderTx keeps of the goroutines                                    *)

\* How the record that OrderTx keeps goes with the goroutines.
Recorded(t) ==
  /\ pc[t] = "stock" => (StockError(t) <=> abort[t])
  /\ \A d \in Db :
       /\ run[t][d] \in {"none", "started"} => prep[t][d] = "none"
       /\ run[t][d] \in {"posting", "reading", "failing"} => prep[t][d] = "sent"
       /\ run[t][d] = "sendErr" => abort[t]
  /\ hasErr[t] \/ sender[t] = "forward" => abort[t]
  /\ sender[t] = "ended" => \A d \in Db : run[t][d] \notin Alive

Priced == price \in [Tx -> Nat]

Faithful == Inductive /\ Priced /\ \A t \in Tx : Recorded(t)

\* It depends on the transaction's own variables only.
LEMMA RecordUntouched ==
  ASSUME NEW u \in Tx, Recorded(u),
         pc'[u] = pc[u], sender'[u] = sender[u], run'[u] = run[u],
         abort'[u] = abort[u], hasErr'[u] = hasErr[u],
         \A d \in Db : prep'[u][d] = prep[u][d]
  PROVE  Recorded(u)'
BY OrderConstants DEF Recorded, StockError

\* A goroutine that has not seen the flag finds the handler in the stock phase.
LEMMA AliveInPhase ==
  ASSUME Faithful, NEW t \in Tx, NEW d \in Db, run[t][d] \in Alive, ~abort[t]
  PROVE  /\ pc[t] = "stock" /\ d \in DbsOf[t] /\ ~StockError(t)
         /\ sender[t] # "ended" /\ ~hasErr[t]
<1> USE DEF Faithful, Inductive
<1>1. sender[t] \notin {"none", "ended"} /\ ~hasErr[t]
  BY DEF Recorded, Sound, Fresh, Ranged, Alive, Sending
<1>2. sender[t] \in {"loop", "collect", "forward"}
  BY <1>1 DEF SendTypeOK
<1>3. pc[t] = "stock"
  BY <1>1, <1>2 DEF Sound, Paired, Undecided
<1>4. d \in DbsOf[t]
  BY DEF Sound, Ranged, Alive, Sending
<1>5. QED
  BY <1>1, <1>3, <1>4 DEF Recorded

\* A step of a goroutine is a step of the phase, or none.
LEMMA GoroutineImplements ==
  ASSUME Faithful, NEW t \in Tx, NEW d \in Db, Goroutine(t, d)
  PROVE  \/ UNCHANGED vars
         \/ d \in DbsOf[t] /\ (PostPrepare(t, d) \/ StockRefuses(t, d))
         \/ d \in DbsOf[t] /\ \E quote \in Quote : StockAccepts(t, d, quote)
<1>1. prep \in [Tx -> [Participant -> {"none", "sent", "ok", "err"}]] /\ d \in Participant
  BY DEF Faithful, Inductive, OrderTyped, Participant
<1>2. CASE Check(t, d)
  <2>1. CASE abort[t]
    BY <1>2, <2>1 DEF Check, vars, callVars
  <2>2. CASE ~abort[t]
    <3>1. pc[t] = "stock" /\ d \in DbsOf[t] /\ ~StockError(t)
      BY <1>2, <2>2, AliveInPhase DEF Check, Alive
    <3>2. prep[t][d] = "none"
      BY <1>2 DEF Check, Faithful, Recorded
    <3>3. QED
      BY <1>2, <2>2, <3>1, <3>2 DEF Check, PostPrepare
  <2>3. QED
    BY <2>1, <2>2
<1>3. CASE PostReturns(t, d) \/ ReadFails(t, d)
  BY <1>3 DEF PostReturns, ReadFails
<1>4. CASE RaiseAbort(t, d)
  <2>1. CASE abort[t]
    <3>1. prep' = [prep EXCEPT ![t][d] = prep[t][d]]
      BY <1>4, <2>1 DEF RaiseAbort
    <3>2. prep' = prep
      BY <1>1, <3>1
    <3>3. QED
      BY <1>4, <3>2 DEF RaiseAbort, vars, callVars
  <2>2. CASE ~abort[t]
    <3>1. pc[t] = "stock" /\ d \in DbsOf[t] /\ ~StockError(t)
      BY <1>4, <2>2, AliveInPhase DEF RaiseAbort, Alive
    <3>2. prep[t][d] = "sent"
      BY <1>4 DEF RaiseAbort, Faithful, Recorded
    <3>3. prep' = [prep EXCEPT ![t][d] = "err"]
      BY <1>4, <2>2 DEF RaiseAbort
    <3>4. QED
      BY <1>4, <3>1, <3>2, <3>3 DEF RaiseAbort, StockRefuses
  <2>3. QED
    BY <2>1, <2>2
<1>5. ASSUME NEW quote \in Quote, ReadBody(t, d, quote) PROVE
        UNCHANGED vars \/ (d \in DbsOf[t] /\ StockAccepts(t, d, quote))
  <2>1. CASE abort[t]
    BY <1>5, <2>1 DEF ReadBody, vars, callVars
  <2>2. CASE ~abort[t]
    <3>1. pc[t] = "stock" /\ d \in DbsOf[t] /\ ~StockError(t)
      BY <1>5, <2>2, AliveInPhase DEF ReadBody, Alive
    <3>2. prep[t][d] = "sent"
      BY <1>5 DEF ReadBody, Faithful, Recorded
    <3>3. QED
      BY <1>5, <2>2, <3>1, <3>2 DEF ReadBody, StockAccepts
  <2>3. QED
    BY <2>1, <2>2
<1>6. QED
  BY <1>2, <1>3, <1>4, <1>5 DEF Goroutine

\* A step of the sender is one of the phase, or none, as long as the sum is
\* the price.
LEMMA SenderImplements ==
  ASSUME Faithful, TotalIsSum, NEW t \in Tx, Sender(t)
  PROVE  UNCHANGED vars \/ StockRefused(t) \/ StockPrepared(t)
<1>1. CASE EndLoop(t)
  BY <1>1 DEF EndLoop
<1>2. CASE \E d \in Db : Start(t, d) \/ CollectOk(t, d) \/ CollectErr(t, d)
  BY <1>2 DEF Start, CollectOk, CollectErr
<1>3. CASE Forward(t)
  <2>1. StockError(t)
    BY <1>3 DEF Forward, Faithful, Recorded
  <2>2. QED
    BY <1>3, <2>1 DEF Forward, StockRefused
<1>4. CASE Finish(t) /\ hasErr[t]
  BY <1>4 DEF Finish, vars, callVars
<1>5. CASE Finish(t) /\ ~hasErr[t]
  <2>1. /\ pc[t] = "stock" /\ Goto(t, "payment")
        /\ prep' = [prep EXCEPT ![t][Payment] = "sent"]
        /\ price' = [price EXCEPT ![t] = total[t]] /\ UNCHANGED <<orderVars, abrt>>
    BY <1>5 DEF Finish
  <2>2. price' = price
    <3>1. total[t] = price[t]
      BY <1>5 DEF Finish, TotalIsSum
    <3>2. QED
      BY <2>1, <3>1 DEF Faithful, Priced
  <2>3. AllPrepared(t)
    <3>1. Settled(t)' /\ pc'[t] = "payment"
      <4>1. Inductive'
        BY <1>5, FinishSound DEF Faithful
      <4>2. QED
        BY <2>1, <4>1 DEF Inductive, Sound, Faithful, OrderTyped, Goto
    <3>2. \A d \in Db : prep'[t][d] = prep[t][d]
      BY <2>1, OrderConstants DEF Faithful, Inductive, OrderTyped, Participant
    <3>3. QED
      BY <3>1, <3>2, OrderConstants DEF Settled, Settling, AllPrepared
  <2>4. QED
    BY <2>1, <2>2, <2>3 DEF StockPrepared
<1>6. QED
  BY <1>1, <1>2, <1>3, <1>4, <1>5 DEF Sender

-----------------------------------------------------------------------------
(* The record is kept                                                      *)

\* At the start nothing is recorded.
LEMMA FaithfulInit == SendInit => Faithful
<1> SUFFICES ASSUME SendInit PROVE Faithful
  OBVIOUS
<1>1. Priced
  BY DEF SendInit, Init, Priced
<1>2. ASSUME NEW t \in Tx PROVE Recorded(t)
  BY DEF SendInit, Init, Recorded, Participant
<1>3. QED
  BY <1>1, <1>2, SoundInit DEF Faithful

\* The prices recorded are numbers.
LEMMA PricedStep == Inductive /\ Priced /\ [SendNext]_allVars => Priced'
<1> SUFFICES ASSUME Inductive, Priced, [SendNext]_allVars PROVE Priced'
  OBVIOUS
<1> USE OrderConstants DEF Priced
<1>1. CASE price' = price
  BY <1>1
<1>2. ASSUME NEW t \in Tx, Finish(t) PROVE Priced'
  <2>1. total[t] \in Nat
    BY DEF Inductive, SendTypeOK
  <2>2. price' = price \/ price' = [price EXCEPT ![t] = total[t]]
    BY <1>2 DEF Finish
  <2>3. QED
    BY <2>1, <2>2
<1>3. ASSUME NEW t \in Tx, NEW d \in Db, NEW quote \in Quote, ReadBody(t, d, quote)
      PROVE  Priced'
  <2>1. price' = price \/ price' = [price EXCEPT ![t] = @ + quote]
    BY <1>3 DEF ReadBody
  <2>2. quote \in Nat
    OBVIOUS
  <2>3. QED
    BY <2>1, <2>2
<1>4. ASSUME NEW t \in Tx, Sender(t), ~Finish(t) PROVE price' = price
  BY <1>4 DEF Sender, EndLoop, Forward, Start, CollectOk, CollectErr, vars, callVars
<1>5. ASSUME NEW t \in Tx, NEW d \in Db, Goroutine(t, d),
             ~\E quote \in Quote : ReadBody(t, d, quote)
      PROVE  price' = price
  BY <1>5 DEF Goroutine, Check, PostReturns, ReadFails, RaiseAbort, vars, callVars
<1>6. ASSUME NEW t \in Tx, Begin(t) \/ FailSending(t) PROVE price' = price
  BY <1>6 DEF Begin, PrepareCkTx, FailSending, Fail, callVars
<1>7. ASSUME NEW t \in Tx, Handler(t) PROVE price' = price
  BY <1>7 DEF Handler, PaymentAborted, AbortCkTx, AcknowledgeCkTx, CommitCkTx,
              PaymentAccepts, PaymentRefuses, AbortAnswered, callVars
<1>8. CASE UNCHANGED allVars \/ \E o \in Order : CreateOrder(o) \/ RemoveOrder(o)
  BY <1>8 DEF allVars, vars, callVars, CreateOrder, RemoveOrder
<1>9. QED
  BY <1>1, <1>2, <1>3, <1>4, <1>5, <1>6, <1>7, <1>8 DEF SendNext

\* A goroutine writes down what it does.
LEMMA GoroutineRecorded ==
  ASSUME Faithful, NEW t \in Tx, NEW d \in Db, Goroutine(t, d)
  PROVE  \A u \in Tx : Recorded(u)'
<1>1. /\ UNCHANGED <<pc, sender, hasErr>> /\ run[t][d] \in Alive \ Sending
      /\ \E label \in Alive \ {"started"} : run' = [run EXCEPT ![t][d] = label]
      /\ abort' = abort \/ (abort' = [abort EXCEPT ![t] = TRUE] /\ run'[t][d] = "sendErr")
      /\ prep' = prep
           \/ \E answer \in {"sent", "ok", "err"} : prep' = [prep EXCEPT ![t][d] = answer]
  BY GoroutineSteps DEF Faithful
<1> USE OrderConstants
<1>2. /\ \A e \in Db \ {d} : run'[t][e] = run[t][e]
      /\ \A u \in Tx \ {t} : run'[u] = run[u]
  BY <1>1
<1>3. /\ \A u \in Tx \ {t} : abort'[u] = abort[u] /\ prep'[u] = prep[u]
      /\ \A e \in Db \ {d} : prep'[t][e] = prep[t][e]
  <2>1. \A u \in Tx \ {t} : abort'[u] = abort[u]
    <3>1. CASE abort' = abort
      BY <3>1
    <3>2. CASE abort' = [abort EXCEPT ![t] = TRUE]
      BY <3>2 DEF Faithful, Inductive, SendTypeOK
    <3>3. QED
      BY <1>1, <3>1, <3>2
  <2>2. CASE prep' = prep
    BY <2>1, <2>2
  <2>3. ASSUME NEW answer \in {"sent", "ok", "err"}, prep' = [prep EXCEPT ![t][d] = answer]
        PROVE  <1>3!2 /\ \A u \in Tx \ {t} : prep'[u] = prep[u]
    BY <2>3
  <2>4. QED
    BY <1>1, <2>1, <2>2, <2>3
<1>4. \A u \in Tx \ {t} : Recorded(u)'
  BY <1>1, <1>2, <1>3, RecordUntouched DEF Faithful
<1>5. sender[t] # "ended"
  BY <1>1 DEF Faithful, Recorded
<1>6. CASE UNCHANGED <<prep, abort>>
  <2>1. \/ run'[t][d] = "sendOk"
        \/ run'[t][d] = "sendErr" /\ abort[t]
        \/ run'[t][d] \in {"reading", "failing"} /\ prep[t][d] = "sent"
    <3>1. run' \in [Tx -> [Db -> {"none", "ended", "killed"} \cup Alive]]
      BY <1>1 DEF Faithful, Inductive, SendTypeOK
    <3>2. /\ run \in [Tx -> [Db -> {"none", "ended", "killed"} \cup Alive]]
          /\ prep \in [Tx -> [Participant -> {"none", "sent", "ok", "err"}]]
          /\ d \in Participant
      BY DEF Faithful, Inductive, SendTypeOK, OrderTyped, Participant
    <3>3. CASE Check(t, d)
      <4>1. prep[t][d] = "none"
        BY <3>3 DEF Check, Faithful, Recorded
      <4>2. abort[t]
        BY <1>6, <3>2, <3>3, <4>1 DEF Check
      <4>3. QED
        BY <3>2, <3>3, <4>2 DEF Check, RunTo
    <3>4. CASE PostReturns(t, d)
      <4>1. prep[t][d] = "sent"
        BY <3>4 DEF PostReturns, Faithful, Recorded
      <4>2. QED
        BY <3>2, <3>4, <4>1 DEF PostReturns, RunTo
    <3>5. CASE ReadFails(t, d)
      <4>1. prep[t][d] = "sent"
        BY <3>5 DEF ReadFails, Faithful, Recorded
      <4>2. QED
        BY <3>2, <3>5, <4>1 DEF ReadFails, RunTo
    <3>6. CASE RaiseAbort(t, d)
      <4>1. run'[t][d] = "sendErr"
        BY <3>2, <3>6 DEF RaiseAbort, RunTo
      <4>2. abort'[t]
        BY <3>6 DEF RaiseAbort, Faithful, Inductive, SendTypeOK
      <4>3. QED
        BY <1>6, <4>1, <4>2
    <3>7. CASE \E quote \in Quote : ReadBody(t, d, quote)
      BY <3>2, <3>7 DEF ReadBody, RunTo
    <3>8. QED
      BY <3>3, <3>4, <3>5, <3>6, <3>7 DEF Goroutine
  <2>2. Recorded(t)'
    BY <1>1, <1>2, <1>5, <1>6, <2>1 DEF Faithful, Recorded, StockError
  <2>3. QED
    BY <1>4, <2>2
<1>7. CASE ~UNCHANGED <<prep, abort>>
  <2>1. /\ run \in [Tx -> [Db -> {"none", "ended", "killed"} \cup Alive]]
        /\ prep \in [Tx -> [Participant -> {"none", "sent", "ok", "err"}]]
        /\ abort \in [Tx -> BOOLEAN] /\ d \in Participant
    BY DEF Faithful, Inductive, SendTypeOK, OrderTyped, Participant
  <2>2. /\ ~abort[t]
        /\ \/ run'[t][d] = "posting" /\ prep'[t][d] = "sent" /\ ~abort'[t]
           \/ run'[t][d] = "sendOk" /\ prep'[t][d] = "ok" /\ ~abort'[t]
           \/ run'[t][d] = "sendErr" /\ prep'[t][d] = "err" /\ abort'[t]
    <3>1. CASE Check(t, d)
      BY <1>7, <2>1, <3>1 DEF Check, RunTo
    <3>2. CASE PostReturns(t, d) \/ ReadFails(t, d)
      BY <1>7, <3>2 DEF PostReturns, ReadFails, vars, callVars
    <3>3. CASE RaiseAbort(t, d)
      <4>1. ~abort[t]
        <5>1. SUFFICES ASSUME abort[t] PROVE UNCHANGED <<prep, abort>>
          BY <1>7, <2>1
        <5>2. abort' = abort
          BY <2>1, <3>3, <5>1 DEF RaiseAbort
        <5>3. prep' = [prep EXCEPT ![t][d] = prep[t][d]]
          BY <3>3, <5>1 DEF RaiseAbort
        <5>4. QED
          BY <2>1, <5>2, <5>3
      <4>2. QED
        BY <2>1, <3>3, <4>1 DEF RaiseAbort, RunTo
    <3>4. ASSUME NEW quote \in Quote, ReadBody(t, d, quote) PROVE <2>2
      BY <1>7, <2>1, <3>4 DEF ReadBody, RunTo
    <3>5. QED
      BY <3>1, <3>2, <3>3, <3>4 DEF Goroutine
  <2>3. /\ pc[t] = "stock" /\ d \in DbsOf[t] /\ ~StockError(t)
        /\ sender[t] # "ended" /\ ~hasErr[t]
    BY <1>1, <2>2, AliveInPhase
  <2>4. StockError(t)' <=> abort'[t]
    BY <1>3, <2>2, <2>3 DEF StockError
  <2>5. sender[t] # "forward"
    BY <2>2 DEF Faithful, Recorded
  <2>6. Recorded(t)'
    BY <1>1, <1>2, <1>3, <2>2, <2>3, <2>4, <2>5 DEF Faithful, Recorded
  <2>7. QED
    BY <1>4, <2>6
<1>8. QED
  BY <1>6, <1>7

\* The sender and the handler leave the record as it is.
LEMMA SenderRecorded ==
  ASSUME Faithful, NEW t \in Tx, Sender(t)
  PROVE  \A u \in Tx : Recorded(u)'
<1> USE OrderConstants DEF Faithful, Inductive
<1>1. CASE EndLoop(t)
  <2>1. /\ sender' = [sender EXCEPT ![t] = "collect"]
        /\ UNCHANGED <<pc, prep, run, abort, hasErr>>
    BY <1>1 DEF EndLoop, vars, callVars, collectVars
  <2>2. sender'[t] = "collect" /\ \A u \in Tx \ {t} : sender'[u] = sender[u]
    BY <2>1 DEF SendTypeOK
  <2>3. Recorded(t)'
    BY <2>1, <2>2 DEF Recorded, StockError
  <2>4. QED
    BY <2>1, <2>2, <2>3, RecordUntouched
<1>2. ASSUME NEW d \in Db, Start(t, d) PROVE \A u \in Tx : Recorded(u)'
  <2>1. /\ run' = [run EXCEPT ![t][d] = "started"] /\ run[t][d] = "none"
        /\ sender[t] = "loop" /\ UNCHANGED <<pc, prep, sender, abort, hasErr>>
    BY <1>2 DEF Start, RunTo, vars, callVars, Sound, Ranged
  <2>2. /\ run'[t][d] = "started" /\ \A e \in Db \ {d} : run'[t][e] = run[t][e]
        /\ \A u \in Tx \ {t} : run'[u] = run[u]
    BY <2>1 DEF SendTypeOK
  <2>3. Recorded(t)'
    BY <2>1, <2>2 DEF Recorded, StockError
  <2>4. QED
    BY <2>1, <2>2, <2>3, RecordUntouched
<1>3. ASSUME NEW d \in Db, CollectOk(t, d) \/ CollectErr(t, d)
      PROVE  \A u \in Tx : Recorded(u)'
  <2>1. /\ run' = [run EXCEPT ![t][d] = "ended"] /\ sender[t] = "collect"
        /\ UNCHANGED <<pc, prep, abort, hasErr>>
    BY <1>3 DEF CollectOk, CollectErr, RunTo, vars, callVars
  <2>2. /\ run'[t][d] = "ended" /\ \A e \in Db \ {d} : run'[t][e] = run[t][e]
        /\ \A u \in Tx \ {t} : run'[u] = run[u]
    BY <2>1 DEF SendTypeOK
  <2>3. /\ sender'[t] # "ended" /\ (sender'[t] = "forward" => abort[t])
        /\ \A u \in Tx \ {t} : sender'[u] = sender[u]
    <3>1. CASE CollectOk(t, d)
      BY <2>1, <3>1 DEF CollectOk
    <3>2. CASE CollectErr(t, d)
      BY <2>1, <3>2 DEF CollectErr, Recorded, SendTypeOK
    <3>3. QED
      BY <1>3, <3>1, <3>2
  <2>4. Recorded(t)'
    BY <2>1, <2>2, <2>3 DEF Recorded, StockError
  <2>5. QED
    BY <2>1, <2>2, <2>3, <2>4, RecordUntouched
<1>4. CASE Forward(t)
  <2>1. /\ sender[t] = "forward" /\ pc' = [pc EXCEPT ![t] = "abortStock"]
        /\ hasErr' = [hasErr EXCEPT ![t] = TRUE]
        /\ sender' = [sender EXCEPT ![t] = "collect"]
        /\ UNCHANGED <<prep, run, abort>>
    BY <1>4 DEF Forward, AbortStock, Goto
  <2>2. /\ sender'[t] = "collect" /\ pc'[t] = "abortStock"
        /\ \A u \in Tx \ {t} :
             sender'[u] = sender[u] /\ pc'[u] = pc[u] /\ hasErr'[u] = hasErr[u]
    BY <2>1 DEF SendTypeOK, OrderTyped
  <2>3. Recorded(t)'
    BY <2>1, <2>2 DEF Recorded
  <2>4. QED
    BY <2>1, <2>2, <2>3, RecordUntouched
<1>5. CASE Finish(t)
  <2>1. /\ sender[t] = "collect" /\ sender' = [sender EXCEPT ![t] = "ended"]
        /\ UNCHANGED <<run, abort, hasErr>>
    BY <1>5 DEF Finish, collectVars
  <2>2. sender'[t] = "ended" /\ \A u \in Tx \ {t} : sender'[u] = sender[u]
    BY <2>1 DEF SendTypeOK
  <2>3. \A d \in Db : run[t][d] \notin Alive
    <3>1. Cardinality(Live(t)) = 0 /\ IsFiniteSet(Live(t))
      BY <1>5, Finite DEF Finish, Sound, Counted, Paired, Live
    <3>2. Live(t) = {}
      BY <3>1, FS_EmptySet
    <3>3. QED
      BY <3>2 DEF Live
  <2>4. \A u \in Tx : \A d \in Db : prep'[u][d] = prep[u][d]
    <3>1. CASE prep' = prep
      BY <3>1
    <3>2. CASE prep' = [prep EXCEPT ![t][Payment] = "sent"]
      BY <3>2 DEF OrderTyped, Participant
    <3>3. QED
      BY <1>5, <3>1, <3>2 DEF Finish
  <2>5. pc' = pc \/ pc' = [pc EXCEPT ![t] = "payment"]
    BY <1>5 DEF Finish, Goto
  <2>6. (pc'[t] = pc[t] \/ pc'[t] = "payment") /\ \A u \in Tx \ {t} : pc'[u] = pc[u]
    BY <2>5 DEF OrderTyped
  <2>7. Recorded(t)'
    BY <2>1, <2>2, <2>3, <2>4, <2>6 DEF Recorded, StockError
  <2>8. QED
    BY <2>1, <2>2, <2>4, <2>6, <2>7, RecordUntouched
<1>6. QED
  BY <1>1, <1>2, <1>3, <1>4, <1>5 DEF Sender

\* So does the handler, whether it starts, goes on or stops.
LEMMA HandlerRecorded ==
  ASSUME Faithful, NEW t \in Tx, Begin(t) \/ Handler(t) \/ FailSending(t)
  PROVE  \A u \in Tx : Recorded(u)'
<1> USE OrderConstants DEF Faithful, Inductive
<1>1. CASE Begin(t)
  <2>1. /\ pc[t] = "idle" /\ UNCHANGED <<prep, run, abort, hasErr>>
        /\ sender' = [sender EXCEPT ![t] = IF pc'[t] = "stock" THEN "loop" ELSE @]
    BY <1>1 DEF Begin, PrepareCkTx, callVars, collectVars
  <2>0. PICK label \in Label \ {"idle"} : pc' = [pc EXCEPT ![t] = label]
    BY <1>1 DEF Begin, PrepareCkTx, Goto, AnswerIfLocked, Label, Answered
  <2>2. /\ sender[t] = "none" /\ ~abort[t] /\ ~hasErr[t]
        /\ \A d \in Db : run[t][d] = "none"
    BY <2>1 DEF Sound, Paired, Fresh, Ranged
  <2>3. /\ sender'[t] \in {"none", "loop"}
        /\ \A u \in Tx \ {t} : sender'[u] = sender[u] /\ pc'[u] = pc[u]
    BY <2>0, <2>1, <2>2 DEF SendTypeOK, OrderTyped
  <2>4. ~StockError(t)'
    BY <2>1, <2>2 DEF StockError, Recorded
  <2>5. Recorded(t)'
    BY <2>1, <2>2, <2>3, <2>4 DEF Recorded
  <2>6. QED
    BY <2>1, <2>3, <2>5, RecordUntouched
<1>2. CASE Handler(t)
  <2>1. /\ UNCHANGED <<sender, run, abort, hasErr>>
        /\ \E label \in Label \ {"idle", "stock"} : pc' = [pc EXCEPT ![t] = label]
        /\ \/ prep' = prep
           \/ \E answer \in {"ok", "err"} : prep' = [prep EXCEPT ![t][Payment] = answer]
    BY <1>2, HandlerSteps DEF sendVars, collectVars
  <2>2. \A u \in Tx : \A d \in Db : prep'[u][d] = prep[u][d]
    <3>1. CASE prep' = prep
      BY <3>1
    <3>2. ASSUME NEW answer \in {"ok", "err"}, prep' = [prep EXCEPT ![t][Payment] = answer]
          PROVE  <2>2
      BY <3>2 DEF OrderTyped, Participant
    <3>3. QED
      BY <2>1, <3>1, <3>2
  <2>3. pc'[t] # "stock" /\ \A u \in Tx \ {t} : pc'[u] = pc[u]
    BY <2>1 DEF OrderTyped
  <2>4. Recorded(t)'
    BY <2>1, <2>2, <2>3 DEF Recorded
  <2>5. QED
    BY <2>1, <2>2, <2>3, <2>4, RecordUntouched
<1>3. CASE FailSending(t)
  <2>1. /\ pc' = [pc EXCEPT ![t] = "failed"] /\ UNCHANGED <<prep, abort, hasErr>>
    BY <1>3 DEF FailSending, Fail, Goto, callVars, collectVars
  <2>2. pc'[t] = "failed" /\ \A u \in Tx \ {t} : pc'[u] = pc[u]
    BY <2>1 DEF OrderTyped
  <2>3. CASE UNCHANGED <<sender, run>>
    <3>1. Recorded(t)'
      BY <2>1, <2>2, <2>3 DEF Recorded
    <3>2. QED
      BY <2>1, <2>2, <2>3, <3>1, RecordUntouched
  <2>4. CASE /\ sender' = [sender EXCEPT ![t] = "ended"]
             /\ run' = [run EXCEPT ![t] = [d \in Db |->
                          IF @[d] \in Alive THEN "killed" ELSE @[d]]]
    <3>1. /\ sender'[t] = "ended"
          /\ \A d \in Db : run'[t][d] = IF run[t][d] \in Alive THEN "killed" ELSE run[t][d]
          /\ \A u \in Tx \ {t} : sender'[u] = sender[u] /\ run'[u] = run[u]
      BY <2>4 DEF SendTypeOK
    <3>2. Recorded(t)'
      BY <2>1, <2>2, <3>1 DEF Recorded, Alive, Sending
    <3>3. QED
      BY <2>1, <2>2, <3>1, <3>2, RecordUntouched
  <2>5. QED
    BY <1>3, <2>3, <2>4 DEF FailSending
<1>4. QED
  BY <1>1, <1>2, <1>3

\* Faithful is an inductive invariant.
LEMMA FaithfulStep == Faithful /\ [SendNext]_allVars => Faithful'
<1> SUFFICES ASSUME Faithful, [SendNext]_allVars PROVE Faithful'
  OBVIOUS
<1>1. Inductive' /\ Priced'
  BY SoundStep, PricedStep DEF Faithful
<1>2. \A u \in Tx : Recorded(u)'
  <2>1. CASE UNCHANGED <<pc, prep, sendVars>>
    <3>1. UNCHANGED <<pc, prep, sender, run, abort, hasErr>>
      BY <2>1 DEF sendVars, collectVars
    <3>2. QED
      BY <3>1, RecordUntouched DEF Faithful
  <2>2. ASSUME NEW t \in Tx, Begin(t) \/ Sender(t) \/ Handler(t) \/ FailSending(t)
        PROVE  \A u \in Tx : Recorded(u)'
    BY <2>2, SenderRecorded, HandlerRecorded
  <2>3. ASSUME NEW t \in Tx, NEW d \in Db, Goroutine(t, d)
        PROVE  \A u \in Tx : Recorded(u)'
    BY <2>3, GoroutineRecorded
  <2>4. QED
    BY <2>1, <2>2, <2>3, SendSteps
<1>3. QED
  BY <1>1, <1>2 DEF Faithful

-----------------------------------------------------------------------------
(* The sum                                                                 *)

\* The prices that have been read, and those that have been received.
ReadBy(t) == [d \in Db |-> IF run[t][d] \in {"sendOk", "ended"} THEN quoted[t][d] ELSE 0]

ReceivedFrom(t) == [d \in Db |-> IF run[t][d] = "ended" THEN quoted[t][d] ELSE 0]

\* As long as nobody has failed, the record of OrderTx is the sum of what was
\* read, and the collector's total the sum of what it has received.
Summed(t) ==
  sender[t] # "ended" /\ ~abort[t] =>
    /\ price[t] = SumFunction(ReadBy(t))
    /\ total[t] = SumFunction(ReceivedFrom(t))

AddedUp == Faithful /\ \A t \in Tx : Summed(t)

\* A step that neither reads nor receives a price leaves the sums as they are.
LEMMA SumsUntouched ==
  ASSUME NEW u \in Tx, Summed(u), sender[u] # "ended", ~abort[u],
         price'[u] = price[u], total'[u] = total[u], quoted' = quoted,
         \A d \in Db : \/ run'[u][d] = run[u][d]
                       \/ /\ run[u][d] \notin {"sendOk", "ended"}
                          /\ run'[u][d] \notin {"sendOk", "ended"}
  PROVE  Summed(u)'
<1>1. ReadBy(u)' = ReadBy(u) /\ ReceivedFrom(u)' = ReceivedFrom(u)
  BY DEF ReadBy, ReceivedFrom
<1>2. QED
  BY <1>1 DEF Summed

\* A goroutine adds to the record what it reads.
LEMMA GoroutineSummed ==
  ASSUME AddedUp, NEW t \in Tx, NEW d \in Db, Goroutine(t, d), SendTypeOK'
  PROVE  \A u \in Tx : Summed(u)'
<1>0. SendTypeOK /\ Priced /\ \A u \in Tx : Summed(u)
  BY DEF AddedUp, Faithful, Inductive
<1>n. Quote \cup {0} \subseteq Nat
  BY OrderConstants
<1>1. /\ UNCHANGED <<sender, total>> /\ run[t][d] \in Alive \ Sending
      /\ \E label \in Alive \ {"started"} : run' = [run EXCEPT ![t][d] = label]
      /\ abort' = abort \/ abort' = [abort EXCEPT ![t] = TRUE]
  BY GoroutineSteps DEF AddedUp, Faithful
<1>2. /\ \A e \in Db \ {d} : run'[t][e] = run[t][e]
      /\ \A u \in Tx \ {t} : run'[u] = run[u]
      /\ run[t][d] \notin {"sendOk", "ended"} /\ run'[t][d] # "ended"
  BY <1>0, <1>1 DEF SendTypeOK, Alive, Sending
<1>3. \A u \in Tx : abort[u] => abort'[u]
  BY <1>0, <1>1 DEF SendTypeOK
<1>4. ASSUME NEW u \in Tx, abort'[u] \/ sender'[u] = "ended" PROVE Summed(u)'
  BY <1>4 DEF Summed
<1>5. CASE /\ quoted' = quoted /\ price' = price
           /\ run'[t][d] # "sendOk"
  BY <1>0, <1>1, <1>2, <1>3, <1>4, <1>5, SumsUntouched
<1>6. ASSUME NEW quote \in Quote, ReadBody(t, d, quote) PROVE \A u \in Tx : Summed(u)'
  <2>1. /\ run'[t][d] = "sendOk" /\ quoted'[t][d] = quote /\ quote \in Nat
        /\ \A e \in Db \ {d} : quoted'[t][e] = quoted[t][e]
        /\ \A u \in Tx \ {t} : quoted'[u] = quoted[u]
    BY <1>0, <1>6, OrderConstants DEF ReadBody, RunTo, SendTypeOK
  <2>2. CASE abort[t]
    <3>1. price' = price
      BY <1>6, <2>2 DEF ReadBody
    <3>2. ASSUME NEW u \in Tx \ {t}, ~abort'[u], sender'[u] # "ended" PROVE Summed(u)'
      <4>1. ReadBy(u)' = ReadBy(u) /\ ReceivedFrom(u)' = ReceivedFrom(u)
        BY <1>2, <2>1 DEF ReadBy, ReceivedFrom
      <4>2. QED
        BY <1>0, <1>1, <1>3, <3>1, <3>2, <4>1 DEF Summed
    <3>3. QED
      BY <1>3, <1>4, <2>2, <3>2
  <2>3. CASE ~abort[t]
    <3>1. /\ price'[t] = price[t] + quote
          /\ \A u \in Tx \ {t} : price'[u] = price[u]
      BY <1>0, <1>6, <2>3 DEF ReadBody, Priced
    <3>2. ASSUME NEW u \in Tx \ {t}, ~abort'[u], sender'[u] # "ended" PROVE Summed(u)'
      <4>1. ReadBy(u)' = ReadBy(u) /\ ReceivedFrom(u)' = ReceivedFrom(u)
        BY <1>2, <2>1 DEF ReadBy, ReceivedFrom
      <4>2. QED
        BY <1>0, <1>1, <1>3, <3>1, <3>2, <4>1 DEF Summed
    <3>3. ASSUME ~abort'[t], sender'[t] # "ended" PROVE Summed(t)'
      <4>1. ReceivedFrom(t)' = ReceivedFrom(t)
        BY <1>2, <2>1 DEF ReceivedFrom
      <4>2. ReadBy(t) \in [Db -> Nat] /\ ReadBy(t)' \in [Db -> Nat]
        <5>1. \A e \in Db : quoted[t][e] \in Nat /\ quoted'[t][e] \in Nat
          BY <1>0, <1>n DEF SendTypeOK
        <5>2. QED
          BY <5>1 DEF ReadBy
      <4>3. /\ ReadBy(t)[d] = 0 /\ ReadBy(t)'[d] = quote
            /\ \A e \in Db \ {d} : ReadBy(t)'[e] = ReadBy(t)[e]
        BY <1>2, <2>1 DEF ReadBy
      <4>4. SumFunction(ReadBy(t)') = SumFunction(ReadBy(t)) + quote
        BY <4>2, <4>3, SendConstants, SumOneMore
      <4>5. price[t] = SumFunction(ReadBy(t)) /\ total[t] = SumFunction(ReceivedFrom(t))
        BY <1>0, <1>1, <2>3, <3>3 DEF Summed
      <4>6. QED
        BY <1>1, <3>1, <4>1, <4>4, <4>5 DEF Summed
    <3>4. QED
      BY <1>4, <3>2, <3>3
  <2>4. QED
    BY <2>2, <2>3
<1>7. ASSUME ~\E quote \in Quote : ReadBody(t, d, quote)
      PROVE  quoted' = quoted /\ price' = price /\ run'[t][d] # "sendOk"
  <2>1. CASE Check(t, d)
    BY <1>0, <2>1 DEF Check, RunTo, SendTypeOK
  <2>2. CASE PostReturns(t, d)
    BY <1>0, <2>2 DEF PostReturns, RunTo, vars, callVars, SendTypeOK
  <2>3. CASE ReadFails(t, d) \/ RaiseAbort(t, d)
    BY <1>0, <2>3 DEF ReadFails, RaiseAbort, RunTo, vars, callVars, SendTypeOK
  <2>4. QED
    BY <1>7, <2>1, <2>2, <2>3 DEF Goroutine
<1>8. QED
  BY <1>5, <1>6, <1>7

\* The collector adds what it receives.
LEMMA SenderSummed ==
  ASSUME AddedUp, NEW t \in Tx, Sender(t), SendTypeOK'
  PROVE  \A u \in Tx : Summed(u)'
<1>0. SendTypeOK /\ Priced /\ \A u \in Tx : Summed(u)
  BY DEF AddedUp, Faithful, Inductive
<1>n. Quote \cup {0} \subseteq Nat
  BY OrderConstants
<1>1. quoted' = quoted /\ abort' = abort
  BY DEF Sender, EndLoop, Start, CollectOk, CollectErr, Forward, Finish, collectVars
<1>2. ASSUME NEW u \in Tx, abort'[u] \/ sender'[u] = "ended" PROVE Summed(u)'
  BY <1>2 DEF Summed
<1>3. CASE EndLoop(t)
  <2>1. sender' = [sender EXCEPT ![t] = "collect"] /\ sender[t] = "loop"
        /\ UNCHANGED <<price, total, run>>
    BY <1>3 DEF EndLoop, vars, callVars, collectVars
  <2>2. \A u \in Tx : sender[u] = "ended" => sender'[u] = "ended"
    BY <1>0, <2>1 DEF SendTypeOK
  <2>3. QED
    BY <1>0, <1>1, <1>2, <2>1, <2>2, SumsUntouched
<1>4. ASSUME NEW d \in Db, Start(t, d) PROVE \A u \in Tx : Summed(u)'
  <2>1. /\ run' = [run EXCEPT ![t][d] = "started"] /\ run[t][d] = "none"
        /\ UNCHANGED <<sender, price, total>>
    BY <1>4 DEF Start, RunTo, vars, callVars, AddedUp, Faithful, Inductive, Sound, Ranged
  <2>2. /\ run'[t][d] = "started" /\ \A e \in Db \ {d} : run'[t][e] = run[t][e]
        /\ \A u \in Tx \ {t} : run'[u] = run[u]
    BY <1>0, <2>1 DEF SendTypeOK
  <2>3. QED
    BY <1>0, <1>1, <1>2, <2>1, <2>2, SumsUntouched
<1>5. ASSUME NEW d \in Db, CollectOk(t, d) PROVE \A u \in Tx : Summed(u)'
  <2>1. /\ run[t][d] = "sendOk" /\ UNCHANGED <<sender, price>>
        /\ run' = [run EXCEPT ![t][d] = "ended"]
        /\ total' = [total EXCEPT ![t] = @ + quoted[t][d]]
    BY <1>5 DEF CollectOk, RunTo, vars, callVars
  <2>2. /\ run'[t][d] = "ended" /\ \A e \in Db \ {d} : run'[t][e] = run[t][e]
        /\ \A u \in Tx \ {t} : run'[u] = run[u] /\ total'[u] = total[u]
        /\ total'[t] = total[t] + quoted[t][d]
    BY <1>0, <2>1 DEF SendTypeOK
  <2>3. ASSUME NEW u \in Tx \ {t} PROVE Summed(u)'
    BY <1>0, <1>1, <1>2, <2>1, <2>2, SumsUntouched
  <2>4. ASSUME ~abort'[t], sender'[t] # "ended" PROVE Summed(t)'
    <3>1. ReadBy(t)' = ReadBy(t)
      BY <1>1, <2>1, <2>2 DEF ReadBy
    <3>2. ReceivedFrom(t) \in [Db -> Nat] /\ ReceivedFrom(t)' \in [Db -> Nat]
      <4>1. \A e \in Db : quoted[t][e] \in Nat /\ quoted'[t][e] \in Nat
        BY <1>0, <1>n DEF SendTypeOK
      <4>2. QED
        BY <4>1 DEF ReceivedFrom
    <3>3. /\ ReceivedFrom(t)[d] = 0 /\ ReceivedFrom(t)'[d] = quoted[t][d]
          /\ \A e \in Db \ {d} : ReceivedFrom(t)'[e] = ReceivedFrom(t)[e]
      BY <1>1, <2>1, <2>2 DEF ReceivedFrom
    <3>4. SumFunction(ReceivedFrom(t)') = SumFunction(ReceivedFrom(t)) + quoted[t][d]
      BY <3>2, <3>3, SendConstants, SumOneMore
    <3>5. price[t] = SumFunction(ReadBy(t)) /\ total[t] = SumFunction(ReceivedFrom(t))
      BY <1>0, <1>1, <2>1, <2>4 DEF Summed
    <3>6. QED
      BY <2>1, <2>2, <3>1, <3>4, <3>5 DEF Summed
  <2>5. QED
    BY <1>2, <2>3, <2>4
<1>6. ASSUME NEW d \in Db, CollectErr(t, d) PROVE \A u \in Tx : Summed(u)'
  <2>1. /\ run[t][d] = "sendErr" /\ UNCHANGED <<price, total>>
        /\ run' = [run EXCEPT ![t][d] = "ended"]
        /\ sender' = [sender EXCEPT ![t] = IF hasErr[t] THEN @ ELSE "forward"]
    BY <1>6 DEF CollectErr, RunTo, vars, callVars
  <2>2. abort[t]
    BY <2>1 DEF AddedUp, Faithful, Recorded
  <2>3. \A u \in Tx \ {t} : sender'[u] = sender[u] /\ run'[u] = run[u]
    BY <1>0, <2>1 DEF SendTypeOK
  <2>4. ASSUME NEW u \in Tx \ {t} PROVE Summed(u)'
    BY <1>0, <1>1, <1>2, <2>1, <2>3, SumsUntouched
  <2>5. QED
    BY <1>1, <1>2, <2>2, <2>4
<1>7. CASE Forward(t)
  <2>1. /\ sender[t] = "forward" /\ sender' = [sender EXCEPT ![t] = "collect"]
        /\ UNCHANGED <<price, total, run>>
    BY <1>7 DEF Forward
  <2>2. abort[t]
    BY <2>1 DEF AddedUp, Faithful, Recorded
  <2>3. ASSUME NEW u \in Tx \ {t} PROVE Summed(u)'
    <3>1. sender'[u] = sender[u]
      BY <1>0, <2>1 DEF SendTypeOK
    <3>2. QED
      BY <1>0, <1>1, <1>2, <2>1, <3>1, SumsUntouched
  <2>4. QED
    BY <1>1, <1>2, <2>2, <2>3
<1>8. CASE Finish(t)
  <2>1. /\ sender' = [sender EXCEPT ![t] = "ended"] /\ UNCHANGED <<total, run>>
        /\ price' = price \/ price' = [price EXCEPT ![t] = total[t]]
    BY <1>8 DEF Finish, collectVars
  <2>2. /\ sender'[t] = "ended"
        /\ \A u \in Tx \ {t} : sender'[u] = sender[u] /\ price'[u] = price[u]
    BY <1>0, <2>1 DEF SendTypeOK, Priced
  <2>3. ASSUME NEW u \in Tx \ {t} PROVE Summed(u)'
    BY <1>0, <1>1, <1>2, <2>1, <2>2, SumsUntouched
  <2>4. QED
    BY <1>2, <2>2, <2>3
<1>9. QED
  BY <1>3, <1>4, <1>5, <1>6, <1>7, <1>8 DEF Sender

\* The handler reads no price and receives none.
LEMMA HandlerSummed ==
  ASSUME AddedUp, NEW t \in Tx, Begin(t) \/ Handler(t) \/ FailSending(t)
  PROVE  \A u \in Tx : Summed(u)'
<1>0. SendTypeOK /\ \A u \in Tx : Summed(u)
  BY DEF AddedUp, Faithful, Inductive
<1>1. UNCHANGED <<price, total, quoted, abort>>
  <2>1. CASE Begin(t) \/ FailSending(t)
    BY <2>1 DEF Begin, PrepareCkTx, FailSending, Fail, callVars, collectVars
  <2>2. CASE Handler(t)
    BY <2>2 DEF Handler, PaymentAborted, AbortCkTx, AcknowledgeCkTx, CommitCkTx,
                PaymentAccepts, PaymentRefuses, AbortAnswered, callVars, sendVars, collectVars
  <2>3. QED
    BY <2>1, <2>2
<1>2. ASSUME NEW u \in Tx, abort'[u] \/ sender'[u] = "ended" PROVE Summed(u)'
  BY <1>2 DEF Summed
<1>3. CASE run' = run /\ \A u \in Tx : sender[u] = "ended" => sender'[u] = "ended"
  BY <1>0, <1>1, <1>2, <1>3, SumsUntouched
<1>4. CASE Begin(t)
  <2>1. /\ run' = run /\ pc[t] = "idle"
        /\ sender' = [sender EXCEPT ![t] = IF pc'[t] = "stock" THEN "loop" ELSE @]
    BY <1>4 DEF Begin, PrepareCkTx
  <2>2. sender[t] = "none"
    BY <2>1 DEF AddedUp, Faithful, Inductive, Sound, Paired
  <2>3. QED
    BY <1>0, <1>3, <2>1, <2>2 DEF SendTypeOK
<1>5. CASE Handler(t)
  BY <1>3, <1>5 DEF Handler, sendVars
<1>6. CASE FailSending(t)
  <2>1. \/ UNCHANGED <<sender, run>>
        \/ /\ sender' = [sender EXCEPT ![t] = "ended"]
           /\ run' = [run EXCEPT ![t] = [d \in Db |-> IF @[d] \in Alive THEN "killed" ELSE @[d]]]
    BY <1>6 DEF FailSending
  <2>2. CASE /\ sender' = [sender EXCEPT ![t] = "ended"]
             /\ run' = [run EXCEPT ![t] = [d \in Db |->
                          IF @[d] \in Alive THEN "killed" ELSE @[d]]]
    <3>1. /\ sender'[t] = "ended"
          /\ \A u \in Tx \ {t} : sender'[u] = sender[u] /\ run'[u] = run[u]
      BY <1>0, <2>2 DEF SendTypeOK
    <3>2. ASSUME NEW u \in Tx \ {t} PROVE Summed(u)'
      BY <1>0, <1>1, <1>2, <3>1, SumsUntouched
    <3>3. QED
      BY <1>2, <3>1, <3>2
  <2>3. QED
    BY <1>3, <2>1, <2>2
<1>7. QED
  BY <1>4, <1>5, <1>6

\* At the start both sums are empty.
LEMMA AddedUpInit == SendInit => AddedUp
<1> SUFFICES ASSUME SendInit, NEW t \in Tx PROVE Summed(t)
  BY FaithfulInit DEF AddedUp
<1>1. /\ \A d \in Db : ReadBy(t)[d] = 0 /\ ReceivedFrom(t)[d] = 0
      /\ DOMAIN ReadBy(t) = Db /\ DOMAIN ReceivedFrom(t) = Db
  BY DEF SendInit, ReadBy, ReceivedFrom
<1>2. /\ SumFunctionOnSet(ReadBy(t), Db) = 0
      /\ SumFunctionOnSet(ReceivedFrom(t), Db) = 0
  BY <1>1, SendConstants, SumZero
<1>3. QED
  BY <1>1, <1>2 DEF Summed, SumFunction, SendInit, Init

\* AddedUp is an inductive invariant.
LEMMA AddedUpStep == AddedUp /\ [SendNext]_allVars => AddedUp'
<1> SUFFICES ASSUME AddedUp, [SendNext]_allVars PROVE AddedUp'
  OBVIOUS
<1>1. Faithful' /\ SendTypeOK'
  BY FaithfulStep DEF AddedUp, Faithful, Inductive
<1>2. CASE UNCHANGED <<price, sendVars>>
  <2>1. ASSUME NEW u \in Tx PROVE Summed(u)'
    BY <1>2 DEF AddedUp, Summed, ReadBy, ReceivedFrom, sendVars, collectVars
  <2>2. QED
    BY <1>1, <2>1 DEF AddedUp
<1>3. CASE \E t \in Tx : Begin(t) \/ Handler(t) \/ FailSending(t)
  BY <1>1, <1>3, HandlerSummed DEF AddedUp
<1>4. CASE \E t \in Tx : Sender(t)
  BY <1>1, <1>4, SenderSummed DEF AddedUp
<1>5. CASE \E t \in Tx : \E d \in Db : Goroutine(t, d)
  BY <1>1, <1>5, GoroutineSummed DEF AddedUp
<1>6. QED
  BY <1>2, <1>3, <1>4, <1>5
     DEF SendNext, allVars, vars, callVars, CreateOrder, RemoveOrder

\* The invariant holds in every reachable state.
LEMMA AlwaysAddedUp == SendSpec => []AddedUp
<1>1. QED
  BY AddedUpInit, AddedUpStep, PTL DEF SendSpec

\* When nobody is left to be received from, what was read has been received.
LEMMA SumReceived == AddedUp => TotalIsSum
<1> SUFFICES ASSUME AddedUp, NEW t \in Tx, sender[t] = "collect", left[t] = 0, ~hasErr[t]
             PROVE  total[t] = price[t]
  BY DEF TotalIsSum
<1> USE DEF AddedUp, Faithful, Inductive
<1>1. \A d \in Db : run[t][d] \notin Alive
  <2>1. Cardinality(Live(t)) = 0 /\ IsFiniteSet(Live(t))
    BY Finite DEF Sound, Counted, Paired, Live
  <2>2. Live(t) = {}
    BY <2>1, FS_EmptySet
  <2>3. QED
    BY <2>2 DEF Live
<1>2. ~abort[t]
  BY <1>1 DEF Sound, Flagged, Undecided, Alive, Sending
<1>3. ReadBy(t) = ReceivedFrom(t)
  BY <1>1 DEF ReadBy, ReceivedFrom, Alive, Sending
<1>4. QED
  BY <1>2, <1>3 DEF Summed

\* For any number of databases, and in whatever order the goroutines read, send
\* and are received from: without an error the total that payment is asked for
\* (order/checkout_prepare.go:226) is the sum of all that was answered.
THEOREM TotalCorrect == SendSpec => []TotalIsSum
<1>1. QED
  BY AlwaysAddedUp, SumReceived, PTL

-----------------------------------------------------------------------------
(* The refinement                                                          *)

\* Every step is one of OrderTx, or none.
LEMMA StepImplements ==
  Faithful /\ TotalIsSum /\ [SendNext]_allVars => [Next]_vars
<1> SUFFICES ASSUME Faithful, TotalIsSum, [SendNext]_allVars PROVE [Next]_vars
  OBVIOUS
<1>1. ASSUME NEW t \in Tx, Begin(t) PROVE Next
  BY <1>1 DEF Begin, Next
<1>2. ASSUME NEW t \in Tx, Sender(t) PROVE [Next]_vars
  BY <1>2, SenderImplements DEF Next, Proceed
<1>3. ASSUME NEW t \in Tx, Handler(t) PROVE Next
  BY <1>3 DEF Handler, Next, Proceed, CallAnswered
<1>4. ASSUME NEW t \in Tx, FailSending(t) PROVE Next
  BY <1>4 DEF FailSending, Next
<1>5. ASSUME NEW t \in Tx, NEW d \in Db, Goroutine(t, d) PROVE [Next]_vars
  BY <1>5, GoroutineImplements DEF Next, Proceed, CallAnswered
<1>6. CASE \E o \in Order : CreateOrder(o) \/ RemoveOrder(o)
  BY <1>6 DEF Next
<1>7. CASE UNCHANGED allVars
  BY <1>7 DEF allVars
<1>8. QED
  BY <1>1, <1>2, <1>3, <1>4, <1>5, <1>6, <1>7 DEF SendNext

\* The stock phase with its flag, channels and goroutines implements OrderTx, for
\* any number of databases: a request is sent only while nobody has failed, the
\* first error decides, and payment is asked when all have answered, for the sum
\* of the answers.
THEOREM Implements == SendSpec => Spec
<1>1. SendSpec => [](Faithful /\ TotalIsSum)
  BY AlwaysAddedUp, SumReceived, PTL DEF AddedUp
<1>2. SendInit => Init
  BY DEF SendInit
<1>3. QED
  BY <1>1, <1>2, StepImplements, PTL DEF SendSpec, Spec

\* So with its goroutines the order service keeps what it keeps without: one live
\* checkout per order, a commit only if all have prepared, no release before the
\* abort calls are over, truth of what clients are told, and no second thoughts.
THEOREM KeptWithGoroutines ==
  SendSpec =>
    /\ [](LockedWhileLive /\ CommitIsUnanimous /\ ReleasedAfterAborts)
    /\ [](PaidKeepsLock /\ OkMeansCommitted)
    /\ DecisionIsFinal
<1>1. QED
  BY Implements, OneLiveCheckout, Unanimity, ReleaseWaits, PaidIsLocked, OkIsTrue, Finality, PTL

=============================================================================
