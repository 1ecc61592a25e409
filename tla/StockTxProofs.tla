--------------------------- MODULE StockTxProofs ---------------------------
(***************************************************************************)
(* Proofs about StockTx, for every set of items, transactions, requests,   *)
(* prices and amounts: types, what a record holds, who rolls it back,      *)
(* that no unit is lost or made, and what prepare requests are told; and   *)
(* about StockRetry: which of this is still true when scripts are repeated. *)
(***************************************************************************)
EXTENDS StockRetry, SumProofs

\* The five states are different from each other.
LEMMA StatesDiffer ==
  /\ TxState = {TxNone, TxPreparing, TxAcknowledged, TxCommitted, TxAborted}
  /\ TxNone # TxPreparing /\ TxNone # TxAcknowledged /\ TxNone # TxCommitted
  /\ TxNone # TxAborted /\ TxPreparing # TxAcknowledged /\ TxPreparing # TxCommitted
  /\ TxPreparing # TxAborted /\ TxAcknowledged # TxCommitted
  /\ TxAcknowledged # TxAborted /\ TxCommitted # TxAborted
BY DEF TxState, TxNone, TxPreparing, TxAcknowledged, TxCommitted, TxAborted

\* The steps of Next, one request, item or record at a time: the case split
\* that every proof of a step below starts from.
Step(r) ==
  \/ r \in PrepareReq /\ PrepareCkTx(r)
  \/ r \in PrepareReq /\ WaitPrepared(r)
  \/ r \in PrepareReq /\ WaitTimeout(r)
  \/ r \in PrepareReq /\ ReadPrice(r)
  \/ r \in PrepareReq /\ \E i \in Item : PrepareCkTxMove(r, i)
  \/ r \in PrepareReq /\ AcknowledgeCkTx(r)
  \/ AbortCkTx(r)
  \/ HScan(r)
  \/ \E i \in Item : AbortCkTxRollback(r, i)
  \/ Fail(r)

\* Every step of the service is one of these.
LEMMA Steps ==
  [Next]_vars =>
    \/ \E i \in Item : CreateItem(i) \/ \E d \in Delta : IncrByIfGe0XX(i, d)
    \/ \E t \in Tx : CommitCkTx(t)
    \/ \E r \in Request : Step(r)
    \/ UNCHANGED vars
BY DEF Next, Proceed, Step, Request

-----------------------------------------------------------------------------
(* Type correctness                                                        *)

\* The price field exists as long as the record may still be acknowledged or is:
\* what AcknowledgeCkTx reads back is a number.
PriceKept ==
  \A t \in Tx : txState[t] \in {TxPreparing, TxAcknowledged, TxCommitted}
                 => lockedPrice[t] \in Nat

Typed == TypeOK /\ PriceKept

\* The keys and handlers have their types at the start.
LEMMA TypedInit == Init => Typed
BY StockConstants, StatesDiffer DEF Init, Typed, TypeOK, PriceKept, Label, InPage, Answered, NoPrice

\* Every step keeps them: a script reads back what another has written, and
\* decrements a stock only as far as it has tested.
LEMMA TypedStep == Typed /\ [Next]_vars => Typed'
<1> SUFFICES ASSUME Typed, [Next]_vars PROVE Typed'
  OBVIOUS
<1> USE StockConstants, StatesDiffer DEF Typed, TypeOK, PriceKept, Label, InPage, Answered
<1>0. CASE UNCHANGED vars
  BY <1>0 DEF vars, itemVars, lockVars, reqVars
<1>1. ASSUME NEW i \in Item, CreateItem(i) PROVE Typed'
  BY <1>1 DEF CreateItem, lockVars, reqVars
<1>2. ASSUME NEW i \in Item, NEW d \in Delta, IncrByIfGe0XX(i, d) PROVE Typed'
  BY <1>2 DEF IncrByIfGe0XX, lockVars, reqVars
<1>3. ASSUME NEW t \in Tx, CommitCkTx(t) PROVE Typed'
  BY <1>3 DEF CommitCkTx, itemVars, reqVars
<1>4. ASSUME NEW r \in Request, Step(r) PROVE Typed'
  <2> DEFINE t == TxOf[r]
  <2>0. t \in Tx /\ txState[t] \in TxState /\ Requested(t) \in SUBSET Item
    BY DEF Requested
  <2>1. CASE PrepareCkTx(r)
    <3>1. CASE txState[t] = TxNone
      <4>1. txState' = [txState EXCEPT ![t] = TxPreparing]
            /\ locked' = [locked EXCEPT ![t] = [i \in Item |-> 0]]
            /\ lockedPrice' = [lockedPrice EXCEPT ![t] = 0]
            /\ todo' = [todo EXCEPT ![r] = Requested(t)]
            /\ pc' = [pc EXCEPT ![r] = "move"]
            /\ UNCHANGED <<created, stock, supply, quote>>
        BY <2>1, <3>1 DEF PrepareCkTx, TakeOver, Goto, itemVars
      <4>2. QED
        BY <2>0, <4>1
    <3>2. CASE txState[t] # TxNone
      BY <2>0, <2>1, <3>2 DEF PrepareCkTx, TakeOver, Goto, OnState, itemVars, lockVars
    <3>3. QED
      BY <3>1, <3>2
  <2>2. CASE WaitPrepared(r)
    BY <2>2 DEF WaitPrepared, Goto, OnState, itemVars, lockVars
  <2>3. CASE WaitTimeout(r)
    BY <2>3 DEF WaitTimeout, Goto, itemVars, lockVars
  <2>4. CASE ReadPrice(r)
    BY <2>0, <2>4 DEF ReadPrice, Goto, itemVars, lockVars
  <2>5. ASSUME NEW i \in Item, PrepareCkTxMove(r, i) PROVE Typed'
    <3>1. CASE StillPreparing(t) /\ InStock(t, i)
      <4>1. Amount[t][i] \in Nat /\ Price[i] * Amount[t][i] \in Nat /\ lockedPrice[t] \in Nat
        BY <2>0, <3>1 DEF StillPreparing
      <4>2. stock[i] - Amount[t][i] \in Nat /\ lockedPrice[t] + Price[i] * Amount[t][i] \in Nat
        BY <3>1, <4>1 DEF InStock
      <4>3. stock' = [stock EXCEPT ![i] = stock[i] - Amount[t][i]]
            /\ locked' = [locked EXCEPT ![t][i] = Amount[t][i]]
            /\ lockedPrice' = [lockedPrice EXCEPT ![t] = lockedPrice[t] + Price[i] * Amount[t][i]]
            /\ todo' = [todo EXCEPT ![r] = todo[r] \ {i}]
            /\ UNCHANGED <<created, supply, txState, quote, pc>>
        BY <2>5, <3>1 DEF PrepareCkTxMove, Move
      <4>4. QED
        BY <2>0, <4>1, <4>2, <4>3
    <3>2. CASE ~StillPreparing(t) \/ ~InStock(t, i)
      BY <2>0, <2>5, <3>2 DEF PrepareCkTxMove, Move, Goto, Overtaken
    <3>3. QED
      BY <3>1, <3>2
  <2>6. CASE AcknowledgeCkTx(r)
    <3>1. CASE StillPreparing(t)
      <4>1. lockedPrice[t] \in Nat
        BY <2>0, <3>1 DEF StillPreparing
      <4>2. QED
        BY <2>0, <2>6, <3>1, <4>1 DEF AcknowledgeCkTx, StillPreparing, Goto, itemVars
    <3>2. CASE ~StillPreparing(t)
      BY <2>0, <2>6, <3>2 DEF AcknowledgeCkTx, Goto, Overtaken, itemVars
    <3>3. QED
      BY <3>1, <3>2
  <2>7. CASE AbortCkTx(r)
    BY <2>0, <2>7 DEF AbortCkTx, Goto, RolledBack, itemVars
  <2>8. CASE HScan(r)
    <3>1. PICK page \in Pages(t) :
            /\ todo' = [todo EXCEPT ![r] = page]
            /\ pc' = [pc EXCEPT ![r] = IF page # Fields(t) THEN "rollbackMore"
                                      ELSE IF page = {} THEN RolledBack(r) ELSE "rollback"]
      BY <2>8 DEF HScan, Goto
    <3>2. page \in SUBSET Item
      BY <3>1 DEF Pages, Fields
    <3>3. QED
      BY <2>0, <2>8, <3>1, <3>2 DEF HScan, RolledBack, itemVars, lockVars
  <2>9. ASSUME NEW i \in Item, AbortCkTxRollback(r, i) PROVE Typed'
    <3>1. stock[i] + locked[t][i] \in Nat
      BY <2>0
    <3>2. UNCHANGED <<created, supply, txState, lockedPrice, quote>>
      BY <2>9 DEF AbortCkTxRollback
    <3>5. stock' \in [Item -> Nat] /\ locked' \in [Tx -> [Item -> Nat]]
      <4>1. [stock EXCEPT ![i] = stock[i] + locked[t][i]] \in [Item -> Nat]
        BY <3>1
      <4>2. [locked EXCEPT ![t][i] = 0] \in [Tx -> [Item -> Nat]]
        BY <2>0
      <4>3. CASE txState[t] = TxAborted
        BY <2>9, <4>1, <4>2, <4>3 DEF AbortCkTxRollback, GiveBack
      <4>4. CASE txState[t] # TxAborted
        BY <2>9, <4>4 DEF AbortCkTxRollback
      <4>5. QED
        BY <4>3, <4>4
    <3>3. todo' \in [Request -> SUBSET Item]
      <4>1. todo' = [todo EXCEPT ![r] = todo[r] \ {i}]
        BY <2>9 DEF AbortCkTxRollback
      <4>2. QED
        BY <4>1
    <3>4. pc' \in [Request -> Label]
      <4>1. PICK label \in InPage \cup Answered \cup {"scan"} : pc' = [pc EXCEPT ![r] = label]
        BY <2>9 DEF AbortCkTxRollback, Goto, AfterPage, RolledBack
      <4>2. QED
        BY <4>1
    <3>6. QED
      BY <3>2, <3>5, <3>3, <3>4
  <2>10. CASE Fail(r)
    BY <2>10 DEF Fail, Goto, itemVars, lockVars
  <2>11. QED
    BY <1>4, <2>1, <2>2, <2>3, <2>4, <2>5, <2>6, <2>7, <2>8, <2>9, <2>10 DEF Step
<1>5. QED
  BY <1>0, <1>1, <1>2, <1>3, <1>4, Steps

\* The keys of the stock database hold what the scripts of stock/lua.go can
\* read back, and no stock is ever negative.
THEOREM TypeCorrect == Spec => []TypeOK
<1>1. Init => Typed
  BY TypedInit
<1>2. Typed /\ [Next]_vars => Typed'
  BY TypedStep
<1>3. Typed => TypeOK
  BY DEF Typed
<1>4. QED
  BY <1>1, <1>2, <1>3, PTL DEF Spec

-----------------------------------------------------------------------------
(* The inductive invariant                                                 *)

Owner(r)  == r \in PrepareReq /\ pc[r] \in {"move", "abort"}
Roller(r) == pc[r] \in {"scan"} \cup InPage

\* The request that found no state, and it alone, moves the items.
OneOwner ==
  \A r, s \in Request : TxOf[r] = TxOf[s] /\ Owner(r) /\ Owner(s) => r = s

\* Only the owner acknowledges: while it is about to abort nobody has.
OwnerState ==
  \A r \in Request :
    /\ Owner(r) => txState[TxOf[r]] # TxNone
    /\ Owner(r) /\ pc[r] = "abort" =>
         txState[TxOf[r]] \notin {TxAcknowledged, TxCommitted}

\* What the owner has moved so far is what the hash holds; if moves are made
\* again, also what it has moved and does not know to have moved.
Moved(r, again) ==
  \A i \in Item :
    \/ locked[TxOf[r]][i] = IF i \in todo[r] THEN 0 ELSE Amount[TxOf[r]][i]
    \/ again /\ locked[TxOf[r]][i] = Amount[TxOf[r]][i]

MovedSoFar(again) ==
  \A r \in Request :
    Owner(r) /\ pc[r] = "move" /\ txState[TxOf[r]] = TxPreparing => Moved(r, again)

Holds(again) == OneOwner /\ OwnerState /\ MovedSoFar(again) /\ AcknowledgedHoldsCart

\* The service over a connection that loses no answers.
Holding == Holds(FALSE)

-----------------------------------------------------------------------------
(* The owner and the hash                                                  *)

\* At the start no record holds anything.
LEMMA HoldsInit == ASSUME NEW again \in BOOLEAN PROVE Init => Holds(again)
BY StockConstants, StatesDiffer
DEF Init, Holds, OneOwner, OwnerState, MovedSoFar, Moved, AcknowledgedHoldsCart, Owner

\* A handler that goes on, and neither becomes an owner nor changes a record.
LEMMA HoldsQuiet ==
  ASSUME NEW again \in BOOLEAN, Holds(again), NEW r \in Request,
         UNCHANGED <<txState, locked>>,
         \A s \in Request \ {r} : pc'[s] = pc[s] /\ todo'[s] = todo[s],
         ~Owner(r)'
  PROVE  Holds(again)'
BY DEF Holds, OneOwner, OwnerState, MovedSoFar, Moved, AcknowledgedHoldsCart, Owner

\* A handler that aborts or rolls back record t.
LEMMA HoldsAborted ==
  ASSUME NEW again \in BOOLEAN, Holds(again), NEW r \in Request, NEW t \in Tx,
         txState'[t] = TxAborted,
         \A u \in Tx \ {t} : txState'[u] = txState[u] /\ locked'[u] = locked[u],
         \A s \in Request \ {r} : pc'[s] = pc[s] /\ todo'[s] = todo[s],
         ~Owner(r)'
  PROVE  Holds(again)'
<1> USE StockConstants, StatesDiffer DEF Owner
<1>1. OneOwner'
  BY DEF Holds, OneOwner
<1>2. OwnerState'
  BY DEF Holds, OwnerState
<1>3. MovedSoFar(again)'
  BY DEF Holds, MovedSoFar, Moved
<1>4. AcknowledgedHoldsCart'
  BY DEF Holds, AcknowledgedHoldsCart
<1>5. QED
  BY <1>1, <1>2, <1>3, <1>4 DEF Holds

\* Functions that differ in one place only.
LEMMA PcElsewhere ==
  ASSUME TypeOK, NEW r \in Request, NEW label, Goto(r, label)
  PROVE  pc'[r] = label /\ \A s \in Request \ {r} : pc'[s] = pc[s]
BY DEF TypeOK, Goto

\* Every step keeps the owner's progress and the record's hash together.
LEMMA HoldsStep ==
  ASSUME NEW again \in BOOLEAN PROVE Typed /\ Holds(again) /\ [Next]_vars => Holds(again)'
<1> SUFFICES ASSUME Typed, Holds(again), [Next]_vars PROVE Holds(again)'
  OBVIOUS
<1> USE StockConstants, StatesDiffer DEF Typed, TypeOK
<1>0. CASE UNCHANGED vars
  BY <1>0 DEF vars, itemVars, lockVars, reqVars,
              Holds, OneOwner, OwnerState, MovedSoFar, Moved, AcknowledgedHoldsCart, Owner
<1>1. ASSUME NEW i \in Item, CreateItem(i) PROVE Holds(again)'
  BY <1>1 DEF CreateItem, lockVars, reqVars,
              Holds, OneOwner, OwnerState, MovedSoFar, Moved, AcknowledgedHoldsCart, Owner
<1>2. ASSUME NEW i \in Item, NEW d \in Delta, IncrByIfGe0XX(i, d) PROVE Holds(again)'
  BY <1>2 DEF IncrByIfGe0XX, lockVars, reqVars,
              Holds, OneOwner, OwnerState, MovedSoFar, Moved, AcknowledgedHoldsCart, Owner
<1>3. ASSUME NEW t \in Tx, CommitCkTx(t) PROVE Holds(again)'
  BY <1>3 DEF CommitCkTx, itemVars, reqVars,
              Holds, OneOwner, OwnerState, MovedSoFar, Moved, AcknowledgedHoldsCart, Owner
<1>4. ASSUME NEW r \in Request, Step(r) PROVE Holds(again)'
  <2> DEFINE t == TxOf[r]
  <2>0. t \in Tx /\ txState[t] \in TxState
    OBVIOUS
  <2>1. CASE r \in PrepareReq /\ PrepareCkTx(r)
    <3>1. CASE txState[t] = TxNone
      <4>1. txState' = [txState EXCEPT ![t] = TxPreparing]
            /\ locked' = [locked EXCEPT ![t] = [i \in Item |-> 0]]
            /\ todo' = [todo EXCEPT ![r] = Requested(t)]
            /\ pc' = [pc EXCEPT ![r] = "move"]
        BY <2>1, <3>1 DEF PrepareCkTx, TakeOver, Goto
      <4>2. \A s \in Request : TxOf[s] = t => ~Owner(s)
        BY <3>1 DEF Holds, OwnerState
      <4>3. OneOwner'
        BY <4>1, <4>2 DEF Holds, OneOwner, Owner
      <4>4. OwnerState'
        BY <2>0, <4>1, <4>2 DEF Holds, OwnerState, Owner
      <4>5. MovedSoFar(again)'
        <5>1. SUFFICES ASSUME NEW s \in Request, Owner(s)', pc'[s] = "move",
                              txState'[TxOf[s]] = TxPreparing
                       PROVE  Moved(s, again)'
          BY DEF MovedSoFar
        <5>2. CASE s = r
          <6>1. locked'[t] = [i \in Item |-> 0] /\ todo'[r] = Requested(t)
            BY <2>0, <4>1
          <6>2. \A i \in Item : i \notin Requested(t) => Amount[t][i] = 0
            BY <2>0 DEF Requested
          <6>3. QED
            BY <5>2, <6>1, <6>2 DEF Moved
        <5>3. CASE s # r
          <6>1. Owner(s) /\ pc[s] = "move" /\ TxOf[s] # t
            BY <4>1, <4>2, <5>1, <5>3 DEF Owner
          <6>2. QED
            BY <2>0, <4>1, <5>1, <5>3, <6>1 DEF Holds, MovedSoFar, Moved
        <5>4. QED
          BY <5>2, <5>3
      <4>6. AcknowledgedHoldsCart'
        BY <2>0, <4>1 DEF Holds, AcknowledgedHoldsCart
      <4>7. QED
        BY <4>3, <4>4, <4>5, <4>6 DEF Holds
    <3>2. CASE txState[t] # TxNone
      <4>1. Goto(r, OnState(txState[t])) /\ UNCHANGED <<txState, locked, todo>>
        BY <2>1, <3>2 DEF PrepareCkTx, TakeOver, lockVars
      <4>2. ~Owner(r)'
        BY <4>1, PcElsewhere DEF OnState, Owner
      <4>3. QED
        BY <4>1, <4>2, PcElsewhere, HoldsQuiet
    <3>3. QED
      BY <3>1, <3>2
  <2>2. CASE WaitPrepared(r)
    <3>1. Goto(r, OnState(txState[t])) /\ UNCHANGED <<txState, locked, todo>>
      BY <2>2 DEF WaitPrepared, lockVars
    <3>2. ~Owner(r)'
      BY <3>1, PcElsewhere DEF OnState, Owner
    <3>3. QED
      BY <3>1, <3>2, PcElsewhere, HoldsQuiet
  <2>3. CASE WaitTimeout(r) \/ Fail(r)
    <3>1. Goto(r, "failed") /\ UNCHANGED <<txState, locked, todo>>
      BY <2>3 DEF WaitTimeout, Fail, lockVars
    <3>2. ~Owner(r)'
      BY <3>1, PcElsewhere DEF Owner
    <3>3. QED
      BY <3>1, <3>2, PcElsewhere, HoldsQuiet
  <2>4. CASE ReadPrice(r)
    <3>1. (Goto(r, "failed") \/ Goto(r, "ok")) /\ UNCHANGED <<txState, locked, todo>>
      BY <2>4 DEF ReadPrice, lockVars
    <3>2. ~Owner(r)'
      BY <3>1, PcElsewhere DEF Owner
    <3>3. QED
      BY <3>1, <3>2, PcElsewhere, HoldsQuiet
  <2>5. ASSUME NEW i \in Item, r \in PrepareReq, PrepareCkTxMove(r, i) PROVE Holds(again)'
    <3>1. CASE StillPreparing(t) /\ InStock(t, i)
      <4>1. /\ locked' = [locked EXCEPT ![t][i] = Amount[t][i]]
            /\ todo' = [todo EXCEPT ![r] = todo[r] \ {i}]
            /\ UNCHANGED <<txState, pc>>
            /\ pc[r] = "move" /\ i \in todo[r]
        BY <2>5, <3>1 DEF PrepareCkTxMove, Move
      <4>2. OneOwner' /\ OwnerState'
        BY <4>1 DEF Holds, OneOwner, OwnerState, Owner
      <4>3. MovedSoFar(again)'
        <5>1. SUFFICES ASSUME NEW s \in Request, Owner(s), pc[s] = "move",
                              txState[TxOf[s]] = TxPreparing
                       PROVE  Moved(s, again)'
          BY <4>1 DEF MovedSoFar, Owner
        <5>2. Moved(s, again)
          BY <5>1 DEF Holds, MovedSoFar
        <5>3. CASE s = r
          <6>1. locked'[t] = [locked[t] EXCEPT ![i] = Amount[t][i]] /\ todo'[r] = todo[r] \ {i}
            BY <2>0, <4>1
          <6>2. QED
            BY <2>0, <5>2, <5>3, <6>1 DEF Moved
        <5>4. CASE s # r
          <6>1. TxOf[s] # t
            BY <2>5, <4>1, <5>1, <5>4 DEF Holds, OneOwner, Owner
          <6>2. QED
            BY <2>0, <4>1, <5>2, <5>4, <6>1 DEF Moved
        <5>5. QED
          BY <5>3, <5>4
      <4>4. AcknowledgedHoldsCart'
        BY <2>0, <3>1, <4>1 DEF StillPreparing, Holds, AcknowledgedHoldsCart
      <4>5. QED
        BY <4>2, <4>3, <4>4 DEF Holds
    <3>2. CASE StillPreparing(t) /\ ~InStock(t, i)
      <4>1. Goto(r, "abort") /\ pc[r] = "move" /\ UNCHANGED <<txState, locked, todo>>
        BY <2>5, <3>2 DEF PrepareCkTxMove, Move
      <4>2. pc'[r] = "abort" /\ \A s \in Request \ {r} : pc'[s] = pc[s]
        BY <4>1, PcElsewhere
      <4>3. OneOwner'
        BY <2>5, <4>1, <4>2 DEF Holds, OneOwner, Owner
      <4>4. OwnerState'
        BY <2>0, <2>5, <3>2, <4>1, <4>2 DEF StillPreparing, Holds, OwnerState, Owner
      <4>5. MovedSoFar(again)'
        BY <4>1, <4>2 DEF Holds, MovedSoFar, Moved, Owner
      <4>6. QED
        BY <4>1, <4>3, <4>4, <4>5 DEF Holds, AcknowledgedHoldsCart
    <3>3. CASE ~StillPreparing(t)
      <4>1. Goto(r, Overtaken(t)) /\ UNCHANGED <<txState, locked, todo>>
        BY <2>5, <3>3 DEF PrepareCkTxMove, Move
      <4>2. ~Owner(r)'
        BY <4>1, PcElsewhere DEF Overtaken, Owner
      <4>3. QED
        BY <4>1, <4>2, PcElsewhere, HoldsQuiet
    <3>4. QED
      BY <3>1, <3>2, <3>3
  <2>6. CASE r \in PrepareReq /\ AcknowledgeCkTx(r)
    <3>1. CASE StillPreparing(t)
      <4>1. /\ pc[r] = "move" /\ todo[r] = {}
            /\ txState' = [txState EXCEPT ![t] = TxAcknowledged]
            /\ Goto(r, "ok") /\ UNCHANGED <<locked, todo>>
        BY <2>6, <3>1 DEF AcknowledgeCkTx, itemVars
      <4>2. pc'[r] = "ok" /\ \A s \in Request \ {r} : pc'[s] = pc[s]
        BY <4>1, PcElsewhere
      <4>3. \A s \in Request : Owner(s)' => Owner(s) /\ TxOf[s] # t
        BY <2>6, <4>1, <4>2 DEF Holds, OneOwner, Owner
      <4>4. OneOwner'
        BY <4>3 DEF Holds, OneOwner
      <4>5. OwnerState'
        BY <2>0, <4>1, <4>2, <4>3 DEF Holds, OwnerState, Owner
      <4>6. MovedSoFar(again)'
        <5>1. SUFFICES ASSUME NEW s \in Request, Owner(s)', pc'[s] = "move",
                              txState'[TxOf[s]] = TxPreparing
                       PROVE  Moved(s, again)'
          BY DEF MovedSoFar
        <5>2. Owner(s) /\ pc[s] = "move" /\ txState[TxOf[s]] = TxPreparing
          BY <2>0, <4>1, <4>2, <4>3, <5>1
        <5>3. QED
          BY <4>1, <5>2 DEF Holds, MovedSoFar, Moved
      <4>7. locked[t] = Amount[t]
        <5>1. \A i \in Item : locked[t][i] = Amount[t][i]
          BY <2>6, <3>1, <4>1 DEF StillPreparing, Holds, MovedSoFar, Moved, Owner
        <5>2. QED
          BY <2>0, <4>1, <5>1
      <4>8. AcknowledgedHoldsCart'
        BY <2>0, <4>1, <4>7 DEF Holds, AcknowledgedHoldsCart
      <4>9. QED
        BY <4>4, <4>5, <4>6, <4>8 DEF Holds
    <3>2. CASE ~StillPreparing(t)
      <4>1. Goto(r, Overtaken(t)) /\ UNCHANGED <<txState, locked, todo>>
        BY <2>6, <3>2 DEF AcknowledgeCkTx, itemVars
      <4>2. ~Owner(r)'
        BY <4>1, PcElsewhere DEF Overtaken, Owner
      <4>3. QED
        BY <4>1, <4>2, PcElsewhere, HoldsQuiet
    <3>3. QED
      BY <3>1, <3>2
  <2>7. CASE AbortCkTx(r)
    <3>1. CASE txState[t] = TxCommitted
      <4>1. Goto(r, "failed") /\ UNCHANGED <<txState, locked, todo>>
        BY <2>7, <3>1 DEF AbortCkTx
      <4>2. ~Owner(r)'
        BY <4>1, PcElsewhere DEF Owner
      <4>3. QED
        BY <4>1, <4>2, PcElsewhere, HoldsQuiet
    <3>2. CASE txState[t] # TxCommitted
      <4>1. /\ txState' = [txState EXCEPT ![t] = TxAborted] /\ UNCHANGED <<locked, todo>>
            /\ Goto(r, IF MustRollBack(txState[t]) THEN "scan" ELSE RolledBack(r))
        BY <2>7, <3>2 DEF AbortCkTx
      <4>2. ~Owner(r)'
        BY <4>1, PcElsewhere DEF RolledBack, Owner
      <4>3. txState'[t] = TxAborted /\ \A u \in Tx \ {t} : txState'[u] = txState[u]
        BY <2>0, <4>1
      <4>4. QED
        BY <2>0, <4>1, <4>2, <4>3, PcElsewhere, HoldsAborted
    <3>3. QED
      BY <3>1, <3>2
  <2>8. CASE HScan(r)
    <3>1. PICK page \in Pages(t) :
            /\ Goto(r, IF page # Fields(t) THEN "rollbackMore"
                       ELSE IF page = {} THEN RolledBack(r) ELSE "rollback")
            /\ todo' = [todo EXCEPT ![r] = page] /\ UNCHANGED <<txState, locked>>
      BY <2>8 DEF HScan, lockVars
    <3>2. ~Owner(r)'
      BY <3>1, PcElsewhere DEF RolledBack, Owner
    <3>3. QED
      BY <3>1, <3>2, PcElsewhere, HoldsQuiet
  <2>9. ASSUME NEW i \in Item, AbortCkTxRollback(r, i) PROVE Holds(again)'
    <3>1. PICK label \in InPage \cup Answered \cup {"scan"} :
            Goto(r, label) /\ todo' = [todo EXCEPT ![r] = todo[r] \ {i}] /\ txState' = txState
      BY <2>9 DEF AbortCkTxRollback, AfterPage, RolledBack, InPage, Answered
    <3>2. ~Owner(r)' /\ \A s \in Request \ {r} : pc'[s] = pc[s] /\ todo'[s] = todo[s]
      BY <3>1, PcElsewhere DEF Owner, InPage, Answered
    <3>3. CASE txState[t] = TxAborted
      <4>1. locked' = [locked EXCEPT ![t][i] = 0]
        BY <2>9, <3>3 DEF AbortCkTxRollback, GiveBack
      <4>2. \A u \in Tx \ {t} : txState'[u] = txState[u] /\ locked'[u] = locked[u]
        BY <2>0, <3>1, <4>1
      <4>3. QED
        BY <2>0, <3>1, <3>2, <3>3, <4>2, HoldsAborted
    <3>4. CASE txState[t] # TxAborted
      <4>1. UNCHANGED <<txState, locked>>
        BY <2>9, <3>4 DEF AbortCkTxRollback
      <4>2. QED
        BY <3>2, <4>1, HoldsQuiet
    <3>5. QED
      BY <3>3, <3>4
  <2>11. QED
    BY <1>4, <2>1, <2>2, <2>3, <2>4, <2>5, <2>6, <2>7, <2>8, <2>9 DEF Step
<1>5. QED
  BY <1>0, <1>1, <1>2, <1>3, <1>4, Steps

\* Without repetitions: at the start.
LEMMA HoldingInit == Init => Holding
BY HoldsInit DEF Holding

\* Every step keeps it.
LEMMA HoldingStep == Typed /\ Holding /\ [Next]_vars => Holding'
BY HoldsStep DEF Holding

\* A record that the coordinator may commit holds exactly the items of its
\* request, however moves, aborts and duplicates interleave.
THEOREM HoldsCart == Spec => []AcknowledgedHoldsCart
<1>1. Init => Typed /\ Holding
  BY TypedInit, HoldingInit
<1>2. Typed /\ Holding /\ [Next]_vars => Typed' /\ Holding'
  BY TypedStep, HoldingStep
<1>3. Holding => AcknowledgedHoldsCart
  BY DEF Holding, Holds
<1>4. QED
  BY <1>1, <1>2, <1>3, PTL DEF Spec

-----------------------------------------------------------------------------
(* One record at a time                                                    *)

\* What a step leaves alone: everything of record t and of its requests.
Untouched(t) ==
  /\ txState'[t] = txState[t] /\ locked'[t] = locked[t] /\ lockedPrice'[t] = lockedPrice[t]
  /\ \A s \in Request : TxOf[s] = t =>
       pc'[s] = pc[s] /\ todo'[s] = todo[s] /\ quote'[s] = quote[s]

\* A handler's step leaves the other records alone, and of its own record the
\* other handlers.
LEMMA StepIsLocal ==
  ASSUME Typed, NEW r \in Request, Step(r)
  PROVE  /\ \A u \in Tx \ {TxOf[r]} : Untouched(u)
         /\ \A s \in Request \ {r} :
              pc'[s] = pc[s] /\ todo'[s] = todo[s] /\ quote'[s] = quote[s]
<1> USE DEF Typed, TypeOK, Untouched, Goto
<1>1. CASE PrepareCkTx(r)
  BY <1>1 DEF PrepareCkTx, TakeOver, itemVars, lockVars
<1>2. CASE WaitPrepared(r) \/ WaitTimeout(r) \/ Fail(r)
  BY <1>2 DEF WaitPrepared, WaitTimeout, Fail, itemVars, lockVars
<1>3. CASE ReadPrice(r)
  BY <1>3 DEF ReadPrice, itemVars, lockVars
<1>4. CASE \E i \in Item : PrepareCkTxMove(r, i)
  BY <1>4 DEF PrepareCkTxMove, Move, itemVars
<1>5. CASE AcknowledgeCkTx(r)
  BY <1>5 DEF AcknowledgeCkTx, itemVars
<1>6. CASE AbortCkTx(r)
  BY <1>6 DEF AbortCkTx, itemVars
<1>7. CASE HScan(r)
  BY <1>7 DEF HScan, itemVars, lockVars
<1>8. CASE \E i \in Item : AbortCkTxRollback(r, i)
  BY <1>8 DEF AbortCkTxRollback, GiveBack, itemVars
<1>9. QED
  BY <1>1, <1>2, <1>3, <1>4, <1>5, <1>6, <1>7, <1>8 DEF Step

\* A handler that has answered takes no step, it is a client's call that makes an
\* idle one take the first, and none of them commits.
LEMMA StepIsAwake ==
  ASSUME Typed, NEW r \in Request, Step(r)
  PROVE  /\ pc[r] \notin Answered
         /\ pc[r] = "idle" => \/ r \in PrepareReq /\ PrepareCkTx(r)
                              \/ r \in AbortReq /\ AbortCkTx(r)
         /\ txState'[TxOf[r]] = TxCommitted => txState[TxOf[r]] = TxCommitted
<1> USE StockConstants, StatesDiffer DEF Typed, TypeOK, Answered, InPage
<1>1. CASE PrepareCkTx(r)
  BY <1>1 DEF Step, PrepareCkTx, TakeOver, lockVars, AbortCkTx, WaitPrepared, WaitTimeout,
              ReadPrice, PrepareCkTxMove, AcknowledgeCkTx, HScan, AbortCkTxRollback, Fail
<1>2. CASE WaitPrepared(r) \/ WaitTimeout(r) \/ Fail(r)
  BY <1>2 DEF WaitPrepared, WaitTimeout, Fail, lockVars
<1>3. CASE ReadPrice(r)
  BY <1>3 DEF ReadPrice, lockVars
<1>4. CASE \E i \in Item : PrepareCkTxMove(r, i)
  BY <1>4 DEF PrepareCkTxMove
<1>5. CASE AcknowledgeCkTx(r)
  BY <1>5 DEF AcknowledgeCkTx
<1>6. CASE AbortCkTx(r)
  BY <1>6 DEF AbortCkTx, Request
<1>7. CASE HScan(r)
  BY <1>7 DEF HScan, lockVars
<1>8. CASE \E i \in Item : AbortCkTxRollback(r, i)
  BY <1>8 DEF AbortCkTxRollback
<1>9. QED
  BY <1>1, <1>2, <1>3, <1>4, <1>5, <1>6, <1>7, <1>8 DEF Step

\* Such a step leaves every other record's rollback as it was.
LEMMA OthersUntouched ==
  ASSUME Typed, [Next]_vars, NEW u \in Tx,
         ~CommitCkTx(u), \A r \in Request : TxOf[r] = u => ~Step(r)
  PROVE  Untouched(u)
<1>0. CASE UNCHANGED vars
  BY <1>0 DEF Untouched, vars, lockVars, reqVars
<1>1. ASSUME NEW i \in Item, CreateItem(i) \/ \E d \in Delta : IncrByIfGe0XX(i, d)
      PROVE  Untouched(u)
  BY <1>1 DEF CreateItem, IncrByIfGe0XX, Untouched, lockVars, reqVars
<1>2. ASSUME NEW t \in Tx, CommitCkTx(t) PROVE Untouched(u)
  BY <1>2 DEF CommitCkTx, Typed, TypeOK, Untouched, reqVars
<1>3. ASSUME NEW r \in Request, Step(r) PROVE Untouched(u)
  BY <1>3, StepIsLocal
<1>4. QED
  BY <1>0, <1>1, <1>2, <1>3, Steps

-----------------------------------------------------------------------------
(* The rollback                                                            *)

\* For one record: nothing is held until it is prepared; one handler at most
\* gives items back, after the state has been set; the page it has read lists
\* nothing but what is still held, so that no script of its pipeline returns nil,
\* and the last page all of that; and it does not end before it is done.
RollingAt(t) ==
  /\ txState[t] = TxNone => Fields(t) = {}
  /\ \A r, s \in Request : TxOf[r] = t /\ TxOf[s] = t /\ Roller(r) /\ Roller(s) => r = s
  /\ \A r \in Request : TxOf[r] = t /\ Roller(r) => txState[t] = TxAborted
  /\ \A r \in Request : TxOf[r] = t /\ pc[r] \in InPage =>
       /\ pc[r] # "rollbackNil"
       /\ todo[r] \subseteq Fields(t)
       /\ pc[r] = "rollback" => Fields(t) \subseteq todo[r]
  /\ txState[t] = TxAborted /\ Fields(t) # {} =>
       \E r \in Request :
         TxOf[r] = t /\ (Roller(r) \/ (Failures /\ pc[r] = "failed"))

Rolling == \A t \in Tx : RollingAt(t)

\* At the start nothing is aborted.
LEMMA RollingInit == Init => Rolling
BY StatesDiffer DEF Init, Rolling, RollingAt, Roller, Fields, InPage

\* A record that does not change, and whose handlers do not either.
LEMMA RollingUntouched ==
  ASSUME NEW t \in Tx, RollingAt(t), Untouched(t) PROVE RollingAt(t)'
BY DEF RollingAt, Untouched, Roller, Fields, InPage

\* A handler that neither was giving items back nor begins to.
LEMMA RollingQuiet ==
  ASSUME NEW r \in Request, RollingAt(TxOf[r]),
         txState'[TxOf[r]] = txState[TxOf[r]], locked'[TxOf[r]] = locked[TxOf[r]],
         \A s \in Request \ {r} : pc'[s] = pc[s] /\ todo'[s] = todo[s],
         ~Roller(r), ~Roller(r)', pc[r] # "failed"
  PROVE  RollingAt(TxOf[r])'
BY DEF RollingAt, Roller, Fields

\* Every step keeps the rollback of every record on its way.
LEMMA RollingStep == Typed /\ Rolling /\ [Next]_vars => Rolling'
<1> SUFFICES ASSUME Typed, Rolling, [Next]_vars, NEW u \in Tx PROVE RollingAt(u)'
  BY DEF Rolling
<1> RollingAt(u)
  BY DEF Rolling
<1> USE StatesDiffer DEF Typed, TypeOK, InPage
<1>1. CASE CommitCkTx(u)
  <2>1. txState[u] = TxAcknowledged /\ txState'[u] = TxCommitted /\ UNCHANGED pc
    BY <1>1 DEF CommitCkTx, reqVars
  <2>2. QED
    BY <2>1 DEF RollingAt, Roller
<1>2. ASSUME NEW r \in Request, TxOf[r] = u, Step(r) PROVE RollingAt(u)'
  <2>0. \A s \in Request \ {r} : pc'[s] = pc[s] /\ todo'[s] = todo[s]
    BY <1>2, StepIsLocal
  <2>1. CASE r \in PrepareReq /\ PrepareCkTx(r)
    <3>1. CASE txState[u] = TxNone
      <4>1. txState'[u] = TxPreparing /\ pc'[r] = "move"
        BY <1>2, <2>1, <3>1 DEF PrepareCkTx, TakeOver, Goto
      <4>2. QED
        BY <1>2, <2>0, <3>1, <4>1 DEF RollingAt, Roller
    <3>2. CASE txState[u] # TxNone
      <4>1. pc[r] = "idle" /\ UNCHANGED <<txState, locked>> /\ Goto(r, OnState(txState[u]))
        BY <1>2, <2>1, <3>2 DEF PrepareCkTx, TakeOver, lockVars
      <4>2. ~Roller(r) /\ ~Roller(r)'
        BY <4>1, PcElsewhere DEF OnState, Roller
      <4>3. QED
        BY <1>2, <2>0, <4>1, <4>2, RollingQuiet
    <3>3. QED
      BY <3>1, <3>2
  <2>2. CASE WaitPrepared(r) \/ WaitTimeout(r)
    <3>1. pc[r] = "wait" /\ UNCHANGED <<txState, locked>>
          /\ (Goto(r, OnState(txState[u])) \/ Goto(r, "failed"))
      BY <1>2, <2>2 DEF WaitPrepared, WaitTimeout, lockVars
    <3>2. ~Roller(r) /\ ~Roller(r)'
      BY <3>1, PcElsewhere DEF OnState, Roller
    <3>3. QED
      BY <1>2, <2>0, <3>1, <3>2, RollingQuiet
  <2>3. CASE ReadPrice(r)
    <3>1. pc[r] = "readPrice" /\ UNCHANGED <<txState, locked>>
          /\ (Goto(r, "ok") \/ Goto(r, "failed"))
      BY <2>3 DEF ReadPrice, lockVars
    <3>2. ~Roller(r) /\ ~Roller(r)'
      BY <3>1, PcElsewhere DEF Roller
    <3>3. QED
      BY <1>2, <2>0, <3>1, <3>2, RollingQuiet
  <2>4. ASSUME NEW i \in Item, r \in PrepareReq, PrepareCkTxMove(r, i) PROVE RollingAt(u)'
    <3>1. CASE StillPreparing(u) /\ InStock(u, i)
      <4>1. txState[u] = TxPreparing /\ UNCHANGED <<txState, pc>>
        BY <1>2, <2>4, <3>1 DEF PrepareCkTxMove, Move, StillPreparing
      <4>2. QED
        BY <4>1 DEF RollingAt, Roller
    <3>2. CASE ~StillPreparing(u) \/ ~InStock(u, i)
      <4>1. pc[r] = "move" /\ UNCHANGED <<txState, locked>>
            /\ (Goto(r, Overtaken(u)) \/ Goto(r, "abort"))
        BY <1>2, <2>4, <3>2 DEF PrepareCkTxMove, Move
      <4>2. ~Roller(r) /\ ~Roller(r)'
        BY <4>1, PcElsewhere DEF Overtaken, Roller
      <4>3. QED
        BY <1>2, <2>0, <4>1, <4>2, RollingQuiet
    <3>3. QED
      BY <3>1, <3>2
  <2>5. CASE r \in PrepareReq /\ AcknowledgeCkTx(r)
    <3>1. CASE StillPreparing(u)
      <4>1. /\ txState[u] = TxPreparing /\ txState'[u] = TxAcknowledged /\ pc'[r] = "ok"
        BY <1>2, <2>5, <3>1 DEF AcknowledgeCkTx, StillPreparing, Goto
      <4>2. QED
        BY <1>2, <2>0, <4>1 DEF RollingAt, Roller
    <3>2. CASE ~StillPreparing(u)
      <4>1. pc[r] = "move" /\ UNCHANGED <<txState, locked>> /\ Goto(r, Overtaken(u))
        BY <1>2, <2>5, <3>2 DEF AcknowledgeCkTx, itemVars
      <4>2. ~Roller(r) /\ ~Roller(r)'
        BY <4>1, PcElsewhere DEF Overtaken, Roller
      <4>3. QED
        BY <1>2, <2>0, <4>1, <4>2, RollingQuiet
    <3>3. QED
      BY <3>1, <3>2
  <2>6. CASE AbortCkTx(r)
    <3>1. CASE txState[u] \in {TxPreparing, TxAcknowledged}
      <4>1. txState'[u] = TxAborted /\ pc'[r] = "scan"
        BY <1>2, <2>6, <3>1 DEF AbortCkTx, MustRollBack, Goto
      <4>2. \A s \in Request : TxOf[s] = u /\ Roller(s)' => s = r
        BY <2>0, <3>1 DEF RollingAt, Roller
      <4>3. QED
        BY <1>2, <4>1, <4>2 DEF RollingAt, Roller
    <3>2. CASE txState[u] = TxNone
      <4>1. txState'[u] = TxAborted /\ locked' = locked /\ pc'[r] \in {"ok", "rejected"}
        BY <1>2, <2>6, <3>2 DEF AbortCkTx, MustRollBack, RolledBack, Goto
      <4>2. \A s \in Request : TxOf[s] = u => ~Roller(s)'
        BY <1>2, <2>0, <3>2, <4>1 DEF RollingAt, Roller
      <4>3. Fields(u)' = {}
        BY <3>2, <4>1 DEF RollingAt, Fields
      <4>4. QED
        BY <4>1, <4>2, <4>3 DEF RollingAt, Roller
    <3>3. CASE txState[u] \in {TxCommitted, TxAborted}
      <4>1. /\ pc[r] \in {"idle", "abort"} /\ txState'[u] = txState[u] /\ locked' = locked
            /\ pc'[r] \in {"ok", "rejected", "failed"}
        BY <1>2, <2>6, <3>3 DEF AbortCkTx, MustRollBack, RolledBack, Goto
      <4>2. ~Roller(r) /\ ~Roller(r)'
        BY <4>1 DEF Roller
      <4>3. QED
        BY <1>2, <2>0, <4>1, <4>2, RollingQuiet
    <3>4. QED
      BY <3>1, <3>2, <3>3
  <2>7. CASE HScan(r)
    <3>1. pc[r] = "scan" /\ UNCHANGED <<txState, locked>> /\ txState[u] = TxAborted
      BY <1>2, <2>7 DEF HScan, lockVars, RollingAt, Roller
    <3>2. PICK page \in Pages(u) :
            /\ todo'[r] = page
            /\ pc'[r] = IF page # Fields(u) THEN "rollbackMore"
                       ELSE IF page = {} THEN RolledBack(r) ELSE "rollback"
      BY <1>2, <2>7 DEF HScan, Goto
    <3>3. page \subseteq Fields(u) /\ Fields(u)' = Fields(u)
      BY <3>1, <3>2 DEF Pages, Fields
    <3>4. \A s \in Request : TxOf[s] = u /\ Roller(s)' => s = r
      BY <1>2, <2>0, <3>1 DEF RollingAt, Roller
    <3>5. Fields(u) # {} => Roller(r)'
      BY <3>2 DEF Roller, InPage
    <3>6. QED
      BY <1>2, <3>1, <3>2, <3>3, <3>4, <3>5 DEF RollingAt, Roller, RolledBack, InPage
  <2>8. ASSUME NEW i \in Item, AbortCkTxRollback(r, i) PROVE RollingAt(u)'
    <3>1. pc[r] \in InPage /\ i \in todo[r] /\ txState[u] = TxAborted /\ UNCHANGED txState
      BY <1>2, <2>8 DEF AbortCkTxRollback, RollingAt, Roller
    <3>2. pc[r] # "rollbackNil" /\ i \in Fields(u) /\ todo[r] \subseteq Fields(u)
      BY <1>2, <3>1 DEF RollingAt
    <3>3. /\ locked' = [locked EXCEPT ![u][i] = 0] /\ todo'[r] = todo[r] \ {i}
          /\ pc'[r] = IF todo[r] = {i} THEN AfterPage(r, pc[r]) ELSE pc[r]
      BY <1>2, <2>8, <3>1, <3>2 DEF AbortCkTxRollback, GiveBack, Goto
    <3>4. Fields(u)' = Fields(u) \ {i}
      BY <3>3 DEF Fields
    <3>5. \A s \in Request : TxOf[s] = u /\ Roller(s)' => s = r
      BY <1>2, <2>0, <3>1 DEF RollingAt, Roller
    <3>6. pc[r] = "rollback" => Fields(u) = todo[r]
      BY <1>2, <3>1, <3>2 DEF RollingAt
    <3>7. Fields(u)' # {} => Roller(r)'
      BY <3>1, <3>2, <3>3, <3>4, <3>6 DEF Roller, InPage, AfterPage
    <3>8. pc'[r] \in InPage => pc'[r] = pc[r]
      BY <3>3 DEF AfterPage, RolledBack, InPage
    <3>9. QED
      <4>1. \A s \in Request : TxOf[s] = u /\ pc'[s] \in InPage =>
              /\ pc'[s] # "rollbackNil"
              /\ todo'[s] \subseteq Fields(u)'
              /\ pc'[s] = "rollback" => Fields(u)' \subseteq todo'[s]
        BY <3>2, <3>3, <3>4, <3>5, <3>6, <3>8 DEF Roller
      <4>2. QED
        BY <1>2, <3>1, <3>4, <3>5, <3>7, <4>1, StatesDiffer DEF RollingAt
  <2>9. CASE Fail(r)
    <3>1. Failures /\ pc'[r] = "failed" /\ UNCHANGED <<txState, locked>>
      BY <2>9 DEF Fail, Goto, lockVars
    <3>2. \A s \in Request : TxOf[s] = u /\ Roller(s)' => s # r /\ Roller(s)
      BY <2>0, <3>1 DEF Roller
    <3>3. Fields(u)' = Fields(u)
      BY <3>1 DEF Fields
    <3>4. QED
      BY <1>2, <2>0, <3>1, <3>2, <3>3 DEF RollingAt, Roller
  <2>10. QED
    BY <1>2, <2>1, <2>2, <2>3, <2>4, <2>5, <2>6, <2>7, <2>8, <2>9 DEF Step
<1>3. CASE ~CommitCkTx(u) /\ \A r \in Request : TxOf[r] = u => ~Step(r)
  BY <1>3, OthersUntouched, RollingUntouched
<1>4. QED
  BY <1>1, <1>2, <1>3

\* An aborted record holds items only while the one handler that aborted it is
\* giving them back, or has died doing so: no other abort request that was
\* answered 200 in the meantime, and no late prepare request, gets in its way.
THEOREM GivesBackAlone == Spec => []AbortedIsBeingRolledBack
<1>1. Init => Typed /\ Rolling
  BY TypedInit, RollingInit
<1>2. Typed /\ Rolling /\ [Next]_vars => Typed' /\ Rolling'
  BY TypedStep, RollingStep
<1>3. Rolling => AbortedIsBeingRolledBack
  BY DEF Rolling, RollingAt, AbortedIsBeingRolledBack, Roller
<1>4. QED
  BY <1>1, <1>2, <1>3, PTL DEF Spec

-----------------------------------------------------------------------------
(* Conservation                                                            *)

\* What record t has taken of item i: it holds it or has sold it.
TakenOf(t, i) == locked[t][i] + (IF txState[t] = TxCommitted THEN Amount[t][i] ELSE 0)

\* The amounts are natural numbers.
LEMMA TakenType ==
  ASSUME TypeOK, NEW t \in Tx, NEW i \in Item
  PROVE  /\ locked[t][i] \in Nat /\ Amount[t][i] \in Nat
         /\ (IF txState[t] = TxCommitted THEN Amount[t][i] ELSE 0) \in Nat
BY StockConstants DEF TypeOK

\* When one record changes, the totals change by what it has taken or given.
LEMMA TotalsChange ==
  ASSUME TypeOK, TypeOK', NEW i \in Item, NEW t \in Tx,
         \A u \in Tx \ {t} : locked'[u] = locked[u] /\ txState'[u] = txState[u]
  PROVE  /\ HeldOf(i)' + SoldOf(i)' = HeldOf(i) + SoldOf(i) + TakenOf(t, i)' - TakenOf(t, i)
         /\ HeldOf(i) \in Nat /\ SoldOf(i) \in Nat
         /\ HeldOf(i)' \in Nat /\ SoldOf(i)' \in Nat
<1> DEFINE f == [u \in Tx |-> locked[u][i]]
           g == [u \in Tx |-> IF txState[u] = TxCommitted THEN Amount[u][i] ELSE 0]
           f2 == [u \in Tx |-> locked'[u][i]]
           g2 == [u \in Tx |-> IF txState'[u] = TxCommitted THEN Amount[u][i] ELSE 0]
<1>1. \A u \in Tx : f[u] \in Nat /\ g[u] \in Nat
  BY TakenType
<1>2. \A u \in Tx : f2[u] \in Nat /\ g2[u] \in Nat
  BY StockConstants DEF TypeOK
<1>3. DOMAIN f = Tx /\ DOMAIN g = Tx /\ DOMAIN f2 = Tx /\ DOMAIN g2 = Tx
  OBVIOUS
<1>4. /\ HeldOf(i) = SumFunctionOnSet(f, Tx) /\ SoldOf(i) = SumFunctionOnSet(g, Tx)
      /\ HeldOf(i)' = SumFunctionOnSet(f2, Tx) /\ SoldOf(i)' = SumFunctionOnSet(g2, Tx)
  BY <1>3 DEF HeldOf, SoldOf, SumFunction
<1>5. \A u \in Tx \ {t} : f2[u] = f[u] /\ g2[u] = g[u]
  OBVIOUS
<1>6. TakenOf(t, i) = f[t] + g[t] /\ TakenOf(t, i)' = f2[t] + g2[t]
  BY DEF TakenOf
<1> HIDE DEF f, g, f2, g2
<1>7. \A u \in Tx : f[u] \in Int /\ g[u] \in Int /\ f2[u] \in Int /\ g2[u] \in Int
  BY <1>1, <1>2
<1>8. SumFunctionOnSet(f2, Tx) = SumFunctionOnSet(f, Tx) + f2[t] - f[t]
  BY <1>5, <1>7, SumChange, StockFinite
<1>9. SumFunctionOnSet(g2, Tx) = SumFunctionOnSet(g, Tx) + g2[t] - g[t]
  BY <1>5, <1>7, SumChange, StockFinite
<1>10. /\ SumFunctionOnSet(f, Tx) \in Nat /\ SumFunctionOnSet(g, Tx) \in Nat
       /\ SumFunctionOnSet(f2, Tx) \in Nat /\ SumFunctionOnSet(g2, Tx) \in Nat
  BY <1>1, <1>2, <1>7, SumType, StockFinite
<1>11. QED
  BY <1>4, <1>6, <1>7, <1>8, <1>9, <1>10

\* The totals are natural numbers.
LEMMA TotalsType ==
  ASSUME TypeOK, NEW i \in Item PROVE HeldOf(i) \in Nat /\ SoldOf(i) \in Nat
<1> DEFINE f == [t \in Tx |-> locked[t][i]]
           g == [t \in Tx |-> IF txState[t] = TxCommitted THEN Amount[t][i] ELSE 0]
<1>1. (\A t \in Tx : f[t] \in Nat /\ g[t] \in Nat) /\ DOMAIN f = Tx /\ DOMAIN g = Tx
  BY TakenType
<1>2. HeldOf(i) = SumFunctionOnSet(f, Tx) /\ SoldOf(i) = SumFunctionOnSet(g, Tx)
  BY <1>1 DEF HeldOf, SoldOf, SumFunction
<1> HIDE DEF f, g
<1>3. \A t \in Tx : f[t] \in Int /\ g[t] \in Int
  BY <1>1
<1>4. QED
  BY <1>1, <1>2, <1>3, SumType, StockFinite

\* What is on the shelf, held or sold is what was supplied; less, if units may be
\* lost, and more, if units may be made.
BalancedAt(i, lost, made) ==
  /\ lost \/ supply[i] <= stock[i] + HeldOf(i) + SoldOf(i)
  /\ made \/ stock[i] + HeldOf(i) + SoldOf(i) <= supply[i]

Balanced(lost, made) == \A i \in Item : BalancedAt(i, lost, made)

\* A record that is taken over holds nothing.
Fresh == \A t \in Tx : txState[t] = TxNone => Fields(t) = {}

\* What the shelf gives the record takes, or less than that if units may be lost.
Exchanged(t, i, lost) ==
  /\ stock'[i] + TakenOf(t, i)' <= stock[i] + TakenOf(t, i)
  /\ lost \/ stock[i] + TakenOf(t, i) <= stock'[i] + TakenOf(t, i)'

\* So nothing is lost or made when the shelf gives what the record takes.
LEMMA BalancedByExchange ==
  ASSUME NEW lost \in BOOLEAN, NEW made \in BOOLEAN, TypeOK, TypeOK', Balanced(lost, made),
         NEW t \in Tx, supply' = supply,
         \A u \in Tx \ {t} : locked'[u] = locked[u] /\ txState'[u] = txState[u],
         \A i \in Item : Exchanged(t, i, lost)
  PROVE  Balanced(lost, made)'
<1>1. SUFFICES ASSUME NEW i \in Item PROVE BalancedAt(i, lost, made)'
  BY DEF Balanced
<1>2. /\ HeldOf(i)' + SoldOf(i)' = HeldOf(i) + SoldOf(i) + TakenOf(t, i)' - TakenOf(t, i)
      /\ HeldOf(i) \in Nat /\ SoldOf(i) \in Nat
      /\ HeldOf(i)' \in Nat /\ SoldOf(i)' \in Nat
  BY TotalsChange
<1>3. /\ lost \/ supply'[i] <= stock[i] + HeldOf(i) + SoldOf(i)
      /\ made \/ stock[i] + HeldOf(i) + SoldOf(i) <= supply'[i]
  BY DEF Balanced, BalancedAt
<1>4. /\ stock'[i] + TakenOf(t, i)' <= stock[i] + TakenOf(t, i)
      /\ lost \/ stock[i] + TakenOf(t, i) <= stock'[i] + TakenOf(t, i)'
  BY DEF Exchanged
<1>5. /\ stock[i] \in Nat /\ stock'[i] \in Nat
      /\ TakenOf(t, i) \in Nat /\ TakenOf(t, i)' \in Nat
  <2>1. TakenOf(t, i) \in Nat
    BY StockConstants DEF TypeOK, TakenOf
  <2>2. TakenOf(t, i)' \in Nat
    BY StockConstants DEF TypeOK, TakenOf
  <2>3. QED
    BY <2>1, <2>2 DEF TypeOK
<1>6. /\ stock[i] \in Int /\ stock'[i] \in Int
      /\ TakenOf(t, i) \in Int /\ TakenOf(t, i)' \in Int
      /\ HeldOf(i) \in Int /\ SoldOf(i) \in Int /\ HeldOf(i)' \in Int /\ SoldOf(i)' \in Int
      /\ supply'[i] \in Int
  BY <1>2, <1>5 DEF TypeOK
<1>7. /\ stock'[i] + HeldOf(i)' + SoldOf(i)' <= stock[i] + HeldOf(i) + SoldOf(i)
      /\ lost \/ stock[i] + HeldOf(i) + SoldOf(i) <= stock'[i] + HeldOf(i)' + SoldOf(i)'
  BY <1>2, <1>4, <1>6
<1>8. QED
  BY <1>3, <1>6, <1>7 DEF BalancedAt

\* The case in which it gives exactly that.
LEMMA BalancedByEqualExchange ==
  ASSUME NEW lost \in BOOLEAN, NEW made \in BOOLEAN, TypeOK, TypeOK', Balanced(lost, made),
         NEW t \in Tx, supply' = supply,
         \A u \in Tx \ {t} : locked'[u] = locked[u] /\ txState'[u] = txState[u],
         \A i \in Item : stock'[i] + TakenOf(t, i)' = stock[i] + TakenOf(t, i)
  PROVE  Balanced(lost, made)'
<1>1. ASSUME NEW i \in Item PROVE Exchanged(t, i, lost)
  <2>1. TakenOf(t, i) \in Nat /\ stock[i] \in Nat
    BY StockConstants DEF TypeOK, TakenOf
  <2>2. TakenOf(t, i)' \in Nat /\ stock'[i] \in Nat
    BY StockConstants DEF TypeOK, TakenOf
  <2>3. QED
    BY <2>1, <2>2 DEF Exchanged
<1>2. QED
  BY <1>1, BalancedByExchange

\* A step that touches neither hashes nor states changes the totals by what it
\* puts on the shelf and does not book.
LEMMA BalancedQuiet ==
  ASSUME NEW lost \in BOOLEAN, NEW made \in BOOLEAN, Balanced(lost, made),
         UNCHANGED <<txState, locked>>,
         \A i \in Item : /\ lost \/ supply'[i] - stock'[i] <= supply[i] - stock[i]
                         /\ made \/ supply[i] - stock[i] <= supply'[i] - stock'[i],
         TypeOK, TypeOK'
  PROVE  Balanced(lost, made)'
<1>1. \A i \in Item : supply[i] \in Int /\ stock[i] \in Int /\ supply'[i] \in Int /\ stock'[i] \in Int
  BY DEF TypeOK
<1>2. ASSUME NEW i \in Item PROVE BalancedAt(i, lost, made)'
  <2>1. HeldOf(i)' = HeldOf(i) /\ SoldOf(i)' = SoldOf(i)
    BY DEF HeldOf, SoldOf
  <2>2. BalancedAt(i, lost, made)
    BY DEF Balanced
  <2>3. HeldOf(i) \in Nat /\ SoldOf(i) \in Nat
    BY TotalsType
  <2>4. QED
    BY <1>1, <2>1, <2>2, <2>3 DEF BalancedAt
<1>3. QED
  BY <1>2 DEF Balanced

\* At the start everything is on the shelf.
LEMMA BalancedInit ==
  ASSUME NEW lost \in BOOLEAN, NEW made \in BOOLEAN PROVE Init => Balanced(lost, made)
<1>1. SUFFICES ASSUME Init, NEW i \in Item
               PROVE  BalancedAt(i, lost, made)
  BY DEF Balanced
<1> DEFINE f == [t \in Tx |-> locked[t][i]]
           g == [t \in Tx |-> IF txState[t] = TxCommitted THEN Amount[t][i] ELSE 0]
<1>2. (\A t \in Tx : f[t] = 0 /\ g[t] = 0) /\ DOMAIN f = Tx /\ DOMAIN g = Tx
  BY <1>1, StatesDiffer DEF Init
<1>3. HeldOf(i) = SumFunctionOnSet(f, Tx) /\ SoldOf(i) = SumFunctionOnSet(g, Tx)
  BY <1>2 DEF HeldOf, SoldOf, SumFunction
<1> HIDE DEF f, g
<1>4. HeldOf(i) = 0 /\ SoldOf(i) = 0
  BY <1>2, <1>3, SumZero, StockFinite
<1>5. supply[i] = stock[i] /\ stock[i] \in Nat
  BY <1>1, StockConstants DEF Init
<1>6. QED
  BY <1>4, <1>5 DEF BalancedAt

\* A move takes from the shelf what it puts into the hash, where the field was
\* not there yet, unless moves are made again, which loses units; a rollback
\* gives back what the field holds; a commit sells what was acknowledged, which
\* is the amount of the request.
LEMMA BalancedStep ==
  ASSUME NEW lost \in BOOLEAN, NEW made \in BOOLEAN
  PROVE  Typed /\ Holds(lost) /\ Fresh /\ Balanced(lost, made) /\ [Next]_vars
           => Balanced(lost, made)'
<1> SUFFICES ASSUME Typed, Holds(lost), Fresh, Balanced(lost, made), [Next]_vars
             PROVE  Balanced(lost, made)'
  OBVIOUS
<1>0. TypeOK /\ TypeOK'
  BY TypedStep DEF Typed
<1> USE StockConstants, StatesDiffer DEF TypeOK
<1>1. ASSUME UNCHANGED <<txState, locked, stock, supply>> PROVE Balanced(lost, made)'
  BY <1>1 DEF Balanced, BalancedAt, HeldOf, SoldOf
<1>2. CASE UNCHANGED vars
  BY <1>1, <1>2 DEF vars, itemVars, lockVars
<1>3. ASSUME NEW i \in Item, CreateItem(i) PROVE Balanced(lost, made)'
  BY <1>1, <1>3 DEF CreateItem, lockVars
<1>4. ASSUME NEW i \in Item, NEW d \in Delta, IncrByIfGe0XX(i, d) PROVE Balanced(lost, made)'
  <2>1. /\ stock' = [stock EXCEPT ![i] = stock[i] + d]
        /\ supply' = [supply EXCEPT ![i] = supply[i] + d]
        /\ UNCHANGED <<txState, locked>>
    BY <1>4 DEF IncrByIfGe0XX, lockVars
  <2>2. d \in Int
    OBVIOUS
  <2>3. ASSUME NEW j \in Item
        PROVE  /\ supply'[j] - stock'[j] <= supply[j] - stock[j]
               /\ supply[j] - stock[j] <= supply'[j] - stock'[j]
    BY <1>0, <2>1, <2>2
  <2> HIDE DEF TypeOK
  <2>4. QED
    BY <1>0, <2>1, <2>3, BalancedQuiet
<1>5. ASSUME NEW t \in Tx, CommitCkTx(t) PROVE Balanced(lost, made)'
  <2>1. locked[t] = Amount[t]
    BY <1>5 DEF CommitCkTx, Holds, AcknowledgedHoldsCart
  <2>2. /\ txState[t] = TxAcknowledged /\ txState'[t] = TxCommitted
        /\ \A i \in Item : locked'[t][i] = 0
        /\ \A u \in Tx \ {t} : locked'[u] = locked[u] /\ txState'[u] = txState[u]
        /\ stock' = stock /\ supply' = supply
    BY <1>0, <1>5 DEF CommitCkTx, itemVars
  <2>3. \A i \in Item : TakenOf(t, i)' = TakenOf(t, i)
    BY <1>0, <2>1, <2>2 DEF TakenOf
  <2>4. QED
    BY <1>0, <2>2, <2>3, BalancedByEqualExchange
<1>6. ASSUME NEW r \in Request, Step(r) PROVE Balanced(lost, made)'
  <2> DEFINE t == TxOf[r]
  <2>0. t \in Tx /\ \A u \in Tx \ {t} : locked'[u] = locked[u] /\ txState'[u] = txState[u]
    BY <1>6, StepIsLocal DEF Untouched
  <2>1. CASE r \in PrepareReq /\ PrepareCkTx(r)
    <3>1. CASE txState[t] = TxNone
      <4>1. /\ txState'[t] = TxPreparing /\ UNCHANGED <<stock, supply>>
            /\ \A i \in Item : locked'[t][i] = 0
        BY <1>0, <2>0, <2>1, <3>1 DEF PrepareCkTx, TakeOver, itemVars
      <4>2. \A i \in Item : locked[t][i] = 0
        <5>1. Fields(t) = {}
          BY <2>0, <3>1 DEF Fresh
        <5>2. \A i \in Item : locked[t][i] \in Nat
          BY <1>0, <2>0
        <5>3. QED
          BY <5>1, <5>2 DEF Fields
      <4>3. \A i \in Item : TakenOf(t, i)' = TakenOf(t, i)
        BY <3>1, <4>1, <4>2 DEF TakenOf
      <4>4. QED
        BY <1>0, <2>0, <4>1, <4>3, BalancedByEqualExchange
    <3>2. CASE txState[t] # TxNone
      BY <1>1, <2>1, <3>2 DEF PrepareCkTx, itemVars, lockVars
    <3>3. QED
      BY <3>1, <3>2
  <2>2. CASE WaitPrepared(r) \/ WaitTimeout(r) \/ ReadPrice(r) \/ HScan(r) \/ Fail(r)
    BY <1>1, <2>2 DEF WaitPrepared, WaitTimeout, ReadPrice, HScan, Fail, itemVars, lockVars
  <2>3. ASSUME NEW i \in Item, r \in PrepareReq, PrepareCkTxMove(r, i) PROVE Balanced(lost, made)'
    <3>1. CASE StillPreparing(t) /\ InStock(t, i)
      <4>1. /\ stock' = [stock EXCEPT ![i] = stock[i] - Amount[t][i]]
            /\ locked' = [locked EXCEPT ![t][i] = Amount[t][i]]
            /\ pc[r] = "move" /\ i \in todo[r] /\ UNCHANGED <<txState, supply>>
        BY <2>3, <3>1 DEF PrepareCkTxMove, Move
      <4>2. locked[t][i] = 0 \/ (lost /\ locked[t][i] = Amount[t][i])
        BY <2>3, <3>1, <4>1 DEF Holds, MovedSoFar, Moved, Owner, StillPreparing
      <4>3. txState[t] = TxPreparing /\ txState'[t] = TxPreparing
        BY <3>1, <4>1 DEF StillPreparing
      <4>4. ASSUME NEW j \in Item
            PROVE  Exchanged(t, j, lost)
        <5>1. TakenOf(t, j)' = locked'[t][j] /\ TakenOf(t, j) = locked[t][j]
          <6>1. locked'[t][j] \in Nat /\ locked[t][j] \in Nat
            BY <1>0, <2>0
          <6>2. QED
            BY <4>3, <6>1 DEF TakenOf
        <5>2. CASE j = i
          <6>1. locked'[t][i] = Amount[t][i] /\ stock'[i] = stock[i] - Amount[t][i]
            BY <1>0, <2>0, <4>1
          <6>2. Amount[t][i] \in Nat /\ stock[i] \in Nat
            BY <1>0, <2>0
          <6>3. QED
            BY <4>2, <5>1, <5>2, <6>1, <6>2 DEF Exchanged
        <5>3. CASE j # i
          <6>1. locked'[t][j] = locked[t][j] /\ stock'[j] = stock[j]
            BY <1>0, <2>0, <4>1, <5>3
          <6>2. QED
            BY <1>0, <2>0, <5>1, <6>1 DEF Exchanged
        <5>4. QED
          BY <5>2, <5>3
      <4> HIDE DEF TypeOK
      <4>5. QED
        BY <1>0, <2>0, <4>1, <4>4, BalancedByExchange
    <3>2. CASE ~StillPreparing(t) \/ ~InStock(t, i)
      BY <1>1, <2>3, <3>2 DEF PrepareCkTxMove
    <3>3. QED
      BY <3>1, <3>2
  <2>4. CASE r \in PrepareReq /\ AcknowledgeCkTx(r)
    <3>1. /\ UNCHANGED <<stock, supply, locked>>
          /\ txState'[t] = txState[t]
             \/ (txState[t] = TxPreparing /\ txState'[t] = TxAcknowledged)
      BY <1>0, <2>0, <2>4 DEF AcknowledgeCkTx, StillPreparing, itemVars
    <3>2. \A i \in Item : TakenOf(t, i)' = TakenOf(t, i)
      BY <3>1 DEF TakenOf
    <3>3. QED
      BY <1>0, <2>0, <3>1, <3>2, BalancedByEqualExchange
  <2>5. CASE AbortCkTx(r)
    <3>1. /\ UNCHANGED <<stock, supply, locked>>
          /\ txState'[t] = txState[t]
             \/ (txState[t] # TxCommitted /\ txState'[t] = TxAborted)
      BY <1>0, <2>0, <2>5 DEF AbortCkTx, itemVars
    <3>2. \A i \in Item : TakenOf(t, i)' = TakenOf(t, i)
      BY <3>1 DEF TakenOf
    <3>3. QED
      BY <1>0, <2>0, <3>1, <3>2, BalancedByEqualExchange
  <2>6. ASSUME NEW i \in Item, AbortCkTxRollback(r, i) PROVE Balanced(lost, made)'
    <3>1. CASE txState[t] = TxAborted
      <4>1. /\ stock' = [stock EXCEPT ![i] = stock[i] + locked[t][i]]
            /\ locked' = [locked EXCEPT ![t][i] = 0]
            /\ UNCHANGED <<txState, supply>>
        BY <2>6, <3>1 DEF AbortCkTxRollback, GiveBack
      <4>2. ASSUME NEW j \in Item PROVE stock'[j] + TakenOf(t, j)' = stock[j] + TakenOf(t, j)
        <5>0. locked'[t][j] \in Nat /\ locked[t][j] \in Nat /\ stock[j] \in Nat
          BY <1>0, <2>0
        <5>1. TakenOf(t, j)' = locked'[t][j] /\ TakenOf(t, j) = locked[t][j]
          BY <3>1, <4>1, <5>0 DEF TakenOf
        <5>2. CASE j = i
          <6>1. locked'[t][i] = 0 /\ stock'[i] = stock[i] + locked[t][i]
            BY <1>0, <2>0, <4>1
          <6>2. QED
            BY <5>0, <5>1, <5>2, <6>1
        <5>3. CASE j # i
          <6>1. locked'[t][j] = locked[t][j] /\ stock'[j] = stock[j]
            BY <1>0, <2>0, <4>1, <5>3
          <6>2. QED
            BY <5>1, <6>1
        <5>4. QED
          BY <5>2, <5>3
      <4> HIDE DEF TypeOK
      <4>3. QED
        BY <1>0, <2>0, <4>1, <4>2, BalancedByEqualExchange
    <3>2. CASE txState[t] # TxAborted
      BY <1>1, <2>6, <3>2 DEF AbortCkTxRollback
    <3>3. QED
      BY <3>1, <3>2
  <2>7. QED
    BY <1>6, <2>1, <2>2, <2>3, <2>4, <2>5, <2>6 DEF Step
<1>7. QED
  BY <1>2, <1>3, <1>4, <1>5, <1>6, Steps

\* No unit of an item is ever lost or made: what was supplied is on the shelf,
\* held by a transaction or sold, for any number of items, transactions and
\* requests, whatever the interleaving and wherever handlers stop.
THEOREM Conserved == Spec => []StockConserved
<1> DEFINE Even == Balanced(FALSE, FALSE)
<1>1. Init => Typed /\ Holding /\ Rolling /\ Even
  BY TypedInit, HoldingInit, RollingInit, BalancedInit
<1>2. Typed /\ Holding /\ Rolling /\ Even /\ [Next]_vars =>
        Typed' /\ Holding' /\ Rolling' /\ Even'
  <2>1. Rolling => Fresh
    BY DEF Rolling, RollingAt, Fresh
  <2>2. QED
    BY <2>1, TypedStep, HoldingStep, RollingStep, BalancedStep DEF Holding
<1>3. Typed /\ Even => StockConserved
  <2>1. SUFFICES ASSUME Typed, Even, NEW i \in Item
                 PROVE  supply[i] = stock[i] + HeldOf(i) + SoldOf(i)
    BY DEF StockConserved
  <2>2. /\ supply[i] <= stock[i] + HeldOf(i) + SoldOf(i)
        /\ stock[i] + HeldOf(i) + SoldOf(i) <= supply[i]
    BY <2>1 DEF Balanced, BalancedAt
  <2>3. TypeOK /\ supply[i] \in Int /\ stock[i] \in Int
    BY <2>1 DEF Typed, TypeOK
  <2>4. HeldOf(i) \in Nat /\ SoldOf(i) \in Nat
    BY <2>3, TotalsType
  <2>5. QED
    BY <2>2, <2>3, <2>4
<1> HIDE DEF Even
<1>4. QED
  BY <1>1, <1>2, <1>3, PTL DEF Spec

-----------------------------------------------------------------------------
(* The life of a record                                                    *)

\* A step moves the record of one transaction only, along an arrow.
LEMMA ArrowStep ==
  TypeOK /\ [Next]_vars =>
    [\A t \in Tx : txState'[t] # txState[t] => Arrow(txState[t], txState'[t])]_txState
<1> SUFFICES ASSUME TypeOK, [Next]_vars, NEW t \in Tx, txState'[t] # txState[t]
             PROVE  Arrow(txState[t], txState'[t])
  OBVIOUS
<1> USE StockConstants DEF TypeOK, Arrow
<1>0. CASE UNCHANGED vars
  BY <1>0 DEF vars, lockVars
<1>1. CASE \E i \in Item : CreateItem(i) \/ \E d \in Delta : IncrByIfGe0XX(i, d)
  BY <1>1 DEF CreateItem, IncrByIfGe0XX, lockVars
<1>2. CASE \E u \in Tx : CommitCkTx(u)
  BY <1>2 DEF CommitCkTx
<1>3. ASSUME NEW r \in Request, Step(r) PROVE Arrow(txState[t], txState'[t])
  <2>1. CASE PrepareCkTx(r)
    BY <2>1 DEF PrepareCkTx, TakeOver, lockVars
  <2>2. CASE WaitPrepared(r) \/ WaitTimeout(r) \/ ReadPrice(r) \/ HScan(r) \/ Fail(r)
    BY <2>2 DEF WaitPrepared, WaitTimeout, ReadPrice, HScan, Fail, lockVars
  <2>3. CASE \E i \in Item : PrepareCkTxMove(r, i) \/ AbortCkTxRollback(r, i)
    BY <2>3 DEF PrepareCkTxMove, Move, AbortCkTxRollback
  <2>4. CASE AcknowledgeCkTx(r)
    BY <2>4 DEF AcknowledgeCkTx, StillPreparing
  <2>5. CASE AbortCkTx(r)
    BY <2>5, StatesDiffer DEF AbortCkTx
  <2>6. QED
    BY <1>3, <2>1, <2>2, <2>3, <2>4, <2>5 DEF Step
<1>4. QED
  BY <1>0, <1>1, <1>2, <1>3, Steps

\* Whatever handlers and client requests interleave, a record moves only along
\* the arrows of common/transaction.go:11-19: a committed or an aborted record
\* stays so.
THEOREM Lifecycle == Spec => StockLifecycle
<1>1. Init => TypeOK
  BY TypedInit DEF Typed
<1>2. TypeOK /\ [Next]_vars =>
        [\A t \in Tx : txState'[t] # txState[t] => Arrow(txState[t], txState'[t])]_txState
  BY ArrowStep
<1>3. Spec => []TypeOK
  BY TypeCorrect
<1>4. QED
  BY <1>2, <1>3, PTL DEF Spec, StockLifecycle

-----------------------------------------------------------------------------
(* Abort requests                                                          *)

\* A record exists because a handler has begun, and once an abort request has
\* begun there is nothing left to acknowledge or commit.
BegunAt(t) ==
  /\ txState[t] # TxNone => \E r \in Request : TxOf[r] = t /\ pc[r] # "idle"
  /\ \A a \in AbortReq :
       TxOf[a] = t /\ pc[a] # "idle" => txState[t] \in {TxAborted, TxCommitted}

Begun == \A t \in Tx : BegunAt(t)

\* At the start there are no records.
LEMMA BegunInit == Init => Begun
BY DEF Init, Begun, BegunAt, Request

\* Whoever has taken a step has begun.
LEMMA StepBegins ==
  ASSUME Typed, NEW r \in Request, Step(r) PROVE pc'[r] # "idle"
<1> USE DEF Typed, TypeOK, Goto, InPage, OnState, Overtaken, RolledBack, AfterPage
<1>1. CASE PrepareCkTx(r) \/ WaitPrepared(r) \/ WaitTimeout(r) \/ ReadPrice(r) \/ Fail(r)
  BY <1>1 DEF PrepareCkTx, WaitPrepared, WaitTimeout, ReadPrice, Fail
<1>2. CASE (\E i \in Item : PrepareCkTxMove(r, i)) \/ AcknowledgeCkTx(r)
  BY <1>2 DEF PrepareCkTxMove, AcknowledgeCkTx
<1>3. CASE AbortCkTx(r) \/ HScan(r)
  BY <1>3 DEF AbortCkTx, HScan
<1>4. CASE \E i \in Item : AbortCkTxRollback(r, i)
  BY <1>4 DEF AbortCkTxRollback
<1>5. QED
  BY <1>1, <1>2, <1>3, <1>4 DEF Step

\* An aborted or a committed record stays so, and luaAbortCkTx leaves no other.
LEMMA BegunStep == Typed /\ Begun /\ [Next]_vars => Begun'
<1> SUFFICES ASSUME Typed, Begun, [Next]_vars, NEW u \in Tx PROVE BegunAt(u)'
  BY DEF Begun
<1>0. BegunAt(u) /\ TypeOK
  BY DEF Begun, Typed
<1>1. txState[u] \in {TxAborted, TxCommitted} => txState'[u] = txState[u]
  BY <1>0, ArrowStep, StatesDiffer DEF Arrow
<1>2. CASE CommitCkTx(u)
  BY <1>0, <1>2, StatesDiffer DEF BegunAt, CommitCkTx, reqVars
<1>3. ASSUME NEW r \in Request, TxOf[r] = u, Step(r) PROVE BegunAt(u)'
  <2>1. pc'[r] # "idle" /\ \A s \in Request \ {r} : pc'[s] = pc[s]
    BY <1>3, StepBegins, StepIsLocal
  <2>2. ASSUME NEW a \in AbortReq, TxOf[a] = u, pc'[a] # "idle"
        PROVE  txState'[u] \in {TxAborted, TxCommitted}
    <3>1. CASE pc[a] # "idle"
      BY <1>0, <1>1, <2>2, <3>1 DEF BegunAt
    <3>2. CASE pc[a] = "idle"
      <4>1. a = r
        BY <2>1, <2>2, <3>2 DEF Request
      <4>2. r \notin PrepareReq
        BY <2>2, <4>1, StockConstants
      <4>3. AbortCkTx(r)
        BY <1>3, <3>2, <4>1, <4>2, StepIsAwake
      <4>4. QED
        BY <1>0, <1>3, <4>3 DEF AbortCkTx, TypeOK
    <3>3. QED
      BY <3>1, <3>2
  <2>3. QED
    BY <1>3, <2>1, <2>2 DEF BegunAt
<1>4. CASE ~CommitCkTx(u) /\ \A r \in Request : TxOf[r] = u => ~Step(r)
  BY <1>0, <1>4, OthersUntouched DEF BegunAt, Untouched, Request
<1>5. QED
  BY <1>2, <1>3, <1>4

\* From the moment an abort request has reached its record, nothing is acknowledged
\* or sold any more that was not sold before, whichever prepare requests are
\* still on their way; and where no handler fails, what an aborted record still
\* holds is being given back.
THEOREM AbortTakesEffect ==
  Spec => [](\A a \in AbortReq : pc[a] # "idle" =>
               \/ txState[TxOf[a]] = TxCommitted
               \/ /\ txState[TxOf[a]] = TxAborted
                  /\ \/ Fields(TxOf[a]) = {} \/ Failures
                     \/ \E r \in Request : TxOf[r] = TxOf[a] /\ Roller(r))
<1> DEFINE Effect ==
      \A a \in AbortReq : pc[a] # "idle" =>
        \/ txState[TxOf[a]] = TxCommitted
        \/ /\ txState[TxOf[a]] = TxAborted
           /\ \/ Fields(TxOf[a]) = {} \/ Failures
              \/ \E r \in Request : TxOf[r] = TxOf[a] /\ Roller(r)
<1>1. Begun /\ Rolling => Effect
  <2>1. SUFFICES ASSUME Begun, Rolling, NEW a \in AbortReq, pc[a] # "idle",
                        txState[TxOf[a]] # TxCommitted
                 PROVE  /\ txState[TxOf[a]] = TxAborted
                        /\ \/ Fields(TxOf[a]) = {} \/ Failures
                           \/ \E r \in Request : TxOf[r] = TxOf[a] /\ Roller(r)
    OBVIOUS
  <2>2. TxOf[a] \in Tx
    BY StockConstants DEF Request
  <2>3. txState[TxOf[a]] = TxAborted
    BY <2>1, <2>2 DEF Begun, BegunAt
  <2>4. RollingAt(TxOf[a])
    BY <2>1, <2>2 DEF Rolling
  <2>5. QED
    BY <2>3, <2>4 DEF RollingAt
<1> HIDE DEF Effect
<1>2. Spec => []Effect
  BY <1>1, TypedInit, TypedStep, RollingInit, RollingStep, BegunInit, BegunStep, PTL DEF Spec
<1>3. QED
  BY <1>2 DEF Effect

-----------------------------------------------------------------------------
(* What prepare requests are told                                          *)

AbortArrived(t) == \E a \in AbortReq : TxOf[a] = t /\ pc[a] # "idle"

\* A prepare request is told a price only of a record that has been
\* acknowledged, and that is the record's price until the price is gone; it is
\* refused only when the record is aborted; and a price that was told is
\* withdrawn only by an abort request.
Told(r) ==
  /\ pc[r] = "wait" => txState[TxOf[r]] # TxNone
  /\ pc[r] \in {"ok", "readPrice"} =>
       txState[TxOf[r]] \in {TxAcknowledged, TxCommitted, TxAborted}
  /\ pc[r] = "ok" /\ lockedPrice[TxOf[r]] # NoPrice => quote[r] = lockedPrice[TxOf[r]]
  /\ pc[r] = "rejected" => txState[TxOf[r]] = TxAborted
  /\ pc[r] = "ok" /\ txState[TxOf[r]] = TxAborted => AbortArrived(TxOf[r])

\* For one record: an aborted one has no price any more, and all prices told
\* were the same.
AgreeingAt(t) ==
  /\ txState[t] = TxAborted => lockedPrice[t] = NoPrice
  /\ \A r \in PrepareReq : TxOf[r] = t => Told(r)
  /\ \A r, s \in PrepareReq :
       TxOf[r] = t /\ TxOf[s] = t /\ pc[r] = "ok" /\ pc[s] = "ok" => quote[r] = quote[s]

Agreeing == \A t \in Tx : AgreeingAt(t)

\* At the start nobody has been told anything.
LEMMA AgreeingInit == Init => Agreeing
BY StockConstants, StatesDiffer DEF Init, Agreeing, AgreeingAt, Told, Request

\* A request that has arrived stays so.
LEMMA ArrivedStays ==
  ASSUME Typed, NEW r \in Request, Step(r)
  PROVE  pc'[r] # "idle" /\ \A t \in Tx : AbortArrived(t) => AbortArrived(t)'
<1> USE DEF Typed, TypeOK, Goto
<1>1. pc'[r] # "idle"
  <2>1. CASE PrepareCkTx(r) \/ WaitPrepared(r)
    BY <2>1 DEF PrepareCkTx, TakeOver, WaitPrepared, OnState
  <2>2. CASE WaitTimeout(r) \/ Fail(r) \/ ReadPrice(r)
    BY <2>2 DEF WaitTimeout, Fail, ReadPrice
  <2>3. CASE \E i \in Item : PrepareCkTxMove(r, i)
    BY <2>3 DEF PrepareCkTxMove, Move, Overtaken
  <2>4. CASE AcknowledgeCkTx(r)
    BY <2>4 DEF AcknowledgeCkTx, Overtaken
  <2>5. CASE AbortCkTx(r)
    BY <2>5 DEF AbortCkTx, RolledBack
  <2>6. CASE HScan(r)
    BY <2>6 DEF HScan, RolledBack
  <2>7. CASE \E i \in Item : AbortCkTxRollback(r, i)
    BY <2>7 DEF AbortCkTxRollback, AfterPage, RolledBack, InPage
  <2>8. QED
    BY <2>1, <2>2, <2>3, <2>4, <2>5, <2>6, <2>7 DEF Step
<1>2. \A s \in Request \ {r} : pc'[s] = pc[s]
  BY StepIsLocal
<1>3. QED
  BY <1>1, <1>2 DEF AbortArrived, Request

\* A record that does not change, and whose handlers do not either.
LEMMA AgreeingUntouched ==
  ASSUME NEW t \in Tx, AgreeingAt(t), Untouched(t) PROVE AgreeingAt(t)'
<1>1. \A s \in Request : TxOf[s] = t =>
        pc'[s] = pc[s] /\ quote'[s] = quote[s]
  BY DEF Untouched
<1>2. AbortArrived(t) => AbortArrived(t)'
  BY <1>1 DEF AbortArrived, Request
<1>3. QED
  BY <1>1, <1>2 DEF AgreeingAt, Told, Untouched, Request

\* A handler that leaves the state and the price of its record as they were.
LEMMA AgreeingQuiet ==
  ASSUME Typed, NEW r \in Request, AgreeingAt(TxOf[r]), Step(r),
         txState'[TxOf[r]] = txState[TxOf[r]], lockedPrice'[TxOf[r]] = lockedPrice[TxOf[r]],
         r \in PrepareReq =>
           /\ Told(r)'
           /\ pc'[r] = "ok" => quote'[r] = lockedPrice[TxOf[r]] /\ quote'[r] # NoPrice
  PROVE  AgreeingAt(TxOf[r])'
<1> DEFINE t == TxOf[r]
<1>1. \A s \in Request \ {r} : pc'[s] = pc[s] /\ quote'[s] = quote[s]
  BY StepIsLocal
<1>2. AbortArrived(t) => AbortArrived(t)'
  BY StockConstants, ArrivedStays
<1>3. \A s \in PrepareReq : TxOf[s] = t => Told(s)'
  BY <1>1, <1>2 DEF AgreeingAt, Told, Request
<1>4. ASSUME NEW s \in PrepareReq, TxOf[s] = t, s # r, pc[s] = "ok",
             r \in PrepareReq, pc'[r] = "ok"
      PROVE  quote'[r] = quote[s]
  BY <1>4 DEF AgreeingAt, Told
<1>5. \A s1, s2 \in PrepareReq :
        TxOf[s1] = t /\ TxOf[s2] = t /\ pc'[s1] = "ok" /\ pc'[s2] = "ok" =>
          quote'[s1] = quote'[s2]
  BY <1>1, <1>4 DEF AgreeingAt, Request
<1>6. QED
  BY <1>3, <1>5 DEF AgreeingAt

\* A record that is being aborted: by an abort request, or before anybody was
\* told its price.
LEMMA AgreeingAborted ==
  ASSUME Typed, NEW r \in Request, AgreeingAt(TxOf[r]), Step(r),
         txState'[TxOf[r]] = TxAborted, lockedPrice'[TxOf[r]] = NoPrice,
         r \in PrepareReq => pc'[r] # "ok",
         \/ r \in AbortReq
         \/ \A s \in PrepareReq : TxOf[s] = TxOf[r] /\ pc[s] = "ok" => AbortArrived(TxOf[r])
  PROVE  AgreeingAt(TxOf[r])'
<1> DEFINE t == TxOf[r]
<1>1. \A s \in Request \ {r} : pc'[s] = pc[s] /\ quote'[s] = quote[s]
  BY StepIsLocal
<1>2. (AbortArrived(t) => AbortArrived(t)') /\ (r \in AbortReq => AbortArrived(t)')
  BY StockConstants, ArrivedStays DEF AbortArrived
<1>3. \A s \in PrepareReq : TxOf[s] = t => Told(s)'
  BY <1>1, <1>2, StatesDiffer DEF AgreeingAt, Told, Request
<1>4. QED
  BY <1>1, <1>3 DEF AgreeingAt, Request

\* Every step keeps what was told true.
LEMMA AgreeingStep ==
  Typed /\ Holding /\ Rolling /\ Agreeing /\ [Next]_vars => Agreeing'
<1> SUFFICES ASSUME Typed, Holding, Rolling, Agreeing, [Next]_vars, NEW u \in Tx
             PROVE  AgreeingAt(u)'
  BY DEF Agreeing
<1> AgreeingAt(u) /\ RollingAt(u)
  BY DEF Agreeing, Rolling
<1> USE StatesDiffer DEF Typed, TypeOK
<1>1. CASE CommitCkTx(u)
  BY <1>1 DEF CommitCkTx, reqVars, AgreeingAt, Told, AbortArrived
<1>2. ASSUME NEW r \in Request, TxOf[r] = u, Step(r) PROVE AgreeingAt(u)'
  <2>0. \A s \in Request \ {r} : pc'[s] = pc[s] /\ quote'[s] = quote[s]
    BY <1>2, StepIsLocal
  <2>1. CASE r \in PrepareReq /\ PrepareCkTx(r)
    <3>1. CASE txState[u] = TxNone
      <4>1. txState'[u] = TxPreparing /\ pc'[r] = "move"
        BY <1>2, <2>1, <3>1 DEF PrepareCkTx, TakeOver, Goto
      <4>2. \A s \in PrepareReq : TxOf[s] = u => pc'[s] \notin {"ok", "readPrice", "rejected"}
        BY <1>2, <2>0, <3>1, <4>1 DEF AgreeingAt, Told, Request
      <4>3. QED
        BY <4>1, <4>2 DEF AgreeingAt, Told
    <3>2. CASE txState[u] # TxNone
      <4>1. UNCHANGED <<txState, lockedPrice>> /\ pc'[r] = OnState(txState[u])
        BY <1>2, <2>1, <3>2 DEF PrepareCkTx, TakeOver, lockVars, Goto
      <4>2. Told(r)' /\ pc'[r] # "ok"
        BY <1>2, <3>2, <4>1 DEF OnState, Told, TxState
      <4>3. QED
        BY <1>2, <4>1, <4>2, AgreeingQuiet
    <3>3. QED
      BY <3>1, <3>2
  <2>2. CASE r \in PrepareReq /\ WaitPrepared(r)
    <3>1. UNCHANGED <<txState, lockedPrice>> /\ pc'[r] = OnState(txState[u]) /\ pc[r] = "wait"
          /\ txState[u] # TxPreparing
      BY <1>2, <2>2 DEF WaitPrepared, lockVars, Goto
    <3>2. txState[u] # TxNone
      BY <1>2, <2>2, <3>1 DEF AgreeingAt, Told
    <3>3. Told(r)' /\ pc'[r] # "ok"
      BY <1>2, <3>1, <3>2 DEF OnState, Told, TxState
    <3>4. QED
      BY <1>2, <3>1, <3>3, AgreeingQuiet
  <2>3. CASE WaitTimeout(r) \/ Fail(r)
    <3>1. UNCHANGED <<txState, lockedPrice>> /\ pc'[r] = "failed"
      BY <2>3 DEF WaitTimeout, Fail, lockVars, Goto
    <3>2. Told(r)'
      BY <3>1 DEF Told
    <3>3. QED
      BY <1>2, <3>1, <3>2, AgreeingQuiet
  <2>4. CASE r \in PrepareReq /\ ReadPrice(r)
    <3>1. UNCHANGED <<txState, lockedPrice>> /\ pc[r] = "readPrice"
      BY <2>4 DEF ReadPrice, lockVars
    <3>2. CASE lockedPrice[u] = NoPrice
      <4>1. pc'[r] = "failed"
        BY <1>2, <2>4, <3>2 DEF ReadPrice, Goto
      <4>2. Told(r)'
        BY <4>1 DEF Told
      <4>3. QED
        BY <1>2, <3>1, <4>1, <4>2, AgreeingQuiet
    <3>3. CASE lockedPrice[u] # NoPrice
      <4>1. pc'[r] = "ok" /\ quote'[r] = lockedPrice[u]
        BY <1>2, <2>4, <3>3 DEF ReadPrice, Goto
      <4>2. txState[u] \in {TxAcknowledged, TxCommitted}
        BY <1>2, <2>4, <3>1, <3>3 DEF AgreeingAt, Told
      <4>3. Told(r)'
        BY <1>2, <3>1, <4>1, <4>2 DEF Told
      <4>4. QED
        BY <1>2, <3>1, <3>3, <4>1, <4>3, AgreeingQuiet
    <3>4. QED
      BY <3>2, <3>3
  <2>5. ASSUME NEW i \in Item, r \in PrepareReq, PrepareCkTxMove(r, i) PROVE AgreeingAt(u)'
    <3>1. CASE StillPreparing(u) /\ InStock(u, i)
      <4>1. txState[u] = TxPreparing /\ UNCHANGED <<txState, pc, quote>> /\ pc[r] = "move"
        BY <1>2, <2>5, <3>1 DEF PrepareCkTxMove, Move, StillPreparing
      <4>2. \A s \in PrepareReq : TxOf[s] = u => pc[s] \notin {"ok", "readPrice", "rejected"}
        BY <4>1 DEF AgreeingAt, Told
      <4>3. QED
        BY <4>1, <4>2 DEF AgreeingAt, Told
    <3>2. CASE ~StillPreparing(u) \/ ~InStock(u, i)
      <4>1. UNCHANGED <<txState, lockedPrice>>
            /\ pc'[r] = IF StillPreparing(u) THEN "abort" ELSE Overtaken(u)
        BY <1>2, <2>5, <3>2 DEF PrepareCkTxMove, Move, Goto
      <4>2. Told(r)' /\ pc'[r] # "ok"
        BY <1>2, <4>1 DEF Told, Overtaken
      <4>3. QED
        BY <1>2, <4>1, <4>2, AgreeingQuiet
    <3>3. QED
      BY <3>1, <3>2
  <2>6. CASE r \in PrepareReq /\ AcknowledgeCkTx(r)
    <3>1. CASE StillPreparing(u)
      <4>1. /\ txState[u] = TxPreparing /\ txState'[u] = TxAcknowledged
            /\ UNCHANGED lockedPrice /\ pc'[r] = "ok" /\ quote'[r] = lockedPrice[u]
        BY <1>2, <2>6, <3>1 DEF AcknowledgeCkTx, StillPreparing, Goto
      <4>2. \A s \in PrepareReq \ {r} : TxOf[s] = u =>
              pc'[s] \notin {"ok", "readPrice", "rejected"}
        BY <1>2, <2>0, <4>1 DEF AgreeingAt, Told, Request
      <4>3. QED
        BY <1>2, <4>1, <4>2 DEF AgreeingAt, Told
    <3>2. CASE ~StillPreparing(u)
      <4>1. UNCHANGED <<txState, lockedPrice>> /\ pc'[r] = Overtaken(u)
        BY <1>2, <2>6, <3>2 DEF AcknowledgeCkTx, Goto
      <4>2. Told(r)' /\ pc'[r] # "ok"
        BY <1>2, <4>1 DEF Told, Overtaken
      <4>3. QED
        BY <1>2, <4>1, <4>2, AgreeingQuiet
    <3>3. QED
      BY <3>1, <3>2
  <2>7. CASE AbortCkTx(r)
    <3>1. r \in PrepareReq => Owner(r) /\ pc[r] = "abort" /\ txState[u] \in {TxPreparing, TxAborted}
      BY <1>2, <2>7, StockConstants DEF AbortCkTx, Holding, Holds, OwnerState, Owner, TxState
    <3>2. CASE txState[u] = TxCommitted
      <4>1. UNCHANGED <<txState, lockedPrice>> /\ pc'[r] = "failed"
        BY <1>2, <2>7, <3>2 DEF AbortCkTx, Goto
      <4>2. Told(r)'
        BY <4>1 DEF Told
      <4>3. QED
        BY <1>2, <4>1, <4>2, AgreeingQuiet
    <3>3. CASE txState[u] # TxCommitted
      <4>1. /\ txState'[u] = TxAborted /\ lockedPrice'[u] = NoPrice
            /\ pc'[r] \in {"scan", RolledBack(r)}
        BY <1>2, <2>7, <3>3 DEF AbortCkTx, Goto
      <4>2. r \in PrepareReq => pc'[r] # "ok"
        BY <4>1, StockConstants DEF RolledBack
      <4>3. r \in PrepareReq =>
              \A s \in PrepareReq : TxOf[s] = u /\ pc[s] = "ok" => AbortArrived(u)
        BY <3>1 DEF AgreeingAt, Told
      <4>4. QED
        BY <1>2, <4>1, <4>2, <4>3, AgreeingAborted DEF Request
    <3>4. QED
      BY <3>2, <3>3
  <2>8. CASE HScan(r) \/ \E i \in Item : AbortCkTxRollback(r, i)
    <3>1. UNCHANGED <<txState, lockedPrice>> /\ Roller(r)
          /\ pc'[r] \in {"scan", "failed", RolledBack(r)} \cup InPage
      BY <2>8 DEF HScan, AbortCkTxRollback, AfterPage, lockVars, Goto, Roller, InPage
    <3>2. txState[u] = TxAborted
      BY <1>2, <3>1 DEF RollingAt
    <3>3. r \in PrepareReq => Told(r)' /\ pc'[r] # "ok"
      BY <1>2, <3>1, <3>2, StockConstants DEF Told, RolledBack, InPage
    <3>4. QED
      BY <1>2, <3>1, <3>3, AgreeingQuiet
  <2>9. QED
    BY <1>2, <2>1, <2>2, <2>3, <2>4, <2>5, <2>6, <2>7, <2>8 DEF Step
<1>3. CASE ~CommitCkTx(u) /\ \A r \in Request : TxOf[r] = u => ~Step(r)
  BY <1>3, OthersUntouched, AgreeingUntouched
<1>4. QED
  BY <1>1, <1>2, <1>3

\* "results of multiple calls should be consistent" (stock/transaction.go:46):
\* of any number of prepare requests of one transaction no two are answered 200
\* with different prices, and one is refused after another was answered 200 only
\* if an abort request has come.
THEOREM Consistent == Spec => []AnswersAgree
<1>1. Init => Typed /\ Holding /\ Rolling /\ Agreeing
  BY TypedInit, HoldingInit, RollingInit, AgreeingInit
<1>2. Typed /\ Holding /\ Rolling /\ Agreeing /\ [Next]_vars =>
        Typed' /\ Holding' /\ Rolling' /\ Agreeing'
  BY TypedStep, HoldingStep, RollingStep, AgreeingStep
<1>3. Typed /\ Agreeing => AnswersAgree
  <2>1. SUFFICES ASSUME Typed, Agreeing, NEW r \in PrepareReq, NEW s \in PrepareReq,
                        TxOf[r] = TxOf[s], pc[r] = "ok"
                 PROVE  /\ pc[s] = "ok" => quote[r] = quote[s]
                        /\ pc[s] = "rejected" => AbortArrived(TxOf[r])
    BY DEF AnswersAgree, AbortArrived
  <2>2. AgreeingAt(TxOf[r])
    BY <2>1, StockConstants DEF Agreeing, Request
  <2>3. QED
    BY <2>1, <2>2 DEF AgreeingAt, Told
<1>4. QED
  BY <1>1, <1>2, <1>3, PTL DEF Spec

-----------------------------------------------------------------------------
(* What prices are told                                                    *)

\* What the items in the hash of record t cost.
HeldCost(t) == SumFunction([i \in Item |-> Price[i] * locked[t][i]])

\* The price field is that of the items moved so far, and of the whole request
\* once the record is committed; a prepare request is told that of the request.
PricedAt(t) ==
  /\ txState[t] \in {TxPreparing, TxAcknowledged} => lockedPrice[t] = HeldCost(t)
  /\ txState[t] = TxCommitted => lockedPrice[t] = CostOf(t)
  /\ \A r \in PrepareReq : TxOf[r] = t /\ pc[r] = "ok" => quote[r] = CostOf(t)

Priced == \A t \in Tx : PricedAt(t)

\* An aborted record has no price, and a request reads the price of no record
\* that is still being prepared.
ReadableAt(t) ==
  /\ txState[t] = TxAborted => lockedPrice[t] = NoPrice
  /\ \A r \in PrepareReq : TxOf[r] = t =>
       /\ pc[r] = "wait" => txState[t] # TxNone
       /\ pc[r] = "readPrice" => txState[t] \in {TxAcknowledged, TxCommitted, TxAborted}

Readable == \A t \in Tx : ReadableAt(t)

\* At the start nothing is held and nobody has been told.
LEMMA PricedInit == Init => Priced
BY StockConstants, StatesDiffer DEF Init, Priced, PricedAt, Request

\* An acknowledged record holds the items of its request, so its price is theirs.
LEMMA AcknowledgedCost ==
  ASSUME Typed, Holding, Priced, NEW t \in Tx, txState[t] \in {TxAcknowledged, TxCommitted}
  PROVE  lockedPrice[t] = CostOf(t)
<1>1. CASE txState[t] = TxAcknowledged
  <2>1. lockedPrice[t] = HeldCost(t) /\ locked[t] = Amount[t]
    BY <1>1 DEF Priced, PricedAt, Holding, Holds, AcknowledgedHoldsCart
  <2>2. QED
    BY <2>1 DEF HeldCost, CostOf
<1>2. CASE txState[t] = TxCommitted
  BY <1>2, StatesDiffer DEF Priced, PricedAt
<1>3. QED
  BY <1>1, <1>2

\* What an empty hash costs.
LEMMA NothingCosts ==
  ASSUME NEW a \in [Item -> Nat], \A i \in Item : a[i] = 0
  PROVE  SumFunction([i \in Item |-> Price[i] * a[i]]) = 0
<1> DEFINE f == [i \in Item |-> Price[i] * a[i]]
<1>1. ASSUME NEW i \in Item PROVE f[i] = 0
  BY StockConstants
<1>2. SumFunction(f) = SumFunctionOnSet(f, Item)
  BY DEF SumFunction
<1> HIDE DEF f
<1>3. SumFunctionOnSet(f, Item) = 0
  BY <1>1, SumZero, StockFinite
<1>4. QED
  BY <1>2, <1>3 DEF f

\* What one item more costs.
LEMMA OneItemCosts ==
  ASSUME NEW a \in [Item -> Nat], NEW b \in [Item -> Nat], NEW i \in Item,
         a[i] = 0, \A j \in Item \ {i} : b[j] = a[j]
  PROVE  SumFunction([j \in Item |-> Price[j] * b[j]])
           = SumFunction([j \in Item |-> Price[j] * a[j]]) + Price[i] * b[i]
<1> DEFINE f == [j \in Item |-> Price[j] * a[j]]
           g == [j \in Item |-> Price[j] * b[j]]
<1>1. \A j \in Item : f[j] \in Int /\ g[j] \in Int
  <2>1. ASSUME NEW j \in Item PROVE f[j] \in Int /\ g[j] \in Int
    <3>1. Price[j] \in Nat /\ a[j] \in Nat /\ b[j] \in Nat
      BY StockConstants
    <3>2. \A m, n \in Nat : m * n \in Int
      OBVIOUS
    <3>3. QED
      BY <3>1, <3>2
  <2>2. QED
    BY <2>1
<1>2. \A j \in Item \ {i} : g[j] = f[j]
  OBVIOUS
<1>3. f[i] = 0 /\ g[i] = Price[i] * b[i]
  BY StockConstants
<1>4. SumFunction(f) = SumFunctionOnSet(f, Item) /\ SumFunction(g) = SumFunctionOnSet(g, Item)
  BY DEF SumFunction
<1> HIDE DEF f, g
<1>5. SumFunctionOnSet(g, Item) = SumFunctionOnSet(f, Item) + g[i] - f[i]
  BY <1>1, <1>2, SumChange, StockFinite, Z3
<1>6. SumFunctionOnSet(f, Item) \in Int
  BY <1>1, SumType, StockFinite
<1>7. SumFunction(g) = SumFunction(f) + Price[i] * b[i]
  BY <1>1, <1>3, <1>4, <1>5, <1>6
<1>8. QED
  BY <1>7 DEF f, g

\* A record that does not change, and whose handlers do not either.
LEMMA PricedUntouched ==
  ASSUME NEW t \in Tx, PricedAt(t), Untouched(t) PROVE PricedAt(t)'
<1>1. HeldCost(t)' = HeldCost(t) /\ CostOf(t)' = CostOf(t)
  BY DEF Untouched, HeldCost, CostOf
<1>2. QED
  BY <1>1 DEF PricedAt, Untouched, Request

\* A handler that leaves its record alone and does not answer with a price.
LEMMA PricedQuiet ==
  ASSUME NEW r \in Request, PricedAt(TxOf[r]),
         UNCHANGED <<txState, locked, lockedPrice>>,
         \A s \in Request \ {r} : pc'[s] = pc[s] /\ quote'[s] = quote[s],
         r \in PrepareReq => pc'[r] # "ok"
  PROVE  PricedAt(TxOf[r])'
<1>1. HeldCost(TxOf[r])' = HeldCost(TxOf[r]) /\ CostOf(TxOf[r])' = CostOf(TxOf[r])
  BY DEF HeldCost, CostOf
<1>2. QED
  BY <1>1 DEF PricedAt, Request

\* A handler whose record is aborted when it has made its step, and that has not
\* been told a price.
LEMMA PricedAborted ==
  ASSUME NEW r \in Request, PricedAt(TxOf[r]), txState'[TxOf[r]] = TxAborted,
         \A s \in Request \ {r} : pc'[s] = pc[s] /\ quote'[s] = quote[s],
         r \in PrepareReq => pc'[r] # "ok"
  PROVE  PricedAt(TxOf[r])'
<1>1. CostOf(TxOf[r])' = CostOf(TxOf[r])
  BY DEF CostOf
<1>2. QED
  BY <1>1, StatesDiffer DEF PricedAt, Request

\* Every step keeps price field, hash and answers together.
LEMMA PricedStep ==
  Typed /\ Holding /\ Readable /\ Priced /\ [Next]_vars => Priced'
<1> SUFFICES ASSUME Typed, Holding, Readable, Priced, [Next]_vars, NEW u \in Tx
             PROVE  PricedAt(u)'
  BY DEF Priced
<1> PricedAt(u) /\ ReadableAt(u)
  BY DEF Priced, Readable
<1>0. Typed'
  BY TypedStep
<1> USE StatesDiffer DEF Typed, TypeOK
<1>1. CASE CommitCkTx(u)
  <2>1. /\ txState[u] = TxAcknowledged /\ txState'[u] = TxCommitted
        /\ UNCHANGED <<lockedPrice, pc, quote>>
    BY <1>1 DEF CommitCkTx, reqVars
  <2>2. lockedPrice[u] = CostOf(u) /\ CostOf(u)' = CostOf(u)
    BY <2>1, AcknowledgedCost DEF CostOf
  <2>3. QED
    BY <2>1, <2>2 DEF PricedAt
<1>2. ASSUME NEW r \in Request, TxOf[r] = u, Step(r) PROVE PricedAt(u)'
  <2>0. \A s \in Request \ {r} : pc'[s] = pc[s] /\ quote'[s] = quote[s]
    BY <1>2, StepIsLocal
  <2>1. CASE r \in PrepareReq /\ PrepareCkTx(r)
    <3>1. CASE txState[u] = TxNone
      <4>1. /\ txState'[u] = TxPreparing /\ pc'[r] = "move" /\ lockedPrice'[u] = 0
            /\ \A i \in Item : locked'[u][i] = 0
        BY <1>2, <2>1, <3>1 DEF PrepareCkTx, TakeOver, Goto
      <4>2. HeldCost(u)' = 0
        <5>1. locked'[u] \in [Item -> Nat]
          BY <1>0
        <5>2. QED
          BY <4>1, <5>1, NothingCosts DEF HeldCost
      <4>3. CostOf(u)' = CostOf(u)
        BY DEF CostOf
      <4>4. \A s \in PrepareReq : TxOf[s] = u /\ pc'[s] = "ok" => quote'[s] = CostOf(u)
        BY <2>0, <4>1 DEF PricedAt, Request
      <4>5. QED
        BY <4>1, <4>2, <4>3, <4>4 DEF PricedAt
    <3>2. CASE txState[u] # TxNone
      <4>1. UNCHANGED <<txState, locked, lockedPrice>> /\ Goto(r, OnState(txState[u]))
        BY <1>2, <2>1, <3>2 DEF PrepareCkTx, lockVars
      <4>2. pc'[r] # "ok"
        BY <4>1, PcElsewhere DEF OnState
      <4>3. QED
        BY <1>2, <2>0, <4>1, <4>2, PricedQuiet
    <3>3. QED
      BY <3>1, <3>2
  <2>2. CASE WaitPrepared(r) \/ WaitTimeout(r) \/ Fail(r)
    <3>1. /\ UNCHANGED <<txState, locked, lockedPrice>>
          /\ Goto(r, OnState(txState[u])) \/ Goto(r, "failed")
      BY <1>2, <2>2 DEF WaitPrepared, WaitTimeout, Fail, lockVars
    <3>2. pc'[r] # "ok"
      BY <3>1, PcElsewhere DEF OnState
    <3>3. QED
      BY <1>2, <2>0, <3>1, <3>2, PricedQuiet
  <2>3. CASE r \in PrepareReq /\ ReadPrice(r)
    <3>1. UNCHANGED <<txState, locked, lockedPrice>>
      BY <2>3 DEF ReadPrice, lockVars
    <3>2. CASE lockedPrice[u] = NoPrice
      <4>1. pc'[r] # "ok"
        BY <1>2, <2>3, <3>2 DEF ReadPrice, Goto
      <4>2. QED
        BY <1>2, <2>0, <3>1, <4>1, PricedQuiet
    <3>3. CASE lockedPrice[u] # NoPrice
      <4>1. pc[r] = "readPrice" /\ quote'[r] = lockedPrice[u]
        BY <1>2, <2>3, <3>3 DEF ReadPrice
      <4>2. txState[u] \in {TxAcknowledged, TxCommitted}
        BY <1>2, <2>3, <3>3, <4>1 DEF ReadableAt
      <4>3. lockedPrice[u] = CostOf(u)
        BY <4>2, AcknowledgedCost
      <4>4. CostOf(u)' = CostOf(u) /\ HeldCost(u)' = HeldCost(u)
        BY <3>1 DEF CostOf, HeldCost
      <4>5. QED
        BY <2>0, <3>1, <4>1, <4>3, <4>4 DEF PricedAt, Request
    <3>4. QED
      BY <3>2, <3>3
  <2>4. ASSUME NEW i \in Item, r \in PrepareReq, PrepareCkTxMove(r, i) PROVE PricedAt(u)'
    <3>1. CASE StillPreparing(u) /\ InStock(u, i)
      <4>1. /\ locked' = [locked EXCEPT ![u][i] = Amount[u][i]]
            /\ lockedPrice' = [lockedPrice EXCEPT ![u] = lockedPrice[u] + Price[i] * Amount[u][i]]
            /\ pc[r] = "move" /\ i \in todo[r] /\ UNCHANGED <<txState, pc, quote>>
        BY <1>2, <2>4, <3>1 DEF PrepareCkTxMove, Move
      <4>2. locked[u][i] = 0
        BY <1>2, <2>4, <3>1, <4>1 DEF Holding, Holds, MovedSoFar, Moved, Owner, StillPreparing
      <4>3. txState[u] = TxPreparing
        BY <3>1 DEF StillPreparing
      <4>4. locked[u] \in [Item -> Nat] /\ locked'[u] \in [Item -> Nat]
        BY <1>0
      <4>5. locked'[u][i] = Amount[u][i] /\ \A j \in Item \ {i} : locked'[u][j] = locked[u][j]
        BY <4>1
      <4>6. HeldCost(u)' = HeldCost(u) + Price[i] * Amount[u][i]
        <5>1. SumFunction([j \in Item |-> Price[j] * locked'[u][j]])
                = SumFunction([j \in Item |-> Price[j] * locked[u][j]])
                  + Price[i] * locked'[u][i]
          BY <4>2, <4>4, <4>5, OneItemCosts
        <5>2. QED
          BY <4>5, <5>1 DEF HeldCost
      <4>7. lockedPrice'[u] = lockedPrice[u] + Price[i] * Amount[u][i]
        BY <4>1
      <4>8. CostOf(u)' = CostOf(u)
        BY DEF CostOf
      <4>9. QED
        BY <4>1, <4>3, <4>6, <4>7, <4>8 DEF PricedAt
    <3>2. CASE ~StillPreparing(u) \/ ~InStock(u, i)
      <4>1. /\ UNCHANGED <<txState, locked, lockedPrice>>
            /\ Goto(r, Overtaken(u)) \/ Goto(r, "abort")
        BY <1>2, <2>4, <3>2 DEF PrepareCkTxMove
      <4>2. pc'[r] # "ok"
        BY <4>1, PcElsewhere DEF Overtaken
      <4>3. QED
        BY <1>2, <2>0, <4>1, <4>2, PricedQuiet
    <3>3. QED
      BY <3>1, <3>2
  <2>5. CASE r \in PrepareReq /\ AcknowledgeCkTx(r)
    <3>1. CASE StillPreparing(u)
      <4>1. /\ txState[u] = TxPreparing /\ txState'[u] = TxAcknowledged
            /\ UNCHANGED <<locked, lockedPrice>>
            /\ quote'[r] = lockedPrice[u]
        BY <1>2, <2>5, <3>1 DEF AcknowledgeCkTx, StillPreparing
      <4>2. locked[u] = Amount[u]
        <5>1. Holding'
          BY HoldingStep
        <5>2. locked'[u] = Amount[u]
          BY <4>1, <5>1 DEF Holding, Holds, AcknowledgedHoldsCart
        <5>3. QED
          BY <4>1, <5>2
      <4>3. HeldCost(u) = CostOf(u) /\ HeldCost(u)' = HeldCost(u) /\ CostOf(u)' = CostOf(u)
        BY <4>1, <4>2 DEF HeldCost, CostOf
      <4>4. QED
        BY <2>0, <4>1, <4>3 DEF PricedAt, Request
    <3>2. CASE ~StillPreparing(u)
      <4>1. UNCHANGED <<txState, locked, lockedPrice>> /\ Goto(r, Overtaken(u))
        BY <1>2, <2>5, <3>2 DEF AcknowledgeCkTx
      <4>2. pc'[r] # "ok"
        BY <4>1, PcElsewhere DEF Overtaken
      <4>3. QED
        BY <1>2, <2>0, <4>1, <4>2, PricedQuiet
    <3>3. QED
      BY <3>1, <3>2
  <2>6. CASE AbortCkTx(r)
    <3>1. r \in PrepareReq => pc'[r] # "ok"
      BY <1>2, <2>6, StockConstants DEF AbortCkTx, RolledBack, Goto
    <3>2. CASE txState[u] = TxCommitted
      <4>1. UNCHANGED <<txState, locked, lockedPrice>>
        BY <1>2, <2>6, <3>2 DEF AbortCkTx
      <4>2. QED
        BY <1>2, <2>0, <3>1, <4>1, PricedQuiet
    <3>3. CASE txState[u] # TxCommitted
      <4>1. txState'[u] = TxAborted
        BY <1>2, <2>6, <3>3 DEF AbortCkTx
      <4>2. QED
        BY <1>2, <2>0, <3>1, <4>1, PricedAborted
    <3>4. QED
      BY <3>2, <3>3
  <2>7. CASE HScan(r)
    <3>1. UNCHANGED <<txState, locked, lockedPrice>>
      BY <2>7 DEF HScan, lockVars
    <3>2. r \in PrepareReq => pc'[r] # "ok"
      BY <1>2, <2>7, StockConstants DEF HScan, RolledBack, Goto
    <3>3. QED
      BY <1>2, <2>0, <3>1, <3>2, PricedQuiet
  <2>8. ASSUME NEW i \in Item, AbortCkTxRollback(r, i) PROVE PricedAt(u)'
    <3>1. r \in PrepareReq => pc'[r] # "ok"
      BY <1>2, <2>8, StockConstants DEF AbortCkTxRollback, AfterPage, RolledBack, Goto, InPage
    <3>2. CASE txState[u] = TxAborted
      <4>1. txState'[u] = TxAborted
        BY <2>8, <3>2 DEF AbortCkTxRollback
      <4>2. QED
        BY <1>2, <2>0, <3>1, <4>1, PricedAborted
    <3>3. CASE txState[u] # TxAborted
      <4>1. UNCHANGED <<txState, locked, lockedPrice>>
        BY <1>2, <2>8, <3>3 DEF AbortCkTxRollback
      <4>2. QED
        BY <1>2, <2>0, <3>1, <4>1, PricedQuiet
    <3>4. QED
      BY <3>2, <3>3
  <2>9. QED
    BY <1>2, <2>1, <2>2, <2>3, <2>4, <2>5, <2>6, <2>7, <2>8 DEF Step
<1>3. CASE ~CommitCkTx(u) /\ \A r \in Request : TxOf[r] = u => ~Step(r)
  BY <1>3, OthersUntouched, PricedUntouched
<1>4. QED
  BY <1>1, <1>2, <1>3

\* A prepare request that is answered 200 is told what its items cost in full,
\* by the owner that has moved them or by a duplicate that reads the hash, also
\* when moves, duplicates, commits and aborts interleave.
THEOREM QuotesInFull == Spec => []QuoteIsCost
<1>1. Init => Typed /\ Holding /\ Rolling /\ Agreeing /\ Priced
  BY TypedInit, HoldingInit, RollingInit, AgreeingInit, PricedInit
<1>2. Typed /\ Holding /\ Rolling /\ Agreeing /\ Priced /\ [Next]_vars =>
        Typed' /\ Holding' /\ Rolling' /\ Agreeing' /\ Priced'
  <2>1. Agreeing => Readable
    BY DEF Agreeing, AgreeingAt, Told, Readable, ReadableAt
  <2>2. QED
    BY <2>1, TypedStep, HoldingStep, RollingStep, AgreeingStep, PricedStep
<1>3. Priced => QuoteIsCost
  BY StockConstants DEF Priced, PricedAt, QuoteIsCost, Request
<1>4. QED
  BY <1>1, <1>2, <1>3, PTL DEF Spec

-----------------------------------------------------------------------------
(* A connection that loses answers (StockRetry)                            *)

\* A record that is taken over is a fresh one, and none becomes fresh again.
LEMMA FreshStep == Typed /\ Fresh /\ [Next]_vars => Fresh'
<1> SUFFICES ASSUME Typed, Fresh, [Next]_vars, NEW u \in Tx, txState'[u] = TxNone
             PROVE  Fields(u)' = {}
  BY DEF Fresh
<1> USE StatesDiffer DEF Typed, TypeOK, Fields
<1>1. txState[u] = TxNone => \A i \in Item : locked[u][i] = 0
  BY DEF Fresh
<1>2. CASE CommitCkTx(u)
  BY <1>2 DEF CommitCkTx
<1>3. ASSUME NEW r \in Request, TxOf[r] = u, Step(r) PROVE \A i \in Item : locked'[u][i] = 0
  <2>1. CASE r \in PrepareReq /\ PrepareCkTx(r)
    BY <1>3, <2>1 DEF PrepareCkTx, TakeOver, lockVars
  <2>2. CASE WaitPrepared(r) \/ WaitTimeout(r) \/ ReadPrice(r) \/ HScan(r) \/ Fail(r)
    BY <1>1, <2>2 DEF WaitPrepared, WaitTimeout, ReadPrice, HScan, Fail, lockVars
  <2>3. CASE \E i \in Item : PrepareCkTxMove(r, i) \/ AbortCkTxRollback(r, i)
    BY <1>1, <1>3, <2>3 DEF PrepareCkTxMove, Move, StillPreparing, AbortCkTxRollback, GiveBack
  <2>4. CASE AcknowledgeCkTx(r)
    BY <1>1, <1>3, <2>4 DEF AcknowledgeCkTx, StillPreparing
  <2>5. CASE AbortCkTx(r)
    BY <1>1, <1>3, <2>5 DEF AbortCkTx
  <2>6. QED
    BY <1>3, <2>1, <2>2, <2>3, <2>4, <2>5 DEF Step
<1>4. CASE ~CommitCkTx(u) /\ \A r \in Request : TxOf[r] = u => ~Step(r)
  BY <1>1, <1>4, OthersUntouched DEF Untouched
<1>5. QED
  BY <1>2, <1>3, <1>4

\* Who waits or reads goes by the state that it has found, and that state is
\* not taken back.
LEMMA ReadableStep == Typed /\ Readable /\ [Next]_vars => Readable'
<1> SUFFICES ASSUME Typed, Readable, [Next]_vars, NEW u \in Tx PROVE ReadableAt(u)'
  BY DEF Readable
<1> ReadableAt(u)
  BY DEF Readable
<1> USE StatesDiffer DEF Typed, TypeOK, ReadableAt
<1>1. CASE CommitCkTx(u)
  BY <1>1 DEF CommitCkTx, reqVars, Request
<1>2. ASSUME NEW r \in Request, TxOf[r] = u, Step(r) PROVE ReadableAt(u)'
  <2>0. \A s \in Request \ {r} : pc'[s] = pc[s]
    BY <1>2, StepIsLocal
  <2>1. CASE r \in PrepareReq /\ PrepareCkTx(r)
    BY <1>2, <2>0, <2>1 DEF PrepareCkTx, TakeOver, lockVars, Goto, OnState, TxState, Request
  <2>2. CASE r \in PrepareReq /\ WaitPrepared(r)
    BY <1>2, <2>0, <2>2 DEF WaitPrepared, lockVars, Goto, OnState, TxState, Request
  <2>3. CASE WaitTimeout(r) \/ ReadPrice(r) \/ Fail(r)
    BY <1>2, <2>0, <2>3 DEF WaitTimeout, ReadPrice, Fail, lockVars, Goto, Request
  <2>4. CASE HScan(r)
    BY <1>2, <2>0, <2>4 DEF HScan, lockVars, Goto, RolledBack, Request
  <2>5. ASSUME NEW i \in Item, r \in PrepareReq, PrepareCkTxMove(r, i) PROVE ReadableAt(u)'
    BY <1>2, <2>0, <2>5 DEF PrepareCkTxMove, Move, StillPreparing, Goto, Overtaken, Request
  <2>6. ASSUME NEW i \in Item, AbortCkTxRollback(r, i) PROVE ReadableAt(u)'
    BY <1>2, <2>0, <2>6 DEF AbortCkTxRollback, Goto, AfterPage, RolledBack, InPage, Request
  <2>7. CASE AcknowledgeCkTx(r)
    BY <1>2, <2>0, <2>7 DEF AcknowledgeCkTx, StillPreparing, Goto, Overtaken, Request
  <2>8. CASE AbortCkTx(r)
    BY <1>2, <2>0, <2>8 DEF AbortCkTx, Goto, RolledBack, Request
  <2>9. QED
    BY <1>2, <2>1, <2>2, <2>3, <2>4, <2>5, <2>6, <2>7, <2>8 DEF Step
<1>3. CASE ~CommitCkTx(u) /\ \A r \in Request : TxOf[r] = u => ~Step(r)
  BY <1>3, OthersUntouched DEF Untouched, Request
<1>4. QED
  BY <1>1, <1>2, <1>3

\* What holds if moves are made again, units may be lost or units may be made,
\* and if not.
Kept(again, lost, made) ==
  /\ Typed /\ Fresh /\ Readable
  /\ Holds(again) /\ Balanced(lost, made)
  /\ again \/ Priced

\* What holds without any of that is more.
LEMMA KeptWeaker ==
  ASSUME NEW again \in BOOLEAN, NEW lost \in BOOLEAN, NEW made \in BOOLEAN
  PROVE  Kept(FALSE, FALSE, FALSE) => Kept(again, lost, made)
<1>1. Holds(FALSE) => Holds(again)
  BY DEF Holds, MovedSoFar, Moved
<1>2. Balanced(FALSE, FALSE) => Balanced(lost, made)
  BY DEF Balanced, BalancedAt
<1>3. QED
  BY <1>1, <1>2 DEF Kept

\* The steps that lose no answer.
LEMMA KeptStep ==
  ASSUME NEW again \in BOOLEAN, NEW lost \in BOOLEAN, NEW made \in BOOLEAN, again => lost,
         Kept(again, lost, made), [Next]_vars
  PROVE  Kept(again, lost, made)'
<1>1. Typed' /\ Fresh' /\ Readable'
  BY TypedStep, FreshStep, ReadableStep DEF Kept
<1>2. Holds(lost)
  BY DEF Kept, Holds, MovedSoFar, Moved
<1>3. Holds(again)' /\ Balanced(lost, made)'
  BY <1>2, HoldsStep, BalancedStep DEF Kept
<1>4. again \/ Priced'
  BY PricedStep DEF Kept, Holding
<1>5. QED
  BY <1>1, <1>3, <1>4 DEF Kept

\* What a step of record t changes for the totals, if it leaves the other
\* records alone and moves nothing.
LEMMA BalancedByState ==
  ASSUME NEW lost \in BOOLEAN, NEW made \in BOOLEAN, TypeOK, TypeOK', Balanced(lost, made),
         NEW t \in Tx, UNCHANGED <<stock, supply>>,
         \A u \in Tx \ {t} : locked'[u] = locked[u] /\ txState'[u] = txState[u],
         locked'[t] = locked[t], txState[t] # TxCommitted, txState'[t] # TxCommitted
  PROVE  Balanced(lost, made)'
<1>1. \A i \in Item : TakenOf(t, i)' = TakenOf(t, i)
  BY DEF TakenOf
<1>2. \A i \in Item : stock'[i] + TakenOf(t, i)' = stock[i] + TakenOf(t, i)
  BY <1>1
<1>3. QED
  BY <1>2, BalancedByEqualExchange

\* Prices stay those of the hashes while the step changes no hash but that of t
\* and no handler.
LEMMA PricedRecord ==
  ASSUME Priced, NEW t \in Tx, UNCHANGED reqVars, PricedAt(t)',
         \A u \in Tx \ {t} : /\ locked'[u] = locked[u] /\ txState'[u] = txState[u]
                             /\ lockedPrice'[u] = lockedPrice[u]
  PROVE  Priced'
<1>1. ASSUME NEW u \in Tx \ {t} PROVE PricedAt(u)'
  BY PricedUntouched DEF Priced, Untouched, reqVars
<1>2. QED
  BY <1>1 DEF Priced

\* A record that has lost its owner is prepared by nobody.
LEMMA PrepareLostKeeps ==
  ASSUME NEW again \in BOOLEAN, NEW lost \in BOOLEAN, NEW made \in BOOLEAN,
         Kept(again, lost, made), NEW r \in PrepareReq, PrepareCkTxLost(r)
  PROVE  Kept(again, lost, made)'
<1> DEFINE t == TxOf[r]
<1> USE StockConstants, StatesDiffer DEF Typed, TypeOK
<1>0. t \in Tx /\ Typed
  BY DEF Request, Kept
<1>1. /\ txState[t] = TxNone /\ UNCHANGED <<itemVars, reqVars>>
      /\ txState' = [txState EXCEPT ![t] = TxPreparing]
      /\ locked' = [locked EXCEPT ![t] = [i \in Item |-> 0]]
      /\ lockedPrice' = [lockedPrice EXCEPT ![t] = 0]
  BY DEF PrepareCkTxLost, TakeOver
<1>2. /\ txState'[t] = TxPreparing /\ lockedPrice'[t] = 0 /\ \A i \in Item : locked'[t][i] = 0
      /\ \A u \in Tx \ {t} : /\ locked'[u] = locked[u] /\ txState'[u] = txState[u]
                             /\ lockedPrice'[u] = lockedPrice[u]
      /\ UNCHANGED <<created, stock, supply, pc, todo, quote>>
  BY <1>0, <1>1 DEF itemVars, reqVars
<1>3. Typed'
  BY <1>0, <1>1, <1>2 DEF PriceKept
<1>4. Fresh'
  BY <1>2 DEF Kept, Fresh, Fields
<1>5. Readable'
  BY <1>1, <1>2 DEF Kept, Readable, ReadableAt, Request
<1>6. Holds(again)'
  <2>1. \A s \in Request : TxOf[s] = t => ~Owner(s)
    BY <1>1 DEF Kept, Holds, OwnerState
  <2>2. OneOwner' /\ OwnerState'
    BY <1>2, <2>1 DEF Kept, Holds, OneOwner, OwnerState, Owner
  <2>3. MovedSoFar(again)'
    <3>1. SUFFICES ASSUME NEW s \in Request, Owner(s), pc[s] = "move",
                          txState'[TxOf[s]] = TxPreparing
                   PROVE  Moved(s, again)'
      BY <1>2 DEF MovedSoFar, Owner
    <3>2. TxOf[s] \in Tx \ {t}
      BY <2>1, <3>1
    <3>3. Moved(s, again)
      BY <1>2, <3>1, <3>2 DEF Kept, Holds, MovedSoFar
    <3>4. QED
      BY <1>2, <3>2, <3>3 DEF Moved
  <2>4. AcknowledgedHoldsCart'
    BY <1>2 DEF Kept, Holds, AcknowledgedHoldsCart
  <2>5. QED
    BY <2>2, <2>3, <2>4 DEF Holds
<1>7. Balanced(lost, made)'
  <2>1. locked'[t] = locked[t]
    <3>1. \A i \in Item : locked[t][i] = 0
      BY <1>0, <1>1 DEF Kept, Fresh, Fields
    <3>2. QED
      BY <1>0, <1>1, <3>1
  <2>2. QED
    BY <1>0, <1>1, <1>2, <1>3, <2>1, BalancedByState DEF Kept
<1>8. again \/ Priced'
  <2>1. HeldCost(t)' = 0
    <3>1. locked'[t] \in [Item -> Nat]
      BY <1>0, <1>3
    <3>2. QED
      BY <1>2, <3>1, NothingCosts DEF HeldCost
  <2>2. CostOf(t)' = CostOf(t)
    BY DEF CostOf
  <2>3. Priced => PricedAt(t)'
    BY <1>0, <1>2, <2>1, <2>2 DEF Priced, PricedAt
  <2>4. QED
    BY <1>0, <1>1, <1>2, <2>3, PricedRecord DEF Kept
<1>9. QED
  BY <1>3, <1>4, <1>5, <1>6, <1>7, <1>8 DEF Kept

\* The owner has acknowledged all its moves.
LEMMA AcknowledgeLostKeeps ==
  ASSUME NEW again \in BOOLEAN, NEW lost \in BOOLEAN, NEW made \in BOOLEAN,
         Kept(again, lost, made), NEW r \in PrepareReq, AcknowledgeCkTxLost(r)
  PROVE  Kept(again, lost, made)'
<1> DEFINE t == TxOf[r]
<1> USE StockConstants, StatesDiffer DEF Typed, TypeOK
<1>0. t \in Tx /\ r \in Request /\ Typed
  BY DEF Request, Kept
<1>1. /\ txState[t] = TxPreparing /\ pc[r] = "move" /\ todo[r] = {}
      /\ UNCHANGED <<itemVars, locked, lockedPrice, reqVars>>
      /\ txState' = [txState EXCEPT ![t] = TxAcknowledged]
  BY DEF AcknowledgeCkTxLost, StillPreparing
<1>2. /\ txState'[t] = TxAcknowledged /\ \A u \in Tx \ {t} : txState'[u] = txState[u]
      /\ UNCHANGED <<created, stock, supply, pc, todo, quote>>
  BY <1>0, <1>1 DEF itemVars, reqVars
<1>3. Typed'
  BY <1>0, <1>1, <1>2 DEF PriceKept
<1>4. Fresh'
  BY <1>1, <1>2 DEF Kept, Fresh, Fields
<1>5. Readable'
  BY <1>1, <1>2 DEF Kept, Readable, ReadableAt, Request
<1>6. Holds(again)'
  <2>1. OneOwner'
    BY <1>2 DEF Kept, Holds, OneOwner, Owner
  <2>2. OwnerState'
    <3>1. \A s \in Request : Owner(s) /\ TxOf[s] = t => pc[s] # "abort"
      BY <1>0, <1>1 DEF Kept, Holds, OneOwner, Owner
    <3>2. QED
      BY <1>2, <3>1 DEF Kept, Holds, OwnerState, Owner
  <2>3. MovedSoFar(again)'
    BY <1>1, <1>2 DEF Kept, Holds, MovedSoFar, Moved, Owner
  <2>4. locked[t] = Amount[t]
    <3>1. Moved(r, again)
      BY <1>0, <1>1 DEF Kept, Holds, MovedSoFar, Owner
    <3>2. \A i \in Item : locked[t][i] = Amount[t][i]
      BY <1>1, <3>1 DEF Moved
    <3>3. QED
      BY <1>0, <3>2
  <2>5. AcknowledgedHoldsCart'
    BY <1>1, <1>2, <2>4 DEF Kept, Holds, AcknowledgedHoldsCart
  <2>6. QED
    BY <2>1, <2>2, <2>3, <2>5 DEF Holds
<1>7. Balanced(lost, made)'
  BY <1>0, <1>1, <1>2, <1>3, BalancedByState DEF Kept
<1>8. again \/ Priced'
  <2>1. HeldCost(t)' = HeldCost(t) /\ CostOf(t)' = CostOf(t)
    BY <1>1 DEF HeldCost, CostOf
  <2>2. Priced => PricedAt(t)'
    BY <1>0, <1>1, <1>2, <2>1 DEF Priced, PricedAt
  <2>3. QED
    BY <1>0, <1>1, <1>2, <2>2, PricedRecord DEF Kept
<1>9. QED
  BY <1>3, <1>4, <1>5, <1>6, <1>7, <1>8 DEF Kept

\* The record is aborted, by a handler that does not know.
LEMMA AbortLostKeeps ==
  ASSUME NEW again \in BOOLEAN, NEW lost \in BOOLEAN, NEW made \in BOOLEAN,
         Kept(again, lost, made), NEW r \in Request, AbortCkTxLost(r)
  PROVE  Kept(again, lost, made)'
<1> DEFINE t == TxOf[r]
<1> USE StockConstants, StatesDiffer DEF Typed, TypeOK
<1>0. t \in Tx /\ Typed
  BY DEF Kept
<1>1. /\ txState[t] \in {TxPreparing, TxAcknowledged}
      /\ UNCHANGED <<itemVars, locked, reqVars>>
      /\ txState' = [txState EXCEPT ![t] = TxAborted]
      /\ lockedPrice' = [lockedPrice EXCEPT ![t] = NoPrice]
  BY DEF AbortCkTxLost, MustRollBack
<1>2. /\ txState'[t] = TxAborted /\ lockedPrice'[t] = NoPrice
      /\ \A u \in Tx \ {t} : txState'[u] = txState[u] /\ lockedPrice'[u] = lockedPrice[u]
      /\ UNCHANGED <<created, stock, supply, pc, todo, quote>>
  BY <1>0, <1>1 DEF itemVars, reqVars
<1>3. Typed'
  BY <1>0, <1>1, <1>2 DEF PriceKept
<1>4. Fresh'
  BY <1>1, <1>2 DEF Kept, Fresh, Fields
<1>5. Readable'
  BY <1>1, <1>2 DEF Kept, Readable, ReadableAt, Request
<1>6. Holds(again)'
  <2>1. OneOwner' /\ OwnerState'
    BY <1>2 DEF Kept, Holds, OneOwner, OwnerState, Owner
  <2>2. MovedSoFar(again)' /\ AcknowledgedHoldsCart'
    BY <1>1, <1>2 DEF Kept, Holds, MovedSoFar, Moved, Owner, AcknowledgedHoldsCart
  <2>3. QED
    BY <2>1, <2>2 DEF Holds
<1>7. Balanced(lost, made)'
  BY <1>0, <1>1, <1>2, <1>3, BalancedByState DEF Kept
<1>8. again \/ Priced'
  <2>1. CostOf(t)' = CostOf(t)
    BY DEF CostOf
  <2>2. Priced => PricedAt(t)'
    BY <1>0, <1>2, <2>1 DEF Priced, PricedAt
  <2>3. QED
    BY <1>0, <1>1, <1>2, <2>2, PricedRecord DEF Kept
<1>9. QED
  BY <1>3, <1>4, <1>5, <1>6, <1>7, <1>8 DEF Kept

\* An item is given back by a handler that will ask for it again.
LEMMA RollbackLostKeeps ==
  ASSUME NEW again \in BOOLEAN, NEW lost \in BOOLEAN, NEW made \in BOOLEAN,
         Kept(again, lost, made), NEW r \in Request, NEW i \in Item,
         AbortCkTxRollbackLost(r, i)
  PROVE  Kept(again, lost, made)'
<1> DEFINE t == TxOf[r]
<1> USE StockConstants, StatesDiffer DEF Typed, TypeOK
<1>0. t \in Tx /\ Typed
  BY DEF Kept
<1>1. /\ txState[t] = TxAborted
      /\ stock' = [stock EXCEPT ![i] = stock[i] + locked[t][i]]
      /\ locked' = [locked EXCEPT ![t][i] = 0]
      /\ UNCHANGED <<created, supply, txState, lockedPrice, pc, todo, quote>>
  BY DEF AbortCkTxRollbackLost, GiveBack, reqVars
<1>2. /\ locked[t][i] \in Nat /\ stock[i] \in Nat /\ stock'[i] = stock[i] + locked[t][i]
      /\ \A j \in Item \ {i} : stock'[j] = stock[j] /\ locked'[t][j] = locked[t][j]
      /\ locked'[t][i] = 0 /\ \A u \in Tx \ {t} : locked'[u] = locked[u]
  BY <1>0, <1>1
<1>3. Typed'
  <2>1. stock' \in [Item -> Nat] /\ locked' \in [Tx -> [Item -> Nat]]
    BY <1>0, <1>1, <1>2
  <2>2. QED
    BY <1>0, <1>1, <2>1 DEF PriceKept
<1>4. Fresh'
  BY <1>0, <1>1, <1>2 DEF Kept, Fresh, Fields
<1>5. Readable'
  BY <1>1 DEF Kept, Readable, ReadableAt
<1>6. Holds(again)'
  <2>1. OneOwner' /\ OwnerState'
    BY <1>1 DEF Kept, Holds, OneOwner, OwnerState, Owner
  <2>2. MovedSoFar(again)' /\ AcknowledgedHoldsCart'
    BY <1>1, <1>2 DEF Kept, Holds, MovedSoFar, Moved, Owner, AcknowledgedHoldsCart
  <2>3. QED
    BY <2>1, <2>2 DEF Holds
<1>7. Balanced(lost, made)'
  <2>1. ASSUME NEW j \in Item PROVE stock'[j] + TakenOf(t, j)' = stock[j] + TakenOf(t, j)
    <3>1. TakenOf(t, j)' = locked'[t][j] /\ TakenOf(t, j) = locked[t][j]
      <4>1. locked'[t][j] \in Nat /\ locked[t][j] \in Nat
        BY <1>0, <1>3
      <4>2. QED
        BY <1>1, <4>1 DEF TakenOf
    <3>2. QED
      BY <1>2, <3>1
  <2>2. QED
    BY <1>0, <1>1, <1>2, <1>3, <2>1, BalancedByEqualExchange DEF Kept
<1>8. again \/ Priced'
  <2>1. CostOf(t)' = CostOf(t)
    BY DEF CostOf
  <2>2. Priced => PricedAt(t)'
    BY <1>0, <1>1, <2>1 DEF Priced, PricedAt
  <2>3. QED
    BY <1>0, <1>1, <1>2, <2>2, PricedRecord DEF Kept, reqVars
<1>9. QED
  BY <1>3, <1>4, <1>5, <1>6, <1>7, <1>8 DEF Kept

\* An item is moved by an owner that will move it again.
LEMMA MoveLostKeeps ==
  ASSUME NEW made \in BOOLEAN, Kept(TRUE, TRUE, made), NEW r \in PrepareReq, NEW i \in Item,
         PrepareCkTxMoveLost(r, i)
  PROVE  Kept(TRUE, TRUE, made)'
<1> DEFINE t == TxOf[r]
<1> USE StockConstants, StatesDiffer DEF Typed, TypeOK
<1>0. t \in Tx /\ r \in Request /\ Typed
  BY DEF Request, Kept
<1>1. /\ txState[t] = TxPreparing /\ pc[r] = "move" /\ stock[i] >= Amount[t][i]
      /\ stock' = [stock EXCEPT ![i] = stock[i] - Amount[t][i]]
      /\ locked' = [locked EXCEPT ![t][i] = Amount[t][i]]
      /\ lockedPrice' = [lockedPrice EXCEPT ![t] = lockedPrice[t] + Price[i] * Amount[t][i]]
      /\ UNCHANGED <<created, supply, txState, pc, todo, quote>> /\ i \in todo[r]
  BY DEF PrepareCkTxMoveLost, StillPreparing, InStock, Move, reqVars
<1>2. /\ Amount[t][i] \in Nat /\ stock[i] \in Nat /\ stock'[i] = stock[i] - Amount[t][i]
      /\ \A j \in Item \ {i} : stock'[j] = stock[j] /\ locked'[t][j] = locked[t][j]
      /\ locked'[t][i] = Amount[t][i] /\ \A u \in Tx \ {t} : locked'[u] = locked[u]
  BY <1>0, <1>1
<1>3. Typed'
  <2>1. stock' \in [Item -> Nat] /\ locked' \in [Tx -> [Item -> Nat]]
    BY <1>0, <1>1, <1>2
  <2>2. lockedPrice[t] \in Nat /\ Price[i] * Amount[t][i] \in Nat
    BY <1>0, <1>1, <1>2 DEF PriceKept
  <2>3. lockedPrice[t] + Price[i] * Amount[t][i] \in Nat
    BY <2>2
  <2>4. QED
    BY <1>0, <1>1, <2>1, <2>3 DEF PriceKept
<1>4. Fresh'
  BY <1>0, <1>1, <1>2 DEF Kept, Fresh, Fields
<1>5. Readable'
  BY <1>0, <1>1 DEF Kept, Readable, ReadableAt
<1>6. Holds(TRUE)'
  <2>1. OneOwner' /\ OwnerState'
    BY <1>1 DEF Kept, Holds, OneOwner, OwnerState, Owner
  <2>2. MovedSoFar(TRUE)'
    <3>1. SUFFICES ASSUME NEW s \in Request, Owner(s), pc[s] = "move",
                          txState[TxOf[s]] = TxPreparing
                   PROVE  Moved(s, TRUE)'
      BY <1>1 DEF MovedSoFar, Owner
    <3>2. Moved(s, TRUE)
      BY <3>1 DEF Kept, Holds, MovedSoFar
    <3>3. QED
      BY <1>0, <1>1, <1>2, <3>2 DEF Moved
  <2>3. AcknowledgedHoldsCart'
    BY <1>0, <1>1, <1>2 DEF Kept, Holds, AcknowledgedHoldsCart
  <2>4. QED
    BY <2>1, <2>2, <2>3 DEF Holds
<1>7. Balanced(TRUE, made)'
  <2>1. ASSUME NEW j \in Item PROVE Exchanged(t, j, TRUE)
    <3>1. /\ TakenOf(t, j)' = locked'[t][j] /\ TakenOf(t, j) = locked[t][j]
          /\ locked'[t][j] \in Nat /\ locked[t][j] \in Nat
      <4>1. locked'[t][j] \in Nat /\ locked[t][j] \in Nat
        BY <1>0, <1>3
      <4>2. QED
        BY <1>1, <4>1 DEF TakenOf
    <3>2. CASE j = i
      BY <1>2, <3>1, <3>2 DEF Exchanged
    <3>3. CASE j # i
      <4>1. stock[j] \in Nat
        BY <1>0
      <4>2. QED
        BY <1>2, <3>1, <3>3, <4>1 DEF Exchanged
    <3>4. QED
      BY <3>2, <3>3
  <2>2. QED
    BY <1>0, <1>1, <1>2, <1>3, <2>1, BalancedByExchange DEF Kept
<1>8. QED
  BY <1>3, <1>4, <1>5, <1>6, <1>7 DEF Kept

\* An item's stock is changed by a request that will change it again.
LEMMA IncrLostKeeps ==
  ASSUME NEW again \in BOOLEAN, NEW lost \in BOOLEAN, NEW made \in BOOLEAN,
         Kept(again, lost, made), NEW i \in Item, NEW d \in Delta, IncrByIfGe0XXLost(i, d),
         d > 0 => made, d <= 0 => lost
  PROVE  Kept(again, lost, made)'
<1>1. /\ stock[i] + d >= 0 /\ stock' = [stock EXCEPT ![i] = stock[i] + d]
      /\ UNCHANGED <<created, supply, txState, locked, lockedPrice, pc, todo, quote>>
  BY DEF IncrByIfGe0XXLost, lockVars, reqVars
<1>2. d \in Int /\ stock \in [Item -> Nat] /\ supply \in [Item -> Int] /\ TypeOK
  BY StockConstants DEF Kept, Typed, TypeOK
<1>3. Typed'
  <2>1. stock' \in [Item -> Nat]
    BY <1>1, <1>2
  <2>2. QED
    BY <1>1, <2>1 DEF Kept, Typed, TypeOK, PriceKept
<1>4. Fresh' /\ Readable' /\ (again \/ Priced')
  BY <1>1 DEF Kept, Fresh, Fields, Readable, ReadableAt, Priced, PricedAt, HeldCost, CostOf
<1>5. Holds(again)'
  BY <1>1 DEF Kept, Holds, OneOwner, OwnerState, Owner, MovedSoFar, Moved, AcknowledgedHoldsCart
<1>6. Balanced(lost, made)'
  <2>1. ASSUME NEW j \in Item
        PROVE  /\ lost \/ supply'[j] - stock'[j] <= supply[j] - stock[j]
               /\ made \/ supply[j] - stock[j] <= supply'[j] - stock'[j]
    BY <1>1, <1>2
  <2>2. TypeOK'
    BY <1>3 DEF Typed
  <2>3. QED
    BY <1>1, <1>2, <2>1, <2>2, BalancedQuiet DEF Kept
<1>7. QED
  BY <1>3, <1>4, <1>5, <1>6 DEF Kept

\* What was true without repetitions still is, unless a script that breaks it was
\* repeated.
RetryFine ==
  /\ Kept(TRUE, TRUE, TRUE)
  /\ "move" \notin repeated => Kept(FALSE, TRUE, TRUE)
  /\ "add" \notin repeated => Kept(TRUE, TRUE, FALSE)
  /\ repeated \cap {"move", "subtract"} = {} => Kept(FALSE, FALSE, TRUE)

\* At the start nothing has been repeated.
LEMMA RetryStart == RetryInit => RetryFine
<1> SUFFICES ASSUME Init PROVE Kept(FALSE, FALSE, FALSE)
  BY KeptWeaker DEF RetryInit, RetryFine
<1>1. Typed /\ Fresh
  BY TypedInit, StatesDiffer DEF Init, Fresh, Fields
<1>2. Readable
  BY StockConstants, StatesDiffer DEF Init, Readable, ReadableAt, Request
<1>3. QED
  BY <1>1, <1>2, HoldsInit, BalancedInit, PricedInit DEF Kept

\* Every step keeps it, whether its answer arrives or not.
LEMMA RetryStep == RetryFine /\ [RetryNext]_retryVars => RetryFine'
<1> SUFFICES ASSUME RetryFine, [RetryNext]_retryVars PROVE RetryFine'
  OBVIOUS
<1>1. CASE UNCHANGED retryVars \/ (Next /\ UNCHANGED <<repeats, repeated>>)
  BY <1>1, KeptStep DEF RetryFine, retryVars
<1>2. ASSUME NEW r \in PrepareReq, PrepareCkTxLost(r) PROVE RetryFine'
  <2>1. repeated' = repeated \cup {"prepare"}
    BY <1>2 DEF PrepareCkTxLost, AnswerLost
  <2>2. QED
    BY <1>2, <2>1, PrepareLostKeeps DEF RetryFine
<1>3. ASSUME NEW r \in PrepareReq, AcknowledgeCkTxLost(r) PROVE RetryFine'
  <2>1. repeated' = repeated \cup {"acknowledge"}
    BY <1>3 DEF AcknowledgeCkTxLost, AnswerLost
  <2>2. QED
    BY <1>3, <2>1, AcknowledgeLostKeeps DEF RetryFine
<1>4. ASSUME NEW r \in PrepareReq, NEW i \in Item, PrepareCkTxMoveLost(r, i) PROVE RetryFine'
  <2>1. repeated' = repeated \cup {"move"}
    BY <1>4 DEF PrepareCkTxMoveLost, AnswerLost
  <2>2. QED
    BY <1>4, <2>1, MoveLostKeeps DEF RetryFine
<1>5. ASSUME NEW r \in Request, AbortCkTxLost(r) PROVE RetryFine'
  <2>1. repeated' = repeated \cup {"abort"}
    BY <1>5 DEF AbortCkTxLost, AnswerLost
  <2>2. QED
    BY <1>5, <2>1, AbortLostKeeps DEF RetryFine
<1>6. ASSUME NEW r \in Request, NEW i \in Item, AbortCkTxRollbackLost(r, i) PROVE RetryFine'
  <2>1. repeated' = repeated \cup {"rollback"}
    BY <1>6 DEF AbortCkTxRollbackLost, AnswerLost
  <2>2. QED
    BY <1>6, <2>1, RollbackLostKeeps DEF RetryFine
<1>7. ASSUME NEW i \in Item, NEW d \in Delta, IncrByIfGe0XXLost(i, d) PROVE RetryFine'
  <2>1. d \in Int
    BY StockConstants
  <2>2. CASE d > 0
    <3>1. repeated' = repeated \cup {"add"}
      BY <1>7, <2>2 DEF IncrByIfGe0XXLost, AnswerLost
    <3>2. ASSUME NEW again \in BOOLEAN, NEW lost \in BOOLEAN, Kept(again, lost, TRUE)
          PROVE  Kept(again, lost, TRUE)'
      <4>1. ~(d <= 0)
        BY <2>1, <2>2
      <4>2. QED
        BY <1>7, <2>2, <3>2, <4>1, IncrLostKeeps, Zenon
    <3>3. QED
      BY <3>1, <3>2 DEF RetryFine
  <2>3. CASE d <= 0
    <3>1. repeated' = repeated \cup {"subtract"}
      BY <1>7, <2>1, <2>3 DEF IncrByIfGe0XXLost, AnswerLost
    <3>2. ASSUME NEW again \in BOOLEAN, NEW made \in BOOLEAN, Kept(again, TRUE, made)
          PROVE  Kept(again, TRUE, made)'
      <4>1. ~(d > 0)
        BY <2>1, <2>3
      <4>2. QED
        BY <1>7, <2>3, <3>2, <4>1, IncrLostKeeps, Zenon
    <3>3. QED
      BY <3>1, <3>2 DEF RetryFine
  <2>4. QED
    BY <2>1, <2>2, <2>3
<1>8. QED
  BY <1>1, <1>2, <1>3, <1>4, <1>5, <1>6, <1>7 DEF RetryNext

\* Whichever scripts the client sends again, and however often, units of an item
\* are made only by those of /add: none is given back twice, or sold while it is
\* on the shelf.
THEOREM OnlyAddsMatter == RetrySpec => []OnlyAddsMake
<1>1. RetryFine => OnlyAddsMake
  <2>1. SUFFICES ASSUME RetryFine, "add" \notin repeated, NEW i \in Item
                 PROVE  Accounted(i) <= supply[i]
    BY DEF OnlyAddsMake
  <2>2. BalancedAt(i, TRUE, FALSE)
    BY <2>1 DEF RetryFine, Kept, Balanced
  <2>3. QED
    BY <2>2 DEF BalancedAt, Accounted
<1>2. QED
  BY <1>1, RetryStart, RetryStep, PTL DEF RetrySpec

\* Units are lost only by the repeated scripts of a move or of /subtract; and
\* every prepare request is told what its items cost, as long as no
\* luaPrepareCkTxMove is sent again.
THEOREM OnlyMovesAndSubtractsMatter == RetrySpec => []OnlyMovesAndSubtractsLose
<1>1. RetryFine => OnlyMovesAndSubtractsLose
  <2>1. ASSUME Kept(FALSE, FALSE, TRUE), NEW i \in Item PROVE supply[i] <= Accounted(i)
    BY <2>1 DEF Kept, Balanced, BalancedAt, Accounted
  <2>2. Kept(FALSE, TRUE, TRUE) => QuoteIsCost
    BY StockConstants DEF Kept, Priced, PricedAt, QuoteIsCost, Request
  <2>3. QED
    BY <2>1, <2>2 DEF RetryFine, OnlyMovesAndSubtractsLose
<1>2. QED
  BY <1>1, RetryStart, RetryStep, PTL DEF RetrySpec

\* What the coordinator relies on stands any repetition: a record that it may
\* commit holds exactly the items of its request, because a repeated move sets
\* the amount again and does not add to it (stock/lua.go, luaPrepareCkTxMove).
THEOREM RetryHoldsCart == RetrySpec => []AcknowledgedHoldsCart
<1>1. RetryFine => AcknowledgedHoldsCart
  BY DEF RetryFine, Kept, Holds
<1>2. QED
  BY <1>1, RetryStart, RetryStep, PTL DEF RetrySpec

\* A script whose answer is lost moves the state as the script does.
LEMMA LostArrow ==
  ASSUME TypeOK, NEW t \in Tx, txState'[t] # txState[t],
         \/ \E i \in Item, d \in Delta : IncrByIfGe0XXLost(i, d)
         \/ \E r \in PrepareReq :
              \/ PrepareCkTxLost(r) \/ AcknowledgeCkTxLost(r)
              \/ \E i \in Item : PrepareCkTxMoveLost(r, i)
         \/ \E r \in Request :
              AbortCkTxLost(r) \/ \E i \in Item : AbortCkTxRollbackLost(r, i)
  PROVE  Arrow(txState[t], txState'[t])
<1> USE DEF TypeOK
<1>1. ASSUME NEW r \in PrepareReq, PrepareCkTxLost(r) PROVE Arrow(txState[t], txState'[t])
  BY <1>1 DEF PrepareCkTxLost, TakeOver, Arrow
<1>2. ASSUME NEW r \in PrepareReq, AcknowledgeCkTxLost(r) PROVE Arrow(txState[t], txState'[t])
  BY <1>2 DEF AcknowledgeCkTxLost, StillPreparing, Arrow
<1>3. ASSUME NEW r \in PrepareReq, NEW i \in Item, PrepareCkTxMoveLost(r, i)
      PROVE  Arrow(txState[t], txState'[t])
  BY <1>3 DEF PrepareCkTxMoveLost
<1>4. ASSUME NEW r \in Request, AbortCkTxLost(r) PROVE Arrow(txState[t], txState'[t])
  BY <1>4 DEF AbortCkTxLost, MustRollBack, Arrow
<1>5. ASSUME NEW r \in Request, NEW i \in Item, AbortCkTxRollbackLost(r, i)
      PROVE  Arrow(txState[t], txState'[t])
  BY <1>5 DEF AbortCkTxRollbackLost
<1>6. ASSUME NEW i \in Item, NEW d \in Delta, IncrByIfGe0XXLost(i, d)
      PROVE  Arrow(txState[t], txState'[t])
  BY <1>6 DEF IncrByIfGe0XXLost, lockVars
<1>7. QED
  BY <1>1, <1>2, <1>3, <1>4, <1>5, <1>6

\* Nor does a record leave the arrows of its states: what a repeated script finds
\* is its own result, and it leaves that alone.
THEOREM RetryLifecycle == RetrySpec => StockLifecycle
<1>1. RetryFine /\ [RetryNext]_retryVars =>
        [\A t \in Tx : txState'[t] # txState[t] => Arrow(txState[t], txState'[t])]_txState
  <2>1. SUFFICES ASSUME RetryFine, [RetryNext]_retryVars, NEW t \in Tx, txState'[t] # txState[t]
                 PROVE  Arrow(txState[t], txState'[t])
    OBVIOUS
  <2>2. TypeOK
    BY <2>1 DEF RetryFine, Kept, Typed
  <2>3. CASE [Next]_vars
    BY <2>1, <2>2, <2>3, ArrowStep
  <2>4. CASE ~[Next]_vars
    BY <2>1, <2>2, <2>4, LostArrow DEF RetryNext, retryVars
  <2>5. QED
    BY <2>3, <2>4
<1>2. QED
  BY <1>1, RetryStart, RetryStep, PTL DEF RetrySpec, StockLifecycle

-----------------------------------------------------------------------------
(* Nobody waits for nobody                                                 *)

\* A record that is being prepared has a handler that prepares it, which is what
\* a duplicate waits for; it dies before it is done only if handlers fail.
OwnedAt(t) ==
  txState[t] = TxPreparing /\ ~Failures =>
    \E r \in Request : TxOf[r] = t /\ pc[r] \in {"move", "abort"}

Owned == \A t \in Tx : OwnedAt(t)

\* At the start nothing is being prepared.
LEMMA OwnedInit == Init => Owned
BY StatesDiffer DEF Init, Owned, OwnedAt

\* Whoever takes a record over begins to move, and stops moving or aborting only
\* when the record is no longer being prepared.
LEMMA OwnedStep == Typed /\ Owned /\ [Next]_vars => Owned'
<1> SUFFICES ASSUME Typed, Owned, [Next]_vars, NEW u \in Tx,
                    txState'[u] = TxPreparing, ~Failures
             PROVE  \E r \in Request : TxOf[r] = u /\ pc'[r] \in {"move", "abort"}
  BY DEF Owned, OwnedAt
<1>0. OwnedAt(u)
  BY DEF Owned
<1> USE StatesDiffer DEF Typed, TypeOK, Goto
<1>1. CASE CommitCkTx(u)
  BY <1>1 DEF CommitCkTx
<1>2. ASSUME NEW r \in Request, TxOf[r] = u, Step(r)
      PROVE  \E s \in Request : TxOf[s] = u /\ pc'[s] \in {"move", "abort"}
  <2>0. \A s \in Request \ {r} : pc'[s] = pc[s]
    BY <1>2, StepIsLocal
  <2>1. CASE PrepareCkTx(r) /\ txState[u] = TxNone
    BY <1>2, <2>1 DEF PrepareCkTx
  <2>2. CASE /\ txState[u] = TxPreparing
             /\ pc[r] \in {"move", "abort"} => pc'[r] \in {"move", "abort"}
    BY <1>0, <2>0, <2>2 DEF OwnedAt
  <2>3. CASE PrepareCkTx(r) /\ txState[u] # TxNone
    BY <1>2, <2>2, <2>3 DEF PrepareCkTx, lockVars
  <2>4. CASE WaitPrepared(r) \/ WaitTimeout(r) \/ ReadPrice(r) \/ HScan(r)
    BY <1>2, <2>2, <2>4 DEF WaitPrepared, WaitTimeout, ReadPrice, HScan, lockVars
  <2>5. CASE \E i \in Item : PrepareCkTxMove(r, i)
    BY <1>2, <2>2, <2>5 DEF PrepareCkTxMove, StillPreparing
  <2>6. CASE AcknowledgeCkTx(r)
    BY <1>2, <2>2, <2>6 DEF AcknowledgeCkTx, StillPreparing
  <2>7. CASE AbortCkTx(r)
    BY <1>2, <2>7 DEF AbortCkTx
  <2>8. CASE \E i \in Item : AbortCkTxRollback(r, i)
    BY <1>2, <2>2, <2>8 DEF AbortCkTxRollback, InPage
  <2>9. CASE Fail(r)
    BY <2>9 DEF Fail
  <2>10. QED
    BY <1>2, <2>1, <2>3, <2>4, <2>5, <2>6, <2>7, <2>8, <2>9 DEF Step
<1>3. CASE ~CommitCkTx(u) /\ \A r \in Request : TxOf[r] = u => ~Step(r)
  BY <1>0, <1>3, OthersUntouched DEF Untouched, OwnedAt
<1>4. QED
  BY <1>1, <1>2, <1>3

\* What may be missing when scripts are repeated: the owner of a record that was
\* taken over twice, the roller of one that was aborted or rolled back twice.
Attended ==
  /\ "prepare" \notin repeated => Owned
  /\ repeated \cap {"abort", "rollback"} = {} => Rolling

\* At the start no record needs a handler.
LEMMA AttendedInit == RetryInit => Attended
BY OwnedInit, RollingInit DEF RetryInit, Attended

\* A record that is and stays before its abort has no rollback to disturb.
LEMMA RollingBefore ==
  ASSUME Rolling, UNCHANGED reqVars, NEW t \in Tx,
         txState[t] # TxAborted, txState'[t] \in {TxPreparing, TxAcknowledged},
         \A u \in Tx \ {t} : locked'[u] = locked[u] /\ txState'[u] = txState[u]
  PROVE  Rolling'
<1> SUFFICES ASSUME NEW u \in Tx PROVE RollingAt(u)'
  BY DEF Rolling
<1>0. RollingAt(u) /\ UNCHANGED <<pc, todo>>
  BY DEF Rolling, reqVars
<1>1. CASE u = t
  <2>1. \A r \in Request : TxOf[r] = u => ~Roller(r) /\ ~Roller(r)'
    BY <1>0, <1>1 DEF RollingAt, Roller
  <2>2. QED
    BY <1>1, <2>1, StatesDiffer DEF RollingAt, Roller
<1>2. CASE u # t
  BY <1>0, <1>2 DEF RollingAt, Roller, InPage, Fields
<1>3. QED
  BY <1>1, <1>2

\* A script whose answer is lost moves no handler: it takes a record out of the
\* preparation, or leaves its state.
LEMMA AttendedStep ==
  Typed /\ Attended /\ [RetryNext]_retryVars => Attended'
<1> SUFFICES ASSUME Typed, Attended, [RetryNext]_retryVars PROVE Attended'
  OBVIOUS
<1> USE StockConstants, StatesDiffer DEF Typed, TypeOK
<1>1. CASE UNCHANGED retryVars \/ (Next /\ UNCHANGED <<repeats, repeated>>)
  BY <1>1, OwnedStep, RollingStep DEF Attended, retryVars
<1>2. ASSUME NEW r \in PrepareReq, PrepareCkTxLost(r) PROVE Attended'
  <2>1. /\ "prepare" \in repeated' /\ repeated \subseteq repeated' /\ UNCHANGED reqVars
        /\ txState[TxOf[r]] = TxNone /\ txState' = [txState EXCEPT ![TxOf[r]] = TxPreparing]
        /\ locked' = [locked EXCEPT ![TxOf[r]] = [i \in Item |-> 0]]
    BY <1>2 DEF PrepareCkTxLost, TakeOver, AnswerLost
  <2>2. Rolling => Rolling'
    BY <2>1, RollingBefore DEF Request
  <2>3. QED
    BY <2>1, <2>2 DEF Attended
<1>3. ASSUME NEW r \in PrepareReq, AcknowledgeCkTxLost(r) PROVE Attended'
  <2>1. /\ repeated \subseteq repeated' /\ UNCHANGED <<reqVars, locked>>
        /\ txState[TxOf[r]] = TxPreparing
        /\ txState' = [txState EXCEPT ![TxOf[r]] = TxAcknowledged]
    BY <1>3 DEF AcknowledgeCkTxLost, StillPreparing, AnswerLost
  <2>2. Owned => Owned'
    BY <2>1 DEF Owned, OwnedAt, reqVars
  <2>3. Rolling => Rolling'
    BY <2>1, RollingBefore DEF Request
  <2>4. QED
    BY <2>1, <2>2, <2>3 DEF Attended
<1>4. ASSUME NEW r \in PrepareReq, NEW i \in Item, PrepareCkTxMoveLost(r, i) PROVE Attended'
  <2>1. /\ repeated \subseteq repeated' /\ UNCHANGED <<reqVars, txState>>
        /\ txState[TxOf[r]] = TxPreparing
        /\ \A u \in Tx \ {TxOf[r]} : locked'[u] = locked[u]
    BY <1>4 DEF PrepareCkTxMoveLost, Move, StillPreparing, AnswerLost
  <2>2. Owned => Owned'
    BY <2>1 DEF Owned, OwnedAt, reqVars
  <2>3. Rolling => Rolling'
    BY <2>1, RollingBefore DEF Request
  <2>4. QED
    BY <2>1, <2>2, <2>3 DEF Attended
<1>5. ASSUME NEW r \in Request, AbortCkTxLost(r) PROVE Attended'
  <2>1. /\ "abort" \in repeated' /\ repeated \subseteq repeated' /\ UNCHANGED pc
        /\ txState' = [txState EXCEPT ![TxOf[r]] = TxAborted]
    BY <1>5 DEF AbortCkTxLost, AnswerLost, reqVars
  <2>2. Owned => Owned'
    BY <2>1 DEF Owned, OwnedAt
  <2>3. QED
    BY <2>1, <2>2 DEF Attended
<1>6. ASSUME NEW r \in Request, NEW i \in Item, AbortCkTxRollbackLost(r, i) PROVE Attended'
  <2>1. "rollback" \in repeated' /\ repeated \subseteq repeated' /\ UNCHANGED <<pc, txState>>
    BY <1>6 DEF AbortCkTxRollbackLost, AnswerLost, reqVars
  <2>2. Owned => Owned'
    BY <2>1 DEF Owned, OwnedAt
  <2>3. QED
    BY <2>1, <2>2 DEF Attended
<1>7. ASSUME NEW i \in Item, NEW d \in Delta, IncrByIfGe0XXLost(i, d) PROVE Attended'
  <2>1. repeated \subseteq repeated' /\ UNCHANGED <<pc, todo, txState, locked>>
    BY <1>7 DEF IncrByIfGe0XXLost, AnswerLost, reqVars, lockVars
  <2>2. (Owned => Owned') /\ (Rolling => Rolling')
    BY <2>1 DEF Owned, OwnedAt, Rolling, RollingAt, Roller, Fields
  <2>3. QED
    BY <2>1, <2>2 DEF Attended
<1>8. QED
  BY <1>1, <1>2, <1>3, <1>4, <1>5, <1>6, <1>7 DEF RetryNext

\* No repetition but that of the script that takes a record over leaves a
\* duplicate waiting for an owner that is not there; none but those of the
\* abort and of its rollback leaves items in an aborted record that nobody is
\* giving back.  It is what OnlyRepeatedPreparesHang and OnlyRepeatedAbortsStrand
\* need besides fairness.
THEOREM OnlyRepeatsAbandon ==
  ASSUME ~Failures
  PROVE  RetrySpec => [](\A t \in Tx :
           /\ txState[t] = TxPreparing =>
                \/ "prepare" \in repeated
                \/ \E r \in Request : TxOf[r] = t /\ pc[r] \in {"move", "abort"}
           /\ txState[t] = TxAborted =>
                \/ repeated \cap {"abort", "rollback"} # {}
                \/ Fields(t) = {}
                \/ \E r \in Request : TxOf[r] = t /\ Roller(r))
<1> DEFINE Looked ==
      \A t \in Tx :
        /\ txState[t] = TxPreparing =>
             \/ "prepare" \in repeated
             \/ \E r \in Request : TxOf[r] = t /\ pc[r] \in {"move", "abort"}
        /\ txState[t] = TxAborted =>
             \/ repeated \cap {"abort", "rollback"} # {}
             \/ Fields(t) = {}
             \/ \E r \in Request : TxOf[r] = t /\ Roller(r)
<1>1. ASSUME ~Failures, Attended PROVE Looked
  <2>1. ASSUME NEW t \in Tx, txState[t] = TxPreparing, "prepare" \notin repeated
        PROVE  \E r \in Request : TxOf[r] = t /\ pc[r] \in {"move", "abort"}
    BY <1>1, <2>1 DEF Attended, Owned, OwnedAt
  <2>2. ASSUME NEW t \in Tx, txState[t] = TxAborted, Fields(t) # {},
               repeated \cap {"abort", "rollback"} = {}
        PROVE  \E r \in Request : TxOf[r] = t /\ Roller(r)
    BY <1>1, <2>2 DEF Attended, Rolling, RollingAt
  <2>3. QED
    BY <2>1, <2>2
<1>2. RetryFine => Typed
  BY DEF RetryFine, Kept
<1> HIDE DEF Looked
<1>3. ASSUME ~Failures PROVE RetrySpec => []Looked
  <2>1. Attended => Looked
    BY <1>1, <1>3
  <2>2. QED
    BY <1>2, <2>1, AttendedInit, AttendedStep, RetryStart, RetryStep, PTL DEF RetrySpec
<1>4. QED
  BY <1>3 DEF Looked

=============================================================================
