-------------------------- MODULE PaymentTxProofs --------------------------
(***************************************************************************)
(* Proofs about PaymentTx, for every set of users, transactions and        *)
(* requests.  What an abort that has ended leaves behind is proved of the  *)
(* transactions that are aborted only after the answer of their prepare    *)
(* request (those not in EarlyAbort); the run payment_race shows that they *)
(* need that.  That no money is lost or made, and that credit is held      *)
(* exactly by acknowledged transactions, is proved of all of them.         *)
(***************************************************************************)
EXTENDS PaymentTx, SumProofs

\* The five states are different from each other.
LEMMA StatesDiffer ==
  /\ TxState = {TxNone, TxPreparing, TxAcknowledged, TxCommitted, TxAborted}
  /\ TxNone # TxPreparing /\ TxNone # TxAcknowledged /\ TxNone # TxCommitted
  /\ TxNone # TxAborted /\ TxPreparing # TxAcknowledged /\ TxPreparing # TxCommitted
  /\ TxPreparing # TxAborted /\ TxAcknowledged # TxCommitted
  /\ TxAcknowledged # TxAborted /\ TxCommitted # TxAborted
BY DEF TxState, TxNone, TxPreparing, TxAcknowledged, TxCommitted, TxAborted

\* Every step of the service is one of these.
LEMMA Steps ==
  [Next]_vars =>
    \/ \E u \in User : CreateUser(u) \/ \E d \in Delta : IncrByIfGe0XX(u, d)
    \/ \E r \in PrepareReq : MayPrepare(r) /\ PrepareCkTx(r, Cost[TxOf[r]])
    \/ \E r \in AbortReq : MayAbort(r) /\ HGetAll(r)
    \/ \E r \in AbortReq : SetAborted(r) \/ AbtThenRollback(r) \/ Fail(r)
    \/ \E t \in Tx : MayCommit(t) /\ CommitCkTx(t)
    \/ UNCHANGED vars
BY DEF Next, Proceed

-----------------------------------------------------------------------------
(* Type correctness                                                        *)

\* An acknowledged transaction has a hash: what is given back is a number.
HashKept == \A t \in Tx : txState[t] = TxAcknowledged => held[t] \in Nat

Typed == TypeOK /\ HashKept

\* The three ways in which preparing ends.
LEMMA PrepareCases ==
  ASSUME NEW r \in PrepareReq, PrepareCkTx(r, Cost[TxOf[r]])
  PROVE  LET t == TxOf[r] IN
         /\ pc[r] = "idle" /\ UNCHANGED <<known, funds>>
         /\ \/ pc' = [pc EXCEPT ![r] = RepeatAnswer(txState[t])]
               /\ UNCHANGED <<credit, txState, held>>
            \/ /\ txState[t] = TxNone
               /\ txState' = [txState EXCEPT ![t] = TxAborted]
               /\ pc' = [pc EXCEPT ![r] = "rejected"] /\ UNCHANGED <<credit, held>>
            \/ /\ txState[t] = TxNone /\ Affordable(t, Cost[t])
               /\ credit' = [credit EXCEPT ![PayerOf[t]] = @ - Cost[t]]
               /\ held' = [held EXCEPT ![t] = Cost[t]]
               /\ txState' = [txState EXCEPT ![t] = TxAcknowledged]
               /\ pc' = [pc EXCEPT ![r] = "ok"]
BY DEF PrepareCkTx, Decided, Goto

\* The keys have their types at the start.
LEMMA TypedInit == Init => Typed
<1> SUFFICES ASSUME Init PROVE Typed
  OBVIOUS
<1>1. known \subseteq User /\ credit \in [User -> Nat] /\ funds \in [User -> Int]
  BY PaymentConstants DEF Init
<1>2. /\ txState \in [Tx -> TxState \ {TxPreparing}]
      /\ \A t \in Tx : txState[t] # TxAcknowledged
  BY StatesDiffer DEF Init
<1>3. held \in [Tx -> Nat \cup {NoHold}]
      /\ pc \in [Request -> {"idle", "setAborted", "rollback", "stopped"} \cup Answered]
  BY DEF Init
<1>4. QED
  BY <1>1, <1>2, <1>3 DEF Typed, TypeOK, HashKept

\* Every step keeps them: credit is decremented only as far as it was tested.
LEMMA TypedStep == Typed /\ [Next]_vars => Typed'
<1> SUFFICES ASSUME Typed, [Next]_vars PROVE Typed'
  OBVIOUS
<1> USE PaymentConstants, StatesDiffer DEF Typed, TypeOK, HashKept, Answered, Goto, Request
<1>0. CASE UNCHANGED vars
  BY <1>0 DEF vars, userVars
<1>1. ASSUME NEW u \in User, CreateUser(u) PROVE Typed'
  BY <1>1 DEF CreateUser
<1>2. ASSUME NEW u \in User, NEW d \in Delta, IncrByIfGe0XX(u, d) PROVE Typed'
  BY <1>2 DEF IncrByIfGe0XX
<1>3. ASSUME NEW r \in PrepareReq, PrepareCkTx(r, Cost[TxOf[r]]) PROVE Typed'
  <2> DEFINE t == TxOf[r]
  <2>1. CASE pc' = [pc EXCEPT ![r] = RepeatAnswer(txState[t])]
             /\ UNCHANGED <<credit, txState, held>>
    BY <1>3, <2>1, PrepareCases DEF RepeatAnswer
  <2>2. CASE /\ txState' = [txState EXCEPT ![t] = TxAborted]
             /\ pc' = [pc EXCEPT ![r] = "rejected"] /\ UNCHANGED <<credit, held>>
    BY <1>3, <2>2, PrepareCases
  <2>3. CASE /\ Affordable(t, Cost[t])
             /\ credit' = [credit EXCEPT ![PayerOf[t]] = @ - Cost[t]]
             /\ held' = [held EXCEPT ![t] = Cost[t]]
             /\ txState' = [txState EXCEPT ![t] = TxAcknowledged]
             /\ pc' = [pc EXCEPT ![r] = "ok"]
    <3>1. credit' \in [User -> Nat]
      BY <2>3 DEF Affordable
    <3>2. QED
      BY <1>3, <2>3, <3>1, PrepareCases
  <2>4. QED
    BY <1>3, <2>1, <2>2, <2>3, PrepareCases
<1>4. ASSUME NEW r \in AbortReq, HGetAll(r) PROVE Typed'
  BY <1>4 DEF HGetAll, userVars
<1>5. ASSUME NEW r \in AbortReq, SetAborted(r) PROVE Typed'
  BY <1>5 DEF SetAborted, userVars
<1>6. ASSUME NEW r \in AbortReq, AbtThenRollback(r) PROVE Typed'
  <2> DEFINE t == TxOf[r]
  <2>1. pc' \in [Request -> {"idle", "setAborted", "rollback", "stopped"} \cup Answered]
        /\ UNCHANGED <<known, funds>>
    BY <1>6 DEF AbtThenRollback
  <2>2. txState' \in [Tx -> TxState \ {TxPreparing}]
    BY <1>6 DEF AbtThenRollback
  <2>3. CASE txState[t] = TxAcknowledged
    <3>1. credit' = [credit EXCEPT ![PayerOf[t]] = @ + held[t]]
          /\ held' = [held EXCEPT ![t] = NoHold]
          /\ txState' = [txState EXCEPT ![t] = TxAborted]
      BY <1>6, <2>3 DEF AbtThenRollback
    <3>2. QED
      BY <2>1, <2>2, <2>3, <3>1
  <2>4. CASE txState[t] # TxAcknowledged
    <3>1. UNCHANGED <<credit, held>>
      BY <1>6, <2>4 DEF AbtThenRollback
    <3>2. \A u \in Tx : txState'[u] = TxAcknowledged => txState[u] = TxAcknowledged
      BY <1>6, <2>4 DEF AbtThenRollback
    <3>3. QED
      BY <2>1, <2>2, <3>1, <3>2
  <2>5. QED
    BY <2>3, <2>4
<1>7. ASSUME NEW r \in AbortReq, Fail(r) PROVE Typed'
  BY <1>7 DEF Fail, userVars
<1>8. ASSUME NEW t \in Tx, CommitCkTx(t) PROVE Typed'
  BY <1>8 DEF CommitCkTx, userVars
<1>9. QED
  BY <1>0, <1>1, <1>2, <1>3, <1>4, <1>5, <1>6, <1>7, <1>8, Steps

\* TypeOK holds in every state: in particular no credit is ever negative,
\* whatever transactions, aborts and payments contend for it.
THEOREM TypeCorrect == Spec => []TypeOK
<1>1. QED
  BY TypedInit, TypedStep, PTL DEF Spec, Typed

-----------------------------------------------------------------------------
(* The hash                                                                *)

\* The hash is there exactly while the transaction is acknowledged, and no abort
\* request comes to a committed one.
BookedAt(t) ==
  /\ held[t] = IF txState[t] = TxAcknowledged THEN Cost[t] ELSE NoHold
  /\ txState[t] = TxCommitted => ~AbortArrived(t)

Booked == \A t \in Tx : BookedAt(t)

\* At the start nothing is held.
LEMMA BookedInit == Init => Booked
BY StatesDiffer DEF Init, Booked, BookedAt

\* What a handler of transaction t leaves alone.
LEMMA Local ==
  ASSUME Typed, NEW r \in Request,
         \/ r \in PrepareReq /\ PrepareCkTx(r, Cost[TxOf[r]])
         \/ HGetAll(r) \/ SetAborted(r) \/ AbtThenRollback(r) \/ Fail(r)
  PROVE  /\ funds' = funds
         /\ \A t \in Tx \ {TxOf[r]} : txState'[t] = txState[t] /\ held'[t] = held[t]
         /\ \A s \in Request \ {r} : pc'[s] = pc[s]
<1> USE PaymentConstants DEF Typed, TypeOK, Goto
<1>1. CASE r \in PrepareReq /\ PrepareCkTx(r, Cost[TxOf[r]])
  BY <1>1, PrepareCases
<1>2. CASE HGetAll(r) \/ SetAborted(r) \/ Fail(r)
  BY <1>2 DEF HGetAll, SetAborted, Fail, userVars
<1>3. CASE AbtThenRollback(r)
  BY <1>3 DEF AbtThenRollback
<1>4. QED
  BY <1>1, <1>2, <1>3

\* The other transactions stay booked.
LEMMA BookedElsewhere ==
  ASSUME Booked, NEW r \in Request, NEW t \in Tx, TxOf[r] # t,
         txState'[t] = txState[t], held'[t] = held[t],
         \A s \in Request \ {r} : pc'[s] = pc[s]
  PROVE  BookedAt(t)'
<1>1. AbortArrived(t)' => AbortArrived(t)
  BY DEF AbortArrived, Request
<1>2. QED
  BY <1>1 DEF Booked, BookedAt

\* Every step keeps the books.
LEMMA BookedStep == Typed /\ Booked /\ [Next]_vars => Booked'
<1> SUFFICES ASSUME Typed, Booked, [Next]_vars, NEW t \in Tx PROVE BookedAt(t)'
  BY DEF Booked
<1> BookedAt(t)
  BY DEF Booked
<1> USE PaymentConstants, StatesDiffer DEF Typed, TypeOK
<1>0. CASE UNCHANGED <<txState, held, pc>>
  BY <1>0 DEF BookedAt, AbortArrived
<1>1. CASE \E u \in User : CreateUser(u) \/ \E d \in Delta : IncrByIfGe0XX(u, d)
  BY <1>0, <1>1 DEF CreateUser, IncrByIfGe0XX
<1>2. ASSUME NEW r \in PrepareReq, PrepareCkTx(r, Cost[TxOf[r]]) PROVE BookedAt(t)'
  <2>0. r \in Request
    BY DEF Request
  <2>1. CASE TxOf[r] # t
    BY <1>2, <2>0, <2>1, Local, BookedElsewhere
  <2>2. CASE TxOf[r] = t
    <3>1. AbortArrived(t)' = AbortArrived(t)
      BY <1>2, <2>0, Local DEF AbortArrived, Request
    <3>2. \/ UNCHANGED <<txState, held>>
          \/ txState[t] = TxNone /\ txState'[t] = TxAborted /\ held' = held
          \/ txState'[t] = TxAcknowledged /\ held'[t] = Cost[t]
      BY <1>2, <2>2, PrepareCases
    <3>3. QED
      BY <3>1, <3>2 DEF BookedAt
  <2>3. QED
    BY <2>1, <2>2
<1>3. ASSUME NEW r \in AbortReq, MayAbort(r), HGetAll(r) PROVE BookedAt(t)'
  <2>0. r \in Request
    BY DEF Request
  <2>1. CASE TxOf[r] # t
    BY <1>3, <2>0, <2>1, Local, BookedElsewhere
  <2>2. CASE TxOf[r] = t
    <3>1. txState[t] # TxCommitted /\ UNCHANGED <<txState, held>>
      BY <1>3, <2>2 DEF MayAbort, HGetAll
    <3>2. QED
      BY <3>1 DEF BookedAt
  <2>3. QED
    BY <2>1, <2>2
<1>4. ASSUME NEW r \in AbortReq, SetAborted(r) \/ AbtThenRollback(r) \/ Fail(r)
      PROVE  BookedAt(t)'
  <2>0. r \in Request
    BY DEF Request
  <2>1. CASE TxOf[r] # t
    BY <1>4, <2>0, <2>1, Local, BookedElsewhere
  <2>2. CASE TxOf[r] = t
    <3>1. pc[r] # "idle"
      BY <1>4 DEF SetAborted, AbtThenRollback, Fail
    <3>2. AbortArrived(t)
      BY <2>2, <3>1 DEF AbortArrived
    <3>3. txState[t] # TxCommitted
      BY <3>2 DEF BookedAt
    <3>4. \/ txState'[t] = TxAborted /\ held'[t] = NoHold
          \/ txState'[t] = txState[t] /\ held'[t] = held[t]
      <4>1. CASE SetAborted(r)
        BY <4>1 DEF SetAborted
      <4>2. CASE AbtThenRollback(r)
        BY <2>2, <4>2 DEF AbtThenRollback, BookedAt
      <4>3. CASE Fail(r)
        BY <4>3 DEF Fail
      <4>4. QED
        BY <1>4, <4>1, <4>2, <4>3
    <3>5. QED
      BY <3>3, <3>4 DEF BookedAt
  <2>3. QED
    BY <2>1, <2>2
<1>5. ASSUME NEW u \in Tx, MayCommit(u), CommitCkTx(u) PROVE BookedAt(t)'
  <2>1. AbortArrived(t)' = AbortArrived(t)
    BY <1>5 DEF CommitCkTx, AbortArrived
  <2>2. CASE u = t
    BY <1>5, <2>1, <2>2 DEF CommitCkTx, MayCommit, BookedAt
  <2>3. CASE u # t
    BY <1>5, <2>1, <2>3 DEF CommitCkTx, BookedAt
  <2>4. QED
    BY <2>2, <2>3
<1>6. QED
  BY <1>0, <1>1, <1>2, <1>3, <1>4, <1>5, Steps DEF vars

\* No transaction keeps money that is not acknowledged, also when its abort has
\* come early, two aborts race or a handler stops between its two commands.
THEOREM HashIsHold == Spec => []HeldIffAcknowledged
<1>1. Typed /\ Booked /\ [Next]_vars => Typed' /\ Booked'
  BY TypedStep, BookedStep
<1>2. Booked => HeldIffAcknowledged
  BY DEF Booked, BookedAt, HeldIffAcknowledged
<1>3. QED
  BY <1>1, <1>2, TypedInit, BookedInit, PTL DEF Spec

\* A record moves along the arrows of common/transaction.go:11-19 only.
THEOREM Lifecycle == Spec => PaymentLifecycle
<1>1. ASSUME Typed, [Next]_vars, NEW t \in Tx, txState'[t] # txState[t]
      PROVE  \/ Arrow(txState[t], txState'[t])
             \/ txState[t] = TxNone /\ txState'[t] = TxAcknowledged
  <2> USE PaymentConstants, StatesDiffer DEF Typed, TypeOK, Request, Arrow
  <2>1. ASSUME NEW r \in PrepareReq, PrepareCkTx(r, Cost[TxOf[r]])
        PROVE  txState[t] = TxNone /\ txState'[t] \in {TxAcknowledged, TxAborted}
    BY <1>1, <2>1, PrepareCases
  <2>2. ASSUME NEW r \in AbortReq, AbtThenRollback(r)
        PROVE  txState[t] \in {TxNone, TxAcknowledged} /\ txState'[t] = TxAborted
    BY <1>1, <2>2 DEF AbtThenRollback
  <2>3. ASSUME NEW u \in Tx, CommitCkTx(u)
        PROVE  txState[t] = TxAcknowledged /\ txState'[t] = TxCommitted
    BY <1>1, <2>3 DEF CommitCkTx
  <2>4. \/ \E r \in PrepareReq : PrepareCkTx(r, Cost[TxOf[r]])
        \/ \E r \in AbortReq : AbtThenRollback(r)
        \/ \E u \in Tx : CommitCkTx(u)
    <3>1. ASSUME UNCHANGED txState PROVE FALSE
      BY <1>1, <3>1
    <3>2. ~(\E u \in User : CreateUser(u) \/ \E d \in Delta : IncrByIfGe0XX(u, d))
      BY <3>1 DEF CreateUser, IncrByIfGe0XX
    <3>3. ~(UNCHANGED vars \/ \E r \in AbortReq : HGetAll(r) \/ SetAborted(r) \/ Fail(r))
      BY <3>1 DEF HGetAll, SetAborted, Fail, vars
    <3>4. QED
      BY <1>1, <3>2, <3>3, Steps
  <2>5. \/ txState[t] = TxNone /\ txState'[t] \in {TxAcknowledged, TxAborted}
        \/ txState[t] = TxAcknowledged /\ txState'[t] \in {TxCommitted, TxAborted}
    BY <2>1, <2>2, <2>3, <2>4
  <2>6. QED
    BY <2>5
<1>2. Typed /\ [Next]_vars =>
        [\A t \in Tx : txState'[t] # txState[t] =>
           \/ Arrow(txState[t], txState'[t])
           \/ txState[t] = TxNone /\ txState'[t] = TxAcknowledged]_txState
  BY <1>1
<1>3. QED
  BY <1>2, TypedInit, TypedStep, PTL DEF Spec, PaymentLifecycle

-----------------------------------------------------------------------------
(* Aborts that follow the answer of the prepare request                    *)

\* What a handler that has read the hash still finds, and what it has left.
AbortAt(r) ==
  /\ pc[r] = "rollback" => txState[TxOf[r]] \in {TxAcknowledged, TxAborted}
  /\ pc[r] \in {"setAborted", "ok", "failed"} => txState[TxOf[r]] \in {TxNone, TxAborted}

Aborts == \A r \in AbortReq : TxOf[r] \notin EarlyAbort => AbortAt(r)

\* At the start no abort has arrived.
LEMMA AbortsInit == Init => Aborts
BY PaymentConstants DEF Init, Aborts, AbortAt, Request

\* Nothing takes an aborted transaction back, nor one whose abort request has
\* found no hash: its prepare request has been answered before, or never comes.
LEMMA AbortsStep ==
  ASSUME Typed, Booked, Aborts, [Next]_vars PROVE Aborts'
<1> USE PaymentConstants, StatesDiffer DEF Request, Aborts, AbortAt, Typed, TypeOK, Goto
<1>0. CASE UNCHANGED <<txState, pc>>
  BY <1>0
<1>1. ASSUME NEW u \in User, CreateUser(u) \/ \E d \in Delta : IncrByIfGe0XX(u, d)
      PROVE  Aborts'
  BY <1>0, <1>1 DEF CreateUser, IncrByIfGe0XX
<1>2. ASSUME NEW r \in PrepareReq, MayPrepare(r), PrepareCkTx(r, Cost[TxOf[r]])
      PROVE  Aborts'
  <2>1. \A a \in AbortReq :
          /\ pc'[a] = pc[a]
          /\ TxOf[a] = TxOf[r] /\ TxOf[a] \notin EarlyAbort => pc[a] = "idle"
    BY <1>2, PrepareCases DEF MayPrepare, AbortArrived
  <2>2. \A t \in Tx : t # TxOf[r] => txState'[t] = txState[t]
    BY <1>2, PrepareCases
  <2>3. QED
    BY <2>1, <2>2
<1>3. ASSUME NEW r \in AbortReq, MayAbort(r), HGetAll(r) PROVE Aborts'
  <2>1. \/ pc' = [pc EXCEPT ![r] = "rollback"] /\ held[TxOf[r]] # NoHold
        \/ pc' = [pc EXCEPT ![r] = "setAborted"] /\ held[TxOf[r]] = NoHold
    BY <1>3 DEF HGetAll
  <2>2. /\ txState' = txState /\ txState[TxOf[r]] \in {TxNone, TxAcknowledged, TxAborted}
        /\ (held[TxOf[r]] # NoHold) = (txState[TxOf[r]] = TxAcknowledged)
    BY <1>3 DEF HGetAll, MayAbort, Booked, BookedAt, NoHold
  <2>3. QED
    BY <2>1, <2>2
<1>4. ASSUME NEW r \in AbortReq, SetAborted(r) PROVE Aborts'
  BY <1>4 DEF SetAborted
<1>5. ASSUME NEW r \in AbortReq, AbtThenRollback(r) PROVE Aborts'
  <2> DEFINE t == TxOf[r]
  <2>1. \A a \in AbortReq : a # r => pc'[a] = pc[a]
    BY <1>5 DEF AbtThenRollback
  <2>2. \A u \in Tx : u # t => txState'[u] = txState[u]
    BY <1>5 DEF AbtThenRollback
  <2>3. CASE t \in EarlyAbort
    BY <2>1, <2>2, <2>3
  <2>4. CASE t \notin EarlyAbort
    <3>1. txState[t] \in {TxAcknowledged, TxAborted} /\ t \in Tx
      BY <1>5, <2>4 DEF AbtThenRollback
    <3>2. txState' = [txState EXCEPT ![t] = TxAborted]
      BY <1>5, <3>1 DEF AbtThenRollback
    <3>3. QED
      BY <2>1, <2>2, <3>1, <3>2
  <2>5. QED
    BY <2>3, <2>4
<1>6. ASSUME NEW r \in AbortReq, Fail(r) PROVE Aborts'
  BY <1>6 DEF Fail
<1>7. ASSUME NEW t \in Tx, MayCommit(t), CommitCkTx(t) PROVE Aborts'
  BY <1>7 DEF CommitCkTx, MayCommit, AbortArrived
<1>8. QED
  BY <1>0, <1>1, <1>2, <1>3, <1>4, <1>5, <1>6, <1>7, Steps DEF vars

\* An abort that follows the answer of its prepare request and has been answered,
\* 200 or 500, leaves no credit behind, then or later: what AlreadyRolledBack
\* says of all aborts, and payment_race refutes of those that come early.
THEOREM AnsweredIsRolledBack ==
  Spec => [](\A r \in AbortReq :
               pc[r] \in {"ok", "failed"} /\ TxOf[r] \notin EarlyAbort =>
                 held[TxOf[r]] = NoHold)
<1> DEFINE Left == \A r \in AbortReq :
                     pc[r] \in {"ok", "failed"} /\ TxOf[r] \notin EarlyAbort =>
                       held[TxOf[r]] = NoHold
<1>1. Typed /\ Booked /\ Aborts /\ [Next]_vars => Typed' /\ Booked' /\ Aborts'
  BY TypedStep, BookedStep, AbortsStep
<1>2. Booked /\ Aborts => Left
  BY PaymentConstants, StatesDiffer DEF Booked, BookedAt, Aborts, AbortAt, Request
<1> HIDE DEF Left
<1>3. Spec => []Left
  BY <1>1, <1>2, TypedInit, BookedInit, AbortsInit, PTL DEF Spec
<1>4. QED
  BY <1>3 DEF Left

-----------------------------------------------------------------------------
(* What prepare requests are told                                          *)

\* A prepare request that was answered 200 finds the transaction acknowledged or
\* committed until an abort request comes, one that was refused finds it aborted,
\* and nothing else acknowledges it.
ToldAt(t) ==
  /\ \A r \in PrepareReq : TxOf[r] = t =>
       /\ pc[r] \in {"idle", "ok", "rejected"}
       /\ pc[r] = "ok" => txState[t] \in {TxAcknowledged, TxCommitted} \/ AbortArrived(t)
       /\ pc[r] = "rejected" => txState[t] = TxAborted
  /\ txState[t] \in {TxAcknowledged, TxCommitted} =>
       \E r \in PrepareReq : TxOf[r] = t /\ pc[r] = "ok"

Told == \A t \in Tx : ToldAt(t)

\* At the start nobody has been told anything.
LEMMA ToldInit == Init => Told
BY StatesDiffer DEF Init, Told, ToldAt, Request

\* Nor does a step change that, for the transaction it is about or another one.
LEMMA ToldStep == Typed /\ Told /\ [Next]_vars => Told'
<1> SUFFICES ASSUME Typed, Told, [Next]_vars, NEW t \in Tx PROVE ToldAt(t)'
  BY DEF Told
<1> ToldAt(t)
  BY DEF Told
<1> USE PaymentConstants, StatesDiffer DEF Typed, TypeOK
<1>0. CASE UNCHANGED <<txState, pc>>
  BY <1>0 DEF ToldAt, AbortArrived
<1>1. CASE \E u \in User : CreateUser(u) \/ \E d \in Delta : IncrByIfGe0XX(u, d)
  BY <1>0, <1>1 DEF CreateUser, IncrByIfGe0XX
<1>2. ASSUME NEW r \in Request, TxOf[r] # t,
             txState'[t] = txState[t], \A s \in Request \ {r} : pc'[s] = pc[s]
      PROVE  ToldAt(t)'
  <2>1. AbortArrived(t)' = AbortArrived(t)
    BY <1>2 DEF AbortArrived, Request
  <2>2. QED
    BY <1>2, <2>1 DEF ToldAt, Request
<1>3. ASSUME NEW r \in PrepareReq, PrepareCkTx(r, Cost[TxOf[r]]) PROVE ToldAt(t)'
  <2>0. r \in Request
    BY DEF Request
  <2>1. CASE TxOf[r] # t
    BY <1>2, <1>3, <2>0, <2>1, Local
  <2>2. CASE TxOf[r] = t
    <3>1. AbortArrived(t)' = AbortArrived(t) /\ \A s \in Request \ {r} : pc'[s] = pc[s]
      BY <1>3, <2>0, Local DEF AbortArrived, Request
    <3>2. pc[r] = "idle"
      BY <1>3, PrepareCases
    <3>3. \/ pc'[r] = RepeatAnswer(txState[t]) /\ txState[t] # TxNone /\ txState'[t] = txState[t]
          \/ pc'[r] = "rejected" /\ txState[t] = TxNone /\ txState'[t] = TxAborted
          \/ pc'[r] = "ok" /\ txState[t] = TxNone /\ txState'[t] = TxAcknowledged
      BY <1>3, <2>0, <2>2 DEF PrepareCkTx, Decided, Goto
    <3>4. txState[t] # TxPreparing
      OBVIOUS
    <3>5. \A s \in PrepareReq : s \in Request
      BY DEF Request
    <3>6. QED
      BY <2>2, <3>1, <3>2, <3>3, <3>4, <3>5 DEF ToldAt, RepeatAnswer
  <2>3. QED
    BY <2>1, <2>2
<1>4. ASSUME NEW r \in AbortReq, HGetAll(r) \/ SetAborted(r) \/ AbtThenRollback(r) \/ Fail(r)
      PROVE  ToldAt(t)'
  <2>0. r \in Request /\ \A s \in PrepareReq : s \in Request \ {r}
    BY DEF Request
  <2>1. CASE TxOf[r] # t
    BY <1>2, <1>4, <2>0, <2>1, Local
  <2>2. CASE TxOf[r] = t
    <3>1. \A s \in Request \ {r} : pc'[s] = pc[s]
      BY <1>4, <2>0, Local
    <3>2. pc'[r] # "idle"
      BY <1>4, <2>0 DEF HGetAll, SetAborted, AbtThenRollback, Fail, Goto
    <3>3. AbortArrived(t)'
      BY <2>2, <3>2 DEF AbortArrived
    <3>4. txState'[t] \in {txState[t], TxAborted}
      BY <1>4, <2>2 DEF HGetAll, SetAborted, AbtThenRollback, Fail
    <3>5. QED
      BY <2>0, <3>1, <3>3, <3>4 DEF ToldAt
  <2>3. QED
    BY <2>1, <2>2
<1>5. ASSUME NEW u \in Tx, CommitCkTx(u) PROVE ToldAt(t)'
  <2>1. AbortArrived(t)' = AbortArrived(t) /\ UNCHANGED pc
    BY <1>5 DEF CommitCkTx, AbortArrived
  <2>2. \/ txState'[t] = txState[t]
        \/ txState[t] = TxAcknowledged /\ txState'[t] = TxCommitted
    BY <1>5 DEF CommitCkTx
  <2>3. QED
    BY <2>1, <2>2 DEF ToldAt
<1>6. QED
  BY <1>0, <1>1, <1>3, <1>4, <1>5, Steps DEF vars

-----------------------------------------------------------------------------
(* Conservation                                                            *)

\* What transaction t has taken from user u: it holds it or has been paid it.
HeldFrom(t, u) == IF PayerOf[t] = u /\ held[t] # NoHold THEN held[t] ELSE 0
PaidFrom(t, u) == IF PayerOf[t] = u /\ txState[t] = TxCommitted THEN Cost[t] ELSE 0

\* When one transaction changes, the totals change by what it has taken or given.
LEMMA TotalsChange ==
  ASSUME TypeOK, TypeOK', NEW u \in User, NEW t \in Tx,
         \A s \in Tx \ {t} : held'[s] = held[s] /\ txState'[s] = txState[s]
  PROVE  /\ HeldOf(u)' = HeldOf(u) + HeldFrom(t, u)' - HeldFrom(t, u)
         /\ PaidBy(u)' = PaidBy(u) + PaidFrom(t, u)' - PaidFrom(t, u)
         /\ HeldOf(u) \in Int /\ PaidBy(u) \in Int
         /\ HeldFrom(t, u) \in Int /\ HeldFrom(t, u)' \in Int
         /\ PaidFrom(t, u) \in Int /\ PaidFrom(t, u)' \in Int
<1> DEFINE f == [s \in Tx |-> IF PayerOf[s] = u /\ held[s] # NoHold THEN held[s] ELSE 0]
           g == [s \in Tx |-> IF PayerOf[s] = u /\ txState[s] = TxCommitted THEN Cost[s] ELSE 0]
           f2 == [s \in Tx |-> IF PayerOf[s] = u /\ held'[s] # NoHold THEN held'[s] ELSE 0]
           g2 == [s \in Tx |-> IF PayerOf[s] = u /\ txState'[s] = TxCommitted THEN Cost[s] ELSE 0]
<1>1. \A s \in Tx : f[s] \in Int /\ g[s] \in Int
  BY PaymentConstants DEF TypeOK, NoHold
<1>2. \A s \in Tx : f2[s] \in Int /\ g2[s] \in Int
  BY PaymentConstants DEF TypeOK, NoHold
<1>3. DOMAIN f = Tx /\ DOMAIN g = Tx /\ DOMAIN f2 = Tx /\ DOMAIN g2 = Tx
  OBVIOUS
<1>4. /\ HeldOf(u) = SumFunctionOnSet(f, Tx) /\ PaidBy(u) = SumFunctionOnSet(g, Tx)
      /\ HeldOf(u)' = SumFunctionOnSet(f2, Tx) /\ PaidBy(u)' = SumFunctionOnSet(g2, Tx)
  BY <1>3 DEF HeldOf, PaidBy, SumFunction
<1>5. \A s \in Tx \ {t} : f2[s] = f[s] /\ g2[s] = g[s]
  OBVIOUS
<1>6. /\ HeldFrom(t, u) = f[t] /\ HeldFrom(t, u)' = f2[t]
      /\ PaidFrom(t, u) = g[t] /\ PaidFrom(t, u)' = g2[t]
  BY DEF HeldFrom, PaidFrom
<1> HIDE DEF f, g, f2, g2
<1>7. SumFunctionOnSet(f2, Tx) = SumFunctionOnSet(f, Tx) + f2[t] - f[t]
  BY <1>1, <1>2, <1>5, SumChange, PaymentFinite, Z3
<1>8. SumFunctionOnSet(g2, Tx) = SumFunctionOnSet(g, Tx) + g2[t] - g[t]
  BY <1>1, <1>2, <1>5, SumChange, PaymentFinite, Z3
<1>9. SumFunctionOnSet(f, Tx) \in Int /\ SumFunctionOnSet(g, Tx) \in Int
  BY <1>1, SumType, PaymentFinite
<1>10. QED
  BY <1>1, <1>2, <1>4, <1>6, <1>7, <1>8, <1>9

\* So no money is lost or made when the credit gives what the transaction takes.
LEMMA ConservedByExchange ==
  ASSUME TypeOK, TypeOK', FundsConserved, NEW t \in Tx, funds' = funds,
         \A s \in Tx \ {t} : held'[s] = held[s] /\ txState'[s] = txState[s],
         \A u \in User : credit'[u] + HeldFrom(t, u)' + PaidFrom(t, u)'
                           = credit[u] + HeldFrom(t, u) + PaidFrom(t, u)
  PROVE  FundsConserved'
<1>1. SUFFICES ASSUME NEW u \in User
               PROVE  funds'[u] = credit'[u] + HeldOf(u)' + PaidBy(u)'
  BY DEF FundsConserved
<1>2. /\ HeldOf(u)' = HeldOf(u) + HeldFrom(t, u)' - HeldFrom(t, u)
      /\ PaidBy(u)' = PaidBy(u) + PaidFrom(t, u)' - PaidFrom(t, u)
      /\ HeldOf(u) \in Int /\ PaidBy(u) \in Int
      /\ HeldFrom(t, u) \in Int /\ HeldFrom(t, u)' \in Int
      /\ PaidFrom(t, u) \in Int /\ PaidFrom(t, u)' \in Int
  BY TotalsChange
<1>3. funds'[u] = credit[u] + HeldOf(u) + PaidBy(u)
  BY DEF FundsConserved
<1>4. credit[u] \in Int /\ credit'[u] \in Int
  BY DEF TypeOK
<1>5. credit'[u] + HeldFrom(t, u)' + PaidFrom(t, u)'
        = credit[u] + HeldFrom(t, u) + PaidFrom(t, u)
  OBVIOUS
<1>6. QED
  BY <1>2, <1>3, <1>4, <1>5

\* At the start all money is credit.
LEMMA ConservedInit == Init => FundsConserved
<1>1. SUFFICES ASSUME Init, NEW u \in User
               PROVE  funds[u] = credit[u] + HeldOf(u) + PaidBy(u)
  BY DEF FundsConserved
<1> DEFINE f == [t \in Tx |-> IF PayerOf[t] = u /\ held[t] # NoHold THEN held[t] ELSE 0]
           g == [t \in Tx |-> IF PayerOf[t] = u /\ txState[t] = TxCommitted THEN Cost[t] ELSE 0]
<1>2. (\A t \in Tx : f[t] = 0 /\ g[t] = 0) /\ DOMAIN f = Tx /\ DOMAIN g = Tx
  BY <1>1, StatesDiffer DEF Init
<1>3. HeldOf(u) = SumFunctionOnSet(f, Tx) /\ PaidBy(u) = SumFunctionOnSet(g, Tx)
  BY <1>2 DEF HeldOf, PaidBy, SumFunction
<1> HIDE DEF f, g
<1>4. HeldOf(u) = 0 /\ PaidBy(u) = 0
  BY <1>2, <1>3, SumZero, PaymentFinite
<1>5. funds[u] = credit[u] /\ credit[u] \in Nat
  BY <1>1, PaymentConstants DEF Init
<1>6. QED
  BY <1>4, <1>5

\* The totals are integers.
LEMMA TotalsType ==
  ASSUME TypeOK, NEW u \in User PROVE HeldOf(u) \in Int /\ PaidBy(u) \in Int
<1>1. CASE Tx = {}
  BY <1>1, SumEmpty DEF HeldOf, PaidBy, SumFunction
<1>2. ASSUME NEW t \in Tx PROVE HeldOf(u) \in Int /\ PaidBy(u) \in Int
  <2> DEFINE f == [s \in Tx |-> IF PayerOf[s] = u /\ held[s] # NoHold THEN held[s] ELSE 0]
             g == [s \in Tx |-> IF PayerOf[s] = u /\ txState[s] = TxCommitted THEN Cost[s] ELSE 0]
  <2>1. \A s \in Tx : f[s] \in Int /\ g[s] \in Int
    BY PaymentConstants DEF TypeOK, NoHold
  <2>2. HeldOf(u) = SumFunctionOnSet(f, Tx) /\ PaidBy(u) = SumFunctionOnSet(g, Tx)
    BY DEF HeldOf, PaidBy, SumFunction
  <2> HIDE DEF f, g
  <2>3. QED
    BY <2>1, <2>2, SumType, PaymentFinite
<1>3. QED
  BY <1>1, <1>2

\* Preparing turns credit into what the hash holds, a commit turns that into a
\* payment, and a rollback gives it back.
LEMMA ConservedStep ==
  Typed /\ Booked /\ FundsConserved /\ [Next]_vars => FundsConserved'
<1> SUFFICES ASSUME Typed, Booked, FundsConserved, [Next]_vars PROVE FundsConserved'
  OBVIOUS
<1>0. TypeOK /\ TypeOK'
  BY TypedStep DEF Typed
<1> USE PaymentConstants, StatesDiffer DEF TypeOK
<1>1. ASSUME UNCHANGED <<credit, funds, txState, held>> PROVE FundsConserved'
  BY <1>1 DEF FundsConserved, HeldOf, PaidBy
<1>2. CASE UNCHANGED vars
  BY <1>1, <1>2 DEF vars, userVars
<1>3. ASSUME NEW u \in User, CreateUser(u) PROVE FundsConserved'
  BY <1>1, <1>3 DEF CreateUser
<1>4. ASSUME NEW u \in User, NEW d \in Delta, IncrByIfGe0XX(u, d) PROVE FundsConserved'
  <2>1. /\ credit' = [credit EXCEPT ![u] = credit[u] + d]
        /\ funds' = [funds EXCEPT ![u] = funds[u] + d]
        /\ UNCHANGED <<txState, held>>
    BY <1>4 DEF IncrByIfGe0XX
  <2>2. ASSUME NEW v \in User PROVE funds'[v] = credit'[v] + HeldOf(v)' + PaidBy(v)'
    <3>1. HeldOf(v)' = HeldOf(v) /\ PaidBy(v)' = PaidBy(v)
      BY <2>1 DEF HeldOf, PaidBy
    <3>2. HeldOf(v) \in Int /\ PaidBy(v) \in Int
      BY <1>0, TotalsType
    <3>3. funds[v] = credit[v] + HeldOf(v) + PaidBy(v)
      BY DEF FundsConserved
    <3>4. funds'[v] - credit'[v] = funds[v] - credit[v]
      BY <1>0, <2>1
    <3>5. funds[v] \in Int /\ credit[v] \in Int /\ funds'[v] \in Int /\ credit'[v] \in Int
      BY <1>0
    <3>6. QED
      BY <3>1, <3>2, <3>3, <3>4, <3>5
  <2>3. QED
    BY <2>2 DEF FundsConserved
<1>5. ASSUME NEW r \in PrepareReq, PrepareCkTx(r, Cost[TxOf[r]]) PROVE FundsConserved'
  <2> DEFINE t == TxOf[r]
  <2>0. /\ r \in Request /\ t \in Tx /\ PayerOf[t] \in User /\ funds' = funds
        /\ \A s \in Tx \ {t} : txState'[s] = txState[s] /\ held'[s] = held[s]
    BY <1>5, Local DEF Request
  <2>1. CASE UNCHANGED <<credit, txState, held>>
    BY <1>1, <2>0, <2>1
  <2>2. CASE /\ txState[t] = TxNone /\ txState' = [txState EXCEPT ![t] = TxAborted]
             /\ UNCHANGED <<credit, held>>
    <3>1. \A u \in User : HeldFrom(t, u)' = HeldFrom(t, u) /\ PaidFrom(t, u)' = PaidFrom(t, u)
      BY <1>0, <2>0, <2>2 DEF HeldFrom, PaidFrom
    <3>2. QED
      BY <1>0, <2>0, <2>2, <3>1, ConservedByExchange
  <2>3. CASE /\ txState[t] = TxNone /\ Affordable(t, Cost[t])
             /\ credit' = [credit EXCEPT ![PayerOf[t]] = @ - Cost[t]]
             /\ held' = [held EXCEPT ![t] = Cost[t]]
             /\ txState' = [txState EXCEPT ![t] = TxAcknowledged]
    <3>1. held[t] = NoHold /\ held'[t] = Cost[t] /\ txState'[t] = TxAcknowledged
      BY <1>0, <2>0, <2>3 DEF Booked, BookedAt
    <3>2. Cost[t] \in Nat /\ NoHold = -1
      BY <2>0 DEF NoHold
    <3>3. ASSUME NEW u \in User
          PROVE  credit'[u] + HeldFrom(t, u)' + PaidFrom(t, u)'
                   = credit[u] + HeldFrom(t, u) + PaidFrom(t, u)
      <4>1. PaidFrom(t, u)' = 0 /\ PaidFrom(t, u) = 0 /\ HeldFrom(t, u) = 0
        BY <2>3, <3>1 DEF PaidFrom, HeldFrom
      <4>2. CASE PayerOf[t] = u
        <5>1. HeldFrom(t, u)' = Cost[t]
          BY <3>1, <3>2, <4>2 DEF HeldFrom
        <5>2. credit'[u] = credit[u] - Cost[t] /\ credit[u] \in Nat
          BY <1>0, <2>3, <4>2
        <5>3. QED
          BY <3>2, <4>1, <5>1, <5>2
      <4>3. CASE PayerOf[t] # u
        <5>1. HeldFrom(t, u)' = 0
          BY <4>3 DEF HeldFrom
        <5>2. credit'[u] = credit[u]
          BY <1>0, <2>3, <4>3
        <5>3. QED
          BY <4>1, <5>1, <5>2
      <4>4. QED
        BY <4>2, <4>3
    <3>4. QED
      BY <1>0, <2>0, <3>3, ConservedByExchange
  <2>4. QED
    BY <1>5, <2>1, <2>2, <2>3, PrepareCases
<1>6. ASSUME NEW r \in AbortReq, HGetAll(r) \/ SetAborted(r) \/ Fail(r)
      PROVE  FundsConserved'
  BY <1>1, <1>6 DEF HGetAll, SetAborted, Fail, userVars
<1>7. ASSUME NEW r \in AbortReq, AbtThenRollback(r), pc[r] # "idle" PROVE FundsConserved'
  <2> DEFINE t == TxOf[r]
  <2>0. /\ r \in Request /\ t \in Tx /\ PayerOf[t] \in User /\ funds' = funds
        /\ \A s \in Tx \ {t} : txState'[s] = txState[s] /\ held'[s] = held[s]
    BY <1>0, <1>7, Local DEF Request
  <2>1. txState[t] # TxCommitted
    BY <1>7, <2>0 DEF Booked, BookedAt, AbortArrived
  <2>2. CASE txState[t] = TxAcknowledged
    <3>1. /\ credit' = [credit EXCEPT ![PayerOf[t]] = @ + held[t]]
          /\ held' = [held EXCEPT ![t] = NoHold]
          /\ txState' = [txState EXCEPT ![t] = TxAborted]
      BY <1>7, <2>2 DEF AbtThenRollback
    <3>2. held[t] = Cost[t] /\ held'[t] = NoHold /\ txState'[t] = TxAborted
      BY <1>0, <2>0, <2>2, <3>1 DEF Booked, BookedAt
    <3>3. Cost[t] \in Nat /\ NoHold = -1
      BY <2>0 DEF NoHold
    <3>4. ASSUME NEW u \in User
          PROVE  credit'[u] + HeldFrom(t, u)' + PaidFrom(t, u)'
                   = credit[u] + HeldFrom(t, u) + PaidFrom(t, u)
      <4>1. PaidFrom(t, u)' = 0 /\ PaidFrom(t, u) = 0 /\ HeldFrom(t, u)' = 0
        BY <2>2, <3>2 DEF PaidFrom, HeldFrom
      <4>2. CASE PayerOf[t] = u
        <5>1. HeldFrom(t, u) = Cost[t]
          BY <3>2, <3>3, <4>2 DEF HeldFrom
        <5>2. credit'[u] = credit[u] + Cost[t] /\ credit[u] \in Nat
          BY <1>0, <3>1, <3>2, <4>2
        <5>3. QED
          BY <3>3, <4>1, <5>1, <5>2
      <4>3. CASE PayerOf[t] # u
        <5>1. HeldFrom(t, u) = 0
          BY <4>3 DEF HeldFrom
        <5>2. credit'[u] = credit[u]
          BY <1>0, <3>1, <4>3
        <5>3. QED
          BY <4>1, <5>1, <5>2
      <4>4. QED
        BY <4>2, <4>3
    <3>5. QED
      BY <1>0, <2>0, <3>4, ConservedByExchange
  <2>3. CASE txState[t] # TxAcknowledged
    <3>1. UNCHANGED <<credit, held>> /\ txState'[t] # TxCommitted
      BY <1>0, <1>7, <2>0, <2>1, <2>3 DEF AbtThenRollback
    <3>2. \A u \in User : HeldFrom(t, u)' = HeldFrom(t, u) /\ PaidFrom(t, u)' = PaidFrom(t, u)
      BY <2>1, <3>1 DEF HeldFrom, PaidFrom
    <3>3. QED
      BY <1>0, <2>0, <3>1, <3>2, ConservedByExchange
  <2>4. QED
    BY <2>2, <2>3
<1>8. ASSUME NEW t \in Tx, CommitCkTx(t) PROVE FundsConserved'
  <2>1. /\ txState[t] = TxAcknowledged /\ txState'[t] = TxCommitted /\ held'[t] = NoHold
        /\ \A s \in Tx \ {t} : txState'[s] = txState[s] /\ held'[s] = held[s]
        /\ UNCHANGED <<credit, funds>>
    BY <1>0, <1>8 DEF CommitCkTx, userVars
  <2>2. held[t] = Cost[t] /\ Cost[t] \in Nat /\ NoHold = -1
    BY <2>1 DEF Booked, BookedAt, NoHold
  <2>3. ASSUME NEW u \in User
        PROVE  credit'[u] + HeldFrom(t, u)' + PaidFrom(t, u)'
                 = credit[u] + HeldFrom(t, u) + PaidFrom(t, u)
    <3>1. HeldFrom(t, u)' = PaidFrom(t, u) /\ PaidFrom(t, u)' = HeldFrom(t, u)
      BY <2>1, <2>2 DEF HeldFrom, PaidFrom
    <3>2. HeldFrom(t, u) \in Int /\ PaidFrom(t, u) \in Int /\ credit[u] \in Int
      BY <1>0, <2>2 DEF HeldFrom, PaidFrom
    <3>3. QED
      BY <2>1, <3>1, <3>2
  <2>4. QED
    BY <1>0, <2>1, <2>3, ConservedByExchange
<1>9. QED
  <2>1. \A r \in AbortReq : AbtThenRollback(r) => pc[r] # "idle"
    BY DEF AbtThenRollback
  <2>2. QED
    BY <1>2, <1>3, <1>4, <1>5, <1>6, <1>7, <1>8, <2>1, Steps

\* No money is ever lost or made: what a user was given is credit, held or paid,
\* for any number of users, transactions and requests; also when aborts come
\* early, race each other or stop half-way.
THEOREM Conserved == Spec => []FundsConserved
<1>1. Init => Typed /\ Booked /\ FundsConserved
  BY TypedInit, BookedInit, ConservedInit
<1>2. Typed /\ Booked /\ FundsConserved /\ [Next]_vars => Typed' /\ Booked' /\ FundsConserved'
  BY TypedStep, BookedStep, ConservedStep
<1>3. QED
  BY <1>1, <1>2, PTL DEF Spec

=============================================================================
