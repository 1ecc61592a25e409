----------------------------- MODULE PaymentTx -----------------------------
(***************************************************************************)
(* The payment service as a participant of the checkout transaction        *)
(* (src/src/payment): credits, the transaction records of one Redis        *)
(* database and the HTTP handlers, interleaved per Redis command.          *)
(* Preparing is a single script that decrements the credit and             *)
(* acknowledges; aborting is two commands, with nothing to keep other      *)
(* handlers from coming in between.                                        *)
(***************************************************************************)
EXTENDS Integers, FiniteSets, Functions, TxStates

CONSTANTS
  User,         \* user ids
  Tx,           \* transaction ids
  PrepareReq,   \* requests POST /tx/checkout/prepare
  AbortReq,     \* requests POST /tx/checkout/abort
  TxOf,         \* the transaction a request is about
  PayerOf,      \* the user a transaction charges
  Cost,         \* the amount a transaction charges
  InitCredit,   \* credit of the users that exist at the start, 0 for the others
  Delta,        \* the signed amounts of /add_funds and /pay requests
  MaxFunds,     \* bound: no user is ever given more than this
  Failures,     \* may an abort handler stop between its two commands?
  EarlyAbort    \* transactions of which a prepare request may be served after an
                \* abort request has arrived.  So it is when the coordinator's
                \* call failed while the request was still on its way.

Request == PrepareReq \cup AbortReq

ASSUME PaymentConstants ==
  /\ PrepareReq \cap AbortReq = {}
  /\ TxOf \in [Request -> Tx]
  /\ PayerOf \in [Tx -> User]
  /\ Cost \in [Tx -> Nat]
  /\ InitCredit \in [User -> Nat]
  /\ Delta \subseteq Int
  /\ MaxFunds \in Nat
  /\ Failures \in BOOLEAN
  /\ EarlyAbort \subseteq Tx

\* Ids are 64-bit words (common/snowflake.go): there are finitely many.
ASSUME PaymentFinite == IsFiniteSet(Tx)

VARIABLES
  known,        \* users whose key user_<id>:credit exists
  credit,       \* user_<id>:credit
  funds,        \* history: what /add_funds and /pay have put there in total
  txState,      \* tx_<id>:state
  held,         \* tx_<id>:locked, its one field <user_id> (NoHold: no such hash)
  pc            \* where the handler of a request stands

NoHold == -1

userVars == <<known, credit, funds>>
vars     == <<userVars, txState, held, pc>>

\* A handler that has answered: 200, 406 NotAcceptable, 500.
Answered == {"ok", "rejected", "failed"}

Goto(r, label) == pc' = [pc EXCEPT ![r] = label]

Init ==
  /\ known = {u \in User : InitCredit[u] > 0}
  /\ credit = InitCredit
  /\ funds = InitCredit
  /\ txState = [t \in Tx |-> TxNone]
  /\ held = [t \in Tx |-> NoHold]
  /\ pc = [r \in Request |-> "idle"]

-----------------------------------------------------------------------------
(* Users: payment/handle.go                                                *)

CreateUser(u) ==
  /\ u \notin known
  /\ known' = known \cup {u}
  /\ UNCHANGED <<credit, funds, txState, held, pc>>

\* /add_funds and /pay: LuaIncrByIfGe0XX.
IncrByIfGe0XX(u, delta) ==
  /\ u \in known
  /\ credit[u] + delta >= 0
  /\ funds[u] + delta <= MaxFunds
  /\ credit' = [credit EXCEPT ![u] = @ + delta]
  /\ funds' = [funds EXCEPT ![u] = @ + delta]
  /\ UNCHANGED <<known, txState, held, pc>>

-----------------------------------------------------------------------------
(* prepareCkTx: luaPrpThenAckAbtCkTx, then a switch on its answer.         *)

\* Mutant: the credit is not looked at.
AffordableUnchecked(t, amount) == PayerOf[t] \in known

Affordable(t, amount) ==
  PayerOf[t] \in known /\ credit[PayerOf[t]] >= amount

\* An earlier call has decided: the answer repeats it.  (No script of this
\* service writes TxPreparing.)
RepeatAnswer(s) == IF s = TxAborted THEN "rejected" ELSE "ok"

\* Mutant: a transaction that is acknowledged is charged again.
DecidedFinally(t) == txState[t] \in {TxCommitted, TxAborted}

Decided(t) == txState[t] # TxNone

PrepareCkTx(r, amount) ==
  LET t == TxOf[r] IN
  /\ pc[r] = "idle"
  /\ IF Decided(t)
     THEN Goto(r, RepeatAnswer(txState[t])) /\ UNCHANGED <<credit, txState, held>>
     ELSE IF ~Affordable(t, amount)
     THEN /\ txState' = [txState EXCEPT ![t] = TxAborted]
          /\ Goto(r, "rejected")
          /\ UNCHANGED <<credit, held>>
     ELSE /\ credit' = [credit EXCEPT ![PayerOf[t]] = @ - amount]
          /\ held' = [held EXCEPT ![t] = amount]
          /\ txState' = [txState EXCEPT ![t] = TxAcknowledged]
          /\ Goto(r, "ok")
  /\ UNCHANGED <<known, funds>>

-----------------------------------------------------------------------------
(* commitCkTx: one script, and nobody reads its answer.                    *)

\* Mutant: the hash is not deleted.
CommitCkTxKeepsHash(t) ==
  /\ txState[t] = TxAcknowledged
  /\ txState' = [txState EXCEPT ![t] = TxCommitted]
  /\ UNCHANGED <<userVars, held, pc>>

CommitCkTx(t) ==
  /\ txState[t] = TxAcknowledged
  /\ txState' = [txState EXCEPT ![t] = TxCommitted]
  /\ held' = [held EXCEPT ![t] = NoHold]
  /\ UNCHANGED <<userVars, pc>>

-----------------------------------------------------------------------------
(* abortCkTx                                                               *)

\* HGETALL tx_<id>:locked.
HGetAll(r) ==
  /\ pc[r] = "idle"
  /\ Goto(r, IF held[TxOf[r]] = NoHold THEN "setAborted" ELSE "rollback")
  /\ UNCHANGED <<userVars, txState, held>>

\* The hash was empty: SET the state, which should be the fast abort.  But the
\* argument is a TxState that is not "cast to string" (common/transaction.go:8),
\* the client refuses to encode it, nothing is sent and nobody reads the error.
SetAborted(r) ==
  /\ pc[r] = "setAborted"
  /\ Goto(r, "ok")
  /\ UNCHANGED <<userVars, txState, held>>

\* Mutant: the script rolls back a preparation, a state that this service never
\* writes, and answers 500 to what it finds instead.
AbtThenRollbackPreparing(r) ==
  LET t == TxOf[r]
      found == txState[t]
  IN
  /\ pc[r] = "rollback"
  /\ txState' = [txState EXCEPT ![t] = IF found = TxNone THEN TxAborted ELSE @]
  /\ Goto(r, IF found \in {TxNone, TxAborted} THEN "ok" ELSE "failed")
  /\ UNCHANGED <<userVars, held>>

\* luaAbtThenRollbackCkTx.  It returns the state it has found, so that the
\* handler answers 500 to the request that does roll back.
AbtThenRollback(r) ==
  LET t == TxOf[r]
      found == txState[t]
  IN
  /\ pc[r] = "rollback"
  /\ IF found = TxAcknowledged
     THEN /\ credit' = [credit EXCEPT ![PayerOf[t]] = @ + held[t]]
          /\ held' = [held EXCEPT ![t] = NoHold]
     ELSE UNCHANGED <<credit, held>>
  /\ txState' = [txState EXCEPT ![t] =
                   IF found \in {TxNone, TxAcknowledged} THEN TxAborted ELSE @]
  /\ Goto(r, IF found \in {TxNone, TxAborted} THEN "ok" ELSE "failed")
  /\ UNCHANGED <<known, funds>>

-----------------------------------------------------------------------------
\* HGETALL or the script returns an error, or the process dies: the handler goes
\* no further.  (Where it stands then is no answer that it has decided on.)
Fail(r) ==
  /\ Failures
  /\ pc[r] \in {"setAborted", "rollback"}
  /\ Goto(r, "stopped")
  /\ UNCHANGED <<userVars, txState, held>>

-----------------------------------------------------------------------------
(* What the order service promises: a transaction is committed or aborted, *)
(* never both, and (unless in EarlyAbort) aborted only when its prepare    *)
(* request has been answered.                                              *)

AbortArrived(t) == \E a \in AbortReq : TxOf[a] = t /\ pc[a] # "idle"

MayPrepare(r) == TxOf[r] \in EarlyAbort \/ ~AbortArrived(TxOf[r])
MayAbort(r)   == txState[TxOf[r]] # TxCommitted
MayCommit(t)  == ~AbortArrived(t)

\* What a started abort handler does next.
Proceed(r) == SetAborted(r) \/ AbtThenRollback(r)

Next ==
  \/ \E u \in User : CreateUser(u) \/ \E d \in Delta : IncrByIfGe0XX(u, d)
  \/ \E r \in PrepareReq : MayPrepare(r) /\ PrepareCkTx(r, Cost[TxOf[r]])
  \/ \E r \in AbortReq : MayAbort(r) /\ HGetAll(r)
  \/ \E r \in AbortReq : Proceed(r) \/ Fail(r)
  \/ \E t \in Tx : MayCommit(t) /\ CommitCkTx(t)

Spec == Init /\ [][Next]_vars

\* Redis answers the handler's next command; clients promise nothing.
FairSpec == Spec /\ \A r \in AbortReq : WF_vars(Proceed(r))

-----------------------------------------------------------------------------
(* Properties                                                              *)

\* The keys hold what their commands can read back; no credit is negative.
TypeOK ==
  /\ known \subseteq User
  /\ credit \in [User -> Nat]
  /\ funds \in [User -> Int]
  /\ txState \in [Tx -> TxState \ {TxPreparing}]
  /\ held \in [Tx -> Nat \cup {NoHold}]
  /\ pc \in [Request -> {"idle", "setAborted", "rollback", "stopped"} \cup Answered]

\* What the hashes hold of a user's money, and what committed transactions cost.
HeldOf(u) == SumFunction([t \in Tx |-> IF PayerOf[t] = u /\ held[t] # NoHold THEN held[t] ELSE 0])
PaidBy(u) == SumFunction([t \in Tx |->
                            IF PayerOf[t] = u /\ txState[t] = TxCommitted THEN Cost[t] ELSE 0])

\* No money is lost or made: what a user was given is credit, held by a
\* transaction's hash, or paid by a committed transaction.
FundsConserved ==
  \A u \in User : funds[u] = credit[u] + HeldOf(u) + PaidBy(u)

\* The hash exists exactly while the transaction is acknowledged and holds
\* exactly what it costs, in whatever order two aborts and the prepare request
\* interleave and wherever one of them stops: no aborted transaction keeps money.
HeldIffAcknowledged ==
  \A t \in Tx : held[t] = IF txState[t] = TxAcknowledged THEN Cost[t] ELSE NoHold

\* "-> ABT (fast abort)" (common/transaction.go:13): an abort request that is
\* answered 200 leaves no credit held by its transaction, nor lets a prepare
\* request that comes later take any.
AlreadyRolledBack ==
  \A r \in AbortReq : pc[r] = "ok" => held[TxOf[r]] = NoHold

\* A record only moves along the arrows of common/transaction.go:11-19; the
\* prepare script takes the two arrows to ACK at once.
PaymentLifecycle ==
  [][\A t \in Tx : txState'[t] # txState[t] =>
       \/ Arrow(txState[t], txState'[t])
       \/ txState[t] = TxNone /\ txState'[t] = TxAcknowledged]_txState

\* Once an abort request has arrived, the credit held by its transaction is
\* given back, unless the handler has stopped or the request has come early; it
\* is so also if the answer is 500, as it is to the abort that does roll back.
AbortReturnsCredit ==
  \A r \in AbortReq :
    pc[r] # "idle" /\ TxOf[r] \notin EarlyAbort ~>
      held[TxOf[r]] = NoHold \/ pc[r] = "stopped"

=============================================================================
