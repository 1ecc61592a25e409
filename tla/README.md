# Verification of the order / payment / stock services

This directory holds TLA+ models of this repository (`src/src`, three Go services over
sharded Redis databases; above all the checkout transaction), the TLC runs that check them and the proofs that TLAPS checks. Paths below are relative to the repository's
`src/` (the Go module) unless they start with `test/`.

## The system

Three services, each with as many Redis databases as machines, and no other shared
state. The database of a key is named by the machine part (`m`) of the id in it
(`common/shard.go`), so nothing ever spans two databases, except checkout.

| part | state | operations | calls | what makes it correct |
|---|---|---|---|---|
| stock (`stock/`) | `item_<id>:price`, `item_<id>:stock`; per transaction `tx_<id>:state` and the hash `tx_<id>:locked` (one field per item, and `price`) | create, add, subtract, find; prepare, commit, abort of a transaction | none | no unit of stock lost or made; a record that may be committed is complete; duplicates answer alike; an aborted record is emptied |
| payment (`payment/`) | `user_<id>:credit`; `tx_<id>:state`, `tx_<id>:locked` (one field) | create, add funds, pay, find, cancel, status; prepare, commit, abort | order (`/find`, for cancel and status) | no money lost or made; credit is held exactly while acknowledged |
| order (`order/`) | `order_<id>:user_id`, `:paid`, `:item_id:amount` (the cart), `:tx_id` (the lock); `tx_<id>:state`; a cache of prices | create, remove, add item, remove item, find, checkout | stock and payment over HTTP, one goroutine per stock database | one live checkout per order; commit only if all have prepared; released only when all abort calls are over; everybody answered |
| ids (`common/snowflake.go`) | timestamp, 16 bit sequence, spin lock | `Next` | none | ids unique and increasing; no call hangs |
| shards (`common/shard.go`) | none | pick the machine id, route | none | each id reaches its database, also under a made-up key |

Checkout is two-phase commit with the order service as coordinator. A fresh
transaction id locks the order (`SET NX`) and takes a snapshot of the cart; the stock
databases are asked to prepare in parallel, then payment; on the first error
everybody asked is told to abort, the answers are awaited but not read, and the lock
is deleted; otherwise the transaction is acknowledged, commit calls go out in the
background and the order is marked as paid. Commands and Lua scripts run atomically
in Redis, and each handler is a sequence of them: every other handler's commands may
come between two. What is hard is listed, line by line, under "hazards" in
`PROJECT.json`: above all the incremental moves of the stock service against a
concurrent abort, the two-command abort of the payment service, late or lost calls, and
the goroutines of the order service with their flag and their unbuffered channels.

## Modules

| module | models | state and actions |
|---|---|---|
| `TxStates` | the transaction states and the diagram in `common/transaction.go` | pure definitions |
| `StockTx` | the stock service | one variable per kind of key, `pc`/`todo`/`quote` for the handlers; one action per Redis command: `PrepareCkTx`, `WaitPrepared`, `WaitTimeout`, `ReadPrice`, `PrepareCkTxMove`, `AcknowledgeCkTx`, `CommitCkTx`, `AbortCkTx`, `HScan`, `AbortCkTxRollback`, and `CreateItem`, `IncrByIfGe0XX`. `Paged` says whether `HSCAN` may return several pages |
| `StockRetry` | the stock service over a connection that loses answers | `StockTx` and, for each script of which a second run can change something (those of a record's life and that of `/add` and `/subtract`), a step in which it runs without its handler hearing of it (`AnswerLost`): the handler's next step is the repetition |
| `PaymentTx` | the payment service | the same for credits: `PrepareCkTx`, `CommitCkTx`, and the abort as `HGetAll` then `SetAborted`, which changes nothing, or `AbtThenRollback`; `MayPrepare`, `MayAbort`, `MayCommit` say what it counts on the order service for; `EarlyAbort` names the transactions of which it cannot |
| `OrderTx` | the order service as coordinator | the lock, the order keys and its transaction state; `pc` of `checkoutOrder`; `prep` and `abrt`, the calls to each participant. What participants answer is left open |
| `SendRequests` | the stock phase of `OrderTx` in detail: `prepareCkTxStockSendRequests` | the sender with its two loops, a goroutine per database, the flag, the messages on `okCh` and `errCh`, and what is passed on to the handler. A send on an unbuffered channel and its receive are one step of the collector |
| `OrderCart` | orders, carts, `findOrder` and `cancelPayment` | the handler of each find (`LoadOrderInfo`, `Spawn`, `ReceivePrice`, `ReceiveErr`, `CleanUp`), a goroutine per item (`Skip`, `GetCached`, `GetRemote`, `SetCached`, `GetFails`), the cache, and what clients do to the cart in between |
| `Snowflake` | the generator of ids | `Next` by line, under the spin lock; the wall clock (`Tick`, `SetBack`) and processes that end and start (`Crash`, `NewSnowFlakeGenerator`) |
| `Shard` | `SnowflakeIDPickMachineIdFast`, `Route` and the shard keys of the order service | the loop rune by rune, over any word; then the made-up key goes the same way (`Relay`) |
| `CheckoutSystem` | the three together | instances of the above; a call is made by a coordinator step, arrives at any later time and is answered by what the participant's handler ended with. `Lossy` lets any call end in an error |
| `AtomicCommit` | the promise of checkout, abstractly | participants of a transaction go from working to prepared and to a common end; one commit per order |
| `MCStockTx`, `MCStockRetry`, `MCPaymentTx`, `MCOrderTx`, `MCSendRequests`, `MCOrderCart`, `MCSnowflake`, `MCShard`, `MCCheckout` | instances for TLC | constants only |
| `SumProofs`, `StockTxProofs`, `PaymentTxProofs`, `OrderTxProofs`, `OrderCartProofs`, `SnowflakeProofs`, `ShardProofs`, `CheckoutProofs` | theorems | see "Proofs" |

How the models read the code:

* A Redis command, script or `MULTI` is one step. The arrival of a request is merged
  with its first command. A handler that has answered keeps its answer in `pc`.
* `StockTx`: a member of `Tx` is the record of one transaction in one database. The
  requests of a transaction all carry the amounts its snapshot of the cart gives, and the
  coordinator leaves out amounts that are not positive. An item that does not exist has
  no keys: both read as nil and count as out of stock.
* A handler stops (`Fail`) when a command returns an error or the process dies;
  its writes stay. In `PaymentTx` it then stands at `stopped`, which is not the 500 (`failed`) that
  the abort that does roll back answers. In `CheckoutSystem` a handler that stops is one that takes no
  further step, which `Spec` allows, and its peer sees an error, which `Lossy` allows.
* `StockTx`: with `Paged`, a page of `HSCAN` is a set of at least one of the fields listed;
  after its pipeline the handler asks for the rest. `CheckoutSystem` takes all in one page.
* `PaymentTx`: the fast abort passes `common.TxAborted` to the client without the cast to string that
  `common/transaction.go:8` asks for. The client (go-redis v9.0.4) cannot encode it, nothing is sent and the
  error is thrown away: `SetAborted` answers 200 and leaves the state as it is.
* `OrderTx`: a goroutine that has passed the check of the abort flag counts as having
  sent its request, and answers after the first error are thrown away. That this is what
  `prepareCkTxStockSendRequests` does is shown by `SendRequests`, where `prep` and `price`
  of `OrderTx` are kept as a record that no goroutine and no collector reads (`Finish` sets
  `price` to the collected sum). `commitCkTxRemote` waits for nothing, so that
  "commit has been posted" is a function of the transaction's state.
* The cart is a constant of each transaction, the snapshot it takes. `addItem` and
  `removeItem` are not held up by the lock, so every checkout of an order may see another.
* Answers of commit calls are read by nobody and left out.
* `OrderCart`: a find that has answered with an error goes on as the goroutine that cleans up. Ids of
  orders are fresh, so `CreateOrder` finds none. Prices are constants: nothing in the stock service
  changes one. The cache starts with any of them, as other orders' finds leave it.
* `Snowflake`: the panic of a clock set back is recovered by `net/http` and ends the request, not
  the process; the deferred `Unlock` runs. `Unlock` counts down from whatever it finds and panics
  itself unless that makes 0. A restart forgets everything but the clock. In a
  rolling update two processes of one `MACHINE_ID` may overlap, which the model allows and
  `CleanRestarts` names.

Assumed, and listed as hazards where the code does not enforce it: prices are natural numbers
and numbers stay below 2^53; machine ids in item ids are written as the generator writes
them; a script runs once (the client does not repeat it after it has run), except in `StockRetry`, which
is about the stock service: repetitions of the scripts of payment and order are not modelled.
The composition sends each participant one prepare and one abort call per
transaction, as the coordinator does; duplicates are in the component models.

## Runs

| run | instance | shows |
|---|---|---|
| `stock_safety` | two transactions contend for item `a` (one in stock); the first also wants two of `b` (not created yet), is prepared twice and may abort itself while an abort request comes; restocking by 2 and -1 up to 2 units; handlers may stop | `StockConserved`, `AcknowledgedHoldsCart`, `QuoteIsCost`, `AnswersAgree`, `AbortedIsBeingRolledBack`, `StockLifecycle` |
| `stock_retry` | two transactions with two items in stock, one abort request; restocking and taking of 2; any script may run twice, no handler fails, handlers are fair | `OnlyAddsMake`: a repeated `/add`, and nothing else, makes stock; `OnlyMovesAndSubtractsLose`: a repeated move or `/subtract`, and nothing else, loses stock, and only a move tells a wrong price; `OnlyRepeatedAbortsStrand`: what an aborted record holds is given back unless the abort or its rollback was repeated; `OnlyRepeatedPreparesHang`: every request is answered, duplicates without the timeout, unless the prepare script was repeated |
| `payment_safety` | two transactions of a user who cannot always afford both and one of a user not created at the start; the first prepared twice, both aborted twice, the second's aborts may overtake its prepare; abort handlers may stop | `FundsConserved` and `HeldIffAcknowledged` (all three); `AbortReturnsCredit` (of those not aborted early, unless the very handler stops) |
| `payment_race` | the same | **violated**: `AlreadyRolledBack`, see "Findings" |
| `order_all` | four checkouts of one order with carts on two, one and no databases, empty and without positive amounts; the order may be removed; any answer; handlers may stop | `LockedWhileLive`, `PaidKeepsLock`, `CommitIsUnanimous`, `ReleasedAfterAborts`, `OkMeansCommitted`, `DecisionIsFinal`, `EveryCheckoutAnswered` |
| `order_send` | two checkouts of one order, with carts on three databases and on none; any answer, any order of messages; processes may stop | `EveryMessageReceived`, `SettledBeforePayment`, `TotalIsSum`, `EveryGoroutineEnds`, and `ImplementsOrderTx`: the refinement of `OrderTx`, fairness included |
| `cart_find` | `cancelPayment` finds an order with up to two of one item, one of another and one that the stock service does not know; the cart changes, any prices are cached and expire, anything may fail | `ReceivesMatchSends`, `TotalIsCost`, `EveryFindEnds` |
| `snowflake_calls` | a process with three calls and another process of the same machine with one; a sequence of two numbers; the clock set back once | `IdsUnique` (given `CleanRestarts`), `IdsIncrease`, `EveryCallEnds` |
| `shard_words` | every word of up to five runes (`t`, `m`, `s` and the digits 0, 1 and 2) as an id, two databases | `PicksMachineId`, `KeyRoutesAsItem` |
| `checkout_faults` | two checkouts of one order whose cart shrinks in between, two databases; calls lost, late or answered by errors | `AtomicCheckout` (refinement of `AtomicCommit`), `PaidIsTakenInFull` |
| `checkout_settled` | three checkouts of two orders of one user; the third holds all of an item that the first needs until payment refuses it; nothing lost, everything fair | `EventuallySettled`, `NoDoubleCharge`, `PaymentUsedAsPromised` |
| `checkout_strict` | one checkout that both databases refuse | **violated**: `StrictRollback`, see "Findings" |

Bounds. The pools of requests and transactions are finite: when they are used up the
system stops, hence `CHECK_DEADLOCK FALSE`. Two records that share an item are enough for
every interleaving of two scripts on one stock key; three requests on one record
(owner, duplicate, abort) are the most roles that `stock/transaction.go` distinguishes.
`MaxSupply` and `MaxFunds` cap what clients put in. Two databases make the abort flag, the
unfinished calls and the partial failure happen; four checkouts let an order be
aborted, retried, paid and asked again. Three goroutines are what it takes for one to fail, one to see the
flag after its request and one to send a price all the same; the quote has one value, with
which a price left out or counted twice already shows. `MaxSequence` 1 wraps at the second call of a millisecond, and the third
and fourth meet the new one; `MaxTime` bounds the clock only when nobody
waits for it. Five runes
are enough for every order of two `m`, an `s`, a digit and another rune; three digits make
numbers that are 0, lead to the one or the other database, with leading zeros too, and are out of range.

Fairness. Each handler that has started goes on (`WF` of its next command: Go schedules
every goroutine and Redis answers); in `order_all` every call is answered, which is
`net/http` returning an answer or an error; in `checkout_settled` every call also
arrives. The same holds of `order_send` and `cart_find`, goroutine by goroutine: one that is ready
to send on a channel is received from because the collector is scheduled. In
`snowflake_calls` time passes and goroutines are scheduled; the spin lock is not fair, but
every caller asks for one id, so weak fairness is enough. Never fair: clients' requests,
restocking, the one-minute timeout of a waiting duplicate, failures and repeated commands. `order_all` keeps `EveryCheckoutAnswered` with failures
allowed, since a handler that has stopped has ended.

Every property is also run against a mutant of the code (`PROJECT.json`, "mutants"): the
operators whose comments begin with "Mutant" are plausible slips, and each property is violated
under one of them.

## Findings

* `payment_race`: the fast abort of payment leaves no trace. `abortCkTx` finds no hash and passes
  `common.TxAborted` to `rdb.Set` (`payment/transaction.go:124`) without the cast that
  `common/transaction.go:8` asks for ("always cast to string when passed to redis"); the client cannot encode it, its
  error is thrown away and 200 is answered. A prepare request that is served in between, or at any time later,
  charges the user and acknowledges, against the arrow "ø -> ABT (fast abort)" of
  `common/transaction.go:13`. One more abort would give the credit back, but the coordinator sends one only. With the cast, the
  state would still be set some time after the hash was read: `// todo: atomic check and set` (line 123).
  `payment_safety` shows that the money stays with an acknowledged transaction, and that
  nothing of the kind happens to one whose abort comes after the prepare request's answer.
* `checkout_strict`: an abort request that finds ABT answers 200 at once
  (`stock/transaction.go:253`), also when a `prepareCkTx` that ran out of stock has set it and is
  still rolling back. If another database's error reaches the coordinator first, the client
  gets its 400 before the stock is back, against `strictConsistency`
  (`order/checkout.go:68`), the comment at `stock/transaction.go:226` and the expectation of
  `test/test_microservices.py:112-113`. `EventuallySettled` shows that the stock does come back, and
  the theorem `RejectedGivesBack` that this is all that may be missing where every call is answered.

## Proofs

TLAPS proves the following for every value of the constants that satisfies the
assumptions named in the modules (`StockConstants`, `StockFinite`, `RetryConstants`,
`OrderConstants`, `SendConstants`, `PaymentConstants`, `PaymentFinite`, `CartConstants`,
`SnowflakeConstants`, `CheckoutConstants`, `CheckoutFinite`, `OrderIsNoOther`), failures included.
That items, transactions and databases are finitely many is what 64-bit ids and a
list of addresses in the configuration give; `OrderIsNoOther` only keeps a label of the
composition apart from the names of participants.

Each theorem rests on one lemma for the initial states and one for the steps, with one
step per action. In most modules a lemma (`Steps`) splits `Next` into the actions, and a second one
(`OthersUntouched` and the like) shows that what happens to one record, transaction or
handler leaves the invariant of every other alone.

`SumProofs`, lemmas only: what `SumFunctionOnSet` of the community modules gives over finite
sets, for which it is a fold: its recursive equation, that the order of the elements does not
matter, its type, its sign, and what it becomes when one value changes. Induction over a finite set
is stated with a set of subsets in the place of a predicate (`SubsetInduction`), so that no
operator has to be passed.

`StockTxProofs`:

* `TypeCorrect`: `Spec => []TypeOK`. Inductive with `PriceKept`: while the record
  is prepared, acknowledged or committed its `price` field exists, so what
  `AcknowledgeCkTx` reads back is a number.
* `HoldsCart` (`AcknowledgedHoldsCart`). Not inductive alone. The
  strengthening `Holding` says that a record has at most one owner (the request that
  found no state), that the owner's record is preparing or aborted, and that while it is preparing
  the hash holds exactly the items of the request the owner has no longer to do.
* `GivesBackAlone` (`AbortedIsBeingRolledBack`). The strengthening `Rolling`
  says of each record that nothing is held before it is prepared, that at most one
  handler gives items back, only once the state is ABT, and that what that handler
  has listed contains everything still held. The last part is why no move may add
  to the record after the listing, and rests on the state test in `luaPrepareCkTxMove`.
* `Conserved` (`StockConserved`), by an argument about exchange: a script changes one record and the
  shelf, by opposite amounts, so the sum over all records changes by what the shelf loses. Starting
  to prepare must not lose anything either: a record without a state holds nothing (`Fresh`).
  When a record commits, what it holds becomes what is sold, which needs `HoldsCart`.
* `QuotesInFull` (`QuoteIsCost`), from `Priced`: the price field is the price of what the hash holds,
  move by move, and stays that of the whole request once the hash is deleted by the commit.
* `Lifecycle` (`StockLifecycle`): each script tests the state it overwrites, and typing says that the
  states it tests for are those of the diagram.
* `Consistent` (`AnswersAgree`): answers 200 tell the same price, and unless an abort request has come for the
  transaction nobody is refused where another was answered 200. (After an abort request the owner may have been
  answered 200 and a duplicate 406; answers 500 are left out.) What the owner answers is fixed by the state it leaves, and a
  duplicate answers by the state it reads. The strengthening ties every answer that tells a
  result to the state of the record (acknowledged or committed, and the price in the hash; or
  aborted), so that two answers differ only if the state has changed in between, which takes an abort;
  the price read back is that of the hash because it changes only while the record is being prepared.
* `AbortTakesEffect`: once an abort request has reached its record, the record is aborted for good or had
  been committed before, whichever prepare requests arrive later, and what it still holds is being given back
  (or its handler has died). `Begun` adds to `Rolling` that a record is there because a handler has begun.
* `OnlyAddsMatter` (`OnlyAddsMake`) and `OnlyMovesAndSubtractsMatter` (`OnlyMovesAndSubtractsLose`), of `StockRetry`.
  The invariants above take parameters that say what may have happened twice. If moves may be made again, the
  hash of a record being prepared may also hold items that the owner still believes it has to move
  (`Holds(TRUE)`). `Balanced(lost, made)` is the equation of `Conserved` with an inequality where units may have
  been lost (a move, `/subtract`) or made (`/add`). `RetryFine`, the invariant, has each of these forms as
  long as none of the scripts that break it has been repeated. All other scripts do nothing the second
  time that these invariants could notice.
* `RetryHoldsCart` (`AcknowledgedHoldsCart`) and `RetryLifecycle` (`StockLifecycle`), of `StockRetry` too: what
  the coordinator relies on stands any repetition, since a repeated move sets the amount again.
* `OnlyRepeatsAbandon`, of `StockRetry` without failing handlers: a record being prepared has its owner, unless
  `luaPrepareCkTx` was repeated (`Owned`), and an aborted one that holds items has a handler giving them back,
  unless an abort or a rollback was (`Rolling`, which the other repetitions leave alone). That is what the two
  liveness properties of `stock_retry` need besides fairness.

`PaymentTxProofs`:

* `TypeCorrect`: `Spec => []TypeOK`, whatever overlaps. Inductive with `HashKept`: an
  acknowledged transaction has a hash, so what a rollback adds to the credit is a number.
* `HashIsHold` (`HeldIffAcknowledged`) and `Conserved` (`FundsConserved`), also of transactions aborted early.
  The invariant `Booked`: a transaction holds its cost exactly while it is acknowledged, and no abort request
  comes to a committed one, so that the script of the abort never finds one.
* `Lifecycle` (`PaymentLifecycle`), also of those.
* `AnsweredIsRolledBack`: an abort that comes after its prepare request's answer (not in `EarlyAbort`) leaves no
  credit in the hash once it is answered, be it 200 or 500: `AlreadyRolledBack` and more. The strengthening
  `Aborts` says what a handler that has read the hash may still find when its second
  command runs. The restriction is needed: `payment_race` violates `AlreadyRolledBack` without it, and
  the coordinator does not always keep to it (a prepare call that fails while its request is on
  the way).

`OrderTxProofs`:

* `TypeCorrect`: `Spec => []TypeOK`, inductive as it stands.
* `OneLiveCheckout`: `Spec => []LockedWhileLive`. Inductive as it stands: two live checkouts
  of one order would both be named by the one lock key, and only the holder deletes it.
* `Unanimity` (`CommitIsUnanimous`) and `ReleaseWaits` (`ReleasedAfterAborts`), from the invariant
  `Phases`: what the place where each handler stands says of the calls it has made, and
  what the transaction's state says of where its handler is. The state alone does not
  suffice: a transaction is preparing while it asks, while it aborts and while it
  acknowledges, and only the handler's place tells them apart.
* `Finality` (`Spec => DecisionIsFinal`), an action property, from `Phases` and the lock.
* `PaidIsLocked` (`PaidKeepsLock`) and `OkIsTrue` (`OkMeansCommitted`), inductive together
  (`Decision`) given all of the above: the 200 of a checkout that finds the order locked rests
  on the order being marked as paid, and that on the lock of the committed transaction.
* `RejectedAfterAborts`: whoever is told that its checkout is refused has released the order, and everybody
  who was asked or told to abort has answered the abort (`Cancelled`, a part of `Phases`).
* `NoLockIsLost`, under `ASSUME ~Failures`: an order stays locked only by a committed checkout or one whose
  handler is still at work, and the answer 500 of a script that finds another's lock is never given. With
  handlers that stop it is false: a lock has no expiry, and nobody takes it over.

The same module, of `SendRequests`:

* `SendTypeCorrect` (`SendTypeOK`), `Received` (`EveryMessageReceived`) and `SettledFirst`
  (`SettledBeforePayment`), from one invariant `Inductive`. Its part `Sound` says of each
  transaction where goroutines may stand while the sender is in each of its loops, that
  the count of what is still to be received is the number of goroutines that have not returned
  (a cardinality, from the finiteness of `Db`), and that as long as no error has been received or raised
  every goroutine that has returned has brought a 200.
* `TotalCorrect` (`TotalIsSum`), from `Summed`: as long as nobody has failed, the collector's total is the
  sum of what it has received and the price of `OrderTx` the sum of what has been read; when
  nobody is left to receive from, these are the same goroutines.
* `Implements`: `SendSpec => Spec`, the specification of `OrderTx`. Every step of the
  sender, of a goroutine and of the collector is a step of `OrderTx` or none. The invariant `Faithful`
  adds how the record of `OrderTx` goes with the goroutines (`Recorded`): the flag is up exactly when
  some database has an error on record, and a goroutine that has not seen it finds the handler
  still in the stock phase. That `Finish`, which sets the price to the collected sum, is a step that
  leaves it alone is `TotalCorrect`. With it, everything proved of `OrderTx` holds with goroutines
  (`KeptWithGoroutines`).

`OrderCartProofs`:

* `TypeCorrect`: `Spec => []TypeOK`; amounts in carts are never negative.
* `Matches` (`ReceivesMatchSends`): each start of a goroutine adds one to the set of those that have not
  sent and to the count, each receive takes one away from both. Inductive with
  `Matching`: the items that the loop has still to visit have no goroutine.
* `CostAnswered` (`TotalIsCost`), from `Costing`: the total is the price of the items received from,
  every item of the cart read that the loop has come to has a goroutine, and the loop breaks off only if one
  is about to send an error. So a find that ends without an error has received from all.

`SnowflakeProofs`:

* `TypeCorrect`: `Spec => []TypeOK`, for every width of the sequence. `Unlock` counts down, so that the counter stays
  0 or 1 only by the mutual exclusion in `Ordered`, below.
* `UnlockFindsTaken`: whoever is about to run `Unlock` finds the counter at 1, so that its panic ("double
  unlock", `common/snowflake.go:103`) never happens.
* `Uniqueness` (`IdsUnique`) and `Monotony` (`IdsIncrease`), from the invariant `Ordered`: only one
  goroutine of a process is between `Lock` and `Unlock`, ids issued are not above the generator's
  timestamp and sequence, and a goroutine that waits for the next millisecond has used the
  present one up. Ids of two processes differ because one's timestamps all lie before
  the other's start, which is what `CleanRestarts` assumes.

`ShardProofs`:

* `KeyLeadsToItem` (`KeyRoutesAsItem`). The invariant `Keyed` says that what has been picked
  never has an "m" or an "s" in it, so that the first "s" of a made-up key is the one behind
  the machine id, and where the loop stands in the key (`InKey`): what it has picked is a
  prefix of the machine id the key was made of.
* `MachineIdPicked` (`PicksMachineId`). The reference is the set of positions behind an "m" and before any
  "s", further "m" left out; what is picked is to list these runes in their order. `Passed` relates each position of
  the loop to those that it has left behind; positions are counted with `Cardinality` (`WithinNext`, `WithinRank`).
* `GeneratedIdsAreSafe`: of an id `t..m..s..` whose numbers contain none of the two letters, exactly the
  machine id is picked, whatever their length. The reservation "Not 100% safe" (`common/shard.go:42`) is about other words.

`CheckoutProofs` takes the proof modules of the three services as instances, with a transaction's
record in a database in the place of a transaction of the stock service. `StockNext`,
`PaymentNext` and `OrderNext` show that every step of the system is a step of each part or leaves it
alone, so that the parts' step lemmas hold of the system. The coordinator's and the payment service's
steps are such only because of `PaymentLinks`, `StockLinks` and `Priced`: a call has been made before its handler
runs; an answer is what the handler ended with; only what may be committed is; and the price so far
is that of the databases that have said yes. From `Fine`, all of this together:

* `UsedAsPromised` (`PaymentUsedAsPromised`): the assumptions that `PaymentTx` makes of its callers hold of
  the coordinator.
* `NothingIsLost`: `StockConserved` and `FundsConserved` hold of the composition.
* `PaidInFull` (`PaidIsTakenInFull`): `QuotesInFull` gives the price of each database, `Priced` adds them up.
* `ChargedOnce` (`NoDoubleCharge`), under `ASSUME ~Lossy`: credit is held only by a live checkout or a
  committed one, and the lock admits one of an order. With lost calls it is false, if the user has
  credit for both: the answer of the prepare call and the abort call may both be lost after payment has taken the
  credit, and the lock is released all the same.
* `Atomicity` (`AtomicCheckout`): `Spec` implies that of `AtomicCommit` under the mapping of
  `CheckoutSystem`. Each step changes at most one participant of one transaction (`Allowed`). A participant
  commits only after the decision, when every participant is acknowledged or has committed (`Taken`), and the
  lock keeps another transaction of the order from having committed; one that aborts has not said yes, or the
  coordinator is aborting, so nobody has committed.
* `StockAsAlone` and `CoordinatorAsAlone`: `Spec` implies the specifications of `StockTx` and of `OrderTx`, fairness
  apart, so that what is proved of them alone holds of them in the system. (Of payment `NothingIsLost` and
  `UsedAsPromised` say what is needed; its early aborts depend on the coordinator's calls.)
* `OkIsPaidInFull`: a client is told 200 only of an order that has a committed transaction, this one or one before
  it, whose items are all taken and whose price is paid, or held for the commit call on its way.
* `RejectedGivesBack`, under `ASSUME ~Lossy`: a client that is told its checkout is refused finds no credit taken, and
  items held only where the prepare handler that ran out of stock is still rolling back. This is the exact extent of
  `strictConsistency`, whose full promise `checkout_strict` violates. The invariant `AbortLinks` says that an abort
  call counts as answered only when its handler has, and `AbortTakesEffect`'s invariants say what that means for the record.

Only model-checked:

* Liveness and everything else under fairness: `AbortReturnsCredit`, `EveryCheckoutAnswered`, `EveryGoroutineEnds`, `EveryFindEnds`,
  `EveryCallEnds`, `EventuallySettled`, `OnlyRepeatedAbortsStrand`, `OnlyRepeatedPreparesHang`, and the fairness
  in `ImplementsOrderTx` (`Implements` is about `Spec`, the run about `FairSpec`): `ENABLED` and leads-to
  under fairness are out of its reach too.

## Not modelled

* Requests that only read: `findItem`, `findUser`, `paymentStatus`.
* JSON, the decoding of script results, routes, logging, ping, `/redis-exec`, `/drop-database`,
  start-up, gateway and deployment: input, output and wiring, without state of the services' own.
* Of Redis: persistence and fail-over, and a script cache that is empty after a restart (a pipeline
  cannot fall back from `EVALSHA`, so rollbacks would fail until the service is started again; that
  a rollback fails is modelled, that it keeps failing is not).
* Numbers above 2^53, where Lua's doubles lose units, and negative prices, which `createItem` accepts.
* Item ids whose machine id has leading zeros, which the order service would take for another
  database than the stock service does.
* `MakeSnowflakeID`, which parses an id and is called by none of the services.
* A limit on how long a call may take: the client in `order/` sets none.

## What is left

`CheckoutSystem` with `StockRetry` in the place of `StockTx`, and with `SendRequests` in that of
`OrderTx`: the state space is too large for TLC, but the parts' invariants are proved and could be composed
as in `CheckoutProofs`.
