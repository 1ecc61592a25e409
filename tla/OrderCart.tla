----------------------------- MODULE OrderCart -----------------------------
(***************************************************************************)
(* Orders and their carts (order/handle.go), findOrder with the goroutines *)
(* it starts and its cache of prices (order/find.go), and cancelPayment of *)
(* the payment service, which calls it.                                    *)
(*                                                                         *)
(* findOrder reads the order in one MULTI, starts a goroutine per item of  *)
(* the cart and collects their answers from two unbuffered channels.  At   *)
(* the first error it answers; a goroutine of its own then takes what the  *)
(* others still have to send.                                              *)
(***************************************************************************)
EXTENDS Integers, FiniteSets, Functions

CONSTANTS
  Order,      \* order ids
  Item,       \* item ids
  Known,      \* the items that the stock service knows
  Price,      \* Price[i]: the price of a known item, which never changes
  Find,       \* requests GET /find, from clients and from the payment service
  Cancel,     \* those made by cancelPayment
  OrderOf,    \* the order a request is about
  MaxAmount,  \* bound: no more than MaxAmount[i] of i is put in a cart
  Failures    \* may a command or a call fail?

ASSUME CartConstants ==
  /\ Known \subseteq Item
  /\ Price \in [Item -> Nat]
  /\ Cancel \subseteq Find
  /\ OrderOf \in [Find -> Order]
  /\ MaxAmount \in [Item -> Nat]
  /\ Failures \in BOOLEAN
  /\ IsFiniteSet(Item)

VARIABLES
  status,     \* of an order: "none", "unpaid", "paid", "removed"
  cart,       \* order_<id>:item_id:amount (NoField: no such field)
  cache,      \* item_<id>:price in the order service's database
  refunded,   \* history: what cancelPayment has given back for an order
  pc,         \* where the handler of a request stands
  info,       \* the cart it has read
  todo,       \* the items its loop has still to visit
  abort,      \* its flag abort
  thread,     \* thread[f][i]: where the goroutine of f for item i stands
  price,      \* price[f][i]: what that goroutine has found
  left,       \* the answers still to be received
  total       \* totalPrice

\* Nil: no amount, nor what an amount could wrongly become.
NoField == -2
NoPrice == -2

orderVars == <<status, cart, refunded>>
findVars  == <<pc, info, todo, abort, left, total>>
goVars    == <<thread, price>>
vars      == <<orderVars, cache, findVars, goVars>>

\* A handler that has answered: 200, 404, 500.  One of cancelPayment goes on
\* after 200, with the credit.
Answered == {"ok", "notFound", "failed", "refunded"}

Label == {"idle", "spawn", "collect"} \cup Answered

\* A goroutine that has something to send waits for a receiver.
Sending == {"sendPrice", "sendErr"}

ThreadLabel == {"none", "start", "remote", "set", "done"} \cup Sending

Goto(f, label) == pc' = [pc EXCEPT ![f] = label]

Become(f, i, label) == thread' = [thread EXCEPT ![f][i] = label]

EmptyCart == [i \in Item |-> NoField]

\* The cache holds what finds of other orders have left there.
Init ==
  /\ status = [o \in Order |-> "none"]
  /\ cart = [o \in Order |-> EmptyCart]
  /\ refunded = [o \in Order |-> 0]
  /\ cache \in {c \in [Item -> {Price[i] : i \in Known} \cup {NoPrice}] :
                 \A i \in Item : c[i] = NoPrice \/ (i \in Known /\ c[i] = Price[i])}
  /\ pc = [f \in Find |-> "idle"]
  /\ info = [f \in Find |-> EmptyCart]
  /\ todo = [f \in Find |-> {}]
  /\ abort = [f \in Find |-> FALSE]
  /\ thread = [f \in Find |-> [i \in Item |-> "none"]]
  /\ price = [f \in Find |-> [i \in Item |-> 0]]
  /\ left = [f \in Find |-> 0]
  /\ total = [f \in Find |-> 0]

-----------------------------------------------------------------------------
(* Orders: order/handle.go                                                 *)

\* Under a fresh id.
CreateOrder(o) ==
  /\ status[o] = "none"
  /\ status' = [status EXCEPT ![o] = "unpaid"]
  /\ UNCHANGED <<cart, refunded, cache, findVars, goVars>>

\* user_id, paid and the cart go together.
RemoveOrder(o) ==
  /\ status[o] # "none"
  /\ status' = [status EXCEPT ![o] = "removed"]
  /\ cart' = [cart EXCEPT ![o] = EmptyCart]
  /\ UNCHANGED <<refunded, cache, findVars, goVars>>

\* luaCommitCkTx, at the end of a checkout: SET XX.
Pay(o) ==
  /\ status[o] = "unpaid"
  /\ status' = [status EXCEPT ![o] = "paid"]
  /\ UNCHANGED <<cart, refunded, cache, findVars, goVars>>

\* HINCRBY, which looks neither whether the order is there, nor whether it is
\* paid, nor whether the item is known.
AddItem(o, i) ==
  LET n == IF cart[o][i] = NoField THEN 1 ELSE cart[o][i] + 1 IN
  /\ status[o] # "none"
  /\ n <= MaxAmount[i]
  /\ cart' = [cart EXCEPT ![o][i] = n]
  /\ UNCHANGED <<status, refunded, cache, findVars, goVars>>

MayDecr(n) == n # NoField /\ n - 1 >= 0

\* luaHDecrIfGe0XX: the field of an item that is gone stays, with 0.
RemoveItem(o, i) ==
  /\ MayDecr(cart[o][i])
  /\ cart' = [cart EXCEPT ![o][i] = @ - 1]
  /\ UNCHANGED <<status, refunded, cache, findVars, goVars>>

\* A cached price lives for five minutes.
Expire(i) ==
  /\ cache[i] # NoPrice
  /\ cache' = [cache EXCEPT ![i] = NoPrice]
  /\ UNCHANGED <<orderVars, findVars, goVars>>

-----------------------------------------------------------------------------
(* findOrder                                                               *)

LoadOrderInfo(f) ==
  LET o == OrderOf[f] IN
  /\ pc[f] = "idle"
  /\ IF status[o] \in {"unpaid", "paid"}
     THEN /\ info' = [info EXCEPT ![f] = cart[o]]
          /\ todo' = [todo EXCEPT ![f] = {i \in Item : cart[o][i] # NoField}]
          /\ Goto(f, "spawn")
     ELSE Goto(f, "notFound") /\ UNCHANGED <<info, todo>>
  /\ UNCHANGED <<orderVars, cache, abort, left, total, goVars>>

LoadOrderInfoFails(f) ==
  /\ Failures /\ pc[f] = "idle"
  /\ Goto(f, "failed")
  /\ UNCHANGED <<orderVars, cache, info, todo, abort, left, total, goVars>>

\* One turn of the loop.
Spawn(f, i) ==
  /\ pc[f] = "spawn" /\ i \in todo[f] /\ ~abort[f]
  /\ todo' = [todo EXCEPT ![f] = @ \ {i}]
  /\ IF info[f][i] > 0
     THEN /\ left' = [left EXCEPT ![f] = @ + 1]
          /\ Become(f, i, "start")
     ELSE UNCHANGED <<left, thread>>
  /\ UNCHANGED <<orderVars, cache, pc, info, abort, total, price>>

\* The loop ends, also by break.
Spawned(f) ==
  /\ pc[f] = "spawn" /\ (todo[f] = {} \/ abort[f])
  /\ Goto(f, "collect")
  /\ UNCHANGED <<orderVars, cache, info, todo, abort, left, total, goVars>>

\* Mutant: an error is not counted off, so that the clean-up starts one early.
ReceivedPriceOnly(f, i) ==
  IF pc[f] = "collect" /\ thread[f][i] = "sendErr" THEN left[f] ELSE left[f] - 1

\* What is still to be received once i has sent.
Received(f, i) == left[f] - 1

\* Mutant: the loops end one answer early.
SomeButOneLeft(f) == left[f] > 1

SomeLeft(f) == left[f] > 0

\* The handler receives a price ...
ReceivePrice(f, i) ==
  /\ pc[f] = "collect" /\ SomeLeft(f) /\ thread[f][i] = "sendPrice"
  /\ total' = [total EXCEPT ![f] = @ + price[f][i] * info[f][i]]
  /\ left' = [left EXCEPT ![f] = Received(f, i)]
  /\ Become(f, i, "done")
  /\ UNCHANGED <<orderVars, cache, pc, info, todo, abort, price>>

\* ... or the first error, and answers.
ReceiveErr(f, i) ==
  /\ pc[f] = "collect" /\ SomeLeft(f) /\ thread[f][i] = "sendErr"
  /\ left' = [left EXCEPT ![f] = Received(f, i)]
  /\ Goto(f, "notFound")
  /\ Become(f, i, "done")
  /\ UNCHANGED <<orderVars, cache, info, todo, abort, total, price>>

\* The goroutine that cleans up receives the rest.
CleanUp(f, i) ==
  /\ pc[f] = "notFound" /\ SomeLeft(f) /\ thread[f][i] \in Sending
  /\ left' = [left EXCEPT ![f] = Received(f, i)]
  /\ Become(f, i, "done")
  /\ UNCHANGED <<orderVars, cache, pc, info, todo, abort, total, price>>

AnswerFound(f) ==
  /\ pc[f] = "collect" /\ ~SomeLeft(f)
  /\ Goto(f, "ok")
  /\ UNCHANGED <<orderVars, cache, info, todo, abort, left, total, goVars>>

-----------------------------------------------------------------------------
(* The goroutine of one item                                               *)

Found(f, i, p, label) ==
  /\ price' = [price EXCEPT ![f][i] = p]
  /\ Become(f, i, label)

\* Another one has failed: nothing is asked any more.
Skip(f, i) ==
  /\ thread[f][i] = "start" /\ abort[f]
  /\ Become(f, i, "sendErr")
  /\ UNCHANGED <<orderVars, cache, findVars, price>>

\* getItemPrice: GET of the cached price.  The flag is read just before.
GetCached(f, i) ==
  /\ thread[f][i] = "start" /\ ~abort[f]
  /\ IF cache[i] = NoPrice
     THEN Become(f, i, "remote") /\ UNCHANGED price
     ELSE Found(f, i, cache[i], "sendPrice")
  /\ UNCHANGED <<orderVars, cache, findVars>>

\* getItemFromRemote
GetRemote(f, i) ==
  /\ thread[f][i] = "remote" /\ i \in Known
  /\ Found(f, i, Price[i], "set")
  /\ UNCHANGED <<orderVars, cache, findVars>>

\* Nobody reads the answer of the SET: it may have failed.
SetCached(f, i) ==
  /\ thread[f][i] = "set"
  /\ \/ cache' = [cache EXCEPT ![i] = price[f][i]]
     \/ Failures /\ UNCHANGED cache
  /\ Become(f, i, "sendPrice")
  /\ UNCHANGED <<orderVars, findVars, price>>

\* The stock service has no such item; or the command or the call fails.
Missing(f, i) ==
  \/ thread[f][i] = "remote" /\ i \notin Known
  \/ Failures /\ (thread[f][i] = "remote" \/ (thread[f][i] = "start" /\ ~abort[f]))

GetFails(f, i) ==
  /\ Missing(f, i)
  /\ abort' = [abort EXCEPT ![f] = TRUE]
  /\ Become(f, i, "sendErr")
  /\ UNCHANGED <<orderVars, cache, pc, info, todo, left, total, price>>

-----------------------------------------------------------------------------
(* cancelPayment: payment/handle.go                                        *)

\* Whatever /find has answered is added to the credit of the order's user.
CancelPayment(f) ==
  /\ f \in Cancel /\ pc[f] = "ok"
  /\ refunded' = [refunded EXCEPT ![OrderOf[f]] = @ + total[f]]
  /\ Goto(f, "refunded")
  /\ UNCHANGED <<status, cart, cache, info, todo, abort, left, total, goVars>>

-----------------------------------------------------------------------------
\* What the handler of a request that has arrived does next.
Handle(f) ==
  \/ Spawned(f) \/ AnswerFound(f)
  \/ \E i \in Item : Spawn(f, i) \/ ReceivePrice(f, i) \/ ReceiveErr(f, i) \/ CleanUp(f, i)

\* What the goroutine of one item does next.
Run(f, i) == Skip(f, i) \/ GetCached(f, i) \/ GetRemote(f, i) \/ SetCached(f, i) \/ GetFails(f, i)

Next ==
  \/ \E o \in Order : CreateOrder(o) \/ RemoveOrder(o) \/ Pay(o)
  \/ \E o \in Order, i \in Item : AddItem(o, i) \/ RemoveItem(o, i)
  \/ \E i \in Item : Expire(i)
  \/ \E f \in Find :
       \/ LoadOrderInfo(f) \/ LoadOrderInfoFails(f) \/ CancelPayment(f) \/ Handle(f)
       \/ \E i \in Item : Run(f, i)

Spec == Init /\ [][Next]_vars

\* Goroutines are scheduled, and every command and every call is answered.
FairSpec ==
  /\ Spec
  /\ \A f \in Find : WF_vars(Handle(f)) /\ \A i \in Item : WF_vars(Run(f, i))

-----------------------------------------------------------------------------
(* Properties                                                              *)

\* Amounts in carts are never negative (luaHDecrIfGe0XX), and no more answers
\* are expected than there are items.
TypeOK ==
  /\ status \in [Order -> {"none", "unpaid", "paid", "removed"}]
  /\ cart \in [Order -> [Item -> Nat \cup {NoField}]]
  /\ refunded \in [Order -> Nat]
  /\ cache \in [Item -> Nat \cup {NoPrice}]
  /\ pc \in [Find -> Label]
  /\ info \in [Find -> [Item -> Nat \cup {NoField}]]
  /\ todo \in [Find -> SUBSET Item]
  /\ abort \in [Find -> BOOLEAN]
  /\ thread \in [Find -> [Item -> ThreadLabel]]
  /\ price \in [Find -> [Item -> Nat]]
  /\ left \in [Find -> Nat]
  /\ total \in [Find -> Nat]

\* The goroutines of f that have not sent yet.
Unsent(f) == {i \in Item : thread[f][i] \notin {"none", "done"}}

\* The handler, and after it the goroutine that cleans up, receive as often as
\* there is something left to be sent, also when the loop breaks off: one less
\* would leave a goroutine blocked for good, one more the handler.
ReceivesMatchSends ==
  \A f \in Find : left[f] = Cardinality(Unsent(f))

\* What a cart costs.
Cost(c) == SumFunction([i \in Item |-> IF c[i] > 0 THEN Price[i] * c[i] ELSE 0])

\* The total answered, and the amount that cancelPayment gives back, is the
\* price of the whole cart as it was at one moment, however goroutines, the
\* cache and changes of the cart interleave.
TotalIsCost ==
  \A f \in Find : pc[f] \in {"ok", "refunded"} => total[f] = Cost(info[f])

\* Every find is answered, and then all its goroutines end.
EveryFindEnds ==
  \A f \in Find : pc[f] = "spawn" ~> pc[f] \in Answered /\ Unsent(f) = {}

=============================================================================
