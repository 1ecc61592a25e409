-------------------------- MODULE OrderCartProofs --------------------------
(***************************************************************************)
(* Proofs about OrderCart, for every set of orders, items and finds and    *)
(* every price: what the goroutines of findOrder send and what is received *)
(* match, whatever fails, and the total answered is the price of the cart. *)
(***************************************************************************)
EXTENDS OrderCart, SumProofs, TLAPS

-----------------------------------------------------------------------------
(* Types                                                                   *)

\* A goroutine runs for an item of which the cart holds some.
Running == \A f \in Find, i \in Item : thread[f][i] # "none" => info[f][i] > 0

\* The types alone are not inductive: a total is a sum of prices times amounts,
\* which the loop starts goroutines for only if they are positive.
Typed == TypeOK /\ Running /\ \A f \in Find : pc[f] = "idle" => thread[f] = [i \in Item |-> "none"]

\* Prices times amounts are numbers.
LEMMA NatProduct == \A m, n \in Nat : m * n \in Nat
OBVIOUS

\* The keys and handlers have their types at the start.
LEMMA TypedInit == Init => Typed
<1> SUFFICES ASSUME Init PROVE Typed
  OBVIOUS
<1>1. cache \in [Item -> Nat \cup {NoPrice}]
  BY CartConstants DEF Init
<1>2. QED
  BY <1>1 DEF Init, Typed, TypeOK, Running, EmptyCart, NoField, Label, ThreadLabel

\* Steps of clients and of the clock.
LEMMA TypedOrders ==
  ASSUME Typed, NEW o \in Order,
         \/ CreateOrder(o) \/ RemoveOrder(o) \/ Pay(o)
         \/ \E i \in Item : AddItem(o, i) \/ RemoveItem(o, i)
  PROVE  Typed'
<1> USE DEF Typed, TypeOK, Running, findVars, goVars, EmptyCart, NoField
<1>1. CASE CreateOrder(o) \/ Pay(o)
  BY <1>1 DEF CreateOrder, Pay
<1>4. CASE RemoveOrder(o)
  BY <1>4 DEF RemoveOrder
<1>2. ASSUME NEW i \in Item, AddItem(o, i) PROVE Typed'
  BY <1>2 DEF AddItem
<1>3. ASSUME NEW i \in Item, RemoveItem(o, i) PROVE Typed'
  BY <1>3 DEF RemoveItem, MayDecr
<1>5. QED
  BY <1>1, <1>2, <1>3, <1>4

\* The goroutines, and what Typed says of them.
Threads ==
  /\ thread \in [Find -> [Item -> ThreadLabel]]
  /\ Running
  /\ \A f \in Find : pc[f] = "idle" => thread[f] = [i \in Item |-> "none"]

\* A goroutine that goes on.
LEMMA ThreadGoesOn ==
  ASSUME Typed, NEW f \in Find, NEW i \in Item, thread[f][i] # "none",
         NEW label \in ThreadLabel, Become(f, i, label),
         UNCHANGED info, \A g \in Find : pc'[g] = "idle" => pc[g] = "idle"
  PROVE  Threads'
<1> USE DEF Typed, TypeOK, Become
<1>1. thread' \in [Find -> [Item -> ThreadLabel]]
  OBVIOUS
<1>2. Running'
  BY DEF Running
<1>3. ASSUME NEW g \in Find, pc'[g] = "idle" PROVE thread'[g] = [j \in Item |-> "none"]
  <2>1. g # f
    BY <1>3
  <2>2. QED
    BY <1>3, <2>1
<1>4. QED
  BY <1>1, <1>2, <1>3 DEF Threads

\* Steps of a goroutine.
LEMMA TypedRun ==
  ASSUME Typed, NEW f \in Find, NEW i \in Item, Run(f, i)
  PROVE  Typed'
<1>1. thread[f][i] # "none" /\ UNCHANGED <<orderVars, pc, info, todo, left, total>>
  BY DEF Run, Skip, GetCached, GetRemote, SetCached, GetFails, Missing, findVars
<1>2. \E label \in ThreadLabel : Become(f, i, label)
  BY DEF Run, Skip, GetCached, GetRemote, SetCached, GetFails, Found, ThreadLabel, Sending
<1>3. Threads'
  BY <1>1, <1>2, ThreadGoesOn
<1>4. cache' \in [Item -> Nat \cup {NoPrice}] /\ price' \in [Find -> [Item -> Nat]]
      /\ abort' \in [Find -> BOOLEAN]
  <2> USE CartConstants DEF Typed, TypeOK, Found, findVars
  <2>1. CASE GetCached(f, i)
    <3>1. CASE cache[i] = NoPrice
      BY <2>1, <3>1 DEF GetCached
    <3>2. CASE cache[i] # NoPrice
      <4>1. cache[i] \in Nat /\ UNCHANGED <<cache, abort>>
        BY <2>1, <3>2 DEF GetCached
      <4>2. price' = [price EXCEPT ![f][i] = cache[i]]
        BY <2>1, <3>2 DEF GetCached
      <4>3. price' \in [Find -> [Item -> Nat]]
        BY <4>1, <4>2
      <4>4. QED
        BY <4>1, <4>3
    <3>3. QED
      BY <3>1, <3>2
  <2>2. CASE GetRemote(f, i)
    BY <2>2 DEF GetRemote
  <2>3. CASE SetCached(f, i)
    <3>1. UNCHANGED <<price, abort>>
          /\ (cache' = cache \/ cache' = [cache EXCEPT ![i] = price[f][i]])
      BY <2>3 DEF SetCached
    <3>2. CASE cache' = cache
      BY <3>1, <3>2
    <3>3. CASE cache' = [cache EXCEPT ![i] = price[f][i]]
      <4>1. price[f][i] \in Nat
        OBVIOUS
      <4>2. cache' \in [Item -> Nat \cup {NoPrice}]
        BY <3>3, <4>1
      <4>3. QED
        BY <3>1, <4>2
    <3>4. QED
      BY <3>1, <3>2, <3>3
  <2>4. CASE Skip(f, i) \/ GetFails(f, i)
    BY <2>4 DEF Skip, GetFails
  <2>5. QED
    BY <2>1, <2>2, <2>3, <2>4 DEF Run
<1>5. QED
  BY <1>1, <1>3, <1>4 DEF Typed, TypeOK, Threads, orderVars

\* Steps of the handler and of the goroutine that cleans up.
LEMMA TypedHandle ==
  ASSUME Typed, NEW f \in Find,
         Handle(f) \/ LoadOrderInfo(f) \/ LoadOrderInfoFails(f) \/ CancelPayment(f)
  PROVE  Typed'
<1> USE CartConstants DEF Typed, TypeOK, Running, orderVars, goVars, Become, Goto,
                          Label, Answered, ThreadLabel, Sending
<1>1. CASE LoadOrderInfo(f)
  <2>1. thread[f] = [i \in Item |-> "none"] /\ thread' = thread
    BY <1>1 DEF LoadOrderInfo
  <2>2. \A g \in Find : g # f => info'[g] = info[g]
    BY <1>1 DEF LoadOrderInfo
  <2>3. Running'
    BY <2>1, <2>2
  <2>4. info' \in [Find -> [Item -> Nat \cup {NoField}]] /\ todo' \in [Find -> SUBSET Item]
        /\ pc' \in [Find -> Label] /\ \A g \in Find : pc'[g] = "idle" => pc[g] = "idle"
    <3>1. OrderOf[f] \in Order
      OBVIOUS
    <3>2. CASE status[OrderOf[f]] \in {"unpaid", "paid"}
      <4>1. info' = [info EXCEPT ![f] = cart[OrderOf[f]]]
            /\ todo' = [todo EXCEPT ![f] = {i \in Item : cart[OrderOf[f]][i] # NoField}]
            /\ pc' = [pc EXCEPT ![f] = "spawn"]
        BY <1>1, <3>2 DEF LoadOrderInfo
      <4>2. info' \in [Find -> [Item -> Nat \cup {NoField}]]
        BY <3>1, <4>1
      <4>3. todo' \in [Find -> SUBSET Item]
        BY <4>1
      <4>4. QED
        BY <4>1, <4>2, <4>3
    <3>3. CASE status[OrderOf[f]] \notin {"unpaid", "paid"}
      BY <1>1, <3>3 DEF LoadOrderInfo
    <3>4. QED
      BY <3>2, <3>3
  <2>5. UNCHANGED <<orderVars, cache, abort, left, total, goVars>>
    BY <1>1 DEF LoadOrderInfo
  <2>6. QED
    BY <2>3, <2>4, <2>5
<1>2. CASE LoadOrderInfoFails(f)
  BY <1>2 DEF LoadOrderInfoFails
<1>3. CASE CancelPayment(f)
  BY <1>3 DEF CancelPayment
<1>4. CASE Spawned(f) \/ AnswerFound(f)
  BY <1>4 DEF Spawned, AnswerFound
<1>5. ASSUME NEW i \in Item, Spawn(f, i) PROVE Typed'
  <2>1. UNCHANGED <<orderVars, cache, pc, info, abort, total, price>>
        /\ todo' \in [Find -> SUBSET Item] /\ pc[f] # "idle"
    BY <1>5 DEF Spawn
  <2>2. CASE info[f][i] > 0
    <3>1. thread' = [thread EXCEPT ![f][i] = "start"] /\ left' = [left EXCEPT ![f] = @ + 1]
      BY <1>5, <2>2 DEF Spawn
    <3>6. left' \in [Find -> Nat]
      BY <3>1
    <3>2. thread' \in [Find -> [Item -> ThreadLabel]]
      BY <3>1
    <3>3. Running'
      BY <2>1, <2>2, <3>1
    <3>4. \A g \in Find : g # f => thread'[g] = thread[g]
      BY <3>1
    <3>5. QED
      BY <2>1, <3>2, <3>3, <3>4, <3>6
  <2>3. CASE ~(info[f][i] > 0)
    <3>1. UNCHANGED <<left, thread>>
      BY <1>5, <2>3 DEF Spawn
    <3>2. QED
      BY <2>1, <3>1
  <2>4. QED
    BY <2>2, <2>3
<1>6. ASSUME NEW i \in Item, ReceivePrice(f, i) \/ ReceiveErr(f, i) \/ CleanUp(f, i)
      PROVE  Typed'
  <2>1. /\ UNCHANGED <<orderVars, cache, info, todo, abort, price>>
        /\ left' = [left EXCEPT ![f] = @ - 1] /\ left[f] > 0
        /\ thread[f][i] # "none" /\ Become(f, i, "done")
        /\ pc' \in [Find -> Label] /\ \A g \in Find : pc'[g] = "idle" => pc[g] = "idle"
    BY <1>6 DEF ReceivePrice, ReceiveErr, CleanUp, SomeLeft, Received
  <2>2. left' \in [Find -> Nat]
    BY <2>1
  <2>3. Threads'
    BY <2>1, ThreadGoesOn
  <2>4. total' \in [Find -> Nat]
    <3>1. CASE ReceivePrice(f, i)
      <4>1. info[f][i] \in Nat /\ price[f][i] \in Nat
        BY <2>1 DEF NoField
      <4>2. price[f][i] * info[f][i] \in Nat
        BY <4>1, NatProduct
      <4>3. \A p \in Nat : total[f] + p \in Nat
        OBVIOUS
      <4>4. total[f] + price[f][i] * info[f][i] \in Nat
        BY <4>2, <4>3
      <4>5. QED
        BY <3>1, <4>4 DEF ReceivePrice
    <3>2. CASE ReceiveErr(f, i) \/ CleanUp(f, i)
      BY <3>2 DEF ReceiveErr, CleanUp
    <3>3. QED
      BY <1>6, <3>1, <3>2
  <2>5. QED
    BY <2>1, <2>2, <2>3, <2>4 DEF Threads
<1>7. QED
  BY <1>1, <1>2, <1>3, <1>4, <1>5, <1>6 DEF Handle

\* The cache forgets a price.
LEMMA TypedExpire ==
  ASSUME Typed, NEW i \in Item, Expire(i) PROVE Typed'
BY DEF Typed, TypeOK, Running, orderVars, findVars, goVars, Expire

\* Every step keeps them.
LEMMA TypedStep == Typed /\ [Next]_vars => Typed'
<1> SUFFICES ASSUME Typed, [Next]_vars PROVE Typed'
  OBVIOUS
<1>1. CASE UNCHANGED vars
  BY <1>1 DEF Typed, TypeOK, Running, vars, orderVars, findVars, goVars
<1>2. QED
  BY <1>1, TypedOrders, TypedExpire, TypedRun, TypedHandle DEF Next

\* Every variable has its type: no amount in a cart is ever negative, whoever
\* adds and removes items, and no answer is received that was not expected.
THEOREM TypeCorrect == Spec => []TypeOK
<1>1. Typed => TypeOK
  BY DEF Typed
<1>2. QED
  BY <1>1, TypedInit, TypedStep, PTL DEF Spec

-----------------------------------------------------------------------------
(* What is sent is received                                                *)

\* A find's own count; the items its loop has still to visit have no goroutine.
Matched(f) ==
  /\ left[f] = Cardinality(Unsent(f))
  /\ \A i \in todo[f] : thread[f][i] = "none"

Matching == Typed /\ \A f \in Find : Matched(f)

\* The goroutines that have something left to send are finitely many.
LEMMA UnsentFinite == \A f \in Find : IsFiniteSet(Unsent(f))
BY CartConstants, FS_Subset DEF Unsent

\* At the start no find has begun.
LEMMA MatchedInit == Init => \A f \in Find : Matched(f)
<1> SUFFICES ASSUME Init, NEW f \in Find PROVE Matched(f)
  OBVIOUS
<1>1. Unsent(f) = {}
  BY DEF Init, Unsent
<1>2. QED
  BY <1>1, FS_EmptySet DEF Init, Matched

\* Nothing happens to the goroutines of f, or one goes on that has not sent.
LEMMA MatchedQuiet ==
  ASSUME NEW f \in Find, Matched(f), todo[f] \subseteq Item,
         left'[f] = left[f], todo'[f] = todo[f],
         \A i \in Item : \/ thread'[f][i] = thread[f][i]
                         \/ /\ thread[f][i] \notin {"none", "done"}
                            /\ thread'[f][i] \notin {"none", "done"}
  PROVE  Matched(f)'
<1>1. Unsent(f)' = Unsent(f)
  BY DEF Unsent
<1>2. QED
  BY <1>1 DEF Matched

\* A set with one more element.
LEMMA OneMore ==
  ASSUME NEW S, IsFiniteSet(S), NEW x, x \notin S
  PROVE  Cardinality(S \cup {x}) = Cardinality(S) + 1
BY FS_AddElement

\* One is started.
LEMMA MatchedSpawn ==
  ASSUME Matching, NEW f \in Find, NEW i \in Item, Spawn(f, i)
  PROVE  Matched(f)'
<1> USE DEF Matching, Typed, TypeOK, Matched
<1>1. i \in todo[f] /\ thread[f][i] = "none" /\ todo'[f] = todo[f] \ {i}
  BY DEF Spawn
<1>2. CASE info[f][i] > 0
  <2>1. thread' = [thread EXCEPT ![f][i] = "start"] /\ left' = [left EXCEPT ![f] = @ + 1]
    BY <1>2 DEF Spawn, Become
  <2>2. Unsent(f)' = Unsent(f) \cup {i} /\ i \notin Unsent(f)
    BY <1>1, <2>1 DEF Unsent
  <2>3. Cardinality(Unsent(f)') = Cardinality(Unsent(f)) + 1
    <3>1. IsFiniteSet(Unsent(f))
      BY UnsentFinite
    <3>2. QED
      BY <2>2, <3>1, OneMore
  <2>4. QED
    BY <1>1, <2>1, <2>3
<1>3. CASE ~(info[f][i] > 0)
  <2>1. UNCHANGED <<left, thread>>
    BY <1>3 DEF Spawn
  <2>2. Unsent(f)' = Unsent(f)
    BY <2>1 DEF Unsent
  <2>3. QED
    BY <1>1, <2>1, <2>2
<1>4. QED
  BY <1>2, <1>3

\* One is received from, by the handler or by the goroutine that cleans up.
LEMMA MatchedReceive ==
  ASSUME Matching, NEW f \in Find, NEW i \in Item,
         ReceivePrice(f, i) \/ ReceiveErr(f, i) \/ CleanUp(f, i)
  PROVE  Matched(f)'
<1> USE DEF Matching, Typed, TypeOK, Matched
<1>1. /\ thread[f][i] \in Sending /\ thread' = [thread EXCEPT ![f][i] = "done"]
      /\ left' = [left EXCEPT ![f] = @ - 1] /\ todo' = todo
  BY DEF ReceivePrice, ReceiveErr, CleanUp, Received, Become, Sending
<1>2. Unsent(f)' = Unsent(f) \ {i} /\ i \in Unsent(f)
  BY <1>1 DEF Unsent, Sending
<1>3. Cardinality(Unsent(f)') = Cardinality(Unsent(f)) - 1
  BY <1>2, UnsentFinite, FS_RemoveElement
<1>4. QED
  BY <1>1, <1>3 DEF Sending

\* No goroutine has been started when the order is read.
LEMMA MatchedLoad ==
  ASSUME Matching, NEW f \in Find, LoadOrderInfo(f)
  PROVE  Matched(f)'
<1> USE DEF Matching, Typed, TypeOK, Matched
<1>1. thread[f] = [i \in Item |-> "none"] /\ UNCHANGED <<left, thread>>
  BY DEF LoadOrderInfo, goVars
<1>2. Unsent(f)' = Unsent(f)
  BY <1>1 DEF Unsent
<1>3. todo'[f] \subseteq Item
  <2>1. Typed'
    BY TypedHandle
  <2>2. QED
    BY <2>1
<1>4. QED
  BY <1>1, <1>2, <1>3

\* A step of one find leaves the others alone.
LEMMA OthersQuiet ==
  ASSUME Matching, NEW f \in Find, NEW g \in Find, g # f,
         \/ Handle(f) \/ LoadOrderInfo(f) \/ LoadOrderInfoFails(f) \/ CancelPayment(f)
         \/ \E i \in Item : Run(f, i)
  PROVE  left'[g] = left[g] /\ todo'[g] = todo[g] /\ thread'[g] = thread[g]
<1> USE DEF Matching, Typed, TypeOK, Become
<1>1. CASE \E i \in Item : Run(f, i)
  BY <1>1 DEF Run, Skip, GetCached, GetRemote, SetCached, GetFails, Found, findVars
<1>2. CASE LoadOrderInfo(f) \/ LoadOrderInfoFails(f) \/ CancelPayment(f)
  BY <1>2 DEF LoadOrderInfo, LoadOrderInfoFails, CancelPayment, goVars
<1>3. CASE Handle(f)
  BY <1>3 DEF Handle, Spawned, AnswerFound, Spawn, ReceivePrice, ReceiveErr, CleanUp, goVars
<1>4. QED
  BY <1>1, <1>2, <1>3

\* A step of a find, of its own handler or one of its goroutines.
LEMMA MatchedOwn ==
  ASSUME Matching, NEW f \in Find,
         \/ Handle(f) \/ LoadOrderInfo(f) \/ LoadOrderInfoFails(f) \/ CancelPayment(f)
         \/ \E i \in Item : Run(f, i)
  PROVE  Matched(f)'
<1>1. Matched(f) /\ todo[f] \subseteq Item
  BY DEF Matching, Typed, TypeOK
<1>2. CASE LoadOrderInfo(f)
  BY <1>2, MatchedLoad
<1>3. CASE LoadOrderInfoFails(f) \/ CancelPayment(f) \/ Spawned(f) \/ AnswerFound(f)
  <2>1. UNCHANGED <<left, todo, thread>>
    BY <1>3 DEF LoadOrderInfoFails, CancelPayment, Spawned, AnswerFound, goVars
  <2>2. QED
    BY <1>1, <2>1, MatchedQuiet
<1>4. ASSUME NEW i \in Item, Run(f, i) PROVE Matched(f)'
  <2>1. UNCHANGED <<left, todo>> /\ thread[f][i] \notin {"none", "done"}
    BY <1>4 DEF Run, Skip, GetCached, GetRemote, SetCached, GetFails, Missing, findVars
  <2>2. \E label \in ThreadLabel \ {"none", "done"} : Become(f, i, label)
    BY <1>4 DEF Run, Skip, GetCached, GetRemote, SetCached, GetFails, Found, ThreadLabel, Sending
  <2>3. \A j \in Item : thread'[f][j] = thread[f][j] \/ (j = i /\ thread'[f][j] \notin {"none", "done"})
    BY <2>2 DEF Matching, Typed, TypeOK, Become
  <2>4. QED
    BY <1>1, <2>1, <2>3, MatchedQuiet
<1>5. QED
  BY <1>2, <1>3, <1>4, MatchedSpawn, MatchedReceive DEF Handle

\* Every step keeps sends and receives matched.
LEMMA MatchingStep == Matching /\ [Next]_vars => Matching'
<1> SUFFICES ASSUME Matching, [Next]_vars, NEW g \in Find PROVE Matched(g)'
  BY TypedStep DEF Matching
<1>1. Matched(g) /\ todo[g] \subseteq Item
  BY DEF Matching, Typed, TypeOK
<1>2. CASE UNCHANGED <<left, todo, thread>>
  BY <1>1, <1>2, MatchedQuiet
<1>3. ASSUME NEW f \in Find,
             \/ Handle(f) \/ LoadOrderInfo(f) \/ LoadOrderInfoFails(f) \/ CancelPayment(f)
             \/ \E i \in Item : Run(f, i)
      PROVE  Matched(g)'
  <2>1. CASE g = f
    BY <1>3, <2>1, MatchedOwn
  <2>2. CASE g # f
    BY <1>1, <1>3, <2>2, OthersQuiet, MatchedQuiet
  <2>3. QED
    BY <2>1, <2>2
<1>4. CASE UNCHANGED vars
  BY <1>2, <1>4 DEF vars, findVars, goVars
<1>5. ASSUME \/ \E o \in Order : CreateOrder(o) \/ RemoveOrder(o) \/ Pay(o)
             \/ \E o \in Order, i \in Item : AddItem(o, i) \/ RemoveItem(o, i)
             \/ \E i \in Item : Expire(i)
      PROVE  Matched(g)'
  BY <1>2, <1>5 DEF CreateOrder, RemoveOrder, Pay, AddItem, RemoveItem, Expire, findVars, goVars
<1>6. QED
  BY <1>3, <1>4, <1>5 DEF Next

\* The handler and the goroutine that cleans up after it receive exactly as often
\* as goroutines have something left to send, whatever fails and whenever the
\* loop breaks off.
THEOREM Matches == Spec => []ReceivesMatchSends
<1>1. Init => Matching
  BY TypedInit, MatchedInit DEF Matching
<1>2. Matching => ReceivesMatchSends
  BY DEF Matching, Matched, ReceivesMatchSends
<1>3. QED
  BY <1>1, <1>2, MatchingStep, PTL DEF Spec

-----------------------------------------------------------------------------
(* The total is the price of the cart                                      *)

\* A cached price is the item's.
Cached == \A i \in Item : cache[i] = NoPrice \/ cache[i] = Price[i]

\* What the goroutines that have been received from have brought.
Gathered(f) == [i \in Item |-> IF thread[f][i] = "done" THEN Price[i] * info[f][i] ELSE 0]

\* As long as no error has been received, the total is the price of what has
\* been received; the loop has a goroutine for every item it has come to, and
\* breaks off only when one is about to send an error.
Costed(f) ==
  /\ pc[f] = "idle" => ~abort[f] /\ total[f] = 0
  /\ pc[f] \in {"spawn", "collect"} =>
       /\ total[f] = SumFunction(Gathered(f))
       /\ \A i \in Item : info[f][i] > 0 /\ thread[f][i] = "none" => i \in todo[f]
       /\ abort[f] => \E i \in Item : thread[f][i] = "sendErr"
       /\ pc[f] = "collect" /\ todo[f] # {} => abort[f]
  /\ pc[f] \in {"ok", "refunded"} => total[f] = Cost(info[f])
  /\ \A i \in Item : thread[f][i] \in {"set", "sendPrice"} => price[f][i] = Price[i]

Costing == Matching /\ Cached /\ \A f \in Find : Costed(f)

\* At the start nothing has been received.
LEMMA CostingInit == Init => Costing
<1> SUFFICES ASSUME Init PROVE Costing
  OBVIOUS
<1>1. Matching
  BY TypedInit, MatchedInit DEF Matching
<1>2. Cached
  BY DEF Init, Cached
<1>3. \A f \in Find : Costed(f)
  BY DEF Init, Costed
<1>4. QED
  BY <1>1, <1>2, <1>3 DEF Costing

\* The amount of an item that has a goroutine is a number.
LEMMA AmountType ==
  ASSUME Typed, NEW f \in Find, NEW i \in Item, thread[f][i] # "none"
  PROVE  Price[i] \in Nat /\ info[f][i] \in Nat
<1>1. info[f][i] > 0 /\ info[f][i] \in Nat \cup {NoField}
  BY DEF Typed, TypeOK, Running
<1>2. info[f][i] \in Nat
  BY <1>1 DEF NoField
<1>3. QED
  BY <1>2, CartConstants

\* A price times an amount, as far as goroutines have been started.
LEMMA GatheredType ==
  ASSUME Typed, NEW f \in Find
  PROVE  Gathered(f) \in [Item -> Nat]
<1>1. ASSUME NEW i \in Item, thread[f][i] = "done" PROVE Price[i] * info[f][i] \in Nat
  <2>1. Price[i] \in Nat /\ info[f][i] \in Nat
    BY <1>1, AmountType
  <2>2. QED
    BY <2>1, NatProduct
<1>2. QED
  BY <1>1 DEF Gathered

\* It depends on the find's own variables only.
LEMMA CostedQuiet ==
  ASSUME NEW f \in Find, Costed(f),
         pc'[f] = pc[f], info'[f] = info[f], todo'[f] = todo[f], abort'[f] = abort[f],
         thread'[f] = thread[f], price'[f] = price[f], total'[f] = total[f]
  PROVE  Costed(f)'
<1>1. Gathered(f)' = Gathered(f)
  BY DEF Gathered
<1>2. QED
  BY <1>1 DEF Costed, Cost

\* A step of one find leaves the others alone.
LEMMA OthersCosted ==
  ASSUME Costing, NEW f \in Find, NEW g \in Find, g # f,
         \/ Handle(f) \/ LoadOrderInfo(f) \/ LoadOrderInfoFails(f) \/ CancelPayment(f)
         \/ \E i \in Item : Run(f, i)
  PROVE  Costed(g)'
<1>1. todo'[g] = todo[g] /\ thread'[g] = thread[g]
  BY OthersQuiet DEF Costing
<1>2. /\ pc'[g] = pc[g] /\ info'[g] = info[g] /\ abort'[g] = abort[g]
      /\ price'[g] = price[g] /\ total'[g] = total[g]
  <2> USE DEF Costing, Matching, Typed, TypeOK, Goto
  <2>1. CASE \E i \in Item : Run(f, i)
    BY <2>1 DEF Run, Skip, GetCached, GetRemote, SetCached, GetFails, Found, findVars
  <2>2. CASE LoadOrderInfo(f) \/ LoadOrderInfoFails(f) \/ CancelPayment(f)
    BY <2>2 DEF LoadOrderInfo, LoadOrderInfoFails, CancelPayment, goVars
  <2>3. CASE Handle(f)
    BY <2>3 DEF Handle, Spawned, AnswerFound, Spawn, ReceivePrice, ReceiveErr, CleanUp, goVars
  <2>4. QED
    BY <2>1, <2>2, <2>3
<1>3. QED
  BY <1>1, <1>2, CostedQuiet DEF Costing

\* A goroutine finds the item's price, or raises the flag and is about to send.
LEMMA CostedRun ==
  ASSUME Costing, NEW f \in Find, NEW i \in Item, Run(f, i)
  PROVE  Cached' /\ Costed(f)'
<1> USE DEF Costing, Matching
<1>1. /\ UNCHANGED <<pc, info, todo, total>> /\ thread[f][i] \in {"start", "remote", "set"}
  BY DEF Run, Skip, GetCached, GetRemote, SetCached, GetFails, Missing, findVars
<1>2. PICK label \in {"remote", "set", "sendPrice", "sendErr"} : Become(f, i, label)
  BY DEF Run, Skip, GetCached, GetRemote, SetCached, GetFails, Found
<1>3. /\ thread'[f][i] = label
      /\ \A j \in Item \ {i} : thread'[f][j] = thread[f][j]
  BY <1>2 DEF Typed, TypeOK, Become
<1>4. Gathered(f)' = Gathered(f)
  BY <1>1, <1>3 DEF Gathered
<1>5. pc[f] # "idle"
  BY <1>1 DEF Typed
<1>6. /\ Cached'
      /\ \A j \in Item \ {i} : price'[f][j] = price[f][j]
      /\ label \in {"set", "sendPrice"} => price'[f][i] = Price[i]
      /\ abort'[f] => abort[f] \/ label = "sendErr"
      /\ abort[f] => abort'[f]
  <2>1. price \in [Find -> [Item -> Nat]] /\ abort \in [Find -> BOOLEAN]
        /\ cache \in [Item -> Nat \cup {NoPrice}] /\ label = thread'[f][i]
        /\ thread \in [Find -> [Item -> ThreadLabel]]
    BY <1>3 DEF Typed, TypeOK
  <2>2. CASE Skip(f, i)
    BY <2>1, <2>2 DEF Skip, Become, Cached, findVars
  <2>3. CASE GetCached(f, i)
    <3>1. CASE cache[i] = NoPrice
      BY <2>1, <2>3, <3>1 DEF GetCached, Become, Cached, findVars
    <3>2. CASE cache[i] # NoPrice
      <4>1. cache[i] = Price[i] /\ UNCHANGED <<cache, abort>>
        BY <2>3, <3>2 DEF GetCached, Cached, findVars
      <4>2. price' = [price EXCEPT ![f][i] = cache[i]] /\ label = "sendPrice"
        BY <2>1, <2>3, <3>2 DEF GetCached, Found, Become
      <4>3. QED
        BY <2>1, <4>1, <4>2 DEF Cached
    <3>3. QED
      BY <3>1, <3>2
  <2>4. CASE GetRemote(f, i)
    BY <2>1, <2>4 DEF GetRemote, Found, Become, Cached, findVars
  <2>5. CASE SetCached(f, i)
    <3>1. /\ price[f][i] = Price[i] /\ UNCHANGED <<price, abort>>
          /\ cache' = cache \/ cache' = [cache EXCEPT ![i] = price[f][i]]
      BY <2>5 DEF SetCached, findVars, Costed
    <3>2. Cached'
      BY <2>1, <3>1 DEF Cached
    <3>3. QED
      BY <3>1, <3>2
  <2>6. CASE GetFails(f, i)
    BY <2>1, <2>6 DEF GetFails, Become, Cached
  <2>7. QED
    BY <2>2, <2>3, <2>4, <2>5, <2>6 DEF Run
<1>7. ASSUME pc[f] \in {"spawn", "collect"}, abort'[f]
      PROVE  \E j \in Item : thread'[f][j] = "sendErr"
  <2>1. CASE label = "sendErr"
    BY <1>3, <2>1
  <2>2. CASE label # "sendErr"
    <3>1. PICK j \in Item : thread[f][j] = "sendErr"
      BY <1>6, <1>7, <2>2 DEF Costed
    <3>2. j # i
      BY <1>1, <3>1
    <3>3. QED
      BY <1>3, <3>1, <3>2
  <2>3. QED
    BY <2>1, <2>2
<1>8. \A j \in Item : thread'[f][j] \in {"set", "sendPrice"} => price'[f][j] = Price[j]
  BY <1>3, <1>6 DEF Costed
<1>9. \A j \in Item : thread'[f][j] = "none" => thread[f][j] = "none"
  BY <1>2, <1>3
<1>10. QED
  BY <1>1, <1>4, <1>5, <1>6, <1>7, <1>8, <1>9 DEF Costed, Cost

\* A price that is received is added, times the amount in the cart.
LEMMA CostedReceive ==
  ASSUME Costing, NEW f \in Find, NEW i \in Item, ReceivePrice(f, i)
  PROVE  Costed(f)'
<1> USE DEF Costing, Matching
<1>0. Typed /\ Typed'
  BY TypedHandle DEF Handle
<1>1. /\ pc[f] = "collect" /\ thread[f][i] = "sendPrice"
      /\ UNCHANGED <<pc, info, todo, abort, price>>
  BY DEF ReceivePrice
<1>2. /\ thread'[f][i] = "done"
      /\ \A j \in Item \ {i} : thread'[f][j] = thread[f][j]
      /\ total'[f] = total[f] + price[f][i] * info[f][i]
  BY DEF ReceivePrice, Become, Typed, TypeOK
<1>3. price[f][i] = Price[i]
  BY <1>1 DEF Costed
<1>4. Gathered(f) \in [Item -> Nat] /\ Gathered(f)' \in [Item -> Nat]
  <2>1. \A j \in Item : Gathered(f)'[j] \in Nat
    <3>1. Gathered(f) \in [Item -> Nat]
      BY GatheredType
    <3>2. ASSUME NEW j \in Item \ {i} PROVE Gathered(f)'[j] = Gathered(f)[j]
      BY <1>1, <1>2 DEF Gathered
    <3>3. Gathered(f)'[i] = Price[i] * info[f][i]
      BY <1>1, <1>2 DEF Gathered
    <3>4. Price[i] \in Nat /\ info[f][i] \in Nat
      BY <1>1, AmountType
    <3>5. QED
      BY <3>1, <3>2, <3>3, <3>4, NatProduct
  <2>2. QED
    BY <2>1, GatheredType DEF Gathered
<1>5. /\ Gathered(f)[i] = 0 /\ Gathered(f)'[i] = price[f][i] * info[f][i]
      /\ \A j \in Item \ {i} : Gathered(f)'[j] = Gathered(f)[j]
  BY <1>1, <1>2, <1>3 DEF Gathered
<1>6. SumFunction(Gathered(f)') = SumFunction(Gathered(f)) + price[f][i] * info[f][i]
  BY <1>4, <1>5, CartConstants, SumOneMore
<1>7. total'[f] = SumFunction(Gathered(f)')
  BY <1>1, <1>2, <1>6 DEF Costed
<1>8. ASSUME abort[f] PROVE \E j \in Item : thread'[f][j] = "sendErr"
  <2>1. PICK j \in Item : thread[f][j] = "sendErr"
    BY <1>1, <1>8 DEF Costed
  <2>2. QED
    BY <1>1, <1>2, <2>1
<1>9. /\ \A j \in Item : thread'[f][j] \in {"set", "sendPrice"} => thread'[f][j] = thread[f][j]
      /\ \A j \in Item : thread'[f][j] = "none" => thread[f][j] = "none"
  BY <1>2
<1>10. QED
  BY <1>1, <1>7, <1>8, <1>9 DEF Costed

\* When nothing is left to be received, every item has been paid for.
LEMMA CostedAnswer ==
  ASSUME Costing, NEW f \in Find, AnswerFound(f)
  PROVE  Costed(f)'
<1> USE DEF Costing, Matching
<1>1. /\ pc[f] = "collect" /\ left[f] = 0 /\ pc'[f] = "ok"
      /\ UNCHANGED <<info, todo, abort, thread, price, total>>
  BY DEF AnswerFound, SomeLeft, Goto, goVars, Typed, TypeOK
<1>2. \A i \in Item : thread[f][i] \in {"none", "done"}
  <2>1. Cardinality(Unsent(f)) = 0
    BY <1>1 DEF Matched
  <2>2. Unsent(f) = {}
    BY <2>1, UnsentFinite, FS_EmptySet
  <2>3. QED
    BY <2>2 DEF Unsent
<1>3. ~abort[f] /\ todo[f] = {}
  BY <1>1, <1>2 DEF Costed
<1>4. \A i \in Item : thread[f][i] = "done" <=> info[f][i] > 0
  BY <1>1, <1>2, <1>3 DEF Costed, Typed, Running
<1>5. Gathered(f) = [i \in Item |-> IF info[f][i] > 0 THEN Price[i] * info[f][i] ELSE 0]
  BY <1>4 DEF Gathered
<1>6. total[f] = Cost(info[f])
  BY <1>1, <1>5 DEF Costed, Cost
<1>7. QED
  BY <1>1, <1>6 DEF Costed, Cost

\* The other steps of the handler.
LEMMA CostedHandle ==
  ASSUME Costing, NEW f \in Find,
         Handle(f) \/ LoadOrderInfo(f) \/ LoadOrderInfoFails(f) \/ CancelPayment(f)
  PROVE  Costed(f)'
<1> USE DEF Costing, Matching
<1>0. Typed /\ Costed(f)
  OBVIOUS
<1>1. CASE LoadOrderInfo(f)
  <2>1. /\ pc[f] = "idle" /\ UNCHANGED <<abort, total, thread, price>>
        /\ thread[f] = [i \in Item |-> "none"]
    BY <1>1 DEF LoadOrderInfo, goVars, Typed
  <2>2. CASE status[OrderOf[f]] \notin {"unpaid", "paid"}
    <3>1. pc'[f] = "notFound"
      BY <1>1, <2>2 DEF LoadOrderInfo, Goto, Typed, TypeOK
    <3>2. QED
      BY <2>1, <3>1 DEF Costed
  <2>3. CASE status[OrderOf[f]] \in {"unpaid", "paid"}
    <3>1. /\ pc'[f] = "spawn" /\ info'[f] = cart[OrderOf[f]]
          /\ todo'[f] = {i \in Item : cart[OrderOf[f]][i] # NoField}
      BY <1>1, <2>3 DEF LoadOrderInfo, Goto, Typed, TypeOK
    <3>2. \A i \in Item : info'[f][i] > 0 => i \in todo'[f]
      BY <3>1 DEF NoField
    <3>3. /\ \A i \in Item : Gathered(f)'[i] = 0
          /\ DOMAIN Gathered(f)' = Item
      BY <2>1 DEF Gathered
    <3>4. SumFunctionOnSet(Gathered(f)', Item) = 0
      BY <3>3, CartConstants, SumZero
    <3>5. SumFunction(Gathered(f)') = 0
      BY <3>3, <3>4 DEF SumFunction
    <3>6. QED
      BY <2>1, <3>1, <3>2, <3>5 DEF Costed
  <2>4. QED
    BY <2>2, <2>3
<1>2. CASE LoadOrderInfoFails(f)
  BY <1>2 DEF LoadOrderInfoFails, Goto, goVars, Costed, Typed, TypeOK
<1>3. CASE CancelPayment(f)
  <2>1. /\ pc[f] = "ok" /\ pc'[f] = "refunded"
        /\ UNCHANGED <<info, thread, price, total>>
    BY <1>3 DEF CancelPayment, Goto, goVars, Typed, TypeOK
  <2>2. QED
    BY <1>0, <2>1 DEF Costed, Cost
<1>4. CASE Spawned(f)
  <2>1. /\ pc[f] = "spawn" /\ pc'[f] = "collect" /\ (todo[f] = {} \/ abort[f])
        /\ UNCHANGED <<info, todo, abort, thread, price, total>>
    BY <1>4 DEF Spawned, Goto, goVars, Typed, TypeOK
  <2>2. Gathered(f)' = Gathered(f)
    BY <2>1 DEF Gathered
  <2>3. QED
    BY <1>0, <2>1, <2>2 DEF Costed
<1>5. ASSUME NEW i \in Item, Spawn(f, i) PROVE Costed(f)'
  <2>1. /\ pc[f] = "spawn" /\ i \in todo[f] /\ thread[f][i] = "none" /\ ~abort[f]
        /\ UNCHANGED <<pc, info, abort, total, price>> /\ todo'[f] = todo[f] \ {i}
    BY <1>5 DEF Spawn, Matched, Typed, TypeOK
  <2>2. /\ thread'[f][i] = IF info[f][i] > 0 THEN "start" ELSE "none"
        /\ \A j \in Item \ {i} : thread'[f][j] = thread[f][j]
    BY <1>5, <2>1 DEF Spawn, Become, Typed, TypeOK
  <2>3. Gathered(f)' = Gathered(f)
    BY <2>1, <2>2 DEF Gathered
  <2>4. /\ \A j \in Item : info[f][j] > 0 /\ thread'[f][j] = "none" => j \in todo'[f]
        /\ \A j \in Item : thread'[f][j] \in {"set", "sendPrice"} => price[f][j] = Price[j]
    BY <1>0, <2>1, <2>2 DEF Costed
  <2>5. QED
    BY <1>0, <2>1, <2>3, <2>4 DEF Costed
<1>6. ASSUME NEW i \in Item, ReceiveErr(f, i) \/ CleanUp(f, i) PROVE Costed(f)'
  <2>1. /\ pc'[f] = "notFound" /\ UNCHANGED price
        /\ \A j \in Item : thread'[f][j] \in {"done", thread[f][j]}
    BY <1>6 DEF ReceiveErr, CleanUp, Goto, Become, Typed, TypeOK
  <2>2. QED
    BY <1>0, <2>1 DEF Costed
<1>7. QED
  BY <1>1, <1>2, <1>3, <1>4, <1>5, <1>6, CostedReceive, CostedAnswer DEF Handle

\* Costing is an inductive invariant.
LEMMA CostingStep == Costing /\ [Next]_vars => Costing'
<1> SUFFICES ASSUME Costing, [Next]_vars PROVE Costing'
  OBVIOUS
<1>1. Matching'
  BY MatchingStep DEF Costing
<1>2. ASSUME UNCHANGED <<findVars, goVars>> PROVE \A g \in Find : Costed(g)'
  BY <1>2, CostedQuiet DEF Costing, findVars, goVars
<1>3. ASSUME NEW f \in Find,
             \/ Handle(f) \/ LoadOrderInfo(f) \/ LoadOrderInfoFails(f) \/ CancelPayment(f)
             \/ \E i \in Item : Run(f, i)
      PROVE  Cached' /\ \A g \in Find : Costed(g)'
  <2>1. Cached'
    <3>1. CASE \E i \in Item : Run(f, i)
      BY <3>1, CostedRun
    <3>2. CASE Handle(f) \/ LoadOrderInfo(f) \/ LoadOrderInfoFails(f) \/ CancelPayment(f)
      <4>1. cache' = cache
        BY <3>2 DEF Handle, LoadOrderInfo, LoadOrderInfoFails, CancelPayment, Spawned,
                    AnswerFound, Spawn, ReceivePrice, ReceiveErr, CleanUp
      <4>2. QED
        BY <4>1 DEF Costing, Cached
    <3>3. QED
      BY <1>3, <3>1, <3>2
  <2>2. Costed(f)'
    BY <1>3, CostedRun, CostedHandle
  <2>3. QED
    BY <1>3, <2>1, <2>2, OthersCosted
<1>4. CASE UNCHANGED vars
  BY <1>1, <1>2, <1>4 DEF Costing, Cached, vars
<1>5. CASE \/ \E o \in Order : CreateOrder(o) \/ RemoveOrder(o) \/ Pay(o)
           \/ \E o \in Order, i \in Item : AddItem(o, i) \/ RemoveItem(o, i)
  <2>1. UNCHANGED <<cache, findVars, goVars>>
    BY <1>5 DEF CreateOrder, RemoveOrder, Pay, AddItem, RemoveItem
  <2>2. QED
    BY <1>1, <1>2, <2>1 DEF Costing, Cached
<1>6. CASE \E i \in Item : Expire(i)
  <2>1. UNCHANGED <<findVars, goVars>>
    BY <1>6 DEF Expire
  <2>2. Cached'
    BY <1>6 DEF Expire, Costing, Cached, Matching, Typed, TypeOK
  <2>3. QED
    BY <1>1, <1>2, <2>1, <2>2 DEF Costing
<1>7. QED
  BY <1>1, <1>3, <1>4, <1>5, <1>6 DEF Next, Costing

\* What /find answers, and what cancelPayment gives back, is the price of the
\* whole cart as the order had it when it was read, for every cart: no item is
\* left out when the loop breaks off and none counted twice.
THEOREM CostAnswered == Spec => []TotalIsCost
<1>1. Costing => TotalIsCost
  BY DEF Costing, Costed, TotalIsCost
<1>2. QED
  BY <1>1, CostingInit, CostingStep, PTL DEF Spec

=============================================================================
