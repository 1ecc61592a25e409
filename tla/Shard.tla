------------------------------- MODULE Shard -------------------------------
(***************************************************************************)
(* How an id finds its database (common/shard.go).  The order service      *)
(* picks the machine id out of an item's id, rune by rune, and sends what  *)
(* concerns that machine under the made-up key "t1m"<machine id>"s0"       *)
(* (order/checkout_prepare.go:163); the stock service picks the machine id *)
(* out of the key again and indexes its databases with it.                 *)
(***************************************************************************)
EXTENDS Integers, FiniteSets, Sequences, SequencesExt

CONSTANTS
  Value,      \* the digits, with their values
  Databases,  \* len(sr.rdbs)
  MaxLength   \* bound: the longest id

ASSUME ShardConstants ==
  /\ DOMAIN Value \cap {"t", "m", "s"} = {}
  /\ \A digit \in DOMAIN Value : Value[digit] \in 0..9
  /\ Databases \in Nat \ {0} /\ MaxLength \in Nat

Rune == DOMAIN Value \cup {"t", "m", "s"}

Nil == 0

VARIABLES
  sid,        \* the id or key that is looked at
  i,          \* its next rune
  start,      \* the local variables of SnowflakeIDPickMachineIdFast
  sb,
  db,         \* what Route has returned: Nil, or the number of a database
  pc,
  item        \* history: the id the key was made from, and its machine id

vars == <<sid, i, start, sb, db, pc, item>>

\* A client may name any id.
Init ==
  /\ sid \in BoundedSeq(Rune, MaxLength)
  /\ i = 1 /\ start = FALSE /\ sb = <<>> /\ db = Nil
  /\ pc = "pick"
  /\ item = <<>>

-----------------------------------------------------------------------------
(* SnowflakeIDPickMachineIdFast                                            *)

Rest == pc = "pick" /\ i <= Len(sid)

PickM ==
  /\ Rest /\ sid[i] = "m"
  /\ start' = TRUE /\ i' = i + 1
  /\ UNCHANGED <<sid, sb, db, pc, item>>

PickS ==
  /\ Rest /\ sid[i] = "s"
  /\ pc' = "route"
  /\ UNCHANGED <<sid, i, start, sb, db, item>>

\* Mutant: what comes before the "m" is taken too.
PickOtherAlways ==
  /\ Rest /\ sid[i] \notin {"m", "s"}
  /\ sb' = Append(sb, sid[i])
  /\ i' = i + 1
  /\ UNCHANGED <<sid, start, db, pc, item>>

PickOther ==
  /\ Rest /\ sid[i] \notin {"m", "s"}
  /\ sb' = IF start THEN Append(sb, sid[i]) ELSE sb
  /\ i' = i + 1
  /\ UNCHANGED <<sid, start, db, pc, item>>

PickEnds ==
  /\ pc = "pick" /\ i > Len(sid)
  /\ pc' = "route"
  /\ UNCHANGED <<sid, i, start, sb, db, item>>

-----------------------------------------------------------------------------
(* Route                                                                   *)

\* strconv.Atoi of a string without a sign.
IsNumber(word) == word # <<>> /\ \A k \in DOMAIN word : word[k] \in DOMAIN Value

Atoi(word) == FoldLeft(LAMBDA n, digit : 10 * n + Value[digit], 0, word)

InRange(rId) == rId - 1 >= 0 /\ rId - 1 < Databases

Route ==
  /\ pc = "route"
  /\ db' = IF IsNumber(sb) /\ InRange(Atoi(sb)) THEN Atoi(sb) ELSE Nil
  /\ pc' = IF item = <<>> THEN "routed" ELSE "relayed"
  /\ UNCHANGED <<sid, i, start, sb, item>>

\* Mutant: the machine id without the rest of an id around it.
ShardKeyBare(mId) == <<"t", "1">> \o mId

ShardKey(mId) == <<"t", "1", "m">> \o mId \o <<"s", "0">>

\* The machine id goes to the stock service in a key of its own.
Relay ==
  /\ pc = "routed"
  /\ item' = <<sid, sb, db>>
  /\ sid' = ShardKey(sb)
  /\ i' = 1 /\ start' = FALSE /\ sb' = <<>> /\ db' = Nil
  /\ pc' = "pick"

Next == PickM \/ PickS \/ PickOther \/ PickEnds \/ Route \/ Relay

Spec == Init /\ [][Next]_vars

-----------------------------------------------------------------------------
(* Properties                                                              *)

\* The places up to n that stand behind an "m" and before any "s", the "m" left out.
Within(word, n) ==
  {k \in 1..n : /\ word[k] # "m" /\ \E j \in 1..k : word[j] = "m"
                /\ \A j \in 1..k : word[j] # "s"}

\* "faster but not 100% safe" (common/shard.go:42): what is picked is what stands
\* between the first "m" and the first "s", in order and with further "m" dropped,
\* so that an id of the generator, t<digits>m<digits>s<digits>, gives its machine id.
PicksMachineId ==
  pc # "pick" =>
    /\ Len(sb) = Cardinality(Within(sid, Len(sid)))
    /\ \A k \in Within(sid, Len(sid)) : sb[Cardinality(Within(sid, k))] = sid[k]

\* Whatever id a cart names, the database that is asked under the made-up key is
\* the one the item itself is on, and it finds the machine id that it checks its
\* items against (stock/transaction.go:92).
KeyRoutesAsItem == pc = "relayed" => sb = item[2] /\ db = item[3]

=============================================================================
