---------------------------- MODULE ShardProofs ----------------------------
(***************************************************************************)
(* Proofs about Shard, for ids of any length over any digits, and any      *)
(* number of databases: the machine id is picked out of the id, and the    *)
(* key that is made up for it leads to it and to its database.             *)
(***************************************************************************)
EXTENDS Shard, SequenceTheorems, FiniteSetTheorems, TLAPS

\* What Route returns for a machine id.
Found(word) ==
  IF IsNumber(word) /\ InRange(Atoi(word)) THEN Atoi(word) ELSE Nil

KeyRune == Rune \cup {"t", "1", "m", "s", "0"}

\* A word without the runes that stand around a machine id.
Plain(word) == word \in Seq(KeyRune) /\ \A k \in 1..Len(word) : word[k] \notin {"m", "s"}

\* Where the loop stands in the key that was made of word: it has not come to
\* the "m", or it has picked as much of word as it has passed.
InKey(word) ==
  /\ sid = ShardKey(word)
  /\ pc = "pick" =>
       \/ i \in 1..3 /\ ~start /\ sb = <<>>
       \/ /\ i = Len(sb) + 4 /\ start /\ Len(sb) <= Len(word)
          /\ \A k \in 1..Len(sb) : sb[k] = word[k]
  /\ pc \in {"route", "relayed"} => sb = word

\* First the id itself is looked at, then the key.
Keyed ==
  /\ sid \in Seq(KeyRune) /\ i \in Nat \ {0} /\ start \in BOOLEAN
  /\ pc \in {"pick", "route", "routed", "relayed"}
  /\ Plain(sb)
  /\ pc = "routed" => db = Found(sb)
  /\ pc = "routed" => item = <<>>
  /\ pc = "relayed" => item # <<>>
  /\ item # <<>> =>
       /\ Plain(item[2]) /\ item[3] = Found(item[2])
       /\ InKey(item[2])
       /\ pc = "relayed" => db = Found(sb)

\* The made-up key, rune by rune.
LEMMA KeyRunes ==
  ASSUME NEW word \in Seq(KeyRune)
  PROVE  /\ ShardKey(word) \in Seq(KeyRune)
         /\ Len(ShardKey(word)) = Len(word) + 5
         /\ ShardKey(word)[1] = "t" /\ ShardKey(word)[2] = "1" /\ ShardKey(word)[3] = "m"
         /\ \A k \in 1..Len(word) : ShardKey(word)[k + 3] = word[k]
         /\ ShardKey(word)[Len(word) + 4] = "s"
<1> DEFINE a == <<"t", "1", "m">>
           z == <<"s", "0">>
<1>1. a \in Seq(KeyRune) /\ Len(a) = 3 /\ a[1] = "t" /\ a[2] = "1" /\ a[3] = "m"
  BY DEF KeyRune
<1>2. z \in Seq(KeyRune) /\ Len(z) = 2 /\ z[1] = "s"
  BY DEF KeyRune
<1>3. ShardKey(word) = (a \o word) \o z
  BY DEF ShardKey
<1> HIDE DEF a, z
<1>4. Len(word) \in Nat
  BY LenProperties
<1>5. /\ a \o word \in Seq(KeyRune) /\ Len(a \o word) = Len(word) + 3
      /\ \A k \in 1..Len(word) + 3 : (a \o word)[k] = IF k <= 3 THEN a[k] ELSE word[k - 3]
  <2>1. /\ a \o word \in Seq(KeyRune) /\ Len(a \o word) = Len(a) + Len(word)
        /\ \A k \in 1..Len(a) + Len(word) :
             (a \o word)[k] = IF k <= Len(a) THEN a[k] ELSE word[k - Len(a)]
    BY <1>1, ConcatProperties
  <2>2. QED
    BY <1>1, <1>4, <2>1
<1> DEFINE b == a \o word
<1> HIDE DEF b
<1>6. /\ b \o z \in Seq(KeyRune) /\ Len(b \o z) = Len(word) + 5
      /\ \A k \in 1..Len(word) + 5 :
           (b \o z)[k] = IF k <= Len(word) + 3 THEN b[k] ELSE z[k - (Len(word) + 3)]
  <2>1. b \in Seq(KeyRune) /\ Len(b) = Len(word) + 3
    BY <1>5 DEF b
  <2>2. /\ b \o z \in Seq(KeyRune) /\ Len(b \o z) = Len(b) + Len(z)
        /\ \A k \in 1..Len(b) + Len(z) :
             (b \o z)[k] = IF k <= Len(b) THEN b[k] ELSE z[k - Len(b)]
    BY <1>2, <2>1, ConcatProperties
  <2>3. QED
    BY <1>2, <1>4, <2>1, <2>2
<1>7. \A k \in 1..Len(word) : (b \o z)[k + 3] = word[k]
  <2>1. \A k \in 1..Len(word) : b[k + 3] = word[k]
    BY <1>4, <1>5 DEF b
  <2>2. QED
    BY <1>4, <1>6, <2>1
<1>8. (b \o z)[1] = "t" /\ (b \o z)[2] = "1" /\ (b \o z)[3] = "m"
  <2>1. b[1] = "t" /\ b[2] = "1" /\ b[3] = "m"
    BY <1>1, <1>4, <1>5 DEF b
  <2>2. QED
    BY <1>4, <1>6, <2>1
<1>9. (b \o z)[Len(word) + 4] = "s"
  BY <1>2, <1>4, <1>6
<1>10. ShardKey(word) = b \o z
  BY <1>3 DEF b
<1>11. QED
  BY <1>6, <1>7, <1>8, <1>9, <1>10

\* Nothing has been picked yet.
LEMMA NothingPicked == Plain(<<>>) /\ Len(<<>>) = 0
<1>1. <<>> \in Seq(KeyRune) /\ Len(<<>>) = 0
  BY EmptySeq
<1>2. QED
  BY <1>1 DEF Plain

\* One rune more.
LEMMA PlainAppend ==
  ASSUME NEW word, Plain(word), NEW rune \in KeyRune, rune \notin {"m", "s"}
  PROVE  /\ Plain(Append(word, rune)) /\ Len(Append(word, rune)) = Len(word) + 1
         /\ \A k \in 1..Len(word) : Append(word, rune)[k] = word[k]
         /\ Append(word, rune)[Len(word) + 1] = rune
<1>1. word \in Seq(KeyRune) /\ Len(word) \in Nat
  BY LenProperties DEF Plain
<1>2. /\ Append(word, rune) \in Seq(KeyRune)
      /\ Len(Append(word, rune)) = Len(word) + 1
      /\ \A k \in 1..Len(word) : Append(word, rune)[k] = word[k]
      /\ Append(word, rune)[Len(word) + 1] = rune
  BY <1>1, AppendProperties
<1>3. \A k \in 1..Len(word) + 1 : Append(word, rune)[k] \notin {"m", "s"}
  BY <1>1, <1>2 DEF Plain
<1>4. QED
  BY <1>2, <1>3 DEF Plain

\* A client's id is some word.
LEMMA KeyedInit == Init => Keyed
<1> SUFFICES ASSUME Init PROVE Keyed
  OBVIOUS
<1>1. sid \in Seq(KeyRune)
  <2>1. PICK n \in 0..MaxLength : sid \in [1..n -> Rune]
    BY DEF Init, BoundedSeq, SeqOf
  <2>2. n \in Nat /\ sid \in [1..n -> KeyRune]
    BY <2>1 DEF KeyRune
  <2>3. QED
    BY <2>2, SeqDef
<1>2. i = 1 /\ start = FALSE /\ sb = <<>> /\ pc = "pick" /\ item = <<>>
  BY DEF Init
<1>3. QED
  <2>1. i \in Nat \ {0} /\ start \in BOOLEAN /\ pc \in {"pick", "route", "routed", "relayed"}
    <3>1. start \in BOOLEAN
      BY <1>2, Zenon
    <3>2. QED
      BY <1>2, <3>1
  <2>2. Plain(sb)
    BY <1>2, NothingPicked
  <2>3. pc # "routed" /\ pc # "relayed"
    BY <1>2
  <2>4. QED
    BY <1>1, <1>2, <2>1, <2>2, <2>3 DEF Keyed

\* The next rune of a key is the next of the word in it.
LEMMA KeyNext ==
  ASSUME Keyed, item # <<>>, pc = "pick"
  PROVE  /\ i <= Len(sid)
         /\ i \in 1..2 => sid[i] \notin {"m", "s"} /\ ~start /\ sb = <<>>
         /\ i = 3 => sid[i] = "m" /\ ~start /\ sb = <<>>
         /\ i > 3 => IF Len(sb) = Len(item[2]) THEN sid[i] = "s"
                                              ELSE sid[i] = item[2][Len(sb) + 1]
<1> DEFINE word == item[2]
<1>1. Plain(word) /\ InKey(word) /\ Plain(sb)
  BY DEF Keyed
<1>2. word \in Seq(KeyRune) /\ Len(word) \in Nat /\ Len(sb) \in Nat
  BY <1>1, LenProperties DEF Plain
<1>3. sid = ShardKey(word) /\ i \in Nat \ {0}
  BY <1>1 DEF InKey, Keyed
<1> HIDE DEF word
<1>4. /\ Len(sid) = Len(word) + 5 /\ sid[1] = "t" /\ sid[2] = "1" /\ sid[3] = "m"
      /\ \A k \in 1..Len(word) : sid[k + 3] = word[k]
      /\ sid[Len(word) + 4] = "s"
  BY <1>2, <1>3, KeyRunes
<1>5. CASE i \in 1..3 /\ ~start /\ sb = <<>>
  BY <1>2, <1>4, <1>5
<1>6. CASE i = Len(sb) + 4 /\ Len(sb) <= Len(word)
  <2>1. CASE Len(sb) = Len(word)
    BY <1>2, <1>4, <1>6, <2>1 DEF word
  <2>2. CASE Len(sb) # Len(word)
    <3>1. Len(sb) + 1 \in 1..Len(word)
      BY <1>2, <1>6, <2>2
    <3>2. sid[(Len(sb) + 1) + 3] = word[Len(sb) + 1]
      BY <1>4, <3>1
    <3>3. (Len(sb) + 1) + 3 = i
      BY <1>2, <1>6
    <3>4. QED
      BY <1>2, <1>4, <1>6, <2>2, <3>2, <3>3 DEF word
  <2>3. QED
    BY <2>1, <2>2
<1>7. QED
  BY <1>1, <1>5, <1>6 DEF InKey, word

\* Every step of the loop keeps its place in the key.
LEMMA KeyedStep == Keyed /\ [Next]_(vars) => Keyed'
<1> SUFFICES ASSUME Keyed, [Next]_(vars) PROVE Keyed'
  OBVIOUS
<1>0. Plain(sb) /\ Len(sb) \in Nat /\ i \in Nat
  BY LenProperties DEF Keyed, Plain
<1>1. CASE PickM
  <2>1. /\ pc = "pick" /\ sid[i] = "m" /\ start' = TRUE /\ i' = i + 1
        /\ UNCHANGED <<sid, sb, db, pc, item>>
    BY <1>1 DEF PickM, Rest
  <2>2. item # <<>> => InKey(item[2])'
    <3>1. SUFFICES ASSUME item # <<>> PROVE InKey(item[2])'
      OBVIOUS
    <3>2. Plain(item[2]) /\ InKey(item[2])
      BY <3>1 DEF Keyed
    <3>3. ASSUME i > 3 PROVE FALSE
      <4>1. Len(item[2]) \in Nat /\ Len(sb) # Len(item[2]) /\ sid[i] = item[2][Len(sb) + 1]
        BY <2>1, <3>1, <3>2, <3>3, KeyNext, LenProperties DEF Plain
      <4>2. Len(sb) + 1 \in 1..Len(item[2])
        BY <1>0, <2>1, <3>2, <3>3, <4>1 DEF InKey
      <4>3. QED
        BY <2>1, <3>2, <4>1, <4>2 DEF Plain
    <3>4. i \in Nat \ {0} /\ ~(i \in 1..2)
      BY <2>1, <3>1, KeyNext DEF Keyed
    <3>5. i = 3 /\ sb = <<>>
      BY <2>1, <3>1, <3>3, <3>4, KeyNext
    <3>6. i' = Len(sb') + 4 /\ start' /\ Len(sb') <= Len(item[2])
      BY <2>1, <3>2, <3>5, NothingPicked, LenProperties DEF Plain
    <3>7. \A k \in 1..Len(sb') : sb'[k] = item[2][k]
      BY <2>1, <3>5, NothingPicked
    <3>8. QED
      BY <2>1, <3>2, <3>6, <3>7 DEF InKey
  <2>3. QED
    BY <1>0, <2>1, <2>2 DEF Keyed
<1>2. CASE PickS
  <2>1. /\ pc = "pick" /\ pc' = "route" /\ i <= Len(sid) /\ sid[i] = "s"
        /\ UNCHANGED <<sid, i, start, sb, db, item>>
    BY <1>2 DEF PickS, Rest
  <2>2. item # <<>> => InKey(item[2])'
    <3>1. SUFFICES ASSUME item # <<>> PROVE InKey(item[2])'
      OBVIOUS
    <3>2. Plain(item[2]) /\ InKey(item[2]) /\ Len(item[2]) \in Nat
      BY <3>1, LenProperties DEF Keyed, Plain
    <3>3. i > 3
      BY <1>0, <2>1, <3>1, KeyNext DEF Keyed
    <3>4. Len(sb) = Len(item[2])
      <4>1. ASSUME Len(sb) # Len(item[2]) PROVE FALSE
        <5>1. sid[i] = item[2][Len(sb) + 1]
          BY <2>1, <3>1, <3>3, <4>1, KeyNext
        <5>2. Len(sb) + 1 \in 1..Len(item[2])
          BY <1>0, <2>1, <3>2, <3>3, <4>1 DEF InKey
        <5>3. QED
          BY <2>1, <3>2, <5>1, <5>2 DEF Plain
      <4>2. QED
        BY <4>1
    <3>5. \A k \in 1..Len(sb) : sb[k] = item[2][k]
      BY <2>1, <3>2, <3>3 DEF InKey
    <3>6. sb = item[2]
      BY <1>0, <3>2, <3>4, <3>5, SeqEqual DEF Plain
    <3>7. QED
      BY <2>1, <3>2, <3>6 DEF InKey
  <2>3. QED
    BY <2>1, <2>2 DEF Keyed, Plain
<1>3. CASE PickOther
  <2>1. /\ pc = "pick" /\ i <= Len(sid) /\ sid[i] \notin {"m", "s"} /\ i' = i + 1
        /\ sb' = IF start THEN Append(sb, sid[i]) ELSE sb
        /\ UNCHANGED <<sid, start, db, pc, item>>
    BY <1>3 DEF PickOther, Rest
  <2>2. sid[i] \in KeyRune
    BY <1>0, <2>1, ElementOfSeq DEF Keyed
  <2>3. Plain(sb)'
    BY <1>0, <2>1, <2>2, PlainAppend DEF Plain
  <2>4. item # <<>> => InKey(item[2])'
    <3>1. SUFFICES ASSUME item # <<>> PROVE InKey(item[2])'
      OBVIOUS
    <3>2. Plain(item[2]) /\ InKey(item[2]) /\ Len(item[2]) \in Nat
      BY <3>1, LenProperties DEF Keyed, Plain
    <3>3. CASE i \in 1..3
      <4>1. i \in 1..2 /\ ~start /\ sb = <<>>
        BY <2>1, <3>1, <3>3, KeyNext
      <4>2. i' \in 1..3 /\ ~start' /\ sb' = <<>>
        BY <2>1, <4>1
      <4>3. QED
        BY <2>1, <3>2, <4>2 DEF InKey
    <3>4. CASE i \notin 1..3
      <4>1. i > 3 /\ i = Len(sb) + 4 /\ start /\ Len(sb) <= Len(item[2])
            /\ \A k \in 1..Len(sb) : sb[k] = item[2][k]
        BY <1>0, <2>1, <3>2, <3>4 DEF InKey
      <4>2. Len(sb) # Len(item[2]) /\ sid[i] = item[2][Len(sb) + 1]
        BY <2>1, <3>1, <4>1, KeyNext
      <4>3. /\ Len(sb') = Len(sb) + 1 /\ sb'[Len(sb) + 1] = sid[i]
            /\ \A k \in 1..Len(sb) : sb'[k] = sb[k]
        BY <1>0, <2>1, <2>2, <4>1, PlainAppend
      <4>4. \A k \in 1..Len(sb') : sb'[k] = item[2][k]
        BY <1>0, <4>1, <4>2, <4>3
      <4>5. i' = Len(sb') + 4 /\ Len(sb') <= Len(item[2])
        BY <1>0, <2>1, <3>2, <4>1, <4>2, <4>3
      <4>6. QED
        BY <2>1, <3>2, <4>1, <4>4, <4>5 DEF InKey
    <3>5. QED
      BY <3>3, <3>4
  <2>5. QED
    BY <1>0, <2>1, <2>3, <2>4 DEF Keyed
<1>4. CASE PickEnds
  <2>1. /\ pc = "pick" /\ pc' = "route" /\ i > Len(sid)
        /\ UNCHANGED <<sid, i, start, sb, db, item>>
    BY <1>4 DEF PickEnds
  <2>2. item = <<>>
    BY <1>0, <2>1, KeyNext, LenProperties DEF Keyed
  <2>3. QED
    BY <2>1, <2>2 DEF Keyed, Plain
<1>5. CASE Route
  <2>1. /\ pc = "route" /\ pc' = IF item = <<>> THEN "routed" ELSE "relayed"
        /\ db' = Found(sb) /\ UNCHANGED <<sid, i, start, sb, item>>
    BY <1>5 DEF Route, Found
  <2>2. db' = Found(sb)'
    BY <2>1
  <2>3. QED
    BY <2>1, <2>2 DEF Keyed, Plain, InKey
<1>6. CASE Relay
  <2>1. /\ pc = "routed" /\ pc' = "pick" /\ item' = <<sid, sb, db>>
        /\ sid' = ShardKey(sb) /\ i' = 1 /\ start' = FALSE /\ sb' = <<>>
    BY <1>6 DEF Relay
  <2>2. item'[2] = sb /\ item'[3] = db /\ db = Found(sb)
    BY <2>1 DEF Keyed
  <2>3. sid' \in Seq(KeyRune)
    BY <1>0, <2>1, KeyRunes DEF Plain
  <2>4. Plain(item'[2]) /\ item'[3] = Found(item'[2])
    BY <1>0, <2>2, Zenon
  <2>5. InKey(item[2])'
    BY <2>1, <2>2 DEF InKey
  <2>6. Plain(sb)'
    BY <2>1, NothingPicked
  <2>7. i' \in Nat \ {0} /\ start' \in BOOLEAN
    <3>1. start' \in BOOLEAN
      BY <2>1, Zenon
    <3>2. QED
      BY <2>1, <3>1
  <2>8. Plain(item[2])' /\ item'[3] = Found(item[2])'
    BY <2>4
  <2>9. pc' = "pick" /\ item' # <<>>
    BY <2>1
  <2>10. QED
    BY <2>3, <2>5, <2>6, <2>7, <2>8, <2>9 DEF Keyed
<1>7. CASE UNCHANGED vars
  BY <1>7 DEF vars, Keyed, Plain, InKey
<1>8. QED
  BY <1>1, <1>2, <1>3, <1>4, <1>5, <1>6, <1>7 DEF Next

\* Under the key that the order service makes up for an item's machine id the
\* stock service finds the machine id that was picked out of the item's own id,
\* and the database that the item itself is on, for ids of any length.
THEOREM KeyLeadsToItem == Spec => []KeyRoutesAsItem
<1>1. Keyed => KeyRoutesAsItem
  BY DEF Keyed, InKey, KeyRoutesAsItem
<1>2. QED
  BY <1>1, KeyedInit, KeyedStep, PTL DEF Spec

-----------------------------------------------------------------------------
(* What is picked out of an id.                                            *)

\* The runes picked so far are those within the first n runes of the id.
InOrder(n) ==
  /\ Len(sb) = Cardinality(Within(sid, n))
  /\ \A k \in Within(sid, n) : sb[Cardinality(Within(sid, k))] = sid[k]

\* The loop has passed the first i - 1 runes, and start says whether an "m" is
\* among them.
Passed ==
  /\ pc = "pick" =>
       /\ i <= Len(sid) + 1
       /\ start <=> \E j \in 1..(i - 1) : sid[j] = "m"
       /\ \A j \in 1..(i - 1) : sid[j] # "s"
       /\ InOrder(i - 1)
  /\ pc # "pick" => InOrder(Len(sid))

\* Places are counted one by one.
LEMMA WithinFinite ==
  ASSUME NEW word, NEW n \in Nat
  PROVE  /\ IsFiniteSet(Within(word, n)) /\ Cardinality(Within(word, n)) \in Nat
         /\ Within(word, n) \in SUBSET (1..n)
<1>1. Within(word, n) \in SUBSET (1..n)
  BY DEF Within
<1>2. IsFiniteSet(1..n)
  BY FS_Interval
<1>3. IsFiniteSet(Within(word, n))
  BY <1>1, <1>2, FS_Subset
<1>4. QED
  BY <1>1, <1>3, FS_CardinalityType

\* The next place counts when it is within.
LEMMA WithinNext ==
  ASSUME NEW word, NEW n \in Nat
  PROVE  /\ n + 1 \in Within(word, n + 1) =>
              /\ Within(word, n + 1) = Within(word, n) \cup {n + 1}
              /\ Cardinality(Within(word, n + 1)) = Cardinality(Within(word, n)) + 1
         /\ n + 1 \notin Within(word, n + 1) => Within(word, n + 1) = Within(word, n)
<1>1. Within(word, n + 1) \ {n + 1} = Within(word, n)
  BY DEF Within
<1>2. n + 1 \notin Within(word, n)
  BY DEF Within
<1>3. ASSUME n + 1 \in Within(word, n + 1)
      PROVE  Within(word, n + 1) = Within(word, n) \cup {n + 1}
  BY <1>1, <1>3
<1>4. IsFiniteSet(Within(word, n))
  BY WithinFinite
<1>5. Cardinality(Within(word, n) \cup {n + 1}) = Cardinality(Within(word, n)) + 1
  BY <1>2, <1>4, FS_AddElement
<1>6. QED
  BY <1>1, <1>3, <1>5

\* A place is counted among those up to any later one.
LEMMA WithinRank ==
  ASSUME NEW word, NEW n \in Nat, NEW k \in Within(word, n)
  PROVE  Cardinality(Within(word, k)) \in 1..Cardinality(Within(word, n))
<1>1. k \in 1..n /\ k \in Nat
  BY DEF Within
<1>2. Within(word, k) \in SUBSET Within(word, n) /\ k \in Within(word, k)
  BY <1>1 DEF Within
<1>3. /\ IsFiniteSet(Within(word, k)) /\ Cardinality(Within(word, k)) \in Nat
      /\ IsFiniteSet(Within(word, n)) /\ Cardinality(Within(word, n)) \in Nat
  BY <1>1, WithinFinite
<1>4. Cardinality(Within(word, k)) <= Cardinality(Within(word, n))
  BY <1>2, <1>3, FS_Subset
<1>5. Cardinality(Within(word, k)) # 0
  BY <1>2, <1>3, FS_EmptySet
<1>6. QED
  BY <1>3, <1>4, <1>5

\* Nothing is within nothing.
LEMMA WithinNothing ==
  ASSUME NEW word
  PROVE  Within(word, 0) = {} /\ Cardinality(Within(word, 0)) = 0
<1>1. Within(word, 0) = {}
  BY DEF Within
<1>2. QED
  BY <1>1, FS_EmptySet

\* The loop starts before the first rune.
LEMMA PassedInit == Init => Passed
<1> SUFFICES ASSUME Init PROVE Passed
  OBVIOUS
<1>1. i = 1 /\ start = FALSE /\ sb = <<>> /\ pc = "pick" /\ sid \in Seq(KeyRune)
  BY KeyedInit DEF Init, Keyed
<1>2. Len(sid) \in Nat /\ Len(sb) = 0
  BY <1>1, LenProperties, NothingPicked
<1>3. InOrder(0)
  BY <1>2, WithinNothing DEF InOrder
<1>4. i <= Len(sid) + 1 /\ i - 1 = 0
  BY <1>1, <1>2
<1>5. QED
  BY <1>1, <1>3, <1>4 DEF Passed

\* Each rune is taken or left as Within says.
LEMMA PassedStep == Keyed /\ Passed /\ [Next]_(vars) => Passed'
<1> SUFFICES ASSUME Keyed, Passed, [Next]_(vars) PROVE Passed'
  OBVIOUS
<1>0. /\ Plain(sb) /\ sb \in Seq(KeyRune) /\ Len(sb) \in Nat /\ i \in Nat \ {0}
      /\ sid \in Seq(KeyRune) /\ Len(sid) \in Nat /\ start \in BOOLEAN
  BY LenProperties DEF Keyed, Plain
<1> DEFINE n == i - 1
<1>n. n \in Nat /\ n + 1 = i
  BY <1>0
<1>p. ASSUME pc = "pick"
      PROVE  /\ i <= Len(sid) + 1
             /\ start <=> \E j \in 1..n : sid[j] = "m"
             /\ \A j \in 1..n : sid[j] # "s"
             /\ InOrder(n)
  BY <1>p DEF Passed
<1> HIDE DEF n
<1>1. CASE PickM
  <2>1. /\ pc = "pick" /\ i <= Len(sid) /\ sid[i] = "m" /\ start' = TRUE /\ i' = i + 1
        /\ UNCHANGED <<sid, sb, db, pc, item>>
    BY <1>1 DEF PickM, Rest
  <2>2. i \notin Within(sid, i)
    BY <2>1 DEF Within
  <2>3. Within(sid, i) = Within(sid, n)
    BY <1>n, <2>2, WithinNext
  <2>4. InOrder(i)
    BY <1>p, <2>1, <2>3 DEF InOrder
  <2>5. (\E j \in 1..i : sid[j] = "m") /\ \A j \in 1..i : sid[j] # "s"
    <3>1. \A j \in 1..i : j \in 1..n \/ j = i
      BY <1>n
    <3>2. i \in 1..i
      BY <1>0
    <3>3. QED
      BY <1>p, <2>1, <3>1, <3>2
  <2>6. i' - 1 = i /\ i' <= Len(sid') + 1
    BY <1>0, <2>1
  <2>7. QED
    BY <2>1, <2>4, <2>5, <2>6 DEF Passed, InOrder
<1>2. CASE PickS
  <2>1. /\ pc = "pick" /\ pc' = "route" /\ i <= Len(sid) /\ sid[i] = "s"
        /\ UNCHANGED <<sid, i, start, sb, db, item>>
    BY <1>2 DEF PickS, Rest
  <2>2. Within(sid, Len(sid)) = Within(sid, n)
    <3>1. \A k \in Within(sid, Len(sid)) : k \in 1..Len(sid) /\ ~(i \in 1..k)
      BY <2>1 DEF Within
    <3>2. \A k \in 1..Len(sid) : ~(i \in 1..k) => k \in 1..n
      BY <1>0, <1>n
    <3>3. n <= Len(sid)
      BY <1>0, <1>n, <2>1
    <3>4. QED
      BY <1>0, <1>n, <3>1, <3>2, <3>3 DEF Within
  <2>3. InOrder(Len(sid))
    BY <1>p, <2>1, <2>2 DEF InOrder
  <2>4. QED
    BY <2>1, <2>3 DEF Passed, InOrder
<1>3. CASE PickOther
  <2>1. /\ pc = "pick" /\ i <= Len(sid) /\ sid[i] \notin {"m", "s"} /\ i' = i + 1
        /\ sb' = IF start THEN Append(sb, sid[i]) ELSE sb
        /\ UNCHANGED <<sid, start, db, pc, item>>
    BY <1>3 DEF PickOther, Rest
  <2>2. \A j \in 1..i : j \in 1..n \/ j = i
    BY <1>n
  <2>3. \A j \in 1..n : j \in 1..i
    BY <1>n
  <2>4. (start <=> \E j \in 1..i : sid[j] = "m") /\ \A j \in 1..i : sid[j] # "s"
    BY <1>p, <2>1, <2>2, <2>3
  <2>5. i \in Within(sid, i) <=> start
    BY <1>0, <2>1, <2>4 DEF Within
  <2>6. /\ Len(sb') = Cardinality(Within(sid, i))
        /\ \A k \in Within(sid, i) : sb'[Cardinality(Within(sid, k))] = sid[k]
    <3>1. CASE start
      <4>1. sid[i] \in KeyRune
        BY <1>0, <2>1, ElementOfSeq
      <4>2. /\ Len(sb') = Len(sb) + 1 /\ sb'[Len(sb) + 1] = sid[i]
            /\ \A k \in 1..Len(sb) : sb'[k] = sb[k]
        BY <1>0, <2>1, <3>1, <4>1, PlainAppend
      <4>3. /\ Within(sid, i) = Within(sid, n) \cup {i}
            /\ Cardinality(Within(sid, i)) = Cardinality(Within(sid, n)) + 1
        BY <1>n, <2>5, <3>1, WithinNext
      <4>4. Len(sb) = Cardinality(Within(sid, n))
        BY <1>p, <2>1 DEF InOrder
      <4>5. ASSUME NEW k \in Within(sid, n)
            PROVE  sb'[Cardinality(Within(sid, k))] = sid[k]
        <5>1. Cardinality(Within(sid, k)) \in 1..Len(sb)
          BY <1>n, <4>4, WithinRank
        <5>2. QED
          BY <1>p, <2>1, <4>2, <5>1 DEF InOrder
      <4>6. sb'[Cardinality(Within(sid, i))] = sid[i]
        BY <4>2, <4>3, <4>4
      <4>7. QED
        BY <4>2, <4>3, <4>4, <4>5, <4>6
    <3>2. CASE ~start
      <4>1. Within(sid, i) = Within(sid, n)
        BY <1>n, <2>5, <3>2, WithinNext
      <4>2. InOrder(i)
        BY <1>p, <2>1, <4>1 DEF InOrder
      <4>3. QED
        BY <2>1, <3>2, <4>2 DEF InOrder
    <3>3. QED
      BY <3>1, <3>2
  <2>7. i' - 1 = i /\ i' <= Len(sid') + 1
    BY <1>0, <2>1
  <2>8. QED
    BY <2>1, <2>4, <2>6, <2>7 DEF Passed, InOrder
<1>4. CASE PickEnds
  <2>1. /\ pc = "pick" /\ pc' = "route" /\ i > Len(sid)
        /\ UNCHANGED <<sid, i, start, sb, db, item>>
    BY <1>4 DEF PickEnds
  <2>2. n = Len(sid)
    BY <1>0, <1>n, <1>p, <2>1
  <2>3. QED
    BY <1>p, <2>1, <2>2 DEF Passed, InOrder
<1>5. CASE Route
  <2>1. pc # "pick" /\ pc' # "pick" /\ UNCHANGED <<sid, sb>>
    BY <1>5 DEF Route
  <2>2. QED
    BY <2>1 DEF Passed, InOrder
<1>6. CASE Relay
  <2>1. /\ pc' = "pick" /\ sid' = ShardKey(sb) /\ i' = 1 /\ start' = FALSE /\ sb' = <<>>
    BY <1>6 DEF Relay
  <2>2. Len(sid') \in Nat /\ Len(sb') = 0
    BY <1>0, <2>1, KeyRunes, NothingPicked
  <2>3. /\ Len(sb') = Cardinality(Within(sid', 0))
        /\ \A k \in Within(sid', 0) : sb'[Cardinality(Within(sid', k))] = sid'[k]
    BY <2>2, WithinNothing
  <2>4. i' <= Len(sid') + 1 /\ i' - 1 = 0
    BY <2>1, <2>2
  <2>5. QED
    BY <2>1, <2>3, <2>4 DEF Passed, InOrder
<1>7. CASE UNCHANGED vars
  BY <1>7 DEF vars, Passed, InOrder
<1>8. QED
  BY <1>1, <1>2, <1>3, <1>4, <1>5, <1>6, <1>7 DEF Next

\* What is picked out of an id, or out of a made-up key, is what stands between
\* its first "m" and its first "s", in order and with further "m" dropped, for
\* ids of any length.
THEOREM MachineIdPicked == Spec => []PicksMachineId
<1>1. Passed => PicksMachineId
  BY DEF Passed, InOrder, PicksMachineId
<1>2. QED
  BY <1>1, KeyedInit, KeyedStep, PassedInit, PassedStep, PTL DEF Spec

\* An id as the generator writes it (common/snowflake.go:85): the time, the
\* machine id and the sequence number, each behind its letter.
IdOf(time, mId, seq) == ((time \o <<"m">>) \o mId) \o (<<"s">> \o seq)

\* Such an id, rune by rune.
LEMMA IdRunes ==
  ASSUME NEW time, Plain(time), NEW mId, Plain(mId), NEW seq \in Seq(KeyRune)
  PROVE  LET word == IdOf(time, mId, seq)
             p    == Len(time) + 1
         IN  /\ Len(word) = p + Len(mId) + 1 + Len(seq) /\ word[p] = "m"
             /\ \A k \in 1..Len(time) : word[k] \notin {"m", "s"}
             /\ \A k \in 1..Len(mId) : word[p + k] = mId[k]
             /\ word[p + Len(mId) + 1] = "s"
<1> DEFINE m == <<"m">>
           s == <<"s">>
           p == Len(time) + 1
<1>1. m \in Seq(KeyRune) /\ Len(m) = 1 /\ m[1] = "m" /\ s \in Seq(KeyRune) /\ Len(s) = 1 /\ s[1] = "s"
  BY DEF KeyRune
<1> HIDE DEF m, s
<1>2. /\ time \in Seq(KeyRune) /\ mId \in Seq(KeyRune)
      /\ Len(time) \in Nat /\ Len(mId) \in Nat /\ Len(seq) \in Nat
  BY LenProperties DEF Plain
<1>3. /\ time \o m \in Seq(KeyRune) /\ Len(time \o m) = p
      /\ \A k \in 1..p : (time \o m)[k] = IF k <= Len(time) THEN time[k] ELSE m[k - Len(time)]
  <2>1. /\ time \o m \in Seq(KeyRune) /\ Len(time \o m) = Len(time) + Len(m)
        /\ \A k \in 1..Len(time) + Len(m) :
             (time \o m)[k] = IF k <= Len(time) THEN time[k] ELSE m[k - Len(time)]
    BY <1>1, <1>2, ConcatProperties
  <2>2. QED
    BY <1>1, <2>1
<1>4. /\ s \o seq \in Seq(KeyRune) /\ Len(s \o seq) = 1 + Len(seq) /\ (s \o seq)[1] = "s"
  <2>1. /\ s \o seq \in Seq(KeyRune) /\ Len(s \o seq) = Len(s) + Len(seq)
        /\ \A k \in 1..Len(s) + Len(seq) :
             (s \o seq)[k] = IF k <= Len(s) THEN s[k] ELSE seq[k - Len(s)]
    BY <1>1, <1>2, ConcatProperties
  <2>2. QED
    BY <1>1, <1>2, <2>1
<1> DEFINE a == time \o m
           z == s \o seq
<1>5. /\ a \in Seq(KeyRune) /\ Len(a) = p /\ a[p] = "m"
      /\ \A k \in 1..Len(time) : a[k] = time[k]
  BY <1>1, <1>2, <1>3
<1>6. z \in Seq(KeyRune) /\ Len(z) = 1 + Len(seq) /\ z[1] = "s"
  BY <1>4
<1> HIDE DEF a, z
<1>7. p \in Nat /\ p = Len(time) + 1
  BY <1>2
<1> HIDE DEF p
<1>8. /\ a \o mId \in Seq(KeyRune) /\ Len(a \o mId) = p + Len(mId)
      /\ \A k \in 1..p + Len(mId) : (a \o mId)[k] = IF k <= p THEN a[k] ELSE mId[k - p]
  BY <1>2, <1>5, ConcatProperties
<1> DEFINE b == a \o mId
<1> HIDE DEF b
<1>9. b \in Seq(KeyRune) /\ Len(b) = p + Len(mId)
  BY <1>8 DEF b
<1>10. /\ Len(b \o z) = p + Len(mId) + (1 + Len(seq))
       /\ \A k \in 1..p + Len(mId) + (1 + Len(seq)) :
            (b \o z)[k] = IF k <= p + Len(mId) THEN b[k] ELSE z[k - (p + Len(mId))]
  <2>1. /\ b \o z \in Seq(KeyRune) /\ Len(b \o z) = Len(b) + Len(z)
        /\ \A k \in 1..Len(b) + Len(z) :
             (b \o z)[k] = IF k <= Len(b) THEN b[k] ELSE z[k - Len(b)]
    <3>1. b \in Seq(KeyRune) /\ z \in Seq(KeyRune)
      BY <1>6, <1>9
    <3>2. QED
      BY <3>1, ConcatProperties
  <2>2. QED
    BY <1>6, <1>9, <2>1
<1>11. (b \o z)[p] = "m"
  BY <1>2, <1>5, <1>7, <1>8, <1>10 DEF b
<1>12. \A k \in 1..Len(time) : (b \o z)[k] \notin {"m", "s"}
  <2>1. \A k \in 1..Len(time) : (b \o z)[k] = time[k]
    BY <1>2, <1>5, <1>7, <1>8, <1>10 DEF b
  <2>2. QED
    BY <2>1 DEF Plain
<1>13. \A k \in 1..Len(mId) : (b \o z)[p + k] = mId[k]
  <2>1. SUFFICES ASSUME NEW k \in 1..Len(mId) PROVE (b \o z)[p + k] = mId[k]
    OBVIOUS
  <2>2. /\ p + k \in 1..p + Len(mId) /\ p + k \in 1..p + Len(mId) + (1 + Len(seq))
        /\ ~(p + k <= p) /\ (p + k) - p = k /\ p + k <= p + Len(mId)
    BY <1>2, <1>7
  <2>3. (b \o z)[p + k] = b[p + k]
    BY <1>10, <2>2
  <2>4. b[p + k] = mId[k]
    BY <1>8, <2>2 DEF b
  <2>5. QED
    BY <2>3, <2>4
<1>14. (b \o z)[p + Len(mId) + 1] = "s"
  BY <1>2, <1>6, <1>7, <1>10
<1>15. IdOf(time, mId, seq) = b \o z
  BY DEF IdOf, a, b, z, m, s
<1>16. Len(b \o z) = p + Len(mId) + 1 + Len(seq)
  BY <1>2, <1>7, <1>10
<1>17. QED
  BY <1>11, <1>12, <1>13, <1>14, <1>15, <1>16 DEF p

\* The loop takes the machine id out of such an id, and nothing else.
LEMMA IdGivesMachine ==
  ASSUME Keyed, Passed, pc # "pick",
         NEW time, Plain(time), NEW mId, Plain(mId), NEW seq \in Seq(KeyRune),
         sid = IdOf(time, mId, seq)
  PROVE  sb = mId
<1> DEFINE p == Len(time) + 1
           e == p + Len(mId)
<1>1. /\ Plain(sb) /\ sb \in Seq(KeyRune) /\ mId \in Seq(KeyRune)
      /\ Len(sb) \in Nat /\ Len(mId) \in Nat /\ Len(time) \in Nat /\ Len(seq) \in Nat
  BY LenProperties DEF Keyed, Plain
<1>2. /\ Len(sid) = e + 1 + Len(seq) /\ sid[p] = "m" /\ sid[e + 1] = "s"
      /\ \A k \in 1..Len(time) : sid[k] \notin {"m", "s"}
      /\ \A k \in 1..Len(mId) : sid[p + k] = mId[k]
  BY IdRunes
<1>3. \A k \in (p + 1)..e : sid[k] = mId[k - p] /\ sid[k] \notin {"m", "s"}
  <2>1. SUFFICES ASSUME NEW k \in (p + 1)..e
                 PROVE  sid[k] = mId[k - p] /\ sid[k] \notin {"m", "s"}
    OBVIOUS
  <2>2. k - p \in 1..Len(mId) /\ p + (k - p) = k
    BY <1>1
  <2>3. QED
    BY <1>2, <2>2 DEF Plain
<1>4. p \in Nat \ {0} /\ e \in Nat /\ p <= e /\ e + 1 <= Len(sid) /\ e = p + Len(mId)
      /\ p - 1 = Len(time) /\ Len(sid) \in Nat
  BY <1>1, <1>2
<1> HIDE DEF p, e
<1>5. \A j \in 1..e : sid[j] # "s" /\ (sid[j] = "m" <=> j = p)
  <2>1. \A j \in 1..e : j \in 1..Len(time) \/ j = p \/ j \in (p + 1)..e
    BY <1>1, <1>4
  <2>2. \A j \in 1..Len(time) : j # p
    BY <1>1, <1>4
  <2>3. QED
    BY <1>2, <1>3, <2>1, <2>2
<1>6. ASSUME NEW n \in (p + 1)..e PROVE Within(sid, n) = (p + 1)..n
  <2>1. \A k \in 1..n : k \in 1..e /\ \A j \in 1..k : j \in 1..e
    BY <1>4
  <2>2. \A k \in 1..n : (sid[k] # "m" /\ \E j \in 1..k : sid[j] = "m") <=> k > p
    BY <1>4, <1>5, <2>1
  <2>3. \A k \in (p + 1)..n : k \in 1..n
    BY <1>4
  <2>4. \A k \in 1..n : k > p => k \in (p + 1)..n
    BY <1>4
  <2>5. \A k \in (p + 1)..n : k > p
    BY <1>4
  <2>6. QED
    BY <1>5, <2>1, <2>2, <2>3, <2>4, <2>5 DEF Within
<1>7. Within(sid, Len(sid)) = (p + 1)..e
  <2>1. \A k \in Within(sid, Len(sid)) : k \in 1..Len(sid) /\ ~(e + 1 \in 1..k)
    BY <1>2 DEF Within
  <2>2. \A k \in 1..Len(sid) : ~(e + 1 \in 1..k) => k \in 1..e
    BY <1>4
  <2>3. \A k \in 1..e : k \in 1..Len(sid) /\ \A j \in 1..k : j \in 1..e
    BY <1>4
  <2>4. \A k \in 1..e : (sid[k] # "m" /\ \E j \in 1..k : sid[j] = "m") <=> k > p
    BY <1>4, <1>5, <2>3
  <2>5. \A k \in 1..e : k > p <=> k \in (p + 1)..e
    BY <1>4
  <2>6. \A k \in (p + 1)..e : k \in 1..e
    BY <1>4
  <2>7. QED
    BY <1>5, <2>1, <2>2, <2>3, <2>4, <2>5, <2>6 DEF Within
<1>8. \A n \in p..e : Cardinality((p + 1)..n) = n - p
  <2>1. SUFFICES ASSUME NEW n \in p..e PROVE Cardinality((p + 1)..n) = n - p
    OBVIOUS
  <2>2. p + 1 \in Int /\ n \in Int
    BY <1>4
  <2>3. Cardinality((p + 1)..n) = IF p + 1 > n THEN 0 ELSE n - (p + 1) + 1
    BY <2>2, FS_Interval
  <2>4. QED
    BY <1>4, <2>3
<1>9. InOrder(Len(sid))
  BY DEF Passed
<1>10. Len(sb) = Len(mId)
  <2>1. Len(sb) = Cardinality((p + 1)..e)
    BY <1>7, <1>9 DEF InOrder
  <2>2. e \in p..e
    BY <1>4
  <2>3. QED
    BY <1>1, <1>4, <1>8, <2>1, <2>2
<1>11. ASSUME NEW k \in 1..Len(mId) PROVE sb[k] = mId[k]
  <2>1. p + k \in (p + 1)..e /\ p + k \in p..e /\ (p + k) - p = k
    BY <1>1, <1>4
  <2>2. Cardinality(Within(sid, p + k)) = k
    BY <1>6, <1>8, <2>1
  <2>3. sb[k] = sid[p + k]
    BY <1>7, <1>9, <2>1, <2>2 DEF InOrder
  <2>4. QED
    BY <1>3, <2>1, <2>3
<1>12. QED
  BY <1>1, <1>10, <1>11, SeqEqual

\* "Not 100% safe" (common/shard.go:42) is only about ids of another form: from
\* an id as the generator writes it, however long its numbers are, exactly its
\* machine id is picked, and the same holds of a made-up key.
THEOREM GeneratedIdsAreSafe ==
  Spec => [](pc # "pick" =>
               \A time, mId, seq : Plain(time) /\ Plain(mId) /\ seq \in Seq(KeyRune)
                                     /\ sid = IdOf(time, mId, seq) => sb = mId)
<1> DEFINE Safe ==
      pc # "pick" => \A time, mId, seq :
        Plain(time) /\ Plain(mId) /\ seq \in Seq(KeyRune) /\ sid = IdOf(time, mId, seq)
          => sb = mId
<1>1. Keyed /\ Passed => Safe
  BY IdGivesMachine
<1> HIDE DEF Safe
<1>2. Spec => []Safe
  BY <1>1, KeyedInit, KeyedStep, PassedInit, PassedStep, PTL DEF Spec
<1>3. QED
  BY <1>2 DEF Safe

=============================================================================
