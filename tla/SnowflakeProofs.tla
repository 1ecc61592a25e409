-------------------------- MODULE SnowflakeProofs --------------------------
(***************************************************************************)
(* Proofs about Snowflake, for any number of processes, machines and       *)
(* goroutines, any width of the sequence and any movement of the clock.    *)
(***************************************************************************)
EXTENDS Snowflake, TLAPS

\* Every step is one of these.
LEMMA Steps ==
  [Next]_vars =>
    \/ Tick \/ SetBack
    \/ \E g \in Generator : NewSnowFlakeGenerator(g)
    \/ \E g \in Generator : Crash(g)
    \/ \E c \in Caller : Call(c)
    \/ \E c \in Caller : Lock(c)
    \/ \E c \in Caller : ReadClock(c)
    \/ \E c \in Caller : Panic(c)
    \/ \E c \in Caller : NewMillisecond(c)
    \/ \E c \in Caller : SameMillisecond(c)
    \/ \E c \in Caller : Spin(c)
    \/ \E c \in Caller : Unlock(c)
    \/ UNCHANGED vars
BY DEF Next, Proceed

-----------------------------------------------------------------------------
(* Type correctness                                                        *)

\* The fields have their types at the start.
LEMMA TypedInit == Init => TypeOK
BY SnowflakeConstants DEF Init, TypeOK, Label, Critical, Id

\* An id that is issued fits its fields.
LEMMA IssueTyped ==
  ASSUME TypeOK, NEW c \in Caller, NEW ts \in Nat, NEW seq \in 0..MaxSequence,
         Issue(c, ts, seq)
  PROVE  /\ timestamp' \in [Generator -> Nat]
         /\ sequence' \in [Generator -> 0..MaxSequence]
         /\ id' \in [Caller -> Id]
         /\ pc' \in [Caller -> Label]
BY SnowflakeConstants DEF TypeOK, Issue, Goto, Id, Label, Critical

\* Whoever stands between Lock and Unlock has the spin lock.
HasLock == \A c \in Caller : pc[c] \in Critical => locked[GenOf[c]] = 1

\* Every step keeps them; Unlock does because it finds the lock taken.
LEMMA TypedStep == TypeOK /\ HasLock /\ [Next]_vars => TypeOK'
<1> SUFFICES ASSUME TypeOK, HasLock, [Next]_vars PROVE TypeOK'
  OBVIOUS
<1> USE SnowflakeConstants DEF TypeOK
<1>1. CASE Tick
  BY <1>1 DEF Tick, genVars
<1>2. CASE SetBack
  BY <1>2 DEF SetBack, genVars
<1>3. ASSUME NEW g \in Generator, NewSnowFlakeGenerator(g) PROVE TypeOK'
  BY <1>3 DEF NewSnowFlakeGenerator, clockVars
<1>4. ASSUME NEW g \in Generator, Crash(g) PROVE TypeOK'
  BY <1>4 DEF Crash, clockVars
<1>5. ASSUME NEW c \in Caller, Call(c) PROVE TypeOK'
  BY <1>5 DEF Call, Goto, Label, Critical, clockVars, genVars
<1>6. ASSUME NEW c \in Caller, Lock(c) PROVE TypeOK'
  BY <1>6 DEF Lock, Goto, Label, Critical, clockVars, genVars
<1>7. ASSUME NEW c \in Caller, ReadClock(c) PROVE TypeOK'
  BY <1>7 DEF ReadClock, Goto, Label, Critical, clockVars, genVars
<1>8. ASSUME NEW c \in Caller, Panic(c) PROVE TypeOK'
  BY <1>8 DEF Panic, Goto, Label, Critical, clockVars, genVars
<1>9. ASSUME NEW c \in Caller, NewMillisecond(c) PROVE TypeOK'
  <2>1. Issue(c, read[c], 0) /\ read[c] \in Nat /\ 0 \in 0..MaxSequence
    BY <1>9 DEF NewMillisecond
  <2>2. QED
    BY <1>9, <2>1, IssueTyped DEF NewMillisecond, clockVars
<1>10. ASSUME NEW c \in Caller, SameMillisecond(c) PROVE TypeOK'
  <2> DEFINE seq == Increment(sequence[GenOf[c]])
  <2>1. seq \in 0..MaxSequence
    BY DEF Increment
  <2>2. CASE seq = 0
    BY <1>10, <2>2 DEF SameMillisecond, Goto, Label, Critical, clockVars
  <2>3. CASE seq # 0
    <3>1. Issue(c, read[c], seq) /\ read[c] \in Nat
      BY <1>10, <2>3 DEF SameMillisecond
    <3>2. QED
      BY <1>10, <2>1, <3>1, IssueTyped DEF SameMillisecond, clockVars
  <2>4. QED
    BY <2>2, <2>3
<1>11. ASSUME NEW c \in Caller, Spin(c) PROVE TypeOK'
  <2>1. Issue(c, now, sequence[GenOf[c]]) /\ sequence[GenOf[c]] \in 0..MaxSequence
    BY <1>11 DEF Spin
  <2>2. QED
    BY <1>11, <2>1, IssueTyped DEF Spin, clockVars
<1>12. ASSUME NEW c \in Caller, Unlock(c) PROVE TypeOK'
  <2>1. locked[GenOf[c]] = 1 /\ locked' = [locked EXCEPT ![GenOf[c]] = locked[GenOf[c]] - 1]
    BY <1>12 DEF Unlock, HasLock, Critical
  <2>2. locked' \in [Generator -> {0, 1}]
    BY <2>1
  <2>3. QED
    BY <1>12, <2>2 DEF Unlock, Goto, Label, Critical, clockVars, genVars
<1>13. CASE UNCHANGED vars
  BY <1>13 DEF vars, clockVars, genVars
<1>14. QED
  BY <1>1, <1>2, <1>3, <1>4, <1>5, <1>6, <1>7, <1>8, <1>9, <1>10, <1>11, <1>12, <1>13, Steps

-----------------------------------------------------------------------------
(* One generator's ids                                                     *)

\* Nobody else does.
Mutex ==
  /\ HasLock
  /\ \A c, d \in Caller :
       pc[c] \in Critical /\ pc[d] \in Critical /\ GenOf[c] = GenOf[d] => c = d

\* The sequence of g has wrapped and the timestamp has not followed yet.
Spinning(g) == \E d \in Caller : GenOf[d] = g /\ pc[d] = "spin"

\* What has been issued lies between the generator's start and its fields.
Past(c) ==
  LET g == GenOf[c] IN
  /\ pc[c] # "idle" => life[g] # "new"
  /\ Issued(c) =>
       /\ start[g] <= id[c].timestamp /\ id[c].timestamp <= timestamp[g]
       /\ id[c].timestamp = timestamp[g] =>
            Spinning(g) \/ id[c].sequence <= sequence[g]

Began == \A g \in Generator : life[g] # "new" => start[g] <= timestamp[g]

Distinct ==
  \A c, d \in Caller :
    c # d /\ Issued(c) /\ Issued(d) /\ GenOf[c] = GenOf[d] => id[c] # id[d]

Ordered == Mutex /\ Began /\ (\A c \in Caller : Past(c)) /\ Distinct

\* Nobody has asked for an id at the start.
LEMMA OrderedInit == Init => Ordered
BY DEF Init, Ordered, Mutex, HasLock, Began, Past, Distinct, Issued, Critical

\* Three steps of Next deal with the fields.
Issues(c) == NewMillisecond(c) \/ SameMillisecond(c) \/ Spin(c)

\* The id (ts, seq) would be later than all that the generator of c has issued.
Beyond(c, ts, seq) ==
  \A d \in Caller :
    Issued(d) /\ GenOf[d] = GenOf[c] =>
      Later([timestamp |-> ts, sequence |-> seq], id[d])

\* Such a step begins to spin, or issues an id later than all before.
LEMMA LaterThanAll ==
  ASSUME TypeOK, Ordered, NEW c \in Caller, Issues(c)
  PROVE  \/ /\ Goto(c, "spin")
            /\ UNCHANGED <<timestamp, id>>
            /\ pc[c] = "compare"
         \/ /\ pc[c] \in {"compare", "spin"}
            /\ \E ts \in Nat : \E seq \in 0..MaxSequence :
                 Issue(c, ts, seq) /\ ts >= timestamp[GenOf[c]] /\ Beyond(c, ts, seq)
<1> DEFINE g == GenOf[c]
<1> USE SnowflakeConstants DEF TypeOK
<1>1. g \in Generator /\ timestamp[g] \in Nat /\ sequence[g] \in 0..MaxSequence
      /\ read[c] \in Nat /\ now \in Nat
  OBVIOUS
<1>2. \A d \in Caller : id[d].timestamp \in Nat /\ id[d].sequence \in 0..MaxSequence
  BY DEF Id
<1>3. \A d \in Caller : Issued(d) /\ GenOf[d] = g => id[d].timestamp <= timestamp[g]
  BY DEF Ordered, Past
<1>4. CASE NewMillisecond(c)
  <2>1. Issue(c, read[c], 0) /\ read[c] > timestamp[g] /\ pc[c] = "compare"
    BY <1>1, <1>4 DEF NewMillisecond, MovedBack
  <2>2. Beyond(c, read[c], 0)
    BY <1>1, <1>2, <1>3, <2>1 DEF Later, Beyond
  <2>3. 0 \in 0..MaxSequence
    OBVIOUS
  <2>4. QED
    BY <1>1, <2>1, <2>2, <2>3
<1>5. CASE SameMillisecond(c)
  <2> DEFINE seq == Increment(sequence[g])
  <2>1. pc[c] = "compare" /\ read[c] = timestamp[g]
    BY <1>5 DEF SameMillisecond
  <2>2. CASE seq = 0
    BY <1>5, <2>1, <2>2 DEF SameMillisecond
  <2>3. CASE seq # 0
    <3>1. Issue(c, read[c], seq) /\ seq = sequence[g] + 1 /\ seq \in 0..MaxSequence
      BY <1>1, <1>5, <2>3 DEF SameMillisecond, Increment
    <3>2. ~Spinning(g)
      BY <2>1 DEF Ordered, Mutex, HasLock, Spinning, Critical
    <3>3. \A d \in Caller : Issued(d) /\ GenOf[d] = g =>
            (id[d].timestamp = timestamp[g] => id[d].sequence <= sequence[g])
      BY <3>2 DEF Ordered, Past
    <3>4. Beyond(c, read[c], seq)
      BY <1>1, <1>2, <1>3, <2>1, <3>1, <3>3 DEF Later, Beyond
    <3>5. QED
      BY <1>1, <2>1, <3>1, <3>4
  <2>4. QED
    BY <2>2, <2>3
<1>6. CASE Spin(c)
  <2>1. Issue(c, now, sequence[g]) /\ now > timestamp[g] /\ pc[c] = "spin"
    BY <1>6 DEF Spin
  <2>2. Beyond(c, now, sequence[g])
    BY <1>1, <1>2, <1>3, <2>1 DEF Later, Beyond
  <2>3. QED
    BY <1>1, <2>1, <2>2
<1>7. QED
  BY <1>4, <1>5, <1>6 DEF Issues

\* A step that issues an id, or begins to spin, keeps the order.
LEMMA IssueStep ==
  ASSUME TypeOK, Ordered, NEW c \in Caller, Issues(c) PROVE Ordered'
<1> DEFINE g == GenOf[c]
<1> USE SnowflakeConstants
<1>1. UNCHANGED <<life, start, locked>>
  BY DEF Issues, NewMillisecond, SameMillisecond, Spin
<1>2. \A d \in Caller : d # c => pc'[d] = pc[d] /\ id'[d] = id[d]
  BY LaterThanAll DEF TypeOK, Goto, Issue
<1>3. pc[c] \in {"compare", "spin"} /\ pc'[c] \in {"spin", "unlock"}
  BY LaterThanAll DEF TypeOK, Goto, Issue
<1>4. Mutex'
  BY <1>1, <1>2, <1>3 DEF Ordered, Mutex, HasLock, Critical
<1>5. \A h \in Generator : h # g => timestamp'[h] = timestamp[h] /\ sequence'[h] = sequence[h]
  BY DEF TypeOK, Issues, NewMillisecond, SameMillisecond, Spin, Issue
<1>6. ASSUME NEW d \in Caller, GenOf[d] # g PROVE Past(d)'
  <2>1. pc'[d] = pc[d] /\ id'[d] = id[d] /\ GenOf[d] \in Generator
    BY <1>2, <1>6
  <2>2. Spinning(GenOf[d])' = Spinning(GenOf[d])
    BY <1>2, <1>6 DEF Spinning
  <2>3. QED
    BY <1>1, <1>5, <1>6, <2>1, <2>2 DEF Ordered, Past, Issued
<1>7. CASE /\ Goto(c, "spin") /\ UNCHANGED <<timestamp, id>> /\ pc[c] = "compare"
  <2>1. ~Issued(c) /\ ~Issued(c)' /\ \A d \in Caller : Issued(d)' => Issued(d)
    BY <1>2, <1>7 DEF Goto, TypeOK, Issued
  <2>2. Spinning(g)'
    BY <1>7 DEF Goto, TypeOK, Spinning
  <2>3. \A d \in Caller : pc[d] = "idle" => pc'[d] = "idle"
    BY <1>2, <1>3
  <2>4. \A d \in Caller : GenOf[d] = g => Past(d)'
    BY <1>1, <1>2, <1>3, <1>7, <2>1, <2>2 DEF Ordered, Past
  <2>5. Distinct'
    BY <1>7, <2>1 DEF Ordered, Distinct
  <2>6. Began'
    BY <1>1, <1>7 DEF Ordered, Began
  <2>7. QED
    BY <1>4, <1>6, <2>4, <2>5, <2>6 DEF Ordered
<1>8. ASSUME NEW ts \in Nat, NEW seq \in 0..MaxSequence,
             Issue(c, ts, seq), ts >= timestamp[g], Beyond(c, ts, seq)
      PROVE  Ordered'
  <2>1. /\ timestamp'[g] = ts /\ sequence'[g] = seq
        /\ id'[c] = [timestamp |-> ts, sequence |-> seq] /\ pc'[c] = "unlock"
    BY <1>8 DEF Issue, Goto, TypeOK
  <2>2. timestamp[g] \in Nat /\ start[g] \in Nat /\ start[g] <= timestamp[g] /\ life[g] # "new"
    BY <1>3 DEF Ordered, Past, Began, TypeOK
  <2>3. ASSUME NEW d \in Caller, GenOf[d] = g, d # c PROVE Past(d)'
    <3>1. id[d].timestamp \in Nat /\ id[d].sequence \in 0..MaxSequence
      BY DEF TypeOK, Id
    <3>2. Issued(d) => Later([timestamp |-> ts, sequence |-> seq], id[d])
      BY <1>8, <2>3 DEF Beyond
    <3>3. Issued(d) => /\ start[g] <= id[d].timestamp /\ id[d].timestamp <= ts
                       /\ id[d].timestamp = ts => id[d].sequence <= seq
      BY <2>2, <2>3, <3>1, <3>2, <1>8 DEF Ordered, Past, Later
    <3>4. Issued(d)' = Issued(d) /\ id'[d] = id[d]
      BY <1>2, <2>3 DEF Issued
    <3>5. QED
      BY <1>1, <1>8, <2>1, <2>2, <2>3, <3>3, <3>4 DEF Past
  <2>4. Past(c)'
    BY <1>1, <1>8, <2>1, <2>2 DEF Past, Issued
  <2>5. ASSUME NEW d \in Caller, GenOf[d] = g, d # c, Issued(d) PROVE id[d] # id'[c]
    <3>1. Later(id'[c], id[d])
      BY <1>8, <2>1, <2>5 DEF Beyond
    <3>2. id[d].timestamp \in Nat /\ id[d].sequence \in 0..MaxSequence
      BY DEF TypeOK, Id
    <3>3. ~Later(id[d], id[d])
      BY <3>2 DEF Later
    <3>4. QED
      BY <3>1, <3>3
  <2>6. Distinct'
    BY <1>2, <2>5 DEF Ordered, Distinct, Issued
  <2>7. Began'
    BY <1>1, <1>5, <1>8, <2>1, <2>2 DEF Ordered, Began
  <2>8. QED
    BY <1>4, <1>6, <2>3, <2>4, <2>6, <2>7 DEF Ordered
<1>9. QED
  BY <1>7, <1>8, LaterThanAll

\* A step that touches neither the fields nor the ids, and of the places only
\* one, not into or out of spin, keeps them as well.
LEMMA OtherStep ==
  ASSUME TypeOK, Ordered, UNCHANGED <<start, timestamp, sequence, id>>,
         NEW c \in Caller, life[GenOf[c]] = "up", UNCHANGED life,
         NEW label, Goto(c, label),
         pc[c] # "spin", label # "spin", Issued(c) <=> label \in {"unlock", "done"},
         Mutex'
  PROVE  Ordered'
<1>1. \A d \in Caller : d # c => pc'[d] = pc[d]
  BY DEF Goto, TypeOK
<1>2. pc'[c] = label
  BY DEF Goto, TypeOK
<1>3. \A d \in Caller : Issued(d)' = Issued(d)
  BY <1>1, <1>2 DEF Issued
<1>4. \A g \in Generator : Spinning(g)' = Spinning(g)
  BY <1>1, <1>2 DEF Spinning
<1>5. \A d \in Caller : Past(d)'
  BY <1>1, <1>3, <1>4, SnowflakeConstants DEF Ordered, Past
<1>6. Distinct'
  BY <1>3 DEF Ordered, Distinct
<1>7. QED
  BY <1>5, <1>6 DEF Ordered, Began

\* Every step keeps the order of the ids.
LEMMA OrderedStep == TypeOK /\ Ordered /\ [Next]_vars => Ordered'
<1> SUFFICES ASSUME TypeOK, Ordered, [Next]_vars PROVE Ordered'
  OBVIOUS
<1> USE SnowflakeConstants
<1>1. CASE UNCHANGED <<life, start, timestamp, sequence, locked, pc, id>>
  BY <1>1 DEF Ordered, Mutex, HasLock, Began, Past, Distinct, Spinning, Issued
<1>2. ASSUME NEW g \in Generator, NewSnowFlakeGenerator(g) PROVE Ordered'
  <2>1. UNCHANGED <<locked, pc, id>> /\ \A c \in Caller : GenOf[c] = g => pc[c] = "idle"
    BY <1>2 DEF NewSnowFlakeGenerator, Ordered, Past
  <2>2. \A c \in Caller : Past(c)'
    BY <1>2, <2>1 DEF NewSnowFlakeGenerator, Ordered, Past, Issued, Spinning, TypeOK
  <2>3. Began'
    BY <1>2 DEF NewSnowFlakeGenerator, Ordered, Began, TypeOK
  <2>4. QED
    BY <2>1, <2>2, <2>3 DEF Ordered, Mutex, HasLock, Distinct, Issued
<1>3. ASSUME NEW g \in Generator, Crash(g) PROVE Ordered'
  BY <1>3 DEF Crash, Ordered, Mutex, HasLock, Began, Past, Distinct, Spinning, Issued, TypeOK
<1>4. ASSUME NEW c \in Caller, Call(c) PROVE Ordered'
  <2>1. Mutex'
    BY <1>4 DEF Call, Goto, Ordered, Mutex, HasLock, Critical, TypeOK
  <2>2. QED
    BY <1>4, <2>1, OtherStep DEF Call, Alive, genVars, Issued
<1>5. ASSUME NEW c \in Caller, Lock(c) PROVE Ordered'
  <2>1. Mutex'
    BY <1>5 DEF Lock, CanSwap, Goto, Ordered, Mutex, HasLock, Critical, TypeOK
  <2>2. QED
    BY <1>5, <2>1, OtherStep DEF Lock, Alive, genVars, Issued
<1>6. ASSUME NEW c \in Caller, ReadClock(c) PROVE Ordered'
  <2>1. Mutex'
    BY <1>6 DEF ReadClock, Goto, Ordered, Mutex, HasLock, Critical, TypeOK
  <2>2. QED
    BY <1>6, <2>1, OtherStep DEF ReadClock, Alive, genVars, Issued
<1>7. ASSUME NEW c \in Caller, Panic(c) PROVE Ordered'
  <2>1. Mutex'
    BY <1>7 DEF Panic, Goto, Ordered, Mutex, HasLock, Critical, TypeOK
  <2>2. QED
    BY <1>7, <2>1, OtherStep DEF Panic, Alive, genVars, Issued
<1>8. ASSUME NEW c \in Caller, Unlock(c) PROVE Ordered'
  <2> DEFINE label == IF pc[c] = "panic" THEN "panicked" ELSE "done"
  <2>0. locked[GenOf[c]] = 1 /\ pc[c] \in {"unlock", "panic"}
    BY <1>8 DEF Unlock, Ordered, Mutex, HasLock, Critical
  <2>1. Goto(c, label) /\ pc[c] \in {"unlock", "panic"}
    <3>1. locked[GenOf[c]] - 1 = 0
      BY <2>0
    <3>2. CASE pc[c] = "unlock"
      BY <1>8, <3>1, <3>2 DEF Unlock, Goto
    <3>3. CASE pc[c] = "panic"
      BY <1>8, <3>3 DEF Unlock, Goto
    <3>4. QED
      BY <2>0, <3>2, <3>3
  <2>2. Mutex'
    BY <1>8, <2>1 DEF Unlock, Goto, Ordered, Mutex, HasLock, Critical, TypeOK
  <2>3. Issued(c) <=> label \in {"unlock", "done"}
    BY <2>1 DEF Issued
  <2>4. QED
    BY <1>8, <2>1, <2>2, <2>3, OtherStep DEF Unlock, Alive, genVars
<1>9. CASE Tick \/ SetBack \/ UNCHANGED vars
  BY <1>1, <1>9 DEF Tick, SetBack, vars, genVars
<1>10. QED
  BY <1>2, <1>3, <1>4, <1>5, <1>6, <1>7, <1>8, <1>9, IssueStep, Steps DEF Issues

\* So all that has been said of the fields goes on.
LEMMA TypedOrdered ==
  /\ Init => TypeOK /\ Ordered
  /\ TypeOK /\ Ordered /\ [Next]_vars => TypeOK' /\ Ordered'
<1>1. Ordered => HasLock
  BY DEF Ordered, Mutex
<1>2. QED
  BY <1>1, TypedInit, TypedStep, OrderedInit, OrderedStep

\* TypeOK holds in every state: a sequence number never exceeds its width, and
\* the counter of a spin lock is 0 or 1.  Unlock counts it down wherever it
\* stands, so that this takes mutual exclusion: it never finds the lock free.
THEOREM TypeCorrect == Spec => []TypeOK
BY TypedOrdered, PTL DEF Spec

\* Hence SpinLock.Unlock never panics (snowflake.go:103).
THEOREM UnlockFindsTaken ==
  Spec => [](\A c \in Caller : pc[c] \in {"unlock", "panic"} => locked[GenOf[c]] - 1 = 0)
<1>1. Ordered => \A c \in Caller : pc[c] \in {"unlock", "panic"} => locked[GenOf[c]] - 1 = 0
  BY DEF Ordered, Mutex, HasLock, Critical
<1>2. QED
  BY <1>1, TypedOrdered, PTL DEF Spec

-----------------------------------------------------------------------------
\* Two ids of one machine are different unless a process of it has begun
\* before the clock had passed the last timestamp of another one.
THEOREM Uniqueness == Spec => []IdsUnique
<1>1. ASSUME TypeOK, Ordered, CleanRestarts,
             NEW c \in Caller, NEW d \in Caller, c # d, Issued(c), Issued(d),
             MachineOf[GenOf[c]] = MachineOf[GenOf[d]]
      PROVE  id[c] # id[d]
  <2>1. CASE GenOf[c] = GenOf[d]
    BY <1>1, <2>1 DEF Ordered, Distinct
  <2>2. CASE GenOf[c] # GenOf[d]
    <3>1. life[GenOf[c]] # "new" /\ life[GenOf[d]] # "new"
      BY <1>1 DEF Ordered, Past, Issued
    <3>2. \/ timestamp[GenOf[c]] < start[GenOf[d]]
          \/ timestamp[GenOf[d]] < start[GenOf[c]]
      BY <1>1, <2>2, <3>1, SnowflakeConstants DEF CleanRestarts
    <3>3. /\ start[GenOf[c]] <= id[c].timestamp /\ id[c].timestamp <= timestamp[GenOf[c]]
          /\ start[GenOf[d]] <= id[d].timestamp /\ id[d].timestamp <= timestamp[GenOf[d]]
      BY <1>1 DEF Ordered, Past
    <3>4. \A e \in Caller : id[e].timestamp \in Nat /\ start[GenOf[e]] \in Nat
                            /\ timestamp[GenOf[e]] \in Nat
      BY <1>1, SnowflakeConstants DEF TypeOK, Id
    <3>5. id[c].timestamp # id[d].timestamp
      BY <3>2, <3>3, <3>4
    <3>6. QED
      BY <3>5
  <2>3. QED
    BY <2>1, <2>2
<1>2. TypeOK /\ Ordered => IdsUnique
  BY <1>1 DEF IdsUnique
<1>3. QED
  BY <1>2, TypedOrdered, PTL DEF Spec

\* What a generator issues is later than everything it has issued before.
THEOREM Monotony == Spec => IdsIncrease
<1>1. ASSUME TypeOK, Ordered, [Next]_vars, NEW c \in Caller, NEW d \in Caller,
             ~Issued(c), Issued(c)', Issued(d), GenOf[d] = GenOf[c]
      PROVE  Later(id'[c], id[d])
  <2>1. CASE Issues(c)
    <3>1. PICK ts \in Nat, seq \in 0..MaxSequence : Issue(c, ts, seq) /\ Beyond(c, ts, seq)
      BY <1>1, <2>1, LaterThanAll DEF Goto, TypeOK, Issued
    <3>2. id'[c] = [timestamp |-> ts, sequence |-> seq]
      BY <1>1, <3>1 DEF Issue, TypeOK
    <3>3. QED
      BY <1>1, <3>1, <3>2 DEF Beyond
  <2>2. ASSUME NEW e \in Caller, Issues(e), e # c PROVE FALSE
    BY <1>1, <2>2, LaterThanAll DEF Goto, Issue, TypeOK, Issued
  <2>3. ASSUME NEW e \in Caller,
               Call(e) \/ Lock(e) \/ ReadClock(e) \/ Panic(e) \/ Unlock(e)
        PROVE  FALSE
    BY <1>1, <2>3 DEF Call, Lock, ReadClock, Panic, Unlock, Goto, TypeOK, Issued
  <2>4. CASE UNCHANGED pc
    BY <1>1, <2>4 DEF Issued
  <2>5. QED
    BY <1>1, <2>1, <2>2, <2>3, <2>4, Steps
    DEF Issues, Tick, SetBack, NewSnowFlakeGenerator, Crash, vars
<1>2. TypeOK /\ Ordered /\ [Next]_vars =>
        [\A c, d \in Caller :
           /\ ~Issued(c) /\ Issued(c)'
           /\ Issued(d) /\ GenOf[d] = GenOf[c]
           => Later(id'[c], id[d])]_<<pc, id>>
  BY <1>1
<1>3. QED
  BY <1>2, TypedOrdered, PTL DEF Spec, IdsIncrease

=============================================================================
