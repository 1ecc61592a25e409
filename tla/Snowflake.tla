----------------------------- MODULE Snowflake -----------------------------
(***************************************************************************)
(* The generator of ids (common/snowflake.go): a timestamp, the machine    *)
(* and a sequence number of fixed width, under a spin lock.  A generator   *)
(* lives as long as its process; the process that comes after a restart,   *)
(* or next to it in a rolling update, has a generator of its own, with the *)
(* same machine id and no memory but the clock.                            *)
(***************************************************************************)
EXTENDS Integers

CONSTANTS
  Generator,    \* generators, one per process
  MachineOf,    \* the machine id a generator is configured with
  Caller,       \* goroutines, each of which calls Next once
  GenOf,        \* the generator a goroutine calls
  MaxSequence,  \* the largest sequence number (2^16 - 1 in the code)
  MaxTime,      \* bound: the clock goes no further by itself
  MaxBack       \* bound: how many times the clock is set back

ASSUME SnowflakeConstants ==
  /\ GenOf \in [Caller -> Generator]
  /\ MaxSequence \in Nat
  /\ MaxTime \in Nat
  /\ MaxBack \in Nat

VARIABLES
  now,        \* the wall clock, in milliseconds since wdmEpoch
  back,       \* how many times it has been set back
  life,       \* of the process of a generator: "new", "up", "dead"
  start,      \* history: the clock when the generator was made
  timestamp,  \* sg.timestamp
  sequence,   \* sg.sequence
  locked,     \* sg.lock.locked
  pc,         \* where a goroutine stands
  read,       \* its local variable timestamp
  id          \* the id it returns, without the machine

clockVars == <<now, back>>
genVars   == <<life, start, timestamp, sequence>>
vars      == <<clockVars, genVars, locked, pc, read, id>>

Id == [timestamp : Nat, sequence : 0..MaxSequence]

Alive(c) == life[GenOf[c]] = "up"

\* Goroutines between Lock and Unlock.
Critical == {"read", "compare", "spin", "unlock", "panic"}

Label == {"idle", "lock", "done", "panicked"} \cup Critical

Goto(c, label) == pc' = [pc EXCEPT ![c] = label]

Init ==
  /\ now = 0
  /\ back = 0
  /\ life = [g \in Generator |-> "new"]
  /\ start = [g \in Generator |-> 0]
  /\ timestamp = [g \in Generator |-> 0]
  /\ sequence = [g \in Generator |-> 0]
  /\ locked = [g \in Generator |-> 0]
  /\ pc = [c \in Caller |-> "idle"]
  /\ read = [c \in Caller |-> 0]
  /\ id = [c \in Caller |-> [timestamp |-> 0, sequence |-> 0]]

-----------------------------------------------------------------------------
(* The clock and the processes                                             *)

\* Somebody is waiting for the next millisecond.
Awaited == \E c \in Caller : pc[c] = "spin" /\ Alive(c) /\ now <= timestamp[GenOf[c]]

Tick ==
  /\ now < MaxTime \/ Awaited
  /\ now' = now + 1
  /\ UNCHANGED <<back, genVars, locked, pc, read, id>>

\* The wall clock is adjusted.
SetBack ==
  /\ back < MaxBack /\ now > 0
  /\ now' \in 0..(now - 1)
  /\ back' = back + 1
  /\ UNCHANGED <<genVars, locked, pc, read, id>>

NewSnowFlakeGenerator(g) ==
  /\ life[g] = "new"
  /\ life' = [life EXCEPT ![g] = "up"]
  /\ start' = [start EXCEPT ![g] = now]
  /\ timestamp' = [timestamp EXCEPT ![g] = now]
  /\ sequence' = [sequence EXCEPT ![g] = 0]
  /\ UNCHANGED <<clockVars, locked, pc, read, id>>

\* The process ends, with whatever its goroutines were doing.
Crash(g) ==
  /\ life[g] = "up"
  /\ life' = [life EXCEPT ![g] = "dead"]
  /\ UNCHANGED <<clockVars, start, timestamp, sequence, locked, pc, read, id>>

-----------------------------------------------------------------------------
(* Next, called by a goroutine c                                           *)

\* A handler asks for an id.
Call(c) ==
  /\ Alive(c) /\ pc[c] = "idle"
  /\ Goto(c, "lock")
  /\ UNCHANGED <<clockVars, genVars, locked, read, id>>

\* Mutant: the swap is not compared.
CanSwapAlways(g) == TRUE

CanSwap(g) == locked[g] = 0

\* SpinLock.Lock: a goroutine whose CompareAndSwap fails yields and tries again.
Lock(c) ==
  /\ Alive(c) /\ pc[c] = "lock" /\ CanSwap(GenOf[c])
  /\ locked' = [locked EXCEPT ![GenOf[c]] = 1]
  /\ Goto(c, "read")
  /\ UNCHANGED <<clockVars, genVars, read, id>>

ReadClock(c) ==
  /\ Alive(c) /\ pc[c] = "read"
  /\ read' = [read EXCEPT ![c] = now]
  /\ Goto(c, "compare")
  /\ UNCHANGED <<clockVars, genVars, locked, id>>

\* sg.timestamp is assigned, and the id returned is made of the fields.
Issue(c, ts, seq) ==
  /\ timestamp' = [timestamp EXCEPT ![GenOf[c]] = ts]
  /\ sequence' = [sequence EXCEPT ![GenOf[c]] = seq]
  /\ id' = [id EXCEPT ![c] = [timestamp |-> ts, sequence |-> seq]]
  /\ Goto(c, "unlock")

\* uint16 addition.
Increment(n) == IF n = MaxSequence THEN 0 ELSE n + 1

\* Mutant: a clock that has been set back is not noticed.
MovedBackUnnoticed(c) == FALSE

MovedBack(c) == read[c] < timestamp[GenOf[c]]

\* "clock moves backwards": the panic ends the request, not the process, and
\* the deferred Unlock still runs.
Panic(c) ==
  /\ Alive(c) /\ pc[c] = "compare" /\ MovedBack(c)
  /\ Goto(c, "panic")
  /\ UNCHANGED <<clockVars, genVars, locked, read, id>>

NewMillisecond(c) ==
  /\ Alive(c) /\ pc[c] = "compare" /\ ~MovedBack(c)
  /\ read[c] # timestamp[GenOf[c]]
  /\ Issue(c, read[c], 0)
  /\ UNCHANGED <<clockVars, life, start, locked, read>>

\* The sequence is incremented; if that wraps it, the millisecond is used up.
SameMillisecond(c) ==
  LET g == GenOf[c]
      seq == Increment(sequence[g])
  IN
  /\ Alive(c) /\ pc[c] = "compare" /\ ~MovedBack(c)
  /\ read[c] = timestamp[g]
  /\ IF seq = 0
     THEN /\ sequence' = [sequence EXCEPT ![g] = 0]
          /\ Goto(c, "spin")
          /\ UNCHANGED <<timestamp, id>>
     ELSE Issue(c, read[c], seq)
  /\ UNCHANGED <<clockVars, life, start, locked, read>>

\* Read the clock until it has moved on: a step is the last turn of the loop,
\* the others change nothing.
Spin(c) ==
  /\ Alive(c) /\ pc[c] = "spin" /\ now > timestamp[GenOf[c]]
  /\ read' = [read EXCEPT ![c] = now]
  /\ Issue(c, now, sequence[GenOf[c]])
  /\ UNCHANGED <<clockVars, life, start, locked>>

\* Mutant: Unlock is not deferred, so that a panic skips it.
UnlockUndeferred(c) ==
  /\ Alive(c) /\ pc[c] \in {"unlock", "panic"}
  /\ locked' = [locked EXCEPT ![GenOf[c]] = IF pc[c] = "panic" THEN @ ELSE @ - 1]
  /\ Goto(c, IF pc[c] = "panic" THEN "panicked" ELSE "done")
  /\ UNCHANGED <<clockVars, genVars, read, id>>

\* SpinLock.Unlock, deferred: it counts down, and panics itself if that does not
\* leave 0 ("SpinLock double unlock").
Unlock(c) ==
  LET val == locked[GenOf[c]] - 1 IN
  /\ Alive(c) /\ pc[c] \in {"unlock", "panic"}
  /\ locked' = [locked EXCEPT ![GenOf[c]] = val]
  /\ Goto(c, IF pc[c] = "unlock" /\ val = 0 THEN "done" ELSE "panicked")
  /\ UNCHANGED <<clockVars, genVars, read, id>>

-----------------------------------------------------------------------------
\* What a goroutine that has called Next does.
Proceed(c) ==
  \/ Lock(c) \/ ReadClock(c) \/ Panic(c) \/ NewMillisecond(c)
  \/ SameMillisecond(c) \/ Spin(c) \/ Unlock(c)

Next ==
  \/ Tick \/ SetBack
  \/ \E g \in Generator : NewSnowFlakeGenerator(g) \/ Crash(g)
  \/ \E c \in Caller : Call(c) \/ Proceed(c)

Spec == Init /\ [][Next]_vars

\* Goroutines are scheduled and time passes.  That is weak: a spin lock is
\* not fair, but every goroutine asks once, so the others get out of the way.
FairSpec == Spec /\ WF_now(Tick) /\ \A c \in Caller : WF_vars(Proceed(c))

-----------------------------------------------------------------------------
(* Properties                                                              *)

\* The sequence fits the id's 16 bits, and a spin lock is free or taken: no two
\* goroutines have it, and Unlock never finds it free (snowflake.go:102).
TypeOK ==
  /\ now \in Nat /\ back \in Nat
  /\ life \in [Generator -> {"new", "up", "dead"}]
  /\ start \in [Generator -> Nat]
  /\ timestamp \in [Generator -> Nat]
  /\ sequence \in [Generator -> 0..MaxSequence]
  /\ locked \in [Generator -> {0, 1}]
  /\ pc \in [Caller -> Label]
  /\ read \in [Caller -> Nat]
  /\ id \in [Caller -> Id]

\* The id has been returned, or is about to be.
Issued(c) == pc[c] \in {"unlock", "done"}

\* No process of a machine begins to issue ids before the clock has passed the
\* last timestamp of any other process of that machine.
CleanRestarts ==
  \A g, h \in Generator :
    g # h /\ MachineOf[g] = MachineOf[h] /\ life[g] # "new" /\ life[h] # "new" =>
      timestamp[g] < start[h] \/ timestamp[h] < start[g]

\* "distributed id generator" (snowflake.go:14): two ids are different, however
\* goroutines interleave, however many are asked for in a millisecond and
\* wherever the clock is set, as long as restarts are clean.  (Two machines'
\* ids differ by their m part.)
IdsUnique ==
  CleanRestarts =>
    \A c, d \in Caller :
      /\ c # d /\ Issued(c) /\ Issued(d)
      /\ MachineOf[GenOf[c]] = MachineOf[GenOf[d]]
      => id[c] # id[d]

\* One generator's ids are ordered as they were issued, also when its clock is
\* set back, which panic("clock moves backwards") is there for
\* (snowflake.go:38).
Later(i, j) ==
  i.timestamp > j.timestamp \/ (i.timestamp = j.timestamp /\ i.sequence > j.sequence)

IdsIncrease ==
  [][\A c, d \in Caller :
       /\ ~Issued(c) /\ Issued(c)'
       /\ Issued(d) /\ GenOf[d] = GenOf[c]
       => Later(id'[c], id[d])]_<<pc, id>>

\* Every call of Next in a process that lives on ends, in an id or in the
\* panic, and so no handler spins for good on a lock that nobody gives back.
EveryCallEnds ==
  \A c \in Caller : pc[c] = "lock" ~> pc[c] \in {"done", "panicked"} \/ ~Alive(c)

=============================================================================
