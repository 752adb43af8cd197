------------------------------ MODULE SnowFlake ------------------------------
(***************************************************************************)
(* The id generator of ids/SnowFlake.go.  A Node hands out 64-bit ids made *)
(* of a millisecond, its own number and a step within the millisecond.     *)
(* Its counters live in memory only: a process that starts again makes a   *)
(* new Node, which knows nothing of the ids the old one has handed out.    *)
(*                                                                         *)
(* A millisecond stands for time.Since(n.epoch), which reads the monotonic *)
(* clock, so that within a process it never goes back.  How an id is       *)
(* printed and parsed (Base32, Base58 and the others) is left out.         *)
(***************************************************************************)
EXTENDS Integers, Sequences, FiniteSets

CONSTANTS
  Callers,    \* the goroutines that ask for ids
  Numbers,    \* the node numbers processes are started with
  NodeRange,  \* 2^NodeBits
  StepRange,  \* 2^StepBits
  Horizon,    \* bound: nobody waits, the clock stops here
  MaxIds      \* bound: ids asked for

ASSUME RangeAssumption ==
  /\ NodeRange \in Nat \ {0}
  /\ StepRange \in Nat \ {0}
  /\ Numbers \subseteq Int
  /\ Horizon \in Nat
  /\ MaxIds \in Nat
  /\ "free" \notin Callers

VARIABLES
  clock,   \* milliseconds since the epoch
  node,    \* the Node of each number: its fields time and step
  lock,    \* the holder of each Node's mutex, or Free
  call,    \* how far each goroutine is in Generate
  issued   \* history: what was returned, in the order of n.mu.Unlock

vars == <<clock, node, lock, call, issued>>

Free   == "free"
NoNode == [made |-> FALSE]
Idle   == [at |-> "idle"]

Id(t, m, s) == (t * NodeRange + m) * StepRange + s

Init ==
  /\ clock = 0
  /\ node = [m \in Numbers |-> NoNode]
  /\ lock = [m \in Numbers |-> Free]
  /\ call = [c \in Callers |-> Idle]
  /\ issued = <<>>

Tick ==
  /\ \/ clock < Horizon
     \/ \E c \in Callers : call[c].at = "spin" /\ clock <= node[call[c].num].time
  /\ clock' = clock + 1
  /\ UNCHANGED <<node, lock, call, issued>>

AnyNumber(m) == m >= 0   \* mutant: the upper end unchecked

InRange(m) == m \in 0 .. NodeRange - 1

(* NewNode, called when a process starts.  Its callers died with the last  *)
(* process.  Starting takes a millisecond or more.                         *)
NewNode(m) ==
  /\ InRange(m)
  /\ node[m] # NoNode => clock > node[m].time
  /\ node' = [node EXCEPT ![m] = [time |-> 0, step |-> 0]]
  /\ lock' = [lock EXCEPT ![m] = Free]
  /\ call' = [c \in Callers |-> IF call[c] # Idle /\ call[c].num = m THEN Idle ELSE call[c]]
  /\ UNCHANGED <<clock, issued>>

Pending == {c \in Callers : call[c] # Idle}

Request(c, m) ==
  /\ call[c] = Idle /\ node[m] # NoNode
  /\ Len(issued) + Cardinality(Pending) < MaxIds
  /\ call' = [call EXCEPT ![c] = [at |-> "lock", num |-> m, now |-> 0]]
  /\ UNCHANGED <<clock, node, lock, issued>>

Lock(c) ==
  /\ call[c].at = "lock" /\ lock[call[c].num] = Free
  /\ lock' = [lock EXCEPT ![call[c].num] = c]
  /\ call' = [call EXCEPT ![c] = [at |-> "read", num |-> call[c].num, now |-> 0]]
  /\ UNCHANGED <<clock, node, issued>>

NextUnmasked(n) == IF clock = n.time THEN n.step + 1 ELSE 0   \* mutant: no mask

NextStep(n) == IF clock = n.time THEN (n.step + 1) % StepRange ELSE 0

NeverWaits(n) == FALSE   \* mutant: a used-up millisecond starts over

Exhausted(n) == clock = n.time /\ NextStep(n) = 0

(* The clock is read and the step counted; a millisecond whose steps are   *)
(* used up is waited out.                                                  *)
Read(c) ==
  LET m == call[c].num IN
  /\ call[c].at = "read"
  /\ node' = [node EXCEPT ![m] = [time |-> node[m].time, step |-> NextStep(node[m])]]
  /\ call' = [call EXCEPT ![c] =
                [at |-> IF Exhausted(node[m]) THEN "spin" ELSE "issue", num |-> m, now |-> clock]]
  /\ UNCHANGED <<clock, lock, issued>>

SpinStale(c) ==   \* mutant: the clock is not read again
  /\ call[c].at = "spin"
  /\ call[c].now > node[call[c].num].time
  /\ call' = [call EXCEPT ![c] = [at |-> "issue", num |-> call[c].num, now |-> call[c].now]]
  /\ UNCHANGED <<clock, node, lock, issued>>

Spin(c) ==
  /\ call[c].at = "spin"
  /\ clock > node[call[c].num].time
  /\ call' = [call EXCEPT ![c] = [at |-> "issue", num |-> call[c].num, now |-> clock]]
  /\ UNCHANGED <<clock, node, lock, issued>>

Issue(c) ==
  LET m == call[c].num  t == call[c].now  s == node[call[c].num].step IN
  /\ call[c].at = "issue"
  /\ node' = [node EXCEPT ![m] = [time |-> t, step |-> s]]
  /\ issued' = Append(issued, [id |-> Id(t, m, s), node |-> m, time |-> t, step |-> s])
  /\ lock' = [lock EXCEPT ![m] = Free]
  /\ call' = [call EXCEPT ![c] = Idle]
  /\ UNCHANGED clock

Next ==
  \/ Tick
  \/ \E m \in Numbers : NewNode(m) \/ \E c \in Callers : Request(c, m)
  \/ \E c \in Callers : Lock(c) \/ Read(c) \/ Spin(c) \/ Issue(c)

Spec == Init /\ [][Next]_vars

(* Time passes, a goroutine that can run does run, and sync.Mutex does not *)
(* let a waiter starve (its starvation mode hands the lock over).          *)
Fairness ==
  /\ WF_vars(Tick)
  /\ \A c \in Callers : WF_vars(Read(c) \/ Spin(c) \/ Issue(c)) /\ SF_vars(Lock(c))

FairSpec == Spec /\ Fairness

-----------------------------------------------------------------------------
CallType ==
  {Idle} \cup [at : {"lock", "read", "spin", "issue"}, num : Numbers, now : Nat]
Counters == [time : Nat, step : 0 .. StepRange - 1]
Issued   == [id : Nat, node : 0 .. NodeRange - 1, time : Nat, step : 0 .. StepRange - 1]

(* The fields stay within the bits the id has for them.                    *)
TypeOK ==
  /\ clock \in Nat
  /\ node \in [Numbers -> {NoNode} \cup Counters]
  /\ lock \in [Numbers -> Callers \cup {Free}]
  /\ call \in [Callers -> CallType]
  /\ issued \in Seq(Issued)

(* No id is handed out twice, whatever nodes and goroutines run, whenever  *)
(* the steps of a millisecond run out and a process starts again.          *)
Unique == \A i, j \in DOMAIN issued : i # j => issued[i].id # issued[j].id

(* The ids of one node number only ever grow, across restarts too, so that *)
(* they can be used as a clustered key.                                    *)
Increasing ==
  \A i, j \in DOMAIN issued :
    i < j /\ issued[i].node = issued[j].node => issued[i].id < issued[j].id

(* A call of Generate returns: nobody waits for ever for the mutex or for  *)
(* the next millisecond.                                                   *)
Served == \A c \in Callers : call[c] # Idle ~> call[c] = Idle
=============================================================================
