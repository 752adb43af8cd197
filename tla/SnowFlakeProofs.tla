---------------------------- MODULE SnowFlakeProofs ----------------------------
(***************************************************************************)
(* No id of SnowFlake is handed out twice, and the ids of a node number    *)
(* grow, for any number of goroutines, nodes, bits and restarts.           *)
(***************************************************************************)
EXTENDS SnowFlake, SequenceTheorems, TLAPS

(* The mutex: whoever is past Lock holds it, on a Node that was made.      *)
Locked ==
  \A c \in Callers :
    /\ call[c] # Idle => node[call[c].num] # NoNode
    /\ call[c].at \in {"read", "spin", "issue"} => lock[call[c].num] = c

(* A Node has a number that fits and has not run ahead of the clock.       *)
Behind ==
  \A m \in Numbers : node[m] # NoNode => InRange(m) /\ node[m].time <= clock

(* Whatever was handed out in this very millisecond, the Node has counted. *)
Counted ==
  \A i \in DOMAIN issued :
    LET r == issued[i] IN
    /\ r.node \in Numbers /\ node[r.node] # NoNode
    /\ r.time <= clock
    /\ r.time = clock => node[r.node].time = clock
    /\ (r.time = clock /\ \A c \in Callers : call[c].at = "spin" => call[c].num # r.node)
         => r.step <= node[r.node].step

(* What a spinning or issuing goroutine is about to hand out is later than *)
(* everything handed out for its Node.                                     *)
Ahead ==
  \A c \in Callers :
    /\ call[c].at = "issue" => call[c].now <= clock
    /\ \A i \in DOMAIN issued :
         LET r == issued[i]  n == node[call[c].num] IN
         /\ call[c].at = "spin" /\ r.node = call[c].num => r.time <= n.time
         /\ call[c].at = "issue" /\ r.node = call[c].num =>
              r.time < call[c].now \/ (r.time = call[c].now /\ r.step < n.step)

Before(r, q) == r.time < q.time \/ (r.time = q.time /\ r.step < q.step)

(* The history is in order, and every id is made of its parts.             *)
Sorted ==
  /\ \A i \in DOMAIN issued : issued[i].id = Id(issued[i].time, issued[i].node, issued[i].step)
  /\ \A i, j \in DOMAIN issued :
       i < j /\ issued[i].node = issued[j].node => Before(issued[i], issued[j])

IInv == TypeOK /\ Locked /\ Behind /\ Counted /\ Ahead /\ Sorted

-----------------------------------------------------------------------------
(* Places weigh more than what is below them.                              *)
LEMMA PlaceValue ==
  ASSUME NEW K \in Nat \ {0}, NEW a \in Nat, NEW b \in Nat, a < b,
         NEW x \in 0 .. K - 1, NEW y \in Nat
  PROVE  a * K + x < b * K + y
<1> DEFINE d == b - (a + 1)
<1>1. d \in Nat
  OBVIOUS
<1>2. b = a + 1 + d
  OBVIOUS
<1> HIDE DEF d
<1>3. b * K = a * K + K + d * K
  BY <1>1, <1>2
<1>4. d * K \in Nat /\ a * K \in Nat
  BY <1>1
<1>5. QED
  BY <1>3, <1>4

(* Ids of one node are ordered as their millisecond and step are.          *)
LEMMA IdOrder ==
  ASSUME NEW t \in Nat, NEW u \in Nat, NEW m \in 0 .. NodeRange - 1,
         NEW s \in 0 .. StepRange - 1, NEW r \in 0 .. StepRange - 1,
         t < u \/ (t = u /\ s < r)
  PROVE  Id(t, m, s) < Id(u, m, r)
<1>1. CASE t < u
  <2>1. t * NodeRange + m < u * NodeRange + m
    BY <1>1, PlaceValue, RangeAssumption
  <2>2. t * NodeRange + m \in Nat /\ u * NodeRange + m \in Nat
    BY RangeAssumption
  <2>3. QED
    BY <2>1, <2>2, PlaceValue, RangeAssumption DEF Id
<1>2. CASE t = u /\ s < r
  <2>1. (t * NodeRange + m) * StepRange \in Nat
    BY RangeAssumption
  <2>2. QED
    BY <1>2, <2>1 DEF Id
<1>3. QED
  BY <1>1, <1>2

(* Ids of two nodes differ.                                                *)
LEMMA IdApart ==
  ASSUME NEW t \in Nat, NEW u \in Nat,
         NEW m \in 0 .. NodeRange - 1, NEW p \in 0 .. NodeRange - 1, m # p,
         NEW s \in 0 .. StepRange - 1, NEW r \in 0 .. StepRange - 1
  PROVE  Id(t, m, s) # Id(u, p, r)
<1> DEFINE a == t * NodeRange + m
           b == u * NodeRange + p
<1>1. a \in Nat /\ b \in Nat
  BY RangeAssumption
<1>2. a # b
  <2>1. CASE t < u
    BY <2>1, PlaceValue, RangeAssumption
  <2>2. CASE u < t
    <3>1. b < a
      BY <2>2, PlaceValue, RangeAssumption
    <3>2. QED
      BY <3>1, <1>1
  <2>3. CASE t = u
    BY <2>3, RangeAssumption
  <2>4. QED
    BY <2>1, <2>2, <2>3
<1>3. Id(t, m, s) = a * StepRange + s /\ Id(u, p, r) = b * StepRange + r
  BY DEF Id
<1> HIDE DEF a, b
<1>4. CASE a < b
  <2>1. a * StepRange + s < b * StepRange + r
    BY <1>1, <1>4, PlaceValue, RangeAssumption
  <2>2. a * StepRange + s \in Int /\ b * StepRange + r \in Int
    BY <1>1, RangeAssumption
  <2>3. QED
    BY <1>3, <2>1, <2>2
<1>5. CASE b < a
  <2>1. b * StepRange + r < a * StepRange + s
    BY <1>1, <1>5, PlaceValue, RangeAssumption
  <2>2. a * StepRange + s \in Int /\ b * StepRange + r \in Int
    BY <1>1, RangeAssumption
  <2>3. QED
    BY <1>3, <2>1, <2>2
<1>6. QED
  BY <1>1, <1>2, <1>4, <1>5

LEMMA NextStepType ==
  ASSUME NEW n \in [time : Nat, step : 0 .. StepRange - 1]
  PROVE  /\ NextStep(n) \in 0 .. StepRange - 1
         /\ clock = n.time /\ NextStep(n) # 0 => NextStep(n) = n.step + 1
<1>1. (n.step + 1) \in 1 .. StepRange
  BY RangeAssumption
<1>2. CASE n.step + 1 < StepRange
  <2>1. (n.step + 1) % StepRange = n.step + 1
    BY <1>1, <1>2, RangeAssumption
  <2>2. QED
    BY <2>1, <1>1, <1>2, RangeAssumption DEF NextStep
<1>3. CASE n.step + 1 = StepRange
  <2>1. (n.step + 1) % StepRange = 0
    BY <1>3, RangeAssumption
  <2>2. QED
    BY <2>1, <1>1, RangeAssumption DEF NextStep
<1>4. QED
  BY <1>1, <1>2, <1>3, RangeAssumption

(* What the history, the callers and the nodes are made of.                *)
LEMMA RecordType ==
  ASSUME TypeOK, NEW i \in DOMAIN issued
  PROVE  issued[i] \in Issued /\ i \in Nat
<1>1. issued \in Seq(Issued) /\ Len(issued) \in Nat
  BY DEF TypeOK
<1>2. i \in 1 .. Len(issued)
  BY <1>1
<1>3. QED
  BY <1>1, <1>2, ElementOfSeq

LEMMA BusyType ==
  ASSUME TypeOK, NEW c \in Callers, call[c].at # "idle" \/ call[c] # Idle
  PROVE  /\ call[c] # Idle
         /\ call[c] \in [at : {"lock", "read", "spin", "issue"}, num : Numbers, now : Nat]
BY DEF TypeOK, CallType, Idle

LEMMA MadeType ==
  ASSUME TypeOK, NEW m \in Numbers, node[m] # NoNode
  PROVE  node[m] \in Counters
BY DEF TypeOK

(* The order of the history is the order of the ids.                       *)
LEMMA SortedIsUnique == IInv => Unique /\ Increasing
<1> SUFFICES ASSUME IInv PROVE Unique /\ Increasing
  OBVIOUS
<1> USE DEF IInv
<1>1. ASSUME NEW i \in DOMAIN issued
      PROVE  /\ issued[i] \in Issued /\ i \in Nat
             /\ issued[i].id = Id(issued[i].time, issued[i].node, issued[i].step)
  BY <1>1, RecordType DEF Sorted
<1>2. ASSUME NEW i \in DOMAIN issued, NEW j \in DOMAIN issued,
             i < j, issued[i].node = issued[j].node
      PROVE  issued[i].id < issued[j].id
  <2>1. Before(issued[i], issued[j])
    BY <1>2 DEF Sorted
  <2>2. QED
    BY <1>1, <1>2, <2>1, IdOrder DEF Before, Issued
<1>3. Increasing
  BY <1>2 DEF Increasing
<1>4. ASSUME NEW i \in DOMAIN issued, NEW j \in DOMAIN issued, i # j
      PROVE  issued[i].id # issued[j].id
  <2>1. CASE issued[i].node = issued[j].node
    <3>1. CASE i < j
      BY <3>1, <2>1, <1>1, <1>2 DEF Issued
    <3>2. CASE j < i
      BY <3>2, <2>1, <1>1, <1>2 DEF Issued
    <3>3. QED
      BY <1>4, <3>1, <3>2, <1>1
  <2>2. CASE issued[i].node # issued[j].node
    BY <2>2, <1>1, IdApart DEF Issued
  <2>3. QED
    BY <2>1, <2>2
<1>5. Unique
  BY <1>4 DEF Unique
<1>6. QED
  BY <1>3, <1>5
-----------------------------------------------------------------------------
LEMMA InitIInv == Init => IInv
<1> SUFFICES ASSUME Init PROVE IInv
  OBVIOUS
<1>1. TypeOK
  BY DEF Init, TypeOK, CallType
<1>2. Locked /\ Behind
  BY DEF Init, Locked, Behind, Idle
<1>3. Counted /\ Sorted
  BY DEF Init, Counted, Sorted
<1>4. Ahead
  BY DEF Init, Ahead, Idle
<1>5. QED
  BY <1>1, <1>2, <1>3, <1>4 DEF IInv

LEMMA TickStep == IInv /\ Tick => IInv'
<1> SUFFICES ASSUME IInv, Tick PROVE IInv'
  OBVIOUS
<1> USE DEF IInv
<1>0. clock \in Nat /\ clock' = clock + 1 /\ UNCHANGED <<node, lock, call, issued>>
  BY DEF Tick, TypeOK
<1>1. TypeOK'
  BY <1>0 DEF TypeOK
<1>2. Locked'
  BY <1>0 DEF Locked
<1>3. Behind'
  <2>1. ASSUME NEW m \in Numbers, node[m] # NoNode PROVE node[m].time <= clock + 1
    <3>1. node[m].time \in Nat
      BY <2>1, MadeType DEF Counters
    <3>2. QED
      BY <2>1, <3>1, <1>0 DEF Behind
  <2>2. QED
    BY <2>1, <1>0 DEF Behind
<1>4. Counted'
  <2>1. ASSUME NEW i \in DOMAIN issued
        PROVE  issued[i].time <= clock + 1 /\ issued[i].time # clock + 1
    BY <1>0, <2>1, RecordType DEF Counted, Issued
  <2>2. QED
    BY <2>1, <1>0 DEF Counted
<1>5. Ahead'
  <2>1. ASSUME NEW c \in Callers, call[c].at = "issue" PROVE call[c].now <= clock + 1
    BY <1>0, <2>1, BusyType DEF Ahead
  <2>2. QED
    BY <2>1, <1>0 DEF Ahead
<1>6. Sorted'
  BY <1>0 DEF Sorted
<1>7. QED
  BY <1>1, <1>2, <1>3, <1>4, <1>5, <1>6

LEMMA NewNodeStep == ASSUME IInv, NEW m \in Numbers, NewNode(m) PROVE IInv'
<1> USE DEF IInv
<1> DEFINE Zero == [time |-> 0, step |-> 0]
<1>0. /\ InRange(m) /\ (node[m] # NoNode => clock > node[m].time)
      /\ UNCHANGED <<clock, issued>> /\ clock \in Nat
      /\ \A p \in Numbers : node'[p] = IF p = m THEN Zero ELSE node[p]
      /\ \A p \in Numbers : lock'[p] = IF p = m THEN Free ELSE lock[p]
      /\ \A c \in Callers : call'[c] = IF call[c] # Idle /\ call[c].num = m THEN Idle ELSE call[c]
  BY DEF NewNode, TypeOK
<1>a. Zero \in Counters /\ Zero # NoNode /\ Zero.time = 0
  BY RangeAssumption DEF Counters, NoNode
<1> HIDE DEF Zero
<1>b. ASSUME NEW c \in Callers, call'[c] # Idle
      PROVE  call'[c] = call[c] /\ call[c] # Idle /\ call[c].num # m /\ call[c].num \in Numbers
  BY <1>0, <1>b, BusyType
<1>c. Idle.at = "idle"
  BY DEF Idle
<1>1. TypeOK'
  <2>1. node' \in [Numbers -> {NoNode} \cup Counters]
    <3>1. node' = [node EXCEPT ![m] = Zero]
      BY DEF NewNode, Zero
    <3>2. QED
      BY <3>1, <1>a DEF TypeOK
  <2>2. lock' \in [Numbers -> Callers \cup {Free}]
    BY DEF NewNode, TypeOK
  <2>3. call' \in [Callers -> CallType]
    <3>1. Idle \in CallType /\ \A c \in Callers : call[c] \in CallType
      BY DEF TypeOK, CallType
    <3>2. QED
      BY <3>1 DEF NewNode
  <2>4. QED
    BY <2>1, <2>2, <2>3, <1>0 DEF TypeOK
<1>2. Locked'
  <2> SUFFICES ASSUME NEW c \in Callers
               PROVE  /\ call'[c] # Idle => node'[call'[c].num] # NoNode
                      /\ call'[c].at \in {"read", "spin", "issue"} => lock'[call'[c].num] = c
    BY DEF Locked
  <2>1. CASE call'[c] = Idle
    BY <2>1, <1>c
  <2>2. CASE call'[c] # Idle
    BY <2>2, <1>0, <1>b DEF Locked
  <2>3. QED
    BY <2>1, <2>2
<1>3. Behind'
  BY <1>0, <1>a DEF Behind
<1>4. Counted'
  <2> SUFFICES ASSUME NEW i \in DOMAIN issued
               PROVE  LET r == issued[i] IN
                      /\ r.node \in Numbers /\ node'[r.node] # NoNode
                      /\ r.time <= clock
                      /\ r.time = clock => node'[r.node].time = clock
                      /\ (r.time = clock /\ \A c \in Callers : call'[c].at = "spin" => call'[c].num # r.node)
                           => r.step <= node'[r.node].step
    BY <1>0 DEF Counted
  <2>1. CASE issued[i].node = m
    <3>1. node[m] # NoNode /\ issued[i].time <= clock /\ (issued[i].time = clock => node[m].time = clock)
      BY <2>1 DEF Counted
    <3>2. node[m].time \in Nat
      BY <3>1, MadeType DEF Counters
    <3>3. issued[i].time # clock
      BY <3>1, <3>2, <1>0
    <3>4. QED
      BY <2>1, <3>1, <3>3, <1>0, <1>a
  <2>2. CASE issued[i].node # m
    <3>1. ASSUME \A c \in Callers : call'[c].at = "spin" => call'[c].num # issued[i].node,
                 NEW c \in Callers, call[c].at = "spin"
          PROVE  call[c].num # issued[i].node
      <4>1. call[c] # Idle
        BY <3>1, <1>c
      <4>2. CASE call[c].num = m
        BY <4>2, <2>2
      <4>3. CASE call[c].num # m
        BY <4>3, <3>1, <1>0
      <4>4. QED
        BY <4>2, <4>3
    <3>2. issued[i].node \in Numbers /\ node'[issued[i].node] = node[issued[i].node]
      BY <2>2, <1>0 DEF Counted
    <3>3. QED
      BY <3>1, <3>2 DEF Counted
  <2>3. QED
    BY <2>1, <2>2
<1>5. Ahead'
  <2> SUFFICES ASSUME NEW c \in Callers
               PROVE  /\ call'[c].at = "issue" => call'[c].now <= clock
                      /\ \A i \in DOMAIN issued :
                           LET r == issued[i]  n == node'[call'[c].num] IN
                           /\ call'[c].at = "spin" /\ r.node = call'[c].num => r.time <= n.time
                           /\ call'[c].at = "issue" /\ r.node = call'[c].num =>
                                r.time < call'[c].now \/ (r.time = call'[c].now /\ r.step < n.step)
    BY <1>0 DEF Ahead
  <2>1. CASE call'[c] = Idle
    BY <2>1, <1>c
  <2>2. CASE call'[c] # Idle
    <3>1. call'[c] = call[c] /\ node'[call[c].num] = node[call[c].num]
      BY <2>2, <1>b, <1>0
    <3>2. QED
      BY <3>1 DEF Ahead
  <2>3. QED
    BY <2>1, <2>2
<1>6. Sorted'
  BY <1>0 DEF Sorted
<1>7. QED
  BY <1>1, <1>2, <1>3, <1>4, <1>5, <1>6

LEMMA RequestStep ==
  ASSUME IInv, NEW c \in Callers, NEW m \in Numbers, Request(c, m) PROVE IInv'
<1> USE DEF IInv
<1> DEFINE X == [at |-> "lock", num |-> m, now |-> 0]
<1>0. /\ node[m] # NoNode /\ UNCHANGED <<clock, node, lock, issued>>
      /\ call' = [call EXCEPT ![c] = X]
      /\ \A d \in Callers : call'[d] = IF d = c THEN X ELSE call[d]
  BY DEF Request, TypeOK
<1>a. X \in CallType /\ X.at = "lock" /\ X.num = m
  BY DEF CallType
<1> HIDE DEF X
<1>1. TypeOK'
  BY <1>0, <1>a DEF TypeOK
<1>2. Locked'
  BY <1>0, <1>a DEF Locked
<1>3. Behind' /\ Sorted'
  BY <1>0 DEF Behind, Sorted
<1>4. call[c].at = "idle"
  BY DEF Request, Idle
<1>5. Counted'
  <2>1. ASSUME NEW p, \A d \in Callers : call'[d].at = "spin" => call'[d].num # p
        PROVE  \A d \in Callers : call[d].at = "spin" => call[d].num # p
    BY <2>1, <1>0, <1>4
  <2>2. QED
    BY <2>1, <1>0 DEF Counted
<1>6. Ahead'
  BY <1>0, <1>a DEF Ahead
<1>7. QED
  BY <1>1, <1>2, <1>3, <1>5, <1>6

LEMMA LockStep == ASSUME IInv, NEW c \in Callers, Lock(c) PROVE IInv'
<1> USE DEF IInv
<1> DEFINE m == call[c].num
           X == [at |-> "read", num |-> m, now |-> 0]
<1>b. call[c] # Idle /\ m \in Numbers /\ call[c].at = "lock"
  BY BusyType DEF Lock
<1>0. /\ UNCHANGED <<clock, node, issued>>
      /\ lock[m] = Free
      /\ lock' = [lock EXCEPT ![m] = c]
      /\ call' = [call EXCEPT ![c] = X]
      /\ \A p \in Numbers : lock'[p] = IF p = m THEN c ELSE lock[p]
      /\ \A d \in Callers : call'[d] = IF d = c THEN X ELSE call[d]
  BY DEF Lock, TypeOK
<1>a. X \in CallType /\ X.at = "read" /\ X.num = m
  BY <1>b DEF CallType
<1> HIDE DEF X, m
<1>1. TypeOK'
  BY <1>0, <1>a, <1>b DEF TypeOK
<1>2. Locked'
  <2> SUFFICES ASSUME NEW d \in Callers
               PROVE  /\ call'[d] # Idle => node'[call'[d].num] # NoNode
                      /\ call'[d].at \in {"read", "spin", "issue"} => lock'[call'[d].num] = d
    BY DEF Locked
  <2>1. CASE d = c
    BY <2>1, <1>0, <1>a, <1>b DEF Locked, m
  <2>2. CASE d # c
    <3>1. call'[d] = call[d] /\ node' = node
      BY <2>2, <1>0
    <3>2. ASSUME call[d].at \in {"read", "spin", "issue"} PROVE lock'[call[d].num] = d
      <4>1. lock[call[d].num] = d /\ call[d].num \in Numbers
        BY <3>2, BusyType DEF Locked
      <4>2. call[d].num # m
        BY <4>1, <1>0, RangeAssumption DEF Free
      <4>3. QED
        BY <4>1, <4>2, <1>0
    <3>3. QED
      BY <3>1, <3>2 DEF Locked
  <2>3. QED
    BY <2>1, <2>2
<1>3. Behind' /\ Sorted'
  BY <1>0 DEF Behind, Sorted
<1>5. Counted'
  <2>1. ASSUME NEW p, \A d \in Callers : call'[d].at = "spin" => call'[d].num # p
        PROVE  \A d \in Callers : call[d].at = "spin" => call[d].num # p
    BY <2>1, <1>0, <1>b
  <2>2. QED
    BY <2>1, <1>0 DEF Counted
<1>6. Ahead'
  BY <1>0, <1>a DEF Ahead
<1>7. QED
  BY <1>1, <1>2, <1>3, <1>5, <1>6

LEMMA SpinStep == ASSUME IInv, NEW c \in Callers, Spin(c) PROVE IInv'
<1> USE DEF IInv
<1> DEFINE m == call[c].num
           X == [at |-> "issue", num |-> m, now |-> clock]
<1>b. /\ call[c] # Idle /\ m \in Numbers /\ call[c].at = "spin" /\ clock > node[m].time
      /\ node[m] # NoNode /\ lock[m] = c
  BY BusyType DEF Spin, Locked
<1>0. /\ UNCHANGED <<clock, node, lock, issued>> /\ clock \in Nat
      /\ call' = [call EXCEPT ![c] = X]
      /\ \A d \in Callers : call'[d] = IF d = c THEN X ELSE call[d]
  BY DEF Spin, TypeOK
<1>a. X \in CallType /\ X.at = "issue" /\ X.num = m /\ X.now = clock
  BY <1>b, <1>0 DEF CallType
<1>c. node[m].time \in Nat
  BY <1>b, MadeType DEF Counters
<1>d. ASSUME NEW i \in DOMAIN issued, issued[i].node = m
      PROVE  issued[i].time \in Nat /\ issued[i].time < clock
  BY <1>b, <1>c, <1>d, <1>0, RecordType DEF Ahead, Issued
<1> HIDE DEF X
<1>1. TypeOK'
  BY <1>0, <1>a DEF TypeOK
<1>2. Locked'
  <2> SUFFICES ASSUME NEW d \in Callers
               PROVE  /\ call'[d] # Idle => node'[call'[d].num] # NoNode
                      /\ call'[d].at \in {"read", "spin", "issue"} => lock'[call'[d].num] = d
    BY DEF Locked
  <2>1. CASE d = c
    BY <2>1, <1>0, <1>a, <1>b
  <2>2. CASE d # c
    BY <2>2, <1>0 DEF Locked
  <2>3. QED
    BY <2>1, <2>2
<1> HIDE DEF m
<1>3. Behind' /\ Sorted'
  BY <1>0 DEF Behind, Sorted
<1>5. Counted'
  <2>1. ASSUME NEW i \in DOMAIN issued, issued[i].time = clock,
               \A d \in Callers : call'[d].at = "spin" => call'[d].num # issued[i].node
        PROVE  \A d \in Callers : call[d].at = "spin" => call[d].num # issued[i].node
    <3>1. issued[i].node # m
      BY <2>1, <1>d, <1>0
    <3>2. QED
      BY <3>1, <2>1, <1>0 DEF m
  <2>2. QED
    BY <2>1, <1>0 DEF Counted
<1>6. Ahead'
  <2> SUFFICES ASSUME NEW d \in Callers
               PROVE  /\ call'[d].at = "issue" => call'[d].now <= clock
                      /\ \A i \in DOMAIN issued :
                           LET r == issued[i]  n == node[call'[d].num] IN
                           /\ call'[d].at = "spin" /\ r.node = call'[d].num => r.time <= n.time
                           /\ call'[d].at = "issue" /\ r.node = call'[d].num =>
                                r.time < call'[d].now \/ (r.time = call'[d].now /\ r.step < n.step)
    BY <1>0 DEF Ahead
  <2>1. CASE d = c
    BY <2>1, <1>0, <1>a, <1>d
  <2>2. CASE d # c
    BY <2>2, <1>0 DEF Ahead
  <2>3. QED
    BY <2>1, <2>2
<1>7. QED
  BY <1>1, <1>2, <1>3, <1>5, <1>6

(* Two goroutines past Lock are at two Nodes.                              *)
LEMMA OneHolder ==
  ASSUME TypeOK, Locked, NEW c \in Callers, NEW d \in Callers, c # d,
         call[c].at \in {"read", "spin", "issue"}, call[d].at \in {"read", "spin", "issue"}
  PROVE  call[c].num # call[d].num
BY DEF Locked

LEMMA ReadStep == ASSUME IInv, NEW c \in Callers, Read(c) PROVE IInv'
<1> USE DEF IInv
<1> DEFINE m == call[c].num
           n == node[m]
           N == [time |-> n.time, step |-> NextStep(n)]
           X == [at |-> IF Exhausted(n) THEN "spin" ELSE "issue", num |-> m, now |-> clock]
<1>b. /\ call[c] # Idle /\ m \in Numbers /\ call[c].at = "read"
      /\ n # NoNode /\ lock[m] = c
  BY BusyType DEF Read, Locked
<1>0. /\ UNCHANGED <<clock, lock, issued>> /\ clock \in Nat
      /\ call' = [call EXCEPT ![c] = X]
      /\ node' = [node EXCEPT ![m] = N]
      /\ \A d \in Callers : call'[d] = IF d = c THEN X ELSE call[d]
      /\ \A p \in Numbers : node'[p] = IF p = m THEN N ELSE node[p]
  BY <1>b DEF Read, TypeOK
<1>c. n \in Counters /\ n.time \in Nat /\ n.step \in 0 .. StepRange - 1
  BY <1>b, MadeType DEF Counters
<1>e. /\ NextStep(n) \in 0 .. StepRange - 1
      /\ clock = n.time /\ NextStep(n) # 0 => NextStep(n) = n.step + 1
  BY <1>c, NextStepType DEF Counters
<1>a. X \in CallType /\ X.num = m /\ X.now = clock /\ X.at = (IF Exhausted(n) THEN "spin" ELSE "issue")
  BY <1>b, <1>0 DEF CallType
<1>f. N \in Counters /\ N # NoNode /\ N.time = n.time /\ N.step = NextStep(n)
  BY <1>c, <1>e DEF Counters, NoNode
<1>g. X.at \in {"spin", "issue"} /\ X # Idle
  BY <1>a DEF Idle
<1> HIDE DEF X, N
<1>d. ASSUME NEW i \in DOMAIN issued, issued[i].node = m
      PROVE  /\ issued[i].time \in Nat /\ issued[i].step \in Nat /\ issued[i].time <= clock
             /\ issued[i].time = clock => n.time = clock /\ issued[i].step <= n.step
  <2>1. \A d \in Callers : call[d].at = "spin" => call[d].num # m
    BY <1>b, OneHolder
  <2>2. QED
    BY <1>d, <2>1, RecordType DEF Counted, Issued
<1>1. TypeOK'
  BY <1>0, <1>a, <1>b, <1>f DEF TypeOK
<1>2. Locked'
  <2> SUFFICES ASSUME NEW d \in Callers
               PROVE  /\ call'[d] # Idle => node'[call'[d].num] # NoNode
                      /\ call'[d].at \in {"read", "spin", "issue"} => lock'[call'[d].num] = d
    BY DEF Locked
  <2>1. CASE d = c
    BY <2>1, <1>0, <1>a, <1>b, <1>f
  <2>2. CASE d # c
    <3>1. call'[d] = call[d] /\ (call[d] # Idle => call[d].num \in Numbers)
      BY <2>2, <1>0, BusyType
    <3>2. QED
      BY <3>1, <1>0, <1>f DEF Locked
  <2>3. QED
    BY <2>1, <2>2
<1>3. Behind'
  <2>1. ASSUME NEW p \in Numbers, node'[p] # NoNode
        PROVE  InRange(p) /\ node'[p].time <= clock
    BY <2>1, <1>0, <1>b, <1>f DEF Behind
  <2>2. QED
    BY <2>1, <1>0 DEF Behind
<1>4. Sorted'
  BY <1>0 DEF Sorted
<1>5. Counted'
  <2> SUFFICES ASSUME NEW i \in DOMAIN issued
               PROVE  LET r == issued[i] IN
                      /\ r.node \in Numbers /\ node'[r.node] # NoNode
                      /\ r.time <= clock
                      /\ r.time = clock => node'[r.node].time = clock
                      /\ (r.time = clock /\ \A d \in Callers : call'[d].at = "spin" => call'[d].num # r.node)
                           => r.step <= node'[r.node].step
    BY <1>0 DEF Counted
  <2>1. CASE issued[i].node = m
    <3>1. ASSUME issued[i].time = clock, \A d \in Callers : call'[d].at = "spin" => call'[d].num # m
          PROVE  issued[i].step <= N.step
      <4>1. X.at # "spin"
        BY <3>1, <1>0, <1>a
      <4>2. ~ Exhausted(n)
        BY <4>1, <1>a
      <4>3. N.step = n.step + 1
        BY <4>2, <3>1, <2>1, <1>d, <1>e, <1>f DEF Exhausted
      <4>4. QED
        BY <4>3, <3>1, <2>1, <1>d, <1>c
    <3>2. QED
      BY <2>1, <3>1, <1>d, <1>0, <1>b, <1>f
  <2>2. CASE issued[i].node # m
    <3>1. ASSUME \A d \in Callers : call'[d].at = "spin" => call'[d].num # issued[i].node
          PROVE  \A d \in Callers : call[d].at = "spin" => call[d].num # issued[i].node
      BY <3>1, <1>0, <1>b
    <3>2. QED
      BY <2>2, <3>1, <1>0 DEF Counted
  <2>3. QED
    BY <2>1, <2>2
<1>6. Ahead'
  <2> SUFFICES ASSUME NEW d \in Callers
               PROVE  /\ call'[d].at = "issue" => call'[d].now <= clock
                      /\ \A i \in DOMAIN issued :
                           LET r == issued[i]  k == node'[call'[d].num] IN
                           /\ call'[d].at = "spin" /\ r.node = call'[d].num => r.time <= k.time
                           /\ call'[d].at = "issue" /\ r.node = call'[d].num =>
                                r.time < call'[d].now \/ (r.time = call'[d].now /\ r.step < k.step)
    BY <1>0 DEF Ahead
  <2>1. CASE d = c
    <3>1. call'[d] = X /\ node'[m] = N
      BY <2>1, <1>0, <1>b
    <3>2. ASSUME NEW i \in DOMAIN issued, issued[i].node = m, X.at = "spin"
          PROVE  issued[i].time <= N.time
      BY <3>2, <1>a, <1>d, <1>f DEF Exhausted
    <3>3. ASSUME NEW i \in DOMAIN issued, issued[i].node = m, X.at = "issue", issued[i].time = clock
          PROVE  issued[i].step < N.step
      <4>1. ~ Exhausted(n)
        BY <3>3, <1>a
      <4>2. N.step = n.step + 1
        BY <4>1, <3>3, <1>d, <1>e, <1>f DEF Exhausted
      <4>3. QED
        BY <4>2, <3>3, <1>d, <1>c
    <3>4. ASSUME NEW i \in DOMAIN issued, issued[i].node = m
          PROVE  issued[i].time < clock \/ issued[i].time = clock
      BY <3>4, <1>d, <1>0
    <3>5. QED
      BY <3>1, <3>2, <3>3, <3>4, <1>a, <1>0
  <2>2. CASE d # c
    <3>1. call'[d] = call[d]
      BY <2>2, <1>0
    <3>2. ASSUME call[d].at \in {"spin", "issue"}
          PROVE  node'[call[d].num] = node[call[d].num]
      <4>1. call[d].num # m /\ call[d].num \in Numbers
        BY <3>2, <2>2, <1>b, OneHolder, BusyType
      <4>2. QED
        BY <4>1, <1>0
    <3>3. QED
      BY <3>1, <3>2 DEF Ahead
  <2>3. QED
    BY <2>1, <2>2
<1>7. QED
  BY <1>1, <1>2, <1>3, <1>4, <1>5, <1>6

LEMMA IssueStep == ASSUME IInv, NEW c \in Callers, Issue(c) PROVE IInv'
<1> USE DEF IInv
<1> DEFINE m == call[c].num
           t == call[c].now
           s == node[m].step
           N == [time |-> t, step |-> s]
           R == [id |-> Id(t, m, s), node |-> m, time |-> t, step |-> s]
           L == Len(issued)
<1>b. /\ call[c] # Idle /\ m \in Numbers /\ call[c].at = "issue" /\ t \in Nat
      /\ node[m] # NoNode /\ lock[m] = c
  BY BusyType DEF Issue, Locked
<1>0. /\ UNCHANGED clock /\ clock \in Nat
      /\ call' = [call EXCEPT ![c] = Idle]
      /\ node' = [node EXCEPT ![m] = N]
      /\ lock' = [lock EXCEPT ![m] = Free]
      /\ issued' = Append(issued, R)
      /\ \A d \in Callers : call'[d] = IF d = c THEN Idle ELSE call[d]
      /\ \A p \in Numbers : node'[p] = IF p = m THEN N ELSE node[p]
      /\ \A p \in Numbers : lock'[p] = IF p = m THEN Free ELSE lock[p]
  BY <1>b DEF Issue, TypeOK
<1>c. s \in 0 .. StepRange - 1 /\ t <= clock /\ m \in 0 .. NodeRange - 1
  BY <1>b, MadeType DEF Counters, Ahead, Behind, InRange
<1>f. N \in Counters /\ N # NoNode /\ N.time = t /\ N.step = s
  BY <1>b, <1>c DEF Counters, NoNode
<1>r. /\ R \in Issued /\ R.id = Id(t, m, s) /\ R.node = m /\ R.time = t /\ R.step = s
  <2>1. t * NodeRange \in Nat
    BY <1>b, RangeAssumption
  <2>2. (t * NodeRange + m) * StepRange \in Nat
    BY <2>1, <1>c, RangeAssumption
  <2>3. Id(t, m, s) \in Nat
    BY <2>2, <1>c DEF Id
  <2>4. QED
    BY <2>3, <1>b, <1>c DEF Issued
<1>d. ASSUME NEW i \in DOMAIN issued, issued[i].node = m
      PROVE  /\ issued[i].time \in Nat /\ issued[i].step \in Nat
             /\ issued[i].time < t \/ (issued[i].time = t /\ issued[i].step < s)
  BY <1>b, <1>d, RecordType DEF Ahead, Issued
<1>i. Idle.at = "idle"
  BY DEF Idle
<1> HIDE DEF R, N
<1>s. issued \in Seq(Issued) /\ L \in Nat /\ DOMAIN issued = 1 .. L
  BY DEF TypeOK
<1>l. /\ issued' \in Seq(Issued) /\ DOMAIN issued' = 1 .. L + 1
      /\ issued'[L + 1] = R
      /\ \A i \in DOMAIN issued : i # L + 1 /\ i \in Nat /\ i < L + 1 /\ issued'[i] = issued[i]
  BY <1>0, <1>r, <1>s
<1> HIDE DEF L
<1>k. \A i \in DOMAIN issued' : i = L + 1 \/ i \in DOMAIN issued
  BY <1>l, <1>s
<1>1. TypeOK'
  <2>1. Idle \in CallType
    BY DEF CallType
  <2>2. call' \in [Callers -> CallType]
    BY <1>0, <2>1 DEF TypeOK
  <2>3. node' \in [Numbers -> {NoNode} \cup Counters]
    BY <1>0, <1>f DEF TypeOK
  <2>4. lock' \in [Numbers -> Callers \cup {Free}]
    BY <1>0 DEF TypeOK
  <2>5. QED
    BY <2>2, <2>3, <2>4, <1>0, <1>l DEF TypeOK
<1>2. Locked'
  <2> SUFFICES ASSUME NEW d \in Callers
               PROVE  /\ call'[d] # Idle => node'[call'[d].num] # NoNode
                      /\ call'[d].at \in {"read", "spin", "issue"} => lock'[call'[d].num] = d
    BY DEF Locked
  <2>1. CASE d = c
    BY <2>1, <1>0, <1>i
  <2>2. CASE d # c
    <3>1. call'[d] = call[d] /\ (call[d] # Idle => call[d].num \in Numbers)
      BY <2>2, <1>0, BusyType
    <3>2. call[d].at \in {"read", "spin", "issue"} => call[d].num # m /\ call[d].num \in Numbers
      BY <2>2, <1>b, OneHolder, BusyType
    <3>3. QED
      BY <3>1, <3>2, <1>0, <1>f DEF Locked
  <2>3. QED
    BY <2>1, <2>2
<1>3. Behind'
  <2>1. ASSUME NEW p \in Numbers, node'[p] # NoNode
        PROVE  InRange(p) /\ node'[p].time <= clock
    BY <2>1, <1>0, <1>b, <1>f, <1>c DEF Behind
  <2>2. QED
    BY <2>1, <1>0 DEF Behind
<1>4. Sorted'
  <2>1. \A i \in DOMAIN issued' :
          issued'[i].id = Id(issued'[i].time, issued'[i].node, issued'[i].step)
    BY <1>k, <1>l, <1>r DEF Sorted
  <2>2. ASSUME NEW i \in DOMAIN issued', NEW j \in DOMAIN issued',
               i < j, issued'[i].node = issued'[j].node
        PROVE  Before(issued'[i], issued'[j])
    <3>1. CASE j \in DOMAIN issued
      <4>1. i \in DOMAIN issued
        BY <3>1, <2>2, <1>s, <1>l
      <4>2. QED
        BY <3>1, <4>1, <2>2, <1>l DEF Sorted
    <3>2. CASE j = L + 1
      <4>1. i \in DOMAIN issued
        BY <3>2, <2>2, <1>k, <1>s
      <4>2. issued[i].node = m
        BY <4>1, <3>2, <2>2, <1>l, <1>r
      <4>3. Before(issued[i], R)
        BY <4>1, <4>2, <1>d, <1>r DEF Before
      <4>4. QED
        BY <4>1, <4>3, <3>2, <1>l
    <3>3. QED
      BY <3>1, <3>2, <1>k
  <2>3. QED
    BY <2>1, <2>2 DEF Sorted
<1>5. Counted'
  <2> SUFFICES ASSUME NEW i \in DOMAIN issued'
               PROVE  LET r == issued'[i] IN
                      /\ r.node \in Numbers /\ node'[r.node] # NoNode
                      /\ r.time <= clock
                      /\ r.time = clock => node'[r.node].time = clock
                      /\ (r.time = clock /\ \A d \in Callers : call'[d].at = "spin" => call'[d].num # r.node)
                           => r.step <= node'[r.node].step
    BY <1>0 DEF Counted
  <2>1. CASE i = L + 1
    BY <2>1, <1>l, <1>r, <1>0, <1>b, <1>f, <1>c
  <2>2. CASE i \in DOMAIN issued /\ issued[i].node = m
    <3>1. issued'[i] = issued[i]
      BY <2>2, <1>l
    <3>2. issued[i].time <= clock /\ (issued[i].time = clock => t = clock /\ issued[i].step <= s)
      BY <2>2, <1>d, <1>b, <1>c, <1>0
    <3>3. QED
      BY <2>2, <3>1, <3>2, <1>0, <1>b, <1>f
  <2>3. CASE i \in DOMAIN issued /\ issued[i].node # m
    <3>1. issued'[i] = issued[i]
      BY <2>3, <1>l
    <3>2. ASSUME \A d \in Callers : call'[d].at = "spin" => call'[d].num # issued[i].node
          PROVE  \A d \in Callers : call[d].at = "spin" => call[d].num # issued[i].node
      BY <3>2, <1>0, <1>b
    <3>3. QED
      BY <2>3, <3>1, <3>2, <1>0 DEF Counted
  <2>4. QED
    BY <2>1, <2>2, <2>3, <1>k
<1>6. Ahead'
  <2> SUFFICES ASSUME NEW d \in Callers
               PROVE  /\ call'[d].at = "issue" => call'[d].now <= clock
                      /\ \A i \in DOMAIN issued' :
                           LET r == issued'[i]  k == node'[call'[d].num] IN
                           /\ call'[d].at = "spin" /\ r.node = call'[d].num => r.time <= k.time
                           /\ call'[d].at = "issue" /\ r.node = call'[d].num =>
                                r.time < call'[d].now \/ (r.time = call'[d].now /\ r.step < k.step)
    BY <1>0 DEF Ahead
  <2>1. CASE d = c
    BY <2>1, <1>0, <1>i
  <2>2. CASE d # c /\ call[d].at \in {"spin", "issue"}
    <3>1. call'[d] = call[d] /\ call[d].num # m /\ call[d].num \in Numbers
      BY <2>2, <1>0, <1>b, OneHolder, BusyType
    <3>2. node'[call[d].num] = node[call[d].num]
      BY <3>1, <1>0
    <3>3. ASSUME NEW i \in DOMAIN issued', issued'[i].node = call[d].num
          PROVE  i \in DOMAIN issued /\ issued'[i] = issued[i]
      BY <3>3, <3>1, <1>k, <1>l, <1>r
    <3>4. QED
      BY <3>1, <3>2, <3>3 DEF Ahead
  <2>3. CASE d # c /\ call[d].at \notin {"spin", "issue"}
    BY <2>3, <1>0
  <2>4. QED
    BY <2>1, <2>2, <2>3
<1>7. QED
  BY <1>1, <1>2, <1>3, <1>4, <1>5, <1>6

(* Every step keeps the invariant.                                         *)
LEMMA StepIInv == IInv /\ [Next]_vars => IInv'
<1> SUFFICES ASSUME IInv, [Next]_vars PROVE IInv'
  OBVIOUS
<1>1. CASE Tick
  BY <1>1, TickStep
<1>2. ASSUME NEW m \in Numbers, NewNode(m) PROVE IInv'
  BY <1>2, NewNodeStep
<1>3. ASSUME NEW m \in Numbers, NEW c \in Callers, Request(c, m) PROVE IInv'
  BY <1>3, RequestStep
<1>4. ASSUME NEW c \in Callers, Lock(c) PROVE IInv'
  BY <1>4, LockStep
<1>5. ASSUME NEW c \in Callers, Read(c) PROVE IInv'
  BY <1>5, ReadStep
<1>6. ASSUME NEW c \in Callers, Spin(c) PROVE IInv'
  BY <1>6, SpinStep
<1>7. ASSUME NEW c \in Callers, Issue(c) PROVE IInv'
  BY <1>7, IssueStep
<1>8. CASE UNCHANGED vars
  BY <1>8 DEF vars, IInv, TypeOK, Locked, Behind, Counted, Ahead, Sorted
<1>9. QED
  BY <1>1, <1>2, <1>3, <1>4, <1>5, <1>6, <1>7, <1>8 DEF Next

(* The fields keep to the bits the id has for them (ids/SnowFlake.go:135). *)
THEOREM SnowFlakeTyped == Spec => []TypeOK
<1>1. IInv => TypeOK
  BY DEF IInv
<1>2. QED
  BY <1>1, InitIInv, StepIInv, PTL DEF Spec

(* No id is handed out twice, by any goroutine of any node before or after *)
(* any restart (ids/SnowFlake.go:135-162).                                 *)
THEOREM SnowFlakeUnique == Spec => []Unique
<1>1. IInv => Unique
  BY SortedIsUnique
<1>2. QED
  BY <1>1, InitIInv, StepIInv, PTL DEF Spec

(* The ids of a node number grow in the order Generate returns them.       *)
THEOREM SnowFlakeIncreasing == Spec => []Increasing
<1>1. IInv => Increasing
  BY SortedIsUnique
<1>2. QED
  BY <1>1, InitIInv, StepIInv, PTL DEF Spec
=============================================================================
