----------------------------- MODULE MapperProofs -----------------------------
(***************************************************************************)
(* Proofs about Mapper, for any goroutines, any calls and any pool.        *)
(*                                                                         *)
(* What a goroutine keeps depends on its place of the call alone           *)
(* (Keeps); other goroutines and programs change nothing of it but the     *)
(* history in its task.                                                    *)
(***************************************************************************)
EXTENDS Mapper, FiniteSetTheorems, TLAPS

(* A task has all the local variables of a call.                           *)
Whole(t) ==
  t = [call |-> t.call, total |-> t.total, found |-> t.found, result |-> t.result,
       outcome |-> t.outcome, drift |-> t.drift, cut |-> t.cut]

ByGoroutine(f) == f = [g \in Goroutines |-> f[g]]

Arrays ==
  /\ ByGoroutine(at) /\ ByGoroutine(task) /\ ByGoroutine(tx)
  /\ ByGoroutine(own) /\ ByGoroutine(busy)

(* The connection of a transaction, and that of rows being read.           *)
OfTx(g) == IF tx[g] = "none" THEN 0 ELSE 1
OfRows(g) == IF at[g] = "read" /\ ~OnTx(g) THEN 1 ELSE 0

Keeps(g) ==
  /\ at[g] \in Places
  /\ at[g] \in Within \cup {"done"} => Whole(task[g])
  /\ busy[g] = OfTx(g) + OfRows(g)
  /\ at[g] \in {Idle, "begin", "done"} => ~own[g]
  /\ at[g] = "begin" => tx[g] = "none"

IInv == Arrays /\ \A g \in Goroutines : Keeps(g)

-----------------------------------------------------------------------------
LEMMA PlacesDiffer ==
  /\ Idle \in Places /\ Idle \notin Within /\ Idle \notin {"begin", "read", "done"}
  /\ Within \subseteq Places
BY DEF Idle, Places, Within

(* What a call begins with, and what it leaves with.                       *)
LEMMA StartedWhole ==
  ASSUME NEW c
  PROVE  Whole(Started(c)) /\ Started(c).call = c /\ Started(c).outcome = "none"
BY DEF Started, Whole

LEMMA Except ==
  ASSUME NEW t, Whole(t), NEW v
  PROVE  /\ Whole([t EXCEPT !.drift = v])
         /\ [t EXCEPT !.drift = v].call = t.call
         /\ [t EXCEPT !.drift = v].outcome = t.outcome
         /\ Whole([t EXCEPT !.outcome = v])
         /\ [t EXCEPT !.outcome = v].call = t.call
         /\ [t EXCEPT !.outcome = v].outcome = v
         /\ Whole([t EXCEPT !.found = v])
         /\ [t EXCEPT !.found = v].call = t.call
         /\ Whole([t EXCEPT !.total = v])
         /\ [t EXCEPT !.total = v].call = t.call
BY DEF Whole
(* What other goroutines and programs may change of what g has.            *)
SameTask(t, u) == Whole(t) => Whole(u) /\ u.call = t.call /\ u.outcome = t.outcome

Spared(h) ==
  /\ at'[h] = at[h] /\ tx'[h] = tx[h] /\ own'[h] = own[h]
  /\ busy'[h] = busy[h]
  /\ SameTask(task[h], task'[h])

OthersSpared(g) == \A h \in Goroutines \ {g} : Spared(h)

LEMMA OthersKeep ==
  ASSUME NEW h \in Goroutines, Keeps(h), Spared(h)
  PROVE  Keeps(h)'
<1>1. at'[h] \in Within \cup {"done"} => Whole(task'[h]) /\ task'[h].call = task[h].call
                                         /\ task'[h].outcome = task[h].outcome
  BY DEF Keeps, Spared, SameTask
<1>2. OfTx(h)' = OfTx(h) /\ OfRows(h)' = OfRows(h)
  BY <1>1 DEF Spared, OfTx, OfRows, OnTx, Within
<1>3. QED
  BY <1>1, <1>2 DEF Keeps, Spared, Within

LEMMA Settled ==
  ASSUME IInv, NEW g \in Goroutines, Arrays', Keeps(g)', \A h \in Goroutines \ {g} : Spared(h)
  PROVE  IInv' /\ OthersSpared(g)
BY OthersKeep DEF IInv, OthersSpared

(* The history of others, in the midst of a page.                          *)
LEMMA NoticedOK ==
  ASSUME IInv, NEW n
  PROVE  /\ ByGoroutine(Noticed(n))
         /\ \A h \in Goroutines : SameTask(task[h], Noticed(n)[h])
<1>1. ByGoroutine(Noticed(n))
  BY DEF ByGoroutine, Noticed
<1>2. ASSUME NEW h \in Goroutines PROVE SameTask(task[h], Noticed(n)[h])
  <2>1. CASE BetweenQueries(h)
    <3>1. PICK d : Noticed(n)[h] = [task[h] EXCEPT !.drift = d]
      BY <2>1 DEF Noticed
    <3>2. ASSUME Whole(task[h])
          PROVE  LET u == [task[h] EXCEPT !.drift = d]
                 IN  Whole(u) /\ u.call = task[h].call /\ u.outcome = task[h].outcome
      BY <3>2, Except
    <3>3. QED
      BY <3>1, <3>2 DEF SameTask
  <2>2. CASE ~BetweenQueries(h)
    BY <2>2 DEF Noticed, SameTask
  <2>3. QED
    BY <2>1, <2>2
<1>3. QED
  BY <1>1, <1>2

-----------------------------------------------------------------------------
(* A step of g that changes at most its place, its task and its            *)
(* connections.                                                            *)
LEMMA Alone ==
  ASSUME IInv, NEW g \in Goroutines, NEW from, NEW to \in Places, NEW t, NEW b,
         Go(g, from, to),
         task' = [task EXCEPT ![g] = t] \/ (UNCHANGED task /\ t = task[g]),
         busy' = [busy EXCEPT ![g] = b] \/ (UNCHANGED busy /\ b = busy[g]),
         UNCHANGED <<tx, own>>
  PROVE  /\ at[g] = from /\ at'[g] = to
         /\ task'[g] = t /\ busy'[g] = b
         /\ tx'[g] = tx[g] /\ own'[g] = own[g]
         /\ Arrays' /\ \A h \in Goroutines \ {g} : Spared(h)
BY DEF IInv, Arrays, ByGoroutine, Go, Spared, SameTask
-----------------------------------------------------------------------------
LEMMA EnterStep ==
  ASSUME IInv, NEW g \in Goroutines, Enter(g)
  PROVE  IInv' /\ OthersSpared(g)
<1>1. /\ Go(g, Idle, "begin") /\ tx[g] = "none" /\ UNCHANGED <<task, tx, own, busy>>
      /\ "begin" \in Places
  BY DEF Enter, resources, pool, Places
<1>2. /\ at[g] = Idle /\ at'[g] = "begin" /\ tx'[g] = tx[g] /\ own'[g] = own[g]
      /\ busy'[g] = busy[g]
      /\ Arrays' /\ \A h \in Goroutines \ {g} : Spared(h)
  BY <1>1, Alone
<1>3. Keeps(g)'
  BY <1>1, <1>2, PlacesDiffer DEF IInv, Keeps, OfTx, OfRows, Within
<1>4. QED
  BY <1>2, <1>3, Settled

LEMMA BeginStep ==
  ASSUME IInv, NEW g \in Goroutines, Begin(g)
  PROVE  IInv' /\ OthersSpared(g)
<1>1. PICK which \in {"slot", "custom"} : tx' = [tx EXCEPT ![g] = which]
  BY DEF Begin
<1>2. /\ at[g] = "begin" /\ at' = [at EXCEPT ![g] = Idle]
      /\ busy' = [busy EXCEPT ![g] = @ + 1]
      /\ UNCHANGED <<task, own>>
  BY DEF Begin, Go, Take
<1>3. /\ at'[g] = Idle /\ tx'[g] = which /\ busy'[g] = busy[g] + 1
      /\ own'[g] = own[g]
      /\ Arrays' /\ \A h \in Goroutines \ {g} : Spared(h)
  BY <1>1, <1>2 DEF IInv, Arrays, ByGoroutine, Spared, SameTask
<1>4. busy[g] = 0
  BY <1>2, PlacesDiffer DEF IInv, Keeps, OfTx, OfRows
<1>5. Keeps(g)'
  BY <1>2, <1>3, <1>4, PlacesDiffer DEF IInv, Keeps, OfTx, OfRows
<1>6. QED
  BY <1>3, <1>5, Settled

LEMMA BeginFailsStep ==
  ASSUME IInv, NEW g \in Goroutines, BeginFails(g)
  PROVE  IInv' /\ OthersSpared(g)
<1>1. Go(g, "begin", Idle) /\ UNCHANGED <<task, tx, own, busy>>
  BY DEF BeginFails, resources, pool
<1>2. /\ at[g] = "begin" /\ at'[g] = Idle /\ tx'[g] = tx[g] /\ own'[g] = own[g]
      /\ busy'[g] = busy[g]
      /\ Arrays' /\ \A h \in Goroutines \ {g} : Spared(h)
  BY <1>1, PlacesDiffer, Alone
<1>3. Keeps(g)'
  BY <1>2, PlacesDiffer DEF IInv, Keeps, OfTx, OfRows
<1>4. QED
  BY <1>2, <1>3, Settled

LEMMA EndStep ==
  ASSUME IInv, NEW g \in Goroutines, NEW n, End(g, n) PROVE IInv' /\ OthersSpared(g)
<1>1. /\ tx[g] # "none" /\ at[g] = Idle
      /\ tx' = [tx EXCEPT ![g] = "none"]
      /\ busy' = [busy EXCEPT ![g] = @ - 1]
      /\ task' = Noticed(n)
      /\ UNCHANGED <<at, own>>
  BY DEF End, Give
<1>2. /\ tx'[g] = "none" /\ busy'[g] = busy[g] - 1 /\ at'[g] = Idle
      /\ own'[g] = own[g]
      /\ ByGoroutine(tx') /\ ByGoroutine(busy')
      /\ \A h \in Goroutines \ {g} : tx'[h] = tx[h] /\ busy'[h] = busy[h]
  BY <1>1 DEF IInv, Arrays, ByGoroutine
<1>3. Arrays' /\ \A h \in Goroutines \ {g} : Spared(h)
  BY <1>1, <1>2, NoticedOK DEF IInv, Arrays, Spared
<1>4. busy[g] = 1
  BY <1>1, PlacesDiffer DEF IInv, Keeps, OfTx, OfRows
<1>5. Keeps(g)'
  BY <1>1, <1>2, <1>4, PlacesDiffer DEF IInv, Keeps, OfTx, OfRows
<1>6. QED
  BY <1>3, <1>5, Settled

LEMMA OtherProgramStep == ASSUME IInv, OtherProgram PROVE IInv'
<1>1. UNCHANGED <<at, tx, own, busy>>
  BY DEF OtherProgram, resources, pool
<1>2. ByGoroutine(task') /\ \A h \in Goroutines : SameTask(task[h], task'[h])
  <2>1. CASE task' = Noticed(1)
    BY <2>1, NoticedOK
  <2>2. CASE UNCHANGED task
    BY <2>2 DEF IInv, Arrays, SameTask
  <2>3. QED
    BY <2>1, <2>2 DEF OtherProgram
<1>3. Arrays' /\ \A h \in Goroutines : Spared(h)
  BY <1>1, <1>2 DEF IInv, Arrays, Spared
<1>4. QED
  BY <1>3, OthersKeep DEF IInv
-----------------------------------------------------------------------------
LEMMA CallStep ==
  ASSUME IInv, NEW g \in Goroutines, NEW c, Call(g, c) PROVE IInv' /\ OthersSpared(g)
<1>1. /\ at[g] = Idle /\ at' = [at EXCEPT ![g] = "build"]
      /\ task' = [task EXCEPT ![g] = Started(c)]
      /\ own' = [own EXCEPT ![g] = Makes(g, c)]
      /\ UNCHANGED <<tx, busy>>
  BY DEF Call, Go, pool
<1>2. /\ at'[g] = "build" /\ task'[g] = Started(c) /\ tx'[g] = tx[g]
      /\ busy'[g] = busy[g]
      /\ Arrays' /\ \A h \in Goroutines \ {g} : Spared(h)
  BY <1>1 DEF IInv, Arrays, ByGoroutine, Spared, SameTask
<1>3. Keeps(g)'
  BY <1>1, <1>2, PlacesDiffer, StartedWhole DEF IInv, Keeps, OfTx, OfRows, Places, Idle
<1>4. QED
  BY <1>2, <1>3, Settled

LEMMA LeftWhole ==
  ASSUME NEW c, NEW outcome
  PROVE  LET t == [Started(c) EXCEPT !.outcome = outcome]
         IN  Whole(t) /\ t.call = c /\ t.outcome = outcome
<1>1. PICK s : s = Started(c)
  OBVIOUS
<1>2. Whole(s) /\ s.call = c
  BY <1>1, StartedWhole
<1>3. Whole([s EXCEPT !.outcome = outcome]) /\ [s EXCEPT !.outcome = outcome].call = c
      /\ [s EXCEPT !.outcome = outcome].outcome = outcome
  BY <1>2, Except
<1>4. QED
  BY <1>1, <1>3

LEMMA CallFailsStep ==
  ASSUME IInv, NEW g \in Goroutines, NEW c, CallFails(g, c)
  PROVE  IInv' /\ OthersSpared(g)
<1> DEFINE t == [Started(c) EXCEPT !.outcome = "error"]
<1>1. /\ Go(g, Idle, "return") /\ task' = [task EXCEPT ![g] = t]
      /\ UNCHANGED <<tx, own, busy>> /\ "return" \in Places
  BY DEF CallFails, resources, pool, Places
<1>2. Whole(t) /\ t.outcome = "error"
  BY LeftWhole
<1> HIDE DEF t
<1>3. /\ at[g] = Idle /\ at'[g] = "return" /\ task'[g] = t /\ tx'[g] = tx[g]
      /\ busy'[g] = busy[g]
      /\ Arrays' /\ \A h \in Goroutines \ {g} : Spared(h)
  BY <1>1, Alone
<1>4. Keeps(g)'
  BY <1>1, <1>2, <1>3, PlacesDiffer DEF IInv, Keeps, OfTx, OfRows, Idle
<1>5. QED
  BY <1>3, <1>4, Settled

(* The call goes on without touching anything it holds, at places where it *)
(* holds nothing.                                                          *)
LEMMA BuildStep ==
  ASSUME IInv, NEW g \in Goroutines, Build(g)
  PROVE  IInv' /\ OthersSpared(g)
<1>1. /\ Go(g, "build", "prepare") /\ UNCHANGED <<task, tx, own, busy>>
      /\ "prepare" \in Places
  BY DEF Build, resources, pool, Places
<1>2. /\ at[g] = "build" /\ at'[g] = "prepare" /\ task'[g] = task[g] /\ tx'[g] = tx[g]
      /\ busy'[g] = busy[g]
      /\ Arrays' /\ \A h \in Goroutines \ {g} : Spared(h)
  BY <1>1, Alone
<1>3. Keeps(g)'
  BY <1>1, <1>2 DEF IInv, Keeps, OfTx, OfRows, Within, Idle
<1>4. QED
  BY <1>2, <1>3, Settled

(* A failure before there are rows.                                        *)
LEMMA FailureStep ==
  ASSUME IInv, NEW g \in Goroutines, NEW from \in {"build", "prepare", "execute"}, NEW outcome,
         Go(g, from, "return"), Leaves(g, outcome), UNCHANGED <<tx, own, busy>>
  PROVE  IInv' /\ OthersSpared(g)
<1> DEFINE t == [Started(task[g].call) EXCEPT !.outcome = outcome]
<1>1. task' = [task EXCEPT ![g] = t] /\ "return" \in Places
  BY DEF Leaves, Places
<1>2. Whole(t) /\ t.outcome = outcome
  BY LeftWhole
<1> HIDE DEF t
<1>3. /\ at[g] = from /\ at'[g] = "return" /\ task'[g] = t /\ tx'[g] = tx[g]
      /\ busy'[g] = busy[g]
      /\ Arrays' /\ \A h \in Goroutines \ {g} : Spared(h)
  BY <1>1 DEF IInv, Arrays, ByGoroutine, Go, Spared, SameTask
<1>4. busy[g] = OfTx(g)
  BY <1>3 DEF IInv, Keeps, OfTx, OfRows
<1>5. OfTx(g)' = OfTx(g) /\ OfRows(g)' = 0 /\ OfTx(g) \in {0, 1}
  BY <1>3 DEF OfTx, OfRows
<1>6. Keeps(g)'
  BY <1>1, <1>2, <1>3, <1>4, <1>5 DEF Keeps, Idle
<1>7. QED
  BY <1>3, <1>6, Settled

LEMMA PrepareStep ==
  ASSUME IInv, NEW g \in Goroutines, Prepare(g)
  PROVE  IInv' /\ OthersSpared(g)
<1>1. /\ Go(g, "prepare", "execute")
      /\ UNCHANGED <<task, tx, own, busy>> /\ "execute" \in Places
  BY DEF Prepare, pool, Places
<1>2. /\ at[g] = "prepare" /\ at'[g] = "execute" /\ task'[g] = task[g] /\ tx'[g] = tx[g]
      /\ busy'[g] = busy[g]
      /\ Arrays' /\ \A h \in Goroutines \ {g} : Spared(h)
  BY <1>1, Alone
<1>3. Keeps(g)'
  BY <1>1, <1>2 DEF IInv, Keeps, OfTx, OfRows, Within, Idle
<1>4. QED
  BY <1>2, <1>3, Settled

LEMMA QueryStep ==
  ASSUME IInv, NEW g \in Goroutines, Query(g)
  PROVE  IInv' /\ OthersSpared(g)
<1>1. PICK n : task' = [task EXCEPT ![g].found = n]
  BY DEF Query
<1> DEFINE t == [task[g] EXCEPT !.found = n]
<1>2. /\ Go(g, "execute", "read") /\ task' = [task EXCEPT ![g] = t]
      /\ UNCHANGED <<tx, own>> /\ "read" \in Places
  BY <1>1 DEF Query, Places
<1>3. at[g] = "execute" /\ Whole(task[g]) /\ busy[g] = OfTx(g)
  BY <1>2 DEF Go, IInv, Keeps, Within, OfRows, OfTx
<1>4. Whole(t) /\ t.call = task[g].call
  BY <1>3, Except
<1> HIDE DEF t
<1>5. PICK b : /\ busy' = [busy EXCEPT ![g] = b] \/ (UNCHANGED busy /\ b = busy[g])
               /\ b = busy[g] + IF OnTx(g) THEN 0 ELSE 1
  <2>1. CASE OnTx(g)
    BY <1>3, <2>1 DEF Query, pool, OfTx
  <2>2. CASE ~OnTx(g)
    BY <2>2 DEF Query, Take
  <2>3. QED
    BY <2>1, <2>2
<1>6. /\ at'[g] = "read" /\ task'[g] = t /\ tx'[g] = tx[g] /\ busy'[g] = b
      /\ Arrays' /\ \A h \in Goroutines \ {g} : Spared(h)
  BY <1>2, <1>5 DEF IInv, Arrays, ByGoroutine, Go, Spared, SameTask
<1>7. OfTx(g)' = OfTx(g) /\ OfRows(g)' = IF OnTx(g) THEN 0 ELSE 1
  <2>1. OfTx(g)' = OfTx(g)
    BY <1>6 DEF OfTx
  <2>2. OnTx(g)' <=> OnTx(g)
    BY <1>4, <1>6 DEF OnTx
  <2>3. QED
    BY <1>6, <2>1, <2>2 DEF OfRows
<1>8. Keeps(g)'
  BY <1>2, <1>3, <1>4, <1>5, <1>6, <1>7 DEF Keeps, Idle
<1>9. QED
  BY <1>6, <1>8, Settled
LEMMA ExceptResult ==
  ASSUME NEW t, Whole(t), NEW v
  PROVE  Whole([t EXCEPT !.result = v]) /\ Whole([t EXCEPT !.cut = v])
BY DEF Whole

LEMMA ResultWhole ==
  ASSUME NEW t, Whole(t), NEW o, NEW r, NEW d, NEW c
  PROVE  /\ Whole([t EXCEPT !.outcome = o, !.result = r])
         /\ Whole([t EXCEPT !.outcome = o, !.result.filled = r])
         /\ Whole([t EXCEPT !.outcome = o, !.result = r, !.drift = d, !.cut = c])
<1>1. PICK t1 : t1 = [t EXCEPT !.outcome = o]
  OBVIOUS
<1>2. PICK t2 : t2 = [t1 EXCEPT !.result = r]
  OBVIOUS
<1>3. PICK t3 : t3 = [t2 EXCEPT !.drift = d]
  OBVIOUS
<1>4. PICK t4 : t4 = [t3 EXCEPT !.cut = c]
  OBVIOUS
<1>5. Whole(t1)
  BY <1>1, Except
<1>6. Whole(t2)
  BY <1>2, <1>5, ExceptResult
<1>7. Whole(t3)
  BY <1>3, <1>6, Except
<1>8. Whole(t4)
  BY <1>4, <1>7, ExceptResult
<1>9. t2 = [t EXCEPT !.outcome = o, !.result = r]
  BY <1>1, <1>2
<1>10. t4 = [t EXCEPT !.outcome = o, !.result = r, !.drift = d, !.cut = c]
  BY <1>1, <1>2, <1>3, <1>4
<1>11. Whole([t EXCEPT !.outcome = o, !.result.filled = r])
  <2>1. PICK w : w = [t.result EXCEPT !.filled = r]
    OBVIOUS
  <2>2. [t EXCEPT !.outcome = o, !.result.filled = r] = [t1 EXCEPT !.result = w]
    BY <1>1, <1>5, <2>1 DEF Whole
  <2>3. QED
    BY <1>5, <2>2, ExceptResult
<1>12. QED
  BY <1>6, <1>8, <1>9, <1>10, <1>11

LEMMA ExecStep ==
  ASSUME IInv, NEW g \in Goroutines, Exec(g)
  PROVE  IInv' /\ OthersSpared(g)
<1> DEFINE base == IF OnTx(g) THEN task ELSE Noticed(1)
<1>1. PICK o, r : task' = [base EXCEPT ![g].outcome = o, ![g].result = r]
  BY DEF Exec
<1>2. ByGoroutine(base) /\ \A h \in Goroutines : SameTask(task[h], base[h])
  BY NoticedOK DEF IInv, Arrays, SameTask
<1>3. /\ at[g] = "execute" /\ at' = [at EXCEPT ![g] = "return"]
      /\ UNCHANGED <<tx, own, busy>>
  BY DEF Exec, Go, pool
<1> HIDE DEF base
<1>4. Whole(base[g])
  BY <1>2, <1>3 DEF IInv, Keeps, Within, SameTask
<1>5. /\ ByGoroutine(task') /\ task'[g] = [base[g] EXCEPT !.outcome = o, !.result = r]
      /\ \A h \in Goroutines \ {g} : task'[h] = base[h]
  BY <1>1, <1>2 DEF ByGoroutine
<1>6. Whole(task'[g])
  <2>1. PICK u : u = base[g]
    OBVIOUS
  <2>2. Whole([u EXCEPT !.outcome = o, !.result = r])
    BY <1>4, <2>1, ResultWhole
  <2>3. QED
    BY <1>5, <2>1, <2>2
<1>7. /\ at'[g] = "return" /\ tx'[g] = tx[g] /\ busy'[g] = busy[g]
      /\ ByGoroutine(at') /\ \A h \in Goroutines \ {g} : at'[h] = at[h]
  BY <1>3 DEF IInv, Arrays, ByGoroutine
<1>8. Arrays' /\ \A h \in Goroutines \ {g} : Spared(h)
  BY <1>2, <1>3, <1>5, <1>7 DEF IInv, Arrays, Spared
<1>9. busy[g] = OfTx(g) /\ OfTx(g)' = OfTx(g) /\ OfRows(g)' = 0 /\ OfTx(g) \in {0, 1}
  BY <1>3, <1>7 DEF IInv, Keeps, OfTx, OfRows
<1>10. Keeps(g)'
  BY <1>6, <1>7, <1>9 DEF Keeps, Places, Idle
<1>11. QED
  BY <1>8, <1>10, Settled

-----------------------------------------------------------------------------
(* All that ends the reading of rows gives their connection back.          *)
LEMMA ReadStep ==
  ASSUME IInv, NEW g \in Goroutines, NEW to \in {"return", "prepare"}, NEW t, Whole(t),
         Go(g, "read", to), task' = [task EXCEPT ![g] = t], CloseRows(g), UNCHANGED <<tx, own>>
  PROVE  IInv' /\ OthersSpared(g)
<1>1. at[g] = "read" /\ at' = [at EXCEPT ![g] = to]
  BY DEF Go
<1>2. PICK b : /\ busy' = [busy EXCEPT ![g] = b] \/ (UNCHANGED busy /\ b = busy[g])
               /\ b = OfTx(g)
  <2>1. busy[g] = OfTx(g) + OfRows(g) /\ OfTx(g) \in {0, 1}
    BY DEF IInv, Keeps, OfTx
  <2>2. CASE OnTx(g)
    <3>1. OfRows(g) = 0 /\ UNCHANGED busy
      BY <2>2 DEF OfRows, CloseRows, pool
    <3>2. QED
      BY <2>1, <3>1
  <2>3. CASE ~OnTx(g)
    <3>1. OfRows(g) = 1 /\ busy' = [busy EXCEPT ![g] = busy[g] - 1]
      BY <1>1, <2>3 DEF OfRows, CloseRows, Give
    <3>2. busy[g] - 1 = OfTx(g)
      BY <2>1, <3>1
    <3>3. QED
      BY <3>1, <3>2
  <2>4. QED
    BY <2>2, <2>3
<1>3. /\ at'[g] = to /\ task'[g] = t /\ tx'[g] = tx[g] /\ busy'[g] = b
      /\ Arrays' /\ \A h \in Goroutines \ {g} : Spared(h)
  BY <1>1, <1>2 DEF IInv, Arrays, ByGoroutine, Spared, SameTask
<1>4. OfTx(g)' = OfTx(g) /\ OfRows(g)' = 0 /\ OfTx(g) \in {0, 1}
  BY <1>3 DEF OfTx, OfRows
<1>5. Keeps(g)'
  BY <1>2, <1>3, <1>4 DEF Keeps, Places, Idle
<1>6. QED
  BY <1>3, <1>5, Settled

LEMMA ReadFailsStep ==
  ASSUME IInv, NEW g \in Goroutines, ReadFails(g) \/ CountPanics(g)
  PROVE  IInv' /\ OthersSpared(g)
<1>1. PICK o : Leaves(g, o)
  BY DEF ReadFails, CountPanics
<1> DEFINE t == [Started(task[g].call) EXCEPT !.outcome = o]
<1>2. Whole(t) /\ task' = [task EXCEPT ![g] = t]
  BY <1>1, LeftWhole DEF Leaves
<1>3. Go(g, "read", "return") /\ CloseRows(g) /\ UNCHANGED <<tx, own>>
  BY DEF ReadFails, CountPanics
<1> HIDE DEF t
<1>4. QED
  BY <1>2, <1>3, ReadStep

LEMMA DecodeFailsStep ==
  ASSUME IInv, NEW g \in Goroutines, DecodeFails(g)
  PROVE  IInv' /\ OthersSpared(g)
<1>1. PICK s : s = Started(task[g].call)
  OBVIOUS
<1> DEFINE t == [s EXCEPT !.outcome = "error", !.result.filled = TRUE]
<1>2. Whole(t)
  BY <1>1, StartedWhole, ResultWhole
<1>3. task' = [task EXCEPT ![g] = t]
  BY <1>1 DEF DecodeFails
<1>4. Go(g, "read", "return") /\ CloseRows(g) /\ UNCHANGED <<tx, own>>
  BY DEF DecodeFails
<1> HIDE DEF t
<1>5. QED
  BY <1>2, <1>3, <1>4, ReadStep

LEMMA ReadCountStep ==
  ASSUME IInv, NEW g \in Goroutines, ReadCount(g)
  PROVE  IInv' /\ OthersSpared(g)
<1> DEFINE t == [task[g] EXCEPT !.total = task[g].found]
<1>1. Go(g, "read", "prepare") /\ CloseRows(g) /\ UNCHANGED <<tx, own>>
  BY DEF ReadCount
<1>2. Whole(t)
  BY <1>1, Except DEF Go, IInv, Keeps, Within
<1>3. task' = [task EXCEPT ![g] = t]
  BY DEF ReadCount
<1> HIDE DEF t
<1>4. QED
  BY <1>1, <1>2, <1>3, ReadStep

LEMMA FillsStep ==
  ASSUME IInv, NEW g \in Goroutines, NEW n, NEW cut, NEW r, Fills(g, n, cut, r)
  PROVE  IInv' /\ OthersSpared(g)
<1>1. PICK s : s = Started(task[g].call)
  OBVIOUS
<1> DEFINE t == [s EXCEPT !.outcome = "ok", !.result = r, !.drift = task[g].drift, !.cut = cut]
<1>2. Whole(t)
  BY <1>1, StartedWhole, ResultWhole
<1>3. task' = [task EXCEPT ![g] = t]
  BY <1>1 DEF Fills
<1>4. Go(g, "read", "return") /\ CloseRows(g) /\ UNCHANGED <<tx, own>>
  BY DEF Fills
<1> HIDE DEF t
<1>5. QED
  BY <1>2, <1>3, <1>4, ReadStep

-----------------------------------------------------------------------------
LEMMA ReturnStep ==
  ASSUME IInv, NEW g \in Goroutines, Return(g)
  PROVE  IInv' /\ OthersSpared(g)
<1>1. /\ at[g] = "return" /\ at' = [at EXCEPT ![g] = "done"]
      /\ own' = [own EXCEPT ![g] = FALSE]
      /\ UNCHANGED <<task, tx, busy>>
  BY DEF Return, Go, pool
<1>2. /\ at'[g] = "done" /\ ~own'[g] /\ task'[g] = task[g] /\ tx'[g] = tx[g]
      /\ busy'[g] = busy[g]
      /\ Arrays' /\ \A h \in Goroutines \ {g} : Spared(h)
  BY <1>1 DEF IInv, Arrays, ByGoroutine, Spared, SameTask
<1>3. Keeps(g)'
  BY <1>1, <1>2 DEF IInv, Keeps, OfTx, OfRows, Places, Within, Idle
<1>4. QED
  BY <1>2, <1>3, Settled

LEMMA LeaveStep ==
  ASSUME IInv, NEW g \in Goroutines, Leave(g)
  PROVE  IInv' /\ OthersSpared(g)
<1>1. /\ at[g] = "done" /\ at' = [at EXCEPT ![g] = Idle]
      /\ task' = [task EXCEPT ![g] = NoTask]
      /\ UNCHANGED <<tx, own, busy>>
  BY DEF Leave, Go, resources, pool
<1>2. /\ at'[g] = Idle /\ own'[g] = own[g] /\ tx'[g] = tx[g]
      /\ busy'[g] = busy[g]
      /\ Arrays' /\ \A h \in Goroutines \ {g} : Spared(h)
  BY <1>1 DEF IInv, Arrays, ByGoroutine, Spared, SameTask
<1>3. Keeps(g)'
  BY <1>1, <1>2, PlacesDiffer DEF IInv, Keeps, OfTx, OfRows
<1>4. QED
  BY <1>2, <1>3, Settled

-----------------------------------------------------------------------------
LEMMA Initially == Init => IInv
<1> SUFFICES ASSUME Init PROVE IInv
  OBVIOUS
<1>1. Arrays
  BY DEF Init, Arrays, ByGoroutine
<1>2. ASSUME NEW g \in Goroutines PROVE Keeps(g)
  BY PlacesDiffer DEF Init, Keeps, OfTx, OfRows
<1>3. QED
  BY <1>1, <1>2 DEF IInv

LEMMA Stutters == IInv /\ UNCHANGED vars => IInv'
<1> SUFFICES ASSUME IInv, UNCHANGED vars PROVE IInv'
  OBVIOUS
<1>1. UNCHANGED <<at, task, tx, own, busy>>
  BY DEF vars, pool
<1>2. Arrays' /\ \A h \in Goroutines : Spared(h)
  BY <1>1 DEF IInv, Arrays, ByGoroutine, Spared, SameTask
<1>3. QED
  BY <1>2, OthersKeep DEF IInv

LEMMA ContinueStep ==
  ASSUME IInv, NEW g \in Goroutines, Continue(g)
  PROVE  IInv' /\ OthersSpared(g)
<1>1. CASE BuildFails(g) \/ AssertPanics(g) \/ PrepareFails(g) \/ ExecuteFails(g)
  BY <1>1, FailureStep DEF BuildFails, AssertPanics, PrepareFails, ExecuteFails, resources, pool
<1>2. CASE ReadPage(g) \/ ReadRows(g)
  BY <1>2, FillsStep DEF ReadPage, ReadRows
<1>3. QED
  BY <1>1, <1>2, BeginStep, BeginFailsStep, BuildStep, PrepareStep, QueryStep, ExecStep,
     ReadFailsStep, DecodeFailsStep, ReadCountStep, ReturnStep
  DEF Continue

(* All that g may do.                                                      *)
Step(g) ==
  \/ Enter(g) \/ Commit(g) \/ Rollback(g)
  \/ \E c \in Calls[g] : Call(g, c) \/ CallFails(g, c)
  \/ Continue(g) \/ Leave(g)

LEMMA GoroutineStep ==
  ASSUME IInv, NEW g \in Goroutines, Step(g) PROVE IInv' /\ OthersSpared(g)
<1>1. CASE Commit(g) \/ Rollback(g)
  BY <1>1, EndStep DEF Commit, Rollback
<1>2. CASE \E c \in Calls[g] : Call(g, c) \/ CallFails(g, c)
  BY <1>2, CallStep, CallFailsStep
<1>3. QED
  BY <1>1, <1>2, EnterStep, ContinueStep, LeaveStep DEF Step

LEMMA Inductive == IInv /\ [Next]_vars => IInv'
<1> SUFFICES ASSUME IInv, [Next]_vars PROVE IInv'
  OBVIOUS
<1>1. CASE UNCHANGED vars
  BY <1>1, Stutters
<1>2. CASE OtherProgram
  BY <1>2, OtherProgramStep
<1>3. ASSUME NEW g \in Goroutines, Step(g) PROVE IInv'
  BY <1>3, GoroutineStep
<1>4. QED
  BY <1>1, <1>2, <1>3 DEF Next, Step

-----------------------------------------------------------------------------
(* The statements that are open.  While a statement is being used it is    *)
(* open besides those that failed earlier; there is one more of these than *)
(* a goroutine that calls may have only when a call is over.               *)
Using(g) == at[g] \in {"execute", "read"}
Unused(g) == failed[g]["pool"] + failed[g]["tx"]

Opens(g) ==
  /\ stmts[g] \in [Homes -> Nat] /\ failed[g] \in [Homes -> Nat]
  /\ IF Using(g) THEN stmts[g] = [failed[g] EXCEPT ![Home(g)] = @ + 1]
                 ELSE stmts[g] = failed[g]
  /\ Unused(g) <= MaxFailed + 1
  /\ at[g] \in {"build", "prepare", "execute", "read"} => Unused(g) <= MaxFailed

SInv == ByGoroutine(stmts) /\ ByGoroutine(failed) /\ \A g \in Goroutines : Opens(g)

LEMMA OthersOpen ==
  ASSUME NEW h \in Goroutines, Keeps(h), Opens(h), Spared(h),
         stmts'[h] = stmts[h], failed'[h] = failed[h]
  PROVE  Opens(h)'
<1>1. Using(h) => Home(h)' = Home(h)
  <2>1. SUFFICES ASSUME Using(h) PROVE task'[h].call = task[h].call
    BY DEF Home, OnTx, Spared
  <2>2. QED
    BY <2>1 DEF Using, Keeps, Spared, SameTask, Within
<1>2. Using(h)' <=> Using(h)
  BY DEF Using, Spared
<1>3. Unused(h)' = Unused(h)
  BY DEF Unused
<1>4. QED
  BY <1>1, <1>2, <1>3 DEF Opens, Spared

(* What a step of g does to the statements is done to those of g.          *)
LEMMA OpensSettled ==
  ASSUME IInv, SInv, NEW g \in Goroutines, OthersSpared(g),
         NEW s, NEW f,
         stmts' = [stmts EXCEPT ![g] = s] \/ (UNCHANGED stmts /\ s = stmts[g]),
         failed' = [failed EXCEPT ![g] = f] \/ (UNCHANGED failed /\ f = failed[g]),
         stmts'[g] = s /\ failed'[g] = f => Opens(g)'
  PROVE  SInv'
<1>1. /\ ByGoroutine(stmts') /\ ByGoroutine(failed')
      /\ stmts'[g] = s /\ failed'[g] = f
      /\ \A h \in Goroutines \ {g} : stmts'[h] = stmts[h] /\ failed'[h] = failed[h]
  BY DEF SInv, ByGoroutine
<1>2. ASSUME NEW h \in Goroutines \ {g} PROVE Opens(h)'
  BY <1>1, OthersOpen DEF IInv, SInv, OthersSpared
<1>3. QED
  BY <1>1, <1>2 DEF SInv

LEMMA HomesOf ==
  ASSUME NEW g
  PROVE  Home(g) \in Homes /\ Homes = {"pool", "tx"}
BY DEF Home, Homes

(* Steps that leave the statements alone: none is in use, or one goes on   *)
(* being used by the same call.                                            *)
LEMMA RestsOpen ==
  ASSUME IInv, SInv, NEW g \in Goroutines, OthersSpared(g), NEW from, NEW to,
         Go(g, from, to), UNCHANGED statements,
         \/ /\ from \notin {"execute", "read"} /\ to \notin {"execute", "read"}
            /\ \/ to \notin {"build", "prepare"} \/ from \in {"build", "prepare"}
               \/ Unused(g) <= MaxFailed
         \/ from = "execute" /\ to = "read" /\ UNCHANGED tx /\ task'[g].call = task[g].call
  PROVE  SInv'
<1>1. at[g] = from /\ at'[g] = to
  BY DEF IInv, Arrays, ByGoroutine, Go
<1>2. UNCHANGED <<stmts, failed>> /\ Unused(g)' = Unused(g)
  BY DEF statements, Unused
<1>3. Opens(g)'
  <2>1. CASE from = "execute" /\ to = "read" /\ UNCHANGED tx /\ task'[g].call = task[g].call
    <3>1. Home(g)' = Home(g)
      BY <2>1 DEF Home, OnTx
    <3>2. QED
      BY <1>1, <1>2, <2>1, <3>1 DEF SInv, Opens, Using
  <2>2. CASE from \notin {"execute", "read"} /\ to \notin {"execute", "read"}
    BY <1>1, <1>2, <2>2 DEF SInv, Opens, Using
  <2>3. QED
    BY <2>1, <2>2
<1>4. QED
  BY <1>2, <1>3, OpensSettled

LEMMA PrepareOpens ==
  ASSUME IInv, SInv, NEW g \in Goroutines, OthersSpared(g), Prepare(g)
  PROVE  SInv'
<1> DEFINE s == [stmts[g] EXCEPT ![Home(g)] = @ + 1]
<1>1. /\ at[g] = "prepare" /\ at'[g] = "execute" /\ Home(g)' = Home(g)
      /\ stmts' = [stmts EXCEPT ![g] = s] /\ UNCHANGED failed
  BY DEF Prepare, Go, IInv, Arrays, ByGoroutine, Home, OnTx
<1>2. stmts[g] = failed[g] /\ failed[g] \in [Homes -> Nat] /\ Unused(g) <= MaxFailed
  BY <1>1 DEF SInv, Opens, Using
<1>3. s \in [Homes -> Nat]
  BY <1>2, HomesOf
<1>4. ASSUME stmts'[g] = s PROVE Opens(g)'
  BY <1>1, <1>2, <1>3, <1>4, BoundsAssumption DEF Opens, Using, Unused, Homes
<1> HIDE DEF s
<1>5. QED
  BY <1>1, <1>4, OpensSettled

(* A statement that fails is one more of those that stay open.             *)
LEMMA FailureOpens ==
  ASSUME IInv, SInv, NEW g \in Goroutines, OthersSpared(g), ExecuteFails(g)
  PROVE  SInv'
<1> DEFINE f == [failed[g] EXCEPT ![Home(g)] = @ + 1]
<1>1. /\ at[g] = "execute" /\ at'[g] = "return"
      /\ failed' = [failed EXCEPT ![g] = f] /\ UNCHANGED stmts
  BY DEF ExecuteFails, Go, IInv, Arrays, ByGoroutine
<1>2. /\ stmts[g] = f /\ failed[g] \in [Homes -> Nat] /\ stmts[g] \in [Homes -> Nat]
      /\ Unused(g) <= MaxFailed
  BY <1>1 DEF SInv, Opens, Using
<1>3. f["pool"] + f["tx"] = Unused(g) + 1 /\ Unused(g) \in Nat
  BY <1>2, HomesOf DEF Unused
<1> HIDE DEF f
<1>4. ASSUME failed'[g] = f PROVE Opens(g)'
  BY <1>1, <1>2, <1>3, <1>4, BoundsAssumption DEF Opens, Using, Unused
<1>5. QED
  BY <1>1, <1>4, OpensSettled

LEMMA CloseOpens ==
  ASSUME IInv, SInv, NEW g \in Goroutines, OthersSpared(g), CloseStmt(g),
         NEW from \in {"execute", "read"}, NEW to \in {"prepare", "return"}, Go(g, from, to)
  PROVE  SInv'
<1> DEFINE s == [stmts[g] EXCEPT ![Home(g)] = @ - 1]
<1>1. /\ at[g] = from /\ at'[g] = to
      /\ stmts' = [stmts EXCEPT ![g] = s] /\ UNCHANGED failed
  BY DEF CloseStmt, Go, IInv, Arrays, ByGoroutine
<1>2. /\ stmts[g] = [failed[g] EXCEPT ![Home(g)] = @ + 1] /\ failed[g] \in [Homes -> Nat]
      /\ Unused(g) <= MaxFailed
  BY <1>1 DEF SInv, Opens, Using
<1>3. s = failed[g]
  BY <1>2, HomesOf
<1> HIDE DEF s
<1>4. ASSUME stmts'[g] = s PROVE Opens(g)'
  <2>1. Unused(g)' = Unused(g) /\ Unused(g) \in Nat
    BY <1>1, <1>2, HomesOf DEF Unused
  <2>2. QED
    BY <1>1, <1>2, <1>3, <1>4, <2>1, BoundsAssumption DEF Opens, Using
<1>5. QED
  BY <1>1, <1>4, OpensSettled

LEMMA EndOpens ==
  ASSUME IInv, SInv, NEW g \in Goroutines, OthersSpared(g), NEW n, End(g, n)
  PROVE  SInv'
<1> DEFINE s == [stmts[g] EXCEPT !["tx"] = 0]
           f == [failed[g] EXCEPT !["tx"] = 0]
<1>1. /\ at[g] = Idle /\ UNCHANGED at
      /\ stmts' = [stmts EXCEPT ![g] = s] /\ failed' = [failed EXCEPT ![g] = f]
  BY DEF End
<1>2. stmts[g] = failed[g] /\ failed[g] \in [Homes -> Nat] /\ Unused(g) <= MaxFailed + 1
  BY <1>1, PlacesDiffer DEF SInv, Opens, Using, Idle
<1>3. s = f /\ f \in [Homes -> Nat] /\ f["pool"] + f["tx"] <= MaxFailed + 1
  BY <1>2, BoundsAssumption DEF Unused, Homes
<1> HIDE DEF s, f
<1>4. ASSUME stmts'[g] = s, failed'[g] = f PROVE Opens(g)'
  BY <1>1, <1>3, <1>4 DEF Opens, Using, Unused, Idle
<1>5. QED
  BY <1>1, <1>4, OpensSettled

LEMMA ContinueOpens ==
  ASSUME IInv, SInv, NEW g \in Goroutines, OthersSpared(g), Continue(g)
  PROVE  SInv'
<1>1. CASE Begin(g) \/ BeginFails(g)
  <2>1. Go(g, "begin", Idle) /\ UNCHANGED statements
    BY <1>1 DEF Begin, BeginFails, resources
  <2>2. QED
    BY <2>1, RestsOpen DEF Idle
<1>2. CASE Build(g)
  <2>1. Go(g, "build", "prepare") /\ UNCHANGED statements
    BY <1>2 DEF Build, resources
  <2>2. QED
    BY <2>1, RestsOpen
<1>3. CASE BuildFails(g) \/ AssertPanics(g) \/ PrepareFails(g)
  <2>1. PICK from \in {"build", "prepare"} : Go(g, from, "return")
    BY <1>3 DEF BuildFails, AssertPanics, PrepareFails
  <2>2. UNCHANGED statements
    BY <1>3 DEF BuildFails, AssertPanics, PrepareFails, resources
  <2>3. QED
    BY <2>1, <2>2, RestsOpen
<1>4. CASE Query(g)
  <2>1. PICK n : task' = [task EXCEPT ![g].found = n]
    BY <1>4 DEF Query
  <2>2. Go(g, "execute", "read") /\ UNCHANGED <<tx, statements>>
    BY <1>4 DEF Query
  <2>3. PICK t : t = task[g] /\ Whole(t)
    BY <2>2 DEF Go, IInv, Keeps, Within
  <2>4. task'[g] = [t EXCEPT !.found = n]
    BY <2>1, <2>3 DEF IInv, Arrays, ByGoroutine
  <2>5. task'[g].call = task[g].call
    BY <2>3, <2>4, Except
  <2>6. QED
    BY <2>2, <2>5, RestsOpen
<1>5. CASE Exec(g)
  <2>1. Go(g, "execute", "return") /\ CloseStmt(g)
    BY <1>5 DEF Exec
  <2>2. QED
    BY <2>1, CloseOpens
<1>6. CASE \/ ReadFails(g) \/ DecodeFails(g) \/ ReadCount(g) \/ CountPanics(g)
           \/ ReadPage(g) \/ ReadRows(g)
  <2>1. CloseRows(g) /\ \E to \in {"prepare", "return"} : Go(g, "read", to)
    BY <1>6 DEF ReadFails, DecodeFails, ReadCount, CountPanics, ReadPage, ReadRows, Fills
  <2>2. CloseStmt(g)
    BY <2>1 DEF CloseRows
  <2>3. QED
    BY <2>1, <2>2, CloseOpens
<1>7. CASE Return(g)
  <2>1. Go(g, "return", "done") /\ UNCHANGED statements
    BY <1>7 DEF Return
  <2>2. QED
    BY <2>1, RestsOpen
<1>8. QED
  BY <1>1, <1>2, <1>3, <1>4, <1>5, <1>6, <1>7, PrepareOpens, FailureOpens DEF Continue

LEMMA StepOpens ==
  ASSUME IInv, SInv, NEW g \in Goroutines, Step(g)
  PROVE  SInv'
<1>1. OthersSpared(g)
  BY GoroutineStep
<1>2. CASE Commit(g) \/ Rollback(g)
  BY <1>1, <1>2, EndOpens DEF Commit, Rollback
<1>3. CASE Enter(g)
  <2>1. Go(g, Idle, "begin") /\ UNCHANGED statements
    BY <1>3 DEF Enter, resources
  <2>2. QED
    BY <1>1, <2>1, RestsOpen DEF Idle
<1>4. CASE \E c \in Calls[g] : Call(g, c) \/ CallFails(g, c)
  <2>1. /\ Unused(g) <= MaxFailed /\ UNCHANGED statements
        /\ \E to \in {"build", "return"} : Go(g, Idle, to)
    BY <1>4 DEF Call, CallFails, Called, Unused, resources
  <2>2. QED
    BY <1>1, <2>1, RestsOpen DEF Idle
<1>5. CASE Leave(g)
  <2>1. Go(g, "done", Idle) /\ UNCHANGED statements
    BY <1>5 DEF Leave, resources
  <2>2. QED
    BY <1>1, <2>1, RestsOpen DEF Idle
<1>6. QED
  BY <1>1, <1>2, <1>3, <1>4, <1>5, ContinueOpens DEF Step

LEMMA StatementsNext == IInv /\ SInv /\ [Next]_vars => SInv'
<1> SUFFICES ASSUME IInv, SInv, [Next]_vars PROVE SInv'
  OBVIOUS
<1>1. ASSUME UNCHANGED <<at, tx, stmts, failed>>,
             \A h \in Goroutines : Spared(h)
      PROVE  SInv'
  BY <1>1, OthersOpen DEF IInv, SInv, ByGoroutine
<1>2. CASE UNCHANGED vars
  <2>1. UNCHANGED <<at, task, tx, own, busy, stmts, failed>>
    BY <1>2 DEF vars
  <2>2. \A h \in Goroutines : Spared(h)
    BY <2>1 DEF Spared, SameTask
  <2>3. QED
    BY <1>1, <2>1, <2>2
<1>3. CASE OtherProgram
  <2>1. UNCHANGED <<at, tx, own, busy, stmts, failed>>
    BY <1>3 DEF OtherProgram, resources, pool, statements
  <2>2. \A h \in Goroutines : SameTask(task[h], task'[h])
    BY <1>3, NoticedOK DEF OtherProgram, SameTask
  <2>3. \A h \in Goroutines : Spared(h)
    BY <2>1, <2>2 DEF Spared
  <2>4. QED
    BY <1>1, <2>1, <2>3
<1>4. ASSUME NEW g \in Goroutines, Step(g) PROVE SInv'
  BY <1>4, StepOpens
<1>5. QED
  BY <1>2, <1>3, <1>4 DEF Next, Step

LEMMA StatementsInit == Init => SInv
<1> SUFFICES ASSUME Init PROVE SInv
  OBVIOUS
<1>1. \A g \in Goroutines : at[g] = Idle /\ stmts[g] = NoStatements /\ failed[g] = NoStatements
  BY DEF Init
<1>2. NoStatements \in [Homes -> Nat] /\ NoStatements["pool"] + NoStatements["tx"] = 0
  BY DEF NoStatements, Homes
<1>3. ASSUME NEW g \in Goroutines PROVE Opens(g)
  BY <1>1, <1>2, BoundsAssumption DEF Opens, Using, Unused, Idle
<1>4. QED
  BY <1>3 DEF Init, SInv, ByGoroutine

(* Whatever mapper functions any number of goroutines call, in and out of  *)
(* transactions, over a pool of any size, and however their calls end, a   *)
(* call keeps neither session nor connection, and the statements that stay *)
(* open after it, for good outside a transaction, are those that failed    *)
(* when they were executed and no others (GoMybatis.go:390-396,            *)
(* LocalSession.go:353-438).                                               *)
THEOREM CallsKeepNothing == Spec => []NothingKept
<1>1. IInv /\ SInv => NothingKept
  <2>1. SUFFICES ASSUME IInv, SInv, NEW g \in Goroutines, at[g] \in {Idle, "done"}
                 PROVE  ~own[g] /\ busy[g] = OfTx(g) /\ stmts[g] = failed[g]
    BY DEF NothingKept, OfTx
  <2>2. busy[g] = OfTx(g) + 0
    BY <2>1, PlacesDiffer DEF IInv, Keeps, OfRows
  <2>3. OfTx(g) \in {0, 1}
    BY DEF OfTx
  <2>4. stmts[g] = failed[g]
    BY <2>1 DEF SInv, Opens, Using, Idle
  <2>5. QED
    BY <2>1, <2>2, <2>3, <2>4 DEF IInv, Keeps
<1>2. Spec => Init /\ [][Next]_vars
  BY PTL DEF Spec
<1>3. IInv /\ SInv /\ [Next]_vars => (IInv /\ SInv)'
  BY Inductive, StatementsNext
<1>4. QED
  BY <1>1, <1>2, <1>3, Initially, StatementsInit, PTL

-----------------------------------------------------------------------------
(* Arithmetic of pages.                                                    *)
LEMMA Quotient ==
  ASSUME NEW n \in Nat, NEW s \in Nat \ {0}
  PROVE  /\ n \div s \in Nat
         /\ s * (n \div s) <= n /\ n < s * (n \div s) + s
<1>1. n \div s \in Int
  OBVIOUS
<1>2. s * (n \div s) <= n /\ n < s * (n \div s) + s
  OBVIOUS
<1>3. PICK q \in Int : q = n \div s
  BY <1>1
<1>4. s * q \in Int
  OBVIOUS
<1>5. s * q <= n /\ n < s * q + s
  BY <1>2, <1>3, <1>4
<1>6. q >= 0
  <2>1. SUFFICES ASSUME q <= -1 PROVE FALSE
    OBVIOUS
  <2>2. s * q <= s * (-1)
    BY <2>1
  <2>3. QED
    BY <1>5, <1>4, <2>2
<1>7. QED
  BY <1>3, <1>5, <1>6

LEMMA QuotientIs ==
  ASSUME NEW n \in Nat, NEW s \in Nat \ {0}, NEW k \in Int, s * k <= n, n < s * k + s
  PROVE  n \div s = k
<1>1. PICK q \in Nat : q = n \div s
  BY Quotient
<1>2. s * q <= n /\ n < s * q + s /\ s * q \in Int /\ s * k \in Int
  BY <1>1, Quotient
<1>3. ASSUME q < k PROVE FALSE
  <2>1. s * q + s <= s * k
    <3>1. s * (q + 1) <= s * k
      BY <1>3
    <3>2. s * (q + 1) = s * q + s
      OBVIOUS
    <3>3. QED
      BY <3>1, <3>2
  <2>2. QED
    BY <1>2, <2>1
<1>4. ASSUME k < q PROVE FALSE
  <2>1. s * k + s <= s * q
    <3>1. s * (k + 1) <= s * q
      BY <1>4
    <3>2. s * (k + 1) = s * k + s
      OBVIOUS
    <3>3. QED
      BY <3>1, <3>2
  <2>2. QED
    BY <1>2, <2>1
<1>5. QED
  BY <1>1, <1>3, <1>4

(* The pages hold the rows, and the last one is not empty.                 *)
LEMMA PagesEnough ==
  ASSUME NEW total \in Nat, NEW size \in Nat \ {0}
  PROVE  /\ PageCount(total, size) \in Nat
         /\ PageCount(total, size) * size \in total..total + size - 1
<1>1. total + size - 1 \in Nat
  OBVIOUS
<1>2. PICK n \in Nat : n = total + size - 1
  BY <1>1
<1>3. PICK q \in Nat : q = n \div size /\ size * q <= n /\ n < size * q + size
  BY Quotient
<1>4. PageCount(total, size) = q
  BY <1>2, <1>3 DEF PageCount
<1>5. q * size = size * q /\ size * q \in Int
  OBVIOUS
<1>6. QED
  BY <1>2, <1>3, <1>4, <1>5

(* Two numbers of rows, or of rows on a page, differ by no more than d,    *)
(* which stops counting at MaxDrift.                                       *)
Near(a, b, d) == d = MaxDrift \/ (a - b <= d /\ b - a <= d)

LEMMA LimitedNat ==
  ASSUME NEW n \in Nat, NEW c \in CallsTyped, Asserted(c)
  PROVE  Limited(n, c) \in Nat
<1>1. c.num \in Int /\ c.size \in Int /\ c.num > 0 /\ c.size > 0
  BY DEF CallsTyped, Asserted
<1>2. PICK o \in Nat : o = GetOffset(c)
  <2>1. (c.num - 1) * c.size \in Nat
    BY <1>1
  <2>2. QED
    BY <2>1 DEF GetOffset
<1>3. QED
  BY <1>1, <1>2 DEF Limited, Least, GetLimit

(* A page differs by no more than the rows do.                             *)
LEMMA LimitedNear ==
  ASSUME NEW n \in Nat, NEW m \in Nat, NEW c \in CallsTyped, Asserted(c),
         NEW d \in Nat, Near(n, m, d)
  PROVE  Near(Limited(n, c), Limited(m, c), d)
<1>1. c.num \in Int /\ c.size \in Int /\ c.num > 0 /\ c.size > 0
  BY DEF CallsTyped, Asserted
<1>2. PICK o \in Nat : o = GetOffset(c)
  <2>1. (c.num - 1) * c.size \in Nat
    BY <1>1
  <2>2. QED
    BY <2>1 DEF GetOffset
<1>3. QED
  BY <1>1, <1>2 DEF Limited, Least, GetLimit, Near

(* LIMIT and OFFSET take what is on the page.                              *)
LEMMA OnPageIsLimited ==
  ASSUME NEW n \in Nat, NEW c \in CallsTyped, Asserted(c)
  PROVE  OnPage(c.num, c.size, n) = Limited(n, c)
<1>1. c.num \in Int /\ c.size \in Nat \ {0} /\ c.num > 0
  BY DEF CallsTyped, Asserted
<1>2. PICK k \in Nat, s \in Nat \ {0} : k = c.num - 1 /\ s = c.size
  BY <1>1
<1>3. PICK o \in Nat : o = s * k
  OBVIOUS
<1>4. GetOffset(c) = o /\ GetLimit(c) = s
  <2>1. k * s = s * k
    OBVIOUS
  <2>2. QED
    BY <1>2, <1>3, <2>1 DEF GetOffset, GetLimit
<1>5. s * (k + 1) = o + s
  BY <1>3
<1>6. ASSUME NEW i \in 1..n
      PROVE  (i + s - 1) \div s = k + 1 <=> i \in (o + 1)..(o + s)
  <2>1. i + s - 1 \in Nat
    OBVIOUS
  <2>2. PICK m \in Nat : m = i + s - 1
    BY <2>1
  <2>3. ASSUME m \div s = k + 1 PROVE i \in (o + 1)..(o + s)
    <3>1. o + s <= m /\ m < o + s + s
      BY <1>5, <2>3, Quotient
    <3>2. QED
      BY <2>2, <3>1
  <2>4. ASSUME i \in (o + 1)..(o + s) PROVE m \div s = k + 1
    <3>1. s * (k + 1) <= m /\ m < s * (k + 1) + s
      BY <1>5, <2>2, <2>4
    <3>2. QED
      BY <3>1, QuotientIs
  <2>5. QED
    BY <2>2, <2>3, <2>4
<1>7. {i \in 1..n : (i + s - 1) \div s = k + 1} = (o + 1)..Least(n, o + s)
  <2>1. {i \in 1..n : (i + s - 1) \div s = k + 1} = {i \in 1..n : i \in (o + 1)..(o + s)}
    BY <1>6
  <2>2. {i \in 1..n : i \in (o + 1)..(o + s)} = (o + 1)..Least(n, o + s)
    BY DEF Least
  <2>3. QED
    BY <2>1, <2>2
<1>8. c.num = k + 1 /\ c.size = s
  BY <1>1, <1>2
<1>9. OnPage(c.num, c.size, n) = Cardinality((o + 1)..Least(n, o + s))
  BY <1>7, <1>8 DEF OnPage
<1>10. PICK b \in Nat : b = Least(n, o + s)
  BY DEF Least
<1>11. Cardinality((o + 1)..b) = IF o + 1 > b THEN 0 ELSE b - (o + 1) + 1
  BY FS_Interval
<1>12. QED
  BY <1>4, <1>9, <1>10, <1>11 DEF Limited, Least

-----------------------------------------------------------------------------
(* WholeAnswers.  The count and then the page are near to what the         *)
(* statement would find now; the calls in between are those whose history  *)
(* Noticed writes.                                                         *)
IsPage(t) == t.call.kind = "page"
IsCount(t) == IsPage(t) /\ t.total = NoCount

(* What a call gives back.                                                 *)
Answered(t) ==
  IF t.outcome # "ok"
  THEN t.result.filled => t.outcome = "error" /\ t.call.kind \in {"list", "one"}
  ELSE IsPage(t) =>
         /\ t.result.pages * t.call.size \in t.result.total..t.result.total + t.call.size - 1
         /\ ~t.cut => Near(t.result.display, OnPage(t.call.num, t.call.size, t.result.total), t.drift)

(* The task of a call at a place, when the rows visible to it are these.   *)
Fits(place, t, visible) ==
  /\ place \in Within \cup {"done"} => t \in Tasks
  /\ place = "build" => t.total = NoCount
  /\ place \in {"prepare", "execute", "read"} /\ IsPage(t) => Asserted(t.call)
  /\ place = "read" /\ IsCount(t) => Near(visible, t.found, t.drift)
  /\ place \in {"prepare", "execute"} /\ IsPage(t) /\ ~IsCount(t) =>
       Near(visible, t.total, t.drift)
  /\ place = "read" /\ IsPage(t) /\ ~IsCount(t) =>
       Near(t.found, Limited(t.total, t.call), t.drift)
  /\ place \in {"return", "done"} => Answered(t)

Numbers == table \in Nat /\ pending \in [Goroutines -> Nat]

AInv ==
  /\ IInv /\ Numbers
  /\ \A g \in Goroutines : Fits(at[g], task[g], Visible(g))

-----------------------------------------------------------------------------
(* The tasks a step makes.                                                 *)
LEMMA StartedTyped ==
  ASSUME NEW c \in CallsTyped
  PROVE  /\ Started(c) \in Tasks /\ Started(c).total = NoCount
         /\ Started(c).result = Untouched
<1>1. Untouched \in Results
  BY DEF Untouched, Results
<1>2. 0 \in 0..MaxDrift
  BY BoundsAssumption
<1>3. QED
  BY <1>1, <1>2 DEF Started, Tasks

LEMMA TypedExcept ==
  ASSUME NEW t \in Tasks
  PROVE  /\ \A v \in 0..MaxDrift :
              LET u == [t EXCEPT !.drift = v]
              IN  /\ u \in Tasks /\ u.drift = v /\ u.call = t.call /\ u.found = t.found
                  /\ u.total = t.total
         /\ \A v \in Nat :
              LET u == [t EXCEPT !.found = v]
              IN  /\ u \in Tasks /\ u.found = v /\ u.call = t.call /\ u.drift = t.drift
                  /\ u.total = t.total
         /\ \A v \in Nat :
              LET u == [t EXCEPT !.total = v]
              IN  /\ u \in Tasks /\ u.total = v /\ u.call = t.call /\ u.drift = t.drift
BY DEF Tasks

LEMMA ResultsTyped ==
  ASSUME NEW n \in Nat, NEW b \in BOOLEAN
  PROVE  /\ Untouched \in Results
         /\ [Untouched EXCEPT !.filled = TRUE, !.auto = TRUE, !.display = 1] \in Results
         /\ [Untouched EXCEPT !.filled = b, !.display = n] \in Results
<1>1. ASSUME NEW u \in Results
      PROVE  /\ [u EXCEPT !.filled = b] \in Results /\ [u EXCEPT !.filled = TRUE] \in Results
             /\ [u EXCEPT !.auto = TRUE] \in Results
             /\ [u EXCEPT !.display = n] \in Results /\ [u EXCEPT !.display = 1] \in Results
  BY DEF Results
<1>2. PICK u \in Results : u = Untouched
  <2>1. Untouched \in Results
    BY DEF Untouched, Results
  <2>2. QED
    BY <2>1
<1>3. PICK v \in Results : v = [u EXCEPT !.filled = TRUE]
  BY <1>1
<1>4. PICK w \in Results : w = [v EXCEPT !.auto = TRUE]
  BY <1>1
<1>5. PICK x \in Results : x = [u EXCEPT !.filled = b]
  BY <1>1
<1>6. [w EXCEPT !.display = 1] \in Results /\ [x EXCEPT !.display = n] \in Results
  BY <1>1
<1>7. QED
  BY <1>2, <1>3, <1>4, <1>5, <1>6

LEMMA TaskFields ==
  ASSUME NEW t \in Tasks
  PROVE  /\ t.call \in CallsTyped /\ t.found \in Nat /\ t.drift \in 0..MaxDrift
         /\ t.total \in Nat \cup {NoCount} /\ t.result \in Results
BY DEF Tasks

-----------------------------------------------------------------------------
(* Rows come and go while a call is between its queries.                   *)
LEMMA NearMoves ==
  ASSUME NEW a \in Nat, NEW b \in Nat, NEW d \in 0..MaxDrift, Near(a, b, d),
         NEW c \in Nat, NEW n \in Nat, c - a <= n, a - c <= n
  PROVE  Least(d + n, MaxDrift) \in 0..MaxDrift /\ Near(c, b, Least(d + n, MaxDrift))
BY BoundsAssumption DEF Near, Least

(* What a step does to a goroutine that does not take it: rows come or go, *)
(* and its history says how many.                                          *)
Apart(h) ==
  /\ at'[h] = at[h] /\ tx'[h] = tx[h] /\ pending'[h] = pending[h]
  /\ \/ table' = table /\ task'[h] = task[h]
     \/ \E n \in Nat : /\ table' - table <= n /\ table - table' <= n
                       /\ task'[h] = Noticed(n)[h]

LEMMA VisibleNat ==
  ASSUME Numbers, NEW g \in Goroutines
  PROVE  Visible(g) \in Nat
BY DEF Numbers, Visible

LEMMA VisibleMoves ==
  ASSUME Numbers, Numbers', NEW g \in Goroutines, task'[g].call = task[g].call,
         tx'[g] = tx[g], pending'[g] = pending[g]
  PROVE  Visible(g)' \in Nat /\ Visible(g)' - Visible(g) = table' - table
<1>1. OnTx(g)' <=> OnTx(g)
  BY DEF OnTx
<1>2. Visible(g) = table + IF OnTx(g) THEN pending[g] ELSE 0
  BY DEF Visible
<1>3. Visible(g)' = table' + IF OnTx(g) THEN pending[g] ELSE 0
  BY <1>1, Zenon DEF Visible
<1>4. PICK a \in Nat, b \in Nat, p \in Nat :
           a = table /\ b = table' /\ p = IF OnTx(g) THEN pending[g] ELSE 0
  BY DEF Numbers
<1>5. b + p \in Nat /\ (b + p) - (a + p) = b - a
  OBVIOUS
<1>6. Visible(g) = a + p /\ Visible(g)' = b + p
  BY <1>2, <1>3, <1>4, Zenon
<1>7. QED
  BY <1>4, <1>5, <1>6, Zenon

LEMMA ApartFits ==
  ASSUME Numbers, Numbers', NEW h \in Goroutines, Fits(at[h], task[h], Visible(h)), Apart(h)
  PROVE  Fits(at[h], task'[h], Visible(h)')
<1> DEFINE t == task[h]
           u == task'[h]
           v == Visible(h)
           w == Visible(h)'
<1>1. CASE table' = table /\ task'[h] = task[h]
  <2>1. w = v
    <3>1. w - v = 0 /\ w \in Nat /\ v \in Nat
      BY <1>1, VisibleMoves, VisibleNat DEF Apart, Numbers
    <3>2. QED
      BY <3>1
  <2>2. QED
    BY <1>1, <2>1
<1>2. ASSUME NEW n \in Nat, table' - table <= n, table - table' <= n, u = Noticed(n)[h]
      PROVE  Fits(at[h], u, w)
  <2>1. CASE ~BetweenQueries(h)
    <3>1. u = t
      BY <1>2, <2>1 DEF Noticed
    <3>2. ~(at[h] = "read" /\ IsCount(t))
          /\ ~(at[h] \in {"prepare", "execute"} /\ IsPage(t) /\ ~IsCount(t))
      BY <2>1 DEF BetweenQueries, Counting, Paging, IsCount, IsPage
    <3>3. QED
      BY <3>1, <3>2 DEF Fits
  <2>2. CASE BetweenQueries(h)
    <3>1. t \in Tasks /\ at[h] \in {"read", "prepare", "execute"}
      BY <2>2 DEF BetweenQueries, Fits, Within
    <3>2. t.drift \in 0..MaxDrift /\ t.found \in Nat
      BY <3>1, TaskFields
    <3>3. PICK d : d = Least(t.drift + n, MaxDrift)
      OBVIOUS
    <3>4. d \in 0..MaxDrift
      BY <3>2, <3>3, BoundsAssumption DEF Least
    <3>5. u = [t EXCEPT !.drift = d]
      BY <1>2, <2>2, <3>3 DEF Noticed
    <3>6. /\ u \in Tasks /\ u.drift = d /\ u.call = t.call /\ u.found = t.found
          /\ u.total = t.total
      BY <3>1, <3>4, <3>5, TypedExcept
    <3>7. w \in Nat /\ v \in Nat /\ w - v <= n /\ v - w <= n
      <4>1. w \in Nat /\ w - v = table' - table /\ v \in Nat
        BY <3>6, VisibleMoves, VisibleNat DEF Apart
      <4>2. PICK a \in Nat, b \in Nat : a = table /\ b = table'
        BY DEF Numbers
      <4>3. \A x, y \in Nat : x - y = b - a /\ b - a <= n /\ a - b <= n =>
                              x - y <= n /\ y - x <= n
        OBVIOUS
      <4>4. QED
        BY <1>2, <4>1, <4>2, <4>3, Zenon
    <3>8. (IsPage(u) <=> IsPage(t)) /\ (IsCount(u) <=> IsCount(t))
      BY <3>6 DEF IsPage, IsCount
    <3>9. CASE at[h] = "read" /\ IsCount(t)
      <4>1. Near(w, u.found, d)
        BY <3>2, <3>3, <3>6, <3>7, <3>9, NearMoves DEF Fits
      <4>2. QED
        BY <3>6, <3>8, <3>9, <4>1 DEF Fits
    <3>10. CASE at[h] \in {"prepare", "execute"} /\ IsPage(t) /\ ~IsCount(t)
      <4>1. t.total \in Nat
        BY <3>1, <3>10, TaskFields DEF IsCount
      <4>2. Near(w, u.total, d)
        BY <3>2, <3>3, <3>6, <3>7, <3>10, <4>1, NearMoves DEF Fits
      <4>3. QED
        BY <3>6, <3>8, <3>10, <4>2 DEF Fits
    <3>11. QED
      BY <2>2, <3>9, <3>10 DEF BetweenQueries, Counting, Paging, IsCount, IsPage
  <2>3. QED
    BY <2>1, <2>2
<1>3. QED
  BY <1>1, <1>2 DEF Apart

LEMMA AnswersSettled ==
  ASSUME AInv, IInv', Numbers', NEW g \in Goroutines,
         Fits(at'[g], task'[g], Visible(g)'), \A h \in Goroutines \ {g} : Apart(h)
  PROVE  AInv'
<1>1. ASSUME NEW h \in Goroutines \ {g} PROVE Fits(at'[h], task'[h], Visible(h)')
  BY <1>1, ApartFits DEF AInv, Apart
<1>2. \A h \in Goroutines : Fits(at'[h], task'[h], Visible(h)')
  BY <1>1
<1>3. QED
  BY <1>2, Zenon DEF AInv

LEMMA AllApart ==
  ASSUME AInv, IInv', Numbers', \A h \in Goroutines : Apart(h)
  PROVE  AInv'
<1>1. ASSUME NEW h \in Goroutines PROVE Fits(at'[h], task'[h], Visible(h)')
  BY <1>1, ApartFits DEF AInv, Apart
<1>2. QED
  BY <1>1, Zenon DEF AInv

LEMMA Outside ==
  ASSUME NEW place \in {Idle, "begin"}
  PROVE  \A t, v : Fits(place, t, v)
BY DEF Fits, Idle, Within

LEMMA Returned ==
  ASSUME NEW place \in {"return", "done"}, NEW t \in Tasks, Answered(t)
  PROVE  \A v : Fits(place, t, v)
BY DEF Fits, Within

(* A step of g alone, of which the database knows nothing.                 *)
LEMMA QuietStep ==
  ASSUME AInv, IInv', NEW g \in Goroutines, NEW from, NEW to, NEW t,
         Go(g, from, to),
         task' = [task EXCEPT ![g] = t] \/ (UNCHANGED task /\ t = task[g]),
         UNCHANGED <<tx, table, pending>>,
         \/ t.call = task[g].call /\ Fits(to, t, Visible(g))
         \/ \A v : Fits(to, t, v)
  PROVE  AInv'
<1>1. Numbers'
  BY DEF AInv, Numbers
<1>2. at'[g] = to /\ task'[g] = t /\ \A h \in Goroutines \ {g} : Apart(h)
  BY DEF AInv, IInv, Arrays, ByGoroutine, Go, Apart
<1>3. Fits(at'[g], task'[g], Visible(g)')
  <2>1. CASE t.call = task[g].call /\ Fits(to, t, Visible(g))
    <3>1. PICK v \in Nat, w \in Nat, n \in Nat : v = Visible(g) /\ w = Visible(g)' /\ n = table
      BY <1>1, <1>2, <2>1, VisibleMoves, VisibleNat DEF AInv, Numbers
    <3>2. w - v = n - n
      BY <1>1, <1>2, <2>1, <3>1, VisibleMoves, Zenon DEF AInv
    <3>3. w = v
      BY <3>2
    <3>4. QED
      BY <1>2, <2>1, <3>1, <3>3, Zenon
  <2>2. CASE \A v : Fits(to, t, v)
    BY <1>2, <2>2, Zenon
  <2>3. QED
    BY <2>1, <2>2
<1>4. QED
  BY <1>1, <1>2, <1>3, AnswersSettled

-----------------------------------------------------------------------------
LEMMA EnterAnswers ==
  ASSUME AInv, IInv', NEW g \in Goroutines, Enter(g) \/ BeginFails(g) PROVE AInv'
<1>1. PICK from, to \in {Idle, "begin"} : Go(g, from, to)
  BY DEF Enter, BeginFails
<1>2. UNCHANGED <<task, tx, table, pending>>
  BY DEF Enter, BeginFails, resources, database
<1>3. \A v : Fits(to, task[g], v)
  BY Outside
<1>4. QED
  BY <1>1, <1>2, <1>3, QuietStep

LEMMA BeginAnswers ==
  ASSUME AInv, IInv', NEW g \in Goroutines, Begin(g) PROVE AInv'
<1>1. /\ at' = [at EXCEPT ![g] = Idle] /\ (\E which : tx' = [tx EXCEPT ![g] = which])
      /\ UNCHANGED <<task, table, pending>>
  BY DEF Begin, Go, database
<1>2. Numbers' /\ at'[g] = Idle /\ \A h \in Goroutines \ {g} : Apart(h)
  BY <1>1 DEF AInv, IInv, Arrays, ByGoroutine, Apart, Numbers
<1>3. Fits(at'[g], task'[g], Visible(g)')
  BY <1>2, Outside, Zenon
<1>4. QED
  BY <1>2, <1>3, AnswersSettled

LEMMA EndAnswers ==
  ASSUME AInv, IInv', NEW g \in Goroutines, NEW n \in Nat, End(g, n) PROVE AInv'
<1>1. /\ at[g] = Idle /\ UNCHANGED at
      /\ tx' = [tx EXCEPT ![g] = "none"] /\ pending' = [pending EXCEPT ![g] = 0]
      /\ table' = table + n /\ task' = Noticed(n)
  BY DEF End
<1>2. Numbers'
  BY <1>1 DEF AInv, Numbers
<1>3. table' - table <= n /\ table - table' <= n
  BY <1>1 DEF AInv, Numbers
<1>4. \A h \in Goroutines \ {g} : Apart(h)
  BY <1>1, <1>3 DEF AInv, IInv, Arrays, ByGoroutine, Numbers, Apart
<1>5. Fits(at'[g], task'[g], Visible(g)')
  BY <1>1, Outside, Zenon
<1>6. QED
  BY <1>2, <1>4, <1>5, AnswersSettled

LEMMA OtherProgramAnswers == ASSUME AInv, IInv', OtherProgram PROVE AInv'
<1>1. UNCHANGED <<at, tx, pending>>
  BY DEF OtherProgram, resources
<1>2. Numbers'
  BY <1>1 DEF OtherProgram, AInv, Numbers
<1>3. \/ UNCHANGED <<table, task>>
      \/ task' = Noticed(1) /\ table' - table <= 1 /\ table - table' <= 1
  BY DEF OtherProgram, AInv, Numbers
<1>4. \A h \in Goroutines : Apart(h)
  BY <1>1, <1>3 DEF Apart
<1>5. QED
  BY <1>2, <1>4, AllApart

LEMMA CallAnswers ==
  ASSUME AInv, IInv', NEW g \in Goroutines, NEW c \in CallsTyped, Call(g, c) PROVE AInv'
<1>1. /\ Go(g, Idle, "build") /\ task' = [task EXCEPT ![g] = Started(c)]
      /\ UNCHANGED <<tx, table, pending>>
  BY DEF Call, database
<1>2. \A v : Fits("build", Started(c), v)
  BY StartedTyped DEF Fits
<1>3. QED
  BY <1>1, <1>2, QuietStep

LEMMA LeftAnswered ==
  ASSUME NEW c \in CallsTyped, NEW o \in {"error", "panic"}
  PROVE  LET t == [Started(c) EXCEPT !.outcome = o]
         IN  \A v : Fits("return", t, v)
<1> DEFINE t == [Started(c) EXCEPT !.outcome = o]
<1>1. t \in Tasks /\ t.outcome = o /\ t.result = Untouched
  BY StartedTyped DEF Tasks
<1>2. Answered(t)
  BY <1>1 DEF Answered, Untouched
<1> HIDE DEF t
<1>3. \A v : Fits("return", t, v)
  BY <1>1, <1>2, Returned
<1>4. QED
  BY <1>3 DEF t

LEMMA CallFailsAnswers ==
  ASSUME AInv, IInv', NEW g \in Goroutines, NEW c \in CallsTyped, CallFails(g, c) PROVE AInv'
<1> DEFINE t == [Started(c) EXCEPT !.outcome = "error"]
<1>1. /\ Go(g, Idle, "return") /\ task' = [task EXCEPT ![g] = t]
      /\ UNCHANGED <<tx, table, pending>>
  BY DEF CallFails, resources, database
<1>2. \A v : Fits("return", t, v)
  BY LeftAnswered
<1> HIDE DEF t
<1>3. QED
  BY <1>1, <1>2, QuietStep

(* The task of a goroutine within a call.                                  *)
LEMMA Tasked ==
  ASSUME AInv, NEW g \in Goroutines, at[g] \in Within
  PROVE  task[g] \in Tasks /\ task[g].call \in CallsTyped
BY TaskFields DEF AInv, Fits

LEMMA LeavesAnswers ==
  ASSUME AInv, IInv', NEW g \in Goroutines, NEW from \in Within,
         NEW o \in {"error", "panic"}, Go(g, from, "return"), Leaves(g, o),
         UNCHANGED <<tx, table, pending>>
  PROVE  AInv'
<1> DEFINE t == [Started(task[g].call) EXCEPT !.outcome = o]
<1>1. task' = [task EXCEPT ![g] = t]
  BY DEF Leaves
<1>2. task[g].call \in CallsTyped
  BY Tasked DEF Go
<1>3. \A v : Fits("return", t, v)
  BY <1>2, LeftAnswered
<1> HIDE DEF t
<1>4. QED
  BY <1>1, <1>3, QuietStep

LEMMA FailureAnswers ==
  ASSUME AInv, IInv', NEW g \in Goroutines,
         \/ BuildFails(g) \/ AssertPanics(g) \/ PrepareFails(g) \/ ExecuteFails(g)
         \/ ReadFails(g) \/ CountPanics(g)
  PROVE  AInv'
<1>1. UNCHANGED <<tx, table, pending>>
  BY DEF BuildFails, AssertPanics, PrepareFails, ExecuteFails, ReadFails, CountPanics,
         resources, database
<1>2. PICK from \in Within, o \in {"error", "panic"} : Go(g, from, "return") /\ Leaves(g, o)
  BY DEF BuildFails, AssertPanics, PrepareFails, ExecuteFails, ReadFails, CountPanics, Within
<1>3. QED
  BY <1>1, <1>2, LeavesAnswers

LEMMA BuildAnswers ==
  ASSUME AInv, IInv', NEW g \in Goroutines, Build(g) \/ Prepare(g) PROVE AInv'
<1>1. UNCHANGED <<task, tx, table, pending>>
  BY DEF Build, Prepare, resources, database
<1>2. CASE Build(g)
  <2>1. Go(g, "build", "prepare") /\ (IsPage(task[g]) => Asserted(task[g].call))
    BY <1>2 DEF Build, IsPage, Paging
  <2>2. Fits("prepare", task[g], Visible(g))
    BY <2>1 DEF Go, AInv, Fits, IsCount, Within
  <2>3. QED
    BY <1>1, <2>1, <2>2, QuietStep
<1>3. CASE Prepare(g)
  <2>1. Go(g, "prepare", "execute")
    BY <1>3 DEF Prepare
  <2>2. Fits("execute", task[g], Visible(g))
    BY <2>1 DEF Go, AInv, Fits, Within
  <2>3. QED
    BY <1>1, <2>1, <2>2, QuietStep
<1>4. QED
  BY <1>2, <1>3

LEMMA QueryAnswers ==
  ASSUME AInv, IInv', NEW g \in Goroutines, Query(g) PROVE AInv'
<1> DEFINE old == task[g]
           n == IF Paging(g) /\ ~Counting(g) THEN Limited(Visible(g), old.call)
                ELSE Visible(g)
           t == [old EXCEPT !.found = n]
<1>1. /\ Go(g, "execute", "read") /\ UNCHANGED <<tx, table, pending>>
      /\ task' = [task EXCEPT ![g] = t]
  BY DEF Query, database
<1>2. at[g] = "execute" /\ Fits("execute", old, Visible(g))
  BY <1>1 DEF Go, AInv
<1>3. old \in Tasks /\ old.call \in CallsTyped /\ old.drift \in 0..MaxDrift
  BY <1>2, TaskFields DEF Fits, Within
<1>4. PICK v \in Nat : v = Visible(g)
  BY VisibleNat DEF AInv
<1>5. IsPage(old) => Asserted(old.call)
  BY <1>2 DEF Fits
<1>6. n \in Nat
  BY <1>3, <1>4, <1>5, LimitedNat DEF Paging, IsPage
<1>7. /\ t \in Tasks /\ t.found = n /\ t.call = old.call /\ t.drift = old.drift
      /\ t.total = old.total
  BY <1>3, <1>6, TypedExcept
<1>8. (IsPage(t) <=> IsPage(old)) /\ (IsCount(t) <=> IsCount(old))
  BY <1>7 DEF IsPage, IsCount
<1>9. IsCount(t) => Near(v, t.found, t.drift)
  <2>1. SUFFICES ASSUME IsCount(t) PROVE Near(v, v, old.drift) /\ t.found = v
    BY <1>7
  <2>2. t.found = v
    BY <1>4, <1>7, <1>8, <2>1 DEF IsCount, IsPage, Counting, Paging
  <2>3. QED
    BY <1>3, <2>2, BoundsAssumption DEF Near
<1>10. IsPage(t) /\ ~IsCount(t) => Near(t.found, Limited(t.total, t.call), t.drift)
  <2>1. SUFFICES ASSUME IsPage(t), ~IsCount(t)
                 PROVE  Near(t.found, Limited(t.total, t.call), t.drift)
    OBVIOUS
  <2>2. t.found = Limited(v, old.call)
    BY <1>4, <1>7, <1>8, <2>1 DEF IsCount, IsPage, Counting, Paging
  <2>3. Near(v, old.total, old.drift)
    BY <1>2, <1>4, <1>8, <2>1 DEF Fits
  <2>4. old.total \in Nat /\ old.drift \in Nat
    BY <1>3, <1>8, <2>1, TaskFields, BoundsAssumption DEF IsCount
  <2>5. Asserted(old.call)
    BY <1>5, <1>8, <2>1
  <2>6. QED
    BY <1>3, <1>7, <2>2, <2>3, <2>4, <2>5, LimitedNear
<1>11. Fits("read", t, v)
  BY <1>5, <1>7, <1>8, <1>9, <1>10 DEF Fits, Within
<1> HIDE DEF t
<1>12. QED
  BY <1>1, <1>4, <1>7, <1>11, QuietStep

LEMMA ExecAnswers ==
  ASSUME AInv, IInv', NEW g \in Goroutines, Exec(g) PROVE AInv'
<1> DEFINE base == IF OnTx(g) THEN task ELSE Noticed(1)
           o == IF task[g].call.integer THEN "ok" ELSE "panic"
           r == IF task[g].call.integer
                THEN [Untouched EXCEPT !.filled = TRUE, !.auto = TRUE, !.display = 1]
                ELSE Untouched
<1>1. /\ at[g] = "execute" /\ at' = [at EXCEPT ![g] = "return"] /\ UNCHANGED tx
      /\ task[g].call.kind = "exec"
      /\ task' = [base EXCEPT ![g].outcome = o, ![g].result = r]
      /\ IF OnTx(g) THEN pending' = [pending EXCEPT ![g] = @ + 1] /\ UNCHANGED table
                    ELSE table' = table + 1 /\ UNCHANGED pending
  BY DEF Exec, Go
<1>2. Numbers'
  BY <1>1 DEF AInv, Numbers
<1>3. at'[g] = "return"
  BY <1>1 DEF AInv, IInv, Arrays, ByGoroutine
<1>4. ByGoroutine(base) /\ base[g] = task[g]
  BY <1>1, NoticedOK DEF AInv, IInv, Arrays, Noticed, BetweenQueries, Paging, Counting
<1>5. \A h \in Goroutines \ {g} : Apart(h)
  <2>1. ASSUME NEW h \in Goroutines \ {g}
        PROVE  task'[h] = base[h] /\ at'[h] = at[h] /\ tx'[h] = tx[h] /\ pending'[h] = pending[h]
    <3>1. task'[h] = base[h]
      BY <1>1, <1>4 DEF ByGoroutine
    <3>2. at'[h] = at[h] /\ tx'[h] = tx[h] /\ pending'[h] = pending[h]
      BY <1>1 DEF AInv, IInv, Arrays, ByGoroutine, Numbers
    <3>3. QED
      BY <3>1, <3>2
  <2>2. CASE OnTx(g)
    BY <1>1, <2>1, <2>2 DEF Apart
  <2>3. CASE ~OnTx(g)
    <3>1. table' - table <= 1 /\ table - table' <= 1
      BY <1>1, <2>3 DEF AInv, Numbers
    <3>2. QED
      BY <2>1, <2>3, <3>1 DEF Apart
  <2>4. QED
    BY <2>2, <2>3
<1>6. PICK t \in Tasks : t = task[g]
  BY <1>1, Tasked DEF Within
<1>7. task'[g] = [t EXCEPT !.outcome = o, !.result = r]
  BY <1>1, <1>4, <1>6 DEF ByGoroutine
<1>8. o \in {"none", "ok", "error", "panic"} /\ r \in Results
      /\ (o # "ok" => r = Untouched)
  BY ResultsTyped
<1>9. PICK u \in Tasks : u = task'[g] /\ u.outcome = o /\ u.result = r /\ u.call = t.call
  <2> HIDE DEF o, r
  <2>1. LET x == [t EXCEPT !.outcome = o, !.result = r]
        IN  x \in Tasks /\ x.outcome = o /\ x.result = r /\ x.call = t.call
    BY <1>8 DEF Tasks
  <2>2. QED
    BY <1>7, <2>1
<1>10. Answered(u)
  BY <1>1, <1>6, <1>8, <1>9 DEF Answered, IsPage, Untouched
<1>11. Fits(at'[g], task'[g], Visible(g)')
  BY <1>3, <1>9, <1>10, Returned, Zenon
<1>12. QED
  BY <1>2, <1>5, <1>11, AnswersSettled

-----------------------------------------------------------------------------
LEMMA DecodeFailsAnswers ==
  ASSUME AInv, IInv', NEW g \in Goroutines, DecodeFails(g) PROVE AInv'
<1>1. PICK s : s = Started(task[g].call)
  OBVIOUS
<1> DEFINE t == [s EXCEPT !.outcome = "error", !.result.filled = TRUE]
<1>2. /\ Go(g, "read", "return") /\ task[g].call.kind \in {"list", "one"}
      /\ task' = [task EXCEPT ![g] = t] /\ UNCHANGED <<tx, table, pending>>
  BY <1>1 DEF DecodeFails, database
<1>3. s \in Tasks /\ s.call = task[g].call
  BY <1>1, <1>2, Tasked, StartedTyped, StartedWhole DEF Go, Within
<1>4. t \in Tasks /\ t.outcome = "error" /\ t.call = task[g].call
  BY <1>3 DEF Tasks, Results
<1>5. Answered(t)
  BY <1>2, <1>4 DEF Answered
<1> HIDE DEF t
<1>6. \A v : Fits("return", t, v)
  BY <1>4, <1>5, Returned
<1>7. QED
  BY <1>2, <1>6, QuietStep

LEMMA ReadCountAnswers ==
  ASSUME AInv, IInv', NEW g \in Goroutines, ReadCount(g) PROVE AInv'
<1> DEFINE old == task[g]
           t == [old EXCEPT !.total = old.found]
<1>1. /\ Go(g, "read", "prepare") /\ IsCount(old)
      /\ task' = [task EXCEPT ![g] = t] /\ UNCHANGED <<tx, table, pending>>
  BY DEF ReadCount, database, Counting, Paging, IsCount, IsPage
<1>2. Fits("read", old, Visible(g))
  BY <1>1 DEF Go, AInv
<1>3. old \in Tasks /\ old.found \in Nat
  BY <1>2, TaskFields DEF Fits, Within
<1>4. /\ t \in Tasks /\ t.total = old.found /\ t.call = old.call /\ t.drift = old.drift
  BY <1>3, TypedExcept
<1>5. Fits("prepare", t, Visible(g))
  BY <1>1, <1>2, <1>4 DEF Fits, Within, IsPage, IsCount
<1> HIDE DEF t
<1>6. QED
  BY <1>1, <1>4, <1>5, QuietStep

LEMMA FillsAnswers ==
  ASSUME AInv, IInv', NEW g \in Goroutines, NEW n \in Nat, NEW cut \in BOOLEAN,
         NEW r \in Results, Fills(g, n, cut, r),
         IsPage(task[g]) =>
           /\ r.pages * task[g].call.size \in r.total..r.total + task[g].call.size - 1
           /\ ~cut => Near(r.display, OnPage(task[g].call.num, task[g].call.size, r.total),
                           task[g].drift)
  PROVE  AInv'
<1>1. PICK s : s = Started(task[g].call)
  OBVIOUS
<1>2. PICK d : d = task[g].drift
  OBVIOUS
<1> DEFINE t == [s EXCEPT !.outcome = "ok", !.result = r, !.drift = d, !.cut = cut]
<1>3. /\ Go(g, "read", "return")
      /\ task' = [task EXCEPT ![g] = t] /\ UNCHANGED <<tx, table, pending>>
  BY <1>1, <1>2 DEF Fills, database
<1>4. s \in Tasks /\ s.call = task[g].call /\ d \in 0..MaxDrift
  BY <1>1, <1>2, <1>3, Tasked, TaskFields, StartedTyped, StartedWhole DEF Go, Within
<1>5. /\ t \in Tasks /\ t.outcome = "ok" /\ t.result = r /\ t.drift = d /\ t.cut = cut
      /\ t.call = task[g].call
  BY <1>4 DEF Tasks
<1> HIDE DEF t
<1>6. Answered(t)
  BY <1>2, <1>5 DEF Answered, IsPage
<1>7. \A v : Fits("return", t, v)
  BY <1>5, <1>6, Returned
<1>8. QED
  BY <1>3, <1>7, QuietStep

LEMMA ReadPageAnswers ==
  ASSUME AInv, IInv', NEW g \in Goroutines, ReadPage(g) PROVE AInv'
<1> DEFINE c == task[g].call
           total == task[g].total
<1>1. at[g] = "read" /\ IsPage(task[g]) /\ ~IsCount(task[g])
  BY DEF ReadPage, Counting, Paging, IsCount, IsPage
<1>2. PICK n \in 0..MaxRows, cut \in BOOLEAN :
         /\ Arrives(g, n, cut)
         /\ Fills(g, n, cut, [filled |-> TRUE, auto |-> FALSE, total |-> total,
                              pages |-> PageCount(total, c.size), display |-> n])
  BY DEF ReadPage
<1>3. /\ task[g] \in Tasks /\ c \in CallsTyped /\ total \in Nat /\ task[g].found \in Nat
      /\ task[g].drift \in 0..MaxDrift
  BY <1>1, Tasked, TaskFields DEF Within, IsCount
<1>4. Asserted(c) /\ Near(task[g].found, Limited(total, c), task[g].drift)
  BY <1>1 DEF AInv, Fits
<1>5. c.size \in Nat \ {0}
  BY <1>3, <1>4 DEF CallsTyped, Asserted
<1>6. PICK p : p = PageCount(total, c.size) /\ p \in Nat
               /\ p * c.size \in total..total + c.size - 1
  BY <1>3, <1>5, PagesEnough
<1> DEFINE r == [filled |-> TRUE, auto |-> FALSE, total |-> total, pages |-> p, display |-> n]
<1>7. /\ r \in Results /\ r.pages = p /\ r.total = total /\ r.display = n
      /\ Fills(g, n, cut, r) /\ n \in Nat
  BY <1>2, <1>3, <1>6, BoundsAssumption DEF Results
<1>8. ~cut => Near(r.display, OnPage(c.num, c.size, r.total), task[g].drift)
  <2>1. OnPage(c.num, c.size, total) = Limited(total, c)
    BY <1>3, <1>4, OnPageIsLimited
  <2>2. ~cut => n = task[g].found
    BY <1>2 DEF Arrives
  <2>3. QED
    BY <1>4, <1>7, <2>1, <2>2
<1> HIDE DEF r
<1>9. QED
  BY <1>6, <1>7, <1>8, FillsAnswers

LEMMA ReadRowsAnswers ==
  ASSUME AInv, IInv', NEW g \in Goroutines, ReadRows(g) PROVE AInv'
<1>1. PICK n \in 0..MaxRows, cut \in BOOLEAN :
         Fills(g, n, cut, [Untouched EXCEPT !.filled = n > 0, !.display = n])
  BY DEF ReadRows
<1>2. PICK r : r = [Untouched EXCEPT !.filled = n > 0, !.display = n]
  OBVIOUS
<1>3. r \in Results /\ n \in Nat
  <2>1. n \in Nat /\ (n > 0) \in BOOLEAN
    BY BoundsAssumption
  <2>2. QED
    BY <1>2, <2>1, ResultsTyped
<1>4. ~IsPage(task[g])
  BY DEF ReadRows, IsPage
<1>5. QED
  BY <1>1, <1>2, <1>3, <1>4, FillsAnswers

LEMMA ReturnAnswers ==
  ASSUME AInv, IInv', NEW g \in Goroutines, Return(g) PROVE AInv'
<1>1. Go(g, "return", "done") /\ UNCHANGED <<task, tx, table, pending>>
  BY DEF Return, database
<1>2. Fits("done", task[g], Visible(g))
  BY <1>1 DEF Go, AInv, Fits, Within
<1>3. QED
  BY <1>1, <1>2, QuietStep

LEMMA LeaveAnswers ==
  ASSUME AInv, IInv', NEW g \in Goroutines, Leave(g) PROVE AInv'
<1>1. /\ Go(g, "done", Idle) /\ task' = [task EXCEPT ![g] = NoTask]
      /\ UNCHANGED <<tx, table, pending>>
  BY DEF Leave, resources, database
<1>2. \A v : Fits(Idle, NoTask, v)
  BY Outside
<1>3. QED
  BY <1>1, <1>2, QuietStep

-----------------------------------------------------------------------------
LEMMA AnswersInit == Init => AInv
<1> SUFFICES ASSUME Init PROVE AInv
  OBVIOUS
<1>1. Numbers
  BY DEF Init, Numbers
<1>2. ASSUME NEW g \in Goroutines PROVE Fits(at[g], task[g], Visible(g))
  BY Outside DEF Init
<1>3. QED
  BY <1>1, <1>2, Initially DEF AInv

LEMMA AnswersStutter == ASSUME AInv, IInv', UNCHANGED vars PROVE AInv'
<1>1. UNCHANGED <<at, task, tx, table, pending>>
  BY DEF vars, database
<1>2. Numbers' /\ \A h \in Goroutines : Apart(h)
  BY <1>1 DEF AInv, Numbers, Apart
<1>3. QED
  BY <1>2, AllApart

LEMMA AnswersStep == AInv /\ [Next]_vars => AInv'
<1> SUFFICES ASSUME AInv, [Next]_vars PROVE AInv'
  OBVIOUS
<1>1. IInv'
  BY Inductive DEF AInv
<1>2. CASE UNCHANGED vars
  BY <1>1, <1>2, AnswersStutter
<1>3. CASE OtherProgram
  BY <1>1, <1>3, OtherProgramAnswers
<1>4. ASSUME NEW g \in Goroutines,
             \/ Enter(g) \/ Commit(g) \/ Rollback(g)
             \/ \E c \in Calls[g] : Call(g, c) \/ CallFails(g, c)
             \/ Continue(g) \/ Leave(g)
      PROVE  AInv'
  <2>1. CASE Commit(g) \/ Rollback(g)
    <3>1. PICK n \in Nat : End(g, n)
      BY <2>1 DEF Commit, Rollback, AInv, Numbers
    <3>2. QED
      BY <1>1, <3>1, EndAnswers
  <2>2. CASE \E c \in Calls[g] : Call(g, c) \/ CallFails(g, c)
    <3>1. PICK c \in CallsTyped : Call(g, c) \/ CallFails(g, c)
      BY <2>2, CallsAssumption
    <3>2. QED
      BY <1>1, <3>1, CallAnswers, CallFailsAnswers
  <2>3. CASE Continue(g)
    BY <1>1, <2>3, EnterAnswers, BeginAnswers, BuildAnswers, FailureAnswers, QueryAnswers,
       ExecAnswers, DecodeFailsAnswers, ReadCountAnswers, ReadPageAnswers, ReadRowsAnswers,
       ReturnAnswers
    DEF Continue
  <2>4. QED
    BY <1>1, <1>4, <2>1, <2>2, <2>3, EnterAnswers, LeaveAnswers
<1>5. QED
  BY <1>2, <1>3, <1>4 DEF Next

LEMMA OnPageNat ==
  ASSUME NEW num, NEW size, NEW n \in Nat
  PROVE  OnPage(num, size, n) \in Nat
<1>1. PICK S \in SUBSET (1..n) : OnPage(num, size, n) = Cardinality(S)
  BY DEF OnPage
<1>2. IsFiniteSet(1..n)
  BY FS_Interval
<1>3. QED
  BY <1>1, <1>2, FS_Subset, FS_CardinalityType

(* A page never strays from what its count promises by more than the rows  *)
(* that came or went between the two statements, unless the connection was *)
(* lost; a failed call leaves no page behind; for any goroutines, calls,   *)
(* page numbers and sizes (GoMybatis.go:409-466, IPageArg.go:20-27).       *)
THEOREM AnswersAreWhole == Spec => []WholeAnswers
<1>1. AInv => WholeAnswers
  <2>1. SUFFICES ASSUME AInv, NEW g \in Goroutines, at[g] = "done"
                 PROVE  LET t == task[g]
                            promised == OnPage(t.call.num, t.call.size, t.result.total)
                        IN IF t.outcome # "ok"
                           THEN t.result.filled =>
                                  t.outcome = "error" /\ t.call.kind \in {"list", "one"}
                           ELSE t.call.kind = "page" =>
                              /\ t.result.pages * t.call.size
                                   \in t.result.total..t.result.total + t.call.size - 1
                              /\ ~t.cut /\ t.drift < MaxDrift =>
                                   t.result.display \in promised - t.drift .. promised + t.drift
    BY DEF WholeAnswers
  <2>2. PICK t \in Tasks : t = task[g] /\ Answered(t)
    BY <2>1 DEF AInv, Fits
  <2>3. /\ t.result.total \in Nat /\ t.result.display \in Nat /\ t.drift \in Nat
        /\ OnPage(t.call.num, t.call.size, t.result.total) \in Nat
    <3>1. t.result \in Results /\ t.drift \in Nat
      BY TaskFields, BoundsAssumption
    <3>2. QED
      BY <3>1, OnPageNat DEF Results
  <2>4. QED
    BY <2>2, <2>3 DEF Answered, IsPage, Near
<1>2. Spec => Init /\ [][Next]_vars
  BY PTL DEF Spec
<1>3. QED
  BY <1>1, <1>2, AnswersInit, AnswersStep, PTL

-----------------------------------------------------------------------------
(* TypeOK.  What is free and what is held make up the pool, and the rows   *)
(* stay under their bound; connections and rows are counted as pairs of a  *)
(* goroutine and a number.                                                 *)
Below(f, n) == {p \in Goroutines \X (1..n) : p[2] <= f[p[1]]}
Held == Below(busy, 2)

Bounded ==
  /\ tx \in [Goroutines -> Transactions]
  /\ own \in [Goroutines -> BOOLEAN]
  /\ busy \in [Goroutines -> 0..2]
  /\ free \in Nat /\ free + Cardinality(Held) = PoolSize
  /\ table \in Nat /\ pending \in [Goroutines -> 0..MaxRows]
  /\ table + Cardinality(Uncommitted) <= MaxRows

LEMMA BelowFinite ==
  ASSUME NEW f, NEW n \in Nat
  PROVE  IsFiniteSet(Below(f, n)) /\ Cardinality(Below(f, n)) \in Nat
<1>1. IsFiniteSet(1..n) /\ IsFiniteSet(Goroutines)
  BY FS_Interval, PoolAssumption
<1>2. IsFiniteSet(Goroutines \X (1..n))
  BY <1>1, FS_Product
<1>3. Below(f, n) \in SUBSET (Goroutines \X (1..n))
  BY DEF Below
<1>4. IsFiniteSet(Below(f, n))
  BY <1>2, <1>3, FS_Subset
<1>5. QED
  BY <1>4, FS_CardinalityType

LEMMA BelowMore ==
  ASSUME NEW n \in Nat, NEW f \in [Goroutines -> 0..n], NEW g \in Goroutines, f[g] < n
  PROVE  Cardinality(Below([f EXCEPT ![g] = f[g] + 1], n)) = Cardinality(Below(f, n)) + 1
<1>1. PICK x : x = <<g, f[g] + 1>>
  OBVIOUS
<1>2. x \notin Below(f, n)
  BY <1>1 DEF Below
<1>3. Below([f EXCEPT ![g] = f[g] + 1], n) = Below(f, n) \cup {x}
  <2>1. ASSUME NEW h \in Goroutines, NEW i \in 1..n
        PROVE  i <= [f EXCEPT ![g] = f[g] + 1][h] <=> i <= f[h] \/ (h = g /\ i = f[g] + 1)
    BY DEF Below
  <2>2. x \in Goroutines \X (1..n)
    BY <1>1
  <2>3. \A p \in Goroutines \X (1..n) :
           p[2] <= [f EXCEPT ![g] = f[g] + 1][p[1]] <=> p[2] <= f[p[1]] \/ p = x
    BY <1>1, <2>1
  <2>4. QED
    BY <2>2, <2>3 DEF Below
<1>4. QED
  BY <1>2, <1>3, BelowFinite, FS_AddElement

LEMMA BelowLess ==
  ASSUME NEW n \in Nat, NEW f \in [Goroutines -> 0..n], NEW g \in Goroutines, f[g] > 0
  PROVE  Cardinality(Below([f EXCEPT ![g] = f[g] - 1], n)) = Cardinality(Below(f, n)) - 1
<1>1. PICK h : h = [f EXCEPT ![g] = f[g] - 1]
  OBVIOUS
<1>2. h \in [Goroutines -> 0..n] /\ h[g] = f[g] - 1 /\ h[g] < n /\ f[g] = h[g] + 1
  BY <1>1
<1>3. [h EXCEPT ![g] = h[g] + 1] = f
  BY <1>1, <1>2
<1>4. Cardinality(Below(f, n)) = Cardinality(Below(h, n)) + 1
  BY <1>2, <1>3, BelowMore
<1>5. Cardinality(Below(h, n)) \in Nat
  BY BelowFinite
<1>6. QED
  BY <1>1, <1>4, <1>5

(* One goroutine's share.                                                  *)
LEMMA BelowOf ==
  ASSUME NEW n \in Nat, NEW f \in [Goroutines -> 0..n], NEW g \in Goroutines
  PROVE  /\ f[g] <= Cardinality(Below(f, n))
         /\ Cardinality(Below([f EXCEPT ![g] = 0], n)) = Cardinality(Below(f, n)) - f[g]
<1>1. PICK S : S = {g} \X (1..f[g])
  OBVIOUS
<1>2. IsFiniteSet(S) /\ Cardinality(S) = f[g]
  <2>1. IsFiniteSet({g}) /\ Cardinality({g}) = 1
    BY FS_Singleton
  <2>2. f[g] \in Nat
    OBVIOUS
  <2>3. IsFiniteSet(1..f[g]) /\ Cardinality(1..f[g]) = f[g]
    BY <2>2, FS_Interval
  <2>4. IsFiniteSet({g} \X (1..f[g]))
        /\ Cardinality({g} \X (1..f[g])) = Cardinality({g}) * Cardinality(1..f[g])
    BY <2>1, <2>3, FS_Product
  <2>5. QED
    BY <1>1, <2>1, <2>2, <2>3, <2>4
<1>3. S \in SUBSET Below(f, n)
  BY <1>1 DEF Below
<1>4. Below([f EXCEPT ![g] = 0], n) = Below(f, n) \ S
  <2>1. \A p \in Goroutines \X (1..n) :
           p[2] <= [f EXCEPT ![g] = 0][p[1]] <=> p[2] <= f[p[1]] /\ p \notin S
    BY <1>1
  <2>2. QED
    BY <2>1 DEF Below
<1>5. PICK B : B = Below(f, n)
  OBVIOUS
<1>6. IsFiniteSet(B)
  BY <1>5, BelowFinite
<1>7. B \cap S = S
  BY <1>3, <1>5
<1>8. Cardinality(B \ S) = Cardinality(B) - Cardinality(S)
  BY <1>6, <1>7, FS_Difference
<1>9. Cardinality(S) <= Cardinality(B)
  BY <1>3, <1>5, <1>6, FS_Subset
<1>10. QED
  BY <1>2, <1>4, <1>5, <1>8, <1>9

-----------------------------------------------------------------------------
(* What a step does to the pool and to the database.                       *)
PoolMoves ==
  \/ UNCHANGED pool
  \/ \E g \in Goroutines : Take(g) /\ busy[g] < 2
  \/ \E g \in Goroutines : Give(g) /\ busy[g] > 0

RowsMove ==
  \/ UNCHANGED database
  \/ Room /\ table' = table + 1 /\ UNCHANGED pending
  \/ table > 0 /\ table' = table - 1 /\ UNCHANGED pending
  \/ \E g \in Goroutines : /\ Room /\ UNCHANGED table
                           /\ pending' = [pending EXCEPT ![g] = @ + 1]
  \/ \E g \in Goroutines, n \in Nat :
       n <= pending[g] /\ table' = table + n /\ pending' = [pending EXCEPT ![g] = 0]

Flags ==
  /\ tx' \in [Goroutines -> Transactions]
  /\ own' \in [Goroutines -> BOOLEAN]

LEMMA BoundedStep ==
  ASSUME Bounded, PoolMoves, RowsMove, Flags
  PROVE  Bounded'
<1>1. /\ busy' \in [Goroutines -> 0..2]
      /\ free' \in Nat /\ free' + Cardinality(Below(busy', 2)) = PoolSize
  <2>1. PICK k \in Nat : k = Cardinality(Below(busy, 2))
    BY BelowFinite
  <2>2. free + k = PoolSize /\ free \in Nat /\ busy \in [Goroutines -> 0..2]
    BY <2>1 DEF Bounded, Held
  <2>3. CASE UNCHANGED pool
    BY <2>1, <2>2, <2>3 DEF pool
  <2>4. ASSUME NEW g \in Goroutines, Take(g), busy[g] < 2
        PROVE  /\ busy' \in [Goroutines -> 0..2]
               /\ free' \in Nat /\ free' + Cardinality(Below(busy', 2)) = PoolSize
    <3>1. free > 0 /\ free' = free - 1 /\ busy' = [busy EXCEPT ![g] = busy[g] + 1]
      BY <2>4 DEF Take
    <3>2. Cardinality(Below(busy', 2)) = k + 1
      BY <2>1, <2>2, <2>4, <3>1, BelowMore
    <3>3. QED
      BY <2>2, <2>4, <3>1, <3>2
  <2>5. ASSUME NEW g \in Goroutines, Give(g), busy[g] > 0
        PROVE  /\ busy' \in [Goroutines -> 0..2]
               /\ free' \in Nat /\ free' + Cardinality(Below(busy', 2)) = PoolSize
    <3>1. free' = free + 1 /\ busy' = [busy EXCEPT ![g] = busy[g] - 1]
      BY <2>5 DEF Give
    <3>2. Cardinality(Below(busy', 2)) = k - 1
      BY <2>1, <2>2, <2>5, <3>1, BelowLess
    <3>3. QED
      BY <2>2, <2>5, <3>1, <3>2
  <2>6. QED
    BY <2>3, <2>4, <2>5 DEF PoolMoves
<1>2. /\ table' \in Nat /\ pending' \in [Goroutines -> 0..MaxRows]
      /\ table' + Cardinality(Below(pending', MaxRows)) <= MaxRows
  <2>1. PICK k \in Nat : k = Cardinality(Below(pending, MaxRows))
    BY BelowFinite, BoundsAssumption
  <2>2. /\ table \in Nat /\ pending \in [Goroutines -> 0..MaxRows] /\ table + k <= MaxRows
        /\ MaxRows \in Nat
    BY <2>1, BoundsAssumption DEF Bounded, Below, Uncommitted
  <2>3. Room => table + k < MaxRows
    BY <2>1 DEF Room, Below, Uncommitted
  <2>4. CASE UNCHANGED pending /\ table' \in Nat /\ table' + k <= MaxRows
    BY <2>1, <2>2, <2>4
  <2>5. ASSUME NEW g \in Goroutines, Room, UNCHANGED table,
               pending' = [pending EXCEPT ![g] = @ + 1]
        PROVE  /\ table' \in Nat /\ pending' \in [Goroutines -> 0..MaxRows]
               /\ table' + Cardinality(Below(pending', MaxRows)) <= MaxRows
    <3>1. pending[g] <= k
      BY <2>1, <2>2, BelowOf
    <3>2. pending[g] < MaxRows
      BY <2>2, <2>3, <2>5, <3>1
    <3>3. Cardinality(Below(pending', MaxRows)) = k + 1
      BY <2>1, <2>2, <2>5, <3>2, BelowMore
    <3>4. QED
      BY <2>2, <2>3, <2>5, <3>2, <3>3
  <2>6. ASSUME NEW g \in Goroutines, NEW n \in Nat, n <= pending[g], table' = table + n,
               pending' = [pending EXCEPT ![g] = 0]
        PROVE  /\ table' \in Nat /\ pending' \in [Goroutines -> 0..MaxRows]
               /\ table' + Cardinality(Below(pending', MaxRows)) <= MaxRows
    <3>1. pending[g] <= k /\ Cardinality(Below(pending', MaxRows)) = k - pending[g]
      BY <2>1, <2>2, <2>6, BelowOf
    <3>2. QED
      BY <2>2, <2>6, <3>1
  <2>7. QED
    <3>1. CASE UNCHANGED database
      BY <2>2, <2>4, <3>1 DEF database
    <3>2. CASE Room /\ table' = table + 1 /\ UNCHANGED pending
      BY <2>2, <2>3, <2>4, <3>2
    <3>3. CASE table > 0 /\ table' = table - 1 /\ UNCHANGED pending
      BY <2>2, <2>4, <3>3
    <3>4. QED
      BY <2>5, <2>6, <3>1, <3>2, <3>3 DEF RowsMove
<1>3. QED
  BY <1>1, <1>2 DEF Bounded, Flags, Held, Uncommitted, Below

Moves == PoolMoves /\ RowsMove /\ Flags

(* A step that leaves pool, rows and flags alone, or sets a flag of g.     *)
LEMMA FlagMoves ==
  ASSUME Bounded, NEW g \in Goroutines,
         UNCHANGED tx \/ \E which \in Transactions : tx' = [tx EXCEPT ![g] = which],
         UNCHANGED own \/ \E open \in BOOLEAN : own' = [own EXCEPT ![g] = open]
  PROVE  Flags
BY DEF Bounded, Flags

LEMMA CloseRowsMoves ==
  ASSUME IInv, Bounded, NEW g \in Goroutines, at[g] = "read", CloseRows(g)
  PROVE  PoolMoves
<1>1. CASE OnTx(g)
  BY <1>1 DEF CloseRows, PoolMoves
<1>2. CASE ~OnTx(g)
  <2>1. busy[g] = OfTx(g) + 1 /\ OfTx(g) \in {0, 1}
    BY <1>2 DEF IInv, Keeps, OfRows, OfTx
  <2>2. busy[g] > 0
    BY <2>1
  <2>3. QED
    BY <1>2, <2>2 DEF CloseRows, PoolMoves
<1>3. QED
  BY <1>1, <1>2

LEMMA ReadMoves ==
  ASSUME IInv, Bounded, NEW g \in Goroutines,
         \/ ReadFails(g) \/ DecodeFails(g) \/ ReadCount(g) \/ CountPanics(g)
         \/ ReadPage(g) \/ ReadRows(g)
  PROVE  Moves
<1>1. at[g] = "read" /\ CloseRows(g) /\ UNCHANGED <<tx, own, database>>
  BY DEF ReadFails, DecodeFails, ReadCount, CountPanics, ReadPage, ReadRows, Fills, Go
<1>2. QED
  BY <1>1, CloseRowsMoves, FlagMoves DEF Moves, RowsMove

LEMMA StartMoves ==
  ASSUME IInv, Bounded, NEW g \in Goroutines,
         \/ Enter(g) \/ Begin(g) \/ BeginFails(g) \/ Commit(g) \/ Rollback(g)
  PROVE  Moves
<1>1. CASE Enter(g) \/ BeginFails(g)
  BY <1>1, FlagMoves DEF Enter, BeginFails, resources, Moves, PoolMoves, RowsMove
<1>2. CASE Begin(g)
  <2>1. busy[g] = 0 + 0
    BY <1>2, PlacesDiffer DEF Begin, Go, IInv, Keeps, OfTx, OfRows
  <2>2. Take(g) /\ busy[g] < 2
    BY <1>2, <2>1 DEF Begin
  <2>3. Flags
    BY <1>2, FlagMoves DEF Begin, Transactions
  <2>4. QED
    BY <1>2, <2>2, <2>3 DEF Begin, Moves, PoolMoves, RowsMove
<1>3. ASSUME NEW n \in Nat, n <= pending[g], End(g, n) PROVE Moves
  <2>1. busy[g] = 1 + 0
    BY <1>3, PlacesDiffer DEF End, IInv, Keeps, OfTx, OfRows
  <2>2. Give(g) /\ busy[g] > 0
    BY <1>3, <2>1 DEF End
  <2>3. Flags
    BY <1>3, FlagMoves DEF End, Transactions
  <2>4. QED
    BY <1>3, <2>2, <2>3 DEF End, Moves, PoolMoves, RowsMove
<1>4. pending[g] \in Nat
  BY BoundsAssumption DEF Bounded
<1>5. QED
  BY <1>1, <1>2, <1>3, <1>4 DEF Commit, Rollback

LEMMA CallMoves ==
  ASSUME IInv, Bounded, NEW g \in Goroutines, NEW c, Call(g, c) \/ CallFails(g, c)
  PROVE  Moves
<1>1. UNCHANGED <<tx, pool, database>>
  BY DEF Call, CallFails, resources
<1>2. UNCHANGED own \/ \E open \in BOOLEAN : own' = [own EXCEPT ![g] = open]
  BY DEF Call, CallFails, Makes, resources
<1>3. QED
  BY <1>1, <1>2, FlagMoves DEF Moves, PoolMoves, RowsMove

LEMMA QueryMoves ==
  ASSUME IInv, Bounded, NEW g \in Goroutines, Query(g)
  PROVE  Moves
<1>1. UNCHANGED <<tx, own, database>>
  BY DEF Query
<1>2. PoolMoves
  <2>1. busy[g] = OfTx(g) + 0 /\ OfTx(g) \in {0, 1}
    BY DEF Query, Go, IInv, Keeps, OfTx, OfRows
  <2>2. busy[g] < 2
    BY <2>1
  <2>3. QED
    BY <2>2 DEF Query, PoolMoves
<1>3. QED
  BY <1>1, <1>2, FlagMoves DEF Moves, RowsMove

LEMMA ExecMoves ==
  ASSUME Bounded, NEW g \in Goroutines, Exec(g)
  PROVE  Moves
<1>1. UNCHANGED <<tx, own, pool>>
  BY DEF Exec
<1>2. RowsMove
  BY DEF Exec, RowsMove
<1>3. QED
  BY <1>1, <1>2, FlagMoves DEF Moves, PoolMoves

LEMMA OtherMoves ==
  ASSUME Bounded, NEW g \in Goroutines,
         \/ Build(g) \/ BuildFails(g) \/ AssertPanics(g)
         \/ Prepare(g) \/ PrepareFails(g) \/ ExecuteFails(g) \/ Return(g) \/ Leave(g)
  PROVE  Moves
<1>1. UNCHANGED <<tx, pool, database>>
  BY DEF Build, BuildFails, AssertPanics, Prepare, PrepareFails, ExecuteFails, Return, Leave,
         resources
<1>2. Flags
  BY FlagMoves
  DEF Build, BuildFails, AssertPanics, Prepare, PrepareFails, ExecuteFails, Return, Leave,
      resources
<1>3. QED
  BY <1>1, <1>2 DEF Moves, PoolMoves, RowsMove

LEMMA BoundedInit == Init => Bounded
<1> SUFFICES ASSUME Init PROVE Bounded
  OBVIOUS
<1>1. Held = {} /\ Uncommitted = {}
  BY BoundsAssumption DEF Init, Held, Below, Uncommitted
<1>2. Cardinality(Held) = 0 /\ Cardinality(Uncommitted) = 0
  BY <1>1, FS_EmptySet
<1>3. QED
  BY <1>2, BoundsAssumption, PoolAssumption DEF Init, Bounded, Transactions

LEMMA BoundedNext == IInv /\ Bounded /\ [Next]_vars => Bounded'
<1> SUFFICES ASSUME IInv, Bounded, [Next]_vars PROVE Moves
  BY BoundedStep DEF Moves
<1>1. CASE UNCHANGED vars
  <2>1. UNCHANGED <<tx, own>> /\ UNCHANGED pool /\ UNCHANGED database
    BY <1>1, Zenon DEF vars, pool, database
  <2>2. Flags
    BY <2>1 DEF Flags, Bounded
  <2>3. QED
    BY <2>1, <2>2 DEF Moves, PoolMoves, RowsMove
<1>2. CASE OtherProgram
  BY <1>2 DEF OtherProgram, resources, Moves, PoolMoves, RowsMove, database, Flags, Bounded
<1>3. ASSUME NEW g \in Goroutines,
             \/ Enter(g) \/ Commit(g) \/ Rollback(g)
             \/ \E c \in Calls[g] : Call(g, c) \/ CallFails(g, c)
             \/ Continue(g) \/ Leave(g)
      PROVE  Moves
  <2>1. CASE Continue(g)
    BY <2>1, StartMoves, OtherMoves, QueryMoves, ExecMoves, ReadMoves DEF Continue
  <2>2. QED
    BY <1>3, <2>1, StartMoves, CallMoves, OtherMoves
<1>4. QED
  BY <1>1, <1>2, <1>3 DEF Next

(* The variables have their types; the pool never has more connections     *)
(* than it was given, and no goroutine ever has three (LocalSession.go:    *)
(* 353-403).                                                               *)
THEOREM MapperTyped == Spec => []TypeOK
<1>1. AInv /\ SInv /\ Bounded => TypeOK
  <2>1. SUFFICES ASSUME AInv, SInv, Bounded PROVE TypeOK
    OBVIOUS
  <2>2. at \in [Goroutines -> Places]
    BY <2>1 DEF AInv, IInv, Arrays, ByGoroutine, Keeps
  <2>3. \A g \in Goroutines : at[g] \in Within \cup {"done"} => task[g] \in Tasks
    BY <2>1 DEF AInv, Fits
  <2>4. PICK k \in Nat : k = Cardinality(Held)
    BY BelowFinite DEF Held
  <2>5. PICK u \in Nat : u = Cardinality(Uncommitted)
    BY BelowFinite, BoundsAssumption DEF Uncommitted, Below
  <2>6. free \in 0..PoolSize
    BY <2>1, <2>4, PoolAssumption DEF Bounded
  <2>7. table \in 0..MaxRows
    BY <2>1, <2>5, BoundsAssumption DEF Bounded
  <2>8. /\ stmts \in [Goroutines -> [Homes -> Nat]] /\ failed \in [Goroutines -> [Homes -> Nat]]
        /\ \A g \in Goroutines : failed[g]["pool"] + failed[g]["tx"] <= MaxFailed + 1
    BY <2>1 DEF SInv, ByGoroutine, Opens, Unused
  <2>9. QED
    BY <2>1, <2>2, <2>3, <2>6, <2>7, <2>8 DEF Bounded, TypeOK
<1>2. AInv /\ SInv /\ Bounded /\ [Next]_vars => (AInv /\ SInv /\ Bounded)'
  BY AnswersStep, StatementsNext, BoundedNext DEF AInv
<1>3. Spec => Init /\ [][Next]_vars
  BY PTL DEF Spec
<1>4. QED
  BY <1>1, <1>2, <1>3, AnswersInit, StatementsInit, BoundedInit, PTL

(* No connection is ever lost: when all calls and transactions are over,   *)
(* however they ended, the pool has all its connections again              *)
(* (GoMybatis.go:390-396, LocalSession.go:353-403).                        *)
THEOREM PoolRefills ==
  Spec => []((\A g \in Goroutines : at[g] \in {Idle, "done"} /\ tx[g] = "none") => free = PoolSize)
<1> DEFINE Over == \A g \in Goroutines : at[g] \in {Idle, "done"} /\ tx[g] = "none"
<1>1. IInv /\ Bounded /\ Over => free = PoolSize
  <2>1. SUFFICES ASSUME IInv, Bounded, Over PROVE free = PoolSize
    OBVIOUS
  <2>2. ASSUME NEW g \in Goroutines PROVE busy[g] = 0
    <3>1. busy[g] = 0 + 0
      BY <2>1, PlacesDiffer DEF IInv, Keeps, OfTx, OfRows
    <3>2. QED
      BY <3>1
  <2>3. Held = {}
    BY <2>2 DEF Held, Below
  <2>4. Cardinality(Held) = 0
    BY <2>3, FS_EmptySet
  <2>5. QED
    BY <2>1, <2>4 DEF Bounded
<1>2. IInv /\ Bounded /\ [Next]_vars => (IInv /\ Bounded)'
  BY Inductive, BoundedNext
<1>3. Spec => Init /\ [][Next]_vars
  BY PTL DEF Spec
<1>4. QED
  BY <1>1, <1>2, <1>3, Initially, BoundedInit, PTL
===============================================================================
