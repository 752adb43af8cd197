-------------------------------- MODULE Mapper --------------------------------
(***************************************************************************)
(* Calls of mapper functions (exeMethodByXml in src/GoMybatis.go) by       *)
(* several goroutines over one pool of connections (database/sql), with    *)
(* the prepared statements a session makes of them (QueryPrepare and       *)
(* ExecPrepare in src/LocalSession.go) and paging (src/plugin/page).       *)
(*                                                                         *)
(* A goroutine may be in a transaction, which keeps one connection: of the *)
(* session in its slot of src/GoroutineSessionMap.go (AopService.tla has   *)
(* how it gets there) or of a session of its own that it gives to mapper   *)
(* functions as an argument.  Every step at which the database or the pool    *)
(* answers is an action, so other goroutines and programs act between the  *)
(* statements of a call.  The table is a number of rows; what is in a row  *)
(* is Decode.tla's.  The database shows a statement what is committed when *)
(* it is executed, and a transaction its own rows besides.                 *)
(***************************************************************************)
EXTENDS Integers, FiniteSets

CONSTANTS Goroutines,
          Calls,        \* Calls[g]: the calls goroutine g makes
          PoolSize,     \* the pool's connections (SetMaxOpenConns)
          MaxRows,      \* bound: rows in the table, uncommitted ones included
          MaxDrift,     \* bound: history counts changes of the table up to this
          MaxFailed     \* bound: a goroutine calls no more when more of its
                        \* statements than this have failed and are still open

(* A session argument, if there is one, is used even if it is closed; that *)
(* of a custom transaction is in that transaction.                         *)
CallsTyped == [kind    : {"list", "one", "page", "exec"},
               num     : Int, size : Int,                  \* the page argument
               session : {"default", "argument", "custom", "closed"},
               integer : BOOLEAN]                          \* an exec's result type

ASSUME CallsAssumption == Calls \in [Goroutines -> SUBSET CallsTyped]
ASSUME BoundsAssumption == MaxRows \in Nat /\ MaxDrift \in Nat /\ MaxFailed \in Nat
(* A goroutine in a transaction that is given another session asks for a   *)
(* second connection while it keeps the first.                             *)
ASSUME PoolAssumption == IsFiniteSet(Goroutines) /\ PoolSize \in Nat /\
                         PoolSize > Cardinality(Goroutines)

VARIABLES
  at,        \* at[g]: the place in the call that goroutine g has reached
  task,      \* task[g]: the call and its local variables
  tx,        \* tx[g]: what is in g's transaction, if it has one
  own,       \* own[g]: the session made for the call is open
  free,      \* the pool: the connections nobody has
  busy,      \* busy[g]: the connections g has
  stmts,     \* stmts[g]: the statements g has prepared that are open
  failed,    \* history: failed[g]: those of them that failed
  table,     \* the committed rows
  pending    \* pending[g]: the rows g's transaction has added

vars == <<at, task, tx, own, free, busy, stmts, failed, table, pending>>
database == <<table, pending>>
pool == <<free, busy>>
statements == <<stmts, failed>>
resources == <<tx, own, pool, statements>>

Idle == "idle"
Places == {Idle, "begin",                                  \* Session.Begin
           "build", "prepare", "execute", "read", "return", "done"}
Within == {"build", "prepare", "execute", "read", "return"}

(* The session of g's slot, or one g gives as an argument.                 *)
Transactions == {"none", "slot", "custom"}

(* Statements that were prepared on the pool or on the transaction.        *)
Homes == {"pool", "tx"}
NoStatements == [h \in Homes |-> 0]

NoCount == -1
Untouched == [filled |-> FALSE, auto |-> FALSE, total |-> 0, pages |-> 0, display |-> 0]
Results == [filled : BOOLEAN, auto : BOOLEAN, total : Nat, pages : Int, display : Nat]

Tasks == [call    : CallsTyped,
          total   : Nat \cup {NoCount},     \* rowCount, once the count is read
          found   : Nat,                    \* what the statement answers
          result  : Results,                \* the value the function returns
          outcome : {"none", "ok", "error", "panic"},
          drift   : 0..MaxDrift,            \* history: changes since the count
          cut     : BOOLEAN]                \* history: rows were lost on the way

TypeOK ==
  /\ at \in [Goroutines -> Places]
  /\ \A g \in Goroutines : at[g] \in Within \cup {"done"} => task[g] \in Tasks
  /\ tx \in [Goroutines -> Transactions]
  /\ own \in [Goroutines -> BOOLEAN]
  /\ free \in 0..PoolSize
  /\ busy \in [Goroutines -> 0..2]
  /\ stmts \in [Goroutines -> [Homes -> Nat]]
  /\ failed \in [Goroutines -> [Homes -> Nat]]
  /\ \A g \in Goroutines : failed[g]["pool"] + failed[g]["tx"] <= MaxFailed + 1
  /\ table \in 0..MaxRows
  /\ pending \in [Goroutines -> 0..MaxRows]

-----------------------------------------------------------------------------
NoTask == [outcome |-> "none"]

Init ==
  /\ at = [g \in Goroutines |-> Idle]
  /\ task = [g \in Goroutines |-> NoTask]
  /\ tx = [g \in Goroutines |-> "none"]
  /\ own = [g \in Goroutines |-> FALSE]
  /\ free = PoolSize
  /\ busy = [g \in Goroutines |-> 0]
  /\ stmts = [g \in Goroutines |-> NoStatements]
  /\ failed = [g \in Goroutines |-> NoStatements]
  /\ table = 0
  /\ pending = [g \in Goroutines |-> 0]

Least(a, b) == IF a < b THEN a ELSE b

(* The rows that transactions have added, under the bound.                 *)
Uncommitted == {p \in Goroutines \X (1..MaxRows) : p[2] <= pending[p[1]]}
Room == table + Cardinality(Uncommitted) < MaxRows

Go(g, from, to) == at[g] = from /\ at' = [at EXCEPT ![g] = to]

Started(c) == [call |-> c, total |-> NoCount, found |-> 0, result |-> Untouched,
               outcome |-> "none", drift |-> 0, cut |-> FALSE]

(* The call leaves with an error or a panic, from anywhere.                *)
Leaves(g, outcome) ==
  task' = [task EXCEPT ![g] = [Started(task[g].call) EXCEPT !.outcome = outcome]]

Paging(g) == task[g].call.kind = "page"
Counting(g) == Paging(g) /\ task[g].total = NoCount

(* findArgSession, then the goroutine's session, then a new one.           *)
OnTx(g) == \/ tx[g] = "slot" /\ task[g].call.session = "default"
           \/ tx[g] = "custom" /\ task[g].call.session = "custom"
Home(g) == IF OnTx(g) THEN "tx" ELSE "pool"

-----------------------------------------------------------------------------
(* A transaction keeps its connection until it ends.  A goroutine has one  *)
(* at a time.                                                              *)
Enter(g) ==
  /\ tx[g] = "none"
  /\ Go(g, Idle, "begin")
  /\ UNCHANGED <<task, resources, database>>

Take(g) == free > 0 /\ free' = free - 1 /\ busy' = [busy EXCEPT ![g] = @ + 1]
Give(g) == free' = free + 1 /\ busy' = [busy EXCEPT ![g] = @ - 1]

Begin(g) ==
  /\ Go(g, "begin", Idle)
  /\ \E which \in {"slot", "custom"} : tx' = [tx EXCEPT ![g] = which]
  /\ Take(g)
  /\ UNCHANGED <<task, own, statements, database>>

BeginFails(g) ==
  /\ free > 0
  /\ Go(g, "begin", Idle)
  /\ UNCHANGED <<task, resources, database>>

(* Calls that have counted the rows and not yet read the page.             *)
BetweenQueries(h) == \/ at[h] = "read" /\ Counting(h)
                     \/ at[h] \in {"prepare", "execute"} /\ Paging(h) /\ ~Counting(h)
Noticed(n) ==
  [h \in Goroutines |->
     IF BetweenQueries(h) THEN [task[h] EXCEPT !.drift = Least(@ + n, MaxDrift)]
     ELSE task[h]]

(* database/sql closes a transaction's statements with it.                 *)
End(g, committed) ==
  /\ tx[g] # "none" /\ at[g] = Idle
  /\ tx' = [tx EXCEPT ![g] = "none"]
  /\ Give(g)
  /\ stmts' = [stmts EXCEPT ![g]["tx"] = 0]
  /\ failed' = [failed EXCEPT ![g]["tx"] = 0]
  /\ pending' = [pending EXCEPT ![g] = 0]
  /\ table' = table + committed
  /\ task' = Noticed(committed)
  /\ UNCHANGED <<at, own>>

Commit(g) == End(g, pending[g])
Rollback(g) == End(g, 0)

(* Other programs write to the table, or only read it: the database goes   *)
(* on whether or not the goroutines do.                                    *)
OtherProgram ==
  /\ \/ /\ Room
        /\ table' = table + 1 /\ task' = Noticed(1)
     \/ table > 0 /\ table' = table - 1 /\ task' = Noticed(1)
     \/ UNCHANGED <<table, task>>
  /\ UNCHANGED <<at, resources, pending>>

-----------------------------------------------------------------------------
(* The mapper function is called.  A session of its own is made only for a *)
(* call that has none.                                                     *)
Called(g, c) ==
  /\ c.session = "custom" => tx[g] = "custom"
  /\ failed[g]["pool"] + failed[g]["tx"] <= MaxFailed

Makes(g, c) == c.session = "default" /\ tx[g] # "slot"

Call(g, c) ==
  /\ Go(g, Idle, "build")
  /\ Called(g, c)
  /\ task' = [task EXCEPT ![g] = Started(c)]
  /\ own' = [own EXCEPT ![g] = Makes(g, c)]
  /\ UNCHANGED <<tx, pool, statements, database>>

(* No data source for the mapper: NewSession answers an error.             *)
CallFails(g, c) ==
  /\ Go(g, Idle, "return")
  /\ Called(g, c) /\ Makes(g, c)
  /\ task' = [task EXCEPT ![g] = [Started(c) EXCEPT !.outcome = "error"]]
  /\ UNCHANGED <<resources, database>>

(* page.Assert.                                                            *)
Asserted(c) == c.num > 0 /\ c.size > 0

(* StmtConvert and buildSql; then the page argument, if one is used.       *)
Build(g) ==
  /\ Go(g, "build", "prepare")
  /\ Paging(g) => Asserted(task[g].call)
  /\ UNCHANGED <<task, resources, database>>

BuildFails(g) ==
  /\ Go(g, "build", "return")
  /\ Leaves(g, "error")
  /\ UNCHANGED <<resources, database>>

AssertPanics(g) ==
  /\ Go(g, "build", "return")
  /\ Paging(g) /\ ~Asserted(task[g].call)
  /\ Leaves(g, "panic")
  /\ UNCHANGED <<resources, database>>

-----------------------------------------------------------------------------
(* Outside a transaction Prepare takes a connection and gives it back, and *)
(* so does an exec; a query keeps it until its rows are closed.            *)
Connected(g) == OnTx(g) \/ free > 0

Prepare(g) ==
  /\ Go(g, "prepare", "execute")
  /\ task[g].call.session # "closed" /\ Connected(g)
  /\ stmts' = [stmts EXCEPT ![g][Home(g)] = @ + 1]
  /\ UNCHANGED <<task, tx, own, pool, failed, database>>

(* The session is closed, or the database refuses.                         *)
PrepareFails(g) ==
  /\ Go(g, "prepare", "return")
  /\ task[g].call.session = "closed" \/ Connected(g)
  /\ Leaves(g, "error")
  /\ UNCHANGED <<resources, database>>

(* The statement fails and stays open: its Close is deferred only after    *)
(* the error has been returned.                                            *)
ExecuteFails(g) ==
  /\ Go(g, "execute", "return")
  /\ Connected(g)
  /\ Leaves(g, "error")
  /\ failed' = [failed EXCEPT ![g][Home(g)] = @ + 1]
  /\ UNCHANGED <<tx, own, pool, stmts, database>>

CloseStmt(g) == stmts' = [stmts EXCEPT ![g][Home(g)] = @ - 1] /\ UNCHANGED failed

Visible(g) == table + IF OnTx(g) THEN pending[g] ELSE 0

OffsetFromZero(c) == c.num * c.size   \* mutant: pages counted from zero

GetOffset(c) == (c.num - 1) * c.size
GetLimit(c) == c.size

(* What LIMIT and OFFSET leave of n rows.                                  *)
Limited(n, c) == IF n > GetOffset(c) THEN Least(n - GetOffset(c), GetLimit(c)) ELSE 0

Query(g) ==
  /\ Go(g, "execute", "read")
  /\ task[g].call.kind # "exec" /\ Connected(g)
  /\ IF OnTx(g) THEN UNCHANGED pool ELSE Take(g)
  /\ \E n \in IF Paging(g) /\ ~Counting(g) THEN {Limited(Visible(g), task[g].call)}
              ELSE {Visible(g)} :
       task' = [task EXCEPT ![g].found = n]
  /\ UNCHANGED <<tx, own, statements, database>>

(* An insert.  The row is written when the result turns out to be of a     *)
(* type that cannot hold the number of rows: that panics.                  *)
Exec(g) ==
  /\ Go(g, "execute", "return")
  /\ task[g].call.kind = "exec" /\ Connected(g)
  /\ Room
  /\ IF OnTx(g) THEN pending' = [pending EXCEPT ![g] = @ + 1] /\ UNCHANGED table
                ELSE table' = table + 1 /\ UNCHANGED pending
  /\ task' = [(IF OnTx(g) THEN task ELSE Noticed(1)) EXCEPT
                ![g].outcome = IF task[g].call.integer THEN "ok" ELSE "panic",
                ![g].result  = IF task[g].call.integer
                               THEN [Untouched EXCEPT !.filled = TRUE, !.auto = TRUE,
                                                      !.display = 1]
                               ELSE Untouched]
  /\ CloseStmt(g)
  /\ UNCHANGED <<tx, own, pool>>

-----------------------------------------------------------------------------
RowsLeftOpen(g) ==   \* mutant: the statement is closed and its rows are not
  UNCHANGED pool /\ CloseStmt(g)

StmtLeftOpen(g) ==   \* mutant: the rows are closed and their statement is not
  (IF OnTx(g) THEN UNCHANGED pool ELSE Give(g)) /\ UNCHANGED statements

GivesTxBack(g) ==   \* mutant: a transaction's connection goes back to the pool
  Give(g) /\ CloseStmt(g)

(* The deferred rows.Close and stmt.Close.                                 *)
CloseRows(g) ==
  /\ IF OnTx(g) THEN UNCHANGED pool ELSE Give(g)
  /\ CloseStmt(g)

(* rows2maps does not look at rows.Err: when the connection is lost the    *)
(* rows simply end.                                                        *)
Arrives(g, n, cut) == IF cut THEN n < task[g].found ELSE n = task[g].found

(* A row cannot be read, or there are more rows than the one asked for.    *)
ReadFails(g) ==
  /\ Go(g, "read", "return")
  /\ Leaves(g, "error")
  /\ CloseRows(g)
  /\ UNCHANGED <<tx, own, database>>

(* A value does not fit its field: json.Unmarshal has filled others, for a *)
(* page in a list that is then dropped.                                    *)
DecodeFails(g) ==
  /\ Go(g, "read", "return")
  /\ task[g].call.kind \in {"list", "one"} /\ task[g].found > 0
  /\ task' = [task EXCEPT ![g] = [Started(@.call) EXCEPT
                !.outcome = "error", !.result.filled = TRUE]]
  /\ CloseRows(g)
  /\ UNCHANGED <<tx, own, database>>

(* The count is one row.                                                   *)
ReadCount(g) ==
  /\ Go(g, "read", "prepare")
  /\ Counting(g)
  /\ task' = [task EXCEPT ![g].total = task[g].found]
  /\ CloseRows(g)
  /\ UNCHANGED <<tx, own, database>>

CountPanics(g) ==
  /\ Go(g, "read", "return")
  /\ Counting(g)
  /\ Leaves(g, "panic")
  /\ CloseRows(g)
  /\ UNCHANGED <<tx, own, database>>

(* Ceil(total / size).                                                     *)
PageCount(total, size) == (total + size - 1) \div size

Fills(g, n, cut, result) ==
  /\ task' = [task EXCEPT ![g] = [Started(@.call) EXCEPT
                !.outcome = "ok", !.result = result, !.drift = task[g].drift, !.cut = cut]]
  /\ Go(g, "read", "return")
  /\ CloseRows(g)
  /\ UNCHANGED <<tx, own, database>>

ReadPage(g) ==
  /\ at[g] = "read"
  /\ Paging(g) /\ ~Counting(g)
  /\ \E n \in 0..MaxRows, cut \in BOOLEAN :
       /\ Arrives(g, n, cut)
       /\ Fills(g, n, cut, [filled |-> TRUE, auto |-> FALSE, total |-> task[g].total,
                            pages |-> PageCount(task[g].total, task[g].call.size),
                            display |-> n])

(* A list takes all rows; without rows a result is left as it is.          *)
ReadRows(g) ==
  /\ at[g] = "read"
  /\ task[g].call.kind \in {"list", "one"}
  /\ \E n \in 0..MaxRows, cut \in BOOLEAN :
       /\ Arrives(g, n, cut)
       /\ task[g].call.kind = "one" => n <= 1
       /\ Fills(g, n, cut, [Untouched EXCEPT !.filled = n > 0, !.display = n])

-----------------------------------------------------------------------------
(* The deferred session.Close() of the call's own session.  An error is    *)
(* returned, or thrown if IsPanicOnError.                                  *)
Return(g) ==
  /\ Go(g, "return", "done")
  /\ own' = [own EXCEPT ![g] = FALSE]
  /\ UNCHANGED <<task, tx, pool, statements, database>>

(* The caller goes on.                                                     *)
Leave(g) ==
  /\ Go(g, "done", Idle)
  /\ task' = [task EXCEPT ![g] = NoTask]
  /\ UNCHANGED <<resources, database>>

-----------------------------------------------------------------------------
(* What goes on once it has been started.                                  *)
Continue(g) ==
  \/ Begin(g) \/ BeginFails(g)
  \/ Build(g) \/ BuildFails(g) \/ AssertPanics(g)
  \/ Prepare(g) \/ PrepareFails(g)
  \/ Query(g) \/ Exec(g) \/ ExecuteFails(g)
  \/ ReadFails(g) \/ DecodeFails(g) \/ ReadCount(g) \/ CountPanics(g) \/ ReadPage(g) \/ ReadRows(g)
  \/ Return(g)

Next ==
  \/ \E g \in Goroutines :
       \/ Enter(g) \/ Commit(g) \/ Rollback(g)
       \/ \E c \in Calls[g] : Call(g, c) \/ CallFails(g, c)
       \/ Continue(g) \/ Leave(g)
  \/ OtherProgram

(* A goroutine runs as long as it can; database/sql gives a connection     *)
(* that is returned to one of those waiting for it.                        *)
Spec == Init /\ [][Next]_vars /\ \A g \in Goroutines : SF_vars(Continue(g))

-----------------------------------------------------------------------------
(* The rows among n that are on page num, when each page takes size rows.  *)
OnPage(num, size, n) == Cardinality({i \in 1..n : (i + size - 1) \div size = num})

(* A page is answered whole or not at all, and so is a number of rows.     *)
(* The count and the page are two statements and the table may change      *)
(* between them, but the page never strays from what the count promises by *)
(* more than the rows that came or went meanwhile, unless rows were lost   *)
(* with the connection (GoMybatis.go:409-466, IPageArg.go:20-27).          *)
WholeAnswers ==
  \A g \in Goroutines : at[g] = "done" =>
    LET t == task[g]
        promised == OnPage(t.call.num, t.call.size, t.result.total)
    IN IF t.outcome # "ok"
       THEN t.result.filled => t.outcome = "error" /\ t.call.kind \in {"list", "one"}
       ELSE t.call.kind = "page" =>
              /\ t.result.pages * t.call.size \in t.result.total..t.result.total + t.call.size - 1
              /\ ~t.cut /\ t.drift < MaxDrift =>
                   t.result.display \in promised - t.drift .. promised + t.drift

(* However a call ends - with an answer, an error or a panic, on its own   *)
(* session, its caller's or a transaction's - its session is closed and    *)
(* only a transaction has a connection.  Of the statements it prepared     *)
(* those are open, call after call, that failed when they were executed,   *)
(* and no others: a transaction's until it ends, any other for good        *)
(* (GoMybatis.go:390-396, LocalSession.go:353-438).                        *)
NothingKept ==
  \A g \in Goroutines : at[g] \in {Idle, "done"} =>
    /\ ~own[g]
    /\ busy[g] = IF tx[g] = "none" THEN 0 ELSE 1
    /\ stmts[g] = failed[g]

(* Every call returns and every transaction begins or is refused, however  *)
(* many goroutines ask for connections, and though one in a transaction    *)
(* may ask for a second one while it keeps the first (PoolAssumption).     *)
Returns ==
  \A g \in Goroutines : at[g] \in Within \cup {"begin"} ~> at[g] \in {Idle, "done"}
===============================================================================
