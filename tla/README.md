# GoMybatis in TLA+

This directory holds a model of GoMybatis (`src/`), a Go library that maps
service and mapper interfaces to SQL: its transactions, its sessions and
connections, the statements it renders, the templates and expressions it
renders them from, the results it decodes and the ids it hands out, under every
order of calls and every failure. TLC checks the modules on small instances;
TLAPS proves what matters most for all of them.

    tlc -config session_any.cfg MCLocalSession.tla    # check one instance
    tlapm LocalSessionProofs.tla                      # check the proofs of a module

## 1. The system

A *service* is a struct of function fields with `tx` and `rollback` tags. A
*mapper* is a struct of function fields bound to SQL templates in XML. An
*engine* owns the data sources, the expression engine, the SQL builder and the
session factory. A call goes

    service method -> AopProxyService (begin / commit / rollback)
        -> body -> mapper method -> exeMethodByXml
             -> session: the argument, else the goroutine's, else a new one
             -> SqlBuilder renders the AST nodes with a StmtIndexConvert
             -> session.QueryPrepare / ExecPrepare -> result decoder

| component | source | state | operations | hard behaviour | what makes it correct |
|---|---|---|---|---|---|
| LocalSession | `LocalSession.go`, `tx/` | stack of (transaction, propagation), child session, closed flag | Begin, Commit, Rollback, Close, Query, Exec and their prepared forms, LastPROPAGATION | nesting of eight propagations, errors of the database at any step, an uncertain Commit, Close with brackets open | one unit of work per outermost bracket; a transaction ends once; nothing stays open; arguments arrive |
| transaction proxy | `TransactionAspectSupport.go` | the goroutine's slot, the call stack | a proxied call: find or create the session, begin, body, commit or rollback, close | errors and panics at every depth; who owns the session | each bracket is closed exactly once on each path; the tags mean what the documentation says |
| goroutine session map | `GoroutineSessionMap.go` | one package-wide goroutine-local slot | Put, Get, Delete | shared by every engine of the process | the slot holds the session of the calls in progress and nothing else |
| session factory | `SessionFactory.go`, `SessionFactorySession.go` | concurrent map of sessions by id | NewSession, GetSession, SetSession, Close, CloseAll | closes racing each other and SetSession | no session that is open is lost |
| engine and router | `GoMybatisEngine.go`, `GoMybatisDataSourceRouter.go` | maps of pools and of drivers, replaceable parts | NewSession, SetDB, Open, Set... | plain maps read and written by several goroutines; map order decides the default source | a session numbers placeholders for the database it is connected to |
| SQL builder, AST | `GoMybatisSqlBuilder.go`, `ast/` | argument array, environment | render nodes: string, if, foreach, bind, choose, where, trim, set | foreach and bind rebind names while placeholders are reused by name | every placeholder denotes the argument the statement names |
| placeholders | `stmt/` | counter, cache of placeholders by name | Inc, Convert, Lookup, Register | reuse within one query | numbering matches the argument array |
| expression engine and cache | `engines/`, `lib/.../GoFastExpress`, `ExpressionEngineProxy.go`, `ExpressionEngineLexerMapCache.go` | tokens, words and nodes of an expression; compiled expressions by text | Lexer, Eval, SetExpressionEngine | signs, ranks and missing operands | an expression means what its operators' ranks say |
| templates, XML | `GoMybatisTempleteDecoder.go`, `XmlLoader.go` | the elements by id, rewritten in place | select/insert/update/deleteTemplate, include | loops over a Go map in any order, parts joined by commas, versions and deletion marks | the SQL is what the template says or is refused; deleted rows stay deleted, no update is lost |
| mapper execution, paging | `GoMybatis.go`, `plugin/page/` | connections of calls in progress, prepared statements | session, build, count, page, query, exec, decode | every step may fail or panic; goroutines share a pool; count and page are two statements | answers are whole, nothing is kept, every call returns |
| result decoding | `GoMybatisRowsDecoder.go`, `GoMybatisSqlResultDecoder.go` | none | rows to texts to JSON to values | values become text and get their quotes from the type of the field | what suits a field is decoded to what the column says |
| snowflake ids | `ids/SnowFlake.go` | time, step, lock of each node | NewNode, Generate | goroutines sharing a node, steps used up within a millisecond, restarts | ids are unique and increase; every call returns |
| utilities, logging | `utils/`, `Log.go` | none | - | - | - |

`PROJECT.json` lists under "hazards" the places where this code is hard to test,
each with the properties that watch it or a note why none does.

## 2. Modules

| module | what it is |
|---|---|
| `TxUnit` | abstract: what a session promises to code that brackets its work - one unit, decided by the outermost bracket |
| `LocalSession` | one session, its stack, its child and the database transactions, under any caller; implements `TxUnit` |
| `AopService` | services calling each other on one goroutine through the transaction proxy; every step that touches the session is an action of `LocalSession` (INSTANCE) |
| `Mapper` | goroutines calling mapper functions over one pool of connections, with paging |
| `Engine` | goroutines sharing an engine: routers, data sources, sessions by id |
| `SqlRender` | one statement after another rendered by the nodes of `ast/` with a placeholder converter of `stmt/` |
| `SqlMeaning` | extends `SqlRender`: what a statement means, by recursion over its nodes, and that rendering agrees with it |
| `Expression` | the expression engine: tokens, words, nodes, tree, value |
| `Template` | mapper files: includes get what they name, templates become statements |
| `KeptTable` | abstract: what logical deletion and the optimistic lock promise |
| `TemplateTable` | extends `Template`: what the statements render to, and clients of one table through them; implements `KeptTable` |
| `Decode` | rows to results |
| `SnowFlake` | ids |
| `LocalSessionProofs`, `AopProofs`, `ExpressionProofs`, `SqlRenderProofs`, `EngineProofs`, `MapperProofs`, `DecodeProofs`, `SnowFlakeProofs` | theorems and their proofs |
| `MC...` | instances for TLC; `MCExpression` and `MCSqlRender` also hold the reference definitions that only a run needs |

The modules cut a mapper call where little passes from one part to the next:
`SqlRender` gives a session a text and its arguments; a test is a comparison to
`SqlRender` and an expression to `Expression`; rows are a number to `Mapper` and
values to `Decode`; `AopService` says how a goroutine comes to be in a
transaction, `Mapper` what that costs the pool.

### LocalSession

`txStack` is `TxStack` (its two parallel slices as one sequence of records),
`newLocalSession` the child with its own stack, `isClosed` the flag. `txState`,
`ranOn` and `unbound` are the database's side: the fate of each transaction, the
transaction each statement ran on, and statements sent without their arguments.
`ret` is the answer of the last call. One session belongs to one goroutine
(`tx/TxStack.go` says so), so each method is one action: `Begin(p)`, `Commit`,
`Rollback`, `Close`, `Exec(s)` (also Query, which takes the same path) and
`ExecPrepare(s)` (also QueryPrepare). `New` is the next session over the same
database. A method of a closed session is refused with an error in the action
itself. `JoinProps` are the propagations that join or refuse a transaction,
`UnitProps` those without NESTED: what `TxUnit` promises is not what the
documentation promises of NESTED.

The database is external: `db.Begin()` may give a fresh transaction or an error;
a failed Commit may or may not have been applied, and so may a statement that is
answered with an error; a Rollback is final whatever it answers. Statements are
identities, each run at most once.

Close is modelled by the set of stack levels its loop really pops (the upper
half, because the loop tests the length it shrinks), not by "all of them".

The savepoint code of Commit and Rollback is not modelled because it cannot run:
it needs a popped entry with propagation NESTED, and Begin never pushes one.
`NestedNeverStacked` states that, and `SavepointsAreDead` proves it.

### AopService

`frames` is the goroutine's stack of proxied calls, `tls` its slot in the session
map, `pc` where the innermost call stands:

    Call -> DoBegin -> (BodyExec | Call | Return | Panic | Catch)* ->
        DoCommit | DoRollback -> Leave

A body is free: it runs statements, calls other methods, recovers from what they
throw, returns with or without an error, panics. An error of Begin, Commit or
Rollback is thrown; a panic rolls back and passes on; the call that created the
session closes it and removes it from the map (the deferred function). The tags
are propagations, "untagged" (no tag: begin with `LastPROPAGATION`) and
"mistyped" (unknown tags are taken for REQUIRED).

`kind`, `tx` and `wrote` of a frame and `keep` and `undo` are history variables:
they record what the documentation of the tags makes of the calls, from the tags
and the answers only. No guard reads them. `keep` collects the statements a
successful Commit of the call that opened their transaction vouches for, or that
ran outside one; `undo` those of a call that opened a transaction, or was NESTED
in one, and asked for a rollback or panicked.

### SqlRender

`Eval` of a node calls `Eval` of its children through `DoChildNodes`, all over
one parameter map, one argument array and one converter: `env`, `args`, `conv`.
The Go stack of these calls is `stack`; a frame has its node, the children still
to evaluate, the bytes buffered so far and, for a loop, the items left. One
action evaluates one token or node, or returns from one:

    BuildSql -> (RenderText | RenderExprHit | RenderExprMiss | RenderRawExpr |
        EvalBind | EvalIf | EvalGroup | EvalForEach | NextItem |
        EvalChoose | ChooseOtherwise | Return)* -> Finish

or to `EvalFails`, `ForEachPanics`, `ChoosePanics`. A `NodeString` is its tokens
in a row. `if` and `when` differ in a test that cannot be evaluated: an error of
the query for one, false for the other, because NodeWhen drops the error. `trim`,
`set`, `where`, `include` and `otherwise` are "group": what they do to the text
is not modelled, what they evaluate is. `WhenNodes` is what the parser really
gives a choose: all its children, once for every `when` among them. The index
and item that a loop writes into the map, and the delete of the item alone, are
`BindItem` and `DeleteItem`. Map items come in any order.

SQL is a sequence of pieces, a piece the sequence of the placeholder numbers in
it (0 for `?`): `<<>>` is text, and no pieces at all is Go's nil, which decides
whether a `when` was chosen. Text is taken to be non-blank, a loop to have text
around its items and a test to be a comparison of a name with a value. A bind
takes the value of another name; the bind with an empty value is left out.

`SqlMeaning` has neither array nor numbers: `Meanings` computes the values the
placeholders stand for, in the order of the text, from the statement and the
parameters. `RendersMeaning` compares what is sent with it.

### Mapper

`at[g]` is where goroutine g is in `exeMethodByXml`, `task[g]` the local
variables of its call; `tx[g]` says that it has a transaction, of the session
in its slot or of one that it gives as an argument ("custom"), `own[g]` that the
session made for the call is open. `free` and `busy` are the pool's connections,
`stmts[g]` the prepared statements that are open, on the pool and on the
transaction, which takes its own with it; `table` and `pending[g]` the rows, of
which only the number is kept.

    Call -> Build -> Prepare -> Query | Exec
         -> ReadCount (-> Prepare -> Query -> ReadPage) | ReadRows
         -> Return -> Leave

Each step that the database or the pool answers is an action, and at each the
call may fail or panic: `CallFails` (no data source), `BuildFails`,
`AssertPanics` (the page argument), `PrepareFails`, `ExecuteFails` (leaves the
statement open, as the code does, also after the call), `ReadFails`, `DecodeFails`, `CountPanics`, and an
`Exec` whose result type cannot hold the number of rows, which panics when the
row has been written. `Enter`, `Begin`, `Commit` and `Rollback` are the service's side of
it, `OtherProgram` changes the table from outside. A lost connection cuts the
rows short without an error (`Arrives`), because `rows.Err` is not asked. `drift`,
`cut` and `failed` are history.

### Engine

No method of the router or the factory holds a lock from its first
access to its last; every access to a shared map is a step, at a place `at[g]`,
with the local variables in `task[g]`. `opened[r]` and `typed[r]` are a router's
two maps (links to pools, of which the driver is kept, and links to drivers) that
`SetDB` and `SetUrl` write one after the other, also for a link that is open
already. `kind`, `stored` and `live` are the sessions: what each was made as,
which is in the factory's map under an id, which are not closed. `SetSession`
puts any session under any id.

    NewSession -> Route | RouteFails -> NewLocal -> Store
    CloseSession | FactoryClose | CloseAll (Visit ... RangeEnds)
        -> Load -> CloseInner -> Remove -> Delete

`CloseAll` ranges over a concurrent map: it visits what was there throughout and
any part of what came meanwhile. `disturbed` (links opened or looked up while
they were being opened) and `displaced` (sessions whose id was given to another)
are history.

### Expression

`source` is what go/scanner finds in an expression. The `Scan...` actions gather
its tokens into words one at a time, as `ParserOperators` does; `ParseNodes`
refuses unsupported and adjacent operators; `Reduce` makes a BinaryNode of the
strongest operator left and its neighbours; `Eval` computes the value. The
BinaryNodes are numbered in `made` as they are made and referred to by number,
the way Go has them in memory, and `Values` gives the value of each from those of
the nodes below, which have smaller numbers. Each index that Go would find out of
range is a panic. `Conventional` compares the tree with the one the usual ranks
and grouping from the left give (`MeantTree`); `Grouped` says of every node
made, in a tree or not, what it has for operands and how it stands to those
above and below it.

### Template, TemplateTable

`Register` enters the elements of a file by id; two loops over that map follow,
in any order. `Include(i)` takes the children of the next element and `Replace`
is one call of `includeElementReplace`: `work` is what it has still to be called
for, an include gets the children of what it names and is then searched as well.
Go's elements are shared through pointers, so a node is not rewritten: `child`
says what the includes, by their identity `el`, have got. `DecodeTree(i)` puts what a
template generates in front of its own children (`SelectTemplate`,
`InsertTemplate`, `UpdateTemplate`, `DeleteTemplate` with `DecodeSets` and
`DecodeWheres`): a tree of text, if, where, trim and foreach. `Confluent` says
what a file comes to, whatever the order.

In `TemplateTable`, `Rendered` makes tokens of such a tree, with trim and where
cutting what they cut. There is a small database that takes a token sequence if
it is a statement (`Statement`) and executes it, and clients that read rows and
insert, update and delete with the templates and the copies they have. `Meant`
is what a template says, without any commas. `KeptTable` knows rows, who has read
them as they are now, and what was deleted; `KeepsRows` is the refinement.

### Decode

One behaviour per answer of a query and shape of result: `Rows2maps` turns the
values into texts, `Decode` writes JSON by the type of each field and reads it
back. Texts are the few that the code or JSON tell apart; one with a quote or a
control character ("nul") needs escaping, which a string alone does not get
(`QuotedAsIs`). What a time.Time field refuses ends the decoding at once
(`Unmarshal`). `Meaning` is what a column is to give a field, `Suited` when it
can.

### SnowFlake

A `Node` is its fields `time` and `step`; `lock[m]` is its mutex; `call[c]` is
how far goroutine c is in `Generate`: `Request`, `Lock`, `Read`, `Spin` while the
steps of the millisecond are used up, `Issue`. `clock` is
`time.Since(n.epoch)`, which reads the monotonic clock. `NewNode` is a process
starting again: it knows nothing of the ids before, but takes a millisecond.
`issued` is history.

## 3. Runs

| run | instance | properties |
|---|---|---|
| `session_any` | all propagations and nil, 3 transactions, 2 statements, depth 3 | `TypeOK`; `StackIsLive`: stacks hold open transactions; `ChildApart`: caller and child have none in common and a child never outlives the one it suspends; `NestedNeverStacked`; `EndedOnce`, an action property |
| `session_unit` | `UnitProps`, 3 transactions, 2 statements, depth 4 | `NoOrphanTx`: what is open is on the stack; `Unit`: LocalSession implements `TxUnit` |
| `aop_any` | all tags, 3 transactions, 3 nested calls | `TypeOK`, `TlsMatchesFrames`, `Bracketed` for every mix of tags, errors and panics |
| `aop_join` | `UnitTags` (joining tags other than NESTED), 2 transactions, 2 statements, 3 nested calls | `JoinSharesTx`, `OwnTxStaysOpen`, `KeepIsDurable`, `NoTxLeft`, `UndoIsUndone`; `CallsAreOneUnit`: the proxy implements `TxUnit` |
| `aop_docs` | REQUIRED, SUPPORTS, NESTED, NOT_SUPPORTED, 2 transactions, 2 statements, 3 nested calls | **violates** `SomePromiseKept`: see section 4 |
| `render` | 18 statements and 14 parameter maps, `?` and numbered | `TypeOK`; `Numbered`: counter, array, cache and buffered text agree; `StableMeaning`: what is sent is what the statement means |
| `mapper` | 2 goroutines, 8 calls of all kinds, a pool of 3, up to 2 rows, 1 failed statement | `TypeOK`, `WholeAnswers`, `NothingKept`; `Returns`, a liveness property |
| `engine` | 2 goroutines, 2 sessions, 2 routers, 1 link | `TypeOK`, `NoneLost`, `RightDriver` |
| `expression` | all chains of up to three operands and some of four, the mappers' tests, 20 malformed ones, in 6 environments | `Conventional`, `TypedNeverFails`, `Grouped` |
| `template` | 22 usable mapper files, with an include inside an if and two of one fragment, and 8 to be refused; 2 clients, 2 rows, versions to 2, 4 changing calls | `TypeOK`, `Confluent`, `Faithful`; `KeepsRows`: TemplateTable implements `KeptTable` |
| `decode` | every value a driver may report, for every type, name, resultMap and shape, alone and beside another column, 0 to 2 rows | `Decoded` |
| `snowflake` | 2 goroutines, node numbers 0, 1 and 2 (refused), 2 steps a millisecond, 2 milliseconds, 4 ids | `TypeOK`, `Unique`, `Increasing`; `Served`, a liveness property |

*Bounds.* A session with three transactions has one on its stack, one of its
child and one that has ended or was left behind; at depth 3 an inner bracket has
one outside and one inside it, and at depth 4 the half-stack loop of Close pops
some entries and leaves others. Three nested calls are an inner one with
a caller whose caller opened the transaction. Collections of no, one and two
items, because two rounds of a loop tell "the first value" from "the value of
this round"; loops nest twice, so that a loop inside another rebinds and deletes
a name of its surroundings; every statement is rendered after every other one.
Two goroutines with a pool of three, because a goroutine holds at most two
connections and so both together could ask for four. Two sessions for two
goroutines let one be made while another is closed in every way at once. Four
ids at two a millisecond fill a millisecond, wait, and go on, on a restarted node
too. A goroutine whose statement has failed outside a transaction calls no more;
that such statements add up and nothing else does is proved
(`CallsKeepNothing`). One link that is opened, again and again, while another
goroutine looks it up, on two routers, is enough to find it without its driver;
that links which change their drivers keep the property is proved (`DriversRight`).
Includes go through each other to a depth of three, and `Depth` looks one
level further. Three operators are enough for each pair of ranks with a third on either
side. Two clients that both read before either writes are what a version is for;
after four changing calls a row has been inserted, changed by both and deleted. The
counters that a bound cuts off are named in the modules (`MaxDepth`, `MaxFrames`,
`MaxRows`, `MaxDrift`, `MaxFailed`, `MaxVersion`, `MaxCalls`, `Horizon`, `MaxIds`).

*Symmetry* is used where values are only compared for equality (transactions,
statements, goroutines, sessions), in runs without liveness.
`decode`, `expression`, `snowflake` and `template` stop where their input or
their bounds end, so deadlock is not checked there; it is everywhere else.

*Fairness.* `SnowFlake`: time passes (WF of `Tick`), a goroutine that can run
does (WF of `Read`, `Spin`, `Issue`), and a waiter for the mutex gets it if it
is free again and again (SF of `Lock`: sync.Mutex has a starvation mode that
hands it over). `Mapper`: SF of `Continue(g)`, as database/sql gives a returned
connection to a goroutine that waits for one; nothing is assumed of `Enter`,
`Commit`, `Call` and `Leave`, since a service may never make another call or end
its transaction. `Returns` needs the pool to have more connections than there
are goroutines (`PoolAssumption`): with as many, all of them can be in
transactions and each ask for a second connection with a session argument, and
nobody can go on. The other modules have safety properties only and assume no
fairness; the code does not promise that a service body returns.

## 4. Where the code differs from what one expects

`aop_docs` finds four disagreements with the documentation at once; `PROJECT.json`
lists them under "findings". `SomePromiseKept` is the disjunction of what the
documentation promises, so a state that violates it violates every one. In the
trace a REQUIRED call has transaction t1; a SUPPORTS call in it gets t2; a
NOT_SUPPORTED call in that one executes s1 and commits; a NESTED call executes s2
on t1 and rolls back; and when the SUPPORTS call commits, t1 is committed with s2
while the REQUIRED call is running, and t2 is open and on no stack. So:

- SUPPORTS and MANDATORY open a second transaction inside a first instead of
  joining it (`LocalSession.go:166`, against `README.md:220`; `SupportsJoins`).
  Nothing ends it, not even Close.
- Commit and Rollback of a REQUIRES_NEW or NOT_SUPPORTED call end the child and
  then also pop the stack of the caller they were to suspend
  (`LocalSession.go:105`, against `README.md:222-223`; `OwnTxStaysOpen`).
- The Rollback of a NESTED call undoes nothing, as no savepoint is ever set; its
  statements are durable with the caller's Commit (`LocalSession.go:232`, against
  `README.md:225`; `UndoIsUndone`).
- Calls through a child send prepared statements without their arguments
  (`LocalSession.go:358`, 408, against `SqlEngine.go:20`; `ArgsReachDatabase`).

`aop_join` shows the properties that these break for the tags that keep them. Two
more differences are of the same kind and no run asserts the opposite:

- Of two REQUIRES_NEW calls nested in a transaction the second replaces the first
  one's child, whose transaction stays open when all is over
  (`LocalSession.go:200`). `NoTxLeft` is for tags that make no child.
- An expression engine that is set evaluates nothing: the nodes of all mappers
  hold the address of the copy of the proxy that the builder's constructor was
  given (`GoMybatisSqlBuilder.go:20-29`), while `SqlEngine.go:71` says that
  SetExpressionEngine sets the engine that executes expressions.

The rest is modelled as the code does it; the properties name the cases, or the
instances leave them out:


- A numbered placeholder is reused by name, so that `selectByIds` of the example
  mapper would send its first item for all (`ast/Token.go:42`): `StableMeaning`.
- A choose evaluates its otherwise, and all its children once for every `when`,
  and keeps their arguments (`ast/NodeParser.go:117`); without an otherwise it
  panics. `StableMeaning` has chooses whose otherwise takes no argument.
- `a - b + c` groups from the right, and so do `/` before `*` and `==` before
  `!=`; a sign beyond the third word makes the parser forget words. `Conventional`
  names both (`OutOfRank`, `LateSign`).
- A selectTemplate without wheres has no SQL; commas go by the place in the list
  and not by what is rendered; where cuts "and" and "or" off the beginning of
  names. `Faithful` demands a right statement of the others (`Regular`) and no
  wrong one of these.
- A template whose resultMap names another template takes that one for its
  columns, decoded or not, as Go ranges over the map (`GoMybatisTempleteDecoder.go:129`);
  `Confluent` leaves such files out (`PlainMaps`).
- A driver's false is read as true; a single value of a basic type may not be
  NULL or contain a quote or a control character; a named string type is not
  quoted. `Suited`.
- rows.Err is never asked; a page may be cut short (`WholeAnswers`). A statement
  whose execution fails stays open, outside a transaction for good; the property
  has it that no other does (`NothingKept`).
- An insert whose result type cannot hold the number of rows panics when the row
  has been written (`GoMybatis.go:505`).
- SetSession may put a session under another's id, which is then out of reach of
  the factory (`NoneLost`: `displaced`); Open beside NewSession of the same link
  may give a session the wrong driver (`RightDriver`: `disturbed`).

## 5. Proofs

The theorems hold for all values of the constants that satisfy the modules' assumptions: no
bound on goroutines, transactions, statements, nodes or depths.

**LocalSession** (`LocalSessionProofs`). The inductive invariant is

    Live == DataOK /\ StackIsLive /\ OneOwner

`StackIsLive` alone is not inductive: popping the child's last entry ends its
transaction, and if the caller's stack held the same transaction (excluded by
`OneOwner`) an ended transaction would be left on a stack. `OneOwner` in turn
needs `StackIsLive`: a fresh transaction differs from those on the stacks because
they are open and it was unused. The step is proved per action, the pops through
lemmas on what `Ended` and `Pop` do to the set `TxsOf(stack)`. From `Live`:
`TypeCorrect`, `StacksAreLive`, `ChildHasItsOwn` and `TxsEndOnce`, the action
property; `ChildWithinTx` and `SavepointsAreDead` have inductions of their own.
`ChildIsApart` joins the two theorems about the child.

**The unit of work** (`LocalSessionProofs`, from `Joined` on). For `Props \subseteq JoinProps` the
invariant `Joined` adds that there is no child, that one transaction is on all
levels of the stack, that every open transaction is on it and that no statement
ran on a transaction that was never begun. From it `NoOrphans` - that one
transaction fills the stack is what makes the half-stack loop of Close
sufficient - and, for `Props \subseteq UnitProps`, `ImplementsUnit`:
`Spec => Unit`, the refinement of `TxUnit` (Begin maps to Enter or Idle, an inner
Commit or Rollback to LeaveInner, the outermost to CommitUnit or RollbackUnit,
Exec to Write or Idle).

**The proxy** (`AopProofs`). The inductive invariant is

    IInv == Stacks /\ Calls /\ TlsMatchesFrames /\ Bracketed

What a method of the session does to the brackets it holds is stated once
(`BeginDoes`, `EndDoes`, `CloseDoes`) and counted against the calls in progress.
`Stacks` is needed because a child that is not there must not make Commit or
Rollback fail, and that the session's owner is the outermost call because Close
forgets brackets that are still held. Results: `SessionFollowsCalls` and
`BracketsAreEnded`, for all tags, errors and panics at any depth.

**What the tags promise** (`AopProofs`, from `Asked` on). The proxy asks its session for nothing but
the propagations of `Asked`, and never for more brackets than `MaxFrames`. So
every step of it is a step of `Used`, an instance of the session's proofs with
those two as `Props` and `MaxDepth` (`ProxyUsesSession`), and the lemmas about a
session under any caller hold of the one the proxy uses: `TypeCorrect`,
`ProxyStacksAreLive` and `ProxyEndsOnce`, for any tags. With the tags of
`JoinTags` all of `Asked` is joining, which needs that the stack holds joining
propagations only (`Used!AllJoin`), because a method without a tag begins with
the one on top. The inductive invariant then is

    UnitIInv == SessionIInv /\ HistoryOK /\ Used!Joined /\ CallsInv

where `CallsInv` ties the calls in progress to the session. Of the `Begun` calls
the first `Base` are in no transaction, the next has opened it, and the rest have
joined: `Layered`. `Base` is the number of calls minus the number of stack
entries, so the frame above it is the one whose Commit or Rollback empties the
stack and decides; all above `Base` name the one transaction of the stack, and
what they wrote ran there (`WroteOnTx`). `Undone` and `Vouched` say what became
of the statements that are no longer in a frame. The properties of the run
follow: `JoinedCallsShare`, `OpenerKeepsItsTx`, `VouchedIsDurable`,
`NoTxIsLeft`, and with the tags of `UnitTags`, which are those without NESTED,
`GivenUpIsUndone` and `ProxyImplementsUnit`, the refinement of `TxUnit` by the
whole proxy.

**Rendering** (`SqlRenderProofs`), for any nodes, statements, values, parameter
maps and both kinds of converter:

    IInv == DataOK /\ Agree /\ stack \in Seq(Frames(Pieces))

`Agree` is `Numbered` without its last part: counter and length of the array are
equal, and the registered groups divide the numbers among the names. The last
part, that all buffered SQL is text or a registered group, is in the type of the
stack: `Pieces` are the groups registered *now*, a set that only grows while a
statement is rendered (`FramesMono`), so a frame that waits for its child stays
well typed while the child registers names. Results: `TypeCorrect` and
`NumberedAlways`, so no placeholder is without its argument, also where a choose
drops what its children have rendered.

**The engine** (`EngineProofs`). What a goroutine may rely on at its place is
stated per goroutine (`MakingOK`, `ClosingOK`), and what keeps two apart by
`Apart`: nobody else has a session that is being made.

    IInv == TypeOK /\ (those two for every g) /\ Apart /\ OwnPlace /\ NoneLost

`NoneLost` needs that a session past `CloseInner`
is closed for good, which `ClosingOK` says, and that under the id of a session is
no other unless it is `displaced` (`OwnPlace`), since a close by id takes away
what is stored there. `RInv` says of every link that was not `disturbed` that whoever
opens it is alone with it, and that the two maps agree but while it is being
opened. Results: `EngineTyped`, `SessionsNeverLost`, `DriversRight`.

**Mapper calls** (`MapperProofs`). `Keeps(g)` gives the connections of a goroutine
by its place in the call (`IInv`), `Opens(g)` its statements (`SInv`): those that
failed, and one more while it is being used. Steps of others change nothing of
either but history (`OthersKeep`, `OthersOpen`). Result: `CallsKeepNothing`, from
both.

What a call answers is a second invariant on top, `AInv`. `Fits` gives the task
of a call at its place: while the count is read it is near to the rows the call
can see now, between the queries the total is, and the page that was read is near
to the page of that total; near means by no more than `drift`, the history of the
task. A step of somebody else that moves rows moves `drift` as far (`ApartFits`),
and of two numbers of rows the pages differ by no more than the numbers
(`LimitedNear`). What LIMIT and OFFSET take is what is on the page
(`OnPageIsLimited`), and the page count is a quotient rounded up (`PagesEnough`):
both from two facts about division. Result: `AnswersAreWhole`, for all page
numbers and sizes, and any number of goroutines, rows and concurrent writers.

`Bounded` counts the connections held and the rows not committed as pairs of a
goroutine and a number (`Below`), so that a sum over goroutines is the size of a
set: the connections free and held are always the pool. Results: `MapperTyped`
and `PoolRefills`, by which no connection is ever lost.

**Decoding** (`DecodeProofs`), for rows of any number of columns. A text that
suits a type becomes what is meant when it is written by that type or by another
of the same base, as a resultMap may say (`WrittenBecomes`); that an answer's
text suits follows from the column's being suited (`SuitedText`), and a row whose
values all become what is meant fills every field (`UnmarshalWhole`). Result:
`RowsAreDecoded`.

**Ids** (`SnowFlakeProofs`).

    IInv == TypeOK /\ Locked /\ Behind /\ Counted /\ Ahead /\ Sorted

The holder of the lock is the only one past it; no node is ahead of the clock;
what was handed out in this millisecond is counted in the node, unless somebody
is waiting for the next one; what is about to be handed out is later than
everything before. Uniqueness follows by the place values of an id's parts.
Results: `SnowFlakeTyped`, `SnowFlakeUnique`, `SnowFlakeIncreasing`.

**Expressions** (`ExpressionProofs`), for any tokens, expressions and parameters.
The values, kinds and parts of a tree are functions on the numbers of its nodes,
each defined by those of smaller numbers. That such a function exists
(`ValuesUnfold`, `KindsUnfold`, `PartsUnfold`) and that a node keeps the promise
its operands keep (`NumberedAsPromised`) is shown by induction over the numbers,
which is by `Least`: the least number that breaks a rule has none below it that
does. The invariant is

    IInv == ScanOK /\ MadeOK /\ NodesOK /\ PhaseOK

`MadeOK` has each BinaryNode refer to earlier ones only (`Grown`) and `Grouped`.
`Grouped` is not inductive by itself: what the next `Reduce` joins depends on
what is among the nodes. So `NodesOK` says that no two operators are adjacent,
which makes the neighbours of the strongest one operands, and `Ordered`: no
operator left is stronger than one already used, and one of the same rank is to
the right of it. Results: `OperatorsAreGrouped` and `FittingNeverFails`.

**Mapper files** (`DecodeProofs`, from `Least` on), for any files whose nodes are
finite sequences of known nodes (`WellFormed`) and any `Depth`:

    IInv == RegisterOK /\ IncludeOK /\ DecodeOK

Elements share their children, so that "everything below this one is done" cannot
be told by going down it: `Under` is the least set that has the children of its
own, an include's being what it names. `IncludeOK` says of the elements the loop
has come to that what is under them is settled, every include having got what it
names, or is under what is still in `work`. A call takes the first node off
`work` and puts its children there, and what was under the node is then itself or
under them (`UnderStep`). When `work` is empty everything is settled, in every
level of `Levels`: were there one with a node that is not under the element, the
least such level would have a parent that is. `DecodeOK` says that an element the
second loop has come to is as expected and any other as the file has it; that
`Expected` is about resultMaps as the file has them needs `PlainMaps`, since a
resultMap is never decoded. Files with a cycle of includes need no exception:
they are never ready. Result: `LoadingIsConfluent`, of `LoadingSpec`. A step of
`TemplateTable` is a step of that or leaves its variables alone.

**Only model-checked.** `Conventional`, whose reference `MeantTree` is a recursive
operator on the expressions of the run; `StableMeaning`, whose reference `SqlMeaning`
recurses over the nodes of a statement; of `TemplateTable` its type invariant,
`Faithful` and `KeepsRows`, because `Rendered` recurses over nested values and not
over numbered nodes, so that the induction used for expressions has no number to
go by. `Served` and `Returns`, because liveness under fairness is beyond these
provers.

## 6. Not modelled

- Reading and writing XML (`lib/.../etree`, `XmlCreate`): third-party documents
  and text; the templates start from its elements.
- The reflection that installs proxies and binds arguments to names
  (`GoMybatis.go`): it runs once and leaves no state; the parameters of a
  statement are constants. A nil session argument, which costs the last argument
  its name (`GoMybatis.go:608`), is listed under hazards.
- `GoMybatisSqlArgTypeConvert`: not used by the mappers. Printed forms of ids,
  FormatSql's white space: conversions without state.
- The cache of compiled expressions and its proxies (`ExpressionEngineProxy.go`):
  one engine compiles every expression, as section 4 says, and an entry is never
  changed, so what is found is what would be compiled.
- Pools of child sessions (`LocalSession.go:191`): nobody ever waits for one.
- One goroutine slot for several engines (`GoroutineSessionMap.go:5`): nothing in
  the repository says what it should do.
- A cycle of includes, which never ends (`XmlLoader.go:70`).
- `utils/`, logging and UUIDs: no property depends on them.

The plan of this project is carried out: every component with state of its own
has a module, and what is listed here has either none or no promise to check.
