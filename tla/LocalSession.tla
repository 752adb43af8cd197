---------------------------- MODULE LocalSession ----------------------------
(***************************************************************************)
(* One LocalSession (src/LocalSession.go) with its transaction stack       *)
(* (src/tx/TxStack.go), the child session that REQUIRES_NEW and            *)
(* NOT_SUPPORTED attach to it, and the database transactions they drive.   *)
(*                                                                         *)
(* A session belongs to one goroutine, so every method is one action.  The *)
(* caller is unconstrained: it may call any method at any moment, in any   *)
(* order, and the database may refuse any request.  AopService.tla         *)
(* restricts the caller to what the transaction proxy does.                *)
(*                                                                         *)
(* The database (database/sql and the server) is external.  It is modelled *)
(* by the state of each transaction and by where each statement ran.       *)
(*                                                                         *)
(* The branches of Commit and Rollback that handle savepoints run only for *)
(* a popped entry whose propagation is NESTED.  They are left out because  *)
(* no such entry is ever pushed, which is the invariant NestedNeverStacked.*)
(***************************************************************************)
EXTENDS Integers, SequencesExt

CONSTANTS Tx,         \* identities of database transactions
          Stmt,       \* statements; each is run at most once
          Props,      \* the propagations callers pass to Begin, Nil included
          MaxDepth    \* bound: callers open no more than this many brackets

Propagation == {"REQUIRED", "SUPPORTS", "MANDATORY", "REQUIRES_NEW",
                "NOT_SUPPORTED", "NEVER", "NESTED", "NOT_REQUIRED"}

Nil == "nil"          \* Begin(nil)

(* The propagations that never open a second transaction, and those of     *)
(* them under which a session is one unit of work (TxUnit).  NESTED is not *)
(* among the latter: a nested transaction is to be rolled back by itself.  *)
JoinProps == {"REQUIRED", "NESTED", "NEVER", "NOT_REQUIRED", Nil}
UnitProps == {"REQUIRED", "NEVER", "NOT_REQUIRED", Nil}

AutoCommit == "auto"        \* executed on db: no transaction, durable at once
NotRun == "notrun"

NoError == "nil"      \* what a method that returns an error answers
Error == "error"

ASSUME TxAssumption == Tx \cap {AutoCommit, NotRun} = {}
ASSUME PropsAssumption == Props \subseteq Propagation \cup {Nil}
ASSUME DepthAssumption == MaxDepth \in Nat

VARIABLES
  txStack,            \* it.txStack, bottom first: [tx, p] per open bracket
  newLocalSession,    \* it.newLocalSession: [live, txStack]
  isClosed,           \* it.isClosed
  txState,            \* database: what became of each transaction
  ranOn,              \* database: the transaction each statement ran on
  unbound,            \* prepared statements sent without their arguments
  ret                 \* the last call and whether it answered an error

session == <<txStack, newLocalSession, isClosed>>
vars == <<txStack, newLocalSession, isClosed, txState, ranOn, unbound, ret>>

Entry == [tx : Tx, p : Propagation]
NoSession == [live |-> FALSE, txStack |-> <<>>]

Ops == {"New", "Begin", "Commit", "Rollback", "Close", "Exec", "ExecPrepare"}

DataOK == /\ txStack \in Seq(Entry)
          /\ newLocalSession \in [live : BOOLEAN, txStack : Seq(Entry)]
          /\ txState \in [Tx -> {"unused", "open", "committed", "rolledback"}]
          /\ ranOn \in [Stmt -> Tx \cup {AutoCommit, NotRun}]
          /\ unbound \in SUBSET Stmt
          /\ ret \in [op : Ops, err : {NoError, Error}]
TypeOK == DataOK /\ isClosed \in BOOLEAN

-----------------------------------------------------------------------------
(* Answers of the database.  A failed Commit may have been applied or not; *)
(* a Rollback is final whatever it answers: database/sql releases the      *)
(* transaction and the server drops what its connection had not committed. *)
CommitAnswers == {[state |-> "committed", err |-> NoError],
                  [state |-> "committed", err |-> Error],
                  [state |-> "rolledback", err |-> Error]}

RollbackAnswers == {[state |-> "rolledback", err |-> e] : e \in {NoError, Error}}

Answer(op, err) == ret' = [op |-> op, err |-> err]

(* db.Begin() gives an unused transaction or an error.                     *)
Opened(t) == /\ txState[t] = "unused"
             /\ txState' = [txState EXCEPT ![t] = "open"]

-----------------------------------------------------------------------------
Init == /\ txStack = <<>>
        /\ newLocalSession = NoSession
        /\ isClosed = FALSE
        /\ txState = [t \in Tx |-> "unused"]
        /\ ranOn = [s \in Stmt |-> NotRun]
        /\ unbound = {}
        /\ ret = [op |-> "New", err |-> NoError]

(* The next session over the same database, once this one is closed.       *)
New == /\ isClosed
       /\ txStack' = <<>>
       /\ newLocalSession' = NoSession
       /\ isClosed' = FALSE
       /\ Answer("New", NoError)
       /\ UNCHANGED <<txState, ranOn, unbound>>

(* A session that is closed refuses the call.                              *)
RefusedClosed(op) == /\ isClosed
                     /\ Answer(op, Error)
                     /\ UNCHANGED <<session, txState, ranOn, unbound>>

-----------------------------------------------------------------------------
(* Begin: what it does with propagation p is decided by whether a          *)
(* transaction is already on the stack.                                    *)
InTx == Len(txStack) > 0

(* The caller's transaction is pushed again: txStack.Push(txStack.Last()), *)
(* with the propagation of the entry it repeats and not the one asked for. *)
BeginJoin(p) == /\ p \in {"REQUIRED", "NESTED"} /\ InTx
                /\ txStack' = Append(txStack, Last(txStack))
                /\ Answer("Begin", NoError)
                /\ UNCHANGED <<newLocalSession, isClosed, txState>>

(* Mutant of OpensTx: REQUIRED begins a transaction in a transaction too.  *)
RequiredOpensTx(p) ==
  \/ p \in {"REQUIRED", "REQUIRES_NEW", "NESTED", "NOT_REQUIRED"} /\ ~InTx
  \/ p \in {"REQUIRED", "SUPPORTS", "MANDATORY"} /\ InTx

(* Mutants of Pushed: NESTED is pushed with its own propagation, or with   *)
(* none.                                                                   *)
PushedAsAsked(p) == p
PushedNil(p) == IF p = "NESTED" THEN Nil ELSE p

(* db.Begin() on this session's own connections.  NESTED outside a         *)
(* transaction calls Begin(REQUIRED), which pushes REQUIRED.               *)
OpensTx(p) == \/ p \in {"REQUIRED", "REQUIRES_NEW", "NESTED", "NOT_REQUIRED"} /\ ~InTx
              \/ p \in {"SUPPORTS", "MANDATORY"} /\ InTx

Pushed(p) == IF p = "NESTED" THEN "REQUIRED" ELSE p

BeginDb(p) == /\ OpensTx(p)
              /\ \/ \E t \in Tx : /\ Opened(t)
                                  /\ txStack' = Append(txStack, [tx |-> t, p |-> Pushed(p)])
                                  /\ Answer("Begin", NoError)
                 \/ /\ Answer("Begin", Error)
                    /\ UNCHANGED <<txStack, txState>>
              /\ UNCHANGED <<newLocalSession, isClosed>>

(* Mutants: a child outside a transaction, and a child that is a copy of   *)
(* the session, stack included.                                            *)
AlwaysSuspends(p) == p \in {"REQUIRES_NEW", "NOT_SUPPORTED"}
CopiedStack(t, p) == Append(txStack, [tx |-> t, p |-> p])

Suspends(p) == p \in {"REQUIRES_NEW", "NOT_SUPPORTED"} /\ InTx
ChildStack(t, p) == <<[tx |-> t, p |-> p]>>

(* A child session over a pool of its own takes the calls from now on; it  *)
(* replaces the child there may be already.  REQUIRES_NEW begins a         *)
(* transaction on it, NOT_SUPPORTED none.  sql.Open or the child's Begin   *)
(* may fail; the present child then stays.                                 *)
BeginNewSession(p) ==
  /\ Suspends(p)
  /\ \/ /\ p = "REQUIRES_NEW"
        /\ \E t \in Tx : /\ Opened(t)
                         /\ newLocalSession' = [live |-> TRUE, txStack |-> ChildStack(t, p)]
        /\ Answer("Begin", NoError)
     \/ /\ p = "NOT_SUPPORTED"
        /\ newLocalSession' = [live |-> TRUE, txStack |-> <<>>]
        /\ Answer("Begin", NoError)
        /\ UNCHANGED txState
     \/ /\ Answer("Begin", Error)
        /\ UNCHANGED <<newLocalSession, txState>>
  /\ UNCHANGED <<txStack, isClosed>>

(* Nothing to do, or a transaction nesting error.                          *)
BeginNothing(p) ==
  /\ \/ p = Nil /\ Answer("Begin", NoError)
     \/ p \in {"SUPPORTS", "NOT_SUPPORTED", "NEVER"} /\ ~InTx /\ Answer("Begin", NoError)
     \/ p \in {"NEVER", "NOT_REQUIRED"} /\ InTx /\ Answer("Begin", Error)
     \/ p = "MANDATORY" /\ ~InTx /\ Answer("Begin", Error)
  /\ UNCHANGED <<session, txState>>

Begin(p) == \/ RefusedClosed("Begin")
            \/ /\ ~isClosed
               /\ BeginJoin(p) \/ BeginDb(p) \/ BeginNewSession(p) \/ BeginNothing(p)
               /\ UNCHANGED <<ranOn, unbound>>

(* The propagation a method without a tag begins with.                     *)
LastPROPAGATION == IF InTx THEN Last(txStack).p ELSE Nil

-----------------------------------------------------------------------------
(* TxStack.Pop; a stack that is empty stays so.                            *)
Pop(stack) == IF Len(stack) = 0 THEN <<>> ELSE Front(stack)

(* Mutants: every pop ends its transaction; the first pop ends it and the  *)
(* others find it done; an error of the database is dropped.               *)
EndedByEveryPop(stack, state, a) ==
  IF Len(stack) > 0 THEN [state EXCEPT ![Last(stack).tx] = a.state] ELSE state
EndedByFirstPop(stack, state, a) ==
  IF Len(stack) > 0 /\ state[Last(stack).tx] = "open"
    THEN [state EXCEPT ![Last(stack).tx] = a.state] ELSE state
ErrDropped(stack, a) == NoError

(* A pop really ends the transaction, with answer a, only when it empties  *)
(* the stack; otherwise it does nothing at the database and cannot fail.   *)
Ended(stack, state, a) == IF Len(stack) = 1
                            THEN [state EXCEPT ![stack[1].tx] = a.state]
                            ELSE state
EndErr(stack, a) == IF Len(stack) = 1 THEN a.err ELSE NoError

(* Commit and Rollback: the child first, if there is one; it is closed and *)
(* dropped whatever it answers (c), and its error is returned with the     *)
(* outer stack untouched.  Otherwise the outer stack is popped as well (o).*)
End(op, answers) ==
  /\ ~isClosed
  /\ \E c, o \in answers :
       LET child == newLocalSession.txStack
           state == Ended(child, txState, c)
       IN  \/ /\ EndErr(child, c) = Error
              /\ txState' = state
              /\ Answer(op, Error)
              /\ UNCHANGED txStack
           \/ /\ EndErr(child, c) = NoError
              /\ txState' = Ended(txStack, state, o)
              /\ txStack' = Pop(txStack)
              /\ Answer(op, EndErr(txStack, o))
  /\ newLocalSession' = NoSession
  /\ UNCHANGED <<isClosed, ranOn, unbound>>

Commit == RefusedClosed("Commit") \/ End("Commit", CommitAnswers)
Rollback == RefusedClosed("Rollback") \/ End("Rollback", RollbackAnswers)

-----------------------------------------------------------------------------
(* Mutant of ClosePops: the loop counts from 1.                            *)
ClosePopsFrom1(stack) == {i \in 1..Len(stack) : 2 * i > Len(stack) + 1}

(* Close's loop "for i := 0; i < it.txStack.Len(); i++ { Pop; Rollback }"  *)
(* tests the shrinking length: it pops the upper half of the stack.        *)
ClosePops(stack) == {i \in 1..Len(stack) : 2 * i > Len(stack)}
CloseLeaves(stack) == SubSeq(stack, 1, Len(stack) \div 2)
RolledBackByClose(stack) == {stack[i].tx : i \in ClosePops(stack)}

(* A second Close finds db = nil and does nothing.                         *)
Close ==
  /\ IF isClosed
       THEN UNCHANGED <<session, txState>>
       ELSE /\ txState' = [t \in Tx |->
                 IF /\ txState[t] = "open"
                    /\ t \in RolledBackByClose(txStack)
                             \cup RolledBackByClose(newLocalSession.txStack)
                   THEN "rolledback" ELSE txState[t]]
            /\ txStack' = CloseLeaves(txStack)
            /\ newLocalSession' = NoSession
            /\ isClosed' = TRUE
  /\ Answer("Close", NoError)
  /\ UNCHANGED <<ranOn, unbound>>

-----------------------------------------------------------------------------
(* Where a statement goes: to the child if there is one, else to this      *)
(* session; there to the transaction on top of the stack, else to db.      *)
Top(stack) == IF Len(stack) = 0 THEN AutoCommit ELSE Last(stack).tx
Target == Top(IF newLocalSession.live THEN newLocalSession.txStack ELSE txStack)

(* A statement that is answered with an error may have run all the same:   *)
(* its reply was lost or could not be read.                                *)
Run(op, s) == /\ ranOn[s] = NotRun
              /\ \/ Answer(op, Error) /\ UNCHANGED ranOn
                 \/ /\ \E err \in {NoError, Error} : Answer(op, err)
                    /\ ranOn' = [ranOn EXCEPT ![s] = Target]
              /\ UNCHANGED <<session, txState>>

(* Query and Exec.                                                         *)
Exec(s) == \/ RefusedClosed("Exec")
           \/ ~isClosed /\ Run("Exec", s) /\ UNCHANGED unbound

(* QueryPrepare and ExecPrepare of a statement with arguments: the child   *)
(* is called through Query(sqlPrepare) and Exec(sqlPrepare).               *)
DropsArgs == newLocalSession.live

ExecPrepare(s) ==
  \/ RefusedClosed("ExecPrepare")
  \/ /\ ~isClosed
     /\ Run("ExecPrepare", s)
     /\ unbound' = IF DropsArgs THEN unbound \cup {s} ELSE unbound

-----------------------------------------------------------------------------
Next == \/ New
        \/ \E p \in Props : Len(txStack) < MaxDepth /\ Begin(p)
        \/ Commit
        \/ Rollback
        \/ Close
        \/ \E s \in Stmt : Exec(s) \/ ExecPrepare(s)

Spec == Init /\ [][Next]_vars
-----------------------------------------------------------------------------
(* Safety of the session under any use of it.                              *)
TxsOf(stack) == {stack[i].tx : i \in 1..Len(stack)}

(* Every transaction a usable session could still be asked to use or to    *)
(* end is open: ending one transaction never leaves an entry behind that   *)
(* refers to it (LocalSession.go:59-86, 106-133, 282-287).                 *)
StackIsLive ==
  ~isClosed => \A t \in TxsOf(txStack) \cup TxsOf(newLocalSession.txStack) :
                  txState[t] = "open"

(* The transaction of a REQUIRES_NEW child is never one of the caller's    *)
(* own: ending either leaves the other alone (LocalSession.go:188-200).    *)
OneOwner == TxsOf(txStack) \cap TxsOf(newLocalSession.txStack) = {}

(* A child takes the session's statements only while the transaction it    *)
(* suspends is on the stack, never after the last bracket was left and     *)
(* never on a closed session (LocalSession.go:55, 102, 274).               *)
ChildOnlyWithinTx == newLocalSession.live => InTx /\ ~isClosed

(* A child is apart from the caller: it shares no transaction with it and  *)
(* does not outlive the one it suspends, whatever begins, fails, ends or   *)
(* closes meanwhile (LocalSession.go:55, 102, 188-200, 274).               *)
ChildApart == OneOwner /\ ChildOnlyWithinTx

(* No entry of any stack has propagation NESTED, although callers pass it: *)
(* the savepoint branches of Commit and Rollback never run                 *)
(* (LocalSession.go:60, 109, 231-236).                                     *)
Unnested(stack) == \A i \in 1..Len(stack) : stack[i].p # "NESTED"
NestedNeverStacked == Unnested(txStack) /\ Unnested(newLocalSession.txStack)

(* A transaction is ended once: no Commit, Rollback or Close, of this or a *)
(* later session, changes the fate of one that has ended, and none ends    *)
(* one that was never begun (LocalSession.go:82, 129, 285).                *)
EndsOnce == \A t \in Tx :
               txState'[t] # txState[t] =>
                  \/ txState[t] = "unused" /\ txState'[t] = "open"
                  \/ txState[t] = "open" /\ txState'[t] \in {"committed", "rolledback"}

EndedOnce == [][EndsOnce]_vars

-----------------------------------------------------------------------------
(* What the propagations promise.                                          *)

(* The database holds no transaction open for a session that can no longer *)
(* end it: an open one is on the stack of the session in use.  With        *)
(* Props \subseteq JoinProps; SUPPORTS and MANDATORY leave transactions     *)
(* open that nothing refers to, and so does a child that is replaced       *)
(* (LocalSession.go:166, 179, 200, 218, 282).                              *)
NoOrphanTx == \A t \in Tx : txState[t] = "open" => ~isClosed /\ t \in TxsOf(txStack)

(* The documentation of the Session interface shows arguments sent with a  *)
(* prepared statement (SqlEngine.go:20,22): none is sent without them.     *)
(* The code breaks this: a child session is called through Query and Exec, *)
(* which take no arguments (LocalSession.go:358, 408); see SomePromiseKept *)
(* of AopService.                                                          *)
ArgsReachDatabase == unbound = {}

(* With Props \subseteq UnitProps the session implements TxUnit: inner      *)
(* brackets decide nothing and the outermost one decides for every         *)
(* statement of the unit (LocalSession.go:79, 125; src/tx/README.md:5).    *)
Pending == {s \in Stmt : ranOn[s] \in Tx /\ txState[ranOn[s]] = "open"}
Durable == {s \in Stmt : \/ ranOn[s] = AutoCommit
                         \/ ranOn[s] \in Tx /\ txState[ranOn[s]] = "committed"}

unit == INSTANCE TxUnit WITH depth   <- IF isClosed THEN 0 ELSE Len(txStack),
                             pending <- Pending,
                             durable <- Durable

Unit == unit!Spec
=============================================================================
