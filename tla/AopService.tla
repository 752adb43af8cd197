----------------------------- MODULE AopService -----------------------------
(***************************************************************************)
(* The transaction proxy (src/TransactionAspectSupport.go): services whose *)
(* methods carry tx and rollback tags, called on one goroutine and calling *)
(* each other, all on the one LocalSession the goroutine's session map     *)
(* holds (src/GoroutineSessionMap.go).                                     *)
(*                                                                         *)
(* frames is the goroutine's call stack of proxied methods.  What a body   *)
(* does is free: it runs statements, calls other proxied methods, catches  *)
(* or lets pass what they throw, returns a value or an error, or panics.   *)
(* Every step of the proxy that touches the session is exactly one action  *)
(* of LocalSession, and acts on the answer of that action.                 *)
(*                                                                         *)
(* The fields kind and tx of a frame and the variables keep and undo are   *)
(* history: they record what the documented meaning of the tags            *)
(* (src/tx/Propagation.go:7-14) makes of the calls, from the tags and the  *)
(* answers alone.  No guard reads them.                                    *)
(***************************************************************************)
EXTENDS Integers, SequencesExt

CONSTANTS Tx, Stmt,
          Tags,         \* the tx tags methods carry
          MaxFrames     \* bound on the depth of nested calls

VARIABLES txStack, newLocalSession, isClosed, txState, ranOn, unbound, ret,
          tls,          \* the session map holds the session
          frames,       \* calls in progress, outermost first
          pc,           \* where the innermost one stands
          keep,         \* history: statements a successful Commit vouches for
          undo          \* history: the statements that are to be undone

Nil == "nil"

Session == INSTANCE LocalSession WITH Props    <- {Nil},
                                      MaxDepth <- MaxFrames

Untagged == "untagged"  \* no tx tag
Mistyped == "mistyped"  \* a tx tag that names no propagation

(* Tags under which a call joins its caller or opens the only transaction, *)
(* and those of them under which no call is to be undone by itself.        *)
JoinTags == {"REQUIRED", "NESTED", "NEVER", "NOT_REQUIRED", Untagged, Mistyped}
UnitTags == JoinTags \ {"NESTED"}

ASSUME TxAssumption == Tx \cap {Session!AutoCommit, Session!NotRun} = {}
ASSUME TagsAssumption == Tags \subseteq Session!Propagation \cup {Untagged, Mistyped}
ASSUME FramesAssumption == MaxFrames \in Nat

sessionVars == <<txStack, newLocalSession, isClosed, txState, ranOn, unbound, ret>>
vars == <<txStack, newLocalSession, isClosed, txState, ranOn, unbound, ret,
          tls, frames, pc, keep, undo>>

Frame == [tag   : Tags,
          rb    : BOOLEAN,                  \* the rollback tag matches the error type
          owner : BOOLEAN,                  \* this call created the session
          kind  : {"new", "join", "nested", "none"},  \* history: what the tag asks for
          tx    : Tx \cup {Session!AutoCommit},   \* history: where its statements go
          wrote : SUBSET Stmt]              \* history: what its unit has executed

TypeOK == /\ Session!TypeOK
          /\ tls \in BOOLEAN
          /\ frames \in Seq(Frame)
          /\ pc \in {"idle", "begin", "body", "commit", "rollback", "panicked",
                     "leave", "throw"}
          /\ keep \in SUBSET Stmt
          /\ undo \in SUBSET Stmt

(* The session's method called in this step answers an error.              *)
Failed == ret'.err = Session!Error

-----------------------------------------------------------------------------
(* Depth is what nesting adds: callers below the innermost are in "body".  *)
Depth == Len(frames)
Inner == Last(frames)

(* An unknown tag is taken for REQUIRED.                                   *)
NewPropagation(tag) == IF tag \in Session!Propagation THEN tag ELSE "REQUIRED"

(* A method without a tag begins with the propagation of the transaction   *)
(* it finds itself in, and with nil outside one.                           *)
PropagationOf(tag) == IF tag = Untagged THEN Session!LastPROPAGATION
                                        ELSE NewPropagation(tag)

(* History: what the documentation says a call with this tag runs in.      *)
CallerInTx == Depth > 1 /\ frames[Depth - 1].kind # "none"
Kind(tag) ==
  IF tag = "REQUIRES_NEW" THEN "new"
  ELSE IF CallerInTx
    THEN IF tag \in {"NOT_SUPPORTED", "NEVER", "NOT_REQUIRED"} THEN "none"
         ELSE IF tag = "NESTED" THEN "nested" ELSE "join"
    ELSE IF tag \in {"REQUIRED", "NESTED", "NOT_REQUIRED", Mistyped} THEN "new" ELSE "none"

-----------------------------------------------------------------------------
Init == /\ txStack = <<>>
        /\ newLocalSession = Session!NoSession
        /\ isClosed = TRUE              \* no session has been created yet
        /\ txState = [t \in Tx |-> "unused"]
        /\ ranOn = [s \in Stmt |-> Session!NotRun]
        /\ unbound = {}
        /\ ret = [op |-> "New", err |-> Session!NoError]
        /\ tls = FALSE
        /\ frames = <<>>
        /\ pc = "idle"
        /\ keep = {}
        /\ undo = {}

(* A proxied method is called, from outside or from a body.  The session   *)
(* map is asked for a session; without one, one is created and put there.  *)
(* engine.NewSession may fail as well: then the call panics at once and    *)
(* nothing has changed, a step that leaves the state as it is.             *)
Call(tag, rb) ==
  /\ pc \in {"idle", "body"}
  /\ Depth < MaxFrames
  /\ frames' = Append(frames, [tag |-> tag, rb |-> rb, owner |-> ~tls, kind |-> "none",
                               tx |-> Session!AutoCommit, wrote |-> {}])
  /\ tls' = TRUE
  /\ IF tls THEN UNCHANGED sessionVars ELSE Session!New
  /\ pc' = "begin"
  /\ UNCHANGED <<keep, undo>>

(* session.Begin; an error is thrown before the body is entered.           *)
DoBegin ==
  /\ pc = "begin"
  /\ Session!Begin(PropagationOf(Inner.tag))
  /\ IF Failed
       THEN /\ pc' = "throw"
            /\ UNCHANGED frames
       ELSE /\ pc' = "body"
            /\ frames' = [frames EXCEPT ![Depth].kind = Kind(Inner.tag),
                                        ![Depth].tx   = Session!Target']
  /\ UNCHANGED <<tls, keep, undo>>

(* The body runs a statement through a mapper, which finds the session in  *)
(* the map.  A statement in no transaction is durable once it has run.     *)
BodyExec(s) ==
  /\ pc = "body"
  /\ Session!ExecPrepare(s)
  /\ IF Failed THEN UNCHANGED <<frames, keep>>
     ELSE IF Inner.kind = "none"
       THEN keep' = keep \cup {s} /\ UNCHANGED frames
       ELSE frames' = [frames EXCEPT ![Depth].wrote = @ \cup {s}] /\ UNCHANGED keep
  /\ UNCHANGED <<tls, pc, undo>>

(* The body returns.  Its results ask for a rollback only if the method    *)
(* has a rollback tag and an error of that type is not nil.                *)
Return(failed) ==
  /\ pc = "body"
  /\ pc' = IF failed /\ Inner.rb THEN "rollback" ELSE "commit"
  /\ UNCHANGED <<sessionVars, tls, frames, keep, undo>>

Panic ==
  /\ pc = "body"
  /\ pc' = "panicked"
  /\ UNCHANGED <<sessionVars, tls, frames, keep, undo>>

(* A body recovers from what a method it called has thrown.                *)
Catch ==
  /\ pc = "panicked"
  /\ pc' = "body"
  /\ UNCHANGED <<sessionVars, tls, frames, keep, undo>>

-----------------------------------------------------------------------------
(* History: whether a rollback of this call undoes its statements by       *)
(* itself; of a nested one it does (README.md:225, tx/Propagation.go:13).  *)
Decides(f) == f.kind \in {"new", "nested"}

(* Statements that are not undone are judged with those of the caller when *)
(* the transaction is the caller's.                                        *)
Joins(f) == f.kind \in {"join", "nested"}
HandOver(f) == IF Joins(f) /\ Depth > 1
                 THEN [Front(frames) EXCEPT ![Depth - 1].wrote = @ \cup f.wrote]
                 ELSE Front(frames)

DoCommit ==
  /\ pc = "commit"
  /\ Session!Commit
  /\ pc' = IF Failed THEN "throw" ELSE "leave"
  /\ keep' = IF ~Failed /\ Inner.kind = "new" THEN keep \cup Inner.wrote ELSE keep
  /\ UNCHANGED <<tls, frames, undo>>

(* Mutant of DoRollback: a panic passes without a Rollback.                *)
PanicLeavesBracket ==
  /\ pc \in {"rollback", "panicked"}
  /\ IF pc = "rollback" THEN Session!Rollback ELSE UNCHANGED sessionVars
  /\ pc' = IF Failed \/ pc = "panicked" THEN "throw" ELSE "leave"
  /\ UNCHANGED <<tls, frames, keep, undo>>

(* Rollback because of the results, or because the body panicked; the      *)
(* latter throws on what it recovered.                                     *)
DoRollback ==
  /\ pc \in {"rollback", "panicked"}
  /\ Session!Rollback
  /\ pc' = IF Failed \/ pc = "panicked" THEN "throw" ELSE "leave"
  /\ undo' = IF Decides(Inner) THEN undo \cup Inner.wrote ELSE undo
  /\ frames' = [frames EXCEPT ![Depth].wrote = IF Decides(Inner) THEN {} ELSE @]
  /\ UNCHANGED <<tls, keep>>

(* Mutant of Closes: the session is closed only on the normal return.      *)
ClosesOnReturn == Inner.owner /\ pc = "leave"

Closes == Inner.owner

(* The call is over: the one that created the session closes it and takes  *)
(* it out of the map, also when it throws.  The caller goes on, or panics. *)
Leave ==
  /\ pc \in {"leave", "throw"}
  /\ IF Closes THEN Session!Close /\ tls' = FALSE
               ELSE UNCHANGED <<sessionVars, tls>>
  /\ frames' = HandOver(Inner)
  /\ pc' = IF Depth = 1 THEN "idle" ELSE IF pc = "throw" THEN "panicked" ELSE "body"
  /\ UNCHANGED <<keep, undo>>

Next == \/ \E tag \in Tags, rb \in BOOLEAN : Call(tag, rb)
        \/ DoBegin
        \/ \E s \in Stmt : BodyExec(s)
        \/ \E failed \in BOOLEAN : Return(failed)
        \/ Panic
        \/ Catch
        \/ DoCommit
        \/ DoRollback
        \/ Leave

Spec == Init /\ [][Next]_vars

-----------------------------------------------------------------------------
(* For every mix of tags.                                                  *)

(* The session in the map is the one of the calls in progress: it is there *)
(* and open as long as any of them may use it, however deep and whatever   *)
(* the inner ones did, only the outermost owns it, and nothing of it stays *)
(* behind for the goroutine's next call                                    *)
(* (TransactionAspectSupport.go:35-51).                                    *)
TlsMatchesFrames == /\ tls <=> frames # <<>>
                    /\ isClosed <=> frames = <<>>
                    /\ \A i \in 1..Depth : frames[i].owner <=> i = 1

(* The calls that have begun and not yet ended.                            *)
Begun == Depth - (IF pc \in {"begin", "leave", "throw"} THEN 1 ELSE 0)

(* Brackets: the session never holds more stack entries and children than  *)
(* there are calls left that will each end one.  So the outermost call     *)
(* finds nothing left to roll back when it closes the session, on every    *)
(* path through errors and panics (TransactionAspectSupport.go:52-75, 86). *)
Bracketed == Len(txStack) + (IF newLocalSession.live THEN 1 ELSE 0) <= Begun

-----------------------------------------------------------------------------
(* What the tags promise.                                                  *)

(* A call that joins its caller's transaction, or nests in it, runs its    *)
(* statements on the very transaction its caller's run on                  *)
(* (Propagation.go:7,13).  With SUPPORTS and MANDATORY, which are to join  *)
(* as well (Propagation.go:8,9), the code breaks this: Begin pushes a      *)
(* second transaction for them (LocalSession.go:166, 179).                 *)
JoinSharesTx ==
  \A i \in 2..Depth : Joins(frames[i]) => frames[i].tx = frames[i-1].tx

(* While a call that has opened a transaction is running, suspended or     *)
(* not, no other call ends that transaction (Propagation.go:10,11).        *)
Running(i) == i < Depth \/ pc \in {"body", "panicked", "commit", "rollback"}
OwnTxStaysOpen ==
  \A i \in 1..Depth :
     frames[i].kind = "new" /\ Running(i) =>
        frames[i].tx \in Tx /\ txState[frames[i].tx] = "open"

Durable == Session!Durable

(* A statement is durable once the Commit of the call that opened its      *)
(* transaction has answered no error, or at once outside a transaction:    *)
(* nothing that the calls in between did or threw has cost it              *)
(* (TransactionAspectSupport.go:65-69).                                    *)
KeepIsDurable == keep \subseteq Durable

(* Nothing is durable of a transaction whose own call asked for a rollback *)
(* or panicked (TransactionAspectSupport.go:11, 71, 86).  With NESTED,     *)
(* whose call is to be rolled back by itself (README.md:225), the code     *)
(* breaks this: its Rollback pops an entry and undoes nothing              *)
(* (LocalSession.go:79, 232).                                              *)
UndoIsUndone == Durable \cap undo = {}

(* When the goroutine is back outside all calls the database holds no open *)
(* transaction of its.  With two REQUIRES_NEW calls nested in a            *)
(* transaction the code breaks this: the second child replaces the first,  *)
(* whose transaction nothing can end any more (LocalSession.go:200).       *)
NoTxLeft == frames = <<>> => \A t \in Tx : txState[t] # "open"

(* All the calls of a goroutine, however they nest, are one unit of work   *)
(* at the database: no inner call decides anything, the outermost that has *)
(* a transaction decides for every statement run since, once.  NESTED      *)
(* calls are left out (TxUnit; the README of src/tx:5,                     *)
(* TransactionAspectSupport.go:52-86).                                     *)
CallsAreOneUnit == Session!Unit

(* What the documentation promises and the code breaks, all of it in one   *)
(* run of one goroutine: a SUPPORTS or MANDATORY call joins the transaction *)
(* of its caller and begins none (Propagation.go:8,9, README.md:220,221);  *)
(* the transaction of a caller is suspended by a NOT_SUPPORTED call and    *)
(* stays its own (OwnTxStaysOpen; Propagation.go:10, README.md:222,223); a *)
(* nested call is rolled back by itself (UndoIsUndone; Propagation.go:13,  *)
(* README.md:225); and arguments are sent with the statement they are      *)
(* given for (ArgsReachDatabase; SqlEngine.go:20,22).                      *)
BeginsNone(f, caller) == f.tx \in {caller.tx, Session!AutoCommit}
SupportsJoins ==
  \A i \in 2..Depth :
    frames[i].tag \in {"SUPPORTS", "MANDATORY"} => BeginsNone(frames[i], frames[i-1])

SomePromiseKept ==
  SupportsJoins \/ OwnTxStaysOpen \/ UndoIsUndone \/ Session!ArgsReachDatabase
=============================================================================
