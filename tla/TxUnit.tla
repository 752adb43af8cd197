------------------------------- MODULE TxUnit -------------------------------
(***************************************************************************)
(* What a session promises to the code that brackets its work in           *)
(* Begin/Commit/Rollback pairs, whatever it does inside: the work is one   *)
(* unit.  Brackets nest; the inner ones change nothing but the depth; the  *)
(* outermost one decides for every statement of the unit at once.  A       *)
(* statement outside any bracket is durable as soon as it has run.         *)
(*                                                                         *)
(* This is the protocol of src/tx/README.md ("while the stack holds more   *)
(* than one element Commit and Rollback are ignored, until the method that *)
(* opened the transaction calls them").  LocalSession implements it for    *)
(* the propagations of UnitProps; see the property Unit there.  NESTED is  *)
(* outside of it: README.md:225 and src/tx/Propagation.go:13 promise that  *)
(* a nested bracket is rolled back by itself.                              *)
(***************************************************************************)
EXTENDS Naturals

CONSTANT Stmt             \* the statements callers run

VARIABLES depth,          \* brackets entered and not yet left
          pending,        \* statements whose fate the outermost bracket decides
          durable,        \* statements that have taken effect for good
          ret             \* the answer to the last call: [op, err]

vars == <<depth, pending, durable, ret>>

Ops == {"New", "Begin", "Commit", "Rollback", "Close", "Exec", "ExecPrepare"}

NoError == "nil"
Error == "error"

Answered(op, err) == ret' = [op |-> op, err |-> err]

Init == /\ depth = 0
        /\ pending = {}
        /\ durable = {}
        /\ ret = [op |-> "New", err |-> NoError]

(* A bracket is opened.                                                    *)
Enter == /\ depth' = depth + 1
         /\ Answered("Begin", NoError)
         /\ UNCHANGED <<pending, durable>>

(* A call that does nothing to the unit, or that is refused; a Commit or a *)
(* Rollback is one only when no bracket is open.                           *)
Idle == /\ \E op \in Ops, err \in {NoError, Error} :
              /\ op \in {"Commit", "Rollback"} => depth = 0
              /\ Answered(op, err)
        /\ UNCHANGED <<depth, pending, durable>>

(* A statement takes effect; its answer may be an error all the same.      *)
Write(s) == /\ s \notin pending \cup durable
            /\ \E op \in {"Exec", "ExecPrepare"}, err \in {NoError, Error} :
                  Answered(op, err)
            /\ IF depth > 0
                 THEN pending' = pending \cup {s} /\ UNCHANGED durable
                 ELSE durable' = durable \cup {s} /\ UNCHANGED pending
            /\ UNCHANGED depth

(* Leaving an inner bracket decides nothing, and cannot fail.              *)
LeaveInner == /\ depth > 1
              /\ depth' = depth - 1
              /\ \E op \in {"Commit", "Rollback"} : Answered(op, NoError)
              /\ UNCHANGED <<pending, durable>>

(* The outermost Commit: the whole unit or, only if it answers an error,   *)
(* possibly nothing of it.                                                 *)
CommitUnit == /\ depth = 1
              /\ depth' = 0
              /\ pending' = {}
              /\ \E err \in {NoError, Error} :
                    /\ Answered("Commit", err)
                    /\ \/ durable' = durable \cup pending
                       \/ err = Error /\ UNCHANGED durable

(* The outermost Rollback undoes the whole unit, whatever it answers.      *)
RollbackUnit == /\ depth = 1
                /\ depth' = 0
                /\ pending' = {}
                /\ \E err \in {NoError, Error} : Answered("Rollback", err)
                /\ UNCHANGED durable

(* Closing the session at any depth undoes the whole unit.                 *)
Close == /\ depth' = 0
         /\ pending' = {}
         /\ Answered("Close", NoError)
         /\ UNCHANGED durable

Next == \/ Enter
        \/ Idle
        \/ \E s \in Stmt : Write(s)
        \/ LeaveInner
        \/ CommitUnit
        \/ RollbackUnit
        \/ Close

Spec == Init /\ [][Next]_vars
=============================================================================
