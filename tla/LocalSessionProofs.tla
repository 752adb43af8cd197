------------------------- MODULE LocalSessionProofs -------------------------
(***************************************************************************)
(* Proofs about LocalSession, for any sets of transactions, statements and *)
(* propagations and any bound on the depth: first under any caller, then,  *)
(* from Joined on, under callers that pass only joining propagations.      *)
(***************************************************************************)
EXTENDS LocalSession, SequenceTheorems, TLAPS

-----------------------------------------------------------------------------
(* Stacks.                                                                 *)

(* The first n entries of a stack.                                         *)
LEMMA SubSeqPrefix ==
  ASSUME NEW S, NEW s \in Seq(S), NEW n \in 0..Len(s)
  PROVE  /\ SubSeq(s, 1, n) \in Seq(S)
         /\ Len(SubSeq(s, 1, n)) = n
         /\ \A i \in 1..n : SubSeq(s, 1, n)[i] = s[i]
<1>1. \A i \in 1..n : s[i] \in S
  OBVIOUS
<1>2. SubSeq(s, 1, n) \in Seq(S)
  BY <1>1, SubSeqProperties
<1>3. Len(SubSeq(s, 1, n)) = n
  <2>1. \A m, k \in Int : (\A i \in m..k : s[i] \in S)
                         => Len(SubSeq(s, m, k)) = IF m <= k THEN k - m + 1 ELSE 0
    BY SubSeqProperties, Zenon
  <2> QED
    BY <1>1, <2>1
<1>4. \A i \in 1..n : SubSeq(s, 1, n)[i] = s[i]
  BY <1>1
<1> QED
  BY <1>2, <1>3, <1>4

(* What TxStack.Pop leaves and what TxStack.Last returns.                  *)
LEMMA FrontLast ==
  ASSUME NEW S, NEW s \in Seq(S), Len(s) > 0
  PROVE  /\ Front(s) \in Seq(S)
         /\ Len(Front(s)) = Len(s) - 1
         /\ \A i \in 1..Len(s) - 1 : Front(s)[i] = s[i]
         /\ Last(s) \in S
         /\ Last(s) = s[Len(s)]
<1>1. \A i \in 1..Len(s) - 1 : s[i] \in S
  OBVIOUS
<1>2. /\ Front(s) \in Seq(S)
      /\ Len(Front(s)) = Len(s) - 1
      /\ \A i \in 1..Len(s) - 1 : Front(s)[i] = s[i]
  <2>1. \A n \in 0..Len(s) : /\ SubSeq(s, 1, n) \in Seq(S)
                            /\ Len(SubSeq(s, 1, n)) = n
                            /\ \A i \in 1..n : SubSeq(s, 1, n)[i] = s[i]
    BY SubSeqPrefix
  <2>2. Len(s) - 1 \in 0..Len(s)
    OBVIOUS
  <2> QED
    BY <2>1, <2>2, Zenon DEF Front
<1> QED
  BY <1>2 DEF Last

(* The transactions on an empty, a pushed and a popped stack.              *)
LEMMA TxsOfEmpty == TxsOf(<<>>) = {}
BY DEF TxsOf

LEMMA TxsOfPush ==
  ASSUME NEW s \in Seq(Entry), NEW e \in Entry
  PROVE  TxsOf(Append(s, e)) = TxsOf(s) \cup {e.tx}
BY DEF TxsOf

LEMMA TxsOfType ==
  ASSUME NEW s \in Seq(Entry)
  PROVE  TxsOf(s) \subseteq Tx
<1>1. \A i \in 1..Len(s) : s[i] \in Entry
  OBVIOUS
<1>2. \A e \in Entry : e.tx \in Tx
  BY DEF Entry
<1> QED
  BY <1>1, <1>2 DEF TxsOf

LEMMA TxsOfSingle ==
  ASSUME NEW s \in Seq(Entry), Len(s) = 1
  PROVE  TxsOf(s) = {s[1].tx}
BY DEF TxsOf

LEMMA TxsOfLast ==
  ASSUME NEW s \in Seq(Entry), Len(s) > 0
  PROVE  Last(s) \in Entry /\ Last(s).tx \in TxsOf(s)
<1>1. Last(s) \in Entry /\ Last(s) = s[Len(s)]
  BY FrontLast
<1> QED
  BY <1>1 DEF TxsOf

LEMMA TxsOfFront ==
  ASSUME NEW s \in Seq(Entry), Len(s) > 0
  PROVE  TxsOf(Front(s)) \subseteq TxsOf(s)
<1>1. /\ Front(s) \in Seq(Entry)
      /\ Len(Front(s)) = Len(s) - 1
      /\ \A i \in 1..Len(s) - 1 : Front(s)[i] = s[i]
  BY FrontLast
<1> QED
  BY <1>1 DEF TxsOf

-----------------------------------------------------------------------------
(* Types.                                                                  *)

TxStates == [Tx -> {"unused", "open", "committed", "rolledback"}]
Answered == [op : Ops, err : {NoError, Error}]

(* An answer of the database ends a transaction one way or the other.      *)
LEMMA AnswersType ==
  ASSUME NEW answers \in {CommitAnswers, RollbackAnswers}, NEW a \in answers
  PROVE  a.state \in {"committed", "rolledback"} /\ a.err \in {NoError, Error}
BY DEF CommitAnswers, RollbackAnswers

(* What a pop makes of the stack and of the transactions is well typed.    *)
LEMMA PopType ==
  ASSUME NEW stack \in Seq(Entry)
  PROVE  Pop(stack) \in Seq(Entry)
BY FrontLast DEF Pop

LEMMA PushType ==
  ASSUME NEW stack \in Seq(Entry), NEW e \in Entry
  PROVE  Append(stack, e) \in Seq(Entry) /\ <<e>> \in Seq(Entry)
OBVIOUS

(* A child with a stack, and no child.                                     *)
SessionType == [live : BOOLEAN, txStack : Seq(Entry)]

LEMMA ChildType ==
  /\ NoSession \in SessionType
  /\ \A stack \in Seq(Entry) : [live |-> TRUE, txStack |-> stack] \in SessionType
BY DEF SessionType, NoSession

LEMMA EndedType ==
  ASSUME NEW stack \in Seq(Entry), NEW state \in TxStates,
         NEW answers \in {CommitAnswers, RollbackAnswers}, NEW a \in answers
  PROVE  /\ Ended(stack, state, a) \in TxStates
         /\ EndErr(stack, a) \in {NoError, Error}
<1>1. a.state \in {"committed", "rolledback"} /\ a.err \in {NoError, Error}
  BY AnswersType
<1>2. Ended(stack, state, a) \in TxStates
  BY <1>1 DEF Ended, TxStates
<1> QED
  BY <1>1, <1>2 DEF EndErr

LEMMA AnswerType ==
  ASSUME NEW op \in Ops, NEW err \in {NoError, Error}, Answer(op, err)
  PROVE  ret' \in Answered
BY DEF Answer, Answered

(* What End does, its two cases written out.                               *)
LEMMA EndCases ==
  ASSUME NEW op, NEW answers, End(op, answers)
  PROVE  \E c, o \in answers :
           \/ /\ EndErr(newLocalSession.txStack, c) = Error
              /\ txState' = Ended(newLocalSession.txStack, txState, c)
              /\ Answer(op, Error)
              /\ UNCHANGED txStack
           \/ /\ EndErr(newLocalSession.txStack, c) = NoError
              /\ txState' = Ended(txStack, Ended(newLocalSession.txStack, txState, c), o)
              /\ txStack' = Pop(txStack)
              /\ Answer(op, EndErr(txStack, o))
BY DEF End

LEMMA EndType ==
  ASSUME DataOK, NEW op \in Ops, NEW answers \in {CommitAnswers, RollbackAnswers},
         End(op, answers)
  PROVE  DataOK'
<1> DEFINE child == newLocalSession.txStack
<1>1. PICK c \in answers, o \in answers :
         \/ /\ EndErr(child, c) = Error
            /\ txState' = Ended(child, txState, c)
            /\ Answer(op, Error)
            /\ UNCHANGED txStack
         \/ /\ EndErr(child, c) = NoError
            /\ txState' = Ended(txStack, Ended(child, txState, c), o)
            /\ txStack' = Pop(txStack)
            /\ Answer(op, EndErr(txStack, o))
  BY EndCases
<1>2. child \in Seq(Entry) /\ txState \in TxStates /\ txStack \in Seq(Entry)
  BY DEF DataOK, TxStates
<1>3. Ended(child, txState, c) \in TxStates
  BY <1>2, EndedType
<1>4. /\ Ended(txStack, Ended(child, txState, c), o) \in TxStates
      /\ EndErr(txStack, o) \in {NoError, Error}
      /\ Pop(txStack) \in Seq(Entry)
  BY <1>2, <1>3, EndedType, PopType
<1>5. txState' \in TxStates /\ txStack' \in Seq(Entry)
  BY <1>1, <1>2, <1>3, <1>4
<1>6. ret' \in Answered
  BY <1>1, <1>4, AnswerType
<1>7. newLocalSession' \in SessionType
  BY ChildType DEF End
<1>8. UNCHANGED <<ranOn, unbound>>
  BY DEF End
<1> QED
  BY <1>5, <1>6, <1>7, <1>8 DEF DataOK, TxStates, Answered, SessionType

(* A call that is refused because the session is closed changes nothing.   *)
LEMMA RefusedType ==
  ASSUME DataOK, NEW op \in Ops, RefusedClosed(op)
  PROVE  DataOK'
<1>1. ret' \in Answered
  BY AnswerType DEF RefusedClosed
<1>2. UNCHANGED <<txStack, newLocalSession, txState, ranOn, unbound>>
  BY DEF RefusedClosed, session
<1> QED
  BY <1>1, <1>2 DEF DataOK, Answered

(* The four outcomes of Begin on an open session.                          *)
LEMMA BeginType ==
  ASSUME DataOK, NEW p \in Propagation \cup {Nil}, Begin(p)
  PROVE  DataOK'
<1>1. CASE RefusedClosed("Begin")
  BY <1>1, RefusedType DEF Ops
<1> SUFFICES ASSUME BeginJoin(p) \/ BeginDb(p) \/ BeginNewSession(p) \/ BeginNothing(p),
                    UNCHANGED <<ranOn, unbound>>
             PROVE  DataOK'
  BY <1>1 DEF Begin
<1>2. ret' \in Answered
  <2>1. \E err \in {NoError, Error} : Answer("Begin", err)
    BY DEF BeginJoin, BeginDb, BeginNewSession, BeginNothing
  <2> QED
    BY <2>1, AnswerType DEF Ops
<1>3. \A t \in Tx : Opened(t) => txState' \in TxStates
  BY DEF Opened, DataOK, TxStates
<1>4. CASE BeginJoin(p)
  <2>1. txStack' \in Seq(Entry)
    <3>1. txStack \in Seq(Entry) /\ Len(txStack) > 0
      BY <1>4 DEF DataOK, BeginJoin, InTx
    <3>2. Last(txStack) \in Entry
      BY <3>1, FrontLast
    <3> QED
      BY <1>4, <3>1, <3>2 DEF BeginJoin
  <2>2. UNCHANGED <<newLocalSession, txState>>
    BY <1>4 DEF BeginJoin
  <2> QED
    BY <1>2, <2>1, <2>2 DEF DataOK, Answered
<1>5. CASE BeginDb(p)
  <2>1. \A t \in Tx : [tx |-> t, p |-> Pushed(p)] \in Entry
    BY <1>5 DEF Entry, Pushed, Propagation, BeginDb, OpensTx
  <2>2. txStack' \in Seq(Entry)
    <3>1. (\E t \in Tx : txStack' = Append(txStack, [tx |-> t, p |-> Pushed(p)]))
          \/ UNCHANGED txStack
      BY <1>5 DEF BeginDb
    <3>2. txStack \in Seq(Entry)
      BY DEF DataOK
    <3> QED
      BY <2>1, <3>1, <3>2, PushType, Zenon
  <2>3. txState' \in TxStates
    BY <1>3, <1>5 DEF BeginDb, DataOK, TxStates
  <2>4. UNCHANGED newLocalSession
    BY <1>5 DEF BeginDb
  <2> QED
    BY <1>2, <2>2, <2>3, <2>4 DEF DataOK, Answered, TxStates, SessionType
<1>6. CASE BeginNewSession(p)
  <2>1. \A t \in Tx : p = "REQUIRES_NEW" => [tx |-> t, p |-> p] \in Entry
    BY DEF Entry, Propagation
  <2>2. newLocalSession' \in SessionType
    <3>1. \/ \E t \in Tx : /\ p = "REQUIRES_NEW"
                          /\ newLocalSession' = [live |-> TRUE,
                                                 txStack |-> <<[tx |-> t, p |-> p]>>]
          \/ newLocalSession' = [live |-> TRUE, txStack |-> <<>>]
          \/ UNCHANGED newLocalSession
      BY <1>6 DEF BeginNewSession, Suspends, ChildStack
    <3>2. newLocalSession \in SessionType /\ <<>> \in Seq(Entry)
      BY DEF DataOK, SessionType
    <3> QED
      BY <2>1, <3>1, <3>2, PushType, ChildType, Zenon
  <2>3. txState' \in TxStates
    BY <1>3, <1>6 DEF BeginNewSession, Suspends, ChildStack, DataOK, TxStates
  <2>4. UNCHANGED txStack
    BY <1>6 DEF BeginNewSession, Suspends, ChildStack
  <2> QED
    BY <1>2, <2>2, <2>3, <2>4 DEF DataOK, Answered, TxStates, SessionType
<1>7. CASE BeginNothing(p)
  <2>1. UNCHANGED <<txStack, newLocalSession, txState>>
    BY <1>7 DEF BeginNothing, session
  <2> QED
    BY <1>2, <2>1 DEF DataOK, Answered
<1> QED
  BY <1>4, <1>5, <1>6, <1>7

LEMMA CloseLeavesType ==
  ASSUME NEW stack \in Seq(Entry)
  PROVE  /\ CloseLeaves(stack) \in Seq(Entry)
         /\ Len(CloseLeaves(stack)) = Len(stack) \div 2
         /\ \A i \in 1..Len(stack) \div 2 : CloseLeaves(stack)[i] = stack[i]
<1> DEFINE n == Len(stack) \div 2
<1>1. n \in Nat /\ n <= Len(stack)
  OBVIOUS
<1>2. \A i \in 1..n : stack[i] \in Entry
  BY <1>1
<1>3. /\ SubSeq(stack, 1, n) \in Seq(Entry)
      /\ Len(SubSeq(stack, 1, n)) = n
      /\ \A i \in 1..n : SubSeq(stack, 1, n)[i] = stack[i]
  <2> HIDE DEF n
  <2>1. n \in 0..Len(stack)
    BY <1>1
  <2> QED
    BY <2>1, SubSeqPrefix
<1> QED
  BY <1>3, Zenon DEF CloseLeaves

LEMMA CloseType ==
  ASSUME DataOK, Close
  PROVE  DataOK'
<1>1. ret' \in Answered
  BY AnswerType DEF Close, Ops
<1>2. txStack' \in Seq(Entry)
  <2>1. txStack \in Seq(Entry)
    BY DEF DataOK
  <2>2. CloseLeaves(txStack) \in Seq(Entry)
    BY <2>1, CloseLeavesType
  <2> QED
    BY <2>1, <2>2 DEF Close, session
<1>3. txState' \in TxStates
  BY DEF Close, DataOK, TxStates
<1>4. newLocalSession' \in SessionType
  <2>1. newLocalSession' = newLocalSession \/ newLocalSession' = NoSession
    BY DEF Close, session
  <2>2. newLocalSession \in SessionType
    BY DEF DataOK, SessionType
  <2> QED
    BY <2>1, <2>2, ChildType, Zenon
<1>5. UNCHANGED <<ranOn, unbound>>
  BY DEF Close
<1> QED
  BY <1>1, <1>2, <1>3, <1>4, <1>5 DEF DataOK, Answered, TxStates, SessionType

(* A statement runs on a transaction of the stack or on none.              *)
LEMMA TargetType ==
  ASSUME DataOK
  PROVE  Target \in Tx \cup {AutoCommit}
<1>1. \A stack \in Seq(Entry) : Top(stack) \in Tx \cup {AutoCommit}
  <2> SUFFICES ASSUME NEW stack \in Seq(Entry), Len(stack) > 0
               PROVE  Last(stack).tx \in Tx
    BY DEF Top
  <2>1. Last(stack) \in Entry
    BY FrontLast
  <2> QED
    BY <2>1 DEF Entry
<1> QED
  BY <1>1 DEF Target, DataOK

LEMMA RunType ==
  ASSUME DataOK, NEW op \in Ops, NEW s \in Stmt, Run(op, s), unbound' \in SUBSET Stmt
  PROVE  DataOK'
<1>1. ret' \in Answered
  BY AnswerType DEF Run
<1>2. ranOn' \in [Stmt -> Tx \cup {AutoCommit, NotRun}]
  BY TargetType DEF Run, DataOK
<1>3. UNCHANGED <<txStack, newLocalSession, txState>>
  BY DEF Run, session
<1> QED
  BY <1>1, <1>2, <1>3 DEF DataOK, Answered

(* Every action keeps the types.                                           *)
LEMMA DataStep == DataOK /\ [Next]_vars => DataOK'
<1> SUFFICES ASSUME DataOK, [Next]_vars PROVE DataOK'
  OBVIOUS
<1>1. CASE New
  <2>1. ret' \in Answered
    BY <1>1, AnswerType DEF New, Ops
  <2>2. txStack' = <<>> /\ newLocalSession' \in SessionType
    BY <1>1, ChildType DEF New
  <2>3. UNCHANGED <<txState, ranOn, unbound>>
    BY <1>1 DEF New
  <2> QED
    BY <2>1, <2>2, <2>3 DEF DataOK, Answered, SessionType
<1>2. ASSUME NEW p \in Props, Begin(p) PROVE DataOK'
  BY <1>2, BeginType, PropsAssumption
<1>3. CASE Commit
  BY <1>3, EndType, RefusedType DEF Commit, Ops
<1>4. CASE Rollback
  BY <1>4, EndType, RefusedType DEF Rollback, Ops
<1>5. CASE Close
  BY <1>5, CloseType
<1>6. ASSUME NEW s \in Stmt, Exec(s) PROVE DataOK'
  <2>1. unbound \in SUBSET Stmt
    BY DEF DataOK
  <2> QED
    BY <1>6, <2>1, RunType, RefusedType DEF Exec, Ops
<1>7. ASSUME NEW s \in Stmt, ExecPrepare(s) PROVE DataOK'
  <2>1. CASE RefusedClosed("ExecPrepare")
    BY <2>1, RefusedType DEF Ops
  <2>2. CASE Run("ExecPrepare", s) /\ unbound' \in SUBSET Stmt
    BY <2>2, RunType DEF Ops
  <2> QED
    BY <1>7, <2>1, <2>2 DEF ExecPrepare, DataOK
<1>8. CASE UNCHANGED vars
  BY <1>8 DEF vars, DataOK
<1> QED
  BY <1>1, <1>2, <1>3, <1>4, <1>5, <1>6, <1>7, <1>8 DEF Next

(* A session is closed or it is not.                                       *)
ClosedOK == isClosed \in BOOLEAN

LEMMA ClosedStep == ClosedOK /\ [Next]_vars => ClosedOK'
<1>1. \A p : Begin(p) => UNCHANGED isClosed
  BY DEF Begin, RefusedClosed, BeginJoin, BeginDb, BeginNewSession, BeginNothing, session
<1>2. Commit \/ Rollback => UNCHANGED isClosed
  BY DEF Commit, Rollback, RefusedClosed, End, session
<1>3. \A s : Exec(s) \/ ExecPrepare(s) => UNCHANGED isClosed
  BY DEF Exec, ExecPrepare, Run, RefusedClosed, session
<1> QED
  BY <1>1, <1>2, <1>3, Zenon DEF Next, New, Close, session, vars, ClosedOK

(* Every variable keeps its type.                                          *)
THEOREM TypeCorrect == Spec => []TypeOK
<1>1. Init => DataOK
  BY DEF Init, DataOK, NoSession, Ops
<1>2. Init => ClosedOK
  BY Zenon DEF Init, ClosedOK
<1>3. Spec => []DataOK
  BY <1>1, DataStep, PTL DEF Spec
<1>4. Spec => []ClosedOK
  BY <1>2, ClosedStep, PTL DEF Spec
<1> QED
  BY <1>3, <1>4, PTL DEF TypeOK, ClosedOK

-----------------------------------------------------------------------------
(* Transactions on the stacks are open.                                    *)
Child == newLocalSession.txStack

Live == /\ DataOK
        /\ StackIsLive
        /\ OneOwner

(* Ending a stack's transaction touches no transaction off that stack.     *)
LEMMA EndedFrame ==
  ASSUME NEW stack \in Seq(Entry), NEW state \in TxStates,
         NEW answers \in {CommitAnswers, RollbackAnswers}, NEW a \in answers,
         NEW t \in Tx, t \notin TxsOf(stack)
  PROVE  Ended(stack, state, a)[t] = state[t]
<1>1. CASE Len(stack) = 1
  <2>1. stack[1].tx # t
    BY <1>1, TxsOfSingle
  <2> QED
    BY <1>1, <2>1 DEF Ended, TxStates
<1>2. CASE Len(stack) # 1
  BY <1>2 DEF Ended
<1> QED
  BY <1>1, <1>2

(* A pop that ends a transaction leaves an empty stack.                    *)
LEMMA TxsOfPopped ==
  ASSUME NEW stack \in Seq(Entry)
  PROVE  /\ TxsOf(Pop(stack)) \subseteq TxsOf(stack)
         /\ Len(stack) = 1 => TxsOf(Pop(stack)) = {}
<1>1. CASE Len(stack) = 0
  BY <1>1, TxsOfEmpty DEF Pop
<1>2. CASE Len(stack) = 1
  <2>1. Len(Front(stack)) = 0
    BY <1>2, FrontLast
  <2>2. TxsOf(Front(stack)) = {}
    BY <2>1 DEF TxsOf
  <2> QED
    BY <1>2, <2>2 DEF Pop
<1>3. CASE Len(stack) > 1
  <2>1. Len(stack) > 0 /\ Len(stack) # 0 /\ Len(stack) # 1
    BY <1>3
  <2>2. TxsOf(Front(stack)) \subseteq TxsOf(stack)
    BY <2>1, TxsOfFront
  <2> QED
    BY <2>1, <2>2 DEF Pop
<1>4. Len(stack) = 0 \/ Len(stack) = 1 \/ Len(stack) > 1
  <2>1. \A n \in Nat : n = 0 \/ n = 1 \/ n > 1
    OBVIOUS
  <2>2. Len(stack) \in Nat
    OBVIOUS
  <2> QED
    BY <2>1, <2>2
<1> QED
  BY <1>1, <1>2, <1>3, <1>4, Zenon

LEMMA EndLive ==
  ASSUME Live, NEW op \in Ops, NEW answers \in {CommitAnswers, RollbackAnswers},
         End(op, answers)
  PROVE  StackIsLive' /\ OneOwner'
<1>1. /\ Child \in Seq(Entry) /\ txState \in TxStates /\ txStack \in Seq(Entry)
      /\ TxsOf(txStack) \subseteq Tx
  BY TxsOfType DEF Live, DataOK, TxStates, Child
<1>2. ~isClosed /\ newLocalSession' = NoSession
  BY DEF End
<1>3. TxsOf(newLocalSession'.txStack) = {}
  BY <1>2, TxsOfEmpty DEF NoSession
<1>4. /\ \A t \in TxsOf(txStack) : txState[t] = "open"
      /\ TxsOf(txStack) \cap TxsOf(Child) = {}
  BY <1>2 DEF Live, StackIsLive, OneOwner, Child
<1>5. PICK c \in answers, o \in answers :
         \/ /\ txState' = Ended(Child, txState, c)
            /\ UNCHANGED txStack
         \/ /\ txState' = Ended(txStack, Ended(Child, txState, c), o)
            /\ txStack' = Pop(txStack)
  BY EndCases DEF Child
<1>6. \A t \in TxsOf(txStack) : Ended(Child, txState, c)[t] = "open"
  BY <1>1, <1>4, EndedFrame
<1>7. \A t \in TxsOf(txStack') : txState'[t] = "open"
  <2>1. CASE txState' = Ended(Child, txState, c) /\ UNCHANGED txStack
    BY <1>6, <2>1
  <2>2. CASE /\ txState' = Ended(txStack, Ended(Child, txState, c), o)
             /\ txStack' = Pop(txStack)
             /\ Len(txStack) = 1
    BY <1>1, <2>2, TxsOfPopped
  <2>3. CASE /\ txState' = Ended(txStack, Ended(Child, txState, c), o)
             /\ txStack' = Pop(txStack)
             /\ Len(txStack) # 1
    BY <1>1, <1>6, <2>3, TxsOfPopped DEF Ended
  <2> QED
    BY <1>5, <2>1, <2>2, <2>3
<1> QED
  BY <1>3, <1>7 DEF StackIsLive, OneOwner

LEMMA BeginLive ==
  ASSUME Live, NEW p \in Propagation \cup {Nil}, Begin(p)
  PROVE  StackIsLive' /\ OneOwner'
<1>1. /\ Child \in Seq(Entry) /\ txState \in TxStates /\ txStack \in Seq(Entry)
      /\ TxsOf(txStack) \subseteq Tx /\ TxsOf(Child) \subseteq Tx
  BY TxsOfType DEF Live, DataOK, TxStates, Child
<1>2. CASE RefusedClosed("Begin")
  BY <1>2 DEF RefusedClosed, session, Live, StackIsLive, OneOwner
<1> SUFFICES ASSUME ~isClosed,
                    BeginJoin(p) \/ BeginDb(p) \/ BeginNewSession(p) \/ BeginNothing(p)
             PROVE  StackIsLive' /\ OneOwner'
  BY <1>2 DEF Begin
<1>3. /\ \A t \in TxsOf(txStack) \cup TxsOf(Child) : txState[t] = "open"
      /\ TxsOf(txStack) \cap TxsOf(Child) = {}
  BY DEF Live, StackIsLive, OneOwner, Child
<1>4. \A t \in Tx : Opened(t) =>
         /\ t \notin TxsOf(txStack) \cup TxsOf(Child)
         /\ \A u \in TxsOf(txStack) \cup TxsOf(Child) \cup {t} : txState'[u] = "open"
  BY <1>1, <1>3 DEF Opened, TxStates
<1>5. CASE BeginJoin(p)
  <2>1. txStack' = Append(txStack, Last(txStack)) /\ Len(txStack) > 0
    BY <1>5, <1>1 DEF BeginJoin, InTx
  <2>2. Last(txStack) \in Entry /\ Last(txStack).tx \in TxsOf(txStack)
    BY <1>1, <2>1, TxsOfLast, Zenon
  <2>3. TxsOf(txStack') = TxsOf(txStack)
    <3>1. TxsOf(Append(txStack, Last(txStack))) = TxsOf(txStack) \cup {Last(txStack).tx}
      BY <1>1, <2>2, TxsOfPush, Zenon
    <3> QED
      BY <2>1, <2>2, <3>1, Zenon
  <2>4. UNCHANGED <<newLocalSession, isClosed, txState>>
    BY <1>5 DEF BeginJoin
  <2> QED
    BY <1>3, <2>3, <2>4 DEF StackIsLive, OneOwner, Child
<1>6. CASE BeginDb(p)
  <2>1. UNCHANGED newLocalSession
    BY <1>6 DEF BeginDb
  <2>2. CASE UNCHANGED <<txStack, txState>>
    BY <1>3, <2>1, <2>2 DEF StackIsLive, OneOwner, Child
  <2>3. ASSUME NEW t \in Tx, Opened(t),
               txStack' = Append(txStack, [tx |-> t, p |-> Pushed(p)])
        PROVE  StackIsLive' /\ OneOwner'
    <3>1. [tx |-> t, p |-> Pushed(p)] \in Entry
      BY <1>6 DEF Entry, Pushed, Propagation, BeginDb, OpensTx
    <3>2. TxsOf(txStack') = TxsOf(txStack) \cup {t}
      BY <1>1, <2>3, <3>1, TxsOfPush
    <3> QED
      BY <1>3, <1>4, <2>1, <2>3, <3>2 DEF StackIsLive, OneOwner, Child
  <2> QED
    BY <1>6, <2>2, <2>3 DEF BeginDb
<1>7. CASE BeginNewSession(p)
  <2>1. UNCHANGED txStack
    BY <1>7 DEF BeginNewSession, Suspends, ChildStack
  <2>2. CASE UNCHANGED <<newLocalSession, txState>>
    BY <1>3, <2>1, <2>2 DEF StackIsLive, OneOwner, Child
  <2>3. CASE newLocalSession' = [live |-> TRUE, txStack |-> <<>>] /\ UNCHANGED txState
    <3>1. TxsOf(newLocalSession'.txStack) = {}
      BY <2>3, TxsOfEmpty
    <3> QED
      BY <1>3, <2>1, <2>3, <3>1 DEF StackIsLive, OneOwner, Child
  <2>4. ASSUME NEW t \in Tx, Opened(t),
               newLocalSession' = [live |-> TRUE, txStack |-> <<[tx |-> t, p |-> p]>>]
        PROVE  StackIsLive' /\ OneOwner'
    <3>1. TxsOf(newLocalSession'.txStack) = {t}
      BY <2>4 DEF TxsOf
    <3> QED
      BY <1>3, <1>4, <2>1, <2>4, <3>1 DEF StackIsLive, OneOwner, Child
  <2> QED
    BY <1>7, <2>2, <2>3, <2>4 DEF BeginNewSession, Suspends, ChildStack
<1>8. CASE BeginNothing(p)
  BY <1>8 DEF BeginNothing, session, Live, StackIsLive, OneOwner
<1> QED
  BY <1>5, <1>6, <1>7, <1>8

LEMMA LiveStep == Live /\ [Next]_vars => Live'
<1> SUFFICES ASSUME Live, [Next]_vars PROVE StackIsLive' /\ OneOwner'
  BY DataStep DEF Live
<1>1. CASE UNCHANGED session /\ UNCHANGED txState
  BY <1>1 DEF session, Live, StackIsLive, OneOwner
<1>2. CASE New
  <2>1. TxsOf(txStack') = {} /\ TxsOf(newLocalSession'.txStack) = {}
    BY <1>2, TxsOfEmpty DEF New, NoSession
  <2> QED
    BY <2>1 DEF StackIsLive, OneOwner
<1>3. ASSUME NEW p \in Props, Begin(p) PROVE StackIsLive' /\ OneOwner'
  BY <1>3, BeginLive, PropsAssumption
<1>4. CASE Commit
  BY <1>1, <1>4, EndLive DEF Commit, RefusedClosed, Ops
<1>5. CASE Rollback
  BY <1>1, <1>5, EndLive DEF Rollback, RefusedClosed, Ops
<1>6. CASE Close
  <2>1. CASE isClosed
    BY <1>1, <1>6, <2>1 DEF Close
  <2>2. CASE ~isClosed
    <3>1. isClosed' /\ TxsOf(newLocalSession'.txStack) = {}
      BY <1>6, <2>2, TxsOfEmpty DEF Close, NoSession
    <3> QED
      BY <3>1 DEF StackIsLive, OneOwner
  <2> QED
    BY <2>1, <2>2
<1>7. ASSUME NEW s \in Stmt, Exec(s) \/ ExecPrepare(s)
      PROVE  StackIsLive' /\ OneOwner'
  BY <1>1, <1>7 DEF Exec, ExecPrepare, Run, RefusedClosed
<1>8. CASE UNCHANGED vars
  BY <1>1, <1>8 DEF vars, session
<1> QED
  BY <1>2, <1>3, <1>4, <1>5, <1>6, <1>7, <1>8 DEF Next

LEMMA LiveInit == Init => Live
<1>1. Init => DataOK
  BY DEF Init, DataOK, NoSession, Ops
<1>2. Init => TxsOf(txStack) = {} /\ TxsOf(newLocalSession.txStack) = {}
  BY TxsOfEmpty DEF Init, NoSession
<1> QED
  BY <1>1, <1>2 DEF Live, StackIsLive, OneOwner

LEMMA LiveInvariant == Spec => []Live
BY LiveInit, LiveStep, PTL DEF Spec

(* Every transaction a usable session still refers to is open              *)
(* (LocalSession.go:59-86, 106-133, 282-287).                              *)
THEOREM StacksAreLive == Spec => []StackIsLive
BY LiveInvariant, PTL DEF Live

(* The child's transaction is never the caller's                           *)
(* (LocalSession.go:188-200).                                              *)
THEOREM ChildHasItsOwn == Spec => []OneOwner
BY LiveInvariant, PTL DEF Live

-----------------------------------------------------------------------------
(* A transaction is ended once.                                            *)

(* A pop ends an open transaction and touches no other.                    *)
LEMMA EndedOnceByPop ==
  ASSUME NEW stack \in Seq(Entry), NEW state \in TxStates,
         NEW answers \in {CommitAnswers, RollbackAnswers}, NEW a \in answers,
         \A t \in TxsOf(stack) : state[t] = "open",
         NEW t \in Tx, Ended(stack, state, a)[t] # state[t]
  PROVE  /\ state[t] = "open"
         /\ Ended(stack, state, a)[t] \in {"committed", "rolledback"}
<1>1. t \in TxsOf(stack)
  BY EndedFrame
<1>2. Len(stack) = 1
  BY DEF Ended
<1>3. t = stack[1].tx
  BY <1>1, <1>2, TxsOfSingle
<1>4. a.state \in {"committed", "rolledback"}
  BY AnswersType
<1> QED
  BY <1>1, <1>2, <1>3, <1>4 DEF Ended, TxStates

LEMMA EndEndsOnce ==
  ASSUME Live, NEW op \in Ops, NEW answers \in {CommitAnswers, RollbackAnswers},
         End(op, answers)
  PROVE  EndsOnce
<1>1. /\ Child \in Seq(Entry) /\ txState \in TxStates /\ txStack \in Seq(Entry)
      /\ TxsOf(txStack) \subseteq Tx
  BY TxsOfType DEF Live, DataOK, TxStates, Child
<1>2. ~isClosed
  BY DEF End
<1>3. /\ \A t \in TxsOf(txStack) : txState[t] = "open"
      /\ \A t \in TxsOf(Child) : txState[t] = "open"
      /\ TxsOf(txStack) \cap TxsOf(Child) = {}
  BY <1>2 DEF Live, StackIsLive, OneOwner, Child
<1>4. PICK c \in answers, o \in answers :
         \/ txState' = Ended(Child, txState, c)
         \/ txState' = Ended(txStack, Ended(Child, txState, c), o)
  BY EndCases DEF Child
<1> DEFINE mid == Ended(Child, txState, c)
<1>5. mid \in TxStates
  BY <1>1, EndedType
<1>6. \A t \in Tx : mid[t] # txState[t] =>
                     txState[t] = "open" /\ mid[t] \in {"committed", "rolledback"}
  BY <1>1, <1>3, EndedOnceByPop
<1>7. \A t \in TxsOf(txStack) : mid[t] = "open"
  BY <1>1, <1>3, EndedFrame
<1> HIDE DEF mid
<1>8. \A t \in Tx : Ended(txStack, mid, o)[t] # mid[t] =>
                     /\ mid[t] = "open"
                     /\ Ended(txStack, mid, o)[t] \in {"committed", "rolledback"}
  BY <1>1, <1>5, <1>7, EndedOnceByPop
<1>9. txState' = mid \/ txState' = Ended(txStack, mid, o)
  BY <1>4 DEF mid
<1> QED
  BY <1>6, <1>8, <1>9 DEF EndsOnce

LEMMA EndsOnceStep == Live /\ [Next]_vars => EndsOnce
<1> SUFFICES ASSUME Live, [Next]_vars PROVE EndsOnce
  OBVIOUS
<1>1. txState \in TxStates
  BY DEF Live, DataOK, TxStates
<1>2. CASE UNCHANGED txState
  BY <1>2 DEF EndsOnce
<1>3. ASSUME NEW t \in Tx, Opened(t) PROVE EndsOnce
  BY <1>1, <1>3 DEF Opened, EndsOnce, TxStates
<1>4. ASSUME NEW p \in Props, Begin(p) PROVE EndsOnce
  BY <1>2, <1>3, <1>4 DEF Begin, RefusedClosed, BeginJoin, BeginDb, BeginNewSession,
                          BeginNothing
<1>5. CASE Commit
  BY <1>2, <1>5, EndEndsOnce DEF Commit, RefusedClosed, Ops
<1>6. CASE Rollback
  BY <1>2, <1>6, EndEndsOnce DEF Rollback, RefusedClosed, Ops
<1>7. CASE Close
  BY <1>1, <1>2, <1>7 DEF Close, EndsOnce, TxStates
<1>8. CASE New \/ UNCHANGED vars
  BY <1>2, <1>8 DEF New, vars
<1>9. ASSUME NEW s \in Stmt, Exec(s) \/ ExecPrepare(s) PROVE EndsOnce
  BY <1>2, <1>9 DEF Exec, ExecPrepare, Run, RefusedClosed
<1> QED
  BY <1>4, <1>5, <1>6, <1>7, <1>8, <1>9 DEF Next

(* No call of any session changes the fate of an ended transaction.        *)
THEOREM TxsEndOnce == Spec => EndedOnce
<1>1. Live /\ [Next]_vars => [EndsOnce]_vars
  BY EndsOnceStep
<1> QED
  BY <1>1, LiveInvariant, PTL DEF Spec, EndedOnce

-----------------------------------------------------------------------------
(* A child exists only inside a transaction.                               *)
LEMMA ChildStep == DataOK /\ ChildOnlyWithinTx /\ [Next]_vars => ChildOnlyWithinTx'
<1> SUFFICES ASSUME DataOK, ChildOnlyWithinTx, [Next]_vars PROVE ChildOnlyWithinTx'
  OBVIOUS
<1>1. CASE UNCHANGED session
  BY <1>1 DEF session, ChildOnlyWithinTx, InTx
<1>2. CASE newLocalSession' = NoSession
  BY <1>2 DEF NoSession, ChildOnlyWithinTx
<1>3. ASSUME NEW p \in Props, Begin(p) PROVE ChildOnlyWithinTx'
  <2>1. CASE RefusedClosed("Begin") \/ BeginNothing(p)
    BY <1>1, <2>1 DEF RefusedClosed, BeginNothing
  <2>2. CASE BeginNewSession(p) /\ ~isClosed
    BY <2>2 DEF BeginNewSession, Suspends, ChildStack, ChildOnlyWithinTx, InTx
  <2>3. CASE BeginJoin(p) \/ BeginDb(p)
    <3>1. /\ UNCHANGED <<newLocalSession, isClosed>>
          /\ UNCHANGED txStack \/ \E e : txStack' = Append(txStack, e)
      BY <2>3 DEF BeginJoin, BeginDb
    <3>2. txStack \in Seq(Entry)
      BY DEF DataOK
    <3>3. InTx => InTx'
      BY <3>1, <3>2 DEF InTx
    <3> QED
      BY <3>1, <3>3 DEF ChildOnlyWithinTx
  <2> QED
    BY <1>3, <2>1, <2>2, <2>3 DEF Begin
<1>4. CASE Commit \/ Rollback
  BY <1>1, <1>2, <1>4 DEF Commit, Rollback, RefusedClosed, End
<1>5. CASE Close \/ New
  BY <1>1, <1>2, <1>5 DEF Close, New
<1>6. ASSUME NEW s \in Stmt, Exec(s) \/ ExecPrepare(s) PROVE ChildOnlyWithinTx'
  BY <1>1, <1>6 DEF Exec, ExecPrepare, Run, RefusedClosed
<1>7. CASE UNCHANGED vars
  BY <1>1, <1>7 DEF vars, session
<1> QED
  BY <1>3, <1>4, <1>5, <1>6, <1>7 DEF Next

(* A child session takes the statements only inside a transaction.         *)
THEOREM ChildWithinTx == Spec => []ChildOnlyWithinTx
<1>1. Init => DataOK /\ ChildOnlyWithinTx
  BY LiveInit DEF Live, Init, NoSession, ChildOnlyWithinTx
<1> QED
  BY <1>1, DataStep, ChildStep, PTL DEF Spec

(* The child shares no transaction with the caller and does not outlive    *)
(* the one it suspends (LocalSession.go:55, 102, 188-200, 274).            *)
THEOREM ChildIsApart == Spec => []ChildApart
BY ChildHasItsOwn, ChildWithinTx, PTL DEF ChildApart

-----------------------------------------------------------------------------
(* NESTED never reaches a stack.                                           *)
LEMMA UnnestedPush ==
  ASSUME NEW s \in Seq(Entry), Unnested(s), NEW e \in Entry, e.p # "NESTED"
  PROVE  Unnested(Append(s, e))
BY DEF Unnested

LEMMA UnnestedLast ==
  ASSUME NEW s \in Seq(Entry), Unnested(s), Len(s) > 0
  PROVE  Last(s) \in Entry /\ Last(s).p # "NESTED"
<1>1. Last(s) \in Entry /\ Last(s) = s[Len(s)]
  BY FrontLast
<1> QED
  BY <1>1 DEF Unnested

LEMMA UnnestedPop ==
  ASSUME NEW s \in Seq(Entry), Unnested(s)
  PROVE  Unnested(Pop(s)) /\ Unnested(CloseLeaves(s))
<1>1. Unnested(Pop(s))
  <2>1. CASE Len(s) = 0
    BY <2>1 DEF Pop, Unnested
  <2>2. CASE Len(s) > 0
    <3>1. /\ Len(Front(s)) = Len(s) - 1
          /\ \A i \in 1..Len(s) - 1 : Front(s)[i] = s[i]
      BY <2>2, FrontLast
    <3> QED
      BY <2>2, <3>1 DEF Pop, Unnested
  <2> QED
    BY <2>1, <2>2
<1>2. Unnested(CloseLeaves(s))
  <2>1. /\ Len(CloseLeaves(s)) = Len(s) \div 2
        /\ \A i \in 1..Len(s) \div 2 : CloseLeaves(s)[i] = s[i]
    BY CloseLeavesType
  <2> QED
    BY <2>1 DEF Unnested
<1> QED
  BY <1>1, <1>2

LEMMA NestedStep == DataOK /\ NestedNeverStacked /\ [Next]_vars => NestedNeverStacked'
<1> SUFFICES ASSUME DataOK, NestedNeverStacked, [Next]_vars PROVE NestedNeverStacked'
  OBVIOUS
<1>1. /\ txStack \in Seq(Entry)
      /\ Unnested(txStack) /\ Unnested(newLocalSession.txStack) /\ Unnested(<<>>)
  BY DEF DataOK, NestedNeverStacked, Unnested
<1>2. CASE UNCHANGED session
  BY <1>1, <1>2 DEF session, NestedNeverStacked
<1>3. ASSUME NEW p \in Props, Begin(p) PROVE NestedNeverStacked'
  <2>1. CASE RefusedClosed("Begin") \/ BeginNothing(p)
    BY <1>2, <2>1 DEF RefusedClosed, BeginNothing
  <2>2. CASE BeginJoin(p)
    <3>1. /\ txStack' = Append(txStack, Last(txStack)) /\ Len(txStack) > 0
          /\ UNCHANGED newLocalSession
      BY <2>2, <1>1 DEF BeginJoin, InTx
    <3>2. Unnested(txStack')
      BY <1>1, <3>1, UnnestedLast, UnnestedPush, Zenon
    <3> QED
      BY <1>1, <3>1, <3>2 DEF NestedNeverStacked
  <2>3. CASE BeginDb(p)
    <3>1. \A t \in Tx : /\ [tx |-> t, p |-> Pushed(p)] \in Entry
                        /\ [tx |-> t, p |-> Pushed(p)].p # "NESTED"
      BY <2>3 DEF Entry, Pushed, Propagation, BeginDb, OpensTx
    <3>2. /\ UNCHANGED newLocalSession
          /\ \/ UNCHANGED txStack
             \/ \E t \in Tx : txStack' = Append(txStack, [tx |-> t, p |-> Pushed(p)])
      BY <2>3 DEF BeginDb
    <3>3. Unnested(txStack')
      BY <1>1, <3>1, <3>2, UnnestedPush, Zenon
    <3> QED
      BY <1>1, <3>2, <3>3 DEF NestedNeverStacked
  <2>4. CASE BeginNewSession(p)
    <3>1. UNCHANGED txStack
      BY <2>4 DEF BeginNewSession, Suspends, ChildStack
    <3>2. \/ UNCHANGED newLocalSession
          \/ newLocalSession' = [live |-> TRUE, txStack |-> <<>>]
          \/ \E t \in Tx : newLocalSession' =
                              [live |-> TRUE, txStack |-> <<[tx |-> t, p |-> "REQUIRES_NEW"]>>]
      BY <2>4 DEF BeginNewSession, Suspends, ChildStack
    <3>3. \A t \in Tx : Unnested(<<[tx |-> t, p |-> "REQUIRES_NEW"]>>)
      BY DEF Unnested
    <3>4. Unnested(newLocalSession'.txStack)
      BY <1>1, <3>2, <3>3
    <3> QED
      BY <1>1, <3>1, <3>4 DEF NestedNeverStacked
  <2> QED
    BY <1>3, <2>1, <2>2, <2>3, <2>4 DEF Begin
<1>4. ASSUME newLocalSession' = NoSession,
             txStack' \in {<<>>, txStack, Pop(txStack), CloseLeaves(txStack)}
      PROVE  NestedNeverStacked'
  <2>1. Unnested(txStack')
    BY <1>1, <1>4, UnnestedPop
  <2>2. Unnested(newLocalSession'.txStack)
    BY <1>1, <1>4 DEF NoSession
  <2> QED
    BY <2>1, <2>2 DEF NestedNeverStacked
<1>5. CASE Commit \/ Rollback
  BY <1>2, <1>4, <1>5 DEF Commit, Rollback, RefusedClosed, End
<1>6. CASE Close \/ New
  BY <1>2, <1>4, <1>6 DEF Close, New
<1>7. ASSUME NEW s \in Stmt, Exec(s) \/ ExecPrepare(s) PROVE NestedNeverStacked'
  BY <1>2, <1>7 DEF Exec, ExecPrepare, Run, RefusedClosed
<1>8. CASE UNCHANGED vars
  BY <1>2, <1>8 DEF vars, session
<1> QED
  BY <1>3, <1>5, <1>6, <1>7, <1>8 DEF Next

(* The savepoint branches of Commit and Rollback are never taken.          *)
THEOREM SavepointsAreDead == Spec => []NestedNeverStacked
<1>1. Init => DataOK /\ NestedNeverStacked
  BY LiveInit DEF Live, Init, NoSession, NestedNeverStacked, Unnested
<1> QED
  BY <1>1, DataStep, NestedStep, PTL DEF Spec

-----------------------------------------------------------------------------
(* A session whose callers pass only joining propagations leaves no        *)
(* transaction open behind and implements TxUnit.                          *)
(*                                                                         *)
(* The strengthening: no child, one transaction on the whole stack, every  *)
(* open transaction on it, and no statement on a transaction not begun.    *)
OneTx(stack) == \A t, u \in TxsOf(stack) : t = u

RanOnBegun == \A s \in Stmt : ranOn[s] \in Tx => txState[ranOn[s]] # "unused"

Joined == /\ Live
          /\ newLocalSession = NoSession
          /\ OneTx(txStack)
          /\ NoOrphanTx
          /\ RanOnBegun

(* Popping a stack of one transaction keeps that transaction on it unless  *)
(* the stack empties; closing the session rolls it back.                   *)
LEMMA OneTxPop ==
  ASSUME NEW s \in Seq(Entry), OneTx(s)
  PROVE  /\ Len(s) > 1 => TxsOf(Pop(s)) = TxsOf(s)
         /\ OneTx(Pop(s))
         /\ RolledBackByClose(s) = TxsOf(s)
         /\ TxsOf(CloseLeaves(s)) \subseteq TxsOf(s)
<1>1. ASSUME Len(s) > 1 PROVE TxsOf(Pop(s)) = TxsOf(s)
  <2>1. /\ Front(s) \in Seq(Entry)
        /\ Len(Front(s)) = Len(s) - 1
        /\ \A i \in 1..Len(s) - 1 : Front(s)[i] = s[i]
    BY <1>1, FrontLast
  <2>2. s[1].tx \in TxsOf(Front(s)) /\ s[1].tx \in TxsOf(s)
    BY <1>1, <2>1 DEF TxsOf
  <2>3. TxsOf(Front(s)) \subseteq TxsOf(s)
    BY <1>1, TxsOfFront
  <2>4. TxsOf(Front(s)) = TxsOf(s)
    BY <2>2, <2>3 DEF OneTx
  <2>5. Len(s) # 0
    BY <1>1
  <2> QED
    BY <2>4, <2>5 DEF Pop
<1>2. OneTx(Pop(s))
  BY TxsOfPopped DEF OneTx
<1>3. RolledBackByClose(s) = TxsOf(s)
  <2>1. RolledBackByClose(s) \subseteq TxsOf(s)
    <3>1. ClosePops(s) \subseteq 1..Len(s)
      BY DEF ClosePops
    <3> QED
      BY <3>1, Zenon DEF RolledBackByClose, TxsOf
  <2>2. ASSUME NEW t \in TxsOf(s) PROVE t \in RolledBackByClose(s)
    <3>1. Len(s) > 0
      BY DEF TxsOf
    <3>2. s[Len(s)].tx \in TxsOf(s) /\ s[Len(s)].tx \in RolledBackByClose(s)
      BY <3>1 DEF RolledBackByClose, ClosePops, TxsOf
    <3> QED
      BY <3>2 DEF OneTx
  <2> QED
    BY <2>1, <2>2
<1>4. TxsOf(CloseLeaves(s)) \subseteq TxsOf(s)
  <2>1. /\ Len(CloseLeaves(s)) = Len(s) \div 2
        /\ \A i \in 1..Len(s) \div 2 : CloseLeaves(s)[i] = s[i]
    BY CloseLeavesType
  <2> QED
    BY <2>1 DEF TxsOf
<1> QED
  BY <1>1, <1>2, <1>3, <1>4

-----------------------------------------------------------------------------
(* Joined is inductive.                                                    *)
LEMMA JoinedInit == Init => Joined
<1>1. Init => Live
  BY LiveInit
<1>2. Init => newLocalSession = NoSession /\ TxsOf(txStack) = {}
  BY TxsOfEmpty DEF Init
<1>3. Init => \A t \in Tx : txState[t] = "unused"
  BY DEF Init
<1>4. Init => \A s \in Stmt : ranOn[s] \notin Tx
  BY TxAssumption DEF Init
<1> QED
  BY <1>1, <1>2, <1>3, <1>4 DEF Joined, OneTx, NoOrphanTx, RanOnBegun

(* While a session has no child, End only pops its own stack.              *)
LEMMA EndJoined ==
  ASSUME Joined, NEW op \in Ops, NEW answers \in {CommitAnswers, RollbackAnswers},
         End(op, answers)
  PROVE  \E o \in answers : /\ txState' = Ended(txStack, txState, o)
                            /\ txStack' = Pop(txStack)
                            /\ Answer(op, EndErr(txStack, o))
<1>1. newLocalSession.txStack = <<>> /\ Len(<<>>) = 0
  BY DEF Joined, NoSession
<1>2. \A c : /\ EndErr(newLocalSession.txStack, c) = NoError
             /\ Ended(newLocalSession.txStack, txState, c) = txState
  BY <1>1 DEF EndErr, Ended
<1>3. NoError # Error
  BY DEF NoError, Error
<1> QED
  BY <1>2, <1>3, EndCases

LEMMA EndStaysJoined ==
  ASSUME Joined, NEW op \in Ops, NEW answers \in {CommitAnswers, RollbackAnswers},
         End(op, answers)
  PROVE  OneTx(txStack') /\ NoOrphanTx' /\ RanOnBegun'
<1>1. /\ txStack \in Seq(Entry) /\ txState \in TxStates /\ TxsOf(txStack) \subseteq Tx
      /\ OneTx(txStack) /\ NoOrphanTx /\ RanOnBegun
      /\ ranOn \in [Stmt -> Tx \cup {AutoCommit, NotRun}]
  BY TxsOfType DEF Joined, Live, DataOK, TxStates
<1>2. ~isClosed /\ UNCHANGED <<isClosed, ranOn>>
  BY DEF End
<1>3. PICK o \in answers : /\ txState' = Ended(txStack, txState, o)
                           /\ txStack' = Pop(txStack)
  BY EndJoined
<1>4. \A t \in TxsOf(txStack) : txState[t] = "open"
  BY <1>2 DEF Joined, Live, StackIsLive
<1>5. \A t \in Tx : txState'[t] # txState[t] => txState'[t] \in {"committed", "rolledback"}
  BY <1>1, <1>3, <1>4, EndedOnceByPop
<1>6. OneTx(txStack')
  BY <1>1, <1>3, OneTxPop
<1>7. RanOnBegun'
  BY <1>1, <1>2, <1>5 DEF RanOnBegun
<1>8. NoOrphanTx'
  <2>1. CASE Len(txStack) = 1
    <3>1. TxsOf(txStack) = {txStack[1].tx}
      BY <1>1, <2>1, TxsOfSingle
    <3>2. o.state \in {"committed", "rolledback"}
      BY AnswersType
    <3>3. \A t \in Tx : txState'[t] # "open"
      BY <1>1, <1>3, <2>1, <3>1, <3>2 DEF Ended, TxStates, NoOrphanTx
    <3> QED
      BY <3>3 DEF NoOrphanTx
  <2>2. CASE Len(txStack) # 1
    <3>1. txState' = txState
      BY <1>3, <2>2 DEF Ended
    <3>2. Len(txStack) = 0 \/ Len(txStack) > 1
      <4>1. \A n \in Nat : n # 1 => n = 0 \/ n > 1
        OBVIOUS
      <4>2. Len(txStack) \in Nat
        BY <1>1
      <4> QED
        BY <2>2, <4>1, <4>2
    <3>3. TxsOf(txStack') = TxsOf(txStack)
      <4>1. CASE Len(txStack) = 0
        <5>1. TxsOf(txStack) = {}
          BY <4>1 DEF TxsOf
        <5>2. TxsOf(txStack') \subseteq TxsOf(txStack)
          BY <1>1, <1>3, TxsOfPopped
        <5> QED
          BY <5>1, <5>2
      <4>2. CASE Len(txStack) > 1
        BY <1>1, <1>3, <4>2, OneTxPop
      <4> QED
        BY <3>2, <4>1, <4>2
    <3> QED
      BY <1>1, <1>2, <3>1, <3>3 DEF NoOrphanTx
  <2> QED
    BY <2>1, <2>2
<1> QED
  BY <1>6, <1>7, <1>8

(* A joining Begin pushes the stack's one transaction again, opens the     *)
(* first one, or leaves everything as it is.                               *)
LEMMA BeginJoined ==
  ASSUME Joined, NEW p \in JoinProps, Begin(p)
  PROVE  /\ UNCHANGED <<newLocalSession, isClosed, ranOn>>
         /\ \/ UNCHANGED <<txStack, txState>>
            \/ /\ ~isClosed /\ ret'.err = NoError /\ ret'.op = "Begin"
               /\ Len(txStack') = Len(txStack) + 1
               /\ \/ /\ Len(txStack) > 0
                     /\ TxsOf(txStack') = TxsOf(txStack)
                     /\ UNCHANGED txState
                  \/ /\ Len(txStack) = 0
                     /\ \E t \in Tx : Opened(t) /\ TxsOf(txStack') = {t}
<1>1. txStack \in Seq(Entry)
  BY DEF Joined, Live, DataOK
<1>2. CASE RefusedClosed("Begin")
  BY <1>2 DEF RefusedClosed, session
<1>3. CASE BeginNothing(p) /\ UNCHANGED <<ranOn, unbound>>
  BY <1>3 DEF BeginNothing, session
<1>4. ~BeginNewSession(p)
  BY DEF BeginNewSession, Suspends, ChildStack, JoinProps, Nil
<1>5. CASE BeginJoin(p) /\ UNCHANGED <<ranOn, unbound>> /\ ~isClosed
  <2>1. /\ txStack' = Append(txStack, Last(txStack)) /\ Len(txStack) > 0
        /\ UNCHANGED <<newLocalSession, isClosed, txState>>
        /\ ret'.err = NoError /\ ret'.op = "Begin"
    BY <1>5, <1>1 DEF BeginJoin, InTx, Answer
  <2>2. Last(txStack) \in Entry /\ Last(txStack).tx \in TxsOf(txStack)
    BY <1>1, <2>1, TxsOfLast, Zenon
  <2>3. TxsOf(Append(txStack, Last(txStack))) = TxsOf(txStack) \cup {Last(txStack).tx}
    BY <1>1, <2>2, TxsOfPush, Zenon
  <2>4. TxsOf(txStack') = TxsOf(txStack)
    BY <2>1, <2>2, <2>3, Zenon
  <2>5. Len(txStack') = Len(txStack) + 1
    BY <1>1, <2>1, <2>2
  <2> QED
    BY <1>5, <2>1, <2>4, <2>5
<1>6. CASE BeginDb(p) /\ UNCHANGED <<ranOn, unbound>> /\ ~isClosed
  <2>1. ~InTx
    BY <1>6 DEF BeginDb, OpensTx, JoinProps, Nil
  <2>2. Len(txStack) = 0 /\ txStack = <<>>
    BY <1>1, <2>1 DEF InTx
  <2>3. CASE UNCHANGED <<txStack, txState>>
    BY <1>6, <2>3 DEF BeginDb
  <2>4. ASSUME NEW t \in Tx, Opened(t), Answer("Begin", NoError),
               txStack' = Append(txStack, [tx |-> t, p |-> Pushed(p)])
        PROVE  /\ TxsOf(txStack') = {t} /\ Len(txStack') = 1
               /\ ret'.err = NoError /\ ret'.op = "Begin"
    <3>1. txStack' = <<[tx |-> t, p |-> Pushed(p)]>>
      BY <2>2, <2>4
    <3>2. Len(txStack') = 1 /\ txStack'[1].tx = t
      BY <3>1
    <3>3. TxsOf(txStack') = {t}
      BY <3>2 DEF TxsOf
    <3>4. ret'.err = NoError /\ ret'.op = "Begin"
      BY <2>4 DEF Answer
    <3> QED
      BY <3>2, <3>3, <3>4
  <2> QED
    BY <1>6, <2>2, <2>3, <2>4 DEF BeginDb
<1> QED
  BY <1>2, <1>3, <1>4, <1>5, <1>6 DEF Begin

LEMMA JoinedStep ==
  ASSUME Props \subseteq JoinProps, Joined, [Next]_vars
  PROVE  Joined'
<1>1. Live'
  BY LiveStep DEF Joined
<1>2. /\ txStack \in Seq(Entry) /\ txState \in TxStates /\ TxsOf(txStack) \subseteq Tx
      /\ ranOn \in [Stmt -> Tx \cup {AutoCommit, NotRun}]
  BY TxsOfType DEF Joined, Live, DataOK, TxStates
<1> DEFINE Rest == /\ newLocalSession' = NoSession
                   /\ OneTx(txStack') /\ NoOrphanTx' /\ RanOnBegun'
<1> SUFFICES Rest
  BY <1>1 DEF Joined
<1>3. CASE UNCHANGED session /\ UNCHANGED <<txState, ranOn>>
  BY <1>3 DEF Joined, session, NoOrphanTx, RanOnBegun, OneTx
<1>4. ASSUME NEW p \in Props, Begin(p) PROVE Rest
  <2>1. p \in JoinProps
    BY <1>4
  <2>2. UNCHANGED <<newLocalSession, isClosed, ranOn>>
    BY <1>4, <2>1, BeginJoined
  <2>3. CASE UNCHANGED <<txStack, txState>>
    BY <1>3, <2>2, <2>3 DEF session
  <2>4. CASE TxsOf(txStack') = TxsOf(txStack) /\ UNCHANGED txState
    BY <2>2, <2>4 DEF Joined, OneTx, NoOrphanTx, RanOnBegun
  <2>5. ASSUME ~isClosed, Len(txStack) = 0, NEW t \in Tx, Opened(t), TxsOf(txStack') = {t}
        PROVE  Rest
    <3>1. TxsOf(txStack) = {}
      BY <2>5 DEF TxsOf
    <3>2. \A u \in Tx : txState[u] # "open"
      BY <3>1 DEF Joined, NoOrphanTx
    <3>3. \A u \in Tx : txState'[u] = "open" => u = t
      BY <1>2, <2>5, <3>2 DEF Opened, TxStates
    <3>4. \A u \in Tx : txState[u] # "unused" => txState'[u] # "unused"
      BY <1>2, <2>5 DEF Opened, TxStates
    <3>5. NoOrphanTx' /\ OneTx(txStack')
      BY <2>2, <2>5, <3>3 DEF NoOrphanTx, OneTx
    <3>6. RanOnBegun'
      BY <2>2, <3>4 DEF Joined, RanOnBegun
    <3> QED
      BY <2>2, <3>5, <3>6 DEF Joined
  <2> QED
    BY <1>4, <2>1, <2>3, <2>4, <2>5, BeginJoined
<1>5. ASSUME NEW op \in Ops, NEW answers \in {CommitAnswers, RollbackAnswers}, End(op, answers)
      PROVE  Rest
  <2>1. newLocalSession' = NoSession
    BY <1>5 DEF End
  <2> QED
    BY <1>5, <2>1, EndStaysJoined
<1>6. CASE Commit \/ Rollback
  BY <1>3, <1>5, <1>6 DEF Commit, Rollback, RefusedClosed, Ops
<1>7. CASE Close
  <2>1. CASE isClosed
    BY <1>3, <1>7, <2>1 DEF Close
  <2>2. CASE ~isClosed
    <3>1. RolledBackByClose(txStack) = TxsOf(txStack)
      BY <1>2, OneTxPop DEF Joined
    <3>2. \A t \in Tx : /\ txState'[t] # "open"
                        /\ txState[t] # "unused" => txState'[t] # "unused"
      BY <1>2, <1>7, <2>2, <3>1 DEF Close, Joined, NoOrphanTx
    <3>3. TxsOf(txStack') \subseteq TxsOf(txStack)
      BY <1>2, <1>7, <2>2, OneTxPop DEF Close, Joined
    <3>4. newLocalSession' = NoSession /\ UNCHANGED ranOn
      BY <1>7, <2>2 DEF Close
    <3>5. OneTx(txStack')
      BY <3>3 DEF Joined, OneTx
    <3>6. NoOrphanTx' /\ RanOnBegun'
      BY <3>2, <3>4 DEF Joined, NoOrphanTx, RanOnBegun
    <3> QED
      BY <3>4, <3>5, <3>6
  <2> QED
    BY <2>1, <2>2
<1>8. CASE New
  <2>1. /\ newLocalSession' = NoSession /\ TxsOf(txStack') = {}
        /\ UNCHANGED <<txState, ranOn>> /\ isClosed
    BY <1>8, TxsOfEmpty DEF New
  <2> QED
    BY <2>1 DEF Joined, OneTx, NoOrphanTx, RanOnBegun
<1>9. ASSUME NEW s \in Stmt, Exec(s) \/ ExecPrepare(s) PROVE Rest
  <2>1. UNCHANGED session /\ UNCHANGED txState
    BY <1>9 DEF Exec, ExecPrepare, Run, RefusedClosed
  <2>2. CASE UNCHANGED ranOn
    BY <1>3, <2>1, <2>2
  <2>3. CASE ranOn' = [ranOn EXCEPT ![s] = Target] /\ ~isClosed
    <3>1. Target \in Tx => Target \in TxsOf(txStack)
      <4>1. Target = Top(txStack)
        BY DEF Target, Joined, NoSession
      <4>2. CASE Len(txStack) = 0
        BY <4>1, <4>2, TxAssumption DEF Top
      <4>3. CASE Len(txStack) > 0
        <5>1. Last(txStack).tx \in TxsOf(txStack)
          BY <1>2, <4>3, TxsOfLast, Zenon
        <5>2. Len(txStack) # 0
          BY <4>3
        <5> QED
          BY <4>1, <5>1, <5>2 DEF Top
      <4>4. Len(txStack) = 0 \/ Len(txStack) > 0
        BY <1>2
      <4> QED
        BY <4>2, <4>3, <4>4
    <3>2. Target \in Tx => txState[Target] = "open"
      BY <2>3, <3>1 DEF Joined, Live, StackIsLive
    <3>3. RanOnBegun'
      BY <1>2, <2>1, <2>3, <3>2 DEF Joined, RanOnBegun
    <3> QED
      BY <2>1, <3>3 DEF Joined, session, OneTx, NoOrphanTx
  <2> QED
    BY <1>9, <2>2, <2>3 DEF Exec, ExecPrepare, Run, RefusedClosed
<1>10. CASE UNCHANGED vars
  BY <1>3, <1>10 DEF vars, session
<1> QED
  BY <1>1, <1>4, <1>6, <1>7, <1>8, <1>9, <1>10 DEF Next, Joined

(* With joining propagations only, no transaction is left open that the    *)
(* session in use cannot end.                                              *)
THEOREM NoOrphans == ASSUME Props \subseteq JoinProps PROVE Spec => []NoOrphanTx
<1>1. Joined /\ [Next]_vars => Joined'
  BY JoinedStep
<1>2. Joined => NoOrphanTx
  BY DEF Joined
<1> QED
  BY <1>1, <1>2, JoinedInit, PTL DEF Spec

(* The propagations on the stack stay joining ones: they are what a method *)
(* without a tag begins with.                                              *)
AllJoin(stack) == \A i \in 1..Len(stack) : stack[i].p \in JoinProps

LEMMA AllJoinKept ==
  ASSUME NEW s \in Seq(Entry), AllJoin(s)
  PROVE  /\ \A e \in Entry : e.p \in JoinProps => AllJoin(Append(s, e))
         /\ Len(s) > 0 => Last(s) \in Entry /\ Last(s).p \in JoinProps
         /\ AllJoin(Pop(s)) /\ AllJoin(CloseLeaves(s))
<1>1. \A e \in Entry : e.p \in JoinProps => AllJoin(Append(s, e))
  BY DEF AllJoin
<1>2. Len(s) > 0 => Last(s) \in Entry /\ Last(s).p \in JoinProps
  <2>1. Len(s) > 0 => Last(s) \in Entry /\ Last(s) = s[Len(s)]
    BY FrontLast
  <2> QED
    BY <2>1 DEF AllJoin
<1>3. AllJoin(Pop(s))
  <2>1. CASE Len(s) = 0
    BY <2>1 DEF Pop, AllJoin
  <2>2. CASE Len(s) > 0
    <3>1. /\ Len(Front(s)) = Len(s) - 1
          /\ \A i \in 1..Len(s) - 1 : Front(s)[i] = s[i]
      BY <2>2, FrontLast
    <3> QED
      BY <2>2, <3>1 DEF Pop, AllJoin
  <2> QED
    BY <2>1, <2>2
<1>4. AllJoin(CloseLeaves(s))
  <2>1. /\ Len(CloseLeaves(s)) = Len(s) \div 2
        /\ \A i \in 1..Len(s) \div 2 : CloseLeaves(s)[i] = s[i]
    BY CloseLeavesType
  <2> QED
    BY <2>1 DEF AllJoin
<1> QED
  BY <1>1, <1>2, <1>3, <1>4

LEMMA AllJoinBegin ==
  ASSUME DataOK, AllJoin(txStack), NEW p \in JoinProps, Begin(p)
  PROVE  AllJoin(txStack')
<1>1. txStack \in Seq(Entry)
  BY DEF DataOK
<1>2. CASE BeginJoin(p)
  <2>1. txStack' = Append(txStack, Last(txStack)) /\ Len(txStack) > 0
    BY <1>1, <1>2 DEF BeginJoin, InTx
  <2> QED
    BY <1>1, <2>1, AllJoinKept, Zenon
<1>3. CASE BeginDb(p)
  <2>1. ASSUME NEW t \in Tx
        PROVE  [tx |-> t, p |-> Pushed(p)] \in Entry /\ Pushed(p) \in JoinProps
    BY <1>3 DEF BeginDb, OpensTx, Pushed, JoinProps, Entry, Propagation
  <2>2. UNCHANGED txStack \/ \E t \in Tx : txStack' = Append(txStack, [tx |-> t, p |-> Pushed(p)])
    BY <1>3 DEF BeginDb
  <2>3. ASSUME NEW t \in Tx, txStack' = Append(txStack, [tx |-> t, p |-> Pushed(p)])
        PROVE  AllJoin(txStack')
    <3>1. PICK e \in Entry : e = [tx |-> t, p |-> Pushed(p)] /\ e.p \in JoinProps
      BY <2>1
    <3> QED
      BY <1>1, <2>3, <3>1, AllJoinKept
  <2> QED
    BY <2>2, <2>3
<1> QED
  BY <1>2, <1>3 DEF Begin, RefusedClosed, BeginNewSession, BeginNothing, session

LEMMA AllJoinStep ==
  ASSUME Props \subseteq JoinProps, DataOK, AllJoin(txStack), [Next]_vars
  PROVE  AllJoin(txStack')
<1>1. txStack \in Seq(Entry)
  BY DEF DataOK
<1>2. ASSUME NEW p \in Props, Begin(p) PROVE AllJoin(txStack')
  BY <1>2, AllJoinBegin
<1>3. CASE txStack' \in {txStack, <<>>, Pop(txStack), CloseLeaves(txStack)}
  <2>1. AllJoin(<<>>)
    BY DEF AllJoin
  <2> QED
    BY <1>1, <1>3, <2>1, AllJoinKept
<1>4. Commit \/ Rollback \/ Close \/ New \/ UNCHANGED vars =>
         txStack' \in {txStack, <<>>, Pop(txStack), CloseLeaves(txStack)}
  BY DEF Commit, Rollback, RefusedClosed, End, Close, New, vars, session
<1>5. ASSUME NEW s, Exec(s) \/ ExecPrepare(s) PROVE UNCHANGED txStack
  BY <1>5 DEF Exec, ExecPrepare, RefusedClosed, Run, session
<1> QED
  BY <1>2, <1>3, <1>4, <1>5 DEF Next

-----------------------------------------------------------------------------
(* Every step of the session is a step of TxUnit.                          *)
UnitDepth == IF isClosed THEN 0 ELSE Len(txStack)

(* Statements keep their fate as long as their transactions do.            *)
LEMMA SameFate ==
  ASSUME UNCHANGED ranOn,
         \A s \in Stmt : ranOn[s] \in Tx => txState'[ranOn[s]] = txState[ranOn[s]]
  PROVE  UNCHANGED <<Pending, Durable>>
BY DEF Pending, Durable

(* A call that changes neither the depth nor the fate of any statement.    *)
LEMMA IdleStep ==
  ASSUME UnitDepth' = UnitDepth, UNCHANGED <<Pending, Durable>>,
         ret' \in Answered,
         ret'.op \in {"Commit", "Rollback"} => UnitDepth = 0
  PROVE  unit!Next
<1>1. PICK op \in Ops, err \in {NoError, Error} : ret' = [op |-> op, err |-> err]
  BY DEF Answered
<1>2. op \in {"Commit", "Rollback"} => UnitDepth = 0
  BY <1>1
<1>3. unit!Idle
  BY <1>1, <1>2 DEF unit!Idle, unit!Answered, unit!Ops, Ops, unit!NoError, unit!Error,
                    NoError, Error, UnitDepth
<1> QED
  BY <1>3 DEF unit!Next

(* What each joining Begin is to the unit.                                 *)
LEMMA BeginStep ==
  ASSUME Joined, Joined', NEW p \in JoinProps, Begin(p)
  PROVE  unit!Next
<1>1. txState \in TxStates /\ ranOn \in [Stmt -> Tx \cup {AutoCommit, NotRun}]
      /\ ret' \in Answered
  BY DEF Joined, Live, DataOK, TxStates, Answered
<1>2. UNCHANGED <<newLocalSession, isClosed, ranOn>>
  BY BeginJoined
<1>3. ret'.op = "Begin"
  <2>1. Answer("Begin", NoError) \/ Answer("Begin", Error)
    BY Zenon DEF Begin, RefusedClosed, BeginJoin, BeginDb, BeginNewSession, BeginNothing
  <2> QED
    BY <2>1 DEF Answer
<1>4. CASE UNCHANGED <<txStack, txState>>
  <2>1. UNCHANGED <<Pending, Durable>>
    BY <1>2, <1>4, SameFate
  <2>2. UnitDepth' = UnitDepth
    BY <1>2, <1>4 DEF UnitDepth
  <2> QED
    BY <1>1, <1>3, <2>1, <2>2, IdleStep
<1>5. CASE /\ ~isClosed /\ ret'.err = NoError
           /\ Len(txStack') = Len(txStack) + 1
           /\ UNCHANGED txState \/ \E t \in Tx : Opened(t)
  <2>1. \A s \in Stmt : ranOn[s] \in Tx => txState'[ranOn[s]] = txState[ranOn[s]]
    BY <1>1, <1>5 DEF Joined, RanOnBegun, Opened, TxStates
  <2>2. UNCHANGED <<Pending, Durable>>
    BY <1>2, <2>1, SameFate
  <2>3. UnitDepth' = UnitDepth + 1
    BY <1>2, <1>5 DEF UnitDepth
  <2>4. ret' = [op |-> "Begin", err |-> NoError]
    BY <1>1, <1>3, <1>5 DEF Answered
  <2>5. unit!Enter
    BY <2>2, <2>3, <2>4 DEF unit!Enter, unit!Answered, unit!NoError, NoError, UnitDepth
  <2> QED
    BY <2>5 DEF unit!Next
<1> QED
  BY <1>4, <1>5, BeginJoined

(* What Commit and Rollback of an open session are to the unit.            *)
LEMMA EndStep ==
  ASSUME Joined, NEW op \in {"Commit", "Rollback"},
         NEW answers, answers = IF op = "Commit" THEN CommitAnswers ELSE RollbackAnswers,
         End(op, answers)
  PROVE  unit!Next
<1>1. /\ txStack \in Seq(Entry) /\ txState \in TxStates /\ TxsOf(txStack) \subseteq Tx
      /\ ranOn \in [Stmt -> Tx \cup {AutoCommit, NotRun}]
  BY TxsOfType DEF Joined, Live, DataOK, TxStates
<1>2. ~isClosed /\ UNCHANGED <<isClosed, ranOn>>
  BY DEF End
<1>3. answers \in {CommitAnswers, RollbackAnswers} /\ op \in Ops
  BY DEF Ops
<1>4. PICK o \in answers : /\ txState' = Ended(txStack, txState, o)
                           /\ txStack' = Pop(txStack)
                           /\ Answer(op, EndErr(txStack, o))
  BY <1>3, EndJoined
<1>5. UnitDepth = Len(txStack) /\ UnitDepth' = Len(txStack')
  BY <1>2 DEF UnitDepth
<1>6. o.state \in {"committed", "rolledback"} /\ o.err \in {NoError, Error}
  BY <1>3, AnswersType
<1>7. CASE Len(txStack) = 0
  <2>1. txState' = txState /\ txStack' = <<>> /\ ret' = [op |-> op, err |-> NoError]
    BY <1>4, <1>7 DEF Ended, Pop, EndErr, Answer
  <2>2. UNCHANGED <<Pending, Durable>>
    BY <1>2, <2>1, SameFate
  <2>3. UnitDepth' = UnitDepth /\ UnitDepth = 0
    BY <1>5, <1>7, <2>1
  <2>4. ret' \in Answered
    BY <1>3, <2>1 DEF Answered
  <2> QED
    BY <2>2, <2>3, <2>4, IdleStep
<1>8. CASE Len(txStack) > 1
  <2>1. Len(txStack) # 0 /\ Len(txStack) # 1
    <3>1. \A n \in Nat : n > 1 => n # 0 /\ n # 1
      OBVIOUS
    <3>2. Len(txStack) \in Nat
      BY <1>1
    <3> QED
      BY <1>8, <3>1, <3>2, Zenon
  <2>2. txState' = txState /\ txStack' = Front(txStack) /\ ret' = [op |-> op, err |-> NoError]
    BY <1>4, <2>1 DEF Ended, Pop, EndErr, Answer
  <2>3. UNCHANGED <<Pending, Durable>>
    BY <1>2, <2>2, SameFate
  <2>4. Len(txStack') = Len(txStack) - 1
    BY <1>1, <1>8, <2>2, FrontLast
  <2>5. UnitDepth > 1 /\ UnitDepth' = UnitDepth - 1
    BY <1>5, <1>8, <2>4
  <2>6. unit!LeaveInner
    BY <2>2, <2>3, <2>5 DEF unit!LeaveInner, unit!Answered, unit!NoError, NoError, UnitDepth
  <2> QED
    BY <2>6 DEF unit!Next
<1>9. CASE Len(txStack) = 1
  <2> DEFINE t == txStack[1].tx
  <2>1. TxsOf(txStack) = {t} /\ t \in Tx
    BY <1>1, <1>9, TxsOfSingle
  <2>2. \A u \in Tx : txState[u] = "open" <=> u = t
    BY <1>2, <2>1 DEF Joined, Live, StackIsLive, NoOrphanTx
  <2>3. txState' = [txState EXCEPT ![t] = o.state]
    BY <1>4, <1>9 DEF Ended
  <2>4. ret' = [op |-> op, err |-> o.err]
    BY <1>4, <1>9 DEF EndErr, Answer
  <2>5. Len(txStack') = 0
    <3>0. Len(txStack) > 0
      BY <1>9
    <3>1. Len(Front(txStack)) = Len(txStack) - 1
      BY <1>1, <3>0, FrontLast, Zenon
    <3>2. txStack' = Front(txStack)
      BY <1>4, <1>9 DEF Pop
    <3> QED
      BY <1>9, <3>1, <3>2
  <2>6. UnitDepth = 1 /\ UnitDepth' = 0
    BY <1>5, <1>9, <2>5
  <2> HIDE DEF t
  <2>7. Pending' = {}
    BY <1>1, <1>2, <1>6, <2>1, <2>2, <2>3 DEF Pending, TxStates
  <2>8. Durable' = IF o.state = "committed" THEN Durable \cup Pending ELSE Durable
    BY <1>1, <1>2, <1>6, <2>1, <2>2, <2>3 DEF Pending, Durable, TxStates
  <2>9. CASE op = "Commit"
    <3>1. o.state = "committed" \/ o.err = Error
      BY <2>9 DEF CommitAnswers
    <3>2. Durable' = Durable \cup Pending \/ (o.err = Error /\ Durable' = Durable)
      BY <2>8, <3>1
    <3>3. ret' = [op |-> "Commit", err |-> o.err]
      BY <2>4, <2>9
    <3>4. unit!CommitUnit
      BY <1>6, <2>6, <2>7, <3>2, <3>3
         DEF unit!CommitUnit, unit!Answered, unit!NoError, unit!Error, NoError, Error, UnitDepth
    <3> QED
      BY <3>4 DEF unit!Next
  <2>10. CASE op = "Rollback"
    <3>1. o.state # "committed"
      BY <2>10 DEF RollbackAnswers
    <3>2. UNCHANGED Durable
      BY <2>8, <3>1
    <3>3. ret' = [op |-> "Rollback", err |-> o.err]
      BY <2>4, <2>10
    <3>4. unit!RollbackUnit
      BY <1>6, <2>6, <2>7, <3>2, <3>3
         DEF unit!RollbackUnit, unit!Answered, unit!NoError, unit!Error, NoError, Error, UnitDepth
    <3> QED
      BY <3>4 DEF unit!Next
  <2> QED
    BY <2>9, <2>10
<1>10. Len(txStack) = 0 \/ Len(txStack) = 1 \/ Len(txStack) > 1
  <2>1. \A n \in Nat : n = 0 \/ n = 1 \/ n > 1
    OBVIOUS
  <2>2. Len(txStack) \in Nat
    BY <1>1
  <2> QED
    BY <2>1, <2>2
<1> QED
  BY <1>7, <1>8, <1>9, <1>10, Zenon

(* Close, of an open session and of one that is closed already.            *)
LEMMA CloseStep ==
  ASSUME Joined, Close
  PROVE  unit!Next
<1>1. /\ txStack \in Seq(Entry) /\ txState \in TxStates
      /\ ranOn \in [Stmt -> Tx \cup {AutoCommit, NotRun}]
  BY DEF Joined, Live, DataOK, TxStates
<1>2. UnitDepth' = 0
  <2>1. isClosed'
    BY Zenon DEF Close, session
  <2> QED
    BY <2>1 DEF UnitDepth
<1>3. ret' = [op |-> "Close", err |-> NoError] /\ UNCHANGED ranOn
  BY DEF Close, Answer
<1>4. Pending' = {} /\ UNCHANGED Durable
  <2>1. CASE isClosed
    <3>1. UNCHANGED txState /\ \A t \in Tx : txState[t] # "open"
      BY <2>1 DEF Close, Joined, NoOrphanTx
    <3> QED
      BY <1>3, <3>1 DEF Pending, Durable
  <2>2. CASE ~isClosed
    <3>1. RolledBackByClose(txStack) = TxsOf(txStack)
      BY <1>1, OneTxPop DEF Joined
    <3>2. \A t \in Tx : /\ txState'[t] # "open"
                        /\ txState'[t] = "committed" <=> txState[t] = "committed"
      BY <1>1, <2>2, <3>1 DEF Close, Joined, NoOrphanTx, TxStates
    <3> QED
      BY <1>3, <3>2 DEF Pending, Durable
  <2> QED
    BY <2>1, <2>2
<1>5. unit!Close
  BY <1>2, <1>3, <1>4 DEF unit!Close, unit!Answered, unit!NoError, NoError, UnitDepth
<1> QED
  BY <1>5 DEF unit!Next

(* Where a statement runs: on the unit's transaction, if it has one.       *)
LEMMA JoinedTarget ==
  ASSUME Joined, ~isClosed
  PROVE  /\ UnitDepth > 0 => Target \in Tx /\ txState[Target] = "open"
         /\ ~(UnitDepth > 0) => Target = AutoCommit
<1>1. /\ txStack \in Seq(Entry) /\ TxsOf(txStack) \subseteq Tx /\ UnitDepth = Len(txStack)
      /\ Target = Top(txStack)
  BY TxsOfType DEF Joined, Live, DataOK, UnitDepth, Target, NoSession
<1>2. CASE Len(txStack) > 0
  <2>1. Last(txStack).tx \in TxsOf(txStack)
    BY <1>1, <1>2, TxsOfLast, Zenon
  <2>2. Target = Last(txStack).tx
    BY <1>1, <1>2 DEF Top
  <2> QED
    BY <1>1, <1>2, <2>1, <2>2 DEF Joined, Live, StackIsLive
<1>3. CASE ~(Len(txStack) > 0)
  <2>1. Len(txStack) = 0
    BY <1>1, <1>3
  <2> QED
    BY <1>1, <1>3, <2>1 DEF Top
<1> QED
  BY <1>2, <1>3

(* A statement that has run, whatever its answer, is pending in a bracket  *)
(* and durable outside one; one that has not run changes nothing.          *)
LEMMA ExecStep ==
  ASSUME Joined, NEW s \in Stmt, NEW op \in {"Exec", "ExecPrepare"},
         RefusedClosed(op) \/ (~isClosed /\ Run(op, s))
  PROVE  unit!Next
<1>1. ranOn \in [Stmt -> Tx \cup {AutoCommit, NotRun}] /\ op \in Ops
  BY DEF Joined, Live, DataOK, Ops
<1>2. UNCHANGED <<session, txState>>
  BY DEF RefusedClosed, Run
<1>3. UnitDepth' = UnitDepth
  BY <1>2 DEF UnitDepth, session
<1>4. CASE Answer(op, Error) /\ UNCHANGED ranOn
  <2>1. UNCHANGED <<Pending, Durable>>
    BY <1>2, <1>4, SameFate
  <2>2. ret' \in Answered /\ ret'.op \notin {"Commit", "Rollback"}
    BY <1>1, <1>4 DEF Answer, Answered
  <2> QED
    BY <1>3, <2>1, <2>2, IdleStep
<1>5. CASE /\ ~isClosed /\ ranOn[s] = NotRun
           /\ \E err \in {NoError, Error} : Answer(op, err)
           /\ ranOn' = [ranOn EXCEPT ![s] = Target]
  <2>1. AutoCommit \notin Tx /\ NotRun \notin Tx /\ NotRun # AutoCommit
    BY TxAssumption DEF AutoCommit, NotRun
  <2>2. s \notin Pending \cup Durable
    BY <1>5, <2>1 DEF Pending, Durable
  <2>3. \A r \in Stmt : ranOn'[r] = IF r = s THEN Target ELSE ranOn[r]
    BY <1>1, <1>5
  <2>4. CASE UnitDepth > 0
    <3>1. Target \in Tx /\ txState'[Target] = "open"
      BY <1>2, <1>5, <2>4, JoinedTarget
    <3>2. Pending' = Pending \cup {s}
      BY <1>2, <2>3, <3>1 DEF Pending
    <3>3. UNCHANGED Durable
      <4>1. \A r \in Stmt : r \in Durable' <=> r \in Durable
        BY <1>2, <1>5, <2>1, <2>3, <3>1 DEF Durable
      <4> QED
        BY <4>1, Zenon DEF Durable
    <3>4. unit!Write(s)
      BY <1>3, <1>5, <2>2, <2>4, <3>2, <3>3
         DEF unit!Write, unit!Answered, unit!NoError, unit!Error, NoError, Error,
             Answer, UnitDepth
    <3> QED
      BY <3>4 DEF unit!Next
  <2>5. CASE ~(UnitDepth > 0)
    <3>1. Target = AutoCommit
      BY <1>5, <2>5, JoinedTarget
    <3>2. Durable' = Durable \cup {s}
      BY <1>2, <2>3, <3>1 DEF Durable
    <3>3. UNCHANGED Pending
      BY <1>2, <1>5, <2>1, <2>3, <3>1 DEF Pending
    <3>4. unit!Write(s)
      BY <1>3, <1>5, <2>2, <2>5, <3>2, <3>3
         DEF unit!Write, unit!Answered, unit!NoError, unit!Error, NoError, Error,
             Answer, UnitDepth
    <3> QED
      BY <3>4 DEF unit!Next
  <2> QED
    BY <2>4, <2>5
<1> QED
  BY <1>4, <1>5 DEF RefusedClosed, Run

LEMMA UnitInit == Init => unit!Init
<1> SUFFICES ASSUME Init PROVE unit!Init
  OBVIOUS
<1>1. UnitDepth = 0
  BY DEF Init, UnitDepth
<1>2. Pending = {} /\ Durable = {}
  BY TxAssumption DEF Init, Pending, Durable, AutoCommit, NotRun
<1> QED
  BY <1>1, <1>2 DEF Init, unit!Init, unit!NoError, NoError, UnitDepth

LEMMA UnitStep ==
  ASSUME Props \subseteq JoinProps, Joined, Joined', [Next]_vars
  PROVE  [unit!Next]_unit!vars
<1>1. ASSUME NEW p \in Props, Begin(p) PROVE unit!Next
  BY <1>1, BeginStep
<1>2. ASSUME NEW op \in Ops, RefusedClosed(op) PROVE unit!Next
  <2>1. ret' \in Answered /\ UnitDepth = 0 /\ UnitDepth' = 0
    BY <1>2 DEF RefusedClosed, Answer, Answered, UnitDepth, session
  <2>2. UNCHANGED <<Pending, Durable>>
    BY <1>2, SameFate DEF RefusedClosed
  <2> QED
    BY <2>1, <2>2, IdleStep
<1>3. CASE Commit
  BY <1>2, <1>3, EndStep DEF Commit, Ops
<1>4. CASE Rollback
  BY <1>2, <1>4, EndStep DEF Rollback, Ops
<1>5. CASE Close
  BY <1>5, CloseStep
<1>6. CASE New
  <2>1. ret' = [op |-> "New", err |-> NoError]
    BY <1>6 DEF New, Answer
  <2>2. ret' \in Answered /\ ret'.op \notin {"Commit", "Rollback"}
    BY <2>1 DEF Answered, Ops
  <2>3. UnitDepth = 0 /\ UnitDepth' = 0
    BY <1>6 DEF New, UnitDepth
  <2>4. UNCHANGED <<Pending, Durable>>
    BY <1>6, SameFate DEF New
  <2> QED
    BY <2>2, <2>3, <2>4, IdleStep
<1>7. ASSUME NEW s \in Stmt, Exec(s) \/ ExecPrepare(s) PROVE unit!Next
  <2>1. CASE Exec(s)
    BY <2>1, ExecStep, Zenon DEF Exec
  <2>2. CASE ExecPrepare(s)
    BY <2>2, ExecStep, Zenon DEF ExecPrepare
  <2> QED
    BY <1>7, <2>1, <2>2
<1>8. CASE UNCHANGED vars
  <2>1. UNCHANGED <<UnitDepth, Pending, Durable, ret>>
    BY <1>8 DEF vars, UnitDepth, Pending, Durable
  <2> QED
    BY <2>1 DEF unit!vars, UnitDepth
<1> QED
  BY <1>1, <1>3, <1>4, <1>5, <1>6, <1>7, <1>8 DEF Next

(* With joining propagations other than NESTED, a session implements       *)
(* TxUnit: inner brackets decide nothing, the outermost one decides for    *)
(* everything.                                                             *)
THEOREM ImplementsUnit == ASSUME Props \subseteq UnitProps PROVE Spec => Unit
<1>. Props \subseteq JoinProps
  BY DEF UnitProps, JoinProps
<1>1. Joined /\ [Next]_vars => Joined'
  BY JoinedStep
<1>2. Joined /\ Joined' /\ [Next]_vars => [unit!Next]_unit!vars
  BY UnitStep
<1> QED
  BY <1>1, <1>2, JoinedInit, UnitInit, PTL DEF Spec, Unit, unit!Spec
===============================================================================
