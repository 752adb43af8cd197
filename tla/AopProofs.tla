------------------------------ MODULE AopProofs ------------------------------
(***************************************************************************)
(* Proofs about AopService, for any tags, transactions and statements and  *)
(* calls nested to any depth.                                              *)
(*                                                                         *)
(* What a method of the session does to the brackets it holds - entries on *)
(* its stack and a child - is stated once (BeginDoes, EndDoes, CloseDoes); *)
(* the steps of the proxy are then counted against the calls in progress.  *)
(***************************************************************************)
EXTENDS AopService, SequenceTheorems, TLAPS

Entries == Seq(Session!Entry)

Stacks ==
  /\ txStack \in Entries
  /\ newLocalSession \in [live : BOOLEAN, txStack : Entries]
  /\ ~newLocalSession.live => newLocalSession.txStack = <<>>

(* The brackets that the session holds.                                    *)
Held == Len(txStack) + (IF newLocalSession.live THEN 1 ELSE 0)

-----------------------------------------------------------------------------
LEMMA FrontOf ==
  ASSUME NEW S, NEW s \in Seq(S), Len(s) > 0
  PROVE  /\ SubSeq(s, 1, Len(s) - 1) \in Seq(S)
         /\ Len(SubSeq(s, 1, Len(s) - 1)) = Len(s) - 1
         /\ \A i \in 1..Len(s) - 1 : SubSeq(s, 1, Len(s) - 1)[i] = s[i]
         /\ s[Len(s)] \in S
<1> DEFINE n == Len(s) - 1
<1>1. n \in Nat /\ \A i \in 1..n : s[i] \in S
  OBVIOUS
<1> HIDE DEF n
<1>2. SubSeq(s, 1, n) \in Seq(S)
  BY <1>1, SubSeqProperties
<1>3. Len(SubSeq(s, 1, n)) = n
  <2>1. \A m, k \in Int : (\A i \in m..k : s[i] \in S)
                         => Len(SubSeq(s, m, k)) = IF m <= k THEN k - m + 1 ELSE 0
    BY SubSeqProperties, Zenon
  <2>2. QED
    BY <1>1, <2>1
<1>4. \A i \in 1..n : SubSeq(s, 1, n)[i] = s[i]
  BY <1>1
<1>5. s[Len(s)] \in S
  OBVIOUS
<1>6. QED
  BY <1>2, <1>3, <1>4, <1>5 DEF n

LEMMA SessionFront ==
  ASSUME NEW s \in Entries, Len(s) > 0
  PROVE  /\ Session!Front(s) \in Entries /\ Len(Session!Front(s)) = Len(s) - 1
         /\ Session!Last(s) \in Session!Entry
BY FrontOf DEF Session!Front, Session!Last, Entries

-----------------------------------------------------------------------------
(* What the session's methods do to the brackets it holds.                 *)
LEMMA RunDoes ==
  ASSUME NEW s, Session!ExecPrepare(s)
  PROVE  UNCHANGED <<txStack, newLocalSession, isClosed>>
BY DEF Session!ExecPrepare, Session!RefusedClosed, Session!Run, Session!session

LEMMA BeginDoes ==
  ASSUME Stacks, NEW p \in Session!Propagation \cup {Nil}, Session!Begin(p)
  PROVE  /\ Stacks' /\ UNCHANGED isClosed
         /\ Held' <= Held + 1
         /\ ret'.err = Session!Error => Held' = Held
<1> USE DEF Session!Answer, Session!Error, Session!NoError
<1>0. Len(txStack) \in Nat
  BY DEF Stacks, Entries
<1>1. CASE UNCHANGED <<txStack, newLocalSession, isClosed>>
  BY <1>0, <1>1 DEF Stacks, Held
<1>2. CASE Session!RefusedClosed("Begin")
  BY <1>1, <1>2 DEF Session!RefusedClosed, Session!session
<1>3. CASE Session!BeginJoin(p)
  <2>1. Session!Last(txStack) \in Session!Entry
    BY <1>3, SessionFront DEF Session!BeginJoin, Session!InTx, Stacks
  <2>2. txStack' = Append(txStack, Session!Last(txStack)) /\ ret'.err # Session!Error
        /\ UNCHANGED <<newLocalSession, isClosed>>
    BY <1>3 DEF Session!BeginJoin
  <2>3. txStack' \in Entries /\ Len(txStack') = Len(txStack) + 1
    BY <2>1, <2>2 DEF Stacks, Entries
  <2>4. QED
    BY <1>0, <2>2, <2>3 DEF Stacks, Held
<1>4. CASE Session!BeginDb(p)
  <2>1. Session!Pushed(p) \in Session!Propagation
    BY <1>4 DEF Session!BeginDb, Session!OpensTx, Session!Pushed, Session!Propagation
  <2>2. UNCHANGED <<newLocalSession, isClosed>>
    BY <1>4 DEF Session!BeginDb
  <2>3. CASE UNCHANGED txStack
    BY <1>1, <2>2, <2>3
  <2>4. ASSUME NEW t \in Tx, Session!Answer("Begin", Session!NoError),
               txStack' = Append(txStack, [tx |-> t, p |-> Session!Pushed(p)])
        PROVE  /\ Stacks' /\ Held' = Held + 1 /\ ret'.err # Session!Error
    <3>1. [tx |-> t, p |-> Session!Pushed(p)] \in Session!Entry
      BY <2>1 DEF Session!Entry
    <3>2. txStack' \in Entries /\ Len(txStack') = Len(txStack) + 1
      BY <2>4, <3>1 DEF Stacks, Entries
    <3>3. QED
      BY <1>0, <2>2, <2>4, <3>2 DEF Stacks, Held
  <2>5. CASE Session!Answer("Begin", Session!NoError)
             /\ \E t \in Tx : txStack' = Append(txStack, [tx |-> t, p |-> Session!Pushed(p)])
    <3> HIDE DEF Session!Answer
    <3>1. Held \in Nat
      BY <1>0 DEF Held
    <3>2. QED
      BY <2>2, <2>4, <2>5, <3>1
  <2>6. QED
    BY <1>4, <2>3, <2>5 DEF Session!BeginDb
<1>5. CASE Session!BeginNewSession(p)
  <2>1. UNCHANGED <<txStack, isClosed>>
    BY <1>5 DEF Session!BeginNewSession
  <2>2. CASE UNCHANGED newLocalSession
    BY <1>1, <2>1, <2>2
  <2>3. ASSUME NEW c \in Entries, newLocalSession' = [live |-> TRUE, txStack |-> c],
               Session!Answer("Begin", Session!NoError)
        PROVE  Stacks' /\ Held' <= Held + 1 /\ ret'.err # Session!Error
    BY <1>0, <2>1, <2>3 DEF Stacks, Held
  <2>4. <<>> \in Entries
    BY DEF Entries
  <2>5. ASSUME NEW t \in Tx PROVE Session!ChildStack(t, "REQUIRES_NEW") \in Entries
    BY DEF Session!ChildStack, Entries, Session!Entry, Session!Propagation
  <2>6. CASE p = "REQUIRES_NEW" /\ Session!Answer("Begin", Session!NoError)
             /\ \E t \in Tx : newLocalSession' = [live |-> TRUE,
                                                txStack |-> Session!ChildStack(t, p)]
    <3> HIDE DEF Session!Answer
    <3>1. PICK t \in Tx : newLocalSession' = [live |-> TRUE,
                                              txStack |-> Session!ChildStack(t, p)]
      BY <2>6
    <3>2. PICK c \in Entries : c = Session!ChildStack(t, p)
      BY <2>5, <2>6
    <3>3. QED
      BY <2>1, <2>3, <2>6, <3>1, <3>2
  <2>7. CASE newLocalSession' = [live |-> TRUE, txStack |-> <<>>]
             /\ Session!Answer("Begin", Session!NoError)
    <3> HIDE DEF Session!Answer
    <3>1. QED
      BY <2>1, <2>3, <2>4, <2>7
  <2>8. QED
    BY <1>5, <2>2, <2>6, <2>7 DEF Session!BeginNewSession
<1>6. CASE Session!BeginNothing(p)
  BY <1>1, <1>6 DEF Session!BeginNothing, Session!session
<1>7. QED
  BY <1>2, <1>3, <1>4, <1>5, <1>6 DEF Session!Begin

(* Ending a bracket gives up one of those held, whatever it answers.       *)
LEMMA EndDoes ==
  ASSUME Stacks, ~isClosed, Session!Commit \/ Session!Rollback
  PROVE  /\ Stacks' /\ UNCHANGED isClosed
         /\ Held' <= Held /\ (Held > 0 => Held' <= Held - 1)
<1>0. Len(txStack) \in Nat /\ txStack \in Entries
  BY DEF Stacks, Entries
<1>1. /\ newLocalSession' = Session!NoSession /\ UNCHANGED isClosed
      /\ \/ UNCHANGED txStack /\ newLocalSession.txStack # <<>>
         \/ txStack' = Session!Pop(txStack)
  <2>1. ASSUME NEW op, NEW answers, Session!End(op, answers)
        PROVE  /\ newLocalSession' = Session!NoSession /\ UNCHANGED isClosed
               /\ \/ UNCHANGED txStack /\ newLocalSession.txStack # <<>>
                  \/ txStack' = Session!Pop(txStack)
    <3>1. ASSUME NEW c, Session!EndErr(<<>>, c) = Session!Error PROVE FALSE
      BY <3>1 DEF Session!EndErr, Session!Error, Session!NoError
    <3>2. QED
      BY <2>1, <3>1 DEF Session!End
  <2>2. QED
    BY <2>1 DEF Session!Commit, Session!Rollback, Session!RefusedClosed
<1>2. ~newLocalSession'.live /\ newLocalSession'.txStack = <<>>
      /\ newLocalSession' \in [live : BOOLEAN, txStack : Entries]
  BY <1>1 DEF Session!NoSession, Entries
<1>3. CASE UNCHANGED txStack /\ newLocalSession.txStack # <<>>
  BY <1>0, <1>1, <1>2, <1>3 DEF Stacks, Held
<1>4. CASE txStack' = Session!Pop(txStack)
  <2>1. txStack' \in Entries
        /\ Len(txStack') = IF Len(txStack) = 0 THEN 0 ELSE Len(txStack) - 1
    <3>1. CASE Len(txStack) = 0
      BY <1>4, <3>1 DEF Session!Pop, Entries
    <3>2. CASE Len(txStack) > 0
      BY <1>0, <1>4, <3>2, SessionFront DEF Session!Pop
    <3>3. QED
      BY <1>0, <3>1, <3>2
  <2>2. QED
    BY <1>0, <1>1, <1>2, <2>1 DEF Stacks, Held
<1>5. QED
  BY <1>1, <1>3, <1>4

(* Closing a session without brackets leaves none.                         *)
LEMMA CloseDoes ==
  ASSUME Stacks, ~isClosed, Held <= 0, Session!Close
  PROVE  Stacks' /\ isClosed' /\ Held' = 0
<1>1. txStack = <<>>
  BY DEF Stacks, Held, Entries
<1>2. Session!CloseLeaves(txStack) = <<>>
  BY <1>1 DEF Session!CloseLeaves
<1>3. txStack' = <<>> /\ isClosed' /\ newLocalSession' = Session!NoSession
  BY <1>2 DEF Session!Close
<1>4. QED
  BY <1>3 DEF Session!NoSession, Stacks, Held, Entries

LEMMA NewDoes ==
  ASSUME Session!New
  PROVE  Stacks' /\ ~isClosed' /\ Held' = 0
BY DEF Session!New, Session!NoSession, Stacks, Held, Entries

LEMMA TopTyped ==
  ASSUME NEW s \in Entries
  PROVE  Session!Top(s) \in Tx \cup {Session!AutoCommit}
<1>1. CASE Len(s) = 0
  BY <1>1 DEF Session!Top
<1>2. CASE Len(s) > 0
  BY <1>2, SessionFront DEF Session!Top, Session!Entry
<1>3. QED
  BY <1>1, <1>2 DEF Entries

LEMMA PropagationTyped ==
  ASSUME Stacks, NEW tag \in Tags
  PROVE  PropagationOf(tag) \in Session!Propagation \cup {Nil}
<1>1. NewPropagation(tag) \in Session!Propagation
  BY DEF NewPropagation, Session!Propagation
<1>2. Session!LastPROPAGATION \in Session!Propagation \cup {Nil}
  <2>1. CASE Session!InTx
    <3>1. Len(txStack) > 0 /\ txStack \in Entries
      BY <2>1 DEF Session!InTx, Stacks
    <3>2. QED
      BY <2>1, <3>1, SessionFront DEF Session!LastPROPAGATION, Session!Entry
  <2>2. CASE ~Session!InTx
    BY <2>2 DEF Session!LastPROPAGATION, Session!Nil, Nil
  <2>3. QED
    BY <2>1, <2>2
<1>3. QED
  BY <1>1, <1>2 DEF PropagationOf

-----------------------------------------------------------------------------
(* The inductive invariant: what the session holds, the calls in progress  *)
(* and the two properties.  Bracketed needs Stacks, because a child that   *)
(* is not there must not make Commit and Rollback fail, and needs the      *)
(* owner of the session to be the outermost call, because Close forgets    *)
(* brackets that are still held.                                           *)
Calls == /\ tls \in BOOLEAN
         /\ frames \in Seq(Frame)
         /\ pc \in {"idle", "begin", "body", "commit", "rollback", "panicked",
                    "leave", "throw"}
         /\ pc = "idle" <=> frames = <<>>

IInv == Stacks /\ Calls /\ TlsMatchesFrames /\ Bracketed

Owned(fs) == \A i \in 1..Len(fs) : fs[i].owner <=> i = 1

(* A step that changes no frame's owner and not the session's lifetime is  *)
(* judged by its brackets alone.                                           *)
LEMMA Kept ==
  ASSUME IInv, Stacks', UNCHANGED <<tls, isClosed>>,
         frames' \in Seq(Frame), Len(frames') = Len(frames), Owned(frames'),
         pc # "idle", pc' # "idle", pc' \in {"begin", "body", "commit", "rollback",
                                            "panicked", "leave", "throw"},
         Held' <= Begun'
  PROVE  IInv'
<1>1. frames # <<>> /\ frames' # <<>>
  BY DEF IInv, Calls
<1>2. Calls'
  BY <1>1 DEF IInv, Calls
<1>3. TlsMatchesFrames'
  BY <1>1 DEF IInv, TlsMatchesFrames, Owned, Depth
<1>4. QED
  BY <1>2, <1>3 DEF IInv, Bracketed, Held

LEMMA FrameUpdated ==
  ASSUME NEW fs \in Seq(Frame), NEW i \in 1..Len(fs), NEW u \in Frame,
         u.owner = fs[i].owner, Owned(fs), NEW gs, gs = [fs EXCEPT ![i] = u]
  PROVE  gs \in Seq(Frame) /\ Len(gs) = Len(fs) /\ Owned(gs)
BY DEF Owned

(* What IInv says of the innermost call and of the numbers.                *)
LEMMA Facts ==
  ASSUME IInv
  PROVE  /\ Len(frames) \in Nat /\ Held \in Nat
         /\ Owned(frames)
         /\ Held <= Len(frames) - (IF pc \in {"begin", "leave", "throw"} THEN 1 ELSE 0)
         /\ pc # "idle" => /\ Len(frames) > 0 /\ ~isClosed
                           /\ Inner = frames[Len(frames)] /\ Inner \in Frame
<1>1. Len(frames) \in Nat /\ Len(txStack) \in Nat
  BY DEF IInv, Calls, Stacks, Entries
<1>2. Owned(frames) /\ Held <= Len(frames) - (IF pc \in {"begin", "leave", "throw"} THEN 1 ELSE 0)
  BY DEF IInv, TlsMatchesFrames, Owned, Depth, Bracketed, Held, Begun
<1>3. pc # "idle" => Len(frames) > 0 /\ ~isClosed
  BY <1>1 DEF IInv, Calls, TlsMatchesFrames
<1>4. Len(frames) > 0 => Inner = frames[Len(frames)] /\ Inner \in Frame
  BY <1>1 DEF IInv, Calls, Inner, Last
<1>5. Held \in Nat
  BY <1>1 DEF Held
<1>6. QED
  BY <1>1, <1>2, <1>3, <1>4, <1>5, Zenon

Kinds == {"new", "join", "nested", "none"}
Places == Tx \cup {Session!AutoCommit}

LEMMA FrameBegun ==
  ASSUME NEW f \in Frame, NEW k \in Kinds, NEW t \in Places
  PROVE  \E u \in Frame : u = [f EXCEPT !.kind = k, !.tx = t] /\ u.owner = f.owner
<1>0. [f EXCEPT !.kind = k] \in Frame /\ [f EXCEPT !.kind = k].owner = f.owner
  BY DEF Frame, Kinds
<1>1. PICK g \in Frame : g = [f EXCEPT !.kind = k] /\ g.owner = f.owner
  BY <1>0, Zenon
<1>2. [g EXCEPT !.tx = t] \in Frame /\ [g EXCEPT !.tx = t].owner = f.owner
  BY <1>1 DEF Frame, Places
<1>3. [f EXCEPT !.kind = k, !.tx = t] = [g EXCEPT !.tx = t]
  BY <1>1
<1>4. QED
  BY <1>2, <1>3, Zenon

LEMMA FrameWritten ==
  ASSUME NEW f \in Frame, NEW w \in SUBSET Stmt
  PROVE  \E u \in Frame : u = [f EXCEPT !.wrote = w] /\ u.owner = f.owner
<1>1. [f EXCEPT !.wrote = w] \in Frame /\ [f EXCEPT !.wrote = w].owner = f.owner
  BY DEF Frame
<1>2. QED
  BY <1>1, Zenon

-----------------------------------------------------------------------------
(* One step for each action of Next.                                       *)
LEMMA CallStep ==
  ASSUME IInv, NEW tag \in Tags, NEW rb \in BOOLEAN, Call(tag, rb)
  PROVE  IInv'
<1> DEFINE f == [tag |-> tag, rb |-> rb, owner |-> ~tls, kind |-> "none",
                 tx |-> Session!AutoCommit, wrote |-> {}]
<1>1. f \in Frame /\ (f.owner <=> ~tls)
  BY DEF Frame
<1>2. frames \in Seq(Frame) /\ frames' = Append(frames, f) /\ tls' = TRUE /\ pc' = "begin"
      /\ pc \in {"idle", "body"}
  BY DEF IInv, Calls, Call
<1> HIDE DEF f
<1>3. /\ frames' \in Seq(Frame) /\ Len(frames') = Len(frames) + 1
      /\ \A i \in 1..Len(frames) : frames'[i] = frames[i]
      /\ frames'[Len(frames) + 1] = f /\ frames' # <<>>
  BY <1>1, <1>2
<1>4. tls <=> Len(frames) > 0
  BY <1>2 DEF IInv, TlsMatchesFrames
<1>5. Owned(frames')
  <2>1. Owned(frames) /\ Len(frames) \in Nat
    BY Facts
  <2>2. ASSUME NEW i \in 1..Len(frames) + 1 PROVE frames'[i].owner <=> i = 1
    <3>1. CASE i = Len(frames) + 1
      BY <1>1, <1>3, <1>4, <2>1, <3>1
    <3>2. CASE i \in 1..Len(frames)
      BY <1>3, <2>1, <3>2 DEF Owned
    <3>3. QED
      BY <2>1, <3>1, <3>2
  <2>3. QED
    BY <1>3, <2>2 DEF Owned
<1>6. Stacks' /\ ~isClosed' /\ Held' <= Len(frames)
  <2>1. CASE tls
    <3>1. UNCHANGED <<txStack, newLocalSession, isClosed>>
      BY <2>1 DEF Call, sessionVars
    <3>2. Stacks' /\ Held' = Held
      BY <3>1 DEF IInv, Stacks, Held
    <3>3. frames # <<>>
      BY <2>1 DEF IInv, TlsMatchesFrames
    <3>4. ~isClosed /\ Held <= Len(frames)
      BY <1>2, <3>3, Facts DEF IInv, TlsMatchesFrames
    <3>5. QED
      BY <3>1, <3>2, <3>4
  <2>2. CASE ~tls
    <3>1. Session!New
      BY <2>2 DEF Call
    <3>2. QED
      BY <3>1, NewDoes, Facts
  <2>3. QED
    BY <2>1, <2>2
<1>7. Calls' /\ TlsMatchesFrames'
  BY <1>2, <1>3, <1>5, <1>6 DEF Calls, TlsMatchesFrames, Owned, Depth
<1>8. Bracketed'
  BY <1>2, <1>3, <1>6, Facts DEF Bracketed, Held, Begun, Depth
<1>9. QED
  BY <1>6, <1>7, <1>8 DEF IInv

LEMMA DoBeginStep ==
  ASSUME IInv, DoBegin
  PROVE  IInv'
<1>1. /\ pc = "begin" /\ Session!Begin(PropagationOf(Inner.tag)) /\ UNCHANGED tls
      /\ Inner \in Frame /\ Inner = frames[Len(frames)]
  BY Facts DEF DoBegin
<1>2. PropagationOf(Inner.tag) \in Session!Propagation \cup {Nil}
  BY <1>1, PropagationTyped DEF IInv, Frame
<1>3. /\ Stacks' /\ UNCHANGED isClosed /\ Held' <= Held + 1
      /\ ret'.err = Session!Error => Held' = Held
  BY <1>1, <1>2, BeginDoes DEF IInv
<1>4. CASE Failed
  <2>1. pc' = "throw" /\ UNCHANGED frames
    BY <1>4 DEF DoBegin
  <2>2. Held' <= Begun'
    BY <1>1, <1>3, <1>4, <2>1, Facts DEF Failed, Begun, Depth
  <2>3. QED
    BY <1>1, <1>3, <2>1, <2>2, Kept, Facts DEF IInv, Calls
<1>5. CASE ~Failed
  <2>1. /\ pc' = "body"
        /\ frames' = [frames EXCEPT ![Depth].kind = Kind(Inner.tag),
                                    ![Depth].tx   = Session!Target']
    BY <1>5 DEF DoBegin
  <2>2. Kind(Inner.tag) \in {"new", "join", "nested", "none"}
    BY DEF Kind
  <2>3. Session!Target' \in Tx \cup {Session!AutoCommit}
    <3>1. ASSUME NEW s \in Entries PROVE Session!Top(s)' \in Tx \cup {Session!AutoCommit}
      BY TopTyped DEF Session!Top
    <3>2. QED
      BY <1>3, TopTyped DEF Stacks, Session!Target, Session!Top
  <2>4. PICK k \in Kinds : k = Kind(Inner.tag)
    BY <2>2 DEF Kinds
  <2>5. PICK t \in Places : t = Session!Target'
    BY <2>3 DEF Places
  <2>6. frames' \in Seq(Frame) /\ Len(frames') = Len(frames) /\ Owned(frames')
    <3>1. frames \in Seq(Frame) /\ Depth \in 1..Len(frames) /\ frames[Depth] = Inner
      BY <1>1, Facts DEF Depth, IInv, Calls
    <3>2. frames' = [frames EXCEPT ![Depth].kind = k, ![Depth].tx = t]
      BY <2>1, <2>4, <2>5
    <3>3. frames' = [frames EXCEPT ![Depth] = [Inner EXCEPT !.kind = k, !.tx = t]]
      BY <3>1, <3>2
    <3>4. PICK u \in Frame : /\ u = [Inner EXCEPT !.kind = k, !.tx = t]
                             /\ u.owner = Inner.owner
      <4>1. Inner \in Frame
        BY <1>1
      <4>2. PICK f \in Frame : f = Inner
        BY <4>1
      <4>3. PICK u \in Frame : u = [f EXCEPT !.kind = k, !.tx = t] /\ u.owner = f.owner
        BY FrameBegun, Zenon
      <4>4. QED
        BY <4>2, <4>3
    <3>5. Owned(frames)
      BY Facts
    <3>6. QED
      <4>1. frames' = [frames EXCEPT ![Depth] = u]
        BY <3>3, <3>4
      <4>2. u.owner = frames[Depth].owner
        BY <3>1, <3>4
      <4> HIDE <1>1, <3>3, <3>4
      <4>3. QED
        BY <3>1, <3>5, <4>1, <4>2, FrameUpdated
  <2>7. Held' <= Begun'
    <3>1. Held' \in Nat
      BY <1>3 DEF Stacks, Entries, Held
    <3>2. QED
      BY <1>1, <1>3, <2>1, <2>6, <3>1, Facts DEF Begun, Depth
  <2>8. QED
    BY <1>1, <1>3, <2>1, <2>6, <2>7, Kept
<1>6. QED
  BY <1>4, <1>5

(* The innermost call's statements are counted differently.                *)
LEMMA Rewritten ==
  ASSUME IInv, pc # "idle", NEW w \in SUBSET Stmt,
         frames' = [frames EXCEPT ![Depth].wrote = w]
  PROVE  frames' \in Seq(Frame) /\ Len(frames') = Len(frames) /\ Owned(frames')
<1>1. frames \in Seq(Frame) /\ Depth \in 1..Len(frames) /\ frames[Depth] = Inner
      /\ Inner \in Frame /\ Owned(frames)
  BY Facts DEF Depth, IInv, Calls
<1>2. frames' = [frames EXCEPT ![Depth] = [Inner EXCEPT !.wrote = w]]
  BY <1>1
<1>3. PICK f \in Frame : f = Inner
  BY <1>1
<1>4. PICK u \in Frame : u = [f EXCEPT !.wrote = w] /\ u.owner = f.owner
  BY FrameWritten, Zenon
<1>5. frames' = [frames EXCEPT ![Depth] = u] /\ u.owner = frames[Depth].owner
  BY <1>1, <1>2, <1>3, <1>4
<1>6. QED
  <2> HIDE <1>2, <1>3, <1>4
  <2>1. QED
    BY <1>1, <1>5, FrameUpdated

LEMMA BodyExecStep ==
  ASSUME IInv, NEW s \in Stmt, BodyExec(s)
  PROVE  IInv'
<1>1. pc = "body" /\ Session!ExecPrepare(s) /\ UNCHANGED <<tls, pc>>
  BY DEF BodyExec
<1>2. UNCHANGED <<txStack, newLocalSession, isClosed>>
  BY <1>1, RunDoes
<1>3. Stacks' /\ Held' = Held
  BY <1>2 DEF IInv, Stacks, Held
<1>4. frames' \in Seq(Frame) /\ Len(frames') = Len(frames) /\ Owned(frames')
  <2>1. CASE UNCHANGED frames
    BY <2>1, Facts DEF IInv, Calls
  <2>2. CASE frames' = [frames EXCEPT ![Depth].wrote = @ \cup {s}]
    <3>1. frames \in Seq(Frame) /\ Depth \in 1..Len(frames) /\ frames[Depth] = Inner
          /\ Inner \in Frame
      BY <1>1, Facts DEF Depth, IInv, Calls
    <3>2. PICK w \in SUBSET Stmt : w = Inner.wrote \cup {s}
      BY <3>1 DEF Frame
    <3>3. frames' = [frames EXCEPT ![Depth].wrote = w]
      BY <2>2, <3>1, <3>2
    <3>4. QED
      BY <1>1, <3>3, Rewritten
  <2>3. QED
    BY <2>1, <2>2 DEF BodyExec
<1>5. Held' <= Begun'
  BY <1>1, <1>3, <1>4, Facts DEF Begun, Depth
<1>6. QED
  BY <1>1, <1>2, <1>3, <1>4, <1>5, Kept

(* A step of the body that touches neither the session nor the calls.      *)
LEMMA QuietStep ==
  ASSUME IInv, UNCHANGED <<sessionVars, tls, frames>>,
         pc \in {"body", "panicked"}, pc' \in {"body", "panicked", "commit", "rollback"}
  PROVE  IInv'
<1>1. UNCHANGED <<txStack, newLocalSession, isClosed, tls, frames>>
  BY DEF sessionVars
<1>2. Stacks' /\ Held' = Held
  BY <1>1 DEF IInv, Stacks, Held
<1>3. frames' \in Seq(Frame) /\ Len(frames') = Len(frames) /\ Owned(frames')
  BY <1>1, Facts DEF IInv, Calls
<1>4. Held' <= Begun'
  BY <1>2, <1>3, Facts DEF Begun, Depth
<1>5. QED
  BY <1>1, <1>2, <1>3, <1>4, Kept

LEMMA DoCommitStep ==
  ASSUME IInv, DoCommit
  PROVE  IInv'
<1>1. pc = "commit" /\ Session!Commit /\ UNCHANGED <<tls, frames>>
      /\ pc' \in {"throw", "leave"}
  BY DEF DoCommit
<1>2. Stacks' /\ UNCHANGED isClosed /\ Held' <= Held /\ (Held > 0 => Held' <= Held - 1)
  BY <1>1, Facts, EndDoes DEF IInv
<1>3. frames' \in Seq(Frame) /\ Len(frames') = Len(frames) /\ Owned(frames')
  BY <1>1, Facts DEF IInv, Calls
<1>4. Held' <= Begun'
  <2>1. Held' \in Nat
    BY <1>2 DEF Stacks, Entries, Held
  <2>2. QED
    BY <1>1, <1>2, <1>3, <2>1, Facts DEF Begun, Depth
<1>5. QED
  BY <1>1, <1>2, <1>3, <1>4, Kept

LEMMA DoRollbackStep ==
  ASSUME IInv, DoRollback
  PROVE  IInv'
<1>1. pc \in {"rollback", "panicked"} /\ Session!Rollback /\ UNCHANGED tls
      /\ pc' \in {"throw", "leave"}
  BY DEF DoRollback
<1>2. Stacks' /\ UNCHANGED isClosed /\ Held' <= Held /\ (Held > 0 => Held' <= Held - 1)
  BY <1>1, Facts, EndDoes DEF IInv
<1>3. frames' \in Seq(Frame) /\ Len(frames') = Len(frames) /\ Owned(frames')
  <2>1. frames \in Seq(Frame) /\ Depth \in 1..Len(frames) /\ frames[Depth] = Inner
        /\ Inner \in Frame
    BY <1>1, Facts DEF Depth, IInv, Calls
  <2>2. PICK w \in SUBSET Stmt : w = IF Decides(Inner) THEN {} ELSE Inner.wrote
    BY <2>1 DEF Frame
  <2>3. frames' = [frames EXCEPT ![Depth].wrote = w]
    BY <2>1, <2>2 DEF DoRollback
  <2>4. QED
    BY <1>1, <2>3, Rewritten
<1>4. Held' <= Begun'
  <2>1. Held' \in Nat
    BY <1>2 DEF Stacks, Entries, Held
  <2>2. QED
    BY <1>1, <1>2, <1>3, <2>1, Facts DEF Begun, Depth
<1>5. QED
  BY <1>1, <1>2, <1>3, <1>4, Kept

(* What the caller's frame is left with: the calls without the innermost.  *)
LEMMA HandedOver ==
  ASSUME IInv, pc # "idle"
  PROVE  /\ HandOver(Inner) \in Seq(Frame)
         /\ Len(HandOver(Inner)) = Len(frames) - 1
         /\ Owned(HandOver(Inner))
<1>1. frames \in Seq(Frame) /\ Len(frames) > 0 /\ Owned(frames) /\ Inner \in Frame
      /\ Depth = Len(frames)
  BY Facts DEF IInv, Calls, Depth
<1> DEFINE fs == SubSeq(frames, 1, Len(frames) - 1)
<1>2. fs \in Seq(Frame) /\ Len(fs) = Len(frames) - 1
      /\ \A i \in 1..Len(frames) - 1 : fs[i] = frames[i]
  BY <1>1, FrontOf
<1>3. Front(frames) = fs
  BY DEF Front
<1> HIDE DEF fs
<1>4. Owned(fs)
  BY <1>1, <1>2 DEF Owned
<1>5. CASE HandOver(Inner) = fs
  BY <1>2, <1>4, <1>5
<1>6. CASE /\ Depth > 1
           /\ HandOver(Inner) = [fs EXCEPT ![Depth - 1].wrote = @ \cup Inner.wrote]
  <2>1. Depth - 1 \in 1..Len(fs)
    BY <1>1, <1>2, <1>6
  <2>2. PICK f \in Frame : f = fs[Depth - 1]
    BY <1>2, <2>1
  <2>3. PICK w \in SUBSET Stmt : w = f.wrote \cup Inner.wrote
    BY <1>1 DEF Frame
  <2>4. PICK u \in Frame : u = [f EXCEPT !.wrote = w] /\ u.owner = f.owner
    BY FrameWritten, Zenon
  <2>5. HandOver(Inner) = [fs EXCEPT ![Depth - 1] = u] /\ u.owner = fs[Depth - 1].owner
    <3>1. HandOver(Inner) = [fs EXCEPT ![Depth - 1].wrote = w]
      BY <1>6, <2>2, <2>3
    <3>2. [fs EXCEPT ![Depth - 1].wrote = w] = [fs EXCEPT ![Depth - 1] = [f EXCEPT !.wrote = w]]
      BY <2>2
    <3>3. QED
      BY <2>2, <2>4, <3>1, <3>2
  <2>6. QED
    <3> HIDE <2>2, <2>3, <2>4
    <3>1. PICK i \in 1..Len(fs) : i = Depth - 1
      BY <2>1
    <3>2. PICK gs : gs = HandOver(Inner)
      OBVIOUS
    <3>3. gs = [fs EXCEPT ![i] = u] /\ u.owner = fs[i].owner
      BY <2>5, <3>1, <3>2
    <3>4. gs \in Seq(Frame) /\ Len(gs) = Len(fs) /\ Owned(gs)
      BY <1>2, <1>4, <3>3, FrameUpdated
    <3>5. QED
      BY <1>2, <3>2, <3>4
<1>7. QED
  BY <1>3, <1>5, <1>6 DEF HandOver

LEMMA LeaveStep ==
  ASSUME IInv, Leave
  PROVE  IInv'
<1>1. /\ pc \in {"leave", "throw"} /\ frames' = HandOver(Inner)
      /\ pc' = IF Depth = 1 THEN "idle" ELSE IF pc = "throw" THEN "panicked" ELSE "body"
  BY DEF Leave
<1>2. frames' \in Seq(Frame) /\ Len(frames') = Len(frames) - 1 /\ Owned(frames')
  BY <1>1, HandedOver
<1>3. Len(frames) \in Nat /\ Len(frames) > 0 /\ ~isClosed /\ Held <= Len(frames) - 1
  BY <1>1, Facts
<1>4. frames \in Seq(Frame) /\ Len(frames) > 0
  BY <1>3 DEF IInv, Calls
<1>5. Inner.owner <=> Len(frames) = 1
  <2>1. Owned(frames) /\ Inner = frames[Len(frames)] /\ Len(frames) \in 1..Len(frames)
    BY <1>1, <1>3, Facts
  <2>2. QED
    BY <2>1, Zenon DEF Owned
<1>6. CASE Len(frames) = 1
  <2>1. Session!Close /\ tls' = FALSE /\ pc' = "idle" /\ frames' = <<>>
    <3>1. Inner.owner
      BY <1>5, <1>6, Zenon
    <3>2. QED
      BY <1>1, <1>2, <1>3, <1>6, <3>1 DEF Leave, Closes, Depth
  <2>2. Stacks' /\ isClosed' /\ Held' = 0
    BY <1>3, <1>6, <2>1, CloseDoes DEF IInv
  <2>3. Calls'
    BY <1>2, <2>1 DEF Calls
  <2>4. TlsMatchesFrames' /\ Bracketed'
    BY <2>1, <2>2 DEF TlsMatchesFrames, Bracketed, Held, Begun, Depth
  <2>5. QED
    BY <2>2, <2>3, <2>4 DEF IInv
<1>7. CASE Len(frames) # 1
  <2>1. UNCHANGED <<txStack, newLocalSession, isClosed, tls>> /\ pc' \in {"body", "panicked"}
    <3>1. ~Inner.owner /\ Depth # 1
      BY <1>5, <1>7, Zenon DEF Depth
    <3>2. UNCHANGED <<sessionVars, tls>>
      BY <3>1 DEF Leave, Closes
    <3>3. QED
      BY <1>1, <3>1, <3>2 DEF sessionVars
  <2>2. Stacks' /\ Held' = Held
    BY <2>1 DEF IInv, Stacks, Held
  <2>3. frames' # <<>> /\ frames # <<>>
    BY <1>2, <1>4, <1>7
  <2>4. Calls'
    BY <1>2, <2>1, <2>3 DEF IInv, Calls
  <2>5. TlsMatchesFrames'
    <3>1. tls /\ ~isClosed
      BY <2>3 DEF IInv, TlsMatchesFrames
    <3>2. tls' /\ ~isClosed'
      BY <2>1, <3>1
    <3>3. (tls' <=> frames' # <<>>) /\ (isClosed' <=> frames' = <<>>)
      BY <2>3, <3>2, Zenon
    <3>4. Owned(frames')
      BY <1>2
    <3>5. QED
      BY <3>3, <3>4, Zenon DEF TlsMatchesFrames, Owned, Depth
  <2>6. Bracketed'
    <3>1. Begun' = Len(frames) - 1
      BY <1>2, <2>1 DEF Begun, Depth
    <3>2. QED
      BY <1>3, <2>2, <3>1 DEF Bracketed, Held
  <2>7. QED
    BY <2>2, <2>4, <2>5, <2>6 DEF IInv
<1>8. QED
  BY <1>6, <1>7

-----------------------------------------------------------------------------
LEMMA IInvInit == Init => IInv
<1> SUFFICES ASSUME Init PROVE IInv
  OBVIOUS
<1>1. Stacks /\ Len(txStack) = 0 /\ ~newLocalSession.live
  BY DEF Init, Stacks, Entries, Session!NoSession
<1>2. Calls
  <2>1. frames \in Seq(Frame) /\ pc = "idle" /\ frames = <<>>
    BY DEF Init
  <2>2. tls \in BOOLEAN
    BY DEF Init
  <2>3. QED
    BY <2>1, <2>2 DEF Calls
<1>3. frames = <<>> /\ Len(frames) = 0 /\ pc = "idle" /\ ~tls /\ isClosed
  BY DEF Init
<1>4. TlsMatchesFrames
  <2>1. \A i \in 1..Depth : frames[i].owner <=> i = 1
    BY <1>3 DEF Depth
  <2>2. QED
    BY <1>3, <2>1, Zenon DEF TlsMatchesFrames
<1>5. Bracketed
  BY <1>1, <1>3 DEF Bracketed, Begun, Depth
<1>6. QED
  BY <1>1, <1>2, <1>4, <1>5 DEF IInv

LEMMA IInvStep == IInv /\ [Next]_vars => IInv'
<1> SUFFICES ASSUME IInv, [Next]_vars PROVE IInv'
  OBVIOUS
<1>1. ASSUME NEW tag \in Tags, NEW rb \in BOOLEAN, Call(tag, rb) PROVE IInv'
  BY <1>1, CallStep
<1>2. CASE DoBegin
  BY <1>2, DoBeginStep
<1>3. ASSUME NEW s \in Stmt, BodyExec(s) PROVE IInv'
  BY <1>3, BodyExecStep
<1>4. ASSUME NEW failed \in BOOLEAN, Return(failed) PROVE IInv'
  BY <1>4, QuietStep DEF Return
<1>5. CASE Panic
  BY <1>5, QuietStep DEF Panic
<1>6. CASE Catch
  BY <1>6, QuietStep DEF Catch
<1>7. CASE DoCommit
  BY <1>7, DoCommitStep
<1>8. CASE DoRollback
  BY <1>8, DoRollbackStep
<1>9. CASE Leave
  BY <1>9, LeaveStep
<1>10. CASE UNCHANGED vars
  <2>1. UNCHANGED <<txStack, newLocalSession, isClosed, tls, frames, pc>>
    BY <1>10 DEF vars
  <2>2. QED
    BY <2>1 DEF IInv, Stacks, Calls, TlsMatchesFrames, Bracketed, Begun, Depth
<1>11. QED
  BY <1>1, <1>2, <1>3, <1>4, <1>5, <1>6, <1>7, <1>8, <1>9, <1>10 DEF Next

(* In every state: the session is the running calls' own and open, and it  *)
(* holds no more brackets than there are calls left to end them.           *)
THEOREM Invariant == Spec => []IInv
BY IInvInit, IInvStep, PTL DEF Spec

(* The goroutine's session is there and open exactly while calls are in    *)
(* progress, and belongs to the outermost                                  *)
(* (TransactionAspectSupport.go:35-51).                                    *)
THEOREM SessionFollowsCalls == Spec => []TlsMatchesFrames
<1>1. IInv => TlsMatchesFrames
  BY DEF IInv
<1>2. QED
  BY <1>1, Invariant, PTL

(* However deep the calls nest and however they end, each bracket on the   *)
(* session still has a call that will end it                               *)
(* (TransactionAspectSupport.go:52-75, 86).                                *)
THEOREM BracketsAreEnded == Spec => []Bracketed
<1>1. IInv => Bracketed
  BY DEF IInv
<1>2. QED
  BY <1>1, Invariant, PTL

-----------------------------------------------------------------------------
(* What rests on the proofs about LocalSession: every step of the proxy is *)
(* a step of the session, so what is proved of a session under any use     *)
(* holds of the one the proxy uses; and with the tags of JoinTags the      *)
(* proxy asks for joining propagations only, so that its session is one    *)
(* unit of work.  What the calls in progress record is then tied to what   *)
(* the session and the database hold.                                      *)

(* The propagations that the proxy can ask the session for.                *)
Asked == {p \in Session!Propagation \cup {Nil} :
             Tags \subseteq JoinTags => p \in Session!JoinProps}

Used == INSTANCE LocalSessionProofs WITH Props <- Asked, MaxDepth <- MaxFrames

(* The instance's own assumptions.                                         *)
LEMMA UsedAssumptions ==
  /\ Tx \cap {Used!AutoCommit, Used!NotRun} = {}
  /\ Asked \subseteq Used!Propagation \cup {Used!Nil}
  /\ MaxFrames \in Nat
BY TxAssumption, FramesAssumption
   DEF Asked, Used!AutoCommit, Used!NotRun, Session!AutoCommit, Session!NotRun,
       Used!Propagation, Session!Propagation, Used!Nil, Nil

-----------------------------------------------------------------------------
(* The session of AopService is that of the instance.                      *)
LEMMA SameBegin ==
  ASSUME NEW p, Session!Begin(p)
  PROVE  Used!Begin(p)
BY DEF Session!Begin, Session!RefusedClosed, Session!BeginJoin, Session!BeginDb,
       Session!BeginNewSession, Session!BeginNothing, Session!Answer, Session!OpensTx,
       Session!Opened, Session!Pushed, Session!Suspends, Session!ChildStack, Session!InTx,
       Session!session, Session!Nil, Session!Error, Session!NoError, Session!Last,
       Used!Begin, Used!RefusedClosed, Used!BeginJoin, Used!BeginDb,
       Used!BeginNewSession, Used!BeginNothing, Used!Answer, Used!OpensTx,
       Used!Opened, Used!Pushed, Used!Suspends, Used!ChildStack, Used!InTx,
       Used!session, Used!Nil, Used!Error, Used!NoError, Used!Last

LEMMA SameEnd ==
  ASSUME NEW op, NEW answers, Session!End(op, answers)
  PROVE  Used!End(op, answers)
BY DEF Session!End, Session!Ended, Session!EndErr, Session!Pop, Session!Front,
       Session!Answer, Session!NoSession, Session!Error, Session!NoError,
       Used!End, Used!Ended, Used!EndErr, Used!Pop, Used!Front,
       Used!Answer, Used!NoSession, Used!Error, Used!NoError

LEMMA SameRefusal ==
  ASSUME NEW op, Session!RefusedClosed(op)
  PROVE  Used!RefusedClosed(op)
BY DEF Session!RefusedClosed, Session!Answer, Session!session, Session!Error,
       Used!RefusedClosed, Used!Answer, Used!session, Used!Error

LEMMA SameAnswers == /\ Session!CommitAnswers = Used!CommitAnswers
                     /\ Session!RollbackAnswers = Used!RollbackAnswers
BY DEF Session!CommitAnswers, Session!RollbackAnswers, Session!NoError, Session!Error,
       Used!CommitAnswers, Used!RollbackAnswers, Used!NoError, Used!Error

LEMMA SameCommit == Session!Commit => Used!Commit
BY SameEnd, SameRefusal, SameAnswers DEF Session!Commit, Used!Commit

LEMMA SameRollback == Session!Rollback => Used!Rollback
BY SameEnd, SameRefusal, SameAnswers DEF Session!Rollback, Used!Rollback

LEMMA SameClose == Session!Close => Used!Close
BY DEF Session!Close, Session!CloseLeaves, Session!RolledBackByClose, Session!ClosePops,
       Session!Answer, Session!NoSession, Session!session, Session!NoError,
       Used!Close, Used!CloseLeaves, Used!RolledBackByClose, Used!ClosePops,
       Used!Answer, Used!NoSession, Used!session, Used!NoError

LEMMA SameNew == Session!New => Used!New
BY DEF Session!New, Session!Answer, Session!NoSession, Session!NoError,
       Used!New, Used!Answer, Used!NoSession, Used!NoError

LEMMA SameTarget == Session!Target = Used!Target /\ Session!Target' = Used!Target'
BY DEF Session!Target, Session!Top, Session!Last, Session!AutoCommit,
       Used!Target, Used!Top, Used!Last, Used!AutoCommit

LEMMA SameExecPrepare ==
  ASSUME NEW s, Session!ExecPrepare(s)
  PROVE  Used!ExecPrepare(s)
BY SameRefusal, SameTarget
   DEF Session!ExecPrepare, Session!Run, Session!DropsArgs, Session!Answer,
       Session!session, Session!Error, Session!NoError, Session!NotRun,
       Used!ExecPrepare, Used!Run, Used!DropsArgs, Used!Answer,
       Used!session, Used!Error, Used!NoError, Used!NotRun

LEMMA SameTypes == Session!TypeOK <=> Used!TypeOK
BY DEF Session!TypeOK, Session!DataOK, Session!Entry, Session!Propagation, Session!Ops,
       Session!AutoCommit, Session!NotRun, Session!NoError, Session!Error,
       Used!TypeOK, Used!DataOK, Used!Entry, Used!Propagation, Used!Ops,
       Used!AutoCommit, Used!NotRun, Used!NoError, Used!Error

-----------------------------------------------------------------------------
(* What the session holds and what the proxy may ask it for.               *)
SessionIInv == /\ IInv
               /\ Depth <= MaxFrames
               /\ Used!Live
               /\ Tags \subseteq JoinTags => Used!AllJoin(txStack)

(* A proxied method begins with a propagation that is asked for.           *)
LEMMA PropagationAsked ==
  ASSUME SessionIInv, NEW tag \in Tags
  PROVE  PropagationOf(tag) \in Asked
<1>1. PropagationOf(tag) \in Session!Propagation \cup {Nil}
  BY PropagationTyped DEF SessionIInv, IInv
<1>2. ASSUME Tags \subseteq JoinTags PROVE PropagationOf(tag) \in Session!JoinProps
  <2>1. CASE tag # Untagged
    BY <1>2, <2>1 DEF PropagationOf, NewPropagation, JoinTags, Session!JoinProps,
                      Session!Propagation, Mistyped
  <2>2. CASE tag = Untagged
    <3>1. PropagationOf(tag) = Session!LastPROPAGATION
      BY <2>2 DEF PropagationOf
    <3>2. CASE Session!InTx
      <4>1. txStack \in Seq(Used!Entry) /\ Used!AllJoin(txStack) /\ Len(txStack) > 0
        BY <1>2, <3>2 DEF SessionIInv, Used!Live, Used!DataOK, Session!InTx
      <4>2. Used!Last(txStack).p \in Used!JoinProps
        <5>1. ASSUME NEW st \in Seq(Used!Entry), Used!AllJoin(st), Len(st) > 0
              PROVE  Used!Last(st).p \in Used!JoinProps
          BY <5>1, Used!AllJoinKept, UsedAssumptions, Zenon
        <5>2. QED
          BY <4>1, <5>1
      <4>3. QED
        BY <3>1, <3>2, <4>2 DEF Session!LastPROPAGATION, Session!Last, Used!Last,
                               Used!JoinProps, Session!JoinProps, Used!Nil, Session!Nil
    <3>3. CASE ~Session!InTx
      BY <3>1, <3>3 DEF Session!LastPROPAGATION, Session!JoinProps
    <3>4. QED
      BY <3>2, <3>3
  <2>3. QED
    BY <2>1, <2>2
<1>3. QED
  BY <1>1, <1>2 DEF Asked

LEMMA RoomToBegin ==
  ASSUME SessionIInv, pc = "begin"
  PROVE  Len(txStack) < MaxFrames
<1>1. Held <= Len(frames) - 1 /\ Len(frames) <= MaxFrames /\ Len(frames) \in Nat
  BY Facts DEF SessionIInv, Depth
<1>2. Len(txStack) \in Nat /\ Len(txStack) <= Held
  <2>1. Len(txStack) \in Nat
    BY DEF SessionIInv, IInv, Stacks, Entries
  <2>2. QED
    BY <2>1 DEF Held
<1>3. QED
  BY <1>1, <1>2, FramesAssumption DEF Held

(* Every step of the proxy is a step of the session, or none of it.        *)
LEMMA SessionStep ==
  ASSUME SessionIInv, [Next]_vars
  PROVE  [Used!Next]_(Used!vars)
<1>1. sessionVars = Used!vars
  BY DEF sessionVars, Used!vars
<1>2. CASE UNCHANGED sessionVars
  BY <1>2 DEF sessionVars, Used!vars
<1>3. ASSUME NEW tag \in Tags, NEW rb \in BOOLEAN, Call(tag, rb) PROVE [Used!Next]_(Used!vars)
  BY <1>2, <1>3, SameNew DEF Call, Used!Next
<1>4. CASE DoBegin
  <2>1. pc = "begin" /\ Session!Begin(PropagationOf(Inner.tag))
    BY <1>4 DEF DoBegin
  <2>2. Inner.tag \in Tags
    BY <2>1, Facts DEF SessionIInv, Frame
  <2>3. PropagationOf(Inner.tag) \in Asked /\ Len(txStack) < MaxFrames
    BY <2>1, <2>2, PropagationAsked, RoomToBegin
  <2>4. Used!Begin(PropagationOf(Inner.tag))
    BY <2>1, SameBegin
  <2>5. QED
    BY <2>3, <2>4 DEF Used!Next
<1>5. ASSUME NEW s \in Stmt, BodyExec(s) PROVE [Used!Next]_(Used!vars)
  BY <1>5, SameExecPrepare DEF BodyExec, Used!Next
<1>6. CASE DoCommit
  BY <1>6, SameCommit DEF DoCommit, Used!Next
<1>7. CASE DoRollback
  BY <1>7, SameRollback DEF DoRollback, Used!Next
<1>8. CASE Leave
  BY <1>2, <1>8, SameClose DEF Leave, Used!Next
<1>9. CASE \/ \E failed \in BOOLEAN : Return(failed)
           \/ Panic \/ Catch \/ UNCHANGED vars
  BY <1>2, <1>9 DEF Return, Panic, Catch, vars, sessionVars
<1>10. QED
  BY <1>3, <1>4, <1>5, <1>6, <1>7, <1>8, <1>9 DEF Next

-----------------------------------------------------------------------------
(* What each step makes of the calls in progress.                          *)
LEMMA OneUpdated ==
  ASSUME NEW fs \in Seq(Frame), NEW i \in 1..Len(fs), NEW u \in Frame,
         NEW gs, gs = [fs EXCEPT ![i] = u]
  PROVE  /\ gs \in Seq(Frame) /\ Len(gs) = Len(fs) /\ gs[i] = u
         /\ \A j \in 1..Len(fs) : j # i => gs[j] = fs[j]
OBVIOUS

(* The innermost call has begun.                                           *)
LEMMA CallBegun ==
  ASSUME IInv, pc # "idle", NEW k \in Kinds, NEW t \in Places,
         frames' = [frames EXCEPT ![Depth].kind = k, ![Depth].tx = t]
  PROVE  /\ Depth' = Depth
         /\ \A j \in 1..Depth : j # Depth => frames'[j] = frames[j]
         /\ frames'[Depth].kind = k /\ frames'[Depth].tx = t
         /\ frames'[Depth].wrote = Inner.wrote
<1>1. frames \in Seq(Frame) /\ Depth \in 1..Len(frames) /\ frames[Depth] = Inner
      /\ Inner \in Frame
  BY Facts DEF Depth, IInv, Calls
<1>2. PICK u \in Frame : u = [Inner EXCEPT !.kind = k, !.tx = t]
  <2>1. PICK f \in Frame : f = Inner
    BY <1>1
  <2>2. \E u \in Frame : u = [f EXCEPT !.kind = k, !.tx = t] /\ u.owner = f.owner
    BY FrameBegun, Zenon
  <2>3. QED
    BY <2>1, <2>2
<1>3. u.kind = k /\ u.tx = t /\ u.wrote = Inner.wrote
  BY <1>1, <1>2 DEF Frame
<1>4. frames' = [frames EXCEPT ![Depth] = u]
  BY <1>1, <1>2
<1>5. /\ Len(frames') = Len(frames) /\ frames'[Depth] = u
      /\ \A j \in 1..Len(frames) : j # Depth => frames'[j] = frames[j]
  <2> HIDE <1>2
  <2>1. PICK i \in 1..Len(frames) : i = Depth
    BY <1>1
  <2>2. PICK gs : gs = frames'
    OBVIOUS
  <2>3. gs = [frames EXCEPT ![i] = u]
    BY <1>4, <2>1, <2>2
  <2>4. Len(gs) = Len(frames) /\ gs[i] = u /\ \A j \in 1..Len(frames) : j # i => gs[j] = frames[j]
    BY <1>1, <2>3, OneUpdated
  <2>5. QED
    BY <2>1, <2>2, <2>4
<1>6. QED
  BY <1>1, <1>3, <1>5 DEF Depth

(* The innermost call's statements are counted differently.                *)
LEMMA CallWritten ==
  ASSUME IInv, pc # "idle", NEW w \in SUBSET Stmt,
         frames' = [frames EXCEPT ![Depth].wrote = w]
  PROVE  /\ Depth' = Depth
         /\ \A j \in 1..Depth : j # Depth => frames'[j] = frames[j]
         /\ frames'[Depth].kind = Inner.kind /\ frames'[Depth].tx = Inner.tx
         /\ frames'[Depth].wrote = w
<1>1. frames \in Seq(Frame) /\ Depth \in 1..Len(frames) /\ frames[Depth] = Inner
      /\ Inner \in Frame
  BY Facts DEF Depth, IInv, Calls
<1>2. PICK u \in Frame : u = [Inner EXCEPT !.wrote = w]
  <2>1. PICK f \in Frame : f = Inner
    BY <1>1
  <2>2. QED
    BY <2>1, FrameWritten
<1>3. u.kind = Inner.kind /\ u.tx = Inner.tx /\ u.wrote = w
  BY <1>1, <1>2 DEF Frame
<1>4. frames' = [frames EXCEPT ![Depth] = u]
  BY <1>1, <1>2
<1>5. /\ Len(frames') = Len(frames) /\ frames'[Depth] = u
      /\ \A j \in 1..Len(frames) : j # Depth => frames'[j] = frames[j]
  <2> HIDE <1>2
  <2>1. PICK i \in 1..Len(frames) : i = Depth
    BY <1>1
  <2>2. PICK gs : gs = frames'
    OBVIOUS
  <2>3. gs = [frames EXCEPT ![i] = u]
    BY <1>4, <2>1, <2>2
  <2>4. Len(gs) = Len(frames) /\ gs[i] = u /\ \A j \in 1..Len(frames) : j # i => gs[j] = frames[j]
    BY <1>1, <2>3, OneUpdated
  <2>5. QED
    BY <2>1, <2>2, <2>4
<1>6. QED
  BY <1>1, <1>3, <1>5 DEF Depth

(* The innermost call is over; a caller it joined answers for what it ran. *)
LEMMA CallLeft ==
  ASSUME IInv, pc # "idle", frames' = HandOver(Inner)
  PROVE  /\ Depth' = Depth - 1
         /\ \A j \in 1..Depth - 1 :
               /\ frames'[j].kind = frames[j].kind /\ frames'[j].tx = frames[j].tx
               /\ \/ frames'[j].wrote = frames[j].wrote
                  \/ /\ j = Depth - 1 /\ Joins(Inner)
                     /\ frames'[j].wrote = frames[j].wrote \cup Inner.wrote
<1>1. frames \in Seq(Frame) /\ Len(frames) > 0 /\ Inner \in Frame /\ Depth = Len(frames)
  BY Facts DEF IInv, Calls, Depth
<1> DEFINE fs == SubSeq(frames, 1, Len(frames) - 1)
<1>2. fs \in Seq(Frame) /\ Len(fs) = Len(frames) - 1
      /\ \A i \in 1..Len(frames) - 1 : fs[i] = frames[i]
  BY <1>1, FrontOf
<1>3. Front(frames) = fs
  BY DEF Front
<1> HIDE DEF fs
<1>4. CASE frames' = fs
  BY <1>1, <1>2, <1>4 DEF Depth
<1>5. CASE /\ Depth > 1 /\ Joins(Inner)
           /\ frames' = [fs EXCEPT ![Depth - 1].wrote = @ \cup Inner.wrote]
  <2>1. PICK n \in 1..Len(fs) : n = Depth - 1
    BY <1>1, <1>2, <1>5
  <2>2. PICK f \in Frame : f = fs[n]
    BY <1>2
  <2>3. PICK w \in SUBSET Stmt : w = f.wrote \cup Inner.wrote
    BY <1>1 DEF Frame
  <2>4. PICK u \in Frame : u = [f EXCEPT !.wrote = w]
    BY FrameWritten
  <2>5. u.kind = f.kind /\ u.tx = f.tx /\ u.wrote = w
    BY <2>4 DEF Frame
  <2>6. frames' = [fs EXCEPT ![n] = u]
    BY <1>5, <2>1, <2>2, <2>3, <2>4
  <2>7. /\ Len(frames') = Len(fs) /\ frames'[n] = u
        /\ \A j \in 1..Len(fs) : j # n => frames'[j] = fs[j]
    <3> HIDE <2>2, <2>3, <2>4
    <3>1. QED
      BY <1>2, <2>6, OneUpdated
  <2>8. QED
    BY <1>1, <1>2, <1>5, <2>1, <2>2, <2>3, <2>5, <2>7 DEF Depth
<1>6. QED
  BY <1>3, <1>4, <1>5 DEF HandOver

(* Begin has let the innermost call in: its frame says where it runs.      *)
LEMMA BeginFrames ==
  ASSUME IInv, IInv', DoBegin, ~Failed
  PROVE  /\ Depth' = Depth
         /\ \A j \in 1..Depth : j # Depth => frames'[j] = frames[j]
         /\ frames'[Depth].kind = Kind(Inner.tag) /\ frames'[Depth].tx = Used!Target'
         /\ frames'[Depth].wrote = Inner.wrote
<1>1. /\ pc # "idle"
      /\ frames' = [frames EXCEPT ![Depth].kind = Kind(Inner.tag),
                                  ![Depth].tx   = Session!Target']
  BY DEF DoBegin
<1>2. PICK k \in Kinds : k = Kind(Inner.tag)
  BY DEF Kind, Kinds
<1>3. PICK t \in Places : t = Session!Target'
  <2>1. ASSUME NEW s \in Entries PROVE Session!Top(s)' \in Places
    BY TopTyped DEF Session!Top, Places
  <2>2. QED
    BY <2>1, TopTyped DEF IInv, Stacks, Session!Target, Session!Top, Places
<1>4. frames' = [frames EXCEPT ![Depth].kind = k, ![Depth].tx = t]
  BY <1>1, <1>2, <1>3
<1>5. /\ Depth' = Depth
      /\ \A j \in 1..Depth : j # Depth => frames'[j] = frames[j]
      /\ frames'[Depth].kind = k /\ frames'[Depth].tx = t
      /\ frames'[Depth].wrote = Inner.wrote
  BY <1>1, <1>4, CallBegun
<1>6. QED
  BY <1>2, <1>3, <1>5, SameTarget

(* A statement has run in the innermost call.                              *)
LEMMA ExecFrames ==
  ASSUME IInv, NEW s \in Stmt, BodyExec(s)
  PROVE  /\ Depth' = Depth
         /\ \A j \in 1..Depth : j # Depth => frames'[j] = frames[j]
         /\ frames'[Depth].kind = Inner.kind /\ frames'[Depth].tx = Inner.tx
         /\ frames'[Depth].wrote = IF Failed \/ Inner.kind = "none"
                                     THEN Inner.wrote ELSE Inner.wrote \cup {s}
<1>1. pc # "idle"
  BY DEF BodyExec
<1>2. frames \in Seq(Frame) /\ Depth \in 1..Len(frames) /\ frames[Depth] = Inner
      /\ Inner \in Frame
  BY <1>1, Facts DEF Depth, IInv, Calls
<1>3. CASE Failed \/ Inner.kind = "none"
  BY <1>2, <1>3 DEF BodyExec, Depth
<1>4. CASE ~Failed /\ Inner.kind # "none"
  <2>1. PICK w \in SUBSET Stmt : w = Inner.wrote \cup {s}
    BY <1>2 DEF Frame
  <2>2. frames' = [frames EXCEPT ![Depth].wrote = w]
    BY <1>2, <1>4, <2>1 DEF BodyExec
  <2>3. /\ Depth' = Depth
        /\ \A j \in 1..Depth : j # Depth => frames'[j] = frames[j]
        /\ frames'[Depth].kind = Inner.kind /\ frames'[Depth].tx = Inner.tx
        /\ frames'[Depth].wrote = w
    BY <1>1, <2>2, CallWritten
  <2>4. QED
    BY <1>4, <2>1, <2>3
<1>5. QED
  BY <1>3, <1>4

(* The innermost call has rolled back.                                     *)
LEMMA RollbackFrames ==
  ASSUME IInv, DoRollback
  PROVE  /\ Depth' = Depth
         /\ \A j \in 1..Depth : j # Depth => frames'[j] = frames[j]
         /\ frames'[Depth].kind = Inner.kind /\ frames'[Depth].tx = Inner.tx
         /\ frames'[Depth].wrote = IF Decides(Inner) THEN {} ELSE Inner.wrote
<1>1. pc # "idle"
  BY DEF DoRollback
<1>2. frames \in Seq(Frame) /\ Depth \in 1..Len(frames) /\ frames[Depth] = Inner
      /\ Inner \in Frame
  BY <1>1, Facts DEF Depth, IInv, Calls
<1>3. PICK w \in SUBSET Stmt : w = IF Decides(Inner) THEN {} ELSE Inner.wrote
  BY <1>2 DEF Frame
<1>4. frames' = [frames EXCEPT ![Depth].wrote = w]
  BY <1>2, <1>3 DEF DoRollback
<1>5. /\ Depth' = Depth
      /\ \A j \in 1..Depth : j # Depth => frames'[j] = frames[j]
      /\ frames'[Depth].kind = Inner.kind /\ frames'[Depth].tx = Inner.tx
      /\ frames'[Depth].wrote = w
  BY <1>1, <1>4, CallWritten
<1>6. QED
  BY <1>3, <1>5

(* A call is made: its frame is put on top of the others.                  *)
LEMMA CallFrames ==
  ASSUME IInv, NEW tag \in Tags, NEW rb \in BOOLEAN, Call(tag, rb)
  PROVE  /\ Depth' = Depth + 1
         /\ \A j \in 1..Depth : frames'[j] = frames[j]
         /\ frames'[Depth + 1].kind = "none" /\ frames'[Depth + 1].wrote = {}
<1> DEFINE f == [tag |-> tag, rb |-> rb, owner |-> ~tls, kind |-> "none",
                 tx |-> Session!AutoCommit, wrote |-> {}]
<1>1. frames \in Seq(Frame) /\ frames' = Append(frames, f)
  BY DEF IInv, Calls, Call
<1>2. f.kind = "none" /\ f.wrote = {}
  OBVIOUS
<1> HIDE DEF f
<1>3. QED
  BY <1>1, <1>2 DEF Depth

-----------------------------------------------------------------------------
(* SessionIInv is inductive.                                               *)
LEMMA JoinTagsAskJoining ==
  ASSUME Tags \subseteq JoinTags
  PROVE  Asked \subseteq Used!JoinProps
BY DEF Asked, Used!JoinProps, Session!JoinProps, Used!Nil, Session!Nil

LEMMA DepthStep ==
  ASSUME IInv, IInv', Depth <= MaxFrames, [Next]_vars
  PROVE  Depth' <= MaxFrames
<1>1. Depth \in Nat
  BY Facts DEF Depth
<1>2. ASSUME NEW tag \in Tags, NEW rb \in BOOLEAN, Call(tag, rb) PROVE Depth' <= MaxFrames
  <2>1. Depth < MaxFrames
    BY <1>2 DEF Call
  <2>2. Depth' = Depth + 1
    BY <1>2, CallFrames
  <2>3. QED
    BY <1>1, <2>1, <2>2, FramesAssumption
<1>3. CASE DoBegin
  <2>1. CASE Failed
    BY <1>3, <2>1 DEF DoBegin, Depth
  <2>2. CASE ~Failed
    BY <1>3, <2>2, BeginFrames
  <2>3. QED
    BY <2>1, <2>2
<1>4. ASSUME NEW s \in Stmt, BodyExec(s) PROVE Depth' <= MaxFrames
  BY <1>4, ExecFrames
<1>5. CASE DoRollback
  BY <1>5, RollbackFrames
<1>6. CASE Leave
  <2>1. Depth' = Depth - 1
    BY <1>6, CallLeft DEF Leave
  <2>2. QED
    BY <1>1, <2>1, FramesAssumption
<1>7. UNCHANGED frames => Depth' <= MaxFrames
  BY DEF Depth
<1>8. QED
  BY <1>2, <1>3, <1>4, <1>5, <1>6, <1>7
     DEF Next, Return, Panic, Catch, DoCommit, vars

LEMMA SessionIInvInit == Init => SessionIInv
<1> SUFFICES ASSUME Init PROVE SessionIInv
  OBVIOUS
<1>1. Depth <= MaxFrames
  BY FramesAssumption DEF Init, Depth
<1>2. Used!DataOK
  BY DEF Init, Used!DataOK, Used!Ops, Used!NoError, Used!NotRun, Used!Entry,
         Session!NoSession, Session!NotRun, Session!NoError
<1>3. isClosed /\ txStack = <<>> /\ newLocalSession.txStack = <<>>
  BY DEF Init, Session!NoSession
<1>4. Used!TxsOf(<<>>) = {}
  BY Used!TxsOfEmpty, UsedAssumptions
<1>5. Used!StackIsLive /\ Used!OneOwner
  BY <1>3, <1>4 DEF Used!StackIsLive, Used!OneOwner
<1>6. Used!AllJoin(txStack)
  BY <1>3 DEF Used!AllJoin
<1>7. QED
  BY IInvInit, <1>1, <1>2, <1>5, <1>6 DEF SessionIInv, Used!Live

LEMMA SessionIInvStep == SessionIInv /\ [Next]_vars => SessionIInv'
<1> SUFFICES ASSUME SessionIInv, [Next]_vars PROVE SessionIInv'
  OBVIOUS
<1>1. IInv'
  BY IInvStep DEF SessionIInv
<1>2. Depth' <= MaxFrames
  BY <1>1, DepthStep DEF SessionIInv
<1>3. [Used!Next]_(Used!vars)
  BY SessionStep
<1>4. Used!Live'
  BY <1>3, Used!LiveStep, UsedAssumptions DEF SessionIInv
<1>5. ASSUME Tags \subseteq JoinTags PROVE Used!AllJoin(txStack')
  <2>1. Used!DataOK /\ Used!AllJoin(txStack)
    BY <1>5 DEF SessionIInv, Used!Live
  <2>2. Asked \subseteq Used!JoinProps
    BY <1>5, JoinTagsAskJoining
  <2>3. QED
    BY <1>3, <2>1, <2>2, Used!AllJoinStep, UsedAssumptions
<1>6. (Tags \subseteq JoinTags => Used!AllJoin(txStack))'
  BY <1>5 DEF Used!AllJoin, Used!JoinProps
<1>7. QED
  BY <1>1, <1>2, <1>4, <1>6 DEF SessionIInv

LEMMA SessionInvariant == Spec => []SessionIInv
BY SessionIInvInit, SessionIInvStep, PTL DEF Spec

-----------------------------------------------------------------------------
(* With any tags.                                                          *)

(* The proxy is one of the session's unconstrained callers: whatever it    *)
(* does to the session, the database and the answers is a step that        *)
(* LocalSession allows (TransactionAspectSupport.go:35-86).                *)
UsesSession == [][Used!Next]_(Used!vars)

THEOREM ProxyUsesSession == Spec => UsesSession
BY SessionInvariant, SessionStep, PTL DEF Spec, UsesSession

(* However the calls nest and end, no transaction on the session's stack   *)
(* or on its child's has been ended already, and the child's is not one of *)
(* the session's own (LocalSession.go:59-86, 106-133, 188-200).            *)
THEOREM ProxyStacksAreLive == Spec => []Used!StackIsLive /\ []Used!OneOwner
<1>1. SessionIInv => Used!StackIsLive /\ Used!OneOwner
  BY DEF SessionIInv, Used!Live
<1>2. QED
  BY <1>1, SessionInvariant, PTL

HistoryOK == keep \in SUBSET Stmt /\ undo \in SUBSET Stmt

LEMMA HistoryStep == IInv /\ HistoryOK /\ [Next]_vars => HistoryOK'
<1> SUFFICES ASSUME IInv, HistoryOK, [Next]_vars PROVE HistoryOK'
  OBVIOUS
<1>1. pc # "idle" => Inner.wrote \in SUBSET Stmt
  BY Facts DEF Frame
<1>2. ASSUME NEW s \in Stmt, BodyExec(s) PROVE HistoryOK'
  BY <1>2 DEF BodyExec, HistoryOK
<1>3. CASE DoCommit
  BY <1>1, <1>3 DEF DoCommit, HistoryOK
<1>4. CASE DoRollback
  BY <1>1, <1>4 DEF DoRollback, HistoryOK
<1>5. CASE UNCHANGED <<keep, undo>>
  BY <1>5 DEF HistoryOK
<1>6. QED
  BY <1>2, <1>3, <1>4, <1>5 DEF Next, Call, DoBegin, Return, Panic, Catch, Leave, vars

(* Every variable of the proxy, the session and the database keeps its     *)
(* type.                                                                   *)
THEOREM TypeCorrect == Spec => []TypeOK
<1>1. Spec => []HistoryOK
  <2>1. Init => HistoryOK
    BY DEF Init, HistoryOK
  <2>2. QED
    BY <2>1, Invariant, HistoryStep, PTL DEF Spec
<1>2. Spec => []Used!ClosedOK
  <2>1. Init => Used!ClosedOK
    BY Zenon DEF Init, Used!ClosedOK
  <2>2. Used!ClosedOK /\ [Used!Next]_(Used!vars) => Used!ClosedOK'
    BY Used!ClosedStep, UsedAssumptions
  <2>3. QED
    BY <2>1, <2>2, SessionInvariant, SessionStep, PTL DEF Spec
<1>3. SessionIInv /\ Used!ClosedOK /\ HistoryOK => TypeOK
  <2> SUFFICES ASSUME SessionIInv, Used!ClosedOK, HistoryOK PROVE TypeOK
    OBVIOUS
  <2>1. Session!TypeOK
    BY SameTypes, Zenon DEF SessionIInv, Used!Live, Used!ClosedOK, Used!TypeOK
  <2>2. Calls /\ HistoryOK
    BY DEF SessionIInv, IInv
  <2>3. QED
    BY <2>1, <2>2 DEF TypeOK, Calls, HistoryOK
<1>4. QED
  BY <1>1, <1>2, <1>3, SessionInvariant, PTL

(* No call, of this or any later session of the goroutine, changes the     *)
(* fate of a transaction that has ended (LocalSession.go:82, 129, 285).    *)
THEOREM ProxyEndsOnce == Spec => Used!EndedOnce
<1>1. SessionIInv /\ [Next]_vars => [Used!EndsOnce]_(Used!vars)
  <2>1. Used!Live /\ [Used!Next]_(Used!vars) => Used!EndsOnce
    BY Used!EndsOnceStep, UsedAssumptions
  <2>2. QED
    BY <2>1, SessionStep DEF SessionIInv
<1>2. QED
  BY <1>1, SessionInvariant, PTL DEF Spec, Used!EndedOnce

-----------------------------------------------------------------------------
(* With the tags of JoinTags: the strengthening.  The calls in progress    *)
(* are layered: outermost some in no transaction, then the one that opened *)
(* it, then those that joined or nest in it; each but the first has an entry on the      *)
(* session's stack, all of one transaction, and what it wrote ran there.   *)
Base == Begun - Len(txStack)

(* Without NESTED among the tags no call is to be rolled back by itself.   *)
JoinKinds == IF Tags \subseteq UnitTags THEN {"join"} ELSE {"join", "nested"}

Layer(i) == IF i <= Base THEN {"none"} ELSE IF i = Base + 1 THEN {"new"} ELSE JoinKinds

Layered == /\ Base >= 0
           /\ \A i \in 1..Begun : frames[i].kind \in Layer(i)
           /\ \A i \in 1..Begun : i > Base => frames[i].tx \in Used!TxsOf(txStack)

Fresh == pc = "begin" => frames[Depth].kind = "none" /\ frames[Depth].wrote = {}

WroteOnTx == \A i \in 1..Depth :
                frames[i].kind # "none" =>
                   /\ frames[i].tx \in Tx
                   /\ \A s \in frames[i].wrote : ranOn[s] = frames[i].tx

Undone == Tags \subseteq UnitTags =>
             \A s \in undo : ranOn[s] \in Tx /\ txState[ranOn[s]] = "rolledback"

Vouched == \A s \in keep : \/ ranOn[s] = Used!AutoCommit
                           \/ ranOn[s] \in Tx /\ txState[ranOn[s]] = "committed"

CallsInv == Layered /\ Fresh /\ JoinSharesTx /\ WroteOnTx /\ Undone /\ Vouched

UnitIInv == SessionIInv /\ HistoryOK /\ Used!Joined /\ CallsInv

(* What UnitIInv says of the numbers and of the session.                   *)
LEMMA UnitFacts ==
  ASSUME UnitIInv
  PROVE  /\ Depth \in Nat /\ Len(txStack) \in Nat /\ txStack \in Seq(Used!Entry)
         /\ Depth = Len(frames)
         /\ Begun = Depth - (IF pc \in {"begin", "leave", "throw"} THEN 1 ELSE 0)
         /\ Base \in Nat /\ Base = Begun - Len(txStack)
         /\ pc # "idle" => /\ Depth > 0 /\ ~isClosed
                           /\ Inner = frames[Depth] /\ Inner \in Frame
         /\ newLocalSession = Used!NoSession
         /\ Used!TxsOf(txStack) \subseteq Tx
         /\ \A t, u \in Used!TxsOf(txStack) : t = u
         /\ ranOn \in [Stmt -> Tx \cup {Used!AutoCommit, Used!NotRun}]
         /\ txState \in Used!TxStates
         /\ \A i \in 1..Depth : frames[i].wrote \in SUBSET Stmt
<1>1. Depth \in Nat /\ Depth = Len(frames)
      /\ Begun = Depth - (IF pc \in {"begin", "leave", "throw"} THEN 1 ELSE 0)
      /\ (pc # "idle" => Depth > 0 /\ ~isClosed /\ Inner = frames[Depth] /\ Inner \in Frame)
  BY Facts DEF UnitIInv, SessionIInv, Depth, Begun
<1>2. txStack \in Seq(Used!Entry) /\ txState \in Used!TxStates
      /\ ranOn \in [Stmt -> Tx \cup {Used!AutoCommit, Used!NotRun}]
  BY DEF UnitIInv, Used!Joined, Used!Live, Used!DataOK, Used!TxStates
<1>3. Used!TxsOf(txStack) \subseteq Tx
  <2>1. ASSUME NEW st \in Seq(Used!Entry) PROVE Used!TxsOf(st) \subseteq Tx
    BY Used!TxsOfType, UsedAssumptions
  <2>2. QED
    BY <1>2, <2>1
<1>4. newLocalSession = Used!NoSession /\ \A t, u \in Used!TxsOf(txStack) : t = u
  BY DEF UnitIInv, Used!Joined, Used!OneTx
<1>5. \A i \in 1..Depth : frames[i].wrote \in SUBSET Stmt
  <2>1. \A i \in 1..Depth : frames[i] \in Frame
    BY DEF UnitIInv, SessionIInv, IInv, Calls, Depth
  <2>2. QED
    BY <2>1 DEF Frame
<1>6. Len(txStack) \in Nat
  BY <1>2
<1>7. Base \in Nat /\ Base = Begun - Len(txStack)
  BY <1>1, <1>6 DEF UnitIInv, CallsInv, Layered, Base
<1>8. QED
  BY <1>1, <1>2, <1>3, <1>4, <1>5, <1>6, <1>7

-----------------------------------------------------------------------------
(* What has been decided stays so.                                         *)
LEMMA RanOnceStep ==
  ASSUME ranOn \in [Stmt -> Tx \cup {Used!AutoCommit, Used!NotRun}], [Used!Next]_(Used!vars)
  PROVE  \A s \in Stmt : ranOn[s] # Used!NotRun => ranOn'[s] = ranOn[s]
<1>1. CASE UNCHANGED ranOn
  BY <1>1
<1>2. ASSUME NEW r \in Stmt, NEW op, Used!Run(op, r)
      PROVE  \A s \in Stmt : ranOn[s] # Used!NotRun => ranOn'[s] = ranOn[s]
  BY <1>2 DEF Used!Run
<1>3. ASSUME NEW op, Used!RefusedClosed(op) PROVE UNCHANGED ranOn
  BY <1>3 DEF Used!RefusedClosed
<1>4. QED
  BY <1>1, <1>2, <1>3
     DEF Used!Next, Used!vars, Used!New, Used!Begin, Used!Commit, Used!Rollback, Used!End,
         Used!Close, Used!Exec, Used!ExecPrepare

LEMMA Decided ==
  ASSUME UnitIInv, [Next]_vars
  PROVE  /\ \A t \in Tx : txState[t] \in {"committed", "rolledback"} => txState'[t] = txState[t]
         /\ \A s \in Stmt : ranOn[s] # Used!NotRun => ranOn'[s] = ranOn[s]
         /\ Used!NotRun \notin Tx /\ Used!AutoCommit \notin Tx
         /\ Used!NotRun # Used!AutoCommit
<1>1. [Used!Next]_(Used!vars)
  BY SessionStep DEF UnitIInv
<1>2. Used!EndsOnce
  BY <1>1, Used!EndsOnceStep, UsedAssumptions DEF UnitIInv, SessionIInv
<1>3. \A t \in Tx : txState[t] \in {"committed", "rolledback"} => txState'[t] = txState[t]
  BY <1>2 DEF Used!EndsOnce
<1>4. \A s \in Stmt : ranOn[s] # Used!NotRun => ranOn'[s] = ranOn[s]
  BY <1>1, RanOnceStep, UnitFacts
<1>5. Used!NotRun # Used!AutoCommit
  BY DEF Used!NotRun, Used!AutoCommit
<1>6. QED
  BY <1>3, <1>4, <1>5, UsedAssumptions

LEMMA StaysDecided ==
  ASSUME UnitIInv, [Next]_vars
  PROVE  /\ UNCHANGED undo => Undone'
         /\ UNCHANGED keep => Vouched'
         /\ \A i \in 1..Depth :
               frames[i].kind # "none" =>
                  \A s \in frames[i].wrote : ranOn'[s] = frames[i].tx
<1>1. Tags \subseteq UnitTags =>
         \A s \in undo : ranOn'[s] \in Tx /\ txState'[ranOn'[s]] = "rolledback"
  BY Decided DEF UnitIInv, CallsInv, Undone, HistoryOK
<1>2. \A s \in keep : \/ ranOn'[s] = Used!AutoCommit
                      \/ ranOn'[s] \in Tx /\ txState'[ranOn'[s]] = "committed"
  BY Decided DEF UnitIInv, CallsInv, Vouched, HistoryOK
<1>3. \A i \in 1..Depth : frames[i].kind # "none" =>
         \A s \in frames[i].wrote : ranOn'[s] = frames[i].tx
  BY Decided, UnitFacts DEF UnitIInv, CallsInv, WroteOnTx
<1>4. UNCHANGED undo => Undone'
  BY <1>1 DEF Undone
<1>5. UNCHANGED keep => Vouched'
  BY <1>2 DEF Vouched, Used!AutoCommit
<1>6. QED
  BY <1>3, <1>4, <1>5

-----------------------------------------------------------------------------
(* A call that is let in joins the transaction it finds, opens one or runs *)
(* without, and its kind says which.                                       *)
LEMMA CallerInTxIfStacked ==
  ASSUME UnitIInv, pc = "begin"
  PROVE  CallerInTx <=> Len(txStack) > 0
<1>1. Begun = Depth - 1 /\ Depth > 0 /\ Depth \in Nat /\ Len(txStack) \in Nat
  BY UnitFacts
<1>2. Layered
  BY DEF UnitIInv, CallsInv
<1>3. CASE Depth = 1
  BY <1>1, <1>2, <1>3 DEF CallerInTx, Layered, Base
<1>4. CASE Depth > 1
  <2>1. frames[Depth - 1].kind \in Layer(Depth - 1)
    BY <1>1, <1>2, <1>4 DEF Layered
  <2>2. /\ Len(txStack) > 0 => "none" \notin Layer(Depth - 1)
        /\ Len(txStack) = 0 => Layer(Depth - 1) = {"none"}
    BY <1>1 DEF Layer, Base, JoinKinds
  <2>3. QED
    BY <1>1, <1>4, <2>1, <2>2 DEF CallerInTx
<1>5. QED
  BY <1>1, <1>3, <1>4

LEMMA BeginOutcome ==
  ASSUME UnitIInv, Tags \subseteq JoinTags, DoBegin, ~Failed
  PROVE  /\ Len(txStack) > 0 => /\ Kind(Inner.tag) \in JoinKinds
                                /\ Len(txStack') = Len(txStack) + 1
                                /\ Used!TxsOf(txStack') = Used!TxsOf(txStack)
         /\ Len(txStack) = 0 => \/ Kind(Inner.tag) = "none" /\ Len(txStack') = 0
                                \/ Kind(Inner.tag) = "new" /\ Len(txStack') = 1
<1> DEFINE tag == Inner.tag
           p == PropagationOf(tag)
<1>1. /\ pc = "begin" /\ Session!Begin(p) /\ ~isClosed /\ tag \in Tags /\ tag \in JoinTags
      /\ txStack \in Seq(Used!Entry) /\ Len(txStack) \in Nat
  BY UnitFacts DEF DoBegin, Frame
<1>2. p \in Used!JoinProps
  BY <1>1, PropagationAsked, JoinTagsAskJoining DEF UnitIInv
<1>3. Used!Begin(p)
  BY <1>1, SameBegin
<1>4. CallerInTx <=> Len(txStack) > 0
  BY <1>1, CallerInTxIfStacked
<1>5. ret'.err # Used!Error
  BY DEF Failed, Session!Error, Used!Error
<1>6. \/ UNCHANGED txStack
      \/ /\ Len(txStack') = Len(txStack) + 1
         /\ Len(txStack) > 0 => Used!TxsOf(txStack') = Used!TxsOf(txStack)
  <2>1. Used!Joined
    BY DEF UnitIInv
  <2>2. \/ UNCHANGED <<txStack, txState>>
        \/ /\ Len(txStack') = Len(txStack) + 1
           /\ \/ Len(txStack) > 0 /\ Used!TxsOf(txStack') = Used!TxsOf(txStack)
              \/ Len(txStack) = 0
    BY <1>2, <1>3, <2>1, Used!BeginJoined, UsedAssumptions
  <2>3. QED
    BY <1>1, <2>2
<1>7. \/ Used!BeginJoin(p) \/ Used!BeginDb(p) \/ Used!BeginNewSession(p) \/ Used!BeginNothing(p)
  BY <1>1, <1>3 DEF Used!Begin, Used!RefusedClosed
<1>8. tag # Untagged => p = NewPropagation(tag)
  BY DEF PropagationOf
<1>9. CASE Len(txStack) > 0
  <2>1. Used!BeginJoin(p)
    <3>1. ~Used!BeginDb(p)
      BY <1>2, <1>9 DEF Used!BeginDb, Used!OpensTx, Used!InTx, Used!JoinProps, Used!Nil
    <3>2. ~Used!BeginNewSession(p)
      BY <1>2 DEF Used!BeginNewSession, Used!Suspends, Used!JoinProps, Used!Nil
    <3>3. ~Used!Answer("Begin", Used!Error)
      BY <1>5 DEF Used!Answer
    <3>4. p # Nil
      <4>1. CASE tag = Untagged
        <5>1. p = Session!Last(txStack).p
          BY <1>9, <4>1 DEF PropagationOf, Session!LastPROPAGATION, Session!InTx
        <5>2. Session!Last(txStack) \in Session!Entry
          BY <1>9, SessionFront DEF UnitIInv, SessionIInv, IInv, Stacks
        <5>3. QED
          BY <5>1, <5>2 DEF Session!Entry, Session!Propagation, Nil
      <4>2. CASE tag # Untagged
        BY <1>8, <4>2 DEF NewPropagation, Session!Propagation, Nil
      <4>3. QED
        BY <4>1, <4>2
    <3>5. ~Used!BeginNothing(p)
      BY <1>2, <1>9, <3>3, <3>4 DEF Used!BeginNothing, Used!InTx, Used!JoinProps, Used!Nil, Nil
    <3>6. QED
      BY <1>7, <3>1, <3>2, <3>5
  <2>2. p \in {"REQUIRED", "NESTED"}
    BY <2>1 DEF Used!BeginJoin
  <2>3. tag \notin {"NOT_SUPPORTED", "NEVER", "NOT_REQUIRED", "REQUIRES_NEW"}
    BY <1>1, <1>8, <2>2 DEF NewPropagation, Session!Propagation, JoinTags, Untagged, Mistyped
  <2>4. Kind(tag) \in JoinKinds
    BY <1>1, <1>4, <1>9, <2>3 DEF Kind, JoinKinds, UnitTags
  <2>5. txStack' # txStack
    <3>1. txStack' = Append(txStack, Used!Last(txStack))
      BY <2>1 DEF Used!BeginJoin
    <3>2. Used!Last(txStack) \in Used!Entry
      BY <1>1, <1>9 DEF Used!Last
    <3>3. QED
      BY <1>1, <3>1, <3>2
  <2>6. QED
    BY <1>6, <1>9, <2>4, <2>5
<1>10. CASE Len(txStack) = 0
  <2>1. ~CallerInTx
    BY <1>4, <1>10
  <2>2. CASE Used!BeginDb(p)
    <3>1. p \in {"REQUIRED", "NESTED", "NOT_REQUIRED"}
      BY <1>2, <1>10, <2>2 DEF Used!BeginDb, Used!OpensTx, Used!InTx, Used!JoinProps, Used!Nil
    <3>2. tag \in {"REQUIRED", "NESTED", "NOT_REQUIRED", Mistyped}
      <4>1. tag # Untagged
        BY <1>10, <3>1 DEF PropagationOf, Session!LastPROPAGATION, Session!InTx, Session!Nil
      <4>2. QED
        BY <1>1, <1>8, <3>1, <4>1 DEF NewPropagation, Session!Propagation, JoinTags
    <3>3. Kind(tag) = "new"
      BY <2>1, <3>2 DEF Kind, Mistyped
    <3>4. Len(txStack') = 1
      <4>1. PICK t \in Tx : txStack' = Append(txStack, [tx |-> t, p |-> Used!Pushed(p)])
        <5>1. ~Used!Answer("Begin", Used!Error)
          BY <1>5 DEF Used!Answer
        <5>2. QED
          BY <2>2, <5>1, Zenon DEF Used!BeginDb
      <4>2. [tx |-> t, p |-> Used!Pushed(p)] \in Used!Entry
        BY <3>1 DEF Used!Entry, Used!Pushed, Used!Propagation
      <4>3. QED
        BY <1>1, <1>10, <4>1, <4>2
    <3>5. QED
      BY <1>10, <3>3, <3>4
  <2>3. CASE Used!BeginNothing(p)
    <3>1. p \in {Nil, "NEVER"} /\ UNCHANGED txStack
      BY <1>2, <1>5, <1>10, <2>3 DEF Used!BeginNothing, Used!InTx, Used!JoinProps, Used!Nil,
         Nil, Used!Answer, Used!session
    <3>2. tag \in {Untagged, "NEVER"}
      BY <1>1, <1>8, <3>1 DEF NewPropagation, Session!Propagation, JoinTags, Nil
    <3>3. Kind(tag) = "none"
      BY <2>1, <3>2 DEF Kind, Untagged, Mistyped
    <3>4. QED
      BY <1>10, <3>1, <3>3
  <2>4. QED
    BY <1>2, <1>7, <1>10, <2>2, <2>3 DEF Used!BeginJoin, Used!InTx, Used!BeginNewSession,
       Used!Suspends, Used!JoinProps, Used!Nil
<1>11. QED
  BY <1>1, <1>9, <1>10

-----------------------------------------------------------------------------
(* Each step keeps the calls layered and their records true.               *)
LEMMA CallKeeps ==
  ASSUME UnitIInv, NEW tag \in Tags, NEW rb \in BOOLEAN, Call(tag, rb)
  PROVE  CallsInv'
<1>1. /\ Depth' = Depth + 1 /\ \A j \in 1..Depth : frames'[j] = frames[j]
      /\ frames'[Depth + 1].kind = "none" /\ frames'[Depth + 1].wrote = {}
  BY CallFrames DEF UnitIInv, SessionIInv
<1>2. /\ pc' = "begin" /\ pc \in {"idle", "body"} /\ UNCHANGED <<keep, undo>>
      /\ Depth \in Nat /\ Begun = Depth /\ Begun' = Depth /\ Len(txStack) \in Nat
  BY <1>1, UnitFacts DEF Call, Begun
<1>3. UNCHANGED txStack \/ (Depth = 0 /\ txStack' = <<>>)
  <2>1. CASE tls
    BY <2>1 DEF Call, sessionVars
  <2>2. CASE ~tls
    <3>1. frames = <<>>
      BY <2>2 DEF UnitIInv, SessionIInv, IInv, TlsMatchesFrames
    <3>2. QED
      BY <2>2, <3>1 DEF Call, Session!New, Depth
  <2>3. QED
    BY <2>1, <2>2
<1>4. CallsInv /\ [Next]_vars
  BY DEF UnitIInv, Next
<1>5. Layered'
  <2>1. CASE UNCHANGED txStack
    BY <1>1, <1>2, <1>4, <2>1 DEF CallsInv, Layered, Base, Layer
  <2>2. CASE Depth = 0 /\ txStack' = <<>>
    BY <1>2, <2>2 DEF Layered, Base
  <2>3. QED
    BY <1>3, <2>1, <2>2
<1>6. Fresh'
  BY <1>1 DEF Fresh
<1>7. JoinSharesTx'
  BY <1>1, <1>2, <1>4 DEF CallsInv, JoinSharesTx, Joins
<1>8. WroteOnTx'
  BY <1>1, <1>2, <1>4, StaysDecided DEF CallsInv, WroteOnTx
<1>9. QED
  BY <1>2, <1>4, <1>5, <1>6, <1>7, <1>8, StaysDecided DEF CallsInv

(* A call that Begin refuses throws with a frame as fresh as before.       *)
LEMMA RefusalKeeps ==
  ASSUME UnitIInv, IInv', DoBegin, Failed
  PROVE  CallsInv'
<1>1. /\ pc = "begin" /\ pc' = "throw" /\ UNCHANGED <<frames, keep, undo>> /\ ~isClosed
      /\ Depth' = Depth /\ Begun' = Begun
  BY UnitFacts DEF DoBegin, Depth, Begun
<1>2. CallsInv /\ [Next]_vars
  BY DEF UnitIInv, Next
<1>3. UNCHANGED txStack
  <2>1. Session!Begin(PropagationOf(Inner.tag))
    BY DEF DoBegin
  <2>2. ~Session!Answer("Begin", Session!NoError)
    BY DEF Failed, Session!Answer, Session!Error, Session!NoError
  <2>3. QED
    BY <1>1, <2>1, <2>2, Zenon DEF Session!Begin, Session!RefusedClosed, Session!BeginJoin,
       Session!BeginDb, Session!BeginNewSession, Session!BeginNothing, Session!session
<1>4. Layered' /\ Fresh' /\ JoinSharesTx'
  BY <1>1, <1>2, <1>3 DEF CallsInv, Layered, Base, Layer, Fresh, JoinSharesTx
<1>5. WroteOnTx'
  BY <1>1, <1>2, StaysDecided DEF CallsInv, WroteOnTx
<1>6. QED
  BY <1>1, <1>2, <1>4, <1>5, StaysDecided DEF CallsInv

(* A call that Begin lets in is the next layer.                            *)
LEMMA BeginKeeps ==
  ASSUME UnitIInv, Used!Joined', Used!TxsOf(txStack') \subseteq Tx, IInv',
         Tags \subseteq JoinTags, DoBegin, ~Failed
  PROVE  CallsInv'
<1>1. /\ Depth' = Depth
      /\ \A j \in 1..Depth : j # Depth => frames'[j] = frames[j]
      /\ frames'[Depth].kind = Kind(Inner.tag) /\ frames'[Depth].tx = Used!Target'
      /\ frames'[Depth].wrote = Inner.wrote
  BY BeginFrames DEF UnitIInv, SessionIInv
<1>2. /\ pc = "begin" /\ pc' = "body" /\ UNCHANGED <<keep, undo>>
      /\ Depth \in Nat /\ Depth > 0 /\ Begun = Depth - 1 /\ Begun' = Depth
      /\ Inner = frames[Depth] /\ Len(txStack) \in Nat /\ Base \in Nat
      /\ Base = Depth - 1 - Len(txStack)
  BY <1>1, UnitFacts DEF DoBegin, Begun
<1>3. CallsInv /\ [Next]_vars
  BY DEF UnitIInv, Next
<1>4. Len(txStack') > 0 => Used!Target' \in Used!TxsOf(txStack')
  <2>1. txStack' \in Seq(Used!Entry) /\ newLocalSession' = Used!NoSession
    BY DEF Used!Joined, Used!Live, Used!DataOK
  <2>2. Used!Target' = IF Len(txStack') = 0 THEN Used!AutoCommit ELSE Used!Last(txStack').tx
    BY <2>1 DEF Used!Target, Used!Top, Used!NoSession, Used!Last
  <2>3. ASSUME NEW st \in Seq(Used!Entry), Len(st) > 0
        PROVE  Used!Last(st).tx \in Used!TxsOf(st)
    BY <2>3, Used!TxsOfLast, UsedAssumptions
  <2>4. QED
    BY <2>1, <2>2, <2>3
<1>5. CASE Len(txStack) > 0
  <2>1. /\ Kind(Inner.tag) \in JoinKinds /\ Len(txStack') = Len(txStack) + 1
        /\ Used!TxsOf(txStack') = Used!TxsOf(txStack)
    BY <1>5, BeginOutcome
  <2>2. Base' = Base
    BY <1>2, <2>1 DEF Base
  <2>3. Used!Target' \in Used!TxsOf(txStack)
    BY <1>2, <1>4, <2>1
  <2>4. Depth > Base + 1
    BY <1>2, <1>3, <1>5 DEF CallsInv, Layered, Base
  <2>5. Layered'
    <3>1. ASSUME NEW i \in 1..Depth PROVE frames'[i].kind \in Layer(i)
      <4>1. CASE i = Depth
        <5>1. \A d, b \in Nat : d > b + 1 => ~(d <= b) /\ d # b + 1
          OBVIOUS
        <5>2. ~(Depth <= Base) /\ Depth # Base + 1
          BY <1>2, <2>4, <5>1, Zenon
        <5>3. Layer(Depth) = JoinKinds
          BY <5>2, Zenon DEF Layer
        <5>4. frames'[Depth].kind \in JoinKinds
          BY <1>1, <2>1, Zenon
        <5>5. QED
          BY <4>1, <5>3, <5>4, Zenon
      <4>2. CASE i # Depth
        <5>1. i \in 1..Begun
          BY <1>2, <4>2
        <5>2. QED
          BY <1>1, <1>3, <4>2, <5>1 DEF CallsInv, Layered
      <4>3. QED
        BY <4>1, <4>2
    <3>2. ASSUME NEW i \in 1..Depth, i > Base PROVE frames'[i].tx \in Used!TxsOf(txStack)
      <4>1. CASE i = Depth
        BY <1>1, <2>3, <4>1
      <4>2. CASE i # Depth
        <5>1. i \in 1..Begun
          BY <1>2, <4>2
        <5>2. QED
          BY <1>1, <1>3, <3>2, <4>2, <5>1 DEF CallsInv, Layered
      <4>3. QED
        BY <4>1, <4>2
    <3>3. QED
      BY <1>2, <1>3, <2>1, <2>2, <3>1, <3>2 DEF CallsInv, Layered, Layer, Used!TxsOf
  <2>6. frames[Depth - 1].tx \in Used!TxsOf(txStack)
    <3>1. Depth - 1 \in 1..Begun /\ Depth - 1 > Base
      BY <1>2, <2>4
    <3>2. QED
      BY <1>2, <1>3, <2>4, <3>1 DEF CallsInv, Layered
  <2>7. frames'[Depth].tx = frames[Depth - 1].tx
    BY <1>1, <2>3, <2>6, UnitFacts
  <2>8. JoinSharesTx'
    BY <1>1, <1>2, <1>3, <2>7 DEF CallsInv, JoinSharesTx
  <2>9. WroteOnTx'
    <3>1. frames'[Depth].tx \in Tx /\ frames'[Depth].wrote = {}
      BY <1>1, <1>2, <1>3, <2>3, UnitFacts DEF CallsInv, Fresh
    <3>2. QED
      BY <1>1, <1>2, <1>3, <3>1, StaysDecided DEF CallsInv, WroteOnTx
  <2>10. QED
    BY <1>2, <1>3, <2>5, <2>8, <2>9, StaysDecided DEF CallsInv, Fresh
<1>6. CASE Len(txStack) = 0
  <2>1. \/ Kind(Inner.tag) = "none" /\ Len(txStack') = 0
        \/ Kind(Inner.tag) = "new" /\ Len(txStack') = 1
    BY <1>6, BeginOutcome
  <2>2. \A i \in 1..Depth - 1 : frames'[i] = frames[i] /\ frames'[i].kind = "none"
    BY <1>1, <1>2, <1>3, <1>6 DEF CallsInv, Layered, Layer, Base
  <2>3. Layered'
    <3>0. Base' = Depth - Len(txStack')
      BY <1>2 DEF Base
    <3>1. /\ Base' \in Nat
          /\ \/ Kind(Inner.tag) = "none" /\ Len(txStack') = 0 /\ Base' = Depth
             \/ Kind(Inner.tag) = "new" /\ Len(txStack') = 1 /\ Base' = Depth - 1
      <4>1. Depth \in Nat /\ Depth > 0
        BY <1>2
      <4>2. CASE Kind(Inner.tag) = "none" /\ Len(txStack') = 0
        BY <3>0, <4>1, <4>2
      <4>3. CASE Kind(Inner.tag) = "new" /\ Len(txStack') = 1
        BY <3>0, <4>1, <4>3
      <4>4. QED
        BY <2>1, <4>2, <4>3
    <3>2. ASSUME NEW i \in 1..Depth PROVE frames'[i].kind \in Layer(i)'
      <4>1. CASE i = Depth
        <5>1. i \in Nat /\ frames'[i].kind = Kind(Inner.tag)
          BY <1>1, <1>2, <4>1
        <5>2. Layer(i)' = IF i <= Base' THEN {"none"}
                          ELSE IF i = Base' + 1 THEN {"new"} ELSE JoinKinds
          BY Zenon DEF Layer
        <5>3. CASE Kind(Inner.tag) = "none" /\ i <= Base'
          BY <5>1, <5>2, <5>3
        <5>4. CASE Kind(Inner.tag) = "new" /\ ~(i <= Base') /\ i = Base' + 1
          BY <5>1, <5>2, <5>4
        <5>5. i = Base' => i <= Base'
          BY <3>1
        <5>6. i = Base' + 1 => ~(i <= Base')
          <6>1. Base' \in Nat
            BY <3>1
          <6>2. \A n \in Nat : ~(n + 1 <= n)
            OBVIOUS
          <6>3. QED
            BY <6>1, <6>2, Zenon
        <5>7. Base' = Depth - 1 => i = Base' + 1
          BY <4>1, <5>1
        <5>8. QED
          BY <3>1, <4>1, <5>3, <5>4, <5>5, <5>6, <5>7
      <4>2. CASE i # Depth
        <5>1. i \in 1..Depth - 1 /\ i <= Base'
          <6>1. Depth \in Nat
            BY <1>2
          <6>2. QED
            BY <3>1, <4>2, <6>1
        <5>2. QED
          BY <2>2, <5>1 DEF Layer
      <4>3. QED
        BY <4>1, <4>2
    <3>3. ASSUME NEW i \in 1..Depth, i > Base' PROVE frames'[i].tx \in Used!TxsOf(txStack')
      <4>1. i = Depth /\ Len(txStack') > 0
        <5>1. Depth \in Nat
          BY <1>2
        <5>2. QED
          BY <3>1, <3>3, <5>1
      <4>2. frames'[Depth].tx = Used!Target' /\ Used!Target' \in Used!TxsOf(txStack')
        BY <1>1, <1>4, <4>1, Zenon
      <4>3. frames'[i].tx = frames'[Depth].tx
        BY <4>1, Zenon
      <4>4. QED
        BY <4>2, <4>3, Zenon
    <3>4. Base' >= 0
      BY <1>2, <2>1, <3>1
    <3>5. QED
      BY <1>2, <3>2, <3>3, <3>4 DEF Layered, Used!TxsOf
  <2>4. JoinSharesTx'
    BY <1>1, <1>2, <2>1, <2>2 DEF JoinSharesTx, Joins
  <2>5. WroteOnTx'
    <3>1. frames'[Depth].wrote = {}
      BY <1>1, <1>2, <1>3 DEF CallsInv, Fresh
    <3>2. frames'[Depth].kind # "none" => frames'[Depth].tx \in Tx
      BY <1>1, <1>4, <2>1
    <3>3. ASSUME NEW i \in 1..Depth, frames'[i].kind # "none"
          PROVE  frames'[i].tx \in Tx /\ \A s \in frames'[i].wrote : ranOn'[s] = frames'[i].tx
      <4>1. CASE i = Depth
        BY <3>1, <3>2, <3>3, <4>1
      <4>2. CASE i # Depth
        <5>1. frames'[i] = frames[i]
          BY <1>1, <4>2
        <5>2. /\ frames[i].tx \in Tx
              /\ \A s \in frames[i].wrote : ranOn'[s] = frames[i].tx
          BY <1>3, <3>3, <5>1, StaysDecided DEF CallsInv, WroteOnTx
        <5>3. QED
          BY <5>1, <5>2
      <4>3. QED
        BY <4>1, <4>2
    <3>4. QED
      BY <1>1, <3>3, Zenon DEF WroteOnTx
  <2>6. QED
    BY <1>2, <1>3, <2>3, <2>4, <2>5, StaysDecided DEF CallsInv, Fresh
<1>7. QED
  BY <1>2, <1>5, <1>6

(* A step that leaves the stack and every call's kind and transaction as   *)
(* they are keeps the layers.                                              *)
LEMMA LayersKept ==
  ASSUME UnitIInv, Depth' = Depth, Begun' = Begun, UNCHANGED txStack,
         \A j \in 1..Depth : frames'[j].kind = frames[j].kind /\ frames'[j].tx = frames[j].tx
  PROVE  Layered' /\ JoinSharesTx'
<1>1. Layered /\ JoinSharesTx /\ Depth \in Nat /\ Begun \in Int /\ Begun <= Depth
  BY UnitFacts DEF UnitIInv, CallsInv
<1>2. \A j \in 1..Begun : frames'[j].kind = frames[j].kind /\ frames'[j].tx = frames[j].tx
  BY <1>1
<1>3. Layered'
  <2>1. Base' = Base
    BY DEF Base
  <2>2. ASSUME NEW i \in 1..Begun'
        PROVE  /\ frames'[i].kind \in Layer(i)'
               /\ i > Base' => frames'[i].tx \in Used!TxsOf(txStack)'
    <3>1. i \in 1..Begun
      OBVIOUS
    <3>2. Layer(i)' = Layer(i)
      BY <2>1, Zenon DEF Layer
    <3>3. Used!TxsOf(txStack)' = Used!TxsOf(txStack)
      BY Zenon DEF Used!TxsOf
    <3>4. QED
      BY <1>1, <1>2, <2>1, <3>1, <3>2, <3>3 DEF Layered
  <2>3. Base' >= 0
    BY <1>1, <2>1 DEF Layered
  <2>4. QED
    BY <2>2, <2>3, Zenon DEF Layered
<1>4. JoinSharesTx'
  <2>1. ASSUME NEW i \in 2..Depth PROVE i \in 1..Depth /\ i - 1 \in 1..Depth
    BY <1>1
  <2>2. QED
    BY <1>1, <2>1 DEF JoinSharesTx, Joins
<1>5. QED
  BY <1>3, <1>4

(* A call that counts no more statements than before still counts rightly. *)
LEMMA RecordsKept ==
  ASSUME UnitIInv, [Next]_vars, Depth' = Depth,
         \A j \in 1..Depth : /\ frames'[j].kind = frames[j].kind /\ frames'[j].tx = frames[j].tx
                             /\ frames'[j].wrote \subseteq frames[j].wrote
  PROVE  WroteOnTx'
<1>1. WroteOnTx
  BY DEF UnitIInv, CallsInv
<1>2. QED
  <2>1. ASSUME NEW i \in 1..Depth, frames'[i].kind # "none"
        PROVE  /\ frames'[i].tx \in Tx
               /\ \A s \in frames'[i].wrote : ranOn'[s] = frames'[i].tx
    <3>1. frames[i].kind # "none" /\ frames'[i].tx = frames[i].tx
          /\ frames'[i].wrote \subseteq frames[i].wrote
      BY <2>1
    <3>2. frames[i].tx \in Tx /\ \A s \in frames[i].wrote : ranOn'[s] = frames[i].tx
      BY <1>1, <3>1, StaysDecided DEF WroteOnTx
    <3>3. QED
      BY <3>1, <3>2
  <2>2. QED
    BY <2>1 DEF WroteOnTx

LEMMA QuietKeeps ==
  ASSUME UnitIInv, [Next]_vars, UNCHANGED <<sessionVars, frames, keep, undo>>,
         pc \in {"body", "panicked"}, pc' \in {"body", "panicked", "commit", "rollback"}
  PROVE  CallsInv'
<1>1. Depth' = Depth /\ Begun' = Begun /\ UNCHANGED txStack
  BY DEF Depth, Begun, sessionVars
<1>2. Layered' /\ JoinSharesTx' /\ WroteOnTx'
  BY <1>1, LayersKept, RecordsKept
<1>3. Fresh'
  BY DEF Fresh
<1>4. QED
  BY <1>2, <1>3, StaysDecided DEF CallsInv

(* Where the innermost running call's statements go.                       *)
LEMMA InnerTarget ==
  ASSUME UnitIInv, pc # "idle", Begun = Depth
  PROVE  /\ Inner.kind = "none" => Used!Target = Used!AutoCommit
         /\ Inner.kind # "none" => Used!Target = Inner.tx /\ Inner.tx \in Used!TxsOf(txStack)
<1>1. /\ Depth \in Nat /\ Depth > 0 /\ Len(txStack) \in Nat /\ txStack \in Seq(Used!Entry)
      /\ Base \in Nat /\ Base = Depth - Len(txStack) /\ Inner = frames[Depth]
      /\ newLocalSession = Used!NoSession
  BY UnitFacts
<1>2. Inner.kind \in Layer(Depth) /\ (Depth > Base => Inner.tx \in Used!TxsOf(txStack))
  BY <1>1 DEF UnitIInv, CallsInv, Layered
<1>3. Used!Target = IF Len(txStack) = 0 THEN Used!AutoCommit ELSE Used!Last(txStack).tx
  BY <1>1 DEF Used!Target, Used!Top, Used!NoSession, Used!Last
<1>4. Inner.kind = "none" => Len(txStack) = 0
  BY <1>1, <1>2 DEF Layer, JoinKinds
<1>5. Inner.kind # "none" => Len(txStack) > 0 /\ Depth > Base
  BY <1>1, <1>2 DEF Layer
<1>6. ASSUME NEW st \in Seq(Used!Entry), Len(st) > 0
      PROVE  Used!Last(st).tx \in Used!TxsOf(st)
  BY <1>6, Used!TxsOfLast, UsedAssumptions
<1>7. Inner.kind # "none" => Used!Last(txStack).tx = Inner.tx
  BY <1>1, <1>2, <1>5, <1>6, UnitFacts
<1>8. QED
  BY <1>1, <1>2, <1>3, <1>4, <1>5, <1>7

LEMMA ExecKeeps ==
  ASSUME UnitIInv, NEW s \in Stmt, BodyExec(s)
  PROVE  CallsInv'
<1>1. /\ Depth' = Depth
      /\ \A j \in 1..Depth : j # Depth => frames'[j] = frames[j]
      /\ frames'[Depth].kind = Inner.kind /\ frames'[Depth].tx = Inner.tx
      /\ frames'[Depth].wrote = IF Failed \/ Inner.kind = "none"
                                  THEN Inner.wrote ELSE Inner.wrote \cup {s}
  BY ExecFrames DEF UnitIInv, SessionIInv
<1>2. /\ pc = "body" /\ pc' = "body" /\ UNCHANGED undo /\ Depth \in Nat /\ Depth > 0
      /\ Begun = Depth /\ Begun' = Depth /\ Inner = frames[Depth] /\ ~isClosed
      /\ ranOn \in [Stmt -> Tx \cup {Used!AutoCommit, Used!NotRun}]
  BY <1>1, UnitFacts DEF BodyExec, Begun
<1>3. CallsInv /\ [Next]_vars
  BY DEF UnitIInv, Next
<1>4. UNCHANGED txStack
  BY RunDoes DEF BodyExec
<1>5. Layered' /\ JoinSharesTx'
  BY <1>1, <1>2, <1>4, LayersKept
<1>6. CASE Failed
  <2>1. UNCHANGED keep
    BY <1>6 DEF BodyExec
  <2>2. WroteOnTx'
    BY <1>1, <1>2, <1>3, <1>6, RecordsKept
  <2>3. QED
    BY <1>2, <1>3, <1>5, <2>1, <2>2, StaysDecided DEF CallsInv, Fresh
<1>7. CASE ~Failed
  <2>1. ranOn'[s] = Used!Target
    <3>1. Used!Run("ExecPrepare", s)
      BY <1>2, SameExecPrepare DEF BodyExec, Used!ExecPrepare, Used!RefusedClosed
    <3>2. ~Used!Answer("ExecPrepare", Used!Error)
      BY <1>7 DEF Failed, Used!Answer, Used!Error, Session!Error
    <3>3. ranOn' = [ranOn EXCEPT ![s] = Used!Target]
      BY <3>1, <3>2 DEF Used!Run
    <3>4. QED
      BY <1>2, <3>3
  <2>2. CASE Inner.kind = "none"
    <3>1. keep' = keep \cup {s} /\ ranOn'[s] = Used!AutoCommit
      BY <1>2, <1>7, <2>1, <2>2, InnerTarget DEF BodyExec
    <3>2. \A r \in keep : \/ ranOn'[r] = Used!AutoCommit
                          \/ ranOn'[r] \in Tx /\ txState'[ranOn'[r]] = "committed"
      BY <1>3, Decided DEF CallsInv, Vouched, UnitIInv, HistoryOK
    <3>3. Vouched'
      BY <3>1, <3>2 DEF Vouched, Used!AutoCommit
    <3>4. WroteOnTx'
      BY <1>1, <1>2, <1>3, <2>2, RecordsKept
    <3>5. QED
      BY <1>2, <1>3, <1>5, <3>3, <3>4, StaysDecided DEF CallsInv, Fresh
  <2>3. CASE Inner.kind # "none"
    <3>1. UNCHANGED keep /\ ranOn'[s] = Inner.tx
      BY <1>2, <1>7, <2>1, <2>3, InnerTarget DEF BodyExec
    <3>2. WroteOnTx'
      <4>1. frames'[Depth].wrote = Inner.wrote \cup {s}
        BY <1>1, <1>7, <2>3
      <4>2. \A r \in Inner.wrote \cup {s} : ranOn'[r] = Inner.tx
        BY <1>2, <1>3, <2>3, <3>1, StaysDecided
      <4>3. QED
        BY <1>1, <1>2, <1>3, <4>1, <4>2, StaysDecided DEF CallsInv, WroteOnTx
    <3>3. QED
      BY <1>2, <1>3, <1>5, <3>1, <3>2, StaysDecided DEF CallsInv, Fresh
  <2>4. QED
    BY <2>2, <2>3
<1>8. QED
  BY <1>6, <1>7

-----------------------------------------------------------------------------
(* Commit and Rollback decide only for the call that opened the            *)
(* transaction; for all others they pop what Begin has pushed.             *)
LEMMA EndOutcome ==
  ASSUME UnitIInv, DoCommit \/ DoRollback
  PROVE  /\ pc # "idle" /\ Begun = Depth /\ Begun' = Depth' - 1
         /\ Len(txStack') = IF Len(txStack) = 0 THEN 0 ELSE Len(txStack) - 1
         /\ Len(txStack) > 1 => Used!TxsOf(txStack') = Used!TxsOf(txStack)
         /\ Len(txStack) = 1 =>
              /\ Used!TxsOf(txStack) = {txStack[1].tx}
              /\ DoCommit /\ ~Failed => txState'[txStack[1].tx] = "committed"
              /\ DoRollback => txState'[txStack[1].tx] = "rolledback"
<1>1. /\ pc # "idle" /\ ~isClosed /\ txStack \in Seq(Used!Entry) /\ Len(txStack) \in Nat
      /\ txState \in Used!TxStates /\ Used!TxsOf(txStack) \subseteq Tx
  BY UnitFacts DEF DoCommit, DoRollback
<1>2. Begun = Depth /\ Begun' = Depth' - 1
  <2>1. pc \in {"commit", "rollback", "panicked"} /\ pc' \in {"throw", "leave"}
    BY DEF DoCommit, DoRollback
  <2>2. Depth \in Nat /\ Depth' \in Nat
    BY UnitFacts, IInvStep, Facts DEF UnitIInv, SessionIInv, IInv, Calls, Next, Depth
  <2>3. QED
    BY <2>1, <2>2 DEF Begun
<1>3. PICK op \in {"Commit", "Rollback"} :
         \E answers \in {Used!CommitAnswers, Used!RollbackAnswers} :
            /\ Used!End(op, answers)
            /\ DoCommit => answers = Used!CommitAnswers
            /\ DoRollback => answers = Used!RollbackAnswers
  <2>1. ~(DoCommit /\ DoRollback)
    BY DEF DoCommit, DoRollback
  <2>2. CASE DoCommit
    <3>1. Used!End("Commit", Used!CommitAnswers)
      BY <1>1, <2>2, SameCommit DEF DoCommit, Used!Commit, Used!RefusedClosed
    <3>2. QED
      BY <2>1, <2>2, <3>1
  <2>3. CASE DoRollback
    <3>1. Used!End("Rollback", Used!RollbackAnswers)
      BY <1>1, <2>3, SameRollback DEF DoRollback, Used!Rollback, Used!RefusedClosed
    <3>2. QED
      BY <2>1, <2>3, <3>1
  <2>4. QED
    BY <2>2, <2>3
<1>4. PICK answers \in {Used!CommitAnswers, Used!RollbackAnswers} :
         /\ Used!End(op, answers)
         /\ DoCommit => answers = Used!CommitAnswers
         /\ DoRollback => answers = Used!RollbackAnswers
  BY <1>3
<1>5. PICK o \in answers : /\ txState' = Used!Ended(txStack, txState, o)
                           /\ txStack' = Used!Pop(txStack)
                           /\ Used!Answer(op, Used!EndErr(txStack, o))
  <2>1. Used!Joined /\ op \in Used!Ops
    BY DEF UnitIInv, Used!Ops
  <2>2. QED
    BY <1>4, <2>1, Used!EndJoined, UsedAssumptions
<1>6. Len(txStack') = IF Len(txStack) = 0 THEN 0 ELSE Len(txStack) - 1
  <2>1. CASE Len(txStack) = 0
    BY <1>5, <2>1 DEF Used!Pop
  <2>2. CASE Len(txStack) > 0
    <3>1. ASSUME NEW st \in Seq(Used!Entry), Len(st) > 0
          PROVE  Len(Used!Front(st)) = Len(st) - 1
      BY <3>1, Used!FrontLast, UsedAssumptions
    <3>2. Len(txStack) # 0
      BY <2>2
    <3>3. QED
      BY <1>1, <1>5, <2>2, <3>1, <3>2 DEF Used!Pop
  <2>3. QED
    BY <1>1, <2>1, <2>2
<1>7. Len(txStack) > 1 => Used!TxsOf(txStack') = Used!TxsOf(txStack)
  <2>1. Used!OneTx(txStack)
    BY DEF UnitIInv, Used!Joined
  <2>2. ASSUME NEW st \in Seq(Used!Entry), Used!OneTx(st), Len(st) > 1
        PROVE  Used!TxsOf(Used!Pop(st)) = Used!TxsOf(st)
    BY <2>2, Used!OneTxPop, UsedAssumptions
  <2>3. QED
    BY <1>1, <1>5, <2>1, <2>2
<1>8. ASSUME Len(txStack) = 1
      PROVE  /\ Used!TxsOf(txStack) = {txStack[1].tx}
             /\ DoCommit /\ ~Failed => txState'[txStack[1].tx] = "committed"
             /\ DoRollback => txState'[txStack[1].tx] = "rolledback"
  <2>1. ASSUME NEW st \in Seq(Used!Entry), Len(st) = 1
        PROVE  Used!TxsOf(st) = {st[1].tx}
    BY <2>1, Used!TxsOfSingle, UsedAssumptions
  <2>2. Used!TxsOf(txStack) = {txStack[1].tx}
    BY <1>1, <1>8, <2>1
  <2>3. txState'[txStack[1].tx] = o.state
    BY <1>1, <1>5, <1>8, <2>2 DEF Used!Ended, Used!TxStates
  <2>4. ASSUME DoCommit, ~Failed PROVE o.state = "committed"
    <3>1. o.err # Used!Error
      BY <1>5, <1>8, <2>4 DEF Failed, Used!Answer, Used!EndErr, Used!Error, Session!Error
    <3>2. o \in Used!CommitAnswers
      BY <1>4, <1>5, <2>4
    <3>3. QED
      BY <3>1, <3>2 DEF Used!CommitAnswers
  <2>5. DoRollback => o.state = "rolledback"
    BY <1>4, <1>5 DEF Used!RollbackAnswers
  <2>6. QED
    BY <2>2, <2>3, <2>4, <2>5
<1>9. QED
  BY <1>1, <1>2, <1>6, <1>7, <1>8

LEMMA LayersPopped ==
  ASSUME UnitIInv, DoCommit \/ DoRollback, Depth' = Depth,
         \A j \in 1..Depth : frames'[j].kind = frames[j].kind /\ frames'[j].tx = frames[j].tx
  PROVE  /\ Layered' /\ JoinSharesTx'
         /\ Inner.kind = "new" => Len(txStack) = 1 /\ Inner.tx = txStack[1].tx
<1>1. /\ Layered /\ JoinSharesTx /\ Depth \in Nat /\ Depth > 0 /\ Inner = frames[Depth]
      /\ Begun = Depth /\ Begun' = Depth - 1 /\ Len(txStack) \in Nat
      /\ Base \in Nat /\ Base = Depth - Len(txStack)
  BY UnitFacts, EndOutcome DEF UnitIInv, CallsInv
<1>2. Len(txStack') = IF Len(txStack) = 0 THEN 0 ELSE Len(txStack) - 1
  BY EndOutcome
<1>3. Base' = (Depth - 1) - Len(txStack')
  BY <1>1 DEF Base
<1>4. \/ Len(txStack) = 0 /\ Base = Depth /\ Base' = Depth - 1
      \/ Len(txStack) > 0 /\ Base' = Base
  BY <1>1, <1>2, <1>3
<1>5. ASSUME NEW i \in 1..Begun'
      PROVE  /\ frames'[i].kind \in Layer(i)'
             /\ i > Base' => frames'[i].tx \in Used!TxsOf(txStack)'
  <2>1. i \in 1..Depth /\ i <= Depth - 1
    BY <1>1
  <2>2. frames'[i].kind \in Layer(i) /\ (i > Base => frames'[i].tx \in Used!TxsOf(txStack))
    BY <1>1, <2>1 DEF Layered
  <2>3. CASE Len(txStack) = 0
    <3>1. i <= Base /\ i <= Base' /\ ~(i > Base')
      BY <1>1, <1>4, <2>1, <2>3
    <3>2. Layer(i)' = {"none"} /\ Layer(i) = {"none"}
      BY <3>1, Zenon DEF Layer
    <3>3. QED
      BY <2>2, <3>1, <3>2
  <2>4. CASE Len(txStack) > 0
    <3>1. Base' = Base
      BY <1>1, <1>4, <2>4
    <3>2. Layer(i)' = Layer(i)
      BY <3>1, Zenon DEF Layer
    <3>3. i > Base => Used!TxsOf(txStack') = Used!TxsOf(txStack)
      <4>1. i > Base => Len(txStack) > 1
        BY <1>1, <2>1
      <4>2. QED
        BY <4>1, EndOutcome
    <3>4. Used!TxsOf(txStack)' = Used!TxsOf(txStack')
      BY Zenon DEF Used!TxsOf
    <3>5. QED
      BY <2>2, <3>1, <3>2, <3>3, <3>4
  <2>5. QED
    BY <1>1, <2>3, <2>4
<1>6. Layered'
  <2>1. Base' >= 0
    BY <1>1, <1>4
  <2>2. QED
    BY <1>5, <2>1, Zenon DEF Layered
<1>7. JoinSharesTx'
  <2>1. ASSUME NEW i \in 2..Depth PROVE i \in 1..Depth /\ i - 1 \in 1..Depth
    BY <1>1
  <2>2. QED
    BY <1>1, <2>1 DEF JoinSharesTx, Joins
<1>8. ASSUME Inner.kind = "new" PROVE Len(txStack) = 1 /\ Inner.tx = txStack[1].tx
  <2>1. "new" \in Layer(Depth) /\ (Depth > Base => Inner.tx \in Used!TxsOf(txStack))
    BY <1>1, <1>8 DEF Layered
  <2>2. Depth = Base + 1
    BY <2>1 DEF Layer, JoinKinds
  <2>3. Len(txStack) = 1
    <3>1. \A d, b, n \in Nat : b = d - n /\ d = b + 1 => n = 1
      OBVIOUS
    <3>2. QED
      BY <1>1, <2>2, <3>1, Zenon
  <2>4. Used!TxsOf(txStack) = {txStack[1].tx}
    BY <2>3, EndOutcome
  <2>5. QED
    BY <1>1, <2>1, <2>2, <2>3, <2>4
<1>9. QED
  BY <1>6, <1>7, <1>8

LEMMA CommitKeeps ==
  ASSUME UnitIInv, DoCommit
  PROVE  CallsInv'
<1>1. /\ UNCHANGED <<frames, undo>> /\ pc' # "begin" /\ Depth' = Depth
      /\ keep' = IF ~Failed /\ Inner.kind = "new" THEN keep \cup Inner.wrote ELSE keep
  BY DEF DoCommit, Depth
<1>2. CallsInv /\ [Next]_vars
  BY DEF UnitIInv, Next
<1>3. /\ Layered' /\ JoinSharesTx'
      /\ Inner.kind = "new" => Len(txStack) = 1 /\ Inner.tx = txStack[1].tx
  BY <1>1, LayersPopped
<1>4. WroteOnTx'
  BY <1>1, <1>2, RecordsKept
<1>5. Vouched'
  <2>1. CASE ~Failed /\ Inner.kind = "new"
    <3>1. txState'[Inner.tx] = "committed"
      BY <1>3, <2>1, EndOutcome
    <3>2. Depth \in 1..Depth /\ Inner = frames[Depth]
      BY UnitFacts, EndOutcome
    <3>3. \A s \in Inner.wrote : ranOn'[s] = Inner.tx
      BY <1>2, <2>1, <3>2, StaysDecided
    <3>4. Inner.tx \in Tx
      BY <1>2, <2>1, <3>2 DEF CallsInv, WroteOnTx
    <3>5. \A r \in keep : \/ ranOn'[r] = Used!AutoCommit
                          \/ ranOn'[r] \in Tx /\ txState'[ranOn'[r]] = "committed"
      BY <1>2, Decided DEF CallsInv, Vouched, UnitIInv, HistoryOK
    <3>6. QED
      BY <1>1, <2>1, <3>1, <3>3, <3>4, <3>5 DEF Vouched, Used!AutoCommit
  <2>2. CASE ~(~Failed /\ Inner.kind = "new")
    BY <1>1, <1>2, <2>2, StaysDecided
  <2>3. QED
    BY <2>1, <2>2
<1>6. QED
  BY <1>1, <1>2, <1>3, <1>4, <1>5, StaysDecided DEF CallsInv, Fresh

LEMMA RollbackKeeps ==
  ASSUME UnitIInv, DoRollback
  PROVE  CallsInv'
<1>1. /\ Depth' = Depth
      /\ \A j \in 1..Depth : j # Depth => frames'[j] = frames[j]
      /\ frames'[Depth].kind = Inner.kind /\ frames'[Depth].tx = Inner.tx
      /\ frames'[Depth].wrote = IF Decides(Inner) THEN {} ELSE Inner.wrote
  BY RollbackFrames DEF UnitIInv, SessionIInv
<1>2. /\ UNCHANGED keep /\ pc' # "begin"
      /\ undo' = IF Decides(Inner) THEN undo \cup Inner.wrote ELSE undo
  BY DEF DoRollback
<1>3. CallsInv /\ [Next]_vars /\ Inner = frames[Depth] /\ Depth \in 1..Depth
  BY UnitFacts, EndOutcome DEF UnitIInv, Next
<1>4. \A j \in 1..Depth : /\ frames'[j].kind = frames[j].kind /\ frames'[j].tx = frames[j].tx
                          /\ frames'[j].wrote \subseteq frames[j].wrote
  BY <1>1, <1>3
<1>5. /\ Layered' /\ JoinSharesTx'
      /\ Inner.kind = "new" => Len(txStack) = 1 /\ Inner.tx = txStack[1].tx
  BY <1>1, <1>4, LayersPopped
<1>6. WroteOnTx'
  BY <1>1, <1>3, <1>4, RecordsKept
<1>7. Undone'
  <2> SUFFICES ASSUME Tags \subseteq UnitTags PROVE Undone'
    BY DEF Undone
  <2>0. Decides(Inner) <=> Inner.kind = "new"
    <3>1. Inner.kind \in Layer(Depth) /\ Depth \in 1..Begun
      BY <1>3, EndOutcome DEF CallsInv, Layered
    <3>2. QED
      BY <3>1 DEF Layer, JoinKinds, Decides
  <2>1. CASE Inner.kind = "new"
    <3>1. txState'[Inner.tx] = "rolledback"
      BY <1>5, <2>1, EndOutcome
    <3>2. \A s \in Inner.wrote : ranOn'[s] = Inner.tx
      BY <1>3, <2>1, StaysDecided
    <3>3. Inner.tx \in Tx
      BY <1>3, <2>1 DEF CallsInv, WroteOnTx
    <3>4. \A r \in undo : ranOn'[r] \in Tx /\ txState'[ranOn'[r]] = "rolledback"
      BY <1>3, Decided DEF CallsInv, Undone, UnitIInv, HistoryOK
    <3>5. QED
      BY <1>2, <2>0, <2>1, <3>1, <3>2, <3>3, <3>4 DEF Undone
  <2>2. CASE Inner.kind # "new"
    BY <1>2, <1>3, <2>0, <2>2, StaysDecided
  <2>3. QED
    BY <2>1, <2>2
<1>8. QED
  BY <1>2, <1>3, <1>5, <1>6, <1>7, StaysDecided DEF CallsInv, Fresh

(* A call that is over hands what it wrote to a caller on its transaction. *)
LEMMA LeaveKeeps ==
  ASSUME UnitIInv, Leave
  PROVE  CallsInv'
<1>1. /\ Depth' = Depth - 1
      /\ \A j \in 1..Depth - 1 :
            /\ frames'[j].kind = frames[j].kind /\ frames'[j].tx = frames[j].tx
            /\ \/ frames'[j].wrote = frames[j].wrote
               \/ /\ j = Depth - 1 /\ Joins(Inner)
                  /\ frames'[j].wrote = frames[j].wrote \cup Inner.wrote
  BY CallLeft DEF Leave, UnitIInv, SessionIInv
<1>2. /\ pc \in {"leave", "throw"} /\ pc' \in {"idle", "panicked", "body"}
      /\ UNCHANGED <<keep, undo>> /\ Depth \in Nat /\ Depth > 0
      /\ Begun = Depth - 1 /\ Begun' = Depth - 1 /\ Len(txStack) \in Nat /\ ~isClosed
      /\ txStack \in Seq(Used!Entry) /\ Base \in Nat /\ Base = (Depth - 1) - Len(txStack)
      /\ Inner = frames[Depth]
  BY <1>1, UnitFacts DEF Leave, Begun
<1>3. CallsInv /\ [Next]_vars
  BY DEF UnitIInv, Next
<1>4. Inner.owner <=> Depth = 1
  <2>1. \A i \in 1..Depth : frames[i].owner <=> i = 1
    BY DEF UnitIInv, SessionIInv, IInv, TlsMatchesFrames
  <2>2. Depth \in 1..Depth
    BY <1>2
  <2>3. QED
    BY <1>2, <2>1, <2>2
<1>5. Undone' /\ Vouched' /\ Fresh'
  BY <1>2, <1>3, StaysDecided DEF Fresh
<1>6. CASE Depth = 1
  <2>1. Session!Close
    BY <1>4, <1>6 DEF Leave, Closes
  <2>2. txStack' = Used!CloseLeaves(txStack)
    BY <1>2, <2>1, SameClose DEF Used!Close
  <2>3. Len(txStack) = 0
    BY <1>2, <1>6
  <2>4. ASSUME NEW st \in Seq(Used!Entry), Len(st) = 0 PROVE Len(Used!CloseLeaves(st)) = 0
    <3>1. Len(Used!CloseLeaves(st)) = Len(st) \div 2
      BY Used!CloseLeavesType, UsedAssumptions
    <3>2. QED
      BY <2>4, <3>1
  <2>5. Len(txStack') = 0
    BY <1>2, <2>2, <2>3, <2>4
  <2>6. Base' = 0 /\ Begun' = 0 /\ Depth' = 0
    BY <1>1, <1>2, <1>6, <2>5 DEF Base
  <2>7. Layered' /\ JoinSharesTx' /\ WroteOnTx'
    BY <2>6 DEF Layered, JoinSharesTx, WroteOnTx
  <2>8. QED
    BY <1>5, <2>7 DEF CallsInv
<1>7. CASE Depth > 1
  <2>1. UNCHANGED txStack
    BY <1>2, <1>4, <1>7 DEF Leave, Closes, sessionVars
  <2>2. Layered'
    <3>1. Base' = Base
      BY <1>2, <2>1 DEF Base
    <3>2. ASSUME NEW i \in 1..Begun'
          PROVE  /\ frames'[i].kind \in Layer(i)'
                 /\ i > Base' => frames'[i].tx \in Used!TxsOf(txStack)'
      <4>1. Layer(i)' = Layer(i) /\ Used!TxsOf(txStack)' = Used!TxsOf(txStack)
        BY <2>1, <3>1, Zenon DEF Layer, Used!TxsOf
      <4>2. i \in 1..Begun /\ i \in 1..Depth - 1
        BY <1>2
      <4>3. QED
        BY <1>1, <1>3, <3>1, <4>1, <4>2 DEF CallsInv, Layered
    <3>3. Base' >= 0
      BY <1>2, <3>1
    <3>4. QED
      BY <3>2, <3>3, Zenon DEF Layered
  <2>3. JoinSharesTx'
    <3>1. ASSUME NEW i \in 2..Depth - 1 PROVE i \in 2..Depth /\ i \in 1..Depth - 1 /\ i - 1 \in 1..Depth - 1
      BY <1>2
    <3>2. QED
      BY <1>1, <1>2, <1>3, <3>1 DEF CallsInv, JoinSharesTx, Joins
  <2>4. WroteOnTx'
    <3>1. ASSUME NEW i \in 1..Depth - 1, frames'[i].kind # "none"
          PROVE  /\ frames'[i].tx \in Tx
                 /\ \A s \in frames'[i].wrote : ranOn'[s] = frames'[i].tx
      <4>1. i \in 1..Depth /\ frames[i].kind # "none" /\ frames'[i].tx = frames[i].tx
        BY <1>1, <1>2, <3>1
      <4>2. frames[i].tx \in Tx /\ \A s \in frames[i].wrote : ranOn'[s] = frames[i].tx
        BY <1>3, <4>1, StaysDecided DEF CallsInv, WroteOnTx
      <4>3. CASE frames'[i].wrote = frames[i].wrote
        BY <4>1, <4>2, <4>3
      <4>4. CASE /\ i = Depth - 1 /\ Joins(Inner)
                 /\ frames'[i].wrote = frames[i].wrote \cup Inner.wrote
        <5>1. Depth \in 2..Depth /\ Depth \in 1..Depth
          BY <1>2, <1>7
        <5>2. Inner.tx = frames[i].tx
          BY <1>2, <1>3, <4>4, <5>1 DEF CallsInv, JoinSharesTx
        <5>3. \A s \in Inner.wrote : ranOn'[s] = Inner.tx
          BY <1>2, <1>3, <4>4, <5>1, StaysDecided DEF Joins
        <5>4. QED
          BY <4>1, <4>2, <4>4, <5>2, <5>3
      <4>5. QED
        BY <1>1, <4>3, <4>4
    <3>2. QED
      BY <1>1, <3>1 DEF WroteOnTx
  <2>5. QED
    BY <1>5, <2>2, <2>3, <2>4 DEF CallsInv
<1>8. QED
  BY <1>2, <1>6, <1>7

-----------------------------------------------------------------------------
(* UnitIInv is inductive.                                                  *)
LEMMA UnitIInvInit == Init => UnitIInv
<1> SUFFICES ASSUME Init PROVE UnitIInv
  OBVIOUS
<1>1. SessionIInv
  BY SessionIInvInit
<1>2. HistoryOK
  BY DEF Init, HistoryOK
<1>3. Depth = 0 /\ Begun = 0 /\ Len(txStack) = 0 /\ Base = 0
  BY DEF Init, Depth, Begun, Base
<1>4. Used!Joined
  <2>1. Used!TxsOf(txStack) = {}
    BY Used!TxsOfEmpty, UsedAssumptions DEF Init
  <2>2. Used!OneTx(txStack)
    BY <2>1 DEF Used!OneTx
  <2>3. Used!NoOrphanTx
    BY DEF Init, Used!NoOrphanTx
  <2>4. Used!RanOnBegun
    BY TxAssumption DEF Init, Used!RanOnBegun
  <2>5. newLocalSession = Used!NoSession
    BY DEF Init, Session!NoSession, Used!NoSession
  <2>6. QED
    BY <1>1, <2>2, <2>3, <2>4, <2>5 DEF Used!Joined, SessionIInv
<1>5. CallsInv
  BY <1>3 DEF Init, CallsInv, Layered, Fresh, JoinSharesTx, WroteOnTx, Undone, Vouched
<1>6. QED
  BY <1>1, <1>2, <1>4, <1>5 DEF UnitIInv

LEMMA UnitIInvStep ==
  ASSUME Tags \subseteq JoinTags, UnitIInv, [Next]_vars
  PROVE  UnitIInv'
<1>1. SessionIInv' /\ HistoryOK'
  BY SessionIInvStep, HistoryStep DEF UnitIInv, SessionIInv
<1>2. Used!Joined'
  <2>1. Used!Joined /\ [Used!Next]_(Used!vars) /\ Asked \subseteq Used!JoinProps
    BY SessionStep, JoinTagsAskJoining DEF UnitIInv
  <2>2. QED
    BY <2>1, Used!JoinedStep, UsedAssumptions
<1> SUFFICES CallsInv'
  BY <1>1, <1>2 DEF UnitIInv
<1>3. CASE UNCHANGED vars
  <2>1. Depth' = Depth /\ Begun' = Begun /\ UNCHANGED <<txStack, frames, pc, keep, undo>>
    BY <1>3 DEF vars, Depth, Begun
  <2>2. Layered' /\ JoinSharesTx' /\ WroteOnTx'
    BY <2>1, LayersKept, RecordsKept
  <2>3. Fresh'
    BY <2>1 DEF UnitIInv, CallsInv, Fresh
  <2>4. QED
    BY <2>1, <2>2, <2>3, StaysDecided DEF CallsInv
<1>4. ASSUME NEW tag \in Tags, NEW rb \in BOOLEAN, Call(tag, rb) PROVE CallsInv'
  BY <1>4, CallKeeps
<1>5. CASE DoBegin
  <2>1. Used!TxsOf(txStack') \subseteq Tx
    <3>1. ASSUME NEW st \in Seq(Used!Entry) PROVE Used!TxsOf(st) \subseteq Tx
      BY Used!TxsOfType, UsedAssumptions
    <3>2. txStack' \in Seq(Used!Entry)
      BY <1>2 DEF Used!Joined, Used!Live, Used!DataOK
    <3>3. QED
      BY <3>1, <3>2
  <2>2. IInv'
    BY <1>1 DEF SessionIInv
  <2>3. QED
    BY <1>2, <1>5, <2>1, <2>2, BeginKeeps, RefusalKeeps
<1>6. ASSUME NEW s \in Stmt, BodyExec(s) PROVE CallsInv'
  BY <1>6, ExecKeeps
<1>7. ASSUME NEW failed \in BOOLEAN, Return(failed) PROVE CallsInv'
  BY <1>7, QuietKeeps DEF Return
<1>8. CASE Panic \/ Catch
  BY <1>8, QuietKeeps DEF Panic, Catch
<1>9. CASE DoCommit \/ DoRollback
  BY <1>9, CommitKeeps, RollbackKeeps
<1>10. CASE Leave
  BY <1>10, LeaveKeeps
<1>11. QED
  BY <1>3, <1>4, <1>5, <1>6, <1>7, <1>8, <1>9, <1>10 DEF Next

LEMMA UnitInvariant == ASSUME Tags \subseteq JoinTags PROVE Spec => []UnitIInv
<1>1. UnitIInv /\ [Next]_vars => UnitIInv'
  BY UnitIInvStep
<1>2. QED
  BY <1>1, UnitIInvInit, PTL DEF Spec

-----------------------------------------------------------------------------
(* What the tags of JoinTags promise.                                      *)

(* A call that joins its caller's transaction, or nests in it, runs its    *)
(* statements on the very transaction its caller's run on                  *)
(* (Propagation.go:7,13).                                                  *)
THEOREM JoinedCallsShare == ASSUME Tags \subseteq JoinTags PROVE Spec => []JoinSharesTx
<1>1. UnitIInv => JoinSharesTx
  BY DEF UnitIInv, CallsInv
<1>2. QED
  BY <1>1, UnitInvariant, PTL

(* While the call that has opened a transaction is running nothing that it *)
(* calls ends it (TransactionAspectSupport.go:56-86; TxStack.go:24).       *)
THEOREM OpenerKeepsItsTx == ASSUME Tags \subseteq JoinTags PROVE Spec => []OwnTxStaysOpen
<1>1. ASSUME UnitIInv PROVE OwnTxStaysOpen
  <2>1. /\ Depth \in Nat /\ Len(txStack) \in Nat /\ Base \in Nat
        /\ Begun = Depth - (IF pc \in {"begin", "leave", "throw"} THEN 1 ELSE 0)
        /\ pc # "idle" => ~isClosed
        /\ Used!TxsOf(txStack) \subseteq Tx
    BY <1>1, UnitFacts
  <2>2. pc \in {"idle", "begin", "body", "commit", "rollback", "panicked", "leave", "throw"}
        /\ (pc = "idle" => Depth = 0)
    BY <1>1, Facts DEF UnitIInv, SessionIInv, IInv, Calls, Depth
  <2>3. ASSUME NEW i \in 1..Depth, frames[i].kind = "new", Running(i)
        PROVE  frames[i].tx \in Tx /\ txState[frames[i].tx] = "open"
    <3>1. i \in 1..Begun
      BY <2>1, <2>2, <2>3 DEF Running
    <3>2. frames[i].kind \in Layer(i) /\ (i > Base => frames[i].tx \in Used!TxsOf(txStack))
      BY <1>1, <3>1 DEF UnitIInv, CallsInv, Layered
    <3>3. i > Base
      BY <2>1, <2>3, <3>2 DEF Layer
    <3>4. ~isClosed /\ frames[i].tx \in Used!TxsOf(txStack)
      BY <2>1, <2>2, <3>2, <3>3
    <3>5. QED
      BY <1>1, <2>1, <3>4 DEF UnitIInv, SessionIInv, Used!Live, Used!StackIsLive
  <2>4. QED
    BY <2>3 DEF OwnTxStaysOpen
<1>2. QED
  BY <1>1, UnitInvariant, PTL

(* What a Commit has vouched for is durable, whatever the calls in between *)
(* did or threw (TransactionAspectSupport.go:65-69).                       *)
THEOREM VouchedIsDurable == ASSUME Tags \subseteq JoinTags PROVE Spec => []KeepIsDurable
<1>1. UnitIInv => KeepIsDurable
  BY DEF UnitIInv, HistoryOK, CallsInv, Vouched, KeepIsDurable, Durable, Session!Durable,
         Session!AutoCommit, Used!AutoCommit
<1>2. QED
  BY <1>1, UnitInvariant, PTL

(* Without NESTED calls nothing of a transaction that its own call gave up *)
(* is durable (TransactionAspectSupport.go:11, 71, 86).                    *)
THEOREM GivenUpIsUndone == ASSUME Tags \subseteq UnitTags PROVE Spec => []UndoIsUndone
<1>1. Tags \subseteq JoinTags
  BY DEF UnitTags
<1>2. UnitIInv => UndoIsUndone
  BY TxAssumption DEF UnitIInv, CallsInv, Undone, UndoIsUndone, Durable, Session!Durable
<1>3. QED
  BY <1>1, <1>2, UnitInvariant, PTL

(* Outside all calls the goroutine holds no transaction open at the        *)
(* database (TransactionAspectSupport.go:47-51).                           *)
THEOREM NoTxIsLeft == ASSUME Tags \subseteq JoinTags PROVE Spec => []NoTxLeft
<1>1. UnitIInv => NoTxLeft
  BY DEF UnitIInv, SessionIInv, IInv, TlsMatchesFrames, Used!Joined, Used!NoOrphanTx, NoTxLeft
<1>2. QED
  BY <1>1, UnitInvariant, PTL

(* The abstract unit of the proxy's session is that of the instance.       *)
LEMMA SameUnit ==
  /\ Session!Pending = Used!Pending /\ Session!Pending' = Used!Pending'
  /\ Session!Durable = Used!Durable /\ Session!Durable' = Used!Durable'
BY DEF Session!Pending, Used!Pending, Session!Durable, Used!Durable,
       Session!AutoCommit, Used!AutoCommit

LEMMA SameUnitStep == [Used!unit!Next]_(Used!unit!vars) => [Session!unit!Next]_(Session!unit!vars)
BY SameUnit
   DEF Used!unit!Next, Used!unit!vars, Used!unit!Enter, Used!unit!Idle, Used!unit!Write,
       Used!unit!LeaveInner, Used!unit!CommitUnit, Used!unit!RollbackUnit, Used!unit!Close,
       Used!unit!Answered, Used!unit!Ops, Used!unit!NoError, Used!unit!Error,
       Session!unit!Next, Session!unit!vars, Session!unit!Enter, Session!unit!Idle,
       Session!unit!Write, Session!unit!LeaveInner, Session!unit!CommitUnit,
       Session!unit!RollbackUnit, Session!unit!Close, Session!unit!Answered,
       Session!unit!Ops, Session!unit!NoError, Session!unit!Error

(* All the calls of a goroutine, however deep, are one unit of work if     *)
(* none is NESTED: the proxy implements TxUnit (src/tx/README.md:5,        *)
(* TransactionAspectSupport.go:52-86).                                     *)
THEOREM ProxyImplementsUnit ==
  ASSUME Tags \subseteq UnitTags PROVE Spec => CallsAreOneUnit
<1>0. Tags \subseteq JoinTags
  BY DEF UnitTags
<1>1. Init => Session!unit!Init
  BY TxAssumption
     DEF Init, Session!unit!Init, Session!unit!NoError, Session!NoError, Session!Pending,
         Session!Durable, Session!AutoCommit, Session!NotRun
<1>2. UnitIInv /\ UnitIInv' /\ [Next]_vars => [Session!unit!Next]_(Session!unit!vars)
  <2> SUFFICES ASSUME UnitIInv, UnitIInv', [Next]_vars
               PROVE  [Session!unit!Next]_(Session!unit!vars)
    OBVIOUS
  <2>1. Used!Joined /\ Used!Joined' /\ [Used!Next]_(Used!vars) /\ Asked \subseteq Used!JoinProps
    BY <1>0, SessionStep, JoinTagsAskJoining DEF UnitIInv
  <2>2. [Used!unit!Next]_(Used!unit!vars)
    BY <2>1, Used!UnitStep, UsedAssumptions
  <2>3. QED
    BY <2>2, SameUnitStep
<1>3. QED
  BY <1>0, <1>1, <1>2, UnitInvariant, PTL DEF Spec, CallsAreOneUnit, Session!Unit, Session!unit!Spec

=============================================================================
