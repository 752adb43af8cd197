---------------------------- MODULE SqlRenderProofs ----------------------------
(***************************************************************************)
(* Type correctness of SqlRender and the numbering of placeholders, for    *)
(* every statement, every parameter map and both kinds of converter.       *)
(***************************************************************************)
EXTENDS SqlRender, TLAPS, FiniteSetTheorems

(* What a frame may have buffered: text, or a group of numbers as it is     *)
(* registered now.                                                          *)
Pieces == IF Reusable THEN Groups \cup {Text} ELSE Seq(Nat)

(* Frames over the pieces P: calls of nodes with children, and a loop with  *)
(* items left has a collection that holds them.                             *)
Frames(P) ==
  {f \in [node : Nodes, rest : Seq(Nodes), sql : Seq(P),
          over : Values \cup {NoValue}, left : SUBSET Nat] :
     /\ f.node.kind \in Branches
     /\ f.left # {} => /\ f.over \in Values
                       /\ f.over.kind \in Collections
                       /\ f.left \subseteq DOMAIN f.over.elems}

(* The converter and the argument array agree. *)
Agree ==
  Reusable =>
    /\ conv.counter = Len(args)
    /\ \A x \in DOMAIN conv.cache : Range(conv.cache[x]) \subseteq 1..Len(args)
    /\ \A k \in 1..Len(args) :
         \E x \in DOMAIN conv.cache :
           /\ k \in Range(conv.cache[x])
           /\ \A y \in DOMAIN conv.cache : k \in Range(conv.cache[y]) => y = x

DataOK ==
  /\ status \in {"running", "done", "error", "panic"}
  /\ env \in [DOMAIN env -> Values]
  /\ args \in Seq(Values)
  /\ conv \in [counter : Nat, cache : [DOMAIN conv.cache -> Seq(Nat)]]

(* The inductive invariant. *)
IInv == DataOK /\ Agree /\ stack \in Seq(Frames(Pieces))

USE DEF Text, Reusable
-----------------------------------------------------------------------------
(* Replacing the head of a stack. *)
LEMMA ReplaceTop ==
  ASSUME NEW S, NEW s \in Seq(S), s # <<>>, NEW f \in S
  PROVE  <<f>> \o Tail(s) \in Seq(S)
  OBVIOUS

LEMMA TailTyped ==
  ASSUME NEW S, NEW t \in Seq(S), t # <<>>
  PROVE  Tail(t) \in Seq(S)
OBVIOUS

LEMMA BelowTop ==
  ASSUME NEW S, NEW s \in Seq(S), Len(s) > 1
  PROVE  s[2] \in S /\ Tail(Tail(s)) \in Seq(S)
<1>1. Len(s) \in Nat /\ 2 \in 1..Len(s) /\ s # <<>>
  OBVIOUS
<1>2. Tail(s) \in Seq(S) /\ Len(Tail(s)) = Len(s) - 1
  BY <1>1
<1>3. Tail(s) # <<>>
  <2>1. Len(Tail(s)) # 0
    BY <1>1, <1>2
  <2>2. ASSUME NEW t, Len(t) # 0 PROVE t # <<>>
    <3>1. Len(<<>>) = 0
      OBVIOUS
    <3> QED
      BY ONLY <2>2, <3>1, Zenon
  <2> QED
    BY ONLY <2>1, <2>2, Zenon
<1>4. Tail(Tail(s)) \in Seq(S)
  BY <1>2, <1>3, TailTyped
<1> QED
  BY <1>1, <1>4

LEMMA SeqMono ==
  ASSUME NEW S, NEW T, S \subseteq T, NEW s \in Seq(S)
  PROVE  s \in Seq(T)
OBVIOUS

(* A converter nobody has used yet. *)
LEMMA NewConvertTyped ==
  /\ NewConvert.counter = 0 /\ DOMAIN NewConvert.cache = {}
  /\ NewConvert \in [counter : Nat, cache : [DOMAIN NewConvert.cache -> Seq(Nat)]]
<1>1. NewConvert.counter = 0 /\ NewConvert.cache = << >> /\ DOMAIN << >> = {}
  BY DEF NewConvert
<1>2. << >> \in [{} -> Seq(Nat)]
  OBVIOUS
<1>3. [counter |-> 0, cache |-> << >>] \in [counter : Nat, cache : [{} -> Seq(Nat)]]
  BY <1>2
<1> QED
  BY <1>1, <1>3 DEF NewConvert

(* The stack only ever holds sequences over larger sets of pieces. *)
LEMMA FramesMono ==
  ASSUME NEW P, NEW Q, P \subseteq Q
  PROVE  Frames(P) \subseteq Frames(Q)
<1>1. \A s \in Seq(P) : s \in Seq(Q)
  OBVIOUS
<1> QED
  BY <1>1 DEF Frames

LEMMA PiecesTyped ==
  ASSUME DataOK
  PROVE  /\ Pieces \subseteq Seq(Nat)
         /\ <<>> \in Pieces
<1>1. <<>> \in Seq(Nat)
  OBVIOUS
<1>2. Groups \subseteq Seq(Nat)
  BY DEF Groups, DataOK
<1> QED
  BY <1>1, <1>2 DEF Pieces

(* A new frame of a node with children. *)
LEMMA FrameTyped ==
  ASSUME NEW P, NEW n \in Nodes, n.kind \in Branches, NEW sql \in Seq(P)
  PROVE  Frame(n, sql, NoValue, {}) \in Frames(P)
<1>1. n.kids \in Seq(Nodes)
  BY NodesAssumption
<1> QED
  BY <1>1 DEF Frame, Frames

LEMMA LoopFrameTyped ==
  ASSUME NEW P, NEW n \in Nodes, n.kind \in Branches, NEW sql \in Seq(P),
         NEW over \in Values, over.kind \in Collections,
         NEW left, left \subseteq DOMAIN over.elems
  PROVE  Frame(n, sql, over, left) \in Frames(P)
<1>1. n.kids \in Seq(Nodes)
  BY NodesAssumption
<1>2. left \subseteq Nat
  BY ValuesAssumption
<1> QED
  BY <1>1, <1>2 DEF Frame, Frames

FrameRecords(P) == [node : Nodes, rest : Seq(Nodes), sql : Seq(P),
                     over : Values \cup {NoValue}, left : SUBSET Nat]

(* A frame that goes on with other text or other children is a frame. *)
LEMMA FrameGoesOn ==
  ASSUME NEW P, NEW f \in Frames(P), NEW g \in FrameRecords(P),
         g.node = f.node, g.over = f.over, g.left = f.left
  PROVE  g \in Frames(P)
BY DEF Frames, FrameRecords

(* What a frame becomes when a child returns. *)
LEMMA ReceiveTyped ==
  ASSUME NEW P, NEW f \in Frames(P), NEW n, NEW r \in Seq(P)
  PROVE  Receive(f, n, r) \in Frames(P)
<1> DEFINE g == Receive(f, n, r)
<1>0. f \in FrameRecords(P)
  BY DEF Frames, FrameRecords
<1>1. ASSUME f.node.kind # "choose" PROVE g \in Frames(P)
  <2>1. g = [f EXCEPT !.sql = f.sql \o r]
    BY <1>1 DEF Receive
  <2>2. f.sql \o r \in Seq(P)
    BY <1>0 DEF FrameRecords
  <2> HIDE DEF g
  <2>3. g \in FrameRecords(P) /\ g.node = f.node /\ g.over = f.over /\ g.left = f.left
    BY <1>0, <2>1, <2>2 DEF FrameRecords
  <2> QED
    BY <2>3, FrameGoesOn
<1>2. ASSUME f.node.kind = "choose", n.kind = "when", r # <<>> PROVE g \in Frames(P)
  <2>1. g = [f EXCEPT !.sql = r, !.rest = <<>>]
    BY <1>2 DEF Receive
  <2>2. <<>> \in Seq(Nodes)
    OBVIOUS
  <2> HIDE DEF g
  <2>3. g \in FrameRecords(P) /\ g.node = f.node /\ g.over = f.over /\ g.left = f.left
    BY <1>0, <2>1, <2>2 DEF FrameRecords
  <2> QED
    BY <2>3, FrameGoesOn
<1>3. ASSUME f.node.kind = "choose", ~(n.kind = "when" /\ r # <<>>)
      PROVE  g \in Frames(P)
  <2>1. g = f
    BY <1>3, Zenon DEF Receive
  <2> QED
    BY <2>1
<1> QED
  BY <1>1, <1>2, <1>3

(* The running frame, gone past its next child. *)
LEMMA TopTyped ==
  ASSUME NEW P, stack \in Seq(Frames(P)), stack # <<>>
  PROVE  /\ Top \in Frames(P)
         /\ Top.rest # <<>> => /\ Child \in Nodes
                               /\ [Top EXCEPT !.rest = Tail(@)] \in Frames(P)
<1>1. Top \in Frames(P)
  BY DEF Top
<1>2. ASSUME Top.rest # <<>>
      PROVE  Child \in Nodes /\ [Top EXCEPT !.rest = Tail(@)] \in Frames(P)
  <2>1. Top.rest \in Seq(Nodes)
    BY <1>1 DEF Frames
  <2>2. Child \in Nodes /\ Tail(Top.rest) \in Seq(Nodes)
    BY <1>2, <2>1 DEF Child
  <2> QED
    BY <1>1, <2>2 DEF Frames
<1> QED
  BY <1>1, <1>2

LEMMA WriteTyped ==
  ASSUME NEW P, stack \in Seq(Frames(P)), More, NEW r \in Seq(P), Write(r)
  PROVE  stack' \in Seq(Frames(P))
<1>1. [Top EXCEPT !.rest = Tail(@)] \in Frames(P)
  BY TopTyped DEF More, Running
<1>2. After(r) \in Frames(P)
  BY <1>1, ReceiveTyped DEF After
<1> QED
  BY <1>2, ReplaceTop DEF Write, More, Running

LEMMA PushTyped ==
  ASSUME NEW P, stack \in Seq(Frames(P)), More, NEW f \in Frames(P), Push(f)
  PROVE  stack' \in Seq(Frames(P))
<1> DEFINE g == [Top EXCEPT !.rest = Tail(@)]
<1>1. g \in Frames(P)
  BY TopTyped DEF More, Running
<1>2. Tail(stack) \in Seq(Frames(P))
  BY DEF More, Running
<1>3. stack' = <<f, g>> \o Tail(stack)
  BY DEF Push
<1> HIDE DEF g
<1> QED
  BY <1>1, <1>2, <1>3

-----------------------------------------------------------------------------
(* A parameter map stays one when a value is bound or an item deleted. *)
LEMMA BindTyped ==
  ASSUME NEW e, e \in [DOMAIN e -> Values], NEW x, NEW v \in Values
  PROVE  With(e, x, v) \in [DOMAIN With(e, x, v) -> Values]
BY DEF With

LEMMA BindItemTyped ==
  ASSUME NEW e, e \in [DOMAIN e -> Values], NEW n,
         NEW over \in Values, over.kind \in Collections, NEW k \in DOMAIN over.elems
  PROVE  BindItem(e, n, over, k) \in [DOMAIN BindItem(e, n, over, k) -> Values]
<1> DEFINE d == With(e, n.item, over.elems[k])
<1>1. over.elems[k] \in Values /\ IndexAt(over, k) \in Values
  BY ValuesAssumption
<1>2. d \in [DOMAIN d -> Values]
  BY <1>1, BindTyped
<1>3. BindItem(e, n, over, k) = With(d, n.index, IndexAt(over, k))
  BY DEF BindItem
<1> HIDE DEF d
<1> QED
  BY <1>1, <1>2, <1>3, BindTyped

LEMMA DeleteItemTyped ==
  ASSUME NEW e, e \in [DOMAIN e -> Values], NEW n
  PROVE  DeleteItem(e, n) \in [DOMAIN DeleteItem(e, n) -> Values]
BY DEF DeleteItem, Restrict

LEMMA ArgumentsTyped ==
  ASSUME NEW v \in Values
  PROVE  Arguments(v) \in Seq(Values)
BY ValuesAssumption DEF Arguments

(* The children of a choose, once for every `when`, are nodes. *)
LEMMA WhenNodesTyped ==
  ASSUME NEW c \in Nodes, c.kind = "choose", c.kids # <<>>
  PROVE  WhenNodes(c) \in Seq(Nodes)
<1> DEFINE k == Len(c.kids)
           w == Cardinality({i \in 1..k : c.kids[i].kind = "when"})
<1>1. c.kids \in Seq(Nodes)
  BY NodesAssumption DEF Branches
<1>2. k \in Nat /\ k > 0
  BY <1>1
<1>3. IsFiniteSet(1..k)
  BY <1>2, FS_Interval
<1>4. {i \in 1..k : c.kids[i].kind = "when"} \subseteq 1..k
  OBVIOUS
<1>5. w \in Nat
  BY <1>3, <1>4, FS_Subset, FS_CardinalityType
<1>6. WhenNodes(c) = [i \in 1..(k * w) |-> c.kids[((i - 1) % k) + 1]]
  BY DEF WhenNodes
<1> HIDE DEF k, w
<1>7. k * w \in Nat
  BY <1>2, <1>5
<1>8. ASSUME NEW i \in 1..(k * w) PROVE ((i - 1) % k) + 1 \in 1..k
  <2>1. i - 1 \in Nat
    BY <1>7
  <2>2. (i - 1) % k \in 0..(k - 1)
    BY <2>1, <1>2
  <2> QED
    BY <2>2, <1>2
<1>9. \A j \in 1..k : c.kids[j] \in Nodes
  BY <1>1 DEF k
<1> QED
  BY <1>6, <1>7, <1>8, <1>9
-----------------------------------------------------------------------------
(* A step that leaves arguments and numbering alone. *)
LEMMA QuietStep ==
  ASSUME IInv, UNCHANGED <<call, args, conv>>,
         status' \in {"running", "done", "error", "panic"},
         env' \in [DOMAIN env' -> Values],
         stack' \in Seq(Frames(Pieces))
  PROVE  IInv'
<1>1. Pieces' = Pieces
  BY DEF Pieces, Groups
<1>2. Agree'
  BY DEF IInv, Agree
<1>3. DataOK'
  BY DEF IInv, DataOK
<1> QED
  BY <1>1, <1>2, <1>3 DEF IInv

LEMMA FailStep ==
  ASSUME IInv, NEW how \in {"error", "panic"}, Fail(how)
  PROVE  IInv'
<1>1. <<>> \in Seq(Frames(Pieces))
  OBVIOUS
<1> QED
  BY <1>1, QuietStep DEF Fail, IInv, DataOK

(* Evaluating a child that writes r and appends nothing. *)
LEMMA WriteStep ==
  ASSUME IInv, More, NEW r \in Seq(Pieces), Write(r), UNCHANGED <<call, args, conv, status>>,
         env' \in [DOMAIN env' -> Values]
  PROVE  IInv'
<1>1. stack' \in Seq(Frames(Pieces))
  BY WriteTyped DEF IInv
<1> QED
  BY <1>1, QuietStep DEF IInv, DataOK

LEMMA PushStep ==
  ASSUME IInv, More, NEW f \in Frames(Pieces), Push(f), UNCHANGED <<call, args, conv, status>>,
         env' \in [DOMAIN env' -> Values]
  PROVE  IInv'
<1>1. stack' \in Seq(Frames(Pieces))
  BY PushTyped DEF IInv
<1> QED
  BY <1>1, QuietStep DEF IInv, DataOK

LEMMA ChildTyped ==
  ASSUME IInv, More
  PROVE  /\ Child \in Nodes
         /\ env \in [DOMAIN env -> Values]
         /\ <<>> \in Seq(Pieces) /\ <<Text>> \in Seq(Pieces)
<1>1. Child \in Nodes
  BY TopTyped DEF IInv, More, Running
<1>2. Text \in Pieces
  BY PiecesTyped DEF IInv
<1>3. <<Text>> \in Seq(Pieces) /\ <<>> \in Seq(Pieces)
  BY <1>2
<1> QED
  BY <1>1, <1>3 DEF IInv, DataOK
-----------------------------------------------------------------------------
(* One lemma per action that does more than write. *)
LEMMA ExprMissStep ==
  ASSUME IInv, RenderExprMiss
  PROVE  IInv'
<1> DEFINE x     == Child.name
           new   == Arguments(env[x])
           holes == Numbers(Len(new))
<1>1. More /\ ~Hit(x) /\ x \in DOMAIN env
  BY DEF RenderExprMiss, Bound
<1>2. args' = args \o new /\ conv' = Registered(x, holes) /\ Write(<<holes>>)
      /\ UNCHANGED <<call, env, status>>
  BY DEF RenderExprMiss
<1>3. new \in Seq(Values) /\ Len(new) \in Nat
  <2>1. env[x] \in Values
    BY <1>1, ChildTyped
  <2>2. new \in Seq(Values)
    BY <2>1, ArgumentsTyped
  <2> QED
    BY <2>2
<1>4. args \in Seq(Values) /\ conv.counter \in Nat
      /\ conv.cache \in [DOMAIN conv.cache -> Seq(Nat)]
      /\ conv = [counter |-> conv.counter, cache |-> conv.cache]
  BY DEF IInv, DataOK
<1> HIDE DEF new, x
<1>5. /\ holes \in Seq(Nat) /\ Len(holes) = Len(new) /\ DOMAIN holes = 1..Len(new)
      /\ Reusable => \A i \in 1..Len(new) : holes[i] = conv.counter + i
  BY <1>3, <1>4 DEF Numbers
<1> HIDE DEF holes
<1>6. args' \in Seq(Values) /\ Len(args') = Len(args) + Len(new)
  BY <1>2, <1>3, <1>4
<1>7. ASSUME ~Reusable PROVE IInv'
  <2>1. conv' = conv
    BY <1>2, <1>7 DEF Registered
  <2>2. Pieces' = Pieces /\ Pieces = Seq(Nat)
    BY <1>2, <1>7 DEF Pieces
  <2>3. <<holes>> \in Seq(Pieces)
    BY <1>5, <2>2
  <2>4. stack' \in Seq(Frames(Pieces))
    BY <1>1, <1>2, <2>3, WriteTyped DEF IInv
  <2>5. DataOK'
    BY <1>2, <1>6, <2>1 DEF IInv, DataOK
  <2>6. Agree'
    BY <1>2, <1>7 DEF Agree
  <2> QED
    BY <2>2, <2>4, <2>5, <2>6 DEF IInv
<1>8. ASSUME Reusable PROVE IInv'
  <2>1. conv' = [counter |-> conv.counter + Len(holes), cache |-> With(conv.cache, x, holes)]
    BY <1>2, <1>8 DEF Registered
  <2>2. conv'.counter = conv.counter + Len(holes) /\ conv'.cache = With(conv.cache, x, holes)
    BY <2>1
  <2>3. x \notin DOMAIN conv.cache
    BY <1>1, <1>8 DEF Hit
  <2>4. /\ DOMAIN conv'.cache = DOMAIN conv.cache \cup {x}
        /\ conv'.cache[x] = holes
        /\ \A y \in DOMAIN conv.cache : conv'.cache[y] = conv.cache[y]
    BY <2>2, <2>3 DEF With
  <2>5. DataOK'
    <3>1. conv'.cache \in [DOMAIN conv'.cache -> Seq(Nat)]
      BY <1>4, <1>5, <2>2 DEF With
    <3>2. conv'.counter \in Nat
      BY <1>3, <1>4, <1>5, <2>2
    <3>3. conv' \in [counter : Nat, cache : [DOMAIN conv'.cache -> Seq(Nat)]]
      BY <2>1, <2>2, <3>1, <3>2
    <3>4. env' \in [DOMAIN env' -> Values] /\ status' \in {"running", "done", "error", "panic"}
      BY <1>2 DEF IInv, DataOK
    <3> QED
      BY <1>6, <3>3, <3>4 DEF DataOK
  <2>6. Pieces \subseteq Pieces' /\ holes \in Pieces'
    BY <1>2, <1>8, <2>4 DEF Pieces, Groups
  <2>7. stack' \in Seq(Frames(Pieces'))
    <3>1. Frames(Pieces) \subseteq Frames(Pieces')
      BY <2>6, FramesMono
    <3>2. stack \in Seq(Frames(Pieces'))
      BY <3>1 DEF IInv
    <3>3. <<holes>> \in Seq(Pieces')
      BY <2>6
    <3> QED
      BY <1>1, <1>2, <3>2, <3>3, WriteTyped
  <2>8. Agree'
    <3>1. conv.counter = Len(args) /\ Len(args) \in Nat
      BY <1>4, <1>8 DEF IInv, Agree
    <3>2. conv'.counter = Len(args')
      BY <1>3, <1>5, <1>6, <2>2, <3>1
    <3>3. Range(holes) \subseteq 1..Len(args') /\ \A k \in Range(holes) : k > Len(args)
      BY <1>3, <1>5, <1>6, <1>8, <3>1 DEF Range
    <3>4. \A y \in DOMAIN conv.cache : Range(conv.cache[y]) \subseteq 1..Len(args)
      BY <1>8 DEF IInv, Agree
    <3>5. \A y \in DOMAIN conv'.cache : Range(conv'.cache[y]) \subseteq 1..Len(args')
      BY <1>3, <1>6, <2>4, <3>1, <3>3, <3>4
    <3>6. ASSUME NEW k \in 1..Len(args')
          PROVE  \E z \in DOMAIN conv'.cache :
                   /\ k \in Range(conv'.cache[z])
                   /\ \A y \in DOMAIN conv'.cache : k \in Range(conv'.cache[y]) => y = z
      <4>1. ASSUME k \in 1..Len(args)
            PROVE  \E z \in DOMAIN conv'.cache :
                     /\ k \in Range(conv'.cache[z])
                     /\ \A y \in DOMAIN conv'.cache : k \in Range(conv'.cache[y]) => y = z
        <5>1. PICK z \in DOMAIN conv.cache :
                /\ k \in Range(conv.cache[z])
                /\ \A y \in DOMAIN conv.cache : k \in Range(conv.cache[y]) => y = z
          BY <1>8, <4>1 DEF IInv, Agree
        <5>2. k \notin Range(conv'.cache[x])
          BY <2>4, <3>1, <3>3, <4>1
        <5> QED
          BY <2>4, <5>1, <5>2
      <4>2. ASSUME k \notin 1..Len(args)
            PROVE  \E z \in DOMAIN conv'.cache :
                     /\ k \in Range(conv'.cache[z])
                     /\ \A y \in DOMAIN conv'.cache : k \in Range(conv'.cache[y]) => y = z
        <5>1. k - Len(args) \in 1..Len(new)
          BY <1>3, <1>6, <3>1, <4>2
        <5>2. holes[k - Len(args)] = k
          BY <1>5, <1>8, <3>1, <5>1
        <5>3. k \in Range(holes)
          BY <1>5, <5>1, <5>2 DEF Range
        <5> QED
          BY <2>4, <3>4, <4>2, <5>3
      <4> QED
        BY <4>1, <4>2
    <3> QED
      BY <3>2, <3>5, <3>6 DEF Agree
  <2> QED
    BY <2>5, <2>7, <2>8 DEF IInv
<1> QED
  BY <1>7, <1>8

LEMMA ForEachStep ==
  ASSUME IInv, EvalForEach
  PROVE  IInv'
<1> DEFINE n    == Child
           over == env[n.collection]
<1>1. More /\ n.kind = "foreach" /\ n.collection \in DOMAIN env
      /\ over.kind \in Collections /\ UNCHANGED <<call, args, conv, status>>
  BY DEF EvalForEach, Bound
<1>2. n \in Nodes /\ over \in Values /\ env \in [DOMAIN env -> Values]
      /\ <<>> \in Seq(Pieces) /\ <<Text>> \in Seq(Pieces)
  BY <1>1, ChildTyped
<1>3. \/ Write(<<>>) /\ UNCHANGED env
      \/ Write(<<Text>>) /\ UNCHANGED env
      \/ \E k \in DOMAIN over.elems :
           /\ env' = BindItem(env, n, over, k)
           /\ Push(Frame(n, <<Text>>, over, DOMAIN over.elems \ {k}))
  BY DEF EvalForEach
<1> HIDE DEF n, over
<1>4. ASSUME UNCHANGED env, NEW r \in Seq(Pieces), Write(r) PROVE IInv'
  BY <1>1, <1>2, <1>4, WriteStep
<1>5. ASSUME NEW k \in DOMAIN over.elems, env' = BindItem(env, n, over, k),
             Push(Frame(n, <<Text>>, over, DOMAIN over.elems \ {k}))
      PROVE  IInv'
  <2>1. env' \in [DOMAIN env' -> Values]
    BY <1>1, <1>2, <1>5, BindItemTyped
  <2>2. n.kind \in Branches
    BY <1>1 DEF Branches
  <2>3. Frame(n, <<Text>>, over, DOMAIN over.elems \ {k}) \in Frames(Pieces)
    BY <1>1, <1>2, <2>2, LoopFrameTyped
  <2> QED
    BY <1>1, <1>5, <2>1, <2>3, PushStep
<1> QED
  BY <1>2, <1>3, <1>4, <1>5

LEMMA NextItemStep ==
  ASSUME IInv, NextItem
  PROVE  IInv'
<1> DEFINE f == Top
<1>1. stack \in Seq(Frames(Pieces)) /\ stack # <<>>
  BY DEF IInv, NextItem, Exhausted, Running
<1>2. f \in Frames(Pieces)
  BY <1>1, TopTyped
<1>3. PICK k \in f.left :
        /\ env' = BindItem(DeleteItem(env, f.node), f.node, f.over, k)
        /\ stack' = <<[f EXCEPT !.rest = f.node.kids, !.left = f.left \ {k}]>> \o Tail(stack)
  BY DEF NextItem
<1>4. UNCHANGED <<call, args, conv, status>>
  BY DEF NextItem
<1> HIDE DEF f
<1>5. f.over \in Values /\ f.over.kind \in Collections /\ k \in DOMAIN f.over.elems
      /\ f.node \in Nodes /\ f.node.kind \in Branches
  BY <1>2 DEF Frames
<1>6. env' \in [DOMAIN env' -> Values]
  <2>1. env \in [DOMAIN env -> Values]
    BY DEF IInv, DataOK
  <2>2. DeleteItem(env, f.node) \in [DOMAIN DeleteItem(env, f.node) -> Values]
    BY <2>1, DeleteItemTyped
  <2> QED
    BY <1>3, <1>5, <2>2, BindItemTyped
<1>7. f.node.kids \in Seq(Nodes)
  BY <1>5, NodesAssumption
<1>8. [f EXCEPT !.rest = f.node.kids, !.left = f.left \ {k}] \in Frames(Pieces)
  BY <1>2, <1>7 DEF Frames
<1>9. stack' \in Seq(Frames(Pieces))
  BY <1>1, <1>3, <1>8, ReplaceTop
<1> QED
  BY <1>4, <1>6, <1>9, QuietStep DEF IInv, DataOK

LEMMA ChooseStep ==
  ASSUME IInv, EvalChoose
  PROVE  IInv'
<1>1. More /\ Child.kind = "choose" /\ UNCHANGED <<call, env, args, conv, status>>
  BY DEF EvalChoose
<1>2. Child \in Nodes /\ env' \in [DOMAIN env' -> Values] /\ <<>> \in Seq(Pieces)
  BY <1>1, ChildTyped
<1>3. CASE Child.kids = <<>>
  <2>1. Write(<<>>)
    BY <1>3 DEF EvalChoose
  <2> QED
    BY <1>1, <1>2, <2>1, WriteStep
<1>4. CASE Child.kids # <<>>
  <2> DEFINE f == Frame(Child, <<>>, NoValue, {})
             g == [f EXCEPT !.rest = WhenNodes(Child)]
  <2>1. Push(g)
    BY <1>4 DEF EvalChoose
  <2>2. WhenNodes(Child) \in Seq(Nodes)
    BY <1>1, <1>2, <1>4, WhenNodesTyped
  <2>3. Child.kind \in Branches
    BY <1>1 DEF Branches
  <2>4. f \in Frames(Pieces)
    BY <1>2, <2>3, FrameTyped
  <2> HIDE DEF f
  <2>5. g \in Frames(Pieces)
    BY <2>2, <2>4 DEF Frames
  <2> QED
    BY <1>1, <1>2, <2>1, <2>5, PushStep
<1> QED
  BY <1>3, <1>4

LEMMA OtherwiseStep ==
  ASSUME IInv, ChooseOtherwise
  PROVE  IInv'
<1>1. stack \in Seq(Frames(Pieces)) /\ stack # <<>>
  BY DEF IInv, ChooseOtherwise, Exhausted, Running
<1>2. Top \in Frames(Pieces)
  BY <1>1, TopTyped
<1>3. PICK n \in Otherwises(Top.node) :
        stack' = <<Frame(n, <<>>, NoValue, {})>> \o Tail(stack)
  BY DEF ChooseOtherwise
<1>4. Top.node.kids \in Seq(Nodes)
  BY <1>2, NodesAssumption DEF Frames
<1>5. n \in Nodes /\ n.kind \in Branches
  BY <1>3, <1>4 DEF Otherwises, Range, Branches
<1>6. <<>> \in Seq(Pieces)
  OBVIOUS
<1>7. Frame(n, <<>>, NoValue, {}) \in Frames(Pieces)
  BY <1>5, <1>6, FrameTyped
<1>8. stack' \in Seq(Frames(Pieces))
  BY <1>1, <1>3, <1>7, ReplaceTop
<1> QED
  BY <1>8, QuietStep DEF ChooseOtherwise, IInv, DataOK

LEMMA ReturnStep ==
  ASSUME IInv, Return
  PROVE  IInv'
<1>1. stack \in Seq(Frames(Pieces)) /\ stack # <<>> /\ Len(stack) > 1
  BY DEF IInv, Return, Exhausted, Running
<1>2. Top \in Frames(Pieces)
  BY <1>1, TopTyped
<1>3. Top.sql \in Seq(Pieces)
  BY <1>2 DEF Frames
<1>4. stack[2] \in Frames(Pieces) /\ Tail(Tail(stack)) \in Seq(Frames(Pieces))
  BY <1>1, BelowTop
<1>5. Receive(stack[2], Top.node, Top.sql) \in Frames(Pieces)
  BY <1>3, <1>4, ReceiveTyped
<1>6. stack' = <<Receive(stack[2], Top.node, Top.sql)>> \o Tail(Tail(stack))
  BY DEF Return
<1>7. stack' \in Seq(Frames(Pieces))
  BY <1>4, <1>5, <1>6
<1>8. env' \in [DOMAIN env' -> Values]
  <2>1. env \in [DOMAIN env -> Values]
    BY DEF IInv, DataOK
  <2>2. env' = env \/ env' = DeleteItem(env, Top.node)
    BY DEF Return
  <2> QED
    BY <2>1, <2>2, DeleteItemTyped
<1> QED
  BY <1>7, <1>8, QuietStep DEF Return, IInv, DataOK

LEMMA BuildStep ==
  ASSUME NEW t \in Templates, NEW p \in Params, NEW r \in Numberings, BuildSql(t, p, r)
  PROVE  IInv'
<1>1. Root \in Nodes /\ Root.kind \in Branches /\ t \in Seq(Nodes)
  BY NodesAssumption DEF Root, Branches
<1>2. <<>> \in Seq(Pieces')
  OBVIOUS
<1> DEFINE f == Frame(Root, <<>>, NoValue, {})
<1>3. f \in Frames(Pieces')
  BY <1>1, <1>2, FrameTyped
<1>4. stack' = <<[f EXCEPT !.rest = t]>>
  BY DEF BuildSql
<1> HIDE DEF f
<1>5. [f EXCEPT !.rest = t] \in Frames(Pieces')
  BY <1>1, <1>3 DEF Frames
<1>6. stack' \in Seq(Frames(Pieces'))
  BY <1>4, <1>5
<1>7. args' = <<>> /\ conv' = NewConvert /\ env' = p /\ status' = "running"
  BY DEF BuildSql
<1>8. DataOK'
  <2>3. conv' \in [counter : Nat, cache : [DOMAIN conv'.cache -> Seq(Nat)]]
    BY <1>7, NewConvertTyped
  <2>4. args' \in Seq(Values) /\ env' \in [DOMAIN env' -> Values]
    BY <1>7, ParamsAssumption
  <2> QED
    BY <1>7, <2>3, <2>4 DEF DataOK
<1>9. Agree'
  <2>1. conv'.counter = 0 /\ DOMAIN conv'.cache = {} /\ Len(args') = 0
    BY <1>7, NewConvertTyped
  <2> QED
    BY <2>1 DEF Agree
<1> QED
  BY <1>6, <1>8, <1>9 DEF IInv

LEMMA InitOK == Init => IInv
<1> SUFFICES ASSUME Init PROVE IInv
  OBVIOUS
<1>1. conv = NewConvert
  BY DEF Init
<1>3. conv \in [counter : Nat, cache : [DOMAIN conv.cache -> Seq(Nat)]]
  BY <1>1, NewConvertTyped
<1>4. DataOK
  BY <1>3 DEF Init, DataOK
<1>5. Agree
  BY <1>1, NewConvertTyped DEF Init, Agree
<1>6. stack \in Seq(Frames(Pieces))
  BY DEF Init
<1> QED
  BY <1>4, <1>5, <1>6 DEF IInv

LEMMA NextOK == IInv /\ [Next]_vars => IInv'
<1> SUFFICES ASSUME IInv, [Next]_vars PROVE IInv'
  OBVIOUS
<1>1. CASE UNCHANGED vars
  BY <1>1, QuietStep DEF vars, IInv, DataOK
<1>2. CASE \E t \in Templates, p \in Params, r \in Numberings : BuildSql(t, p, r)
  BY <1>2, BuildStep
<1>3. CASE RenderText
  BY <1>3, ChildTyped, WriteStep DEF RenderText
<1>4. CASE RenderExprHit
  <2>1. More /\ Hit(Child.name) /\ Write(<<conv.cache[Child.name]>>)
        /\ UNCHANGED <<call, env, args, conv, status>>
    BY <1>4 DEF RenderExprHit
  <2>2. conv.cache[Child.name] \in Pieces
    BY <2>1 DEF Hit, Pieces, Groups
  <2>3. <<conv.cache[Child.name]>> \in Seq(Pieces)
    BY <2>2
  <2> QED
    BY <2>1, <2>3, WriteStep DEF IInv, DataOK
<1>5. CASE RenderExprMiss
  BY <1>5, ExprMissStep
<1>6. CASE RenderRawExpr
  BY <1>6, ChildTyped, WriteStep DEF RenderRawExpr
<1>7. CASE EvalBind
  <2>1. More /\ Child.from \in DOMAIN env /\ Write(<<>>)
        /\ env' = With(env, Child.name, env[Child.from])
        /\ UNCHANGED <<call, args, conv, status>>
    BY <1>7 DEF EvalBind, Bound
  <2>2. env \in [DOMAIN env -> Values] /\ <<>> \in Seq(Pieces)
    BY <2>1, ChildTyped
  <2>3. env[Child.from] \in Values
    BY <2>1, <2>2
  <2>4. env' \in [DOMAIN env' -> Values]
    BY <2>1, <2>2, <2>3, BindTyped
  <2> QED
    BY <2>1, <2>2, <2>4, WriteStep
<1>8. CASE EvalIf
  <2>1. More /\ Child.kind \in {"if", "when"} /\ UNCHANGED <<call, env, args, conv, status>>
        /\ (Push(Frame(Child, <<>>, NoValue, {})) \/ Write(<<>>))
    BY <1>8 DEF EvalIf
  <2>2. Child \in Nodes /\ env' \in [DOMAIN env' -> Values] /\ <<>> \in Seq(Pieces)
    BY <2>1, ChildTyped
  <2>3. Frame(Child, <<>>, NoValue, {}) \in Frames(Pieces)
    BY <2>1, <2>2, FrameTyped DEF Branches
  <2> QED
    BY <2>1, <2>2, <2>3, WriteStep, PushStep
<1>9. CASE EvalGroup
  <2>1. More /\ Child.kind \in {"group", "otherwise"}
        /\ UNCHANGED <<call, env, args, conv, status>>
        /\ Push(Frame(Child, <<>>, NoValue, {}))
    BY <1>9 DEF EvalGroup
  <2>2. Child \in Nodes /\ env' \in [DOMAIN env' -> Values] /\ <<>> \in Seq(Pieces)
    BY <2>1, ChildTyped
  <2>3. Frame(Child, <<>>, NoValue, {}) \in Frames(Pieces)
    BY <2>1, <2>2, FrameTyped DEF Branches
  <2> QED
    BY <2>1, <2>2, <2>3, PushStep
<1>10. CASE EvalFails
  BY <1>10, FailStep DEF EvalFails
<1>11. CASE EvalForEach
  BY <1>11, ForEachStep
<1>12. CASE ForEachPanics
  BY <1>12, FailStep DEF ForEachPanics
<1>13. CASE NextItem
  BY <1>13, NextItemStep
<1>14. CASE EvalChoose
  BY <1>14, ChooseStep
<1>15. CASE ChooseOtherwise
  BY <1>15, OtherwiseStep
<1>16. CASE ChoosePanics
  BY <1>16, FailStep DEF ChoosePanics
<1>17. CASE Return
  BY <1>17, ReturnStep
<1>18. CASE Finish
  BY <1>18, QuietStep DEF Finish, IInv, DataOK
<1> QED
  BY <1>1, <1>2, <1>3, <1>4, <1>5, <1>6, <1>7, <1>8, <1>9, <1>10, <1>11, <1>12,
     <1>13, <1>14, <1>15, <1>16, <1>17, <1>18 DEF Next

LEMMA InvType == IInv => TypeOK
<1> SUFFICES ASSUME IInv PROVE TypeOK
  OBVIOUS
<1>1. Pieces \subseteq Seq(Nat)
  BY PiecesTyped DEF IInv
<1>2. Frames(Pieces) \subseteq Frames(Seq(Nat))
  BY <1>1, FramesMono
<1>3. Frames(Seq(Nat)) \subseteq [node : Nodes, rest : Seq(Nodes), sql : Seq(Seq(Nat)),
                                  over : Values \cup {NoValue}, left : SUBSET Nat]
  BY DEF Frames
<1>4. stack \in Seq([node : Nodes, rest : Seq(Nodes), sql : Seq(Seq(Nat)),
                     over : Values \cup {NoValue}, left : SUBSET Nat])
  BY <1>2, <1>3, SeqMono DEF IInv
<1> QED
  BY <1>4 DEF IInv, DataOK, TypeOK

LEMMA InvNumbered == IInv => Numbered
<1> SUFFICES ASSUME IInv, Reusable PROVE Numbered
  BY DEF Numbered
<1>1. ASSUME NEW i \in DOMAIN stack
      PROVE  Range(stack[i].sql) \subseteq Groups \cup {Text}
  <2>1. stack[i] \in Frames(Pieces)
    BY DEF IInv
  <2>2. stack[i].sql \in Seq(Groups \cup {Text})
    BY <2>1 DEF Frames, Pieces
  <2> QED
    BY <2>2 DEF Range
<1> QED
  BY <1>1 DEF IInv, Agree, Numbered

LEMMA Invariant == Spec => []IInv
BY InitOK, NextOK, PTL DEF Spec

(* Rendering keeps its state well typed, for any statement and parameters.  *)
(* The code: Eval of every node (src/ast).                                  *)
THEOREM TypeCorrect == Spec => []TypeOK
BY Invariant, InvType, PTL

(* For any statement, parameters and sequence of queries: with a converter  *)
(* that numbers placeholders every argument belongs to exactly one name and *)
(* no placeholder is written that has no argument.                          *)
(* The code: ExprToken.Render (src/ast/Token.go) and the converters.        *)
THEOREM NumberedAlways == Spec => []Numbered
BY Invariant, InvNumbered, PTL
===============================================================================
