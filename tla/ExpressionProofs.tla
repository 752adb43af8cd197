--------------------------- MODULE ExpressionProofs ---------------------------
(***************************************************************************)
(* Proofs about Expression, for any expressions and any parameters.        *)
(*                                                                         *)
(* The BinaryNodes are numbered in the order in which they are made, so    *)
(* that the operands of a node have smaller numbers: what is said of all   *)
(* of them follows by induction on the number, which is an appeal to the   *)
(* least number that it is not true of.                                    *)
(***************************************************************************)
EXTENDS Expression, WellFoundedInduction, TLAPS

LEMMA Least ==
  ASSUME NEW S \in SUBSET Nat, S # {}
  PROVE  \E m \in S : \A k \in S : m <= k
<1> DEFINE R == {p \in Nat \X Nat : p[1] < p[2]}
<1>1. IsWellFoundedOn(R, Nat)
  BY NatLessThanWellFounded DEF OpToRel
<1>2. \A x, y \in Nat : <<y, x>> \notin R => x <= y
  OBVIOUS
<1> HIDE DEF R
<1>3. PICK x \in S : \A y \in S : ~(<<y, x>> \in R)
  BY <1>1, WFMin
<1>4. \A y \in S : x <= y
  BY <1>2, <1>3
<1>5. QED
  BY <1>4

(* What holds of a number whenever it holds of all smaller ones holds of   *)
(* every number up to n.                                                   *)
LEMMA Induction ==
  ASSUME NEW n \in Nat, NEW S,
         \A k \in 1 .. n : (\A j \in 1 .. k - 1 : j \in S) => k \in S
  PROVE  1 .. n \subseteq S
<1>1. SUFFICES ASSUME (1 .. n) \ S # {} PROVE FALSE
  OBVIOUS
<1>2. PICK m \in (1 .. n) \ S : \A k \in (1 .. n) \ S : m <= k
  <2>1. (1 .. n) \ S \in SUBSET Nat
    OBVIOUS
  <2>2. QED
    BY <1>1, <2>1, Least
<1>3. \A j \in 1 .. m - 1 : j \in S
  BY <1>2
<1>4. QED
  BY <1>2, <1>3

-----------------------------------------------------------------------------
(* The nodes that there can be when n BinaryNodes have been made.          *)
Strings     == Tokens \cup {"&&", "||", "()", "-"}
Words       == Seq(Strings)
Operands(n) == [kind : {"leaf"}, word : Words] \cup [kind : {"binary"}, no : 1 .. n]
Nodes(n)    == Operands(n) \cup [kind : {"opt"}, op : Binary]

(* BinaryNodes whose operands have been made before them.                  *)
Grown(m) ==
  /\ DOMAIN m = 1 .. Len(m) /\ Len(m) \in Nat
  /\ \A k \in 1 .. Len(m) :
       /\ m[k].op \in Binary
       /\ m[k].left \in Operands(k - 1) /\ m[k].right \in Operands(k - 1)

(* The functions over BinaryNodes are what their definitions say.          *)
LEMMA ValuesUnfold ==
  ASSUME NEW m, Grown(m), NEW e
  PROVE  Values(m, e) = [k \in 1 .. Len(m) |-> BinaryValue(m, k, Values(m, e), e)]
<1> DEFINE n == Len(m)
           Is(f, i) == f = [k \in 1 .. i |-> BinaryValue(m, k, f, e)]
           S == {i \in 0 .. n : \E f : Is(f, i)}
<1>1. n \in Nat
  BY DEF Grown
<1>2. 0 \in S
  <2>1. Is(<<>>, 0)
    OBVIOUS
  <2> HIDE DEF Is
  <2>2. QED
    BY <1>1, <2>1
<1>3. ASSUME NEW i \in 1 .. n, i - 1 \in S PROVE i \in S
  <2>1. PICK f : Is(f, i - 1)
    BY <1>3
  <2> DEFINE g == [k \in 1 .. i |-> IF k = i THEN BinaryValue(m, i, f, e) ELSE f[k]]
  <2>2. ASSUME NEW k \in 1 .. i PROVE BinaryValue(m, k, g, e) = BinaryValue(m, k, f, e)
    <3>1. m[k].left \in Operands(k - 1) /\ m[k].right \in Operands(k - 1)
      BY <1>1, <1>3 DEF Grown
    <3>2. \A j \in 1 .. k - 1 : g[j] = f[j]
      BY <1>1, <1>3
    <3>3. ASSUME NEW x \in Operands(k - 1) PROVE Value(x, g, e) = Value(x, f, e)
      BY <3>2 DEF Operands, Value
    <3>4. QED
      BY <3>1, <3>3 DEF BinaryValue
  <2>3. \A k \in 1 .. i : g[k] = BinaryValue(m, k, f, e)
    BY <1>1, <1>3, <2>1
  <2>4. Is(g, i)
    BY <2>2, <2>3
  <2> HIDE DEF Is, g
  <2>5. QED
    BY <1>1, <2>4
<1>4. n \in S
  <2> HIDE DEF S
  <2>1. \A k \in 1 .. n : (\A j \in 1 .. k - 1 : j \in S) => k \in S
    BY <1>1, <1>2, <1>3
  <2>2. 1 .. n \subseteq S
    BY <1>1, <2>1, Induction
  <2>3. QED
    BY <1>1, <1>2, <2>2
<1>5. PICK f : Is(f, n)
  BY <1>4
<1>6. DOMAIN m = 1 .. n
  BY DEF Grown
<1>7. QED
  BY <1>5, <1>6 DEF Values

LEMMA KindsUnfold ==
  ASSUME NEW m, Grown(m), NEW e
  PROVE  Kinds(m, e) = [k \in 1 .. Len(m) |-> BinaryKind(m, k, Kinds(m, e), e)]
<1> DEFINE n == Len(m)
           Is(f, i) == f = [k \in 1 .. i |-> BinaryKind(m, k, f, e)]
           S == {i \in 0 .. n : \E f : Is(f, i)}
<1>1. n \in Nat
  BY DEF Grown
<1>2. 0 \in S
  <2>1. Is(<<>>, 0)
    OBVIOUS
  <2> HIDE DEF Is
  <2>2. QED
    BY <1>1, <2>1
<1>3. ASSUME NEW i \in 1 .. n, i - 1 \in S PROVE i \in S
  <2>1. PICK f : Is(f, i - 1)
    BY <1>3
  <2> DEFINE g == [k \in 1 .. i |-> IF k = i THEN BinaryKind(m, i, f, e) ELSE f[k]]
  <2>2. ASSUME NEW k \in 1 .. i PROVE BinaryKind(m, k, g, e) = BinaryKind(m, k, f, e)
    <3>1. m[k].left \in Operands(k - 1) /\ m[k].right \in Operands(k - 1)
      BY <1>1, <1>3 DEF Grown
    <3>2. \A j \in 1 .. k - 1 : g[j] = f[j]
      BY <1>1, <1>3
    <3>3. ASSUME NEW x \in Operands(k - 1) PROVE KindOf(x, g, e) = KindOf(x, f, e)
      BY <3>2 DEF Operands, KindOf
    <3>4. QED
      BY <3>1, <3>3 DEF BinaryKind
  <2>3. \A k \in 1 .. i : g[k] = BinaryKind(m, k, f, e)
    BY <1>1, <1>3, <2>1
  <2>4. Is(g, i)
    BY <2>2, <2>3
  <2> HIDE DEF Is, g
  <2>5. QED
    BY <1>1, <2>4
<1>4. n \in S
  <2> HIDE DEF S
  <2>1. \A k \in 1 .. n : (\A j \in 1 .. k - 1 : j \in S) => k \in S
    BY <1>1, <1>2, <1>3
  <2>2. 1 .. n \subseteq S
    BY <1>1, <2>1, Induction
  <2>3. QED
    BY <1>1, <1>2, <2>2
<1>5. PICK f : Is(f, n)
  BY <1>4
<1>6. DOMAIN m = 1 .. n
  BY DEF Grown
<1>7. QED
  BY <1>5, <1>6 DEF Kinds

LEMMA PartsUnfold ==
  ASSUME NEW m, Grown(m)
  PROVE  Parts(m) = [k \in 1 .. Len(m) |-> Below(m, k, Parts(m))]
<1> DEFINE n == Len(m)
           Is(f, i) == f = [k \in 1 .. i |-> Below(m, k, f)]
           S == {i \in 0 .. n : \E f : Is(f, i)}
<1>1. n \in Nat
  BY DEF Grown
<1>2. 0 \in S
  <2>1. Is(<<>>, 0)
    OBVIOUS
  <2> HIDE DEF Is
  <2>2. QED
    BY <1>1, <2>1
<1>3. ASSUME NEW i \in 1 .. n, i - 1 \in S PROVE i \in S
  <2>1. PICK f : Is(f, i - 1)
    BY <1>3
  <2> DEFINE g == [k \in 1 .. i |-> IF k = i THEN Below(m, i, f) ELSE f[k]]
  <2>2. ASSUME NEW k \in 1 .. i PROVE Below(m, k, g) = Below(m, k, f)
    <3>1. m[k].left \in Operands(k - 1) /\ m[k].right \in Operands(k - 1)
      BY <1>1, <1>3 DEF Grown
    <3>2. \A j \in 1 .. k - 1 : g[j] = f[j]
      BY <1>1, <1>3
    <3>3. ASSUME NEW x \in Operands(k - 1) PROVE Within(x, g) = Within(x, f)
      BY <3>2 DEF Operands, Within
    <3>4. QED
      BY <3>1, <3>3 DEF Below
  <2>3. \A k \in 1 .. i : g[k] = Below(m, k, f)
    BY <1>1, <1>3, <2>1
  <2>4. Is(g, i)
    BY <2>2, <2>3
  <2> HIDE DEF Is, g
  <2>5. QED
    BY <1>1, <2>4
<1>4. n \in S
  <2> HIDE DEF S
  <2>1. \A k \in 1 .. n : (\A j \in 1 .. k - 1 : j \in S) => k \in S
    BY <1>1, <1>2, <1>3
  <2>2. 1 .. n \subseteq S
    BY <1>1, <2>1, Induction
  <2>3. QED
    BY <1>1, <1>2, <2>2
<1>5. PICK f : Is(f, n)
  BY <1>4
<1>6. DOMAIN m = 1 .. n
  BY DEF Grown
<1>7. QED
  BY <1>5, <1>6 DEF Parts

-----------------------------------------------------------------------------
(* Evaluation.                                                             *)
Promised == {"num", "bool", "str"}

LEMMA FittingKinds ==
  ASSUME NEW op, NEW a, NEW b
  PROVE  /\ Fitting(op, a, b) \in Promised \cup {"none"}
         /\ Fitting(op, a, b) \in Promised => {a, b} \cap {"none", "error", "panic"} = {}
BY DEF Fitting, Promised

LEMMA SameIsBool ==
  ASSUME NEW a, NEW b,
         "nil" \in {a.kind, b.kind} \/ (a.kind = b.kind /\ a.kind \in Promised)
  PROVE  Same(a, b).kind = "bool"
BY DEF Same, Bool, OnNumbers, Promised

LEMMA NumIsNum == \A p, q : Num(p, q).kind = "num"
BY DEF Num

(* One operator on operands that fit it.                                   *)
LEMMA ApplyFitting ==
  ASSUME NEW op \in Binary, NEW a, NEW b, Fitting(op, a.kind, b.kind) \in Promised
  PROVE  \/ Apply(op, a, b).kind = Fitting(op, a.kind, b.kind)
         \/ Apply(op, a, b).kind = "error" /\ op = "/" /\ b.p = 0
<1> DEFINE k == Fitting(op, a.kind, b.kind)
<1>1. CASE op \in {"==", "!="}
  <2>1. k = "bool" /\ Same(a, b).kind = "bool"
    BY <1>1, SameIsBool DEF Fitting, Promised
  <2>2. Not(Same(a, b)).kind = "bool"
    BY <2>1 DEF Not, Fails, Bool
  <2>3. QED
    BY <1>1, <2>1, <2>2 DEF Apply
<1>2. CASE op \in {"&&", "||"}
  <2>1. k = "bool" /\ a.kind = "bool" /\ b.kind = "bool"
    BY <1>2 DEF Fitting, Promised
  <2>2. QED
    BY <1>2, <2>1 DEF Apply, Bool
<1>3. CASE op = "+" /\ a.kind = "str"
  <2>1. k = "str" /\ b.kind = "str"
    BY <1>3 DEF Fitting, Promised
  <2>2. QED
    BY <1>3, <2>1 DEF Apply, Text
<1>4. CASE op \in {"+", "-", "*", "/"} /\ ~(op = "+" /\ a.kind = "str")
  <2>1. k = "num" /\ a.kind = "num" /\ b.kind = "num"
    BY <1>4 DEF Fitting, Promised
  <2>2. QED
    BY <1>4, <2>1, NumIsNum DEF Apply, Error
<1>5. CASE op \in {"<", "<=", ">", ">="}
  <2>1. k = "bool" /\ a.kind = "num" /\ b.kind = "num"
    BY <1>5 DEF Fitting, Promised
  <2>2. QED
    BY <1>5, <2>1 DEF Apply, Bool
<1>6. QED
  BY <1>1, <1>2, <1>3, <1>4, <1>5 DEF Binary, Priority

(* A division by zero below an operand.                                    *)
Divides(m, e, x) ==
  \E j \in Within(x, Parts(m)) :
    m[j].op = "/" /\ Value(m[j].right, Values(m, e), e).p = 0

(* The value of an operand is what it promises, or there is a division.    *)
AsPromised(m, e, x) ==
  LET k == KindOf(x, Kinds(m, e), e)
      v == Value(x, Values(m, e), e)
  IN  k \in Promised => v.kind = k \/ (v.kind = "error" /\ Divides(m, e, x))

Numbered(k) == [kind |-> "binary", no |-> k]

LEMMA NumberedAsPromised ==
  ASSUME NEW m, Grown(m), NEW e, NEW k \in 1 .. Len(m),
         \A j \in 1 .. k - 1 : AsPromised(m, e, Numbered(j))
  PROVE  AsPromised(m, e, Numbered(k))
<1> DEFINE V == Values(m, e)
           K == Kinds(m, e)
           P == Parts(m)
           l == m[k].left
           r == m[k].right
           a == Value(l, V, e)
           b == Value(r, V, e)
           x == Numbered(k)
<1>1. /\ k \in Nat /\ k \in 1 .. Len(m) /\ m[k].op \in Binary
      /\ l \in Operands(k - 1) /\ r \in Operands(k - 1)
  BY DEF Grown
<1>2. V[k] = BinaryValue(m, k, V, e) /\ K[k] = BinaryKind(m, k, K, e) /\ P[k] = Below(m, k, P)
  BY <1>1, ValuesUnfold, KindsUnfold, PartsUnfold
<1>3. KindOf(x, K, e) = K[k] /\ Value(x, V, e) = V[k] /\ Within(x, P) = P[k]
  BY DEF KindOf, Value, Within, Numbered
<1>4. SUFFICES ASSUME K[k] \in Promised
               PROVE  V[k].kind = K[k] \/ (V[k].kind = "error" /\ Divides(m, e, x))
  BY <1>3 DEF AsPromised
<1> DEFINE ka == KindOf(l, K, e)
           kb == KindOf(r, K, e)
<1>5. /\ K[k] = Fitting(m[k].op, ka, kb)
      /\ {ka, kb} \cap {"none", "error", "panic"} = {}
  BY <1>2, <1>4, FittingKinds DEF BinaryKind
(* An operand that promises something keeps it, or there is a division.    *)
<1>6. ASSUME NEW y \in Operands(k - 1), KindOf(y, K, e) \notin {"none", "error", "panic"},
             Within(y, P) \subseteq P[k]
      PROVE  \/ Value(y, V, e).kind = KindOf(y, K, e)
             \/ Value(y, V, e).kind = "error" /\ Divides(m, e, x)
  <2>1. CASE y.kind = "leaf"
    BY <2>1 DEF KindOf, Value
  <2>2. CASE y.kind = "binary"
    <3>1. y = Numbered(y.no) /\ y.no \in 1 .. k - 1
      BY <2>2 DEF Operands, Numbered
    <3>2. KindOf(y, K, e) = BinaryKind(m, y.no, K, e)
      BY <1>1, <2>2, <3>1, KindsUnfold DEF KindOf
    <3>3. KindOf(y, K, e) \in Promised
      BY <1>6, <3>2, FittingKinds DEF BinaryKind
    <3>4. AsPromised(m, e, y)
      BY <3>1
    <3>5. Divides(m, e, y) => Divides(m, e, x)
      BY <1>3, <1>6 DEF Divides
    <3>6. QED
      BY <3>3, <3>4, <3>5 DEF AsPromised
  <2>3. QED
    BY <2>1, <2>2 DEF Operands
<1>7. Within(l, P) \subseteq P[k] /\ Within(r, P) \subseteq P[k] /\ k \in P[k]
  BY <1>2 DEF Below
<1>8. /\ a.kind = ka \/ (a.kind = "error" /\ Divides(m, e, x))
      /\ b.kind = kb \/ (b.kind = "error" /\ Divides(m, e, x))
  BY <1>1, <1>5, <1>6, <1>7
<1>9. CASE Fails(a) \/ Fails(b)
  BY <1>2, <1>5, <1>8, <1>9 DEF BinaryValue, Fails
<1>10. CASE ~Fails(a) /\ ~Fails(b)
  <2>1. a.kind = ka /\ b.kind = kb /\ V[k] = Apply(m[k].op, a, b)
    BY <1>2, <1>8, <1>10 DEF BinaryValue, Fails
  <2>2. \/ V[k].kind = K[k]
        \/ V[k].kind = "error" /\ m[k].op = "/" /\ b.p = 0
    <3>1. Fitting(m[k].op, a.kind, b.kind) \in Promised
      BY <1>4, <1>5, <2>1
    <3>2. QED
      BY <1>1, <1>5, <2>1, <3>1, ApplyFitting
  <2>3. QED
    BY <1>3, <1>7, <2>2 DEF Divides
<1>11. QED
  BY <1>9, <1>10

LEMMA AllAsPromised ==
  ASSUME NEW m, Grown(m), NEW e, NEW x \in Operands(Len(m))
  PROVE  AsPromised(m, e, x)
<1> DEFINE S == {k \in 1 .. Len(m) : AsPromised(m, e, Numbered(k))}
<1>1. \A k \in 1 .. Len(m) : (\A j \in 1 .. k - 1 : j \in S) => k \in S
  BY NumberedAsPromised
<1> HIDE DEF S
<1>2. Len(m) \in Nat /\ 1 .. Len(m) \subseteq S
  BY <1>1, Induction DEF Grown
<1>3. CASE x.kind = "leaf"
  BY <1>3 DEF AsPromised, KindOf, Value
<1>4. CASE x.kind = "binary"
  <2>1. x = Numbered(x.no) /\ x.no \in 1 .. Len(m)
    BY <1>4 DEF Operands, Numbered
  <2>2. QED
    BY <1>2, <2>1 DEF S
<1>5. QED
  BY <1>3, <1>4 DEF Operands

-----------------------------------------------------------------------------
(* The invariant.                                                          *)
Bound(n, m, i, j) ==
  n[i].kind = "opt" /\ n[j].kind = "binary" =>
    /\ Rank(m[n[j].no].op) <= Rank(n[i].op)
    /\ i < j => Rank(m[n[j].no].op) < Rank(n[i].op)

(* What has been made binds no weaker than what is left, and stronger than *)
(* the operators to its left.                                              *)
Ordered(n, m) == \A i, j \in DOMAIN n : Bound(n, m, i, j)

ScanOK == rest \in Words /\ words \in Seq(Words) /\ index \in Nat

MadeOK == Grown(made) /\ Grouped

NodesOK ==
  phase \in {"reduce", "ready", "done"} =>
    /\ nodes \in Seq(Nodes(Len(made))) /\ nodes # <<>>
    /\ ~Adjacent(nodes) /\ Ordered(nodes, made)

PhaseOK ==
  /\ phase \in {"scan", "reduce", "ready", "done", "error", "panic"}
  /\ phase = "scan" => made = <<>>
  /\ phase \in {"ready", "done"} => Opts = {}
  /\ phase = "done" => result = Value(Tree, Values(made, env), env)

IInv == ScanOK /\ MadeOK /\ NodesOK /\ PhaseOK

-----------------------------------------------------------------------------
LEMMA InitIInv == Init => IInv
<1> SUFFICES ASSUME Init PROVE IInv
  OBVIOUS
<1>1. rest \in Words
  <2>1. source \in Seq(Tokens) /\ Tokens \subseteq Strings
    BY ExpressionsAssumption DEF Init, Strings
  <2>2. \A t \in Strings : Spelled(t) \in Strings
    BY DEF Spelled, Strings
  <2>3. rest = [i \in 1 .. Len(source) |-> Spelled(source[i])] /\ Len(source) \in Nat
        /\ \A i \in 1 .. Len(source) : source[i] \in Strings
    <3>1. rest = [i \in DOMAIN source |-> Spelled(source[i])]
      BY DEF Init
    <3>2. QED
      BY <2>1, <3>1
  <2>4. QED
    BY <2>2, <2>3 DEF Words
<1>2. words \in Seq(Words) /\ index \in Nat
  <2>1. words = <<>> /\ index = 0
    BY DEF Init
  <2>2. QED
    BY <2>1
<1>3. Grown(<<>>)
  BY DEF Grown
<1>4. MadeOK
  <2>1. made = <<>>
    BY DEF Init
  <2>2. QED
    <3>1. Grown(made)
      BY <1>3, <2>1
    <3>2. Grouped
      BY <2>1 DEF Grouped
    <3>3. QED
      BY <3>1, <3>2 DEF MadeOK
<1>5. QED
  BY <1>1, <1>2, <1>4 DEF Init, IInv, ScanOK, NodesOK, PhaseOK

(* Scanning makes words of what is left, and nothing else.                 *)
LEMMA GatherStep ==
  ASSUME IInv, Scanning, NEW ws \in Seq(Words), NEW n \in Nat, Gather(ws, n)
  PROVE  IInv'
<1>1. rest \in Seq(Strings) /\ rest # <<>> /\ rest' = Tail(rest) /\ words' = ws /\ index' = n
  BY DEF IInv, ScanOK, Scanning, Gather, Words
<1>2. ScanOK'
  BY <1>1 DEF ScanOK, Words
<1>3. UNCHANGED <<phase, nodes, made, env, result>> /\ phase = "scan"
  BY DEF Gather, Scanning
<1>4. MadeOK'
  BY <1>3 DEF IInv, MadeOK, Grouped
<1>5. NodesOK' /\ PhaseOK'
  BY <1>3 DEF IInv, NodesOK, PhaseOK
<1>6. QED
  BY <1>2, <1>4, <1>5 DEF IInv

LEMMA StopStep ==
  ASSUME IInv, NEW how \in {"panic", "error"}, Stop(how)
  PROVE  IInv'
<1>1. UNCHANGED <<rest, words, index, nodes, made, env, result>> /\ phase' = how
  BY DEF Stop
<1>2. MadeOK'
  BY <1>1 DEF IInv, MadeOK, Grouped
<1>3. QED
  BY <1>1, <1>2 DEF IInv, ScanOK, NodesOK, PhaseOK

LEMMA WordExtended ==
  ASSUME NEW ws \in Seq(Words), ws # <<>>, NEW t \in Strings
  PROVE  Extended(ws, t) \in Seq(Words)
<1>1. Len(ws) \in 1 .. Len(ws) /\ ws[Len(ws)] \in Words
  OBVIOUS
<1>2. Append(ws[Len(ws)], t) \in Words
  BY <1>1 DEF Words
<1>3. QED
  BY <1>1, <1>2 DEF Extended

LEMMA ScanStep ==
  ASSUME IInv,
         \/ ScanCall \/ ScanPath \/ ScanNegative \/ ScanWord
         \/ ScanParenPanics \/ ScanPathPanics \/ ScanNumberPanics
  PROVE  IInv'
<1>1. words \in Seq(Words) /\ rest \in Seq(Strings) /\ index \in Nat
  BY DEF IInv, ScanOK, Words
<1>2. Scanning => Token \in Strings
  BY <1>1 DEF Scanning, Token
<1>3. CASE ScanCall
  <2>1. Scanning /\ Gather(Extended(Front(words), "()"), IF index > 0 THEN index - 1 ELSE 0)
    BY <1>3 DEF ScanCall
  <2>2. Len(words) >= 2
    BY <1>3 DEF ScanCall, IsCall
  <2>3. Front(words) = [i \in 1 .. Len(words) - 1 |-> words[i]]
    BY <1>1, <2>2 DEF Front
  <2>4. Front(words) \in Seq(Words) /\ Front(words) # <<>>
    <3>1. Len(words) - 1 \in Nat /\ 1 \in 1 .. Len(words) - 1
          /\ \A i \in 1 .. Len(words) - 1 : words[i] \in Words
      BY <1>1, <2>2
    <3>2. DOMAIN Front(words) # {}
      BY <2>3, <3>1
    <3>3. QED
      BY <2>3, <3>1, <3>2
  <2>5. Extended(Front(words), "()") \in Seq(Words)
    <3>1. "()" \in Strings
      BY DEF Strings
    <3>2. QED
      BY <2>4, <3>1, WordExtended
  <2>6. QED
    BY <1>1, <2>1, <2>5, GatherStep
<1>4. CASE ScanPath
  BY <1>1, <1>2, <1>4, WordExtended, GatherStep DEF ScanPath
<1>5. CASE ScanNegative
  <2>1. Scanning /\ Token \in Strings
    BY <1>2, <1>5 DEF ScanNegative, Plain
  <2>2. <<"-", Token>> \in Words
    <3>1. "-" \in Strings
      BY DEF Strings
    <3>2. QED
      BY <2>1, <3>1 DEF Words
  <2>3. CASE Gather(<<<<"-", Token>>>>, 1)
    <3>1. <<<<"-", Token>>>> \in Seq(Words)
      BY <2>2
    <3>2. QED
      BY <2>1, <2>3, <3>1, GatherStep
  <2>4. CASE /\ index <= Len(words) /\ AfterOperator
             /\ Gather(Append(SubSeq(words, 1, 2), <<"-", Token>>), index)
    <3>1. SubSeq(words, 1, 2) \in Seq(Words)
      BY <1>1, <2>4 DEF AfterOperator
    <3>2. Append(SubSeq(words, 1, 2), <<"-", Token>>) \in Seq(Words)
      BY <2>2, <3>1
    <3>3. QED
      BY <1>1, <2>1, <2>4, <3>2, GatherStep
  <2>5. QED
    BY <1>5, <2>3, <2>4 DEF ScanNegative
<1>6. CASE ScanWord
  <2>1. Scanning /\ Gather(Append(words, <<Token>>), index + 1)
    BY <1>6 DEF ScanWord, Plain
  <2>2. <<Token>> \in Words
    BY <1>2, <2>1 DEF Words
  <2>3. Append(words, <<Token>>) \in Seq(Words) /\ index + 1 \in Nat
    BY <1>1, <2>2
  <2>4. QED
    BY <2>1, <2>3, GatherStep
<1>7. CASE ScanParenPanics \/ ScanPathPanics \/ ScanNumberPanics
  BY <1>7, StopStep DEF ScanParenPanics, ScanPathPanics, ScanNumberPanics
<1>8. QED
  BY <1>3, <1>4, <1>5, <1>6, <1>7

-----------------------------------------------------------------------------
(* Parsing.                                                                *)
LEMMA RankOf ==
  ASSUME NEW v \in Binary
  PROVE  Rank(v) \in 1 .. 12 /\ Priority[Rank(v)] = v
<1>1. DOMAIN Priority = 1 .. 12
  BY DEF Priority
<1>2. \E i \in DOMAIN Priority : Priority[i] = v
  BY DEF Binary
<1>3. QED
  BY <1>1, <1>2 DEF Rank

LEMMA RankIsNat == ASSUME NEW v \in Binary PROVE Rank(v) \in Nat
<1>1. Rank(v) \in 1 .. 12
  BY RankOf
<1> DEFINE k == Rank(v)
<1> HIDE DEF k
<1>2. k \in 1 .. 12 => k \in Nat
  OBVIOUS
<1>3. QED
  BY <1>1, <1>2 DEF k

LEMMA OptsHaveOps ==
  ASSUME NEW N \in Nat, nodes \in Seq(Nodes(N)), NEW i \in Opts
  PROVE  i \in 1 .. Len(nodes) /\ nodes[i].kind = "opt" /\ nodes[i].op \in Binary
BY DEF Opts, IsOpt, Nodes, Operands

LEMMA StrongestIs ==
  ASSUME NEW N \in Nat, nodes \in Seq(Nodes(N)), Opts # {}
  PROVE  /\ Strongest \in Opts
         /\ \A j \in Opts : \/ Rank(nodes[Strongest].op) < Rank(nodes[j].op)
                            \/ nodes[Strongest].op = nodes[j].op /\ Strongest <= j
<1> DEFINE Ranks == {r \in Nat : \E i \in Opts : r = Rank(nodes[i].op)}
<1>1. \A i \in Opts : i \in Nat /\ nodes[i].op \in Binary /\ Rank(nodes[i].op) \in Ranks
  BY OptsHaveOps, RankOf
<1>2. Ranks \in SUBSET Nat /\ Ranks # {}
  BY <1>1
<1>3. PICK r \in Ranks : \A q \in Ranks : r <= q
  BY <1>2, Least
<1> DEFINE First == {i \in Opts : Rank(nodes[i].op) = r}
<1>4. First \in SUBSET Nat /\ First # {}
  BY <1>1, <1>3
<1>5. PICK i \in First : \A j \in First : i <= j
  BY <1>4, Least
<1>6. ASSUME NEW j \in Opts
      PROVE  Rank(nodes[i].op) < Rank(nodes[j].op) \/ (nodes[i].op = nodes[j].op /\ i <= j)
  <2>1. CASE Rank(nodes[j].op) = r
    <3>1. nodes[i].op = nodes[j].op
      BY <1>1, <1>5, <2>1, RankOf
    <3>2. QED
      BY <1>5, <2>1, <3>1
  <2>2. CASE Rank(nodes[j].op) # r
    <3>1. r \in Ranks /\ Rank(nodes[j].op) \in Ranks /\ Ranks \subseteq Nat
      BY <1>1
    <3>2. Rank(nodes[i].op) = r
      BY <1>5
    <3>3. r <= Rank(nodes[j].op) /\ r \in Nat /\ Rank(nodes[j].op) \in Nat
      BY <1>3, <3>1
    <3>4. r < Rank(nodes[j].op)
      BY <2>2, <3>3
    <3>5. QED
      BY <3>2, <3>4
  <2>3. QED
    BY <2>1, <2>2
<1>7. i \in Opts
  BY <1>5
<1>8. QED
  BY <1>6, <1>7 DEF Strongest

LEMMA NodeKinds ==
  ASSUME NEW w, w \in Words
  PROVE  NodeOf(w) \in Nodes(0) /\ NodeOf(w).kind # "binary"
BY DEF NodeOf, Nodes, Operands

LEMMA ParseStep == ASSUME IInv, ParseNodes PROVE IInv'
<1> DEFINE ns == [i \in DOMAIN words |-> NodeOf(words[i])]
<1>1. /\ UNCHANGED <<rest, words, index, made, env, result>> /\ nodes' = ns
      /\ made = <<>> /\ phase' \in {"error", "reduce"}
      /\ phase' = "reduce" => ~Adjacent(ns) /\ ns # <<>>
  BY DEF ParseNodes, IInv, PhaseOK
<1>2. ns \in Seq(Nodes(0)) /\ \A i \in DOMAIN ns : ns[i].kind # "binary"
  <2>1. words \in Seq(Words)
    BY DEF IInv, ScanOK
  <2>2. \A i \in 1 .. Len(words) : ns[i] \in Nodes(0) /\ ns[i].kind # "binary"
    BY <2>1, NodeKinds
  <2>3. DOMAIN ns = 1 .. Len(words) /\ Len(words) \in Nat
    BY <2>1
  <2>4. QED
    BY <2>2, <2>3
<1> HIDE DEF ns
<1>3. Len(made') = 0
  BY <1>1
<1>4. NodesOK'
  BY <1>1, <1>2, <1>3 DEF NodesOK, Ordered, Bound
<1>5. MadeOK'
  BY <1>1 DEF IInv, MadeOK, Grouped
<1>6. ScanOK' /\ PhaseOK'
  BY <1>1 DEF IInv, ScanOK, PhaseOK
<1>7. QED
  BY <1>4, <1>5, <1>6 DEF IInv

(* The strongest operator becomes a node of its neighbours.                *)
LEMMA ReduceStep == ASSUME IInv, Reduce PROVE IInv'
<1> DEFINE i == Strongest
           n == Len(nodes)
           N == Len(made)
           x == [kind |-> "binary", no |-> N + 1]
           b == [op |-> nodes[i].op, left |-> nodes[i - 1], right |-> nodes[i + 1]]
<1>1. /\ phase = "reduce" /\ Opts # {} /\ i \in 2 .. n - 1
      /\ made' = Append(made, b) /\ nodes' = Around(i, x)
      /\ UNCHANGED <<source, phase, rest, words, index, env, result>>
  BY DEF Reduce
<1>2. /\ nodes \in Seq(Nodes(N)) /\ ~Adjacent(nodes) /\ Ordered(nodes, made)
      /\ Grown(made) /\ N \in Nat /\ Grouped
  BY <1>1 DEF IInv, NodesOK, MadeOK, Grown
<1>3. n \in Nat /\ DOMAIN nodes = 1 .. n /\ \A j \in 1 .. n : nodes[j] \in Nodes(N)
  BY <1>2
<1>4. /\ i \in Opts
      /\ \A j \in Opts : \/ Rank(nodes[i].op) < Rank(nodes[j].op)
                         \/ nodes[i].op = nodes[j].op /\ i <= j
  BY <1>1, <1>2, StrongestIs
<1>5. /\ i \in Nat /\ i - 1 \in 1 .. n /\ i + 1 \in 1 .. n /\ i \in 1 .. n
      /\ nodes[i].kind = "opt" /\ nodes[i].op \in Binary
  BY <1>1, <1>2, <1>3, <1>4, OptsHaveOps
<1> HIDE DEF i
<1>6. nodes[i - 1].kind # "opt" /\ nodes[i + 1].kind # "opt"
  <2>1. i - 1 \in 1 .. n - 1 /\ i \in 1 .. n - 1
    BY <1>1, <1>5
  <2>2. QED
    BY <1>2, <1>5, <2>1 DEF Adjacent, IsOpt
<1>7. nodes[i - 1] \in Operands(N) /\ nodes[i + 1] \in Operands(N)
  BY <1>3, <1>5, <1>6 DEF Nodes
<1>8. /\ DOMAIN made' = 1 .. N + 1 /\ Len(made') = N + 1
      /\ \A k \in 1 .. N : made'[k] = made[k]
      /\ made'[N + 1] = b
  BY <1>1, <1>2 DEF Grown
<1>9. Grown(made')
  BY <1>2, <1>5, <1>7, <1>8 DEF Grown
<1>10. Grouped'
  <2> SUFFICES ASSUME NEW k \in 1 .. N + 1
      PROVE  LET l == made'[k].left
                 r == made'[k].right
             IN  /\ {l.kind, r.kind} \subseteq {"leaf", "binary"}
                 /\ l.kind = "binary" => Rank(made'[l.no].op) <= Rank(made'[k].op)
                 /\ r.kind = "binary" => Rank(made'[r.no].op) < Rank(made'[k].op)
    BY <1>8 DEF Grouped
  <2>1. CASE k \in 1 .. N
    <3>1. made[k].left \in Operands(k - 1) /\ made[k].right \in Operands(k - 1)
          /\ DOMAIN made = 1 .. N
      BY <1>2, <2>1 DEF Grown
    <3>2. ASSUME NEW y \in Operands(k - 1), y.kind = "binary" PROVE made'[y.no] = made[y.no]
      <4>1. y.no \in 1 .. k - 1
        BY <3>2 DEF Operands
      <4>2. y.no \in 1 .. N
        BY <1>2, <2>1, <4>1
      <4>3. QED
        BY <1>8, <4>2
    <3>3. QED
      BY <1>2, <1>8, <2>1, <3>1, <3>2 DEF Grouped
  <2>2. CASE k = N + 1
    <3>1. \A y \in Operands(N) : y.kind = "binary" => made'[y.no] = made[y.no]
      BY <1>2, <1>8 DEF Operands
    <3>2. Bound(nodes, made, i, i - 1) /\ Bound(nodes, made, i, i + 1)
      BY <1>2, <1>3, <1>5 DEF Ordered
    <3>3. \A y \in Operands(N) : y.kind \in {"leaf", "binary"}
      BY DEF Operands
    <3>4. i < i + 1
      BY <1>5
    <3>5. QED
      BY <1>5, <1>7, <1>8, <2>2, <3>1, <3>2, <3>3, <3>4 DEF Bound
  <2>3. QED
    BY <1>2, <2>1, <2>2
(* Where a node comes from.                                                *)
<1> DEFINE From(j) == IF j < i - 1 THEN j ELSE j + 2
<1>11. /\ DOMAIN nodes' = 1 .. n - 2 /\ n - 2 \in Nat /\ n - 2 # 0
       /\ nodes'[i - 1] = x /\ i - 1 \in 1 .. n - 2
       /\ \A j \in 1 .. n - 2 : j # i - 1 => From(j) \in 1 .. n /\ nodes'[j] = nodes[From(j)]
  <2>1. n - 2 \in Nat /\ n - 2 # 0 /\ i - 1 \in 1 .. n - 2
    BY <1>1, <1>3, <1>5
  <2>2. nodes' = [j \in 1 .. n - 2 |->
                    IF j < i - 1 THEN nodes[j] ELSE IF j = i - 1 THEN x ELSE nodes[j + 2]]
    BY <1>1 DEF Around
  <2>3. ASSUME NEW j \in 1 .. n - 2, j # i - 1
        PROVE  From(j) \in 1 .. n /\ nodes'[j] = nodes[From(j)]
    BY <1>3, <1>5, <2>2, <2>3
  <2>4. QED
    BY <1>5, <2>1, <2>2, <2>3
<1>12. nodes' \in Seq(Nodes(N + 1)) /\ nodes' # <<>> /\ Len(nodes') = n - 2
  <2>1. Nodes(N) \subseteq Nodes(N + 1) /\ x \in Nodes(N + 1)
    BY <1>2 DEF Nodes, Operands
  <2>2. \A j \in 1 .. n - 2 : nodes'[j] \in Nodes(N + 1)
    BY <1>3, <1>11, <2>1
  <2>3. nodes' = [j \in 1 .. n - 2 |-> nodes'[j]]
    BY <1>1 DEF Around
  <2>4. nodes' \in Seq(Nodes(N + 1)) /\ Len(nodes') = n - 2
    BY <1>11, <2>2, <2>3
  <2>5. QED
    BY <1>11, <2>4
<1>13. ~Adjacent(nodes')
  <2> SUFFICES ASSUME NEW j \in 1 .. n - 3, nodes'[j].kind = "opt", nodes'[j + 1].kind = "opt"
               PROVE  FALSE
    BY <1>12 DEF Adjacent, IsOpt
  <2>1. j \in 1 .. n - 2 /\ j + 1 \in 1 .. n - 2 /\ j # i - 1 /\ j + 1 # i - 1
    BY <1>3, <1>11
  <2>2. From(j + 1) = From(j) + 1 /\ From(j) \in 1 .. n - 1
    BY <1>3, <1>5, <1>11, <2>1
  <2>3. nodes[From(j)].kind = "opt" /\ nodes[From(j) + 1].kind = "opt"
    BY <1>11, <2>1, <2>2
  <2>4. QED
    BY <1>2, <2>2, <2>3 DEF Adjacent, IsOpt
<1>14. Ordered(nodes', made')
  <2> SUFFICES ASSUME NEW j \in 1 .. n - 2, NEW k \in 1 .. n - 2,
                      nodes'[j].kind = "opt", nodes'[k].kind = "binary"
               PROVE  /\ Rank(made'[nodes'[k].no].op) <= Rank(nodes'[j].op)
                      /\ j < k => Rank(made'[nodes'[k].no].op) < Rank(nodes'[j].op)
    BY <1>11 DEF Ordered, Bound
  <2>1. j # i - 1 /\ From(j) \in 1 .. n /\ nodes'[j] = nodes[From(j)] /\ From(j) \in Opts
    BY <1>3, <1>11 DEF Opts, IsOpt
  <2>2. CASE k = i - 1
    <3>1. made'[nodes'[k].no].op = nodes[i].op
      BY <1>8, <1>11, <2>2
    <3>2. Rank(nodes[i].op) \in Nat
      BY <1>5, RankIsNat
    <3>3. CASE Rank(nodes[i].op) < Rank(nodes[From(j)].op)
      <4>1. nodes[From(j)].op \in Binary
        BY <1>2, <2>1, OptsHaveOps
      <4>2. Rank(nodes[From(j)].op) \in Nat
        BY <4>1, RankIsNat
      <4>3. Rank(nodes[i].op) <= Rank(nodes[From(j)].op)
        BY <3>2, <3>3, <4>2
      <4>4. QED
        BY <2>1, <3>1, <3>3, <4>3
    <3>4. CASE nodes[i].op = nodes[From(j)].op /\ i <= From(j)
      <4>1. ~(j < k)
        BY <1>5, <2>2, <3>4
      <4>2. QED
        BY <2>1, <3>1, <3>2, <3>4, <4>1
    <3>5. QED
      BY <1>4, <2>1, <3>3, <3>4
  <2>3. CASE k # i - 1
    <3>1. From(k) \in 1 .. n /\ nodes'[k] = nodes[From(k)]
      BY <1>11, <2>3
    <3>2. nodes[From(k)].no \in 1 .. N
      BY <1>3, <3>1 DEF Nodes, Operands
    <3>3. Bound(nodes, made, From(j), From(k))
      BY <1>2, <1>3, <2>1, <3>1 DEF Ordered
    <3>4. j < k => From(j) < From(k)
      BY <1>5, <2>1
    <3>5. QED
      BY <1>8, <2>1, <3>1, <3>2, <3>3, <3>4 DEF Bound
  <2>4. QED
    BY <2>2, <2>3
<1>15. NodesOK'
  BY <1>8, <1>12, <1>13, <1>14 DEF NodesOK
<1>16. ScanOK' /\ PhaseOK'
  BY <1>1 DEF IInv, ScanOK, PhaseOK
<1>17. QED
  BY <1>9, <1>10, <1>15, <1>16 DEF IInv, MadeOK

LEMMA CompiledStep == ASSUME IInv, Compiled PROVE IInv'
<1>1. /\ UNCHANGED <<rest, words, index, nodes, made, env, result>>
      /\ phase = "reduce" /\ phase' = "ready" /\ Opts = {}
  BY DEF Compiled, Stop
<1>2. MadeOK'
  BY <1>1 DEF IInv, MadeOK, Grouped
<1>3. Opts' = {}
  BY <1>1 DEF Opts, IsOpt
<1>4. QED
  BY <1>1, <1>2, <1>3 DEF IInv, ScanOK, NodesOK, PhaseOK

LEMMA EvalStep == ASSUME IInv, Eval PROVE IInv'
<1>1. /\ UNCHANGED <<rest, words, index, nodes, made>>
      /\ phase = "ready" /\ phase' = "done"
      /\ result' = Value(Tree, Values(made, env'), env')
  BY DEF Eval
<1>2. MadeOK'
  BY <1>1 DEF IInv, MadeOK, Grouped
<1>3. Opts' = {}
  BY <1>1 DEF IInv, PhaseOK, Opts, IsOpt
<1>4. Tree' = Tree
  BY <1>1 DEF Tree
<1>5. result' = Value(Tree', Values(made', env'), env')
  BY <1>1, <1>4
<1>6. QED
  BY <1>1, <1>2, <1>3, <1>5 DEF IInv, ScanOK, NodesOK, PhaseOK

LEMMA NextIInv == IInv /\ [Next]_vars => IInv'
<1> SUFFICES ASSUME IInv, [Next]_vars PROVE IInv'
  OBVIOUS
<1>1. CASE UNCHANGED vars
  <2>1. UNCHANGED <<rest, words, index, nodes, made, env, result, phase>>
    BY <1>1 DEF vars
  <2>2. MadeOK'
    BY <2>1 DEF IInv, MadeOK, Grouped
  <2>3. UNCHANGED <<Opts, Tree>>
    BY <2>1 DEF Opts, IsOpt, Tree
  <2>4. QED
    BY <2>1, <2>2, <2>3 DEF IInv, ScanOK, NodesOK, PhaseOK
<1>2. CASE ReducePanics
  BY <1>2, StopStep DEF ReducePanics
<1>3. QED
  BY <1>1, <1>2, ScanStep, ParseStep, ReduceStep, CompiledStep, EvalStep DEF Next

-----------------------------------------------------------------------------
(* Whatever the expression, no operator becomes an operand, and a stronger *)
(* operator is inside a weaker one (GoFastExpress/parser.go:60-63,         *)
(* 109-131, 262-289).                                                      *)
THEOREM OperatorsAreGrouped == Spec => []Grouped
<1>1. IInv => Grouped
  BY DEF IInv, MadeOK
<1>2. QED
  BY <1>1, InitIInv, NextIInv, PTL DEF Spec

(* Whatever the expression and the parameters, where the operands fit      *)
(* their operators evaluation yields the kind they promise, unless it      *)
(* divides by zero (GoFastExpress/eval.go:91-130).                         *)
THEOREM FittingNeverFails == Spec => []TypedNeverFails
<1>1. IInv => TypedNeverFails
  <2> SUFFICES ASSUME IInv, phase = "done" PROVE AsPromised(made, env, Tree)
    BY DEF TypedNeverFails, AsPromised, Divides, IInv, PhaseOK, Promised
  <2>1. nodes \in Seq(Nodes(Len(made))) /\ nodes # <<>> /\ Opts = {} /\ Grown(made)
    BY DEF IInv, NodesOK, PhaseOK, MadeOK
  <2>2. 1 \in 1 .. Len(nodes) /\ DOMAIN nodes = 1 .. Len(nodes)
    BY <2>1
  <2>3. Tree \in Operands(Len(made))
    BY <2>1, <2>2 DEF Tree, Opts, IsOpt, Nodes
  <2>4. QED
    BY <2>1, <2>3, AllAsPromised
<1>2. QED
  BY <1>1, InitIInv, NextIInv, PTL DEF Spec
=============================================================================
