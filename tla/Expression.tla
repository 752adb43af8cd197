------------------------------ MODULE Expression ------------------------------
(***************************************************************************)
(* The expression engine that decides every `if` and `when` test and every *)
(* #{...}: engines/ExpressionEngineGoFastExpress.go over                   *)
(* lib/github.com/timandy/GoFastExpress, which is used nowhere else.       *)
(*                                                                         *)
(* An expression is the sequence of tokens go/scanner finds in it.  They   *)
(* are gathered into words ("a.f", "s.size()" and "-1" are words of        *)
(* several tokens), the words become nodes, and the operators, strongest   *)
(* first, take their neighbours as operands until one node is left.        *)
(***************************************************************************)
EXTENDS Integers, Sequences, SequencesExt

CONSTANTS
  Tokens,       \* what go/scanner may find
  Expressions,  \* the token sequences to compile
  Envs,         \* the parameter maps to evaluate them in
  Numerals      \* the value of each number token

ASSUME ExpressionsAssumption == Expressions \subseteq Seq(Tokens)

VARIABLES
  source,  \* the expression, as the mapper's XML has it
  phase,   \* "scan", "reduce", "ready", "done", or how it failed
  rest,    \* tokens still to be scanned
  words,   \* newResult of ParserOperators
  index,   \* index of ParserOperators, which is not always Len(words)
  last,    \* lastToken
  nodes,   \* the nodes of Parser
  made,    \* the BinaryNodes made of them so far
  env,     \* the parameters of Eval
  result   \* what Eval returned

vars == <<source, phase, rest, words, index, last, nodes, made, env, result>>

(* priorityArray: the strongest operator first.                            *)
Priority == <<"*", "/", "+", "-", "<=", "<", ">=", ">", "!=", "==", "&&", "||">>
Binary   == {Priority[i] : i \in DOMAIN Priority}
Refused  == {"=", "!", "@", "#", "$", "^", "&", "(", ")"}
(* The tokens that count as lastToken: go/scanner knows none for @, #, $.  *)
Symbols  == Binary \cup (Refused \ {"@", "#", "$"}) \cup {".", "%", "+="}

(* repleaceExpression                                                      *)
Spelled(t) == CASE t = "and" -> "&&" [] t = "or" -> "||" [] OTHER -> t

Init ==
  /\ source \in Expressions
  /\ phase = "scan"
  /\ rest = [i \in DOMAIN source |-> Spelled(source[i])]
  /\ words = <<>> /\ index = 0 /\ last = ""
  /\ nodes = <<>> /\ made = <<>> /\ env = <<>> /\ result = <<>>

-----------------------------------------------------------------------------
(* ParserOperators: one token a step.                                      *)
Scanning == phase = "scan" /\ rest # <<>>
Token    == Head(rest)
LastNow  == IF Token \in Symbols THEN Token ELSE last

Extended(ws, t) == [ws EXCEPT ![Len(ws)] = Append(@, t)]

Gather(ws, n) ==
  /\ rest' = Tail(rest) /\ last' = LastNow
  /\ words' = ws /\ index' = n
  /\ UNCHANGED <<source, phase, nodes, made, env, result>>

Stop(how) ==
  /\ phase' = how
  /\ UNCHANGED <<source, rest, words, index, last, nodes, made, env, result>>

IsCall == Len(words) >= 2 /\ Last(words) = <<"(">>

ScanCall ==
  /\ Scanning /\ Token = ")" /\ IsCall
  /\ Gather(Extended(Front(words), "()"), IF index > 0 THEN index - 1 ELSE 0)

ScanParenPanics == Scanning /\ Token = ")" /\ ~IsCall /\ Stop("panic")

OnPath == Token = "." \/ LastNow = "."

ScanPath ==
  /\ Scanning /\ Token # ")" /\ OnPath /\ words # <<>>
  /\ Gather(Extended(words, Token), index)

ScanPathPanics == Scanning /\ Token # ")" /\ OnPath /\ words = <<>> /\ Stop("panic")

Plain == Scanning /\ Token # ")" /\ ~OnPath
AsksForSign == index >= 1 /\ Token \in DOMAIN Numerals
AfterMinus == AsksForSign /\ words[index] = <<"-">>
AfterOperator == index > 2 /\ Len(words[index - 1]) = 1 /\ words[index - 1][1] \in Binary

(* newResult[index-1] is out of range once words have been forgotten.      *)
ScanNumberPanics == Plain /\ AsksForSign /\ index > Len(words) /\ Stop("panic")

(* The sign of a number.  All but the first two words are forgotten.       *)
ScanNegative ==
  /\ Plain /\ AsksForSign /\ index <= Len(words) /\ AfterMinus
  /\ \/ index = 1 /\ Gather(<<<<"-", Token>>>>, 1)
     \/ AfterOperator /\ Gather(Append(SubSeq(words, 1, 2), <<"-", Token>>), index)

ScanWord ==
  /\ Plain
  /\ AsksForSign => index <= Len(words) /\ (AfterMinus => index # 1 /\ ~AfterOperator)
  /\ Gather(Append(words, <<Token>>), index + 1)

-----------------------------------------------------------------------------
(* Parser                                                                  *)
NodeOf(w) == IF Len(w) = 1 /\ w[1] \in Binary
             THEN [kind |-> "opt", op |-> w[1]] ELSE [kind |-> "leaf", word |-> w]
IsOpt(n)  == n.kind = "opt"
Unsupported(ws) == \E i \in DOMAIN ws : Len(ws[i]) = 1 /\ ws[i][1] \in Refused

NeverAdjacent(ns) == FALSE   \* mutant: checkeNodes left out

(* checkeNodes                                                             *)
Adjacent(ns) == \E i \in 1 .. Len(ns) - 1 : IsOpt(ns[i]) /\ IsOpt(ns[i + 1])

ParseNodes ==
  LET ns == [i \in DOMAIN words |-> NodeOf(words[i])] IN
  /\ phase = "scan" /\ rest = <<>>
  /\ phase' = IF Unsupported(words) \/ Adjacent(ns) \/ ns = <<>> THEN "error" ELSE "reduce"
  /\ nodes' = ns
  /\ UNCHANGED <<source, rest, words, index, last, made, env, result>>

Opts == {i \in DOMAIN nodes : IsOpt(nodes[i])}
Rank(v) == CHOOSE i \in DOMAIN Priority : Priority[i] = v

(* mutant: the operators of a rank are taken from the right *)
LastStrongest ==
  CHOOSE i \in Opts : \A j \in Opts :
    Rank(nodes[i].op) < Rank(nodes[j].op) \/ (nodes[i].op = nodes[j].op /\ j <= i)

Strongest ==
  CHOOSE i \in Opts : \A j \in Opts :
    Rank(nodes[i].op) < Rank(nodes[j].op) \/ (nodes[i].op = nodes[j].op /\ i <= j)

(* findReplaceOpt: the new node stands where its operands and the operator *)
(* stood; nodes name a BinaryNode by its number in made.                   *)
Around(i, n) ==
  [j \in 1 .. Len(nodes) - 2 |->
     IF j < i - 1 THEN nodes[j] ELSE IF j = i - 1 THEN n ELSE nodes[j + 2]]

Reduce ==
  /\ phase = "reduce" /\ Opts # {} /\ Strongest \in 2 .. Len(nodes) - 1
  /\ LET i == Strongest IN
       /\ made' = Append(made, [op |-> nodes[i].op, left |-> nodes[i - 1], right |-> nodes[i + 1]])
       /\ nodes' = Around(i, [kind |-> "binary", no |-> Len(made) + 1])
  /\ UNCHANGED <<source, phase, rest, words, index, last, env, result>>

(* nodes[nIndex-1] or nodes[nIndex+1] is out of range.                     *)
ReducePanics ==
  phase = "reduce" /\ Opts # {} /\ Strongest \notin 2 .. Len(nodes) - 1 /\ Stop("panic")

(* Whatever follows the first node is dropped.                             *)
Compiled == phase = "reduce" /\ Opts = {} /\ Stop("ready")
Tree == nodes[1]

-----------------------------------------------------------------------------
(* Eval.  Numbers are fractions p/q, floats being exact here; an object    *)
(* stands for a struct or a pointer to one.                                *)
Nil      == [kind |-> "nil"]
Bool(b)  == [kind |-> "bool", val |-> b]
Num(p, q) == IF q > 0 THEN [kind |-> "num", p |-> p, q |-> q]
                      ELSE [kind |-> "num", p |-> 0 - p, q |-> 0 - q]
Text(s)  == [kind |-> "str", val |-> s]
Obj(f)   == [kind |-> "obj", fields |-> f]
Error    == [kind |-> "error"]
Panic    == [kind |-> "panic"]
Fails(v) == v.kind \in {"error", "panic"}

(* toNumberType panics on anything else.                                   *)
OnNumbers(a, b, v) == IF a.kind = "num" /\ b.kind = "num" THEN v ELSE Panic
(* mutant: nil is converted like any other operand *)
SameNoNil(a, b) ==
  IF a.kind = b.kind /\ a.kind \in {"bool", "str"} THEN Bool(a.val = b.val)
  ELSE OnNumbers(a, b, Bool(TRUE))

Same(a, b) ==
  IF a.kind = "nil" \/ b.kind = "nil" THEN Bool(a.kind = b.kind)
  ELSE IF a.kind = b.kind /\ a.kind \in {"bool", "str"} THEN Bool(a.val = b.val)
  ELSE IF {a.kind, b.kind} = {"obj", "str"} THEN Bool(FALSE)
  ELSE OnNumbers(a, b, Bool(a.p * b.q = b.p * a.q))

Not(v) == IF Fails(v) THEN v ELSE Bool(~v.val)

Apply(op, a, b) ==
  CASE op = "==" -> Same(a, b)
    [] op = "!=" -> Not(Same(a, b))
    [] op \notin {"==", "!="} /\ (a.kind = "nil" \/ b.kind = "nil") -> Error
    [] op \in {"&&", "||"} /\ a.kind # "nil" /\ b.kind # "nil" ->
         IF a.kind # "bool" \/ b.kind # "bool" THEN Panic
         ELSE Bool(IF op = "&&" THEN a.val /\ b.val ELSE a.val \/ b.val)
    [] op = "+" /\ a.kind = "str" /\ b.kind # "nil" ->
         IF b.kind = "str" THEN Text(a.val \o b.val) ELSE Panic
    [] OTHER ->
         IF a.kind # "num" \/ b.kind # "num" THEN Panic
         ELSE CASE op = "+" -> Num(a.p * b.q + b.p * a.q, a.q * b.q)
                [] op = "-" -> Num(a.p * b.q - b.p * a.q, a.q * b.q)
                [] op = "*" -> Num(a.p * b.p, a.q * b.q)
                [] op = "/" -> IF b.p = 0 THEN Error ELSE Num(a.p * b.q, a.q * b.p)
                [] op = "<" -> Bool(a.p * b.q < b.p * a.q)
                [] op = "<=" -> Bool(a.p * b.q <= b.p * a.q)
                [] op = ">" -> Bool(a.p * b.q > b.p * a.q)
                [] op = ">=" -> Bool(a.p * b.q >= b.p * a.q)

(* getObjV, DoUnaryAction: one step of a path.                             *)
Field(v, w) ==
  IF w = <<"size", "()">> THEN
    CASE v.kind = "str" -> Num(Len(v.val), 1) [] v.kind = "nil" -> Panic [] OTHER -> Error
  ELSE IF v.kind = "obj" /\ w[1] \in DOMAIN v.fields THEN v.fields[w[1]] ELSE Error

(* EvalTakes: a name that is not there is an error, its path is nil.       *)
Take(w, e) ==
  LET p == SelectSeq(w, LAMBDA t : t # ".")
      step == IF Last(p) = "()" THEN SubSeq(p, 2, Len(p)) ELSE <<p[Len(p)]>>
  IN  IF Len(p) = 1 THEN IF p[1] \in DOMAIN e THEN e[p[1]] ELSE Error
      ELSE IF p[1] \notin DOMAIN e THEN Nil ELSE Field(e[p[1]], step)

Leaf(w, e) ==
  CASE w \in {<<"nil">>, <<"null">>} -> Nil
    [] w = <<"true">> -> Bool(TRUE)
    [] w = <<"false">> -> Bool(FALSE)
    [] w = <<"'s'">> -> Text(<<"s">>)
    [] Len(w) = 1 /\ w[1] \in DOMAIN Numerals -> Num(Numerals[w[1]], 1)
    [] Len(w) = 2 /\ w[1] = "-" -> Num(0 - Numerals[w[2]], 1)
    [] OTHER -> Take(w, e)

(* BinaryNode.Eval, for the kth of the BinaryNodes m: both operands are    *)
(* evaluated, && and || included; f has the values of the nodes below.     *)
Value(x, f, e) == IF x.kind = "leaf" THEN Leaf(x.word, e) ELSE f[x.no]

BinaryValue(m, k, f, e) ==
  LET a == Value(m[k].left, f, e)
      b == Value(m[k].right, f, e)
  IN  IF Fails(a) THEN a ELSE IF Fails(b) THEN b ELSE Apply(m[k].op, a, b)

Values(m, e) == LET f[k \in DOMAIN m] == BinaryValue(m, k, f, e) IN f

Eval ==
  /\ phase = "ready"
  /\ env' \in Envs
  /\ result' = Value(Tree, Values(made, env'), env')
  /\ phase' = "done"
  /\ UNCHANGED <<source, rest, words, index, last, nodes, made>>

Next ==
  \/ ScanCall \/ ScanParenPanics \/ ScanPath \/ ScanPathPanics
  \/ ScanNumberPanics \/ ScanNegative \/ ScanWord
  \/ ParseNodes \/ Reduce \/ ReducePanics \/ Compiled \/ Eval

Spec == Init /\ [][Next]_vars

-----------------------------------------------------------------------------
(* The kind an operand promises, "none" where what is below does not fit;  *)
(* f has the kinds of the nodes below.                                     *)
KindOf(x, f, e) == IF x.kind = "leaf" THEN Leaf(x.word, e).kind ELSE f[x.no]

Fitting(op, a, b) ==
  CASE {a, b} \cap {"none", "error", "panic"} # {} -> "none"
    [] op \in {"==", "!="} /\ (("nil" \in {a, b}) \/ (a = b /\ a \in {"num", "bool", "str"})) -> "bool"
    [] op \in {"&&", "||"} /\ a = "bool" /\ b = "bool" -> "bool"
    [] op = "+" /\ a = "str" /\ b = "str" -> "str"
    [] op \in {"+", "-", "*", "/"} /\ a = "num" /\ b = "num" -> "num"
    [] op \in {"<", "<=", ">", ">="} /\ a = "num" /\ b = "num" -> "bool"
    [] OTHER -> "none"

BinaryKind(m, k, f, e) ==
  Fitting(m[k].op, KindOf(m[k].left, f, e), KindOf(m[k].right, f, e))

Kinds(m, e) == LET f[k \in DOMAIN m] == BinaryKind(m, k, f, e) IN f

(* The BinaryNodes below an operand and itself.                            *)
Within(x, f) == IF x.kind = "binary" THEN f[x.no] ELSE {}

Below(m, k, f) == {k} \cup Within(m[k].left, f) \cup Within(m[k].right, f)

Parts(m) == LET f[k \in DOMAIN m] == Below(m, k, f) IN f

(* Where the operands fit their operators, == and != with a nil included,  *)
(* evaluation neither errs nor panics, unless it divides by zero, and      *)
(* yields the kind it promised (eval.go:91-130).                           *)
TypedNeverFails ==
  phase = "done" =>
    LET kind == KindOf(Tree, Kinds(made, env), env) IN
    kind \in {"num", "bool", "str"} =>
      \/ result.kind = kind
      \/ /\ result.kind = "error"
         /\ \E k \in Within(Tree, Parts(made)) :
              made[k].op = "/" /\ Value(made[k].right, Values(made, env), env).p = 0

(* Whatever is compiled, no operator ends up as the operand of another:    *)
(* where one is missing the parser refuses or panics.  And a stronger      *)
(* operator is inside a weaker one, of the same one the left inside the    *)
(* right (parser.go:60-63, 109-131, 262-289).                              *)
Grouped ==
  \A k \in DOMAIN made :
    LET l == made[k].left
        r == made[k].right
    IN  /\ {l.kind, r.kind} \subseteq {"leaf", "binary"}
        /\ l.kind = "binary" => Rank(made[l.no].op) <= Rank(made[k].op)
        /\ r.kind = "binary" => Rank(made[r.no].op) < Rank(made[k].op)
=============================================================================
