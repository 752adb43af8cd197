------------------------------- MODULE SqlRender -------------------------------
(***************************************************************************)
(* Rendering one mapper statement: the nodes of package ast evaluated over *)
(* the parameter map of a call, appending to the argument array and        *)
(* numbering placeholders with a statement converter of package stmt.      *)
(*                                                                         *)
(* Eval calls itself through DoChildNodes.  The Go call stack is `stack`,  *)
(* its head the running call; a frame keeps the children still to          *)
(* evaluate and the bytes buffered so far.  A piece of SQL is the sequence *)
(* of the placeholder numbers in it: <<>> is text without placeholders,    *)
(* and the empty sequence of pieces is the nil a node returns when it      *)
(* writes nothing.  Text is taken to be non-blank, and a loop to have text *)
(* around its items.                                                       *)
(***************************************************************************)
EXTENDS Naturals, Sequences, FiniteSets, Functions

CONSTANTS Nodes,      \* the parsed nodes, closed under children
          Values,     \* the values a parameter, an element or an index can have
          Templates,  \* the statements: sequences of nodes
          Params,     \* the parameter maps buildSql makes of a call's arguments
          Numberings  \* whether drivers number: TRUE Postgres, Oracle ($1, :val1);
                      \* FALSE the MySQL family (?)

Leaves   == {"text", "expr", "raw", "bind"}
Branches == {"if", "when", "otherwise", "group", "foreach", "choose", "sql"}

(* Scalars hold val; slices, arrays and maps hold elems, by position or key. *)
Collections == {"slice", "array", "map"}
Kinds == Collections \cup {"scalar", "nil"}
Scalar(x) == [kind |-> "scalar", val |-> x]

(* What NodeForEach binds to the index: a slice's from 0, a map's key. *)
IndexAt(v, k) == Scalar(IF v.kind = "slice" THEN k - 1 ELSE k)

ASSUME NumberingsAssumption == Numberings \subseteq BOOLEAN
ASSUME NodesAssumption ==
  /\ \A n \in Nodes : /\ n.kind \in Leaves \cup Branches
                      /\ n.kind \in Branches => n.kids \in Seq(Nodes)
  /\ [kind |-> "sql", kids |-> <<>>] \in Nodes
  /\ Templates \subseteq Seq(Nodes)
ASSUME ValuesAssumption ==
  \A v \in Values :
    /\ v.kind \in Kinds
    /\ v.kind = "slice" => v.elems \in Seq(Values)
    /\ v.kind \in Collections => \A k \in DOMAIN v.elems :
         k \in Nat /\ v.elems[k] \in Values /\ IndexAt(v, k) \in Values
ASSUME ParamsAssumption == \A p \in Params : p \in [DOMAIN p -> Values]

VARIABLES
  call,    \* the statement, parameters and kind of converter BuildSql was called with
  env,     \* paramMap, which bind and foreach write to
  args,    \* arg_array
  conv,    \* the StmtIndexConvert of the query: counter and cache by name
  stack,   \* the frames of Eval, the running one first
  status   \* "running", "done", "error" or "panic"

vars == <<call, env, args, conv, stack, status>>

(* The session's driver numbers placeholders and so reuses them by name. *)
Reusable == call.reusable

NewConvert == [counter |-> 0, cache |-> << >>]

Frame(n, sql, over, left) ==
  [node |-> n, rest |-> n.kids, sql |-> sql, over |-> over, left |-> left]

NoValue == [kind |-> "none"]
Text    == <<>>
Root    == [kind |-> "sql", kids |-> <<>>]

-----------------------------------------------------------------------------
Running == status = "running" /\ stack # <<>>
Top     == Head(stack)
More    == Running /\ Top.rest # <<>>
Exhausted == Running /\ Top.rest = <<>>
Child   == Head(Top.rest)

(* What a call does with the bytes r of its child n.  DoChildNodes writes   *)
(* them; NodeChoose returns those of a `when` and drops all others.         *)
Receive(f, n, r) ==
  IF f.node.kind # "choose" THEN [f EXCEPT !.sql = @ \o r]
  ELSE IF n.kind = "when" /\ r # <<>> THEN [f EXCEPT !.sql = r, !.rest = <<>>]
  ELSE f

(* The running call, gone past its next child, which returned r. *)
After(r) == Receive([Top EXCEPT !.rest = Tail(@)], Child, r)
Write(r) == stack' = <<After(r)>> \o Tail(stack)
Push(f)  == stack' = <<f, [Top EXCEPT !.rest = Tail(@)]>> \o Tail(stack)

Fail(how) ==
  /\ status' = how
  /\ stack' = <<>>
  /\ UNCHANGED <<call, env, args, conv>>

(* Storing v under the key x of a Go map. *)
With(m, x, v) == [y \in DOMAIN m \cup {x} |-> IF y = x THEN v ELSE m[y]]

(* LexerAndEval: a name the map lacks is an error of the engine. *)
Bound(x) == x \in DOMAIN env
Holds(n) == Bound(n.test) /\ env[n.test] = n.is

(* A slice becomes one argument per element, any other value one argument. *)
Arguments(v) == IF v.kind = "slice" THEN v.elems ELSE <<v>>

Numbers(k) == [i \in 1..k |-> IF Reusable THEN conv.counter + i ELSE 0]

Hit(x) == Reusable /\ x \in DOMAIN conv.cache

(* Inc for every placeholder of the group, then Register. *)
IncOnce(x, holes) ==     \* mutant: a slice's group counts once
  IF Reusable THEN [counter |-> conv.counter + 1,
                    cache   |-> With(conv.cache, x, holes)]
              ELSE conv
Registered(x, holes) ==
  IF Reusable THEN [counter |-> conv.counter + Len(holes),
                    cache   |-> With(conv.cache, x, holes)]
              ELSE conv
-----------------------------------------------------------------------------
Init ==
  /\ call = [template |-> <<>>, params |-> << >>, reusable |-> FALSE]
  /\ env = << >>
  /\ args = <<>>
  /\ conv = NewConvert
  /\ stack = <<>>
  /\ status = "done"

BuildSql(t, p, r) ==
  /\ status # "running"
  /\ call' = [template |-> t, params |-> p, reusable |-> r]
  /\ env' = p
  /\ args' = <<>>
  /\ conv' = NewConvert
  /\ stack' = <<[Frame(Root, <<>>, NoValue, {}) EXCEPT !.rest = t]>>
  /\ status' = "running"

RenderText ==
  /\ More /\ Child.kind = "text"
  /\ Write(<<Text>>)
  /\ UNCHANGED <<call, env, args, conv, status>>

RenderExprHit ==
  /\ More /\ Child.kind = "expr"
  /\ Hit(Child.name)
  /\ Write(<<conv.cache[Child.name]>>)
  /\ UNCHANGED <<call, env, args, conv, status>>

RenderExprMiss ==
  /\ More /\ Child.kind = "expr"
  /\ ~Hit(Child.name)
  /\ Bound(Child.name)
  /\ LET new   == Arguments(env[Child.name])
         holes == Numbers(Len(new))
     IN /\ args' = args \o new
        /\ conv' = Registered(Child.name, holes)
        /\ Write(<<holes>>)
  /\ UNCHANGED <<call, env, status>>

RenderRawExpr ==
  /\ More /\ Child.kind = "raw"
  /\ Bound(Child.name)
  /\ Write(<<Text>>)
  /\ UNCHANGED <<call, env, args, conv, status>>

EvalBind ==
  /\ More /\ Child.kind = "bind"
  /\ Bound(Child.from)
  /\ env' = With(env, Child.name, env[Child.from])
  /\ Write(<<>>)
  /\ UNCHANGED <<call, args, conv, status>>

(* NodeIf and NodeWhen: the children if the test holds, else nil.  A test   *)
(* that cannot be evaluated fails the query in `if` and is false in `when`. *)
EvalIf ==
  /\ More /\ Child.kind \in {"if", "when"}
  /\ Child.kind = "if" => Bound(Child.test)
  /\ IF Holds(Child) THEN Push(Frame(Child, <<>>, NoValue, {})) ELSE Write(<<>>)
  /\ UNCHANGED <<call, env, args, conv, status>>

(* NodeTrim (trim, set), NodeWhere, NodeInclude and NodeOtherwise. *)
EvalGroup ==
  /\ More /\ Child.kind \in {"group", "otherwise"}
  /\ Push(Frame(Child, <<>>, NoValue, {}))
  /\ UNCHANGED <<call, env, args, conv, status>>

(* The names or collections an evaluation cannot do without. *)
EvalFails ==
  /\ More
  /\ \/ Child.kind \in {"expr", "raw"} /\ ~Bound(Child.name)
     \/ Child.kind = "bind" /\ ~Bound(Child.from)
     \/ Child.kind = "if" /\ ~Bound(Child.test)
     \/ Child.kind = "foreach" /\ ~Bound(Child.collection)
     \/ /\ Child.kind = "foreach" /\ Bound(Child.collection)
        /\ env[Child.collection].kind = "nil"
  /\ Child.kind = "expr" => ~Hit(Child.name)
  /\ Fail("error")

(* The items in their order: positions ascending, a map's keys in any order. *)
AnyOrder(over, left, k) ==     \* mutant: a slice is iterated like a map
  k \in left
MayComeNext(over, left, k) ==
  k \in left /\ (over.kind = "slice" => \A j \in left : k <= j)

BindItem(e, n, over, k) ==
  With(With(e, n.item, over.elems[k]), n.index, IndexAt(over, k))
ClearItem(e, n) ==       \* mutant: the item is cleared, not deleted
  With(e, n.item, NoValue)
DeleteItem(e, n) == Restrict(e, DOMAIN e \ {n.item})

EvalForEach ==
  /\ More /\ Child.kind = "foreach"
  /\ Bound(Child.collection)
  /\ LET over == env[Child.collection]
     IN /\ over.kind \in Collections
        /\ \/ DOMAIN over.elems = {} /\ Write(<<>>) /\ UNCHANGED env
           \/ /\ DOMAIN over.elems # {} /\ over.kind = "array"
              /\ Write(<<Text>>) /\ UNCHANGED env
           \/ /\ over.kind # "array"
              /\ \E k \in DOMAIN over.elems :
                   /\ MayComeNext(over, DOMAIN over.elems, k)
                   /\ env' = BindItem(env, Child, over, k)
                   /\ Push(Frame(Child, <<Text>>, over, DOMAIN over.elems \ {k}))
  /\ UNCHANGED <<call, args, conv, status>>

ForEachPanics ==
  /\ More /\ Child.kind = "foreach"
  /\ Bound(Child.collection)
  /\ env[Child.collection].kind = "scalar"
  /\ Fail("panic")

NextItem ==
  /\ Exhausted /\ Top.node.kind = "foreach"
  /\ \E k \in Top.left :
       /\ MayComeNext(Top.over, Top.left, k)
       /\ env' = BindItem(DeleteItem(env, Top.node), Top.node, Top.over, k)
       /\ stack' = <<[Top EXCEPT !.rest = Top.node.kids, !.left = @ \ {k}]>>
                     \o Tail(stack)
  /\ UNCHANGED <<call, args, conv, status>>

(* NodeParser gives a choose all its children once for every `when`. *)
WhenNodes(c)   == LET k == Len(c.kids)
                      whens == {i \in 1..k : c.kids[i].kind = "when"}
                  IN [i \in 1..(k * Cardinality(whens)) |-> c.kids[((i - 1) % k) + 1]]
Otherwises(c)  == {n \in Range(c.kids) : n.kind = "otherwise"}

EvalChoose ==
  /\ More /\ Child.kind = "choose"
  /\ IF Child.kids = <<>>
     THEN Write(<<>>)
     ELSE Push([Frame(Child, <<>>, NoValue, {}) EXCEPT !.rest = WhenNodes(Child)])
  /\ UNCHANGED <<call, env, args, conv, status>>

(* No `when` returned anything: the tail call of the otherwise node. *)
ChooseOtherwise ==
  /\ Exhausted /\ Top.node.kind = "choose" /\ Top.sql = <<>>
  /\ \E n \in Otherwises(Top.node) :
       stack' = <<Frame(n, <<>>, NoValue, {})>> \o Tail(stack)
  /\ UNCHANGED <<call, env, args, conv, status>>

ChoosePanics ==
  /\ Exhausted /\ Top.node.kind = "choose" /\ Top.sql = <<>>
  /\ Otherwises(Top.node) = {}
  /\ Fail("panic")

Return ==
  /\ Exhausted /\ Len(stack) > 1
  /\ Top.left = {}
  /\ Top.node.kind = "choose" => Top.sql # <<>>
  /\ stack' = <<Receive(stack[2], Top.node, Top.sql)>> \o Tail(Tail(stack))
  /\ env' = IF Top.node.kind = "foreach" THEN DeleteItem(env, Top.node) ELSE env
  /\ UNCHANGED <<call, args, conv, status>>

Finish ==
  /\ Exhausted /\ Len(stack) = 1
  /\ status' = "done"
  /\ UNCHANGED <<call, env, args, conv, stack>>

Next ==
  \/ \E t \in Templates, p \in Params, r \in Numberings : BuildSql(t, p, r)
  \/ RenderText \/ RenderExprHit \/ RenderExprMiss \/ RenderRawExpr
  \/ EvalBind \/ EvalIf \/ EvalGroup \/ EvalFails
  \/ EvalForEach \/ ForEachPanics \/ NextItem
  \/ EvalChoose \/ ChooseOtherwise \/ ChoosePanics
  \/ Return \/ Finish

Spec == Init /\ [][Next]_vars

-----------------------------------------------------------------------------
(* The type invariant: arguments are values, names are bound to values and *)
(* the frames on the stack are calls of nodes of the statement.            *)
TypeOK ==
  /\ status \in {"running", "done", "error", "panic"}
  /\ env \in [DOMAIN env -> Values]
  /\ args \in Seq(Values)
  /\ conv \in [counter : Nat, cache : [DOMAIN conv.cache -> Seq(Nat)]]
  /\ stack \in Seq([node : Nodes, rest : Seq(Nodes), sql : Seq(Seq(Nat)),
                    over : Values \cup {NoValue}, left : SUBSET Nat])

(* Where placeholders are numbered (StmtIndexConvert.go:16-22), every       *)
(* argument was appended for exactly one name, the one that is registered   *)
(* with its number, and all SQL buffered in any running call is text or     *)
(* a group of numbers as it was registered: no placeholder without an       *)
(* argument and no argument appended twice for a name, across nested nodes, *)
(* dropped output and one query after another.                              *)
Groups == {conv.cache[x] : x \in DOMAIN conv.cache}
Numbered ==
  Reusable =>
    /\ conv.counter = Len(args)
    /\ \A x \in DOMAIN conv.cache : Range(conv.cache[x]) \subseteq 1..Len(args)
    /\ \A k \in 1..Len(args) :
         \E x \in DOMAIN conv.cache :
           /\ k \in Range(conv.cache[x])
           /\ \A y \in DOMAIN conv.cache : k \in Range(conv.cache[y]) => y = x
    /\ \A i \in DOMAIN stack : Range(stack[i].sql) \subseteq Groups \cup {Text}
===============================================================================
