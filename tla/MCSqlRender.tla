------------------------------ MODULE MCSqlRender ------------------------------
(* Statements and parameters for checking SqlRender against SqlMeaning. *)
EXTENDS SqlMeaning

text          == [kind |-> "text"]
expr(x)       == [kind |-> "expr", name |-> x]
raw(x)        == [kind |-> "raw", name |-> x]
bind(x, y)    == [kind |-> "bind", name |-> x, from |-> y]
if(x, ks)     == [kind |-> "if", test |-> x, is |-> Scalar(1), kids |-> ks]
when(x, ks)   == [if(x, ks) EXCEPT !.kind = "when"]
otherwise(ks) == [kind |-> "otherwise", kids |-> ks]
group(ks)     == [kind |-> "group", kids |-> ks]
choose(ks)    == [kind |-> "choose", kids |-> ks]
foreach(c, x, i, ks) ==
  [kind |-> "foreach", collection |-> c, item |-> x, index |-> i, kids |-> ks]
slice(s)      == [kind |-> "slice", elems |-> [k \in DOMAIN s |-> Scalar(s[k])]]

RECURSIVE Closure(_)
Closure(ns) == Range(ns) \cup UNION {IF n.kind \in Leaves THEN {} ELSE Closure(n.kids)
                                     : n \in Range(ns)}
MCNodes == {Root} \cup UNION {Closure(t) : t \in Templates}
MCValues == {Scalar(x) : x \in 0..9} \cup {[kind |-> "nil"]}
            \cup UNION {Range(p) : p \in Params}

(* selectByIds of the example mapper: one placeholder per item. *)
byIds == <<text, foreach("ids", "item", "index", <<text, expr("item")>>)>>
byIdMaps ==
  <<text, foreach("m", "item", "index", <<expr("item")>>),
    foreach("m", "item", "index", <<expr("index")>>), expr("a")>>

(* Statements in which no name is given another value after it is rendered. *)
StablePlain ==
  { <<expr("a"), text, expr("b"), expr("a"), raw("b")>>,
    <<expr("ids"), expr("b"), group(<<text, expr("ids"), if("a", <<expr("b"), expr("a")>>)>>)>>,
    <<group(<<if("a", <<expr("c")>>), if("b", <<expr("b"), text>>)>>), expr("c")>>,
    <<bind("c", "a"), expr("c"), expr("a"), if("c", <<expr("b")>>)>> }
StableLoops ==
  { <<expr("a"), foreach("ids", "x", "i", <<text, expr("a"), if("b", <<expr("ids")>>)>>), expr("b")>>,
    <<choose(<<text, when("a", <<text, expr("a")>>), text, when("b", <<expr("ids")>>),
               otherwise(<<text>>)>>), expr("b"), expr("a")>>,
    <<foreach("ids", "x", "i", <<choose(<<when("c", <<expr("c")>>), when("a", <<expr("b"), text>>),
               otherwise(<<raw("a")>>)>>)>>), expr("b")>> }

(* Statements whose loops and binds change the value of a rendered name. *)
Rebinding ==
  { byIds, byIdMaps,
    <<expr("a"), bind("a", "b"), expr("a")>>,
    <<foreach("ids", "x", "i", <<expr("x"), foreach("ids", "y", "j", <<expr("y"), expr("x")>>)>>)>>,
    <<foreach("m", "x", "i", <<expr("i"), foreach("ids", "y", "j", <<if("y", <<expr("x")>>)>>)>>), expr("a")>>,
    <<foreach("ids", "a", "i", <<expr("a"), bind("b", "a")>>), expr("b")>> }

(* Statements the code does not render as meant, or refuses. *)
Odd ==
  { <<choose(<<text, when("a", <<expr("b")>>)>>)>>, <<choose(<<>>), expr("a")>>,
    <<choose(<<text, when("a", <<>>), when("b", <<expr("ids")>>), otherwise(<<expr("a"), expr("ids")>>)>>),
      expr("ids"), expr("a")>>,
    <<foreach("arr", "x", "i", <<expr("x")>>), expr("arr"), expr("m")>>,
    <<expr("x"), foreach("ids", "x", "x", <<foreach("ids", "x", "i", <<expr("x")>>), expr("x")>>), expr("i")>> }

Stable    == StablePlain \cup StableLoops
AllOfThem == Stable \cup Rebinding
AnyAtAll  == AllOfThem \cup Odd

AnyParams ==
  { [a |-> Scalar(x), b |-> Scalar(y), ids |-> s, arr |-> [s EXCEPT !.kind = "array"],
      m |-> [kind |-> "map", elems |-> g]] :
      x \in {1, 2}, y \in {1, 3}, s \in {slice(<<>>), slice(<<5>>), slice(<<1, 6>>)},
      g \in {(7 :> Scalar(4)) @@ (8 :> Scalar(5))} }
  \cup { [a |-> Scalar(1), b |-> [kind |-> "nil"], ids |-> [kind |-> "nil"]],
         [b |-> Scalar(1), c |-> Scalar(1), ids |-> Scalar(2)] }

(* A rendered query means what the statement means, nested loops, rebound   *)
(* names and map iteration included; with numbered placeholders, which are  *)
(* reused by name, as long as no loop and no bind gives a name another      *)
(* value once the name has been rendered (Token.go:41-45).                  *)
StableMeaning == call.template \in (IF Reusable THEN Stable ELSE AllOfThem) => RendersMeaning
===============================================================================
