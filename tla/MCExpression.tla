----------------------------- MODULE MCExpression -----------------------------
(***************************************************************************)
(* What an expression means by the usual rules, and the expressions and    *)
(* parameters Expression is checked with.                                  *)
(***************************************************************************)
EXTENDS Expression

(* Weakest first; the operators of a class share their rank and group from *)
(* the left.                                                               *)
Classes == <<{"||"}, {"&&"}, {"==", "!="}, {"<", "<=", ">", ">="}, {"+", "-"}, {"*", "/"}>>
ClassOf(op) == CHOOSE k \in DOMAIN Classes : op \in Classes[k]

(* The words of an expression of operands and operators in turn: a minus   *)
(* where an operand is due is a sign.                                      *)
OperandEnd(ts) ==
  IF ts[1] = "-" THEN 2
  ELSE IF \E i \in DOMAIN ts : ts[i] \in Binary
       THEN (CHOOSE i \in DOMAIN ts : ts[i] \in Binary /\ \A j \in 1 .. i - 1 : ts[j] \notin Binary) - 1
       ELSE Len(ts)

RECURSIVE MeantWords(_)
MeantWords(ts) ==
  LET k == OperandEnd(ts)
      w == IF ts[k] = ")" THEN SubSeq(ts, 1, k - 2) \o <<"()">> ELSE SubSeq(ts, 1, k)
  IN
  IF k = Len(ts) THEN <<w>>
  ELSE <<w, <<ts[k + 1]>>>> \o MeantWords(SubSeq(ts, k + 2, Len(ts)))

OpsOf(ws) == {i \in DOMAIN ws : i % 2 = 0}

RECURSIVE MeantTree(_)
MeantTree(ws) ==
  IF Len(ws) = 1 THEN [kind |-> "leaf", word |-> ws[1]]
  ELSE LET weakest == CHOOSE i \in OpsOf(ws) : \A j \in OpsOf(ws) :
                        \/ ClassOf(ws[i][1]) < ClassOf(ws[j][1])
                        \/ ClassOf(ws[i][1]) = ClassOf(ws[j][1]) /\ j <= i
       IN  [kind |-> "binary", op |-> ws[weakest][1],
            left |-> MeantTree(SubSeq(ws, 1, weakest - 1)),
            right |-> MeantTree(SubSeq(ws, weakest + 1, Len(ws)))]

(* A node with all that is below it.                                       *)
RECURSIVE Unfolded(_)
Unfolded(n) ==
  IF n.kind # "binary" THEN n
  ELSE [kind |-> "binary", op |-> made[n.no].op,
        left |-> Unfolded(made[n.no].left), right |-> Unfolded(made[n.no].right)]

(* A sign after the third word makes the parser forget what is between.    *)
LateSign(ws) == \E i \in DOMAIN ws : i > 3 /\ Len(ws[i]) = 2 /\ ws[i][1] = "-"

(* 1 - 2 + 3: of one class, with the stronger rank to the right.           *)
OutOfRank(ws) ==
  \E i, j \in OpsOf(ws) :
    /\ i < j /\ ClassOf(ws[i][1]) = ClassOf(ws[j][1])
    /\ Rank(ws[j][1]) < Rank(ws[i][1])
    /\ \A k \in OpsOf(ws) : i < k /\ k < j => ClassOf(ws[k][1]) >= ClassOf(ws[i][1])

-----------------------------------------------------------------------------
Operands  == {<<"a">>, <<"-", "1">>, <<"s", ".", "size", "(", ")">>}
Operators == {"*", "/", "+", "-", "<", "!=", "==", "and", "or"}

Chains ==
  {x : x \in Operands}
  \cup {x \o <<p>> \o y : x \in Operands, y \in Operands, p \in Operators}
  \cup {x \o <<p>> \o y \o <<q>> \o z :
          x \in Operands, y \in Operands, z \in Operands, p \in Operators, q \in Operators}
  \cup {<<"a", p, "1", q, "2", r, "a">> : p \in Operators, q \in Operators, r \in Operators}

(* Tests of the example mappers, and of the engine's own tests.            *)
Tests ==
  {<<"o", ".", "f", "==", "1", "and", "o", ".", "f", "!=", "0">>,
   <<"a", "+", "1", ">", "b", "*", "2">>, <<"'s'", "+", "s">>, <<"a", ">=", "0">>,
   <<"1", "+", "2", "!=", "nil", "and", "2", "<=", "a", "*", "2">>,
   <<"o", "!=", "null", "and", "o", ".", "f", "==", "true">>,
   <<"s", "==", "'s'", "or", "s", ".", "size", "(", ")", "==", "0">>,
   <<"o", "==", "s">>, <<"o", ".", "g", "==", "1">>, <<"u", ".", "f", "==", "nil">>, <<"u">>,
   <<"a", ".", "size", "(", ")", "==", "1">>, <<"-", "1", "!=", "-", "2">>}

Regular == Chains \cup Tests

(* Expressions the parser refuses, panics on, or reads only the start of.  *)
Malformed ==
  {<<"-", "a">>, <<"a", "+">>, <<"a", "+", "-", "b">>, <<"a", "==", "==", "1">>, <<"==">>, <<>>,
   <<"(", "a", ")">>, <<"(", "a">>, <<")", "a">>, <<".", "a">>, <<"a", "b">>, <<"a", "%", "2", "==", "0">>,
   <<"a", "+=", "b">>, <<"!", "a">>, <<"a", "=", "1">>, <<"-", "-", "1">>, <<"(", ")">>,
   <<"a", "#", "b">>, <<"o", ".", "@", "g">>,
   <<"a", "==", "b", "and", "b", "==", "-", "1", "and", "1", "==", "1">>}

MCExpressions == Regular \cup Malformed
MCTokens == UNION {ToSet(x) : x \in MCExpressions}
MCNumerals == [t \in {"0", "1", "2"} |-> CASE t = "0" -> 0 [] t = "1" -> 1 [] t = "2" -> 2]

MCEnvs ==
  { [a |-> x, b |-> Num(2, 1), s |-> Text(<<"s">>), o |-> y] :
      x \in {Num(1, 1), Bool(TRUE), Nil},
      y \in {Nil, [kind |-> "obj", fields |-> [f |-> Num(1, 1)]]} }

-----------------------------------------------------------------------------
(* An expression of operands and operators in turn compiles, to the tree   *)
(* its operators' usual ranks give it and with nothing of it left out -    *)
(* unless it signs a number beyond the third word or mixes a - with a +    *)
(* to its right, a / with a *, a == with a != (GoFastExpress/parser.go).   *)
Conventional ==
  LET ws == MeantWords([i \in DOMAIN source |-> Spelled(source[i])]) IN
  source \in Regular /\ ~LateSign(ws) /\ ~OutOfRank(ws) =>
      /\ phase # "error"
      /\ phase # "panic"
      /\ phase \in {"ready", "done"} => Unfolded(Tree) = MeantTree(ws)
=============================================================================
