------------------------------- MODULE SqlMeaning -------------------------------
(***************************************************************************)
(* What a statement means: the values its placeholders stand for, in the   *)
(* order of the text, by recursion over its nodes.  There is no argument   *)
(* array, no numbering and no cache here; a loop binds its item and index  *)
(* for its children only; a choose renders its first `when` that holds, or *)
(* else its otherwise.  SqlRender is checked against it.                   *)
(***************************************************************************)
EXTENDS SqlRender, SequencesExt

Nothing(e) == [ok |-> TRUE, env |-> e, vals |-> <<>>]
Failed     == [ok |-> FALSE, env |-> << >>, vals |-> <<>>]

(* A collection is iterated in one of these orders. *)
Orders(v) == IF v.kind = "slice"
             THEN {[k \in 1..Len(v.elems) |-> k]}
             ELSE SetToSeqs(DOMAIN v.elems)

(* Leaving a loop gives its names back the values they had before it. *)
Restored(after, before, names) ==
  [x \in (DOMAIN after \ names) \cup (names \cap DOMAIN before)
     |-> IF x \in names THEN before[x] ELSE after[x]]

Chosen(c, e) ==
  LET whens == SelectSeq(c.kids, LAMBDA n : n.kind = "when" /\ n.test \in DOMAIN e
                                             /\ e[n.test] = n.is)
      others == SelectSeq(c.kids, LAMBDA n : n.kind = "otherwise")
  IN (whens \o others)[1].kids

RECURSIVE Meanings(_, _), MeaningsOf(_, _), LoopMeanings(_, _, _, _)

(* The statement's meanings: more than one where a map is iterated. *)
Meanings(ns, e) ==
  IF ns = <<>> THEN {Nothing(e)}
  ELSE UNION { IF m.ok THEN {[r EXCEPT !.vals = m.vals \o @] :
                               r \in Meanings(Tail(ns), m.env)}
                       ELSE {Failed}
               : m \in MeaningsOf(Head(ns), e) }

LoopMeanings(n, over, order, e) ==
  IF order = <<>> THEN {Nothing(e)}
  ELSE UNION { IF m.ok THEN {[r EXCEPT !.vals = m.vals \o @] :
                               r \in LoopMeanings(n, over, Tail(order), m.env)}
                       ELSE {Failed}
               : m \in Meanings(n.kids, BindItem(e, n, over, Head(order))) }

MeaningsOf(n, e) ==
  CASE n.kind = "text" -> {Nothing(e)}
    [] n.kind = "expr" ->
         IF n.name \in DOMAIN e
         THEN {[Nothing(e) EXCEPT !.vals = Arguments(e[n.name])]} ELSE {Failed}
    [] n.kind = "raw" -> IF n.name \in DOMAIN e THEN {Nothing(e)} ELSE {Failed}
    [] n.kind = "bind" ->
         IF n.from \in DOMAIN e THEN {Nothing(With(e, n.name, e[n.from]))} ELSE {Failed}
    [] n.kind = "if" ->
         IF n.test \notin DOMAIN e THEN {Failed}
         ELSE IF e[n.test] = n.is THEN Meanings(n.kids, e) ELSE {Nothing(e)}
    [] n.kind = "group" -> Meanings(n.kids, e)
    [] n.kind = "choose" -> Meanings(Chosen(n, e), e)
    [] n.kind = "foreach" ->
         IF n.collection \notin DOMAIN e \/ e[n.collection].kind \notin {"slice", "map"}
         THEN {Failed}
         ELSE LET over == e[n.collection]
              IN UNION { {[m EXCEPT !.env = Restored(@, e, {n.item, n.index})] :
                            m \in LoopMeanings(n, over, order, e)}
                         : order \in Orders(over) }

-----------------------------------------------------------------------------
Expected == Meanings(call.template, call.params)

Placeholders == FlattenSeq(stack[1].sql)

(* What the database is sent: the arguments in the order of the text, where *)
(* a ? takes the next argument and a number the argument it names.          *)
Sent == IF Reusable THEN [i \in DOMAIN Placeholders |-> args[Placeholders[i]]] ELSE args

(* The database takes a query only if its arguments are those its text     *)
(* asks for: one for every ?, all numbers from 1 to the last one.           *)
Accepted == IF Reusable THEN Range(Placeholders) = 1..Len(args)
                        ELSE Len(Placeholders) = Len(args)

(* The rendered query means what the statement means: a finished query is  *)
(* one the database accepts and gives every placeholder the value its name  *)
(* has at that place of the statement, whatever nesting, repetition and     *)
(* reuse went on in between; and rendering fails only if the statement has  *)
(* no meaning for the parameters (Token.go:9-16).                           *)
RendersMeaning ==
  /\ status = "done" /\ stack # <<>> =>
       Accepted /\ \E m \in Expected : m.ok /\ m.vals = Sent
  /\ status \in {"error", "panic"} => \E m \in Expected : ~m.ok
===============================================================================
