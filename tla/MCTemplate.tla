----------------------------- MODULE MCTemplate -----------------------------
(* Instances of TemplateTable for TLC.                                     *)
EXTENDS TemplateTable

CONSTANTS c1, c2

MCClients == {c1, c2}
MCIds     == {1, 2}
MCCutName == [order |-> "der"]

Plain(tag, c, t) ==
  [tag |-> tag, column |-> c, langType |-> t, version_enable |-> FALSE, logic_enable |-> FALSE,
   logic_deleted |-> Nil, logic_undelete |-> Nil]
Id      == Plain("id", "id", "string")
Name    == Plain("result", "name", "string")
Order   == Plain("result", "order", "string")
Version == [Plain("result", "version", "int") EXCEPT !.version_enable = TRUE]
Flag    == [Plain("result", "flag", "int") EXCEPT
              !.logic_enable = TRUE, !.logic_deleted = 0, !.logic_undelete = 1]

ResultMap(cols) ==
  [id |-> "BaseResultMap", tag |-> "resultMap", tables |-> "t", cols |-> cols, kids |-> <<>>]

Both    == ResultMap(<<Id, Name, Order, Version, Flag>>)
Locked  == ResultMap(<<Id, Name, Version>>)
Marking == ResultMap(<<Id, Order, Flag>>)
Bare    == ResultMap(<<Id, Name, Order>>)
FlagFirst == ResultMap(<<Flag, Id, Name>>)

E(c, t)   == [column |-> c, test |-> t, in |-> {"n1"}]
TheId     == E("id", "none")

(* A file with the four templates, a bulk insert, and a fragment that one  *)
(* of them includes through another: in the second the include is in an    *)
(* if, and the third is included in two places.                            *)
Tmpl(tag, id, sets, wheres, inserts, many) ==
  [id |-> id, tag |-> tag, resultMap |-> "", tables |-> "", sets |-> sets, wheres |-> wheres,
   inserts |-> inserts, many |-> many, kids |-> <<>>]
Inc(el, i) == [tag |-> "include", el |-> el, refid |-> i]
Sql0(i, k) == [id |-> i, tag |-> "sql", kids |-> k]
IfOuter    == If(Given("id"), Inc("second", "inner"))
Fragments  == <<Sql0("outer", <<IfOuter, Inc("third", "inner")>>), Sql0("inner", <<Text(<<>>)>>)>>

File(map, sets, wheres, inserts) ==
  <<map,
    [Tmpl("selectTemplate", "", <<>>, wheres, "", FALSE) EXCEPT !.kids = <<Inc("first", "outer")>>],
    Tmpl("insertTemplate", "", <<>>, <<>>, inserts, FALSE),
    Tmpl("insertTemplate", "batch", <<>>, <<>>, inserts, TRUE),
    Tmpl("updateTemplate", "", sets, wheres, "", FALSE),
    Tmpl("deleteTemplate", "", <<>>, wheres, "", FALSE)>> \o Fragments

Cols(map) == ToSet(ColumnNames(map))
Over(map, list) == SelectSeq(list, LAMBDA x : x.column \in Cols(map))

(* sets and wheres: all by default; conditions on names or expressions,    *)
(* the name that where cuts first, nothing at all.                         *)
Lists ==
  {<<<<>>, <<TheId>>>>, <<<<>>, <<>>>>,
   <<<<E("name", "name"), E("order", "name")>>, <<E("order", "name"), TheId>>>>,
   <<<<E("order", "none"), E("name", "expr")>>, <<TheId>>>>,
   <<<<E("order", "none"), E("name", "expr")>>, <<E("name", "expr"), E("order", "name")>>>>}

Usable ==
  {File(m, Over(m, l[1]), Over(m, l[2]), IF l[1] = <<>> THEN "*" ELSE "*?*") :
     m \in {Both, Locked, Marking, Bare}, l \in Lists}
  \cup {File(FlagFirst, <<>>, <<TheId>>, "*"), File(Both, <<>>, <<TheId>>, "name")}

(* Files that the program panics on.                                       *)
Bad(e) == <<e, Tmpl("updateTemplate", "u", <<>>, <<TheId>>, "", FALSE)>>
Refusable ==
  { Bad([Both EXCEPT !.tables = ""]), Bad(ResultMap(<<Id, [Flag EXCEPT !.logic_deleted = Nil]>>)),
    Bad(ResultMap(<<Id, [Flag EXCEPT !.logic_deleted = 1]>>)),
    Bad(ResultMap(<<Id, [Version EXCEPT !.langType = "string"]>>)),
    <<Both, Sql0("s", <<>>), Sql0("s", <<>>)>>, <<Both, Sql0("s", <<Inc("other", "none")>>)>>,
    <<Both, [Tmpl("selectTemplate", "", <<>>, <<>>, "", FALSE) EXCEPT !.resultMap = "Other"]>>,
    <<Both, [tag |-> "comment", id |-> "", kids |-> <<>>]>> }

MCFiles == Usable \cup Refusable
MCNodes == {Text(<<>>), IfOuter, Inc("first", "outer"), Inc("second", "inner"),
            Inc("third", "inner"), Inc("other", "none")}

Row(i, n, o, v, f) == [id |-> i, name |-> n, order |-> o, version |-> v, flag |-> f]
MCArguments == {Row(1, "n1", "o1", 0, 1), Row(2, "n2", "o1", 0, 1), Row(1, Nil, "o1", 0, Nil),
                Row(1, "n1", Nil, Nil, 0)}
MCChanges == {[name |-> "n2"], [order |-> Nil, name |-> "n1"], [order |-> "o2"]}
=============================================================================
