------------------------------ MODULE Template ------------------------------
(***************************************************************************)
(* Mapper files and their templates (XmlLoader.go and                      *)
(* GoMybatisTempleteDecoder.go): how the elements under <mapper> become    *)
(* `items', in which includes have got the children of what they name and  *)
(* selectTemplate, insertTemplate, updateTemplate and deleteTemplate the   *)
(* children that make up their SQL.                                        *)
(*                                                                         *)
(* SQL is a sequence of tokens: key words, columns, equations and values.  *)
(* An element is a record of its attributes and its children, kids; a list *)
(* of conditions or assignments separated by commas (wheres, sets) is the  *)
(* sequence of its entries.  Go has pointers to elements, and several      *)
(* elements may share their children: those that an include has got are    *)
(* found by its identity, el.  Go ranges over `items' in any order.        *)
(***************************************************************************)
EXTENDS Integers, FiniteSets, SequencesExt

CONSTANTS
  Files,     \* the mapper files: the elements under <mapper>, in order
  Nodes,     \* what is in these elements
  Nil,       \* nil, and NULL
  Depth      \* how many levels below an element Confluent looks

VARIABLES
  file,        \* the file being loaded
  registered,  \* the number of its elements registered
  items,       \* the elements by id
  todo,        \* the ids that the loop over items has still to come to
  stage,       \* what the program is doing with items
  child,       \* the children of the includes replaced so far
  work         \* what includeElementReplace will be called for, the next one first

loading == <<file, registered, items, todo, stage, child, work>>

Stages == {"register", "include", "decode", "ready", "panic"}

(* The nodes of the files are in Nodes, and two includes are two elements. *)
WellFormed ==
  /\ \A f \in Files : f \in Seq(ToSet(f)) /\ \A e \in ToSet(f) : e.kids \in Seq(Nodes)
  /\ \A n \in Nodes : n.tag \notin {"include", "text"} => n.kids \in Seq(Nodes)
  /\ \A m, n \in Nodes : m.tag = "include" /\ n.tag = "include" /\ m.el = n.el => m = n

ASSUME FilesAssumption == WellFormed /\ Depth \in Nat

-----------------------------------------------------------------------------
(* Tokens.                                                                 *)
Word(w) == [is |-> "word", word |-> w]
Column(c) == [is |-> "column", word |-> c]
Literal(v) == [is |-> "value", val |-> v]
Arg(c) == [is |-> "arg", word |-> c, plus |-> 0]     \* #{c}
SameVersion(c) == [is |-> "arg", word |-> c, plus |-> 0]
Incremented(c) == [is |-> "arg", word |-> c, plus |-> 1]     \* #{c+1}
Equation(c, x) == [is |-> "equation", word |-> c, to |-> x]

(* Nodes.                                                                  *)
Text(toks) == [tag |-> "text", toks |-> toks]
If(holds, kid) == [tag |-> "if", holds |-> holds, kids |-> <<kid>>]

-----------------------------------------------------------------------------
(* LoadMapperXml: the elements by id, an element without id by its tag.    *)
MapperTags == {"insert", "delete", "update", "select", "resultMap", "sql",
               "insertTemplate", "deleteTemplate", "updateTemplate", "selectTemplate"}

ItemId(e) == IF e.id = "" THEN e.tag ELSE e.id

RegisterOver ==
  /\ stage = "register" /\ registered < Len(file)
  /\ items' = [i \in DOMAIN items \cup {ItemId(file[registered + 1])} |->
                 IF i = ItemId(file[registered + 1]) THEN file[registered + 1] ELSE items[i]]
  /\ registered' = registered + 1
  /\ UNCHANGED <<file, todo, stage, child, work>>

Register ==
  /\ stage = "register" /\ registered < Len(file)
  /\ LET e == file[registered + 1] IN
       CASE e.tag \notin MapperTags ->
              UNCHANGED <<items, stage>>
         [] e.tag \in MapperTags /\ ItemId(e) \in DOMAIN items ->
              stage' = "panic" /\ UNCHANGED items
         [] e.tag \in MapperTags /\ ItemId(e) \notin DOMAIN items ->
              /\ items' = [i \in DOMAIN items \cup {ItemId(e)} |->
                             IF i = ItemId(e) THEN e ELSE items[i]]
              /\ UNCHANGED stage
  /\ registered' = registered + 1
  /\ UNCHANGED <<file, todo, child, work>>

(* includeElementReplace: an include gets the children of the element it   *)
(* names, and is then searched like any other element.                     *)
Kids(n) == IF n.tag = "text" THEN <<>> ELSE n.kids

Unsearched(kids) == work' = Tail(work)   \* mutant: without the recursive call
Search(kids) == work' = kids \o Tail(work)

Replace ==
  /\ stage = "include" /\ work # <<>>
  /\ LET n == Head(work) IN
       CASE n.tag # "include" ->
              Search(Kids(n)) /\ UNCHANGED <<stage, child>>
         [] n.tag = "include" /\ n.refid \notin DOMAIN items ->
              stage' = "panic" /\ UNCHANGED <<child, work>>
         [] n.tag = "include" /\ n.refid \in DOMAIN items ->
              /\ child' = [e \in DOMAIN child \cup {n.el} |->
                             IF e = n.el THEN items[n.refid].kids ELSE child[e]]
              /\ Search(items[n.refid].kids)
              /\ UNCHANGED stage
  /\ UNCHANGED <<file, registered, items, todo>>

(* The loop over items: their children, one element after the other.       *)
Include(i) ==
  /\ stage = "include" /\ work = <<>> /\ i \in todo
  /\ todo' = todo \ {i} /\ work' = items[i].kids
  /\ UNCHANGED <<file, registered, items, stage, child>>

(* The loops over items come one after the other.                          *)
NextLoop ==
  /\ \/ stage = "register" /\ registered = Len(file) /\ stage' = "include" /\ todo' = DOMAIN items
     \/ stage = "include" /\ todo = {} /\ work = <<>> /\ stage' = "decode" /\ todo' = DOMAIN items
     \/ stage = "decode" /\ todo = {} /\ stage' = "ready" /\ todo' = {}
  /\ UNCHANGED <<file, registered, items, child, work>>

-----------------------------------------------------------------------------
(* What a resultMap says of logical deletion and of versions: its first    *)
(* column that has the attribute.                                          *)
ColumnNames(map) == [i \in DOMAIN map.cols |-> map.cols[i].column]

LogicEnable(map)   == \E i \in DOMAIN map.cols : map.cols[i].logic_enable
VersionEnable(map) == \E i \in DOMAIN map.cols : map.cols[i].version_enable
DecodeLogicDelete(map) == SelectSeq(map.cols, LAMBDA c : c.logic_enable)[1]
DecodeVersionData(map) == SelectSeq(map.cols, LAMBDA c : c.version_enable)[1]

LogicPanics(map) ==
  /\ LogicEnable(map)
  /\ LET c == DecodeLogicDelete(map) IN
      Nil \in {c.logic_deleted, c.logic_undelete} \/ c.logic_deleted = c.logic_undelete
VersionPanics(map) ==
  VersionEnable(map) /\ DecodeVersionData(map).langType \notin {"int", "time.Time"}

(* The test before the ? of an entry: a name is tested for nil.            *)
MakeIfNotNull(x) == IF x.test = "name" THEN [given |-> x.column] ELSE [given |-> x.column, in |-> x.in]

(* An entry behind its separator: text, or an if when it has a test.       *)
Entry(x, separator) ==
  LET text == Text(separator \o <<Equation(x.column, Arg(x.column))>>)
  IN  IF x.test = "none" THEN text ELSE If(MakeIfNotNull(x), text)

(* The assignments of an update: a comma before every entry but the first, *)
(* and before the deletion mark and the next version unless there are no   *)
(* entries at all.                                                         *)
CommaAlways(sets, i) == <<Word(",")>>
Comma(sets, i) == IF i > 1 THEN <<Word(",")>> ELSE <<>>

DecodeSets(sets, map, mark, version) ==
  LET comma == Comma(sets, Len(sets) + 1)
  IN  [i \in DOMAIN sets |-> Entry(sets[i], Comma(sets, i))]
        \o (IF mark
            THEN LET c == DecodeLogicDelete(map)
                 IN  <<Text(comma \o <<Equation(c.column, Literal(c.logic_deleted))>>)>>
            ELSE <<>>)
        \o (IF version
            THEN LET c == DecodeVersionData(map).column
                 IN  <<Text(comma \o <<Equation(c, Incremented(c))>>)>>
            ELSE <<>>)

(* The conditions: the row is not deleted, it has the version the caller   *)
(* knows, and the entries that hold.                                       *)
AddAnd(n) == IF n > 0 THEN <<Word("and")>> ELSE <<>>

DecodeWheres(wheres, map, logic, version) ==
  LET undeleted == IF logic
                   THEN LET c == DecodeLogicDelete(map)
                        IN  <<Text(<<Equation(c.column, Literal(c.logic_undelete))>>)>>
                   ELSE <<>>
      locked    == IF version
                   THEN LET c == DecodeVersionData(map).column
                        IN  <<Text(AddAnd(Len(undeleted)) \o <<Equation(c, Arg(c))>>)>>
                   ELSE <<>>
      fixed     == undeleted \o locked
  IN  [tag |-> "where",
       kids |-> fixed \o [i \in DOMAIN wheres |->
                            Entry(wheres[i], AddAnd(Len(fixed) + i - 1))]]

-----------------------------------------------------------------------------
(* The four templates.                                                     *)
SelectTemplate(e, map) ==
  IF e.wheres = <<>> THEN <<>>
  ELSE <<Text(<<Word("select"), Word("from")>>),
         DecodeWheres(e.wheres, map, LogicEnable(map), FALSE)>>

Given(c) == [given |-> c]
ColumnText(c) == Text(<<Column(c), Word(",")>>)
ArgText(c) == Text(<<Arg(c), Word(",")>>)

InsertColumns(e, map) ==
  LET listed(c) == IF e.inserts = "*?*" /\ ~e.many THEN If(Given(c), ColumnText(c)) ELSE ColumnText(c)
  IN  IF e.inserts \in {"*", "*?*"}
      THEN [i \in DOMAIN map.cols |-> listed(map.cols[i].column)]
      ELSE <<>>

IsMark(c, map) == LogicEnable(map) /\ c.column = DecodeLogicDelete(map).column

InsertValues(e, map) ==
  LET valued(c) ==
        CASE IsMark(c, map) -> <<Text(<<Literal(c.logic_undelete), Word(",")>>)>>
          [] ~IsMark(c, map) /\ e.inserts = "*?*" -> <<If(Given(c.column), ArgText(c.column))>>
          [] ~IsMark(c, map) /\ e.inserts = "*" -> <<ArgText(c.column)>>
          [] OTHER -> <<>>
  IN  FlattenSeq([i \in DOMAIN map.cols |-> valued(map.cols[i])])

InsertItems(map) ==
  [i \in DOMAIN map.cols |->
     LET c == map.cols[i] IN
     Text((CASE IsMark(c, map) -> <<Literal(c.logic_undelete)>>
             [] ~IsMark(c, map) /\ i = 1 -> <<Word("("), Arg(c.column)>>
             [] ~IsMark(c, map) /\ i > 1 -> <<Arg(c.column)>>)
          \o <<Word(IF i = Len(map.cols) THEN ")" ELSE ",")>>)]

Trim(prefix, kids) == [tag |-> "trim", prefix |-> prefix, kids |-> kids]

InsertTemplate(e, map) ==
  <<Text(<<Word("insert into")>>),
    Trim(<<Word("(")>>, InsertColumns(e, map)),
    IF e.many THEN [tag |-> "foreach", kids |-> InsertItems(map)]
    ELSE Trim(<<Word("values"), Word("(")>>, InsertValues(e, map))>>

(* Without sets every column is set that is neither the id nor the version.*)
AllSets(map) ==
  LET plain == SelectSeq(map.cols, LAMBDA c : c.tag # "id" /\ ~c.version_enable)
  IN  [i \in DOMAIN plain |-> [column |-> plain[i].column, test |-> "name"]]

UpdateTemplate(e, map) ==
  LET logic   == LogicEnable(map)
      version == VersionEnable(map)
      sets    == IF e.sets = <<>> THEN AllSets(map) ELSE e.sets
  IN  <<Text(<<Word("update"), Word("set")>>)>>
        \o DecodeSets(sets, map, FALSE, version)
        \o (IF e.wheres # <<>> \/ logic
            THEN <<DecodeWheres(e.wheres, map, logic, version)>>
            ELSE <<>>)

DeleteTemplate(e, map) ==
  LET logic == LogicEnable(map)
      where == IF e.wheres = <<>> THEN <<>>
               ELSE <<DecodeWheres(e.wheres, map, logic, FALSE)>>
  IN  CASE logic -> <<Text(<<Word("update"), Word("set")>>)>>
                      \o DecodeSets(<<>>, map, TRUE, FALSE) \o where
        [] ~logic /\ e.wheres # <<>> -> <<Text(<<Word("delete from")>>)>> \o where
        [] ~logic /\ e.wheres = <<>> -> <<>>

StatementTag ==
  [selectTemplate |-> "select", insertTemplate |-> "insert",
   updateTemplate |-> "update", deleteTemplate |-> "delete"]

Templates == DOMAIN StatementTag

Generated(e, map) ==
  CASE e.tag = "selectTemplate" -> SelectTemplate(e, map)
    [] e.tag = "insertTemplate" -> InsertTemplate(e, map)
    [] e.tag = "updateTemplate" -> UpdateTemplate(e, map)
    [] e.tag = "deleteTemplate" -> DeleteTemplate(e, map)

MapName(e) == IF e.resultMap = "" THEN "BaseResultMap" ELSE e.resultMap
MapOf(e, its) == its[MapName(e)]

DecodePanics(e, its) ==
  \/ MapName(e) \notin DOMAIN its
  \/ e.tables = "" /\ MapOf(e, its).tables = ""
  \/ LogicPanics(MapOf(e, its))
  \/ e.tag = "updateTemplate" /\ VersionPanics(MapOf(e, its))

(* What is generated comes before what the element had.                    *)
Expanded(e, its) ==
  [e EXCEPT !.tag = StatementTag[e.tag], !.kids = Generated(e, MapOf(e, its)) \o e.kids]

(* DecodeTree, one element of its loop.                                    *)
DecodeTree(i) ==
  /\ stage = "decode" /\ i \in todo
  /\ todo' = todo \ {i}
  /\ LET e == items[i] IN
       CASE e.tag \notin Templates -> UNCHANGED <<items, stage>>
         [] e.tag \in Templates /\ DecodePanics(e, items) ->
              stage' = "panic" /\ UNCHANGED items
         [] e.tag \in Templates /\ ~DecodePanics(e, items) ->
              items' = [items EXCEPT ![i] = Expanded(e, items)] /\ UNCHANGED stage
  /\ UNCHANGED <<file, registered, child, work>>

-----------------------------------------------------------------------------
LoadInit ==
  /\ file \in Files
  /\ registered = 0 /\ items = <<>> /\ todo = {} /\ stage = "register"
  /\ child = <<>> /\ work = <<>>

Load == Register \/ NextLoop \/ Replace \/ \E i \in todo : Include(i) \/ DecodeTree(i)

LoadingSpec == LoadInit /\ [][Load]_loading

-----------------------------------------------------------------------------
(* The elements that loading is about, by id, as the file has them.        *)
Elements == {e \in ToSet(file) : e.tag \in MapperTags}
Named(i) == CHOOSE e \in Elements : ItemId(e) = i

(* No template takes another one for its resultMap.                        *)
PlainMaps ==
  \A e, x \in Elements : e.tag \in Templates /\ MapName(e) = ItemId(x) => x.tag \notin Templates

Expected(e) ==
  IF e.tag \in Templates THEN Expanded(e, [i \in DOMAIN items |-> Named(i)]) ELSE e

(* What is below the nodes S, level by level, what an include names being  *)
(* below it.                                                               *)
KidsMeant(n) ==
  IF n.tag = "include" THEN Named(n.refid).kids ELSE Kids(n)

Levels(S) ==
  LET f[k \in 0..Depth] == IF k = 0 THEN S ELSE UNION {ToSet(KidsMeant(n)) : n \in f[k - 1]} IN f

(* Once loaded a mapper is the same in whatever order Go has ranged over   *)
(* the map of its elements, twice: every template has its SQL in front of  *)
(* its own children, and every include, however deep and through whatever  *)
(* other includes it is reached, has got the children of what it names     *)
(* (XmlLoader.go:47-78, DecodeTree:51).                                    *)
Confluent ==
  stage = "ready" /\ PlainMaps =>
    \A e \in Elements :
      /\ items[ItemId(e)] = Expected(e)
      /\ \A k \in 0..Depth : \A n \in Levels(ToSet(e.kids))[k] :
           n.tag = "include" => n.el \in DOMAIN child /\ child[n.el] = KidsMeant(n)
=============================================================================
