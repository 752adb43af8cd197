--------------------------- MODULE TemplateTable ---------------------------
(***************************************************************************)
(* Clients that read, insert, update and delete the rows of a table with   *)
(* the statements that the templates render to (ast/), each statement      *)
(* atomic in the database.                                                 *)
(* What the database makes of the SQL is external: it refuses what is not  *)
(* a statement, names an unknown column or repeats a key.                  *)
(***************************************************************************)
EXTENDS Template

CONSTANTS
  CutName,      \* the names that begin with "and" or "or", with what follows those letters
  Clients, Ids,
  NoRow,        \* no row in the table, or no copy with a client
  Arguments,    \* the arguments of inserts: records of the columns
  Changes,      \* what an update makes of a copy: records of some columns
  MaxVersion,   \* bound on versions
  MaxCalls      \* bound on the calls that change the table

VARIABLES
  table,     \* the rows by id
  seen,      \* the row a client has read last
  removed,   \* the ids of deleted rows
  calls      \* the number of changing calls so far

rows == <<table, seen, removed, calls>>
vars == <<loading, rows>>

-----------------------------------------------------------------------------
(* What the nodes of ast/ render to with the arguments env; a foreach      *)
(* renders its children once for every one of the tuples.                  *)
TestHolds(t, env) == IF "in" \in DOMAIN t THEN env[t.given] \in t.in ELSE env[t.given] # Nil

Error == [is |-> "error"]

ArgValue(x, env) == IF x.plus = 0 THEN env[x.word] ELSE env[x.word] + 1
CannotAdd(x, env) == x.plus = 1 /\ env[x.word] = Nil

Resolved(t, env) ==
  LET x == IF t.is = "equation" THEN t.to ELSE t IN
    CASE x.is # "arg" -> t
      [] x.is = "arg" /\ CannotAdd(x, env) -> Error
      [] t.is = "arg" /\ ~CannotAdd(x, env) -> Literal(ArgValue(x, env))
      [] t.is = "equation" /\ x.is = "arg" /\ ~CannotAdd(x, env) ->
           Equation(t.word, Literal(ArgValue(x, env)))

(* where: without its first "and"; the letters of an operator are cut also *)
(* when they are the beginning of a name.                                  *)
Where(toks) ==
  LET rest ==
        IF toks[1] = Word("and") THEN Tail(toks)
        ELSE IF toks[1].is = "equation" /\ toks[1].word \in DOMAIN CutName
             THEN <<Equation(CutName[toks[1].word], toks[1].to)>> \o Tail(toks)
             ELSE toks
  IN  IF toks = <<>> THEN <<>> ELSE <<Word("where")>> \o rest

WithoutLast(w, toks) ==
  IF toks # <<>> /\ toks[Len(toks)] = w THEN Front(toks) ELSE toks

Joined(parts, w) ==
  FlattenSeq([i \in DOMAIN parts |-> IF i = 1 THEN parts[i] ELSE <<w>> \o parts[i]])

RECURSIVE Rendered(_, _, _)
Rendered(n, env, tuples) ==
  LET kids   == IF n.tag = "include" THEN child[n.el] ELSE n.kids
      all(e) == FlattenSeq([i \in DOMAIN kids |-> Rendered(kids[i], e, tuples)])
  IN  CASE n.tag = "text"    -> [i \in DOMAIN n.toks |-> Resolved(n.toks[i], env)]
        [] n.tag = "if"      -> IF TestHolds(n.holds, env) THEN all(env) ELSE <<>>
        [] n.tag = "include" -> all(env)
        [] n.tag = "where"   -> Where(all(env))
        [] n.tag = "trim"    -> IF all(env) = <<>> THEN <<>>
                                ELSE n.prefix \o WithoutLast(Word(","), all(env)) \o <<Word(")")>>
        [] n.tag = "foreach" -> IF tuples = <<>> THEN <<>>
                                ELSE <<Word("values")>>
                                       \o Joined([i \in DOMAIN tuples |-> all(tuples[i])], Word(","))

(* The SQL of a statement.                                                 *)
Sql(e, env, tuples) ==
  FlattenSeq([i \in DOMAIN e.kids |-> Rendered(e.kids[i], env, tuples)])

-----------------------------------------------------------------------------
(* The database: the statement that a sequence of tokens is, or Refused.   *)
Refused == [op |-> "refused"]

(* The resultMap of the file, whose columns are those of the table.        *)
TheMap == (CHOOSE e \in ToSet(file) : e.id = "BaseResultMap")
MapCols == ColumnNames(TheMap)
ColSet  == ToSet(MapCols)

IsSeries(s, w) == Len(s) % 2 = 1 /\ \A i \in DOMAIN s : (s[i] = Word(w)) <=> (i % 2 = 0)
Odds(s) == {s[i] : i \in {j \in DOMAIN s : j % 2 = 1}}

Equations(s, w) ==
  IsSeries(s, w) /\ \A t \in Odds(s) : t.is = "equation" /\ t.word \in ColSet

IndexOf(s, w) ==
  IF Word(w) \in ToSet(s) THEN CHOOSE i \in DOMAIN s : s[i] = Word(w) ELSE Len(s) + 1

(* The part before where, and the conditions behind it.                    *)
Head1(s) == SubSeq(s, 1, IndexOf(s, "where") - 1)
Tail1(s) == SubSeq(s, IndexOf(s, "where") + 1, Len(s))
WhereOK(s) == IndexOf(s, "where") > Len(s) \/ Equations(Tail1(s), "and")

Assigned(s) == SubSeq(Head1(s), 3, Len(Head1(s)))

(* insert into (c, ...) values (v, ...), ...; without columns, all of them. *)
Group(n) == [i \in 1..2 * n + 1 |->
               CASE i = 1 -> "(" [] i = 2 * n + 1 -> ")" [] i % 2 = 0 /\ i < 2 * n + 1 -> "value"
                 [] i % 2 = 1 /\ 1 < i /\ i < 2 * n + 1 -> ","]
Shape(t) == IF t.is = "word" THEN t.word ELSE t.is

ListedColumns(s) ==
  LET list == SubSeq(s, 3, IndexOf(s, "values") - 2)
  IN  IF s[2] = Word("(") THEN [i \in 1..(Len(list) + 1) \div 2 |-> list[2 * i - 1].word]
      ELSE MapCols

InsertOK(s) ==
  LET v == IndexOf(s, "values") IN
    /\ v < Len(s)
    /\ v = 2 \/ (s[2] = Word("(") /\ s[v - 1] = Word(")") /\ IsSeries(SubSeq(s, 3, v - 2), ","))
    /\ LET n == Len(ListedColumns(s))
           w == 2 * n + 2
       IN  /\ (Len(s) - v + 1) % w = 0
           /\ \A i \in 1..Len(s) - v :
                Shape(s[v + i]) = IF i % w = 0 THEN "," ELSE Group(n)[i % w]

InsertedRows(s) ==
  LET v == IndexOf(s, "values")
      cols == ListedColumns(s)
      w == 2 * Len(cols) + 2
  IN  [k \in 1..(Len(s) - v + 1) \div w |->
         [c \in ColSet |->
            IF c \in ToSet(cols)
            THEN s[v + (k - 1) * w + 2 * (CHOOSE j \in DOMAIN cols : cols[j] = c)].val
            ELSE Nil]]

Statement(s) ==
  CASE s # <<>> /\ Error \notin ToSet(s) /\ s[1] = Word("select") /\ WhereOK(s) ->
         [op |-> "select", where |-> Odds(Tail1(s))]
    [] s # <<>> /\ Error \notin ToSet(s) /\ s[1] = Word("update") /\ WhereOK(s)
         /\ Equations(Assigned(s), ",") ->
         [op |-> "update", sets |-> Odds(Assigned(s)), where |-> Odds(Tail1(s))]
    [] s # <<>> /\ Error \notin ToSet(s) /\ s[1] = Word("delete from") /\ WhereOK(s) ->
         [op |-> "delete", where |-> Odds(Tail1(s))]
    [] s # <<>> /\ Error \notin ToSet(s) /\ s[1] = Word("insert into") /\ InsertOK(s) ->
         [op |-> "insert", rows |-> InsertedRows(s)]
    [] OTHER -> Refused

(* What the statements do.  A comparison with NULL is not true.            *)
Matches(row, where) ==
  row # NoRow /\ \A t \in where : t.to.val # Nil /\ row[t.word] = t.to.val

Hit(where) == {i \in Ids : Matches(table[i], where)}

Updated(row, sets) ==
  [c \in ColSet |-> IF \E t \in sets : t.word = c
                    THEN (CHOOSE t \in sets : t.word = c).to.val ELSE row[c]]

Execute(st) ==
  CASE st.op = "update" ->
         table' = [i \in Ids |-> IF i \in Hit(st.where) THEN Updated(table[i], st.sets) ELSE table[i]]
    [] st.op = "delete" ->
         table' = [i \in Ids |-> IF i \in Hit(st.where) THEN NoRow ELSE table[i]]
    [] st.op = "insert" ->
         LET ids == [k \in DOMAIN st.rows |-> st.rows[k].id] IN
           IF IsInjective(ids) /\ \A k \in DOMAIN ids : ids[k] \in Ids /\ table[ids[k]] = NoRow
           THEN table' = [i \in Ids |-> IF \E k \in DOMAIN ids : ids[k] = i
                                        THEN st.rows[CHOOSE k \in DOMAIN ids : ids[k] = i]
                                        ELSE table[i]]
           ELSE UNCHANGED table
    [] st.op \in {"select", "refused"} -> UNCHANGED table

-----------------------------------------------------------------------------
(* The calls.                                                              *)
Sql1(i, env)  == Statement(Sql(items[i], env, <<>>))
SqlAll(i, rs) == Statement(Sql(items[i], rs[1], rs))
Has(i) == stage = "ready" /\ i \in DOMAIN items

Select(c, env) ==
  /\ Has("selectTemplate")
  /\ LET st == Sql1("selectTemplate", env) IN
       /\ st.op = "select"
       /\ \E i \in Hit(st.where) : seen' = [seen EXCEPT ![c] = table[i]]
  /\ UNCHANGED <<loading, table, removed, calls>>

Insert(i, rs) ==
  /\ Has(i) /\ calls < MaxCalls
  /\ Execute(IF items[i].many THEN SqlAll(i, rs) ELSE Sql1(i, rs[1]))
  /\ calls' = calls + 1
  /\ UNCHANGED <<loading, seen, removed>>

(* An update takes the copy, with some of its columns changed.             *)
Changed(copy, change) == [c \in DOMAIN copy |-> IF c \in DOMAIN change THEN change[c] ELSE copy[c]]

Update(c, change) ==
  /\ Has("updateTemplate") /\ calls < MaxCalls /\ seen[c] # NoRow
  /\ "version" \in ColSet => seen[c].version \in {Nil} \cup 0..MaxVersion - 1
  /\ Execute(Sql1("updateTemplate", Changed(seen[c], change)))
  /\ calls' = calls + 1
  /\ UNCHANGED <<loading, seen, removed>>

Delete(c, change) ==
  /\ Has("deleteTemplate") /\ calls < MaxCalls /\ seen[c] # NoRow
  /\ LET st == Sql1("deleteTemplate", Changed(seen[c], change)) IN
       /\ Execute(st)
       /\ removed' = IF st.op = "refused" THEN removed ELSE removed \cup Hit(st.where)
  /\ calls' = calls + 1
  /\ UNCHANGED <<loading, seen>>

TableInit ==
  /\ LoadInit
  /\ table = [i \in Ids |-> NoRow] /\ seen = [c \in Clients |-> NoRow]
  /\ removed = {} /\ calls = 0

Next ==
  \/ Load /\ UNCHANGED rows
  \/ \E c \in Clients, a \in Arguments : Select(c, a)
  \/ \E a \in Arguments : Insert("insertTemplate", <<a>>)
  \/ \E a \in Arguments, b \in Arguments : a.id < b.id /\ Insert("batch", <<a, b>>)
  \/ \E c \in Clients, d \in Changes : Update(c, d)
  \/ \E c \in Clients, d \in Changes : Delete(c, d)

Spec == TableInit /\ [][Next]_vars

-----------------------------------------------------------------------------
TypeOK ==
  /\ file \in Files /\ registered \in 0..Len(file) /\ stage \in Stages
  /\ todo \subseteq DOMAIN items
  /\ \/ stage = "panic"
     \/ Cardinality(DOMAIN items) = Cardinality({k \in 1..registered : file[k].tag \in MapperTags})
  /\ \A i \in DOMAIN items : ItemId(items[i]) = i \/ items[i].tag = StatementTag[i]
  /\ \A i \in Ids : table[i] # NoRow => DOMAIN table[i] = ColSet /\ table[i].id = i
  /\ \A c \in Clients : seen[c] # NoRow => DOMAIN seen[c] = ColSet
  /\ removed \subseteq Ids /\ calls \in 0..MaxCalls

(* What a template says with the arguments env, or rs for a bulk insert,   *)
(* and when it is written so that it can be said.                          *)
Mark   == DecodeLogicDelete(TheMap)
Marked(v) == IF LogicEnable(TheMap) THEN {Equation(Mark.column, Literal(v))} ELSE {}
Held(entries, env) ==
  {Equation(x.column, Literal(env[x.column])) :
     x \in {y \in ToSet(entries) : y.test = "none" \/ TestHolds(MakeIfNotNull(y), env)}}
Versioned(env, n) ==
  IF VersionEnable(TheMap)
  THEN LET c == DecodeVersionData(TheMap).column
       IN  IF env[c] = Nil /\ n = 1 THEN {Error}
           ELSE {Equation(c, Literal(IF n = 0 THEN env[c] ELSE env[c] + n))}
  ELSE {}
SetsOf(e) == IF e.sets = <<>> THEN AllSets(TheMap) ELSE e.sets
Live == IF LogicEnable(TheMap) THEN Marked(Mark.logic_undelete) ELSE {}

RowOf(a) == [c \in ColSet |-> IF LogicEnable(TheMap) /\ c = Mark.column THEN Mark.logic_undelete ELSE a[c]]

Meant(e, env, rs) ==
  CASE e.tag = "selectTemplate" -> [op |-> "select", where |-> Live \cup Held(e.wheres, env)]
    [] e.tag = "updateTemplate" ->
         [op |-> "update", sets |-> Held(SetsOf(e), env) \cup Versioned(env, 1),
          where |-> Live \cup Held(e.wheres, env) \cup Versioned(env, 0)]
    [] e.tag = "deleteTemplate" /\ LogicEnable(TheMap) ->
         [op |-> "update", sets |-> Marked(Mark.logic_deleted),
          where |-> IF e.wheres = <<>> THEN {} ELSE Live \cup Held(e.wheres, env)]
    [] e.tag = "deleteTemplate" /\ ~LogicEnable(TheMap) ->
         [op |-> "delete", where |-> Held(e.wheres, env)]
    [] e.tag = "insertTemplate" -> [op |-> "insert", rows |-> [k \in DOMAIN rs |-> RowOf(rs[k])]]

FirstHolds(entries, env) ==
  entries # <<>> /\ (entries[1].test = "none" \/ TestHolds(MakeIfNotNull(entries[1]), env))

(* The first condition is on a name that where cuts.                       *)
IsCut(e, env) ==
  /\ FirstHolds(e.wheres, env) /\ e.wheres[1].column \in DOMAIN CutName
  /\ ~LogicEnable(TheMap)
  /\ ~(e.tag = "updateTemplate" /\ VersionEnable(TheMap))

Regular(e, env) ==
  CASE e.tag = "selectTemplate" -> e.wheres # <<>> /\ ~IsCut(e, env)
    [] e.tag = "deleteTemplate" ->
         IF LogicEnable(TheMap) THEN TRUE ELSE e.wheres # <<>> /\ ~IsCut(e, env)
    [] e.tag = "updateTemplate" ->
         FirstHolds(SetsOf(e), env) /\ ~IsCut(e, env) /\ Error \notin Versioned(env, 1)
    [] e.tag = "insertTemplate" ->
         IF e.many THEN ~IsMark(TheMap.cols[1], TheMap)
         ELSE /\ e.inserts \in {"*", "*?*"}
              /\ LogicEnable(TheMap) /\ e.inserts = "*?*" => env[Mark.column] # Nil

(* A version is only checked by an update that has a where.                *)
Unchecked(e) ==
  e.tag = "updateTemplate" /\ VersionEnable(TheMap) /\ e.wheres = <<>> /\ ~LogicEnable(TheMap)

(* With all arguments the statement of a template is what the template     *)
(* says - the conditions and assignments that hold, on rows not deleted,   *)
(* of the version known - or the database refuses it; and it is refused    *)
(* only where the template is irregular (GoMybatisTempleteDecoder.go).     *)
Faithful ==
  stage = "ready" /\ calls = 0 =>
    \A k \in DOMAIN file : file[k].tag \in Templates /\ ~Unchecked(file[k]) =>
      \A a \in Arguments, b \in Arguments :
        LET e  == file[k]
            rs == IF e.many /\ a # b THEN <<a, b>> ELSE <<a>>
            st == Statement(Sql(items[ItemId(e)], a, rs))
        IN  \/ st = Meant(e, a, rs)
            \/ st = Refused /\ ~Regular(e, a)

-----------------------------------------------------------------------------
(* The table as its users see it.                                          *)
Alive(row) == row # NoRow /\ (LogicEnable(TheMap) => row[Mark.column] = Mark.logic_undelete)

Value(row, c) == IF c \in DOMAIN row THEN row[c] ELSE Nil

Same(copy, row) ==
  IF VersionEnable(TheMap) THEN copy.version = row.version ELSE copy = row

(* A lock is on one row: the update names its id.                          *)
Locks ==
  /\ VersionEnable(TheMap)
  /\ \E e \in ToSet(file) :
       e.tag = "updateTemplate" /\ \E j \in DOMAIN e.wheres : e.wheres[j].column = "id"

Ready == stage = "ready"

Kept == INSTANCE KeptTable WITH
  Contents <- [name : {Value(a, "name") : a \in Arguments \cup Changes} \cup {Nil},
               order : {Value(a, "order") : a \in Arguments \cup Changes} \cup {Nil}],
  Gone     <- NoRow,
  live     <- [i \in Ids |-> IF Ready /\ Alive(table[i])
                             THEN [name |-> Value(table[i], "name"), order |-> Value(table[i], "order")]
                             ELSE NoRow],
  current  <- IF Ready THEN {x \in Clients \X Ids :
                               /\ seen[x[1]] # NoRow /\ seen[x[1]].id = x[2]
                               /\ Alive(table[x[2]]) /\ Same(seen[x[1]], table[x[2]])}
              ELSE {},
  promise  <- [keep |-> LogicEnable(TheMap), lock |-> Locks]

(* Logical deletion and the optimistic lock keep their promise under any   *)
(* order of the clients' calls: a deleted row is not seen nor changed nor  *)
(* replaced, and with a version and the row's id in wheres no update       *)
(* overwrites what its client has not read (DecodeWheres, DecodeSets).     *)
KeepsRows == Kept!Spec
=============================================================================
