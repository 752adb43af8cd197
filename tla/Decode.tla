-------------------------------- MODULE Decode --------------------------------
(***************************************************************************)
(* How the rows of a query become the value a mapper function returns      *)
(* (src/GoMybatisRowsDecoder.go, src/GoMybatisSqlResultDecoder.go).        *)
(*                                                                         *)
(* Every value is first turned into text, a row into a JSON object (or one *)
(* JSON value) whose quotes are put by the type of the field or by the     *)
(* langType of the resultMap, and encoding/json fills the result.          *)
(*                                                                         *)
(* A text is one of a few that the code or JSON tell apart: "" and "0", a  *)
(* number, a word of JSON, any other word, one with a quote in it, a point *)
(* of time, and a control character.                                       *)
(***************************************************************************)
EXTENDS Integers, Sequences

CONSTANT Answers    \* the columns that queries answer with, and where each goes

Numbers == {"0", "1", "7", "1.5"}
Texts == Numbers \cup {"", "true", "false", "word", "quote", "stamp",
                       "nul"}                \* the byte 0

(* How a driver reports a value; text is what it is formatted as.          *)
Sorts == {"null", "int", "float", "string", "bytes", "bool", "time", "unsupported"}

Types == {"bool", "*bool", "int", "*int", "float64", "string", "*string",
          "time.Time", "*time.Time",
          "Level"}                          \* type Level string

Columns == [value : [sort : Sorts, text : Texts],
            type  : Types,                   \* of the field it is meant for
            field : {"same", "snake", "none"},   \* how the names compare
            langType : Types \cup {"no resultMap", "not in resultMap"}]

ASSUME AnswersAssumption == Answers \subseteq Seq(Columns)

(* The result: a value, a pointer to one, a list of them, and with fields. *)
Shapes == {"basic", "pointer", "basics", "struct", "structs", "map"}

VARIABLES input, at,
          data,       \* the texts of a row, by column
          result      \* [error, fields]: what Decode answers and has filled

vars == <<input, at, data, result>>

Unset == "unset"      \* the zero value of the field
Failed(error, fields) == [error |-> error, fields |-> fields]
Good(fields) == Failed("none", fields)

Init ==
  /\ input \in [shape : Shapes, rows : 0..2, columns : Answers]
  /\ at = "rows"
  /\ data = <<>>
  /\ result = Good([i \in DOMAIN input.columns |-> Unset])

-----------------------------------------------------------------------------
(* value2String; NULL is the empty text, and so is an empty string.        *)
value2String(v) == IF v.sort = "bytes" /\ v.text = "nul" THEN "0" ELSE v.text

Rows2maps ==
  /\ at = "rows"
  /\ IF input.rows > 0 /\ \E i \in DOMAIN input.columns :
                            input.columns[i].value.sort = "unsupported"
     THEN at' = "done" /\ result' = Failed("conversion", result.fields) /\ UNCHANGED data
     ELSE /\ at' = "decode"
          /\ data' = [i \in DOMAIN input.columns |-> value2String(input.columns[i].value)]
          /\ UNCHANGED result
  /\ UNCHANGED input

-----------------------------------------------------------------------------
isStringInJson(type) == type \in {"string", "*string", "time.Time", "*time.Time"}
isBoolInJson(type) == type \in {"bool", "*bool"}

OnlyOneIsTrue(t) == IF t = "1" THEN "true" ELSE "false"   \* mutant

toBoolString(t) == IF t = "0" THEN "false" ELSE "true"

(* A JSON value.  Text that is quoted as it is may end its string early,   *)
(* and JSON allows no control character in a string.                       *)
Json(form, t) == [form |-> form, text |-> t]
Null == Json("null", "")
Quoted(t) == Json("quoted", t)
QuotedAsIs(t) == Json(IF t \in {"quote", "nul"} THEN "broken" ELSE "quoted", t)
Raw(t) == Json("raw", t)

Written(t, type) ==
  IF t = "" THEN Null
  ELSE IF isStringInJson(type) THEN Quoted(t)
  ELSE IF isBoolInJson(type) THEN Raw(toBoolString(t))
  ELSE Raw(t)

(* One value of a basic type: no NULL, no escapes.                         *)
WrittenBasic(t, type) ==
  IF isStringInJson(type) THEN QuotedAsIs(t)
  ELSE IF isBoolInJson(type) THEN Raw(toBoolString(t))
  ELSE Raw(t)

(* The fields of the result known to makeStructMap; a map has none.        *)
InStructMap(c) == c.field \in {"same", "snake"} /\ input.shape \in {"struct", "structs"}

(* makeJsonObjBytes for column i: the resultMap, if there is one, decides. *)
Fetched(c) == IF c.langType = "no resultMap" THEN InStructMap(c)
              ELSE c.langType # "not in resultMap"
TypeOf(c) == IF c.langType = "no resultMap" THEN c.type ELSE c.langType
Property(i) == IF Fetched(input.columns[i]) THEN Written(data[i], TypeOf(input.columns[i]))
               ELSE Null

-----------------------------------------------------------------------------
(* json.Unmarshal of one value into a field of some type.                  *)
Wellformed(j) ==
  j.form # "broken" /\ (j.form = "raw" => j.text \in Numbers \cup {"true", "false"})

Base(type) == CASE type = "*bool" -> "bool" [] type = "*int" -> "int"
                [] type = "*string" -> "string" [] type = "*time.Time" -> "time.Time"
                [] type = "Level" -> "string"
                [] OTHER -> type

Fits(j, type) ==
  \/ j.form = "null"
  \/ j.form = "quoted" /\ \/ Base(type) = "string"
                          \/ Base(type) = "time.Time" /\ j.text = "stamp"
  \/ j.form = "raw" /\ \/ Base(type) = "bool" /\ j.text \in {"true", "false"}
                       \/ Base(type) = "int" /\ j.text \in Numbers \ {"1.5"}
                       \/ Base(type) = "float64" /\ j.text \in Numbers

(* Text that is no JSON fills nothing; a value that does not fit leaves    *)
(* its own field alone and fails in the end, but one that is no point of   *)
(* time fails at once: only the columns before it have then been read, and *)
(* these may be any, as they are written in the order of a map.            *)
Unmarshal(js, before) ==
  LET Known(i) == input.shape \in {"struct", "structs"} => input.columns[i].field # "none"
      Fit(i) == Fits(js[i], input.columns[i].type)
      Misfits == {i \in DOMAIN js : Known(i) /\ ~Fit(i)}
      Read == IF \E i \in Misfits : Base(input.columns[i].type) = "time.Time" THEN before
              ELSE DOMAIN js
  IN IF \E i \in DOMAIN js : ~Wellformed(js[i]) THEN Failed("syntax", result.fields)
     ELSE Failed(IF Misfits = {} THEN "none" ELSE "mismatch",
                 [i \in DOMAIN js |-> IF /\ i \in Read /\ Known(i) /\ Fit(i)
                                         /\ js[i].form # "null"
                                      THEN js[i].text ELSE Unset])

-----------------------------------------------------------------------------
Lists == {"basics", "structs"}

(* No rows leave the result alone, and only a list takes more than one.    *)
(* A value of a basic type takes whichever column the map yields first;    *)
(* for a pointer or a list of such values an object is made of several,    *)
(* which does not fit.                                                     *)
Decoding(first, before) ==
  IF input.rows = 0 THEN result
  ELSE IF input.shape \notin Lists /\ input.rows > 1 THEN Failed("many", result.fields)
  ELSE IF input.shape = "basic"
       THEN Unmarshal(<<WrittenBasic(data[first], input.columns[1].type)>>, before)
  ELSE IF input.shape \in {"pointer", "basics"}
       THEN IF Len(data) = 1 THEN Unmarshal(<<Written(data[1], input.columns[1].type)>>, before)
            ELSE Failed("mismatch", result.fields)
  ELSE Unmarshal([i \in DOMAIN data |-> Property(i)], before)

Decode ==
  /\ at = "decode"
  /\ at' = "done"
  /\ \E first \in DOMAIN data, before \in SUBSET DOMAIN data :
       result' = Decoding(first, before)
  /\ UNCHANGED <<input, data>>

Next == Rows2maps \/ Decode

Spec == Init /\ [][Next]_vars

-----------------------------------------------------------------------------
(* What a column is to give a field of the type it is meant for: nothing   *)
(* if it is NULL or empty, else its truth or its text.                     *)
Meaning(c) ==
  LET t == IF c.value.text = "nul" /\ c.value.sort = "bytes" THEN "0" ELSE c.value.text
  IN IF t = "" THEN Unset
     ELSE IF Base(c.type) # "bool" THEN t
     ELSE IF t = "0" THEN "false" ELSE "true"

(* A column that can be of the type.  Not among them: what a driver        *)
(* reports as false, which is read as true; a named string type, which is  *)
(* not quoted; a value of a basic type that is NULL or empty, and a string *)
(* on its own with a quote or a control character, which are not escaped.  *)
Suited(c) ==
  /\ c.field # "none" \/ input.shape \notin {"struct", "structs"}
  /\ c.langType = "no resultMap" \/ Base(c.langType) = Base(c.type)
  /\ "Level" \notin {c.type, c.langType} /\ c.value.sort # "unsupported"
  /\ LET t == Meaning(c)
     IN \/ t = Unset
        \/ Base(c.type) = "string"
        \/ Base(c.type) = "bool" /\ c.value.text \notin {"false", "word", "quote", "stamp"}
        \/ Base(c.type) = "int" /\ t \in Numbers \ {"1.5"}
        \/ Base(c.type) = "float64" /\ t \in Numbers
        \/ Base(c.type) = "time.Time" /\ t = "stamp"
  /\ input.shape = "basic" =>
       /\ c.type = Base(c.type) /\ Meaning(c) # Unset
       /\ Base(c.type) = "string" => Meaning(c) \notin {"quote", "nul"}

(* Rows that suit the result are decoded without an error and every field  *)
(* has what its column says, whatever the driver reports it as, however    *)
(* the names are spelled, with a resultMap or without, alone, in a struct, *)
(* behind a pointer or in a list (GoMybatisSqlResultDecoder.go:16-87,      *)
(* 192-281, GoMybatisRowsDecoder.go:30-112).                               *)
Decoded ==
  /\ at = "done" /\ input.rows > 0 /\ input.shape # "map"
  /\ input.rows = 1 \/ input.shape \in Lists
  /\ input.shape \notin {"struct", "structs"} => Len(input.columns) = 1
  /\ \A i \in DOMAIN input.columns : Suited(input.columns[i])
  => result = Good([i \in DOMAIN input.columns |-> Meaning(input.columns[i])])
===============================================================================
