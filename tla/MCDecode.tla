------------------------------- MODULE MCDecode -------------------------------
(* Instance of Decode for TLC. *)
EXTENDS Decode

V(sort, text) == [sort |-> sort, text |-> text]

(* What drivers report. *)
Values ==
  {V("null", ""), V("time", "stamp"), V("unsupported", "word")}
  \cup {V("int", t) : t \in {"0", "1", "7"}} \cup {V("float", t) : t \in Numbers}
  \cup {V("bool", t) : t \in {"true", "false"}}
  \cup {V(sort, t) : sort \in {"string", "bytes"}, t \in Texts}

AllColumns == [value : Values, type : Types, field : {"same", "snake", "none"},
               langType : {"no resultMap", "not in resultMap", "string", "int"}]

(* Beside another column: one that suits, one that does not fit, one that  *)
(* is no JSON, one that is not in the result.                              *)
Seconds == {[value |-> V("int", "7"), type |-> "int", field |-> "same", langType |-> "no resultMap"],
            [value |-> V("int", "7"), type |-> "string", field |-> "snake", langType |-> "int"],
            [value |-> V("string", "word"), type |-> "Level", field |-> "same", langType |-> "no resultMap"],
            [value |-> V("null", ""), type |-> "bool", field |-> "none", langType |-> "no resultMap"]}

MCAnswers ==
  {<<c>> : c \in AllColumns}
  \cup {<<c, d>> : c \in {c \in AllColumns : c.field = "snake" /\ c.langType = "no resultMap"},
                  d \in Seconds}
===============================================================================
