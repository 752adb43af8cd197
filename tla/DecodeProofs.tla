----------------------------- MODULE DecodeProofs -----------------------------
(***************************************************************************)
(* Proofs about the two decoders.  Of Decode, for any columns that queries *)
(* may answer with: what becomes of one column, then of a row of any       *)
(* number of them.  Of Template, for any mapper files: what becomes of the *)
(* elements of one, in whatever order the maps of them are ranged over.    *)
(***************************************************************************)
EXTENDS Decode, Template, WellFoundedInduction, TLAPS

(* What json.Unmarshal leaves in a field that can hold the value.          *)
Taken(j) == IF j.form # "null" THEN j.text ELSE Unset

(* A value that becomes what is meant.                                     *)
Becomes(j, type, meaning) == Wellformed(j) /\ Fits(j, type) /\ Taken(j) = meaning

(* The text of a column can be of the type, and what it then is.           *)
TextSuits(t, type) ==
  \/ t = ""
  \/ Base(type) = "string"
  \/ Base(type) = "bool" /\ t \in Texts \ {"", "false", "word", "quote", "stamp"}
  \/ Base(type) = "int" /\ t \in Numbers \ {"1.5"}
  \/ Base(type) = "float64" /\ t \in Numbers
  \/ Base(type) = "time.Time" /\ t = "stamp"

TextMeans(t, type) ==
  IF t = "" THEN Unset
  ELSE IF Base(type) # "bool" THEN t
  ELSE IF t = "0" THEN "false" ELSE "true"

-----------------------------------------------------------------------------
LEMMA Bases ==
  ASSUME NEW type \in Types \ {"Level"}
  PROVE  /\ type \in {"bool", "*bool"} <=> Base(type) = "bool"
         /\ type \in {"int", "*int"} <=> Base(type) = "int"
         /\ type = "float64" <=> Base(type) = "float64"
         /\ type \in {"string", "*string"} <=> Base(type) = "string"
         /\ type \in {"time.Time", "*time.Time"} <=> Base(type) = "time.Time"
BY DEF Types, Base

(* Text is written by one type and read by another one of the same base.   *)
LEMMA WrittenBecomes ==
  ASSUME NEW t \in Texts, NEW type \in Types \ {"Level"}, NEW of \in Types \ {"Level"},
         Base(of) = Base(type), TextSuits(t, type)
  PROVE  Becomes(Written(t, of), type, TextMeans(t, type))
<1>1. CASE t = ""
  BY <1>1 DEF Written, Null, Json, Becomes, Wellformed, Fits, Taken, TextMeans
<1>2. CASE t # "" /\ Base(type) \in {"string", "time.Time"}
  <2>1. isStringInJson(of)
    BY <1>2, Bases DEF isStringInJson
  <2>2. PICK j : j = Written(t, of) /\ j.form = "quoted" /\ j.text = t
    <3>1. Written(t, of) = [form |-> "quoted", text |-> t]
      BY <1>2, <2>1 DEF Written, Quoted, Json
    <3>2. QED
      BY <3>1
  <2>3. Base(type) = "string" \/ (Base(type) = "time.Time" /\ t = "stamp")
    BY <1>2 DEF TextSuits
  <2>4. Wellformed(j)
    BY <2>2 DEF Wellformed
  <2>5. Fits(j, type)
    BY <2>2, <2>3 DEF Fits
  <2>6. Taken(j) = TextMeans(t, type)
    BY <1>2, <2>2 DEF Taken, TextMeans
  <2>7. QED
    BY <2>2, <2>4, <2>5, <2>6 DEF Becomes
<1>3. CASE t # "" /\ Base(type) = "bool"
  <2>1. ~isStringInJson(of) /\ isBoolInJson(of)
    BY <1>3, Bases DEF isStringInJson, isBoolInJson
  <2>2. PICK j : /\ j = Written(t, of) /\ j.form = "raw"
                 /\ j.text = IF t = "0" THEN "false" ELSE "true"
    <3>1. Written(t, of) = [form |-> "raw", text |-> IF t = "0" THEN "false" ELSE "true"]
      BY <1>3, <2>1 DEF Written, Raw, Json, toBoolString
    <3>2. QED
      BY <3>1
  <2>3. Wellformed(j)
    BY <2>2 DEF Wellformed
  <2>4. Fits(j, type)
    BY <1>3, <2>2 DEF Fits
  <2>5. Taken(j) = TextMeans(t, type)
    BY <1>3, <2>2 DEF Taken, TextMeans
  <2>6. QED
    BY <2>2, <2>3, <2>4, <2>5 DEF Becomes
<1>4. CASE t # "" /\ Base(type) \in {"int", "float64"}
  <2>1. ~isStringInJson(of) /\ ~isBoolInJson(of)
    BY <1>4, Bases DEF isStringInJson, isBoolInJson
  <2>2. PICK j : j = Written(t, of) /\ j.form = "raw" /\ j.text = t
    <3>1. Written(t, of) = [form |-> "raw", text |-> t]
      BY <1>4, <2>1 DEF Written, Raw, Json
    <3>2. QED
      BY <3>1
  <2>3. t \in Numbers /\ (Base(type) = "int" => t # "1.5")
    BY <1>4 DEF TextSuits
  <2>4. Wellformed(j)
    BY <2>2, <2>3 DEF Wellformed
  <2>5. Fits(j, type)
    BY <1>4, <2>2, <2>3 DEF Fits, Numbers
  <2>6. Taken(j) = TextMeans(t, type)
    BY <1>4, <2>2 DEF Taken, TextMeans
  <2>7. QED
    BY <2>2, <2>4, <2>5, <2>6 DEF Becomes
<1>5. QED
  BY <1>1, <1>2, <1>3, <1>4, Bases DEF Types

(* So is a value of a basic type that is neither empty nor broken.         *)
LEMMA WrittenBasicIs ==
  ASSUME NEW t \in Texts \ {""}, NEW type, isStringInJson(type) => t \notin {"quote", "nul"}
  PROVE  WrittenBasic(t, type) = Written(t, type)
BY DEF WrittenBasic, Written, QuotedAsIs, Quoted, Json

-----------------------------------------------------------------------------
LEMMA SuitedText ==
  ASSUME NEW c \in Columns, Suited(c)
  PROVE  /\ value2String(c.value) \in Texts /\ c.type \in Types \ {"Level"}
         /\ TextSuits(value2String(c.value), c.type)
         /\ Meaning(c) = TextMeans(value2String(c.value), c.type)
<1> DEFINE t == value2String(c.value)
<1>1. /\ c.value.sort \in Sorts /\ c.value.text \in Texts /\ c.type \in Types
      /\ c.type # "Level"
  BY DEF Columns, Suited
<1>2. t = IF c.value.text = "nul" /\ c.value.sort = "bytes" THEN "0" ELSE c.value.text
  BY DEF value2String
<1>3. t \in Texts
  BY <1>1, <1>2 DEF Texts, Numbers
<1>4. Meaning(c) = TextMeans(t, c.type)
  BY <1>2 DEF Meaning, TextMeans
<1>5. t = "" <=> Meaning(c) = Unset
  BY <1>3, <1>4 DEF TextMeans, Unset, Texts, Numbers
<1>6. \/ t = ""
      \/ Base(c.type) = "string"
      \/ Base(c.type) = "bool" /\ c.value.text \notin {"false", "word", "quote", "stamp"}
      \/ Base(c.type) # "bool" /\ TextSuits(t, c.type)
  <2>1. CASE Base(c.type) = "bool" \/ t = ""
    BY <1>5, <2>1 DEF Suited
  <2>2. CASE Base(c.type) # "bool" /\ t # ""
    <3>1. Meaning(c) = t
      BY <1>4, <2>2 DEF TextMeans
    <3>2. QED
      BY <1>5, <2>2, <3>1 DEF Suited, TextSuits
  <2>3. QED
    BY <2>1, <2>2
<1>7. TextSuits(t, c.type)
  BY <1>2, <1>3, <1>6 DEF TextSuits
<1>8. QED
  BY <1>1, <1>3, <1>4, <1>7

(* What a column becomes in a struct, in a list or behind a pointer, alone.*)
LEMMA FieldBecomes ==
  ASSUME NEW c \in Columns, Suited(c), input.shape \in {"struct", "structs"}
  PROVE  /\ c.field # "none" /\ Fetched(c)
         /\ Becomes(Written(value2String(c.value), TypeOf(c)), c.type, Meaning(c))
<1>1. c.field \in {"same", "snake"}
  BY DEF Suited, Columns
<1>2. Fetched(c) /\ TypeOf(c) \in Types \ {"Level"} /\ Base(TypeOf(c)) = Base(c.type)
  <2>1. CASE c.langType = "no resultMap"
    BY <1>1, <2>1, SuitedText DEF Fetched, InStructMap, TypeOf
  <2>2. CASE c.langType # "no resultMap"
    <3>1. Base(c.langType) = Base(c.type) /\ c.langType # "Level"
      BY <2>2 DEF Suited
    <3>2. c.langType # "not in resultMap"
      <4>1. Base("not in resultMap") = "not in resultMap"
        BY DEF Base
      <4>2. Base(c.type) # "not in resultMap"
        BY SuitedText DEF Base, Types
      <4>3. QED
        BY <3>1, <4>1, <4>2
    <3>3. QED
      BY <2>2, <3>1, <3>2 DEF Fetched, TypeOf, Columns
  <2>3. QED
    BY <2>1, <2>2
<1>3. QED
  BY <1>1, <1>2, SuitedText, WrittenBecomes

LEMMA AloneBecomes ==
  ASSUME NEW c \in Columns, Suited(c)
  PROVE  /\ Becomes(Written(value2String(c.value), c.type), c.type, Meaning(c))
         /\ input.shape = "basic" =>
              Becomes(WrittenBasic(value2String(c.value), c.type), c.type, Meaning(c))
<1> DEFINE t == value2String(c.value)
<1>1. Becomes(Written(t, c.type), c.type, Meaning(c))
  BY SuitedText, WrittenBecomes
<1>2. ASSUME input.shape = "basic"
      PROVE  t \in Texts \ {""} /\ (isStringInJson(c.type) => t \notin {"quote", "nul"})
  <2>1. /\ t \in Texts /\ c.type \in Types \ {"Level"} /\ TextSuits(t, c.type)
        /\ Meaning(c) = TextMeans(t, c.type)
    BY SuitedText
  <2>2. t # ""
    BY <1>2, <2>1 DEF Suited, TextMeans
  <2>3. CASE Base(c.type) = "string"
    BY <1>2, <2>1, <2>2, <2>3 DEF Suited, TextMeans
  <2>4. CASE Base(c.type) = "time.Time"
    BY <2>1, <2>2, <2>4 DEF TextSuits
  <2>5. QED
    BY <2>1, <2>2, <2>3, <2>4, Bases DEF isStringInJson
<1>3. QED
  BY <1>1, <1>2, WrittenBasicIs

-----------------------------------------------------------------------------
(* A row whose values all become what is meant is read whole.              *)
LEMMA UnmarshalWhole ==
  ASSUME NEW js, NEW means, NEW before, js = [i \in DOMAIN js |-> js[i]], means = [i \in DOMAIN js |-> means[i]],
         \A i \in DOMAIN js :
            /\ input.shape \in {"struct", "structs"} => input.columns[i].field # "none"
            /\ Becomes(js[i], input.columns[i].type, means[i])
  PROVE  Unmarshal(js, before) = Good(means)
<1>1. \A i \in DOMAIN js : /\ Wellformed(js[i]) /\ Fits(js[i], input.columns[i].type)
                           /\ Taken(js[i]) = means[i]
  BY DEF Becomes
<1>2. [i \in DOMAIN js |->
         IF (input.shape \in {"struct", "structs"} => input.columns[i].field # "none")
            /\ Fits(js[i], input.columns[i].type) /\ js[i].form # "null"
         THEN js[i].text ELSE Unset] = means
  BY <1>1 DEF Taken
<1>3. {i \in DOMAIN js : (input.shape \in {"struct", "structs"} =>
                                input.columns[i].field # "none")
                           /\ ~Fits(js[i], input.columns[i].type)} = {}
  BY <1>1
<1>4. QED
  BY <1>1, <1>2, <1>3 DEF Unmarshal, Good, Failed

Means == [i \in DOMAIN input.columns |-> Meaning(input.columns[i])]

(* The rows suit the result.                                               *)
Suits ==
  /\ input.rows > 0 /\ input.shape # "map"
  /\ input.rows = 1 \/ input.shape \in Lists
  /\ input.shape \notin {"struct", "structs"} => Len(input.columns) = 1
  /\ \A i \in DOMAIN input.columns : Suited(input.columns[i])

DInv ==
  /\ input \in [shape : Shapes, rows : 0..2, columns : Seq(Columns)]
  /\ at \in {"rows", "decode", "done"}
  /\ at = "decode" =>
       data = [i \in DOMAIN input.columns |-> value2String(input.columns[i].value)]
  /\ at = "done" /\ Suits => result = Good(Means)

LEMMA DecodingWhole ==
  ASSUME DInv, at = "decode", Suits, NEW first \in DOMAIN data, NEW before
  PROVE  Decoding(first, before) = Good(Means)
<1> DEFINE cs == input.columns
<1>1. /\ cs \in Seq(Columns) /\ DOMAIN cs = 1..Len(cs) /\ \A i \in DOMAIN cs : cs[i] \in Columns
      /\ data = [i \in DOMAIN cs |-> value2String(cs[i].value)] /\ DOMAIN data = DOMAIN cs
      /\ \A i \in DOMAIN cs : data[i] = value2String(cs[i].value)
      /\ \A i \in DOMAIN cs : Suited(cs[i])
      /\ input.shape \in Shapes \ {"map"} /\ input.rows \in 1..2
  BY DEF DInv, Suits
<1>2. CASE input.shape \in {"struct", "structs"}
  <2> DEFINE js == [i \in DOMAIN data |-> Property(i)]
  <2>1. DOMAIN js = DOMAIN cs /\ \A i \in DOMAIN cs : js[i] = Property(i)
    BY <1>1
  <2>2. ASSUME NEW i \in DOMAIN cs
        PROVE  cs[i].field # "none" /\ Becomes(js[i], cs[i].type, Means[i])
    <3>1. cs[i].field # "none" /\ Fetched(cs[i])
          /\ Becomes(Written(value2String(cs[i].value), TypeOf(cs[i])), cs[i].type, Meaning(cs[i]))
      BY <1>1, <1>2, FieldBecomes
    <3>2. js[i] = Written(value2String(cs[i].value), TypeOf(cs[i]))
      BY <1>1, <2>1, <3>1 DEF Property
    <3>3. Means[i] = Meaning(cs[i])
      BY DEF Means
    <3>4. QED
      BY <3>1, <3>2, <3>3
  <2>3. js = [i \in DOMAIN js |-> js[i]] /\ Means = [i \in DOMAIN js |-> Means[i]]
    BY <2>1 DEF Means
  <2>4. Decoding(first, before) = Unmarshal(js, before)
    BY <1>1, <1>2 DEF Decoding, Suits, Lists
  <2> HIDE DEF js
  <2>5. QED
    BY <2>1, <2>2, <2>3, <2>4, UnmarshalWhole
<1>3. CASE input.shape \in {"basic", "pointer", "basics"}
  <2>1. Len(cs) = 1 /\ DOMAIN cs = {1} /\ first = 1 /\ Len(data) = 1
    BY <1>1, <1>3 DEF Suits
  <2>2. PICK j : /\ j = IF input.shape = "basic" THEN WrittenBasic(data[1], cs[1].type)
                        ELSE Written(data[1], cs[1].type)
    OBVIOUS
  <2>3. Becomes(j, cs[1].type, Means[1])
    <3>1. Means[1] = Meaning(cs[1]) /\ cs[1] \in Columns /\ Suited(cs[1])
          /\ data[1] = value2String(cs[1].value)
      BY <1>1, <2>1 DEF Means
    <3>2. QED
      BY <2>2, <3>1, AloneBecomes
  <2>4. PICK js : js = <<j>>
    OBVIOUS
  <2>5. DOMAIN js = {1} /\ js[1] = j /\ js = [i \in DOMAIN js |-> js[i]]
        /\ Means = [i \in DOMAIN js |-> Means[i]]
    BY <2>1, <2>4 DEF Means
  <2>6. Unmarshal(js, before) = Good(Means)
    BY <1>3, <2>3, <2>5, UnmarshalWhole
  <2>7. Decoding(first, before) = Unmarshal(js, before)
    BY <1>1, <1>3, <2>1, <2>2, <2>4 DEF Decoding, Suits, Lists
  <2>8. QED
    BY <2>6, <2>7
<1>4. QED
  BY <1>1, <1>2, <1>3 DEF Shapes

-----------------------------------------------------------------------------
LEMMA RowsStep == ASSUME DInv, Rows2maps PROVE DInv'
<1>1. UNCHANGED input /\ at = "rows" /\ (Suits' <=> Suits) /\ Means' = Means
  BY DEF Rows2maps, Suits, Means, Suited
<1>2. CASE at' = "decode"
  BY <1>1, <1>2 DEF Rows2maps, DInv
<1>3. CASE at' = "done"
  <2>1. PICK i \in DOMAIN input.columns : input.columns[i].value.sort = "unsupported"
    BY <1>3 DEF Rows2maps
  <2>2. ~Suits
    BY <2>1 DEF Suits, Suited
  <2>3. QED
    BY <1>1, <1>3, <2>2 DEF DInv
<1>4. QED
  BY <1>2, <1>3 DEF Rows2maps

LEMMA DecodeStep == ASSUME DInv, Decode PROVE DInv'
<1>1. at = "decode" /\ at' = "done" /\ UNCHANGED <<input, data>>
  BY DEF Decode
<1>2. (Suits' <=> Suits) /\ Means' = Means
  BY <1>1 DEF Suits, Means, Suited
<1>3. PICK first \in DOMAIN data, before \in SUBSET DOMAIN data :
           result' = Decoding(first, before)
  BY DEF Decode
<1>4. Suits => result' = Good(Means)
  BY <1>1, <1>3, DecodingWhole
<1>5. QED
  BY <1>1, <1>2, <1>4 DEF DInv, Good, Failed

(* Rows of any number of columns that suit the result are decoded without  *)
(* an error, and every field has what its column says                      *)
(* (GoMybatisSqlResultDecoder.go:16-87, 192-281, GoMybatisRowsDecoder.go:  *)
(* 30-112).                                                                *)
THEOREM RowsAreDecoded == Spec => []Decoded
<1>1. Init => DInv
  BY AnswersAssumption DEF Init, DInv
<1>2. DInv /\ [Next]_vars => DInv'
  <2>1. DInv /\ UNCHANGED vars => DInv'
    BY DEF vars, DInv, Suits, Means, Suited, Good, Failed
  <2>2. QED
    BY <2>1, RowsStep, DecodeStep DEF Next
<1>3. DInv => Decoded
  BY DEF DInv, Suits, Means, Decoded
<1>4. QED
  BY <1>1, <1>2, <1>3, PTL DEF Spec

-----------------------------------------------------------------------------
(* Mapper files.  The elements below one another are shared, so that what  *)
(* an include has got cannot be read off any one of them: an element and   *)
(* what it includes are settled when everything in the least set closed    *)
(* under having children is, Under.  Going through the levels is by the    *)
(* least one that would be outside of it.                                  *)
LEMMA Least ==
  ASSUME NEW S \in SUBSET Nat, S # {}
  PROVE  \E m \in S : \A k \in S : m <= k
<1> DEFINE R == {p \in Nat \X Nat : p[1] < p[2]}
<1>1. IsWellFoundedOn(R, Nat)
  BY NatLessThanWellFounded DEF OpToRel
<1>2. \A x, y \in Nat : <<y, x>> \notin R => x <= y
  OBVIOUS
<1> HIDE DEF R
<1>3. PICK x \in S : \A y \in S : ~(<<y, x>> \in R)
  BY <1>1, WFMin
<1>4. \A y \in S : x <= y
  BY <1>2, <1>3
<1>5. QED
  BY <1>4

-----------------------------------------------------------------------------
(* What is below some nodes, E being the elements of the file: the least   *)
(* set of nodes that has the children of its own.                          *)
NamedIn(E, i)  == CHOOSE e \in E : ItemId(e) = i
KidsIn(E, n)   == IF n.tag = "include" THEN NamedIn(E, n.refid).kids ELSE Kids(n)
NextIn(E, n)   == ToSet(KidsIn(E, n)) \cap Nodes
Closed(E, X)   == \A n \in X : NextIn(E, n) \subseteq X
Under(E, S)    == {n \in Nodes : \A X \in SUBSET Nodes : S \subseteq X /\ Closed(E, X) => n \in X}

LEMMA UnderOf ==
  ASSUME NEW E, NEW S \in SUBSET Nodes
  PROVE  /\ S \subseteq Under(E, S)
         /\ \A n \in Under(E, S) : n \in Nodes /\ NextIn(E, n) \subseteq Under(E, S)
<1>1. S \subseteq Under(E, S)
  BY DEF Under
<1>2. ASSUME NEW n \in Under(E, S), NEW m \in NextIn(E, n) PROVE m \in Under(E, S)
  <2>1. m \in Nodes
    BY <1>2 DEF NextIn
  <2>2. ASSUME NEW X \in SUBSET Nodes, S \subseteq X, Closed(E, X) PROVE m \in X
    <3>1. n \in X
      BY <1>2, <2>2 DEF Under
    <3>2. QED
      BY <1>2, <2>2, <3>1 DEF Closed
  <2>3. QED
    BY <2>1, <2>2 DEF Under
<1>3. QED
  BY <1>1, <1>2 DEF Under

LEMMA UnderLeast ==
  ASSUME NEW E, NEW S, NEW X \in SUBSET Nodes, S \subseteq X, Closed(E, X)
  PROVE  Under(E, S) \subseteq X
BY DEF Under

LEMMA UnderMono ==
  ASSUME NEW E, NEW S, NEW R, S \subseteq R
  PROVE  Under(E, S) \subseteq Under(E, R)
BY DEF Under

LEMMA NothingUnder == ASSUME NEW E PROVE Under(E, {}) = {}
<1>1. {} \in SUBSET Nodes /\ Closed(E, {})
  BY DEF Closed
<1>2. QED
  BY <1>1, UnderLeast

(* What is under a node is itself or under its children.                   *)
LEMMA UnderStep ==
  ASSUME NEW E, NEW S \in SUBSET Nodes, NEW n \in Nodes
  PROVE  Under(E, {n} \cup S) \subseteq {n} \cup Under(E, NextIn(E, n) \cup S)
<1> DEFINE U == Under(E, NextIn(E, n) \cup S)
           X == {n} \cup U
<1>1. NextIn(E, n) \cup S \in SUBSET Nodes
  BY DEF NextIn
<1>2. /\ NextIn(E, n) \cup S \subseteq U
      /\ \A m \in U : m \in Nodes /\ NextIn(E, m) \subseteq U
  BY <1>1, UnderOf
<1> HIDE DEF U
<1>3. X \in SUBSET Nodes /\ {n} \cup S \subseteq X
  BY <1>2
<1>4. Closed(E, X)
  BY <1>2 DEF Closed
<1>5. QED
  BY <1>3, <1>4, UnderLeast DEF U

-----------------------------------------------------------------------------
(* The levels are what their definition says.                              *)
Level(S, f, k) == IF k = 0 THEN S ELSE UNION {ToSet(KidsMeant(n)) : n \in f[k - 1]}

LEMMA LevelsUnfold ==
  ASSUME NEW S, Depth \in Nat
  PROVE  Levels(S) = [k \in 0 .. Depth |-> Level(S, Levels(S), k)]
<1> DEFINE Is(f, i) == f = [k \in 0 .. i |-> Level(S, f, k)]
           Missing == {i \in 0 .. Depth : ~ \E f : Is(f, i)}
<1>1. \E f : Is(f, 0)
  <2>1. Is([k \in 0 .. 0 |-> S], 0)
    BY DEF Level
  <2> HIDE DEF Is
  <2>2. QED
    BY <2>1
<1>2. ASSUME NEW i \in 0 .. Depth, i # 0, NEW f, Is(f, i - 1) PROVE \E g : Is(g, i)
  <2> DEFINE g == [k \in 0 .. i |-> Level(S, f, k)]
  <2>1. ASSUME NEW k \in 0 .. i PROVE Level(S, g, k) = Level(S, f, k)
    <3>1. CASE k = 0
      BY <3>1 DEF Level
    <3>2. CASE k # 0
      <4>1. k - 1 \in 0 .. i - 1 /\ k - 1 \in 0 .. i
        BY <1>2, <3>2
      <4>2. g[k - 1] = f[k - 1]
        BY <1>2, <4>1
      <4> HIDE DEF g
      <4>3. QED
        BY <4>2 DEF Level
    <3>3. QED
      BY <3>1, <3>2
  <2>2. Is(g, i)
    BY <2>1
  <2> HIDE DEF Is, g
  <2>3. QED
    BY <2>2
<1> HIDE DEF Is
<1>3. Missing = {}
  <2> SUFFICES ASSUME Missing # {} PROVE FALSE
    OBVIOUS
  <2>1. Missing \in SUBSET Nat
    OBVIOUS
  <2>2. PICK i \in Missing : \A j \in Missing : i <= j
    BY <2>1, Least
  <2>3. i \in 0 .. Depth /\ i # 0
    BY <1>1, <2>2
  <2>4. i - 1 \in 0 .. Depth /\ i - 1 \notin Missing
    BY <2>2, <2>3
  <2>5. QED
    BY <1>2, <2>2, <2>3, <2>4
<1>4. PICK f : Is(f, Depth)
  BY <1>3
<1>5. QED
  BY <1>4 DEF Is, Levels, Level

-----------------------------------------------------------------------------
(* The elements registered so far.                                         *)
Known == {e \in Elements : \E k \in 1 .. registered : file[k] = e}

RegisterOK ==
  /\ file \in Files /\ registered \in 0 .. Len(file) /\ stage \in Stages
  /\ stage \notin {"register", "panic"} => registered = Len(file)
  /\ stage = "register" => todo = {} /\ work = <<>> /\ child = <<>>
  /\ \A i \in DOMAIN items : \E e \in Known : ItemId(e) = i
  /\ stage # "panic" =>
       \A e \in Known :
         /\ ItemId(e) \in DOMAIN items
         /\ \A x \in Known : ItemId(x) = ItemId(e) => x = e
  /\ stage \in {"register", "include"} => \A e \in Known : items[ItemId(e)] = e

(* Of what is below the elements that the loop has come to, every include  *)
(* has been replaced or is below what will be searched.                    *)
Own(e)    == ToSet(e.kids)
Linked(n) == n.tag = "include" => n.el \in DOMAIN child
Pending   == ToSet(work) \cup UNION {Own(e) : e \in {x \in Elements : ItemId(x) \in todo}}

IncludeOK ==
  /\ todo \subseteq DOMAIN items /\ work \in Seq(Nodes)
  /\ stage # "panic" =>
       \A n \in Nodes : n.tag = "include" /\ n.el \in DOMAIN child =>
         n.refid \in DOMAIN items /\ child[n.el] = KidsIn(Elements, n)
  /\ stage = "include" =>
       \A e \in Elements : ItemId(e) \notin todo =>
         \A n \in Under(Elements, Own(e)) : Linked(n) \/ n \in Under(Elements, Pending)
  /\ stage \in {"decode", "ready"} =>
       \A e \in Elements : \A n \in Under(Elements, Own(e)) : Linked(n)

DecodeOK ==
  /\ stage = "ready" => todo = {}
  /\ stage \in {"decode", "ready"} /\ PlainMaps =>
       \A e \in Elements :
         items[ItemId(e)] = IF ItemId(e) \in todo THEN e ELSE Expected(e)

IInv == RegisterOK /\ IncludeOK /\ DecodeOK

LEMMA FileOK ==
  ASSUME WellFormed, file \in Files
  PROVE  /\ Len(file) \in Nat /\ DOMAIN file = 1 .. Len(file)
         /\ \A k \in 1 .. Len(file) : file[k] \in ToSet(file)
         /\ \A e \in ToSet(file) : \E k \in 1 .. Len(file) : file[k] = e
         /\ \A e \in ToSet(file) : e.kids \in Seq(Nodes)
<1>1. file \in Seq(ToSet(file)) /\ \A e \in ToSet(file) : e.kids \in Seq(Nodes)
  BY DEF WellFormed
<1>2. Len(file) \in Nat /\ DOMAIN file = 1 .. Len(file)
  BY <1>1
<1>3. QED
  BY <1>1, <1>2 DEF ToSet

LEMMA SeqInNodes == ASSUME NEW s \in Seq(Nodes) PROVE ToSet(s) \in SUBSET Nodes
BY DEF ToSet

LEMMA KidsOK ==
  ASSUME WellFormed, NEW n \in Nodes, n.tag # "include"
  PROVE  Kids(n) \in Seq(Nodes)
BY DEF WellFormed, Kids

(* Once all elements are registered.                                       *)
LEMMA AllKnown ==
  ASSUME WellFormed, RegisterOK, stage \notin {"register", "panic"}
  PROVE  /\ Known = Elements
         /\ \A e \in Elements : /\ ItemId(e) \in DOMAIN items
                                /\ NamedIn(Elements, ItemId(e)) = e
                                /\ e.kids \in Seq(Nodes)
         /\ \A i \in DOMAIN items : /\ NamedIn(Elements, i) \in Elements
                                    /\ ItemId(NamedIn(Elements, i)) = i
<1>1. file \in Files /\ registered = Len(file)
  BY DEF RegisterOK
<1>2. Known = Elements
  BY <1>1, FileOK DEF Known, Elements
<1>3. \A e \in Elements : /\ ItemId(e) \in DOMAIN items
                          /\ \A x \in Elements : ItemId(x) = ItemId(e) => x = e
  BY <1>2 DEF RegisterOK
<1>4. \A e \in Elements : NamedIn(Elements, ItemId(e)) = e
  BY <1>3 DEF NamedIn
<1>5. \A e \in Elements : e.kids \in Seq(Nodes)
  BY <1>1, FileOK DEF Elements
<1>6. \A i \in DOMAIN items : \E e \in Elements : ItemId(e) = i
  BY <1>2 DEF RegisterOK
<1>7. QED
  BY <1>2, <1>3, <1>4, <1>5, <1>6

LEMMA InitIInv == ASSUME WellFormed, LoadInit PROVE IInv
<1>1. /\ file \in Files /\ registered = 0 /\ todo = {} /\ stage = "register" /\ work = <<>>
      /\ DOMAIN items = {} /\ DOMAIN child = {}
  <2>1. DOMAIN <<>> = {}
    OBVIOUS
  <2>2. QED
    BY <2>1 DEF LoadInit
<1>2. child = <<>>
  BY DEF LoadInit
<1>3. Known = {}
  BY <1>1 DEF Known
<1>4. RegisterOK
  BY <1>1, <1>2, <1>3, FileOK DEF RegisterOK, Stages
<1>5. IncludeOK
  BY <1>1 DEF IncludeOK
<1>6. QED
  BY <1>1, <1>4, <1>5 DEF IInv, DecodeOK

LEMMA RegisterStep == ASSUME WellFormed, IInv, Register PROVE IInv'
<1> DEFINE e == file[registered + 1]
<1>1. /\ stage = "register" /\ registered < Len(file) /\ registered' = registered + 1
      /\ UNCHANGED <<file, todo, child, work>>
      /\ todo = {} /\ work = <<>> /\ child = <<>>
      /\ file \in Files /\ registered \in 0 .. Len(file)
  BY DEF Register, IInv, RegisterOK
<1>2. Len(file) \in Nat /\ registered + 1 \in 1 .. Len(file) /\ e \in ToSet(file)
  BY <1>1, FileOK
<1>3. Elements' = Elements
  BY <1>1 DEF Elements
<1>4. Known' = Known \cup (IF e.tag \in MapperTags THEN {e} ELSE {})
  <2>1. \A k \in 1 .. registered + 1 : k \in 1 .. registered \/ k = registered + 1
    BY <1>1, <1>2
  <2>2. \A x \in Elements : (\E k \in 1 .. registered + 1 : file[k] = x)
                            <=> (\E k \in 1 .. registered : file[k] = x) \/ x = e
    BY <1>1, <1>2, <2>1
  <2>3. e \in Elements <=> e.tag \in MapperTags
    BY <1>2 DEF Elements
  <2> HIDE DEF e
  <2>4. Known' = {x \in Elements : \E k \in 1 .. registered + 1 : file[k] = x}
    BY <1>1, <1>3 DEF Known
  <2>5. QED
    BY <2>2, <2>3, <2>4 DEF Known
<1> HIDE DEF e
<1>5. /\ \A i \in DOMAIN items : \E x \in Known : ItemId(x) = i
      /\ \A x \in Known : /\ ItemId(x) \in DOMAIN items
                          /\ \A y \in Known : ItemId(y) = ItemId(x) => y = x
                          /\ items[ItemId(x)] = x
  BY <1>1 DEF IInv, RegisterOK
<1>6. CASE e.tag \notin MapperTags \/ ItemId(e) \in DOMAIN items
  <2>1. /\ items' = items
        /\ (stage' = stage /\ e.tag \notin MapperTags) \/ stage' = "panic"
    BY <1>6 DEF Register, e
  <2>2. RegisterOK'
    BY <1>1, <1>2, <1>4, <1>5, <2>1 DEF RegisterOK, Stages
  <2>3. IncludeOK' /\ DecodeOK'
    <3>1. DOMAIN child' = {}
      BY <1>1
    <3>2. QED
      BY <1>1, <2>1, <3>1 DEF IncludeOK, DecodeOK
  <2>4. QED
    BY <2>2, <2>3 DEF IInv
<1>7. CASE e.tag \in MapperTags /\ ItemId(e) \notin DOMAIN items
  <2>1. /\ stage' = "register"
        /\ items' = [i \in DOMAIN items \cup {ItemId(e)} |->
                       IF i = ItemId(e) THEN e ELSE items[i]]
    BY <1>1, <1>7 DEF Register, e
  <2>2. Known' = Known \cup {e}
    BY <1>4, <1>7
  <2>3. RegisterOK'
    BY <1>1, <1>2, <1>5, <1>7, <2>1, <2>2 DEF RegisterOK, Stages
  <2>4. IncludeOK' /\ DecodeOK'
    <3>1. DOMAIN child' = {}
      BY <1>1
    <3>2. QED
      BY <1>1, <2>1, <3>1 DEF IncludeOK, DecodeOK
  <2>5. QED
    BY <2>3, <2>4 DEF IInv
<1>8. QED
  BY <1>6, <1>7
(* What an element is to become does not change while items are decoded.   *)
ExpectedIn(E, D, e) ==
  IF e.tag \in Templates THEN Expanded(e, [i \in D |-> NamedIn(E, i)]) ELSE e

LEMMA ExpectedIs == \A e : Expected(e) = ExpectedIn(Elements, DOMAIN items, e)
BY DEF Expected, ExpectedIn, Named, NamedIn

LEMMA SameExpected ==
  ASSUME Elements' = Elements, DOMAIN items' = DOMAIN items
  PROVE  \A e : Expected(e)' = Expected(e)
<1> SUFFICES ASSUME NEW e PROVE Expected(e)' = Expected(e)
  OBVIOUS
<1>1. Expected(e)' = ExpectedIn(Elements', DOMAIN items', e)
  BY DEF Expected, ExpectedIn, Named, NamedIn
<1>2. QED
  BY <1>1, ExpectedIs
LEMMA RegisteredAll ==
  ASSUME WellFormed, RegisterOK, registered = Len(file), stage # "panic"
  PROVE  Known = Elements /\ \A e \in Elements : ItemId(e) \in DOMAIN items
<1>1. Known = Elements
  BY FileOK DEF RegisterOK, Known, Elements
<1>2. QED
  BY <1>1 DEF RegisterOK

LEMMA NextLoopStep == ASSUME WellFormed, IInv, NextLoop PROVE IInv'
<1>1. /\ UNCHANGED <<file, registered, items, child, work>>
      /\ file \in Files /\ todo \subseteq DOMAIN items
  BY DEF NextLoop, IInv, RegisterOK, IncludeOK
<1>2. Elements' = Elements /\ Known' = Known
  BY <1>1 DEF Elements, Known
<1>3. CASE stage = "register" /\ registered = Len(file) /\ stage' = "include" /\ todo' = DOMAIN items
  <2>1. RegisterOK'
    BY <1>1, <1>2, <1>3 DEF IInv, RegisterOK, Stages
  <2>2. \A e \in Elements : ItemId(e) \in todo'
    BY <1>3, RegisteredAll DEF IInv
  <2>3. DOMAIN child = {}
    BY <1>3 DEF IInv, RegisterOK
  <2>4. IncludeOK'
    BY <1>1, <1>2, <1>3, <2>2, <2>3 DEF IInv, IncludeOK
  <2>5. QED
    BY <1>3, <2>1, <2>4 DEF IInv, DecodeOK
<1>4. CASE stage = "include" /\ todo = {} /\ work = <<>> /\ stage' = "decode" /\ todo' = DOMAIN items
  <2>1. RegisterOK'
    BY <1>1, <1>2, <1>4 DEF IInv, RegisterOK, Stages
  <2>2. Pending = {}
    BY <1>4 DEF Pending, ToSet
  <2>3. \A e \in Elements : \A n \in Under(Elements, Own(e)) : Linked(n)
    BY <1>4, <2>2, NothingUnder DEF IInv, IncludeOK
  <2>4. IncludeOK'
    BY <1>1, <1>2, <1>4, <2>3 DEF IInv, IncludeOK, Linked
  <2>5. /\ \A e \in Elements : ItemId(e) \in DOMAIN items /\ items[ItemId(e)] = e
    BY <1>4, AllKnown DEF IInv, RegisterOK
  <2>6. DecodeOK'
    BY <1>1, <1>2, <1>4, <2>5 DEF DecodeOK
  <2>7. QED
    BY <2>1, <2>4, <2>6 DEF IInv
<1>5. CASE stage = "decode" /\ todo = {} /\ stage' = "ready" /\ todo' = {}
  <2>1. RegisterOK'
    BY <1>1, <1>2, <1>5 DEF IInv, RegisterOK, Stages
  <2>2. IncludeOK'
    BY <1>1, <1>2, <1>5 DEF IInv, IncludeOK, Linked
  <2>3. PlainMaps' = PlainMaps
    BY <1>2 DEF PlainMaps
  <2>4. \A e \in Elements : Expected(e)' = Expected(e)
    BY <1>1, <1>2, SameExpected
  <2>5. DecodeOK'
    BY <1>1, <1>2, <1>5, <2>3, <2>4 DEF IInv, DecodeOK
  <2>6. QED
    BY <2>1, <2>2, <2>5 DEF IInv
<1>6. QED
  BY <1>3, <1>4, <1>5 DEF NextLoop
LEMMA ToSetIs == \A s, x : x \in ToSet(s) <=> \E k \in DOMAIN s : s[k] = x
BY DEF ToSet

LEMMA ToSetOfBoth ==
  ASSUME NEW s \in Seq(Nodes), NEW t \in Seq(Nodes)
  PROVE  ToSet(s \o t) = ToSet(s) \cup ToSet(t)
<1> DEFINE u == s \o t
<1>1. /\ \A k \in 1 .. Len(s) : k \in 1 .. Len(u) /\ u[k] = s[k]
      /\ \A k \in 1 .. Len(t) : k + Len(s) \in 1 .. Len(u) /\ u[k + Len(s)] = t[k]
      /\ \A k \in 1 .. Len(u) : \/ k \in 1 .. Len(s) /\ u[k] = s[k]
                                \/ k - Len(s) \in 1 .. Len(t) /\ u[k] = t[k - Len(s)]
  OBVIOUS
<1>2. DOMAIN s = 1 .. Len(s) /\ DOMAIN t = 1 .. Len(t) /\ DOMAIN u = 1 .. Len(u)
  OBVIOUS
<1> HIDE DEF u
<1>3. \A x : x \in ToSet(u) <=> x \in ToSet(s) \/ x \in ToSet(t)
  <2>1. ASSUME NEW x, x \in ToSet(u) PROVE x \in ToSet(s) \/ x \in ToSet(t)
    <3>1. PICK k \in 1 .. Len(u) : u[k] = x
      BY <1>2, <2>1, ToSetIs
    <3>2. CASE k \in 1 .. Len(s) /\ u[k] = s[k]
      BY <1>2, <3>1, <3>2, ToSetIs
    <3>3. CASE k - Len(s) \in 1 .. Len(t) /\ u[k] = t[k - Len(s)]
      BY <1>2, <3>1, <3>3, ToSetIs
    <3>4. QED
      BY <1>1, <3>1, <3>2, <3>3
  <2>2. ASSUME NEW k \in 1 .. Len(s) PROVE s[k] \in ToSet(u)
    BY <1>1, <1>2, ToSetIs
  <2>3. ASSUME NEW k \in 1 .. Len(t) PROVE t[k] \in ToSet(u)
    <3>1. k + Len(s) \in DOMAIN u /\ u[k + Len(s)] = t[k]
      BY <1>1, <1>2
    <3>2. QED
      BY <3>1, ToSetIs
  <2>4. QED
    BY <1>2, <2>1, <2>2, <2>3, ToSetIs
<1>4. ToSet(u) = ToSet(s) \cup ToSet(t)
  BY <1>3
<1>5. QED
  BY <1>4 DEF u

LEMMA ToSetOfTail ==
  ASSUME NEW s \in Seq(Nodes), s # <<>>
  PROVE  /\ Head(s) \in Nodes /\ Tail(s) \in Seq(Nodes)
         /\ ToSet(s) = {Head(s)} \cup ToSet(Tail(s))
<1> DEFINE u == Tail(s)
<1>1. Head(s) \in Nodes /\ u \in Seq(Nodes)
  OBVIOUS
<1>2. /\ 1 \in DOMAIN s /\ Head(s) = s[1]
      /\ \A k \in DOMAIN s : k = 1 \/ (k - 1 \in DOMAIN u /\ u[k - 1] = s[k])
      /\ \A k \in DOMAIN u : k + 1 \in DOMAIN s /\ s[k + 1] = u[k]
  OBVIOUS
<1> HIDE DEF u
<1>3. \A x : x \in ToSet(s) <=> x = Head(s) \/ x \in ToSet(u)
  BY <1>2, ToSetIs
<1>4. ToSet(s) = {Head(s)} \cup ToSet(u)
  BY <1>3
<1>5. QED
  BY <1>1, <1>4 DEF u

(* The nodes still to be searched are nodes.                               *)
LEMMA PendingOK ==
  ASSUME WellFormed, IInv
  PROVE  /\ ToSet(work) \in SUBSET Nodes
         /\ \A e \in Elements : Own(e) \in SUBSET Nodes
<1>1. work \in Seq(Nodes) /\ file \in Files
  BY DEF IInv, IncludeOK, RegisterOK
<1>2. \A e \in Elements : e.kids \in Seq(Nodes)
  BY <1>1, FileOK DEF Elements
<1>3. QED
  BY <1>1, <1>2, SeqInNodes DEF Own

(* The loop over items has come to i: its children are pending as before.  *)
LEMMA IncludeStep == ASSUME WellFormed, IInv, NEW i \in todo, Include(i) PROVE IInv'
<1>1. /\ UNCHANGED <<file, registered, items, stage, child>>
      /\ stage = "include" /\ work = <<>> /\ i \in DOMAIN items
      /\ todo' = todo \ {i} /\ work' = items[i].kids
  BY DEF Include, IInv, IncludeOK
<1>2. Elements' = Elements /\ Known' = Known
  BY <1>1 DEF Elements, Known
<1>3. RegisterOK'
  BY <1>1, <1>2 DEF IInv, RegisterOK, Stages
<1>4. PICK e \in Elements : ItemId(e) = i /\ items[i] = e /\ e.kids \in Seq(Nodes)
  BY <1>1, AllKnown DEF IInv, RegisterOK
<1>5. Pending \subseteq Pending'
  <2>1. ToSet(work) = {}
    BY <1>1 DEF ToSet
  <2>2. ToSet(work') = Own(e)
    BY <1>1, <1>4 DEF Own
  <2>3. \A x \in Elements : ItemId(x) = i => x = e
    BY <1>1, <1>4, AllKnown DEF IInv
  <2>4. Pending' = ToSet(work') \cup UNION {Own(x) : x \in {y \in Elements : ItemId(y) \in todo'}}
    BY <1>2 DEF Pending, Own, ToSet
  <2>5. QED
    BY <1>1, <2>1, <2>2, <2>3, <2>4 DEF Pending
<1>6. ASSUME NEW x \in Elements, ItemId(x) \notin todo'
      PROVE  \A n \in Under(Elements, Own(x)) : Linked(n) \/ n \in Under(Elements, Pending')
  <2>1. Under(Elements, Pending) \subseteq Under(Elements, Pending')
    BY <1>5, UnderMono
  <2>2. CASE ItemId(x) \notin todo
    BY <1>1, <2>1, <2>2 DEF IInv, IncludeOK
  <2>3. CASE ItemId(x) = i
    <3>1. x = e
      BY <1>1, <1>4, <2>3, AllKnown DEF IInv
    <3>2. Own(x) \subseteq Pending'
      BY <1>1, <1>4, <3>1 DEF Pending, Own, ToSet
    <3>3. QED
      BY <3>2, UnderMono
  <2>4. QED
    BY <1>1, <1>6, <2>2, <2>3
<1>7. IncludeOK'
  <2>1. work' \in Seq(Nodes) /\ todo' \subseteq DOMAIN items
    BY <1>1, <1>4 DEF IInv, IncludeOK
  <2>2. \A n : Linked(n)' = Linked(n) /\ Own(n)' = Own(n)
    BY <1>1 DEF Linked, Own, ToSet
  <2>3. QED
    BY <1>1, <1>2, <1>6, <2>1, <2>2 DEF IInv, IncludeOK
<1>8. QED
  BY <1>1, <1>3, <1>7 DEF IInv, DecodeOK

(* One call of includeElementReplace: what was pending is the node itself, *)
(* which is settled now, or is pending still.                              *)
LEMMA ReplaceStep == ASSUME WellFormed, IInv, Replace PROVE IInv'
<1> DEFINE n == Head(work)
           rest == ToSet(Tail(work)) \cup UNION {Own(e) : e \in {x \in Elements : ItemId(x) \in todo}}
<1>1. /\ UNCHANGED <<file, registered, items, todo>> /\ stage = "include" /\ work # <<>>
      /\ work \in Seq(Nodes)
  BY DEF Replace, IInv, IncludeOK
<1>2. Elements' = Elements /\ Known' = Known
  BY <1>1 DEF Elements, Known
<1>3. n \in Nodes /\ Tail(work) \in Seq(Nodes) /\ ToSet(work) = {n} \cup ToSet(Tail(work))
  BY <1>1, ToSetOfTail
<1> HIDE DEF n
<1>4. RegisterOK' /\ DecodeOK'
  <2>1. stage' \in {"include", "panic"}
    BY <1>1 DEF Replace
  <2>2. QED
    BY <1>1, <1>2, <2>1 DEF IInv, RegisterOK, DecodeOK, Stages
<1>5. CASE n.tag = "include" /\ n.refid \notin DOMAIN items
  <2>1. stage' = "panic" /\ UNCHANGED <<child, work>>
    BY <1>5 DEF Replace, n
  <2>2. IncludeOK'
    BY <1>1, <2>1 DEF IInv, IncludeOK
  <2>3. QED
    BY <1>4, <2>2 DEF IInv
<1>6. CASE n.tag # "include" \/ n.refid \in DOMAIN items
  <2> DEFINE kids == KidsIn(Elements, n)
  <2>1. kids \in Seq(Nodes) /\ (n.tag = "include" => items[n.refid].kids = kids)
    <3>1. CASE n.tag # "include"
      BY <1>3, <3>1, KidsOK DEF KidsIn
    <3>2. CASE n.tag = "include" /\ n.refid \in DOMAIN items
      <4>1. PICK e \in Elements : ItemId(e) = n.refid /\ e = NamedIn(Elements, n.refid)
                                  /\ e.kids \in Seq(Nodes)
        BY <1>1, <3>2, AllKnown DEF IInv
      <4>2. items[n.refid] = e
        BY <1>1, <4>1, AllKnown DEF IInv, RegisterOK
      <4>3. QED
        BY <3>2, <4>1, <4>2 DEF KidsIn
    <3>3. QED
      BY <1>6, <3>1, <3>2
  <2>2. /\ stage' = stage /\ work' = kids \o Tail(work)
        /\ n.tag # "include" => child' = child
        /\ n.tag = "include" =>
             child' = [x \in DOMAIN child \cup {n.el} |-> IF x = n.el THEN kids ELSE child[x]]
    BY <1>6, <2>1 DEF Replace, Search, KidsIn, n
  <2> HIDE DEF kids
  <2>3. work' \in Seq(Nodes) /\ ToSet(work') = NextIn(Elements, n) \cup ToSet(Tail(work))
    <3>1. work' \in Seq(Nodes)
      BY <1>3, <2>1, <2>2
    <3>2. ToSet(work') = ToSet(kids) \cup ToSet(Tail(work))
      BY <1>3, <2>1, <2>2, ToSetOfBoth
    <3>3. NextIn(Elements, n) = ToSet(kids)
      BY <2>1, SeqInNodes DEF NextIn, kids
    <3>4. QED
      BY <3>1, <3>2, <3>3
  <2>4. Pending = {n} \cup rest /\ Pending' = NextIn(Elements, n) \cup rest
    <3>1. Pending' = ToSet(work') \cup UNION {Own(x) : x \in {y \in Elements : ItemId(y) \in todo}}
      BY <1>1, <1>2 DEF Pending, Own, ToSet
    <3>2. QED
      BY <1>3, <2>3, <3>1 DEF Pending
  <2>5. rest \in SUBSET Nodes
    BY <1>3, SeqInNodes, PendingOK
  <2> HIDE DEF rest
  <2>6. Under(Elements, Pending) \subseteq {n} \cup Under(Elements, Pending')
    BY <1>3, <2>4, <2>5, UnderStep
  <2>7. \A m : Linked(m) \/ m = n => Linked(m)'
    BY <2>2 DEF Linked
  <2>8. ASSUME NEW m \in Nodes, m.tag = "include", m.el \in DOMAIN child'
        PROVE  m.refid \in DOMAIN items /\ child'[m.el] = KidsIn(Elements, m)
    <3>1. CASE m = n
      BY <1>6, <2>2, <2>8, <3>1 DEF kids
    <3>2. CASE m # n
      <4>1. n.tag = "include" => m.el # n.el
        BY <1>3, <2>8, <3>2 DEF WellFormed
      <4>2. m.el \in DOMAIN child /\ child'[m.el] = child[m.el]
        BY <2>2, <2>8, <4>1
      <4>3. QED
        BY <1>1, <2>8, <4>2 DEF IInv, IncludeOK
    <3>3. QED
      BY <3>1, <3>2
  <2>9. ASSUME NEW e \in Elements, ItemId(e) \notin todo, NEW m \in Under(Elements, Own(e))
        PROVE  Linked(m)' \/ m \in Under(Elements, Pending')
    BY <1>1, <2>6, <2>7, <2>9 DEF IInv, IncludeOK
  <2>10. \A e : Own(e)' = Own(e)
    BY DEF Own, ToSet
  <2>11. IncludeOK'
    BY <1>1, <1>2, <2>2, <2>3, <2>8, <2>9, <2>10 DEF IInv, IncludeOK
  <2>12. QED
    BY <1>4, <2>11 DEF IInv
<1>7. QED
  BY <1>5, <1>6
(* An element is decoded: the resultMap it takes is as the file has it,    *)
(* whether the loop has come to it or not.                                 *)
LEMMA TemplateStep == ASSUME WellFormed, IInv, NEW i \in todo, DecodeTree(i) PROVE IInv'
<1>1. /\ UNCHANGED <<file, registered, child, work>>
      /\ stage = "decode" /\ i \in DOMAIN items /\ todo' = todo \ {i}
  BY DEF DecodeTree, IInv, IncludeOK
<1>2. /\ \/ /\ stage' = "decode"
            /\ \/ items[i].tag \notin Templates /\ items' = items
               \/ /\ items[i].tag \in Templates /\ MapName(items[i]) \in DOMAIN items
                  /\ items' = [items EXCEPT ![i] = Expanded(items[i], items)]
         \/ stage' = "panic" /\ items' = items
      /\ DOMAIN items' = DOMAIN items
  BY <1>1 DEF DecodeTree, DecodePanics
<1>3. Elements' = Elements /\ Known' = Known
  BY <1>1 DEF Elements, Known
<1>4. RegisterOK'
  BY <1>1, <1>2, <1>3 DEF IInv, RegisterOK, Stages
<1>5. IncludeOK'
  BY <1>1, <1>2, <1>3 DEF IInv, IncludeOK, Linked
<1>6. PlainMaps' = PlainMaps /\ \A e : Expected(e)' = Expected(e)
  BY <1>2, <1>3, SameExpected DEF PlainMaps
<1>7. ASSUME PlainMaps, stage' = "decode", NEW x \in Elements
      PROVE  items'[ItemId(x)] = IF ItemId(x) \in todo' THEN x ELSE Expected(x)
  <2>1. \A y \in Elements :
          /\ items[ItemId(y)] = IF ItemId(y) \in todo THEN y ELSE Expected(y)
          /\ ItemId(y) \in DOMAIN items
    BY <1>1, <1>7, AllKnown DEF IInv, DecodeOK
  <2>2. CASE ItemId(x) # i
    BY <1>1, <1>2, <1>7, <2>1, <2>2
  <2>3. CASE ItemId(x) = i
    <3>1. items[i] = x /\ i \notin todo'
      BY <1>1, <2>1, <2>3
    <3>2. CASE x.tag \notin Templates
      BY <1>2, <1>7, <2>3, <3>1, <3>2 DEF Expected
    <3>3. CASE x.tag \in Templates
      <4>1. MapName(x) \in DOMAIN items /\ items'[i] = Expanded(x, items)
        BY <1>1, <1>2, <1>7, <3>1, <3>3
      <4>2. PICK y \in Elements : y = NamedIn(Elements, MapName(x)) /\ ItemId(y) = MapName(x)
        BY <1>1, <4>1, AllKnown DEF IInv
      <4>3. y.tag \notin Templates
        BY <1>7, <3>3, <4>2 DEF PlainMaps
      <4>4. items[MapName(x)] = y
        BY <2>1, <4>2, <4>3 DEF Expected
      <4> DEFINE its == [j \in DOMAIN items |-> Named(j)]
      <4>5. its[MapName(x)] = y
        BY <4>1, <4>2 DEF Named, NamedIn
      <4>6. Expected(x) = Expanded(x, its)
        BY <3>3 DEF Expected
      <4> HIDE DEF its
      <4>7. Expanded(x, its) = Expanded(x, items)
        BY <4>4, <4>5 DEF Expanded, MapOf
      <4>8. QED
        BY <2>3, <3>1, <4>1, <4>6, <4>7
    <3>4. QED
      BY <3>2, <3>3
  <2>4. QED
    BY <2>2, <2>3
<1>8. DecodeOK'
  BY <1>2, <1>3, <1>6, <1>7 DEF DecodeOK
<1>9. QED
  BY <1>4, <1>5, <1>8 DEF IInv

LEMMA NextIInv == ASSUME WellFormed, IInv, [Load]_loading PROVE IInv'
<1>1. CASE UNCHANGED loading
  <2>1. UNCHANGED <<file, registered, items, todo, stage, child, work>>
    BY <1>1 DEF loading
  <2>2. Elements' = Elements /\ Known' = Known /\ Pending' = Pending /\ PlainMaps' = PlainMaps
    BY <2>1 DEF Elements, Known, Pending, Own, ToSet, PlainMaps
  <2>3. \A e : Expected(e)' = Expected(e)
    BY <2>1, <2>2, SameExpected
  <2>4. RegisterOK'
    BY <2>1, <2>2 DEF IInv, RegisterOK
  <2>5. IncludeOK'
    BY <2>1, <2>2 DEF IInv, IncludeOK, Linked, Own, ToSet
  <2>6. DecodeOK'
    BY <2>1, <2>2, <2>3 DEF IInv, DecodeOK
  <2>7. QED
    BY <2>4, <2>5, <2>6 DEF IInv
<1>2. QED
  BY <1>1, RegisterStep, NextLoopStep, ReplaceStep, IncludeStep, TemplateStep DEF Load

(* Once all is replaced, what is on the levels below an element is under   *)
(* it.                                                                     *)
LEMMA LevelsUnder ==
  ASSUME WellFormed, IInv, stage = "ready", Depth \in Nat, NEW e \in Elements, NEW k \in 0 .. Depth
  PROVE  Levels(Own(e))[k] \subseteq Under(Elements, Own(e))
<1> DEFINE U == Under(Elements, Own(e))
           L == Levels(Own(e))
           Above == {j \in 0 .. Depth : ~(L[j] \subseteq U)}
<1>1. Own(e) \in SUBSET Nodes
  BY PendingOK
<1>2. Own(e) \subseteq U /\ \A n \in U : n \in Nodes /\ NextIn(Elements, n) \subseteq U
  BY <1>1, UnderOf
<1>3. \A j \in 0 .. Depth : L[j] = IF j = 0 THEN Own(e) ELSE UNION {ToSet(KidsMeant(n)) : n \in L[j - 1]}
  <2>1. L = [j \in 0 .. Depth |-> Level(Own(e), L, j)]
    BY LevelsUnfold
  <2> HIDE DEF L
  <2>2. \A j \in 0 .. Depth : L[j] = Level(Own(e), L, j)
    BY <2>1
  <2>3. QED
    BY <2>2 DEF Level
<1>4. ASSUME NEW n \in U PROVE ToSet(KidsMeant(n)) \subseteq U
  <2>1. n \in Nodes /\ Linked(n)
    BY <1>2, <1>4 DEF IInv, IncludeOK
  <2>2. KidsMeant(n) = KidsIn(Elements, n)
    BY DEF KidsMeant, KidsIn, Named, NamedIn
  <2>3. KidsIn(Elements, n) \in Seq(Nodes)
    <3>1. CASE n.tag = "include"
      <4>1. n.refid \in DOMAIN items
        BY <2>1, <3>1 DEF Linked, IInv, IncludeOK
      <4>2. NamedIn(Elements, n.refid) \in Elements
        BY <4>1, AllKnown DEF IInv
      <4>3. QED
        BY <3>1, <4>2, AllKnown DEF KidsIn, IInv
    <3>2. CASE n.tag # "include"
      BY <2>1, <3>2, KidsOK DEF KidsIn
    <3>3. QED
      BY <3>1, <3>2
  <2>4. ToSet(KidsMeant(n)) = NextIn(Elements, n)
    BY <2>2, <2>3, SeqInNodes DEF NextIn
  <2>5. QED
    BY <1>2, <1>4, <2>4
<1> HIDE DEF U, L
<1>5. Above = {}
  <2> SUFFICES ASSUME Above # {} PROVE FALSE
    OBVIOUS
  <2>1. Above \in SUBSET Nat
    OBVIOUS
  <2>2. PICK j \in Above : \A m \in Above : j <= m
    BY <2>1, Least
  <2>3. j # 0
    BY <1>2, <1>3, <2>2
  <2>4. j \in 0 .. Depth /\ j - 1 \in 0 .. Depth /\ j - 1 \notin Above
    BY <2>2, <2>3
  <2>5. L[j - 1] \subseteq U
    BY <2>4
  <2>6. L[j] \subseteq U
    <3>1. L[j] = UNION {ToSet(KidsMeant(n)) : n \in L[j - 1]}
      BY <1>3, <2>3, <2>4
    <3>2. ASSUME NEW m \in L[j] PROVE m \in U
      <4>1. PICK n \in L[j - 1] : m \in ToSet(KidsMeant(n))
        BY <3>1, <3>2
      <4>2. QED
        BY <1>4, <2>5, <4>1
    <3>3. QED
      BY <3>2
  <2>7. QED
    BY <2>2, <2>6
<1>6. QED
  BY <1>5 DEF U, L

(* In whatever order the maps of elements are ranged over, the elements of *)
(* a file become the same: all includes, at any depth, have the children   *)
(* of what they name, and each template its SQL (XmlLoader.go:47-78,       *)
(* DecodeTree:51).                                                         *)
THEOREM LoadingIsConfluent == LoadingSpec => []Confluent
<1> USE FilesAssumption
<1>1. IInv => Confluent
  <2> SUFFICES ASSUME IInv, stage = "ready", PlainMaps, NEW e \in Elements
               PROVE  /\ items[ItemId(e)] = Expected(e)
                      /\ \A k \in 0..Depth : \A n \in Levels(ToSet(e.kids))[k] :
                           n.tag = "include" => n.el \in DOMAIN child /\ child[n.el] = KidsMeant(n)
    BY DEF Confluent
  <2>1. items[ItemId(e)] = Expected(e)
    BY DEF IInv, DecodeOK
  <2>2. ASSUME NEW k \in 0 .. Depth, NEW n \in Levels(ToSet(e.kids))[k], n.tag = "include"
        PROVE  n.el \in DOMAIN child /\ child[n.el] = KidsMeant(n)
    <3>1. n \in Under(Elements, Own(e))
      BY LevelsUnder DEF Own
    <3>2. n \in Nodes /\ n.el \in DOMAIN child
      BY <2>2, <3>1 DEF Under, IInv, IncludeOK, Linked
    <3>3. child[n.el] = KidsIn(Elements, n)
      BY <2>2, <3>2 DEF IInv, IncludeOK
    <3>4. QED
      BY <3>2, <3>3 DEF KidsMeant, KidsIn, Named, NamedIn
  <2>3. QED
    BY <2>1, <2>2
<1>2. LoadInit => IInv
  BY InitIInv
<1>3. IInv /\ [Load]_loading => IInv'
  BY NextIInv
<1>4. QED
  BY <1>1, <1>2, <1>3, PTL DEF LoadingSpec
===============================================================================
