------------------------------- MODULE MCMapper -------------------------------
(* Instances of Mapper for TLC. *)
EXTENDS Mapper

PageCall(num, size, session) ==
  [kind |-> "page", num |-> num, size |-> size, session |-> session, integer |-> FALSE]
RowsCall(kind, session, integer) ==
  [kind |-> kind, num |-> 0, size |-> 0, session |-> session, integer |-> integer]

(* A first and a later page, a page number that is refused, every kind of  *)
(* call, every kind of session.                                            *)
MCCalls ==
  [g1 |-> {PageCall(1, 2, "default"), PageCall(2, 1, "argument"), PageCall(0, 1, "default"),
           RowsCall("exec", "closed", TRUE)},
   g2 |-> {RowsCall("list", "argument", FALSE), RowsCall("one", "default", FALSE),
           RowsCall("exec", "default", FALSE), RowsCall("exec", "custom", TRUE)}]
===============================================================================
