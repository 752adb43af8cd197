--------------------------- MODULE MCLocalSession ---------------------------
(***************************************************************************)
(* Instances of LocalSession for TLC.                                      *)
(***************************************************************************)
EXTENDS LocalSession, TLC

CONSTANTS t1, t2, t3, s1, s2

MCTx == {t1, t2, t3}
MCStmt == {s1, s2}

AllProps == Propagation \cup {Nil}

(* Transactions and statements are only ever compared for equality.        *)
Symm == Permutations(MCTx) \cup Permutations(MCStmt)
=============================================================================
