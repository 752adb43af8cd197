---------------------------- MODULE MCAopService ----------------------------
(***************************************************************************)
(* Instances of AopService for TLC.                                        *)
(***************************************************************************)
EXTENDS AopService, TLC

CONSTANTS t1, t2, t3, s1, s2

MCTx == {t1, t2, t3}
MCTx2 == {t1, t2}
MCStmt == {s1, s2}
NoStmt == {}

AllTags == Session!Propagation \cup {Untagged, Mistyped}

(* What it takes to break every promise of SomePromiseKept.                *)
DocTags == {"REQUIRED", "SUPPORTS", "NESTED", "NOT_SUPPORTED"}

(* Transactions and statements are only ever compared for equality.        *)
Symm == Permutations(MCTx) \cup Permutations(MCStmt)
SymmTx == Permutations(MCTx)
Symm2 == Permutations(MCTx2) \cup Permutations(MCStmt)
=============================================================================
