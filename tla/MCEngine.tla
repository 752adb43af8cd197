------------------------------- MODULE MCEngine -------------------------------
(* An instance of Engine for TLC: two goroutines and two sessions, two     *)
(* routers, and one data source that may be opened again and again.        *)
EXTENDS Engine, TLC

CONSTANTS g1, g2, s1, s2, k1, d1, r1, r2

MCGoroutines == {g1, g2}
MCSessions == {s1, s2}
MCLinks == {k1}
MCDrivers == {d1}
MCRouters == {r1, r2}

(* Goroutines and sessions are only compared for equality. *)
Symm == Permutations(MCGoroutines) \cup Permutations(MCSessions)
===============================================================================
