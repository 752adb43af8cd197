----------------------------- MODULE MCSnowFlake -----------------------------
(* Instance of SnowFlake for TLC. *)
EXTENDS SnowFlake

(* Node number 2 does not fit in one bit and is refused. *)
MCNumbers == 0 .. 2
=============================================================================
