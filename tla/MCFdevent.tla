----------------------------- MODULE MCFdevent -----------------------------
(* Fdevent alone, for TLC: the constants are given in the cfg file.         *)
EXTENDS Fdevent
=============================================================================
