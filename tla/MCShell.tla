------------------------------ MODULE MCShell ------------------------------
(* Shell alone, for TLC: the constants are given in the cfg file.           *)
EXTENDS Shell

MCShellOutput == <<2>>
=============================================================================
