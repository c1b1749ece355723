---------------------------- MODULE MCTransport ----------------------------
(* Transport for TLC: the constants are given in the cfg files.              *)
EXTENDS Transport

\* Every emulator was found on one port.
OnePort == [t \in Transports |-> 5555]
=============================================================================
