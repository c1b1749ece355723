---------------------------- MODULE MCHostServer ----------------------------
(* Instances of HostServer for TLC: the other constants are in the cfg files. *)
EXTENDS HostServer

\* One device on USB, one on TCP.
MCSerial == <<"s1", "s2">>
MCType == <<"usb", "local">>
=============================================================================
