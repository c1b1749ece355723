---------------------------- MODULE MCTransports ----------------------------
(* Two instances of Transport for TLC, on the same variables: two emulators  *)
(* found on one port, with another part of the server that opens files, and  *)
(* Parted, a TCP device that a user may disconnect beside a USB device.      *)
EXTENDS MCTransport

CONSTANTS t1, s1

VARIABLE part

Parted ==
    INSTANCE Transport WITH
        Tcp <- {t1}, Serials <- {s1}, Disconnects <- {t1}, Emulators <- {}, MaxOpens <- 0

MCInit == part \in {"emulators", "parted"} /\ Init

MCNext ==
    /\ UNCHANGED part
    /\ \/ part = "emulators" /\ Next
       \/ part = "parted" /\ Parted!Next

\* Fairness of Transport, for the instance at hand.
MCFairness ==
    /\ WF_vars((part = "emulators" /\ Registration) \/ (part = "parted" /\ Parted!Registration))
    /\ WF_vars(part = "parted" /\ Parted!MainUnregister)
    /\ \A t \in Transports :
          /\ WF_vars(HandlePacket(t))
          /\ WF_vars((part = "emulators" /\ Output(t)) \/ (part = "parted" /\ Parted!Output(t)))
          /\ WF_vars((part = "emulators" /\ Input(t)) \/ (part = "parted" /\ Parted!Input(t)))

MCSpec == MCInit /\ [][MCNext]_<<part, vars>> /\ MCFairness

\* TransportInv (Transport) of the emulators: references count the threads, the
\* lists and the slots hold what they should, and serials are unique.
EmulatorsExact == part = "emulators" => TransportInv

\* ClosedAfterThreads (Transport) of the emulators, which nobody disconnects:
\* transport_unref_locked closes t->fd after both threads have left it.
EmulatorsClosedLast == part = "emulators" => ClosedAfterThreads

=============================================================================
