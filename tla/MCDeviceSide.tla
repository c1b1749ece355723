---------------------------- MODULE MCDeviceSide ----------------------------
(* One instance for TLC of the parts between host and device: the USB link on  *)
(* Windows, the handshake of both ends, "adb push/pull/sync" with its service, *)
(* and adbd's JDWP and shell services.  They share no state, so a behaviour is *)
(* a behaviour of one of them (`part`) while the others stay in one of their   *)
(* initial states.                                                             *)
EXTENDS Handshake, UsbWindows, Jdwp, Shell, FileSync

VARIABLE part

\* The device knows the second key of one host; of the other it knows none
\* unless its user says so.
MCKeyList == << <<1, 2>>, <<1>> >>
MCPid == [v \in Vms |-> 7]

\* One shell says nothing, the other fills a packet.
MCMaxOutput == <<0, 2>>

MCInit ==
    /\ part \in {"handshake", "usb", "jdwp", "shell", "sync"}
    /\ HandshakeInit /\ (part # "handshake" => auth.auth_enabled)
    /\ UsbInit /\ (part # "usb" => plugged = {} /\ faults.lost = "other")
    /\ JdwpInit
    /\ ShellInit
    /\ SyncInit /\ (part # "sync" => client.job = "ls" /\ \A f \in Files : disk.remote[f] = NoFile)

MCNext ==
    /\ UNCHANGED part
    /\ \/ /\ part = "handshake" /\ HandshakeNext
          /\ UNCHANGED <<usb_vars, jdwp_vars, shell_vars, sync_vars>>
       \/ /\ part = "usb" /\ UsbNext
          /\ UNCHANGED <<handshake_vars, jdwp_vars, shell_vars, sync_vars>>
       \/ /\ part = "jdwp" /\ JdwpNext
          /\ UNCHANGED <<handshake_vars, usb_vars, shell_vars, sync_vars>>
       \/ /\ part = "shell" /\ ShellNext
          /\ UNCHANGED <<handshake_vars, usb_vars, jdwp_vars, sync_vars>>
       \/ /\ part = "sync" /\ SyncNext
          /\ UNCHANGED <<handshake_vars, usb_vars, jdwp_vars, shell_vars>>

\* The main loops of both ends handle what arrives.
HandshakeFairness ==
    \A l \in Links : /\ WF_handshake_vars(part = "handshake" /\ HostPacket(l))
                     /\ WF_handshake_vars(part = "handshake" /\ DevPacket(l))

\* The threads run, and a read of a device that is gone returns.  input_thread
\* gets to the SYNC(0,0) in its queue, whatever it has to write before.
UsbFairness ==
    /\ WF_usb_vars(part = "usb" /\ Poll)
    /\ \A h \in Handles :
          /\ WF_usb_vars(part = "usb" /\ UsbStart(h))
          /\ WF_usb_vars(part = "usb" /\ ReadGone(h))
          /\ SF_usb_vars(part = "usb" /\ WriterStops(h))
          /\ \A w \in {"reader", "writer"} : WF_usb_vars(part = "usb" /\ UsbThread(h, w))

\* adbd's main loop and its waiting threads run, and the host takes what it is
\* sent.  Nothing says that a process ends.
ShellFairness ==
    /\ WF_shell_vars(part = "shell" /\ MainLoop)
    /\ \A s \in Shells : /\ WF_shell_vars(part = "shell" /\ Waiter(s))
                         /\ WF_shell_vars(part = "shell" /\ HostTakes(s))

\* Both programs run.
SyncFairness ==
    /\ WF_sync_vars(part = "sync" /\ Client)
    /\ WF_sync_vars(part = "sync" /\ Service)

MCSpec == /\ MCInit /\ [][MCNext]_<<part, handshake_vars, usb_vars, jdwp_vars, shell_vars, sync_vars>>
          /\ HandshakeFairness /\ UsbFairness /\ ShellFairness /\ SyncFairness

\* Connects (Handshake): a host whose key the device knows gets online, whatever
\* tokens and answers of an earlier server are still under way.
HandshakeConnects == part = "handshake" => Connects

\* Found (UsbWindows): a device that stays plugged in gets a handle, also when it
\* was pulled out and put back within one poll of device_poll_thread.
UsbFound == part = "usb" => Found

\* ShellEnds (Shell): the stream of a shell whose processes are gone is closed,
\* also when subproc_waiter_service never tells of its exit.
ShellStreamsEnd == part = "shell" => ShellEnds

\* SyncEnds (FileSync): do_sync_push, _pull, _sync and _ls and their service come to
\* an end, whichever calls fail.
TransferEnds == part = "sync" => SyncEnds
=============================================================================
