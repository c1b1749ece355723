----------------------------- MODULE MCUsbLinux -----------------------------
(* UsbLinux for TLC: the fairness; the constants are given in the cfg file.  *)
EXTENDS UsbLinux

\* The threads run; input_thread gets to the SYNC(0,0) in its queue; and the poll,
\* which sleeps for a second between scans, does not keep usb_lock from others.
LinuxFairness ==
    /\ WF_linux_vars(DevicePoll)
    /\ \A h \in LHandles :
          /\ WF_linux_vars(RegisterTransport(h))
          /\ WF_linux_vars(LinuxReader(h))
          /\ WF_linux_vars(WriteReturns(h))
          /\ SF_linux_vars(WriterLeaves(h))
          /\ \A w \in {"reader", "writer"} :
                /\ WF_linux_vars(LeavingThread(h, w))
                /\ SF_linux_vars(CloseUsb(h, w))

MCSpec == LinuxSpec /\ LinuxFairness
=============================================================================
