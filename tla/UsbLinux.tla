------------------------------ MODULE UsbLinux ------------------------------
(***************************************************************************)
(* USB on Linux (usb_linux.c): device_poll_thread opens device files and   *)
(* kicks the handles of devices that its scan no longer finds; the reader  *)
(* of a transport submits a read and reaps whatever request the kernel has *)
(* completed, its writer's included; the writer waits to be told.          *)
(*                                                                         *)
(* usb_lock and transport_lock are variables, since both are held across   *)
(* calls that take the other.  A section under a handle's own lock is one  *)
(* step: the only one that waits for something is usb_kick of a handle     *)
(* that is open for reading, which no thread but the poll uses.            *)
(***************************************************************************)
EXTENDS Integers, FiniteSets

CONSTANTS Devices,     \* names under /dev/bus/usb of devices with an adb interface
          ReadOnly,    \* those that adb has no permission to write to
          LHandles,    \* memory for usb_handle objects
          MaxPulls,    \* bound: times a cable is pulled
          MaxFailures, \* bound: calls and transfers that fail although the device is there
          NoDevice, NoOwner

ASSUME DeviceAssumption == NoDevice \notin Devices /\ ReadOnly \subseteq Devices
ASSUME OwnerAssumption == NoOwner # "poll"
ASSUME LinuxBounds == MaxPulls \in Nat /\ MaxFailures \in Nat

VARIABLES lusb,    \* lusb[h]: a usb_handle, its transport and the two threads
          lpoll,   \* device_poll_thread
          present, \* the device files there are
          usb_lock, transport_lock,
          trouble  \* pulls and failures so far

linux_vars == <<lusb, lpoll, present, usb_lock, transport_lock, trouble>>

\* A request to the kernel: "idle", in "flight", "complete" until it is reaped.
Urb(at, ok) == [at |-> at, ok |-> ok]

\* `reg` is where the transport is: "pending", "listed", or "out" of the list.
NewUsb == [life |-> "none", dev |-> NoDevice, works |-> FALSE, writeable |-> FALSE,
           mark |-> FALSE, dead |-> FALSE, in |-> Urb("idle", TRUE), out |-> Urb("idle", TRUE),
           out_busy |-> FALSE, reg |-> "out", refs |-> 0, kicked |-> FALSE, offline |-> FALSE,
           got |-> "none", reader |-> "exit", writer |-> "exit"]

LinuxInit ==
    /\ lusb = [h \in LHandles |-> NewUsb]
    /\ lpoll = [pc |-> "scan", left |-> {}, at |-> NoDevice, todo |-> {}]
    /\ present \in SUBSET Devices
    /\ usb_lock = NoOwner /\ transport_lock = NoOwner
    /\ trouble = [pulls |-> 0, failures |-> 0]

SetLusb(h, r) == lusb' = [lusb EXCEPT ![h] = r]
Fails == trouble.failures < MaxFailures /\ trouble' = [trouble EXCEPT !.failures = @ + 1]

-----------------------------------------------------------------------------
(* usb_kick                                                                *)

\* USBDEVFS_DISCARDURB: a request in flight completes; either way it has failed.
Discarded(u) == Urb(IF u.at = "flight" THEN "complete" ELSE u.at, FALSE)

\* A handle open for writing: the signal to the reaper may be lost if it comes
\* before the ioctl, but a request that was discarded is there to be reaped.
KickHandle(r) ==
    IF r.dead THEN r
    ELSE [r EXCEPT !.dead = TRUE, !.in = Discarded(@), !.out = Discarded(@), !.out_busy = FALSE]

-----------------------------------------------------------------------------
(* device_poll_thread                                                      *)

WithName(d) == {h \in LHandles : lusb[h].life = "open" /\ lusb[h].dev = d}

PollScan ==
    /\ lpoll.pc = "scan"
    /\ lpoll' = [lpoll EXCEPT !.pc = "next", !.left = present]
    /\ UNCHANGED <<lusb, present, usb_lock, transport_lock, trouble>>

\* find_usb_device: known_device marks a handle that is there, else the device
\* is looked at; kick_disconnected_devices follows, and holds usb_lock.
PollName ==
    /\ lpoll.pc = "next" /\ usb_lock = NoOwner
    /\ \/ \E d \in lpoll.left :
            /\ lpoll' = [lpoll EXCEPT !.left = @ \ {d}, !.at = d,
                                      !.pc = IF WithName(d) = {} THEN "open" ELSE "next"]
            /\ lusb' = [h \in LHandles |-> IF h \in WithName(d) THEN [lusb[h] EXCEPT !.mark = TRUE] ELSE lusb[h]]
            /\ UNCHANGED usb_lock
       \/ /\ lpoll.left = {}
          /\ lpoll' = [lpoll EXCEPT !.pc = "kick", !.todo = {h \in LHandles : lusb[h].life = "open"}]
          /\ usb_lock' = "poll"
          /\ UNCHANGED lusb
    /\ UNCHANGED <<present, transport_lock, trouble>>

\* register_device and register_usb_transport; without permission to write the
\* device is opened for reading, and its transport is CS_NOPERM.
RegisterDevice ==
    /\ lpoll.pc = "open"
    /\ \/ \E h \in {x \in LHandles : lusb[x].life = "none"} :
            /\ lpoll.at \in present /\ usb_lock = NoOwner /\ transport_lock = NoOwner
            /\ SetLusb(h, [NewUsb EXCEPT !.life = "open", !.dev = lpoll.at, !.works = TRUE,
                                        !.mark = TRUE, !.writeable = (lpoll.at \notin ReadOnly), !.reg = "pending"])
            /\ UNCHANGED trouble
       \/ /\ IF lpoll.at \in present THEN Fails ELSE UNCHANGED trouble
          /\ UNCHANGED lusb
    /\ lpoll' = [lpoll EXCEPT !.pc = "next"]
    /\ UNCHANGED <<present, usb_lock, transport_lock>>

\* kick_disconnected_devices, one handle.  unregister_usb_transport takes a
\* CS_NOPERM transport off the list, if it is on the list by then.
Sweep(h) ==
    /\ lpoll.pc = "kick" /\ h \in lpoll.todo
    /\ \/ lusb[h].mark /\ SetLusb(h, [lusb[h] EXCEPT !.mark = FALSE])
       \/ ~lusb[h].mark /\ lusb[h].writeable /\ SetLusb(h, KickHandle(lusb[h]))
       \/ ~lusb[h].mark /\ ~lusb[h].writeable /\ lusb[h].dead /\ UNCHANGED lusb
       \/ /\ ~lusb[h].mark /\ ~lusb[h].writeable /\ ~lusb[h].dead
          /\ transport_lock = NoOwner
          /\ SetLusb(h, [lusb[h] EXCEPT !.dead = TRUE, !.reg = IF @ = "listed" THEN "out" ELSE @])
    /\ lpoll' = [lpoll EXCEPT !.todo = @ \ {h}]
    /\ UNCHANGED <<present, usb_lock, transport_lock, trouble>>

SweepDone ==
    /\ lpoll.pc = "kick" /\ lpoll.todo = {}
    /\ lpoll' = [lpoll EXCEPT !.pc = "scan"] /\ usb_lock' = NoOwner
    /\ UNCHANGED <<lusb, present, transport_lock, trouble>>

-----------------------------------------------------------------------------
(* The main thread: transport_registration_func                            *)

RegisterTransport(h) ==
    /\ lusb[h].reg = "pending" /\ transport_lock = NoOwner
    /\ SetLusb(h, IF lusb[h].writeable
                 THEN [lusb[h] EXCEPT !.reg = "listed", !.refs = 2, !.reader = "read", !.writer = "idle"]
                 ELSE [lusb[h] EXCEPT !.reg = "listed"])
    /\ UNCHANGED <<lpoll, present, usb_lock, transport_lock, trouble>>

-----------------------------------------------------------------------------
(* The reader: usb_bulk_read in output_thread                              *)

\* Mutant: the main thread is not told.
ReadFailedSilent(r) == [r EXCEPT !.reader = "kick", !.got = "none"]

\* A read that fails ends the thread's loop; SYNC(0,0) goes to the main thread.
ReadFailed(r) == [r EXCEPT !.reader = "kick", !.got = "none", !.offline = TRUE]

SubmitRead(h) ==
    /\ lusb[h].reader = "read"
    /\ IF lusb[h].dead \/ ~lusb[h].works
       THEN SetLusb(h, ReadFailed(lusb[h]))
       ELSE SetLusb(h, [lusb[h] EXCEPT !.in = Urb("flight", TRUE), !.reader = "reap"])
    /\ UNCHANGED <<lpoll, present, usb_lock, transport_lock, trouble>>

\* USBDEVFS_REAPURB returns a request that is complete, the error of a device
\* that is gone, or, after a kick, EINTR.
Reap(h) ==
    LET done == {u \in {"in", "out"} : lusb[h][u].at = "complete"} IN
    /\ lusb[h].reader = "reap"
    /\ \/ \E u \in done : SetLusb(h, [lusb[h] EXCEPT ![u].at = "idle", !.got = u, !.reader = "reaped"])
       \/ done = {} /\ ~lusb[h].works /\ SetLusb(h, [lusb[h] EXCEPT !.got = "error", !.reader = "reaped"])
       \/ lusb[h].dead /\ SetLusb(h, [lusb[h] EXCEPT !.got = "eintr", !.reader = "reaped"])
    /\ UNCHANGED <<lpoll, present, usb_lock, transport_lock, trouble>>

\* With the lock again: the reader returns, or tells the writer and goes on.
Reaped(h) ==
    LET r == lusb[h] IN
    /\ r.reader = "reaped"
    /\ SetLusb(h, IF r.dead \/ r.got = "error" \/ (r.got = "in" /\ ~r.in.ok) THEN ReadFailed(r)
                 ELSE IF r.got = "in" THEN [r EXCEPT !.reader = "read", !.got = "none"]
                 ELSE [r EXCEPT !.reader = "reap", !.got = "none", !.out_busy = FALSE])
    /\ UNCHANGED <<lpoll, present, usb_lock, transport_lock, trouble>>

-----------------------------------------------------------------------------
(* The writer: usb_bulk_write in input_thread                              *)

\* A packet to write, if the handle is not dead and the kernel takes it.
SubmitWrite(h) ==
    /\ lusb[h].writer = "idle" /\ ~lusb[h].dead /\ lusb[h].works
    /\ SetLusb(h, [lusb[h] EXCEPT !.out = Urb("flight", TRUE), !.out_busy = TRUE, !.writer = "wait"])
    /\ UNCHANGED <<lpoll, present, usb_lock, transport_lock, trouble>>

\* Mutant: the wait is given up after five seconds.
WaitOverTimed(r) == TRUE

\* pthread_cond_timedwait reports a timeout as ETIMEDOUT, which is not < 0: the
\* loop ends only when the handle is dead or the request was reaped.
WaitOver(r) == r.dead \/ ~r.out_busy

WriteReturns(h) ==
    /\ lusb[h].writer = "wait" /\ WaitOver(lusb[h])
    /\ SetLusb(h, [lusb[h] EXCEPT !.writer = "idle"])
    /\ UNCHANGED <<lpoll, present, usb_lock, transport_lock, trouble>>

\* The SYNC(0,0) has come back to input_thread.
WriterLeaves(h) ==
    /\ lusb[h].writer = "idle" /\ lusb[h].offline
    /\ SetLusb(h, [lusb[h] EXCEPT !.writer = "kick"])
    /\ UNCHANGED <<lpoll, present, usb_lock, transport_lock, trouble>>

-----------------------------------------------------------------------------
(* Both threads on their way out                                           *)

\* kick_transport: the first one kicks the handle, with no lock held.
FirstKick(h, w) ==
    /\ lusb[h][w] = "kick" /\ transport_lock = NoOwner
    /\ SetLusb(h, [lusb[h] EXCEPT ![w] = IF lusb[h].kicked THEN "unref" ELSE "usb_kick", !.kicked = TRUE])
    /\ UNCHANGED <<lpoll, present, usb_lock, transport_lock, trouble>>

KickByThread(h, w) ==
    /\ lusb[h][w] = "usb_kick"
    /\ SetLusb(h, [KickHandle(lusb[h]) EXCEPT ![w] = "unref"])
    /\ UNCHANGED <<lpoll, present, usb_lock, transport_lock, trouble>>

\* transport_unref: the last reference calls usb_close with transport_lock held,
UnrefTransport(h, w) ==
    /\ lusb[h][w] = "unref" /\ transport_lock = NoOwner
    /\ SetLusb(h, [lusb[h] EXCEPT !.refs = @ - 1, ![w] = IF lusb[h].refs = 1 THEN "close" ELSE "exit"])
    /\ transport_lock' = IF lusb[h].refs = 1 THEN h ELSE transport_lock
    /\ UNCHANGED <<lpoll, present, usb_lock, trouble>>

\* and usb_close takes usb_lock.
CloseUsb(h, w) ==
    /\ lusb[h][w] = "close" /\ usb_lock = NoOwner
    /\ SetLusb(h, NewUsb)
    /\ transport_lock' = NoOwner
    /\ UNCHANGED <<lpoll, present, usb_lock, trouble>>

-----------------------------------------------------------------------------
(* The kernel and the cable                                                *)

Complete(h, u) ==
    /\ lusb[h][u].at = "flight"
    /\ \/ SetLusb(h, [lusb[h] EXCEPT ![u].at = "complete"]) /\ UNCHANGED trouble
       \/ SetLusb(h, [lusb[h] EXCEPT ![u] = Urb("complete", FALSE)]) /\ Fails
    /\ UNCHANGED <<lpoll, present, usb_lock, transport_lock>>

Pull(d) ==
    /\ d \in present /\ trouble.pulls < MaxPulls
    /\ present' = present \ {d}
    /\ trouble' = [trouble EXCEPT !.pulls = @ + 1]
    /\ lusb' = [h \in LHandles |-> IF lusb[h].dev = d
                                   THEN [lusb[h] EXCEPT !.works = FALSE, !.in = Discarded(@), !.out = Discarded(@)]
                                   ELSE lusb[h]]
    /\ UNCHANGED <<lpoll, usb_lock, transport_lock>>

\* A device is plugged in, perhaps with the name of a handle that is still open.
Insert(d) ==
    /\ d \notin present
    /\ present' = present \cup {d}
    /\ UNCHANGED <<lusb, lpoll, usb_lock, transport_lock, trouble>>

-----------------------------------------------------------------------------
DevicePoll == PollScan \/ PollName \/ RegisterDevice \/ SweepDone \/ \E h \in LHandles : Sweep(h)
LinuxReader(h) == SubmitRead(h) \/ Reap(h) \/ Reaped(h)
LeavingThread(h, w) == FirstKick(h, w) \/ KickByThread(h, w) \/ UnrefTransport(h, w) \/ CloseUsb(h, w)

LinuxNext ==
    \/ DevicePoll
    \/ \E h \in LHandles :
          \/ RegisterTransport(h) \/ LinuxReader(h)
          \/ SubmitWrite(h) \/ WriteReturns(h) \/ WriterLeaves(h)
          \/ \E w \in {"reader", "writer"} : LeavingThread(h, w)
          \/ \E u \in {"in", "out"} : Complete(h, u)
    \/ \E d \in Devices : Pull(d) \/ Insert(d)

LinuxSpec == LinuxInit /\ [][LinuxNext]_linux_vars

-----------------------------------------------------------------------------
(* Properties                                                              *)

\* The poll holds usb_lock and waits for transport_lock, and a thread in usb_close
\* holds transport_lock and waits for usb_lock.
Embraced ==
    /\ usb_lock = "poll" /\ transport_lock # NoOwner
    /\ \E h \in lpoll.todo : ~lusb[h].mark /\ ~lusb[h].writeable /\ ~lusb[h].dead

OneUsb == \A g, h \in LHandles : lusb[g].dev = lusb[h].dev /\ lusb[h].dev # NoDevice => g = h

\* The kernel never has a buffer of a call that has returned, whoever kicks the
\* handle and whichever thread reaps whose request; a thread closes the handle when
\* the other has left it and the poll is not about to kick it; a device has one handle.
BuffersHeld ==
    /\ \A h \in LHandles :
          /\ lusb[h].in.at = "flight" => lusb[h].reader \in {"reap", "reaped"}
          /\ lusb[h].out.at = "flight" => lusb[h].writer = "wait"
          /\ lusb[h].reader = "close" => lusb[h].writer = "exit"
          /\ lusb[h].writer = "close" => lusb[h].reader = "exit"
          /\ lusb[h].life = "none" => h \notin lpoll.todo
    /\ OneUsb

\* BuffersHeld is kept by the steps together with what follows: LinuxInv.
UrbType == [at : {"idle", "flight", "complete"}, ok : BOOLEAN]
ReaderPlaces == {"read", "reap", "reaped", "kick", "usb_kick", "unref", "close", "exit"}
WriterPlaces == {"idle", "wait", "kick", "usb_kick", "unref", "close", "exit"}
UsbType ==
    [life : {"none", "open"}, dev : Devices \cup {NoDevice}, works : BOOLEAN, writeable : BOOLEAN,
     mark : BOOLEAN, dead : BOOLEAN, in : UrbType, out : UrbType, out_busy : BOOLEAN,
     reg : {"pending", "listed", "out"}, refs : Int, kicked : BOOLEAN, offline : BOOLEAN,
     got : {"none", "in", "out", "error", "eintr"}, reader : ReaderPlaces, writer : WriterPlaces]

LinuxTypeOK ==
    /\ lusb \in [LHandles -> UsbType]
    /\ lpoll \in [pc : {"scan", "next", "open", "kick"}, left : SUBSET Devices,
                  at : Devices \cup {NoDevice}, todo : SUBSET LHandles]
    /\ present \subseteq Devices

\* The references that a thread has, by where it is
Refs(pc) == IF pc \in {"close", "exit"} THEN 0 ELSE 1

\* The writer has not yet been told of the request that the reader reaps for it.
Waits(r) == r.dead \/ (r.writer = "wait" /\ r.out_busy)

UsbExact(r) ==
    /\ r.life = "none" => r.dev = NoDevice
    /\ r.in.at = "flight" => r.reader \in {"reap", "reaped"} /\ r.works /\ ~r.dead
    /\ r.out.at = "flight" => r.works /\ ~r.dead
    /\ r.out.at # "idle" => Waits(r)
    /\ r.reader = "reaped" => \/ r.got = "in" /\ r.in.at = "idle"
                              \/ r.got = "out" /\ r.out.at = "idle" /\ Waits(r)
                              \/ r.got = "error" /\ ~r.works
                              \/ r.got = "eintr" /\ r.dead
    /\ r.reg = "pending" \/ ~r.writeable => r.reader = "exit" /\ r.writer = "exit"
    /\ r.refs = Refs(r.reader) + Refs(r.writer)
    /\ r.reader = "close" => r.writer = "exit"
    /\ r.writer = "close" => r.reader = "exit"

PollHolds ==
    /\ lpoll.pc = "kick" => usb_lock = "poll"
    /\ lpoll.pc # "kick" => lpoll.todo = {}
    /\ \A h \in lpoll.todo : lusb[h].life = "open"
    /\ lpoll.pc = "open" => lpoll.at \in Devices /\ \A h \in LHandles : lusb[h].dev # lpoll.at

LinuxInv == LinuxTypeOK /\ (\A h \in LHandles : UsbExact(lusb[h])) /\ PollHolds /\ OneUsb

\* When a device is pulled, both threads of its transport come to an end, however
\* they block, and its handle is closed, unless the locks are taken in opposite orders.
PulledIsClosed ==
    LET pulled == {h \in LHandles : lusb[h].writeable /\ ~lusb[h].works}
    IN pulled # {} ~> pulled = {} \/ Embraced
=============================================================================
