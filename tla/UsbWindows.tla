----------------------------- MODULE UsbWindows -----------------------------
(***************************************************************************)
(* USB on Windows (usb_windows.cpp, transport_usb.cpp): device_poll_thread *)
(* looks for interfaces every second, opens the ones that have no handle   *)
(* and registers a transport for them; the two threads of the transport    *)
(* use the handle, find out that the device is gone, and give it back.     *)
(*                                                                         *)
(* A section under usb_lock is one step.  A handle is written to once it is *)
(* NULL'ed or freed only if the code does: the steps say what it does then. *)
(***************************************************************************)
EXTENDS Integers, FiniteSets

CONSTANTS Interfaces,  \* interface names the system may report
          Recognized,  \* those of adb: is_adb_interface with two endpoints
          Handles,     \* memory for usb_handle objects; freed memory is used again
          MaxUnplugs,  \* bound: times a cable is pulled
          MaxErrors,   \* bound: calls that fail although the device is there
          NoInterface, NoHandle

ASSUME InterfaceAssumption == Recognized \subseteq Interfaces /\ NoInterface \notin Interfaces
ASSUME HandleAssumption == NoHandle \notin Handles
ASSUME UsbBounds == MaxUnplugs \in Nat /\ MaxErrors \in Nat

VARIABLES usb,      \* usb[h]: a usb_handle and the threads of its transport
          poll,     \* device_poll_thread
          plugged,  \* the interfaces that are present
          faults    \* unplugs and errors so far, and the error a lost device gives

usb_vars == <<usb, poll, plugged, faults>>

\* `dev` is the interface the pipes belong to and `works` whether it has been
\* there ever since; `closes` counts how often the pipes were closed.
NewHandle == [life |-> "none", dev |-> NoInterface, name |-> NoInterface, pipes |-> FALSE,
              works |-> FALSE, linked |-> FALSE, closes |-> 0, refs |-> 0, kicked |-> FALSE,
              offline |-> FALSE, reader |-> "exit", writer |-> "exit"]

UsbInit ==
    /\ usb = [h \in Handles |-> NewHandle]
    /\ poll = [pc |-> "sleep", left |-> {}, at |-> NoInterface, h |-> NoHandle]
    /\ plugged \in SUBSET Interfaces
    /\ faults \in [unplugs : {0}, errors : {0}, lost : {"invalid", "other"}]

\* A call fails although the device is there.
Err == faults.errors < MaxErrors /\ faults' = [faults EXCEPT !.errors = @ + 1]

SetHandle(h, r) == usb' = [usb EXCEPT ![h] = r]

\* Mutant: the fields are not set to NULL.
CleanupKeeps(r) == [r EXCEPT !.closes = IF @ < 2 THEN @ + 1 ELSE @]

\* usb_cleanup_handle: what is not NULL is closed and set to NULL.
Cleanup(r) ==
    [r EXCEPT !.name = NoInterface, !.pipes = FALSE, !.closes = IF r.pipes THEN @ + 1 ELSE @]

-----------------------------------------------------------------------------
(* device_poll_thread                                                      *)

\* known_device: a handle on the list has the name.
KnownDevice(i) == \E h \in Handles : usb[h].linked /\ usb[h].name = i

\* find_devices: AdbEnumInterfaces takes a list of what is present.
PollEnum ==
    /\ poll.pc = "sleep"
    /\ poll' = [poll EXCEPT !.pc = "next", !.left = plugged]
    /\ UNCHANGED <<usb, plugged, faults>>

\* AdbNextInterface; an interface with a handle is passed over.
PollNext ==
    /\ poll.pc = "next"
    /\ IF poll.left = {}
       THEN poll' = [poll EXCEPT !.pc = "sleep"]
       ELSE \E i \in poll.left :
              poll' = [poll EXCEPT !.left = @ \ {i}, !.at = i,
                                   !.pc = IF KnownDevice(i) THEN "next" ELSE "open"]
    /\ UNCHANGED <<usb, plugged, faults>>

\* do_usb_open gives a handle; or there is no interface any more, or another
\* program has it; or a pipe or the name cannot be had, and then fields that
\* malloc left as they were are freed and closed, which may end the program.
PollOpen ==
    /\ poll.pc = "open"
    /\ \/ \E h \in {x \in Handles : usb[x].life = "none"} :
            /\ poll.at \in plugged
            /\ SetHandle(h, [NewHandle EXCEPT !.life = "open", !.dev = poll.at, !.name = poll.at,
                                              !.pipes = TRUE, !.works = TRUE])
            /\ poll' = [poll EXCEPT !.pc = "check", !.h = h]
            /\ UNCHANGED faults
       \/ /\ IF poll.at \in plugged THEN Err ELSE UNCHANGED faults
          /\ poll' \in {[poll EXCEPT !.pc = "next"], [poll EXCEPT !.pc = "crashed"]}
          /\ UNCHANGED usb
    /\ UNCHANGED plugged

\* recognized_device and AdbGetSerialNumber, then register_new_device, which
\* looks at the list again, and register_usb_transport.
PollCheck ==
    LET h == poll.h IN
    /\ poll.pc = "check"
    /\ \/ /\ usb[h].works /\ usb[h].dev \in Recognized /\ ~KnownDevice(usb[h].name)
          /\ SetHandle(h, [usb[h] EXCEPT !.linked = TRUE, !.life = "registered"])
          /\ UNCHANGED faults
       \/ /\ ~usb[h].works \/ usb[h].dev \notin Recognized \/ KnownDevice(usb[h].name)
          /\ SetHandle(h, [Cleanup(usb[h]) EXCEPT !.life = "none"])
          /\ UNCHANGED faults
       \/ /\ usb[h].works /\ Err
          /\ SetHandle(h, [Cleanup(usb[h]) EXCEPT !.life = "none"])
    /\ poll' = [poll EXCEPT !.pc = "next", !.h = NoHandle]
    /\ UNCHANGED plugged

-----------------------------------------------------------------------------
(* The transport                                                           *)

\* transport_registration_func: two threads, a reference each.
UsbStart(h) ==
    /\ usb[h].life = "registered"
    /\ SetHandle(h, [usb[h] EXCEPT !.life = "served", !.refs = 2, !.reader = "run", !.writer = "run"])
    /\ UNCHANGED <<poll, plugged, faults>>

\* What AdbReadEndpointSync and AdbWriteEndpointSync report when they fail: a
\* closed pipe is ERROR_INVALID_HANDLE; for a lost device it is up to the driver.
LastError(h) == IF usb[h].pipes THEN faults.lost ELSE "invalid"

\* Mutant: the loop of usb_read goes on after an error that is not
\* ERROR_INVALID_HANDLE.
AfterReadRetry(e) == IF e = "invalid" THEN "usb_kick" ELSE "run"

\* usb_read kicks the handle when the error is ERROR_INVALID_HANDLE; then the
\* thread leaves its loop, posts SYNC(0,0), whereupon the transport is offline, and
\* kicks the transport.
AfterRead(e) == IF e = "invalid" THEN "usb_kick" ELSE "kick"

\* output_thread in remote_read: usb_read fails because the device is gone or
\* the handle was kicked,
ReadFails(h, e) ==
    /\ usb[h].reader = "run"
    /\ SetHandle(h, [usb[h] EXCEPT !.reader = AfterRead(e), !.offline = (AfterRead(e) = "kick")])
    /\ UNCHANGED <<poll, plugged>>

ReadGone(h) == ~(usb[h].works /\ usb[h].pipes) /\ ReadFails(h, LastError(h)) /\ UNCHANGED faults

\* or for another reason, such as a message with a bad header.
ReadError(h) == usb[h].works /\ usb[h].pipes /\ ReadFails(h, "other") /\ Err

\* input_thread in remote_write, which fails with ERROR_INVALID_HANDLE; it goes
\* on whatever usb_write returns.
WriteFails(h) ==
    /\ usb[h].writer = "run" /\ ~(usb[h].works /\ usb[h].pipes) /\ LastError(h) = "invalid"
    /\ SetHandle(h, [usb[h] EXCEPT !.writer = "usb_kick"])
    /\ UNCHANGED <<poll, plugged, faults>>

\* usb_kick by thread w: the reader then leaves its loop, the writer does not.
UsbKick(h, w) ==
    /\ usb[h][w] = "usb_kick"
    /\ SetHandle(h, [Cleanup(usb[h]) EXCEPT ![w] = IF w = "reader" THEN "kick" ELSE "run",
                                            !.offline = @ \/ w = "reader"])
    /\ UNCHANGED <<poll, plugged, faults>>

\* kick_transport: the first to call it calls remote_kick, which is usb_kick.
Kicked(r) == IF r.kicked THEN r ELSE [Cleanup(r) EXCEPT !.kicked = TRUE]

KickTransport(h, w) ==
    /\ usb[h][w] = "kick"
    /\ SetHandle(h, [Kicked(usb[h]) EXCEPT ![w] = "unref"])
    /\ UNCHANGED <<poll, plugged, faults>>

\* The SYNC(0,0) has reached input_thread by way of the main thread.
WriterStops(h) ==
    /\ usb[h].writer = "run" /\ usb[h].offline
    /\ SetHandle(h, [usb[h] EXCEPT !.writer = "kick"])
    /\ UNCHANGED <<poll, plugged, faults>>

\* transport_unref_locked: the last reference calls usb_close, which takes the
\* handle off the list under usb_lock,
UsbUnref(h, w) ==
    /\ usb[h][w] = "unref"
    /\ SetHandle(h, IF usb[h].refs = 1
                    THEN [usb[h] EXCEPT !.refs = 0, !.linked = FALSE, ![w] = "close"]
                    ELSE [usb[h] EXCEPT !.refs = @ - 1, ![w] = "exit"])
    /\ UNCHANGED <<poll, plugged, faults>>

\* and cleans it up and frees it without.
UsbClose(h, w) ==
    /\ usb[h][w] = "close"
    /\ SetHandle(h, [Cleanup(usb[h]) EXCEPT !.life = "none", ![w] = "exit"])
    /\ UNCHANGED <<poll, plugged, faults>>

-----------------------------------------------------------------------------
(* The cable                                                               *)

Unplug(i) ==
    /\ i \in plugged /\ faults.unplugs < MaxUnplugs
    /\ plugged' = plugged \ {i}
    /\ faults' = [faults EXCEPT !.unplugs = @ + 1]
    /\ usb' = [h \in Handles |-> IF usb[h].dev = i THEN [usb[h] EXCEPT !.works = FALSE] ELSE usb[h]]
    /\ UNCHANGED poll

Plug(i) == i \notin plugged /\ plugged' = plugged \cup {i} /\ UNCHANGED <<usb, poll, faults>>

Poll == PollEnum \/ PollNext \/ PollOpen \/ PollCheck
UsbThread(h, w) == UsbKick(h, w) \/ KickTransport(h, w) \/ UsbUnref(h, w) \/ UsbClose(h, w)

UsbNext ==
    \/ Poll
    \/ \E h \in Handles : \/ UsbStart(h) \/ ReadGone(h) \/ ReadError(h) \/ WriteFails(h) \/ WriterStops(h)
                          \/ \E w \in {"reader", "writer"} : UsbThread(h, w)
    \/ \E i \in Interfaces : Unplug(i) \/ Plug(i)

UsbSpec == UsbInit /\ [][UsbNext]_usb_vars

-----------------------------------------------------------------------------
(* Properties                                                              *)

\* Whichever of usb_read, usb_write, kick_transport and usb_close clean up a
\* handle, and in whatever order, its pipes are closed once, and it is not
\* freed before both threads have left it.
ClosedOnce ==
    \A h \in Handles : /\ usb[h].closes <= 1
                       /\ usb[h].life = "none" => usb[h].closes = 1 \/ usb[h] = NewHandle
                       /\ usb[h].life = "none" =>
                             ~usb[h].linked /\ usb[h].reader = "exit" /\ usb[h].writer = "exit"

\* find_devices never opens an interface for which a handle with open pipes is
\* registered: no two transports share a device.
OneHandle ==
    \A g, h \in Handles : usb[g].linked /\ usb[h].pipes /\ usb[g].pipes /\ usb[g].dev = usb[h].dev => g = h

\* Both, whatever the threads and the poll do to one handle.
HandlesExact == ClosedOnce /\ OneHandle

Places == {"run", "usb_kick", "kick", "unref", "close", "exit"}
HandleType == [life : {"none", "open", "registered", "served"}, dev : Interfaces \cup {NoInterface},
               name : Interfaces \cup {NoInterface}, pipes : BOOLEAN, works : BOOLEAN, linked : BOOLEAN,
               closes : Nat, refs : Nat, kicked : BOOLEAN, offline : BOOLEAN, reader : Places, writer : Places]

UsbTypeOK ==
    /\ usb \in [Handles -> HandleType]
    /\ poll \in [pc : {"sleep", "next", "open", "check", "crashed"}, left : SUBSET Interfaces,
                 at : Interfaces \cup {NoInterface}, h : Handles \cup {NoHandle}]
    /\ plugged \subseteq Interfaces

\* Thread w of handle r has not dropped its reference.
Uses(r, w) == r[w] \notin {"close", "exit"}

\* One handle.  Its references are those of its threads, and a thread that drops
\* its own has seen to it that the pipes are closed.
HandleExact(r) ==
    /\ r.life # "none" => r.closes = IF r.pipes THEN 0 ELSE 1
    /\ r.life = "none" => r = NewHandle \/ r.closes = 1
    /\ r.pipes => r.life # "none" /\ r.name = r.dev /\ ~r.kicked
    /\ r.life # "served" => r.reader = "exit" /\ r.writer = "exit"
    /\ r.linked <=> r.life = "registered" \/ (r.life = "served" /\ r.refs > 0)
    /\ r.life = "served" =>
          /\ \/ r.refs = 2 /\ Uses(r, "reader") /\ Uses(r, "writer")
             \/ r.refs = 1 /\ r.reader = "exit" /\ Uses(r, "writer")
             \/ r.refs = 1 /\ r.writer = "exit" /\ Uses(r, "reader")
             \/ r.refs = 0 /\ {r.reader, r.writer} = {"close", "exit"}
          /\ r.reader \in {"unref", "close", "exit"} \/ r.writer \in {"unref", "close", "exit"} => r.kicked

\* What the poll is about to open, or has opened, no handle on the list has.
PollExact ==
    /\ \A h \in Handles : usb[h].life = "open" <=> poll.pc = "check" /\ poll.h = h
    /\ poll.pc = "check" => poll.h \in Handles /\ usb[poll.h].pipes /\ usb[poll.h].dev = poll.at
    /\ poll.pc \in {"open", "check"} => poll.at \in Interfaces /\ ~KnownDevice(poll.at)

\* The inductive invariant.
UsbInv == UsbTypeOK /\ (\A h \in Handles : HandleExact(usb[h])) /\ PollExact /\ OneHandle

\* A device that stays plugged in gets a handle that works, also when it was
\* pulled out and came back before the handle it had was closed.
Found ==
    \A i \in Recognized :
       (i \in plugged) ~> \/ i \notin plugged \/ poll.pc = "crashed"
                          \/ \E h \in Handles : usb[h].linked /\ usb[h].dev = i /\ usb[h].works
=============================================================================
