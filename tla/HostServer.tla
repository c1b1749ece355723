----------------------------- MODULE HostServer -----------------------------
(***************************************************************************)
(* The server's side of a client: the smart socket that reads requests     *)
(* (sockets.cpp), the host requests (adb.cpp), the port forwards, the      *)
(* device trackers and the choice of a device (transport.cpp), and the     *)
(* threads of wait-for-device (services.cpp), while devices come and go.   *)
(*                                                                         *)
(* Every handler of the event loop is one step.  The input thread of a     *)
(* lost device and the wait-for threads run beside the loop.               *)
(*                                                                         *)
(* A transport that a client disconnects leaves the list at once and is    *)
(* unlinked a second time when it is freed, with the neighbours it had.    *)
(* If the list has changed in between, what a loop over it finds is        *)
(* undefined (Transport has the pointers): the model goes no further.      *)
(***************************************************************************)
EXTENDS Integers, Sequences, FiniteSets

CONSTANTS Conns,      \* connections that clients may make, to the server or a forward
          Devs,       \* transports, each one connection of a device
          Serial,     \* Serial[t]
          Type,       \* Type[t]: "usb", or "local" for one made by "connect:"
          Names,      \* local names of forwards ("tcp:<port>")
          Targets,    \* what requests ask for: serials, "usb", "local" or "any"
          MaxLines,   \* lines that the 1024 bytes of a tracker's message hold
          NoDev

ASSUME DevAssumption ==
    /\ NoDev \notin Devs
    /\ \A t \in Devs : Type[t] \in {"usb", "local"} /\ Serial[t] \notin {"usb", "local", "any"}
    /\ Conns \cap Names = {}
    /\ MaxLines \in Nat

VARIABLES tp,       \* tp[t]: the transport and its connection_state
          registered, \* transports in the order in which they were put on the list
          disc,     \* disc[t]: forwards and open streams on t's list of disconnects
          fwd,      \* fwd[n]: the device that a forward leads to, or NoDev
          sock,     \* sock[c]: the local socket of a connection
          seen,     \* seen[c]: the list last sent to a tracker, transport -> state
          waiter    \* waiter[c]: the wait-for thread started for connection c

host_vars == <<tp, registered, disc, fwd, sock, seen, waiter>>

NoWaiter == [pc |-> "none", target |-> "any", dev |-> NoDev]

\* `cut`: disconnected by a client; `moved`: the list has changed since; `swept`:
\* close_all_sockets has been through.
HostInit ==
    /\ tp = [t \in Devs |-> [life |-> "none", state |-> "offline",
                             cut |-> FALSE, moved |-> FALSE, swept |-> FALSE]]
    /\ registered = <<>>
    /\ disc = [t \in Devs |-> {}]
    /\ fwd = [n \in Names |-> NoDev]
    /\ sock = [c \in Conns |-> [pc |-> "closed", dev |-> NoDev, owed |-> FALSE]]
    /\ seen = [c \in Conns |-> {}]
    /\ waiter = [c \in Conns |-> NoWaiter]

\* transport_list, and its order
OnList(tr) == tr.life \in {"up", "lost"} /\ ~tr.cut
Listed == {t \in Devs : OnList(tp[t])}

\* list_transports: the lines that fit.
Lines(tps, order) ==
    LET list == SelectSeq(order, LAMBDA t : OnList(tps[t]))
    IN  {[dev |-> list[k], state |-> tps[list[k]].state] : k \in {i \in DOMAIN list : i <= MaxLines}}

\* No transport has been unlinked with neighbours that were no longer its own.
ListIntact == \A t \in Devs : tp[t].life = "gone" => ~tp[t].moved

\* The list changes while transports `tps` that were cut are yet to be freed.
Moved(tps) == [t \in Devs |-> IF tps[t].cut /\ tps[t].life # "gone"
                              THEN [tps[t] EXCEPT !.moved = TRUE] ELSE tps[t]]

\* update_transports: every tracker is sent the list.
UpdateTransports ==
    seen' = [c \in Conns |-> IF sock'[c].pc = "tracker" THEN Lines(tp', registered') ELSE seen[c]]

\* acquire_one_transport, the loop over the list.
Matches(target) == {t \in Listed : target \in {"any", Type[t], Serial[t]}}

\* One device, and one that is usable (with state CS_ANY).
Acquire(target) ==
    {t \in Matches(target) : Matches(target) = {t} /\ tp[t].state \notin {"offline", "unauthorized"}}

\* Local sockets of which s or its peer, remote or smart, has transport t.
On(t) == {c \in Conns : sock[c].dev = t /\ sock[c].pc \in {"smart", "opening", "open"}}

Closed(cs) == [c \in Conns |-> IF c \in cs THEN [sock[c] EXCEPT !.pc = "closed", !.dev = NoDev] ELSE sock[c]]

-----------------------------------------------------------------------------
(* Transports                                                              *)

\* transport_registration_func, a new transport
Arrive(t) ==
    /\ tp[t].life = "none"
    /\ tp' = [Moved(tp) EXCEPT ![t].life = "up"]
    /\ registered' = Append(registered, t)
    /\ UNCHANGED <<disc, fwd, sock, waiter>>
    /\ UpdateTransports

\* handle_offline: run_transport_disconnects removes the forwards to t and
\* closes the streams that are open on it.
HandleOffline(t) ==
    /\ fwd' = [n \in Names |-> IF n \in disc[t] THEN NoDev ELSE fwd[n]]
    /\ sock' = Closed(disc[t] \cap Conns)
    /\ disc' = [disc EXCEPT ![t] = {}]

\* A_AUTH(TOKEN): nobody is told.
Unauthorized(t) ==
    /\ tp[t].life = "up"
    /\ tp' = [tp EXCEPT ![t].state = "unauthorized"]
    /\ UNCHANGED <<registered, disc, fwd, sock, seen, waiter>>

\* A_CNXN: the first of a session, or one after a restart of adbd.
Cnxn(t) ==
    /\ tp[t].life = "up"
    /\ tp' = [tp EXCEPT ![t].state = "device"]
    /\ IF tp[t].state # "offline" THEN HandleOffline(t) ELSE UNCHANGED <<disc, fwd, sock>>
    /\ UNCHANGED <<registered, waiter>>
    /\ UpdateTransports

\* A_SYNC(0), once the output thread has lost the device.
SyncOffline(t) ==
    /\ tp[t].life = "up"
    /\ tp' = [tp EXCEPT ![t].life = "lost", ![t].state = "offline"]
    /\ HandleOffline(t)
    /\ UNCHANGED <<registered, seen, waiter>>

\* Mutant: only s->transport is compared, not s->peer->transport.
CloseAllSocketsOwn(t) == Closed({c \in On(t) : sock[c].pc # "smart"})

\* close_all_sockets, which does not go through s->close.
CloseAllSockets(t) == Closed(On(t))

\* The input thread gets the SYNC back, or finds t->fd closed, and exits: a
\* transport that was cut may be freed by then, which is compared all the same.
InputThreadExits(t) ==
    /\ tp[t].life \in {"lost", "gone"} /\ ~tp[t].swept
    /\ tp' = [tp EXCEPT ![t].swept = TRUE]
    /\ sock' = CloseAllSockets(t)
    /\ UNCHANGED <<registered, disc, fwd, seen, waiter>>

\* Mutant: the trackers are told before the transport is off the list.
TellRemovedEarly == UNCHANGED seen

TellRemoved == UpdateTransports

\* transport_registration_func, a transport to remove: both threads have exited,
\* or one of a transport whose disconnect dropped the reference of the other.  It is
\* freed, and what a thread reads there from now on may be another transport.
RemoveTransport(t) ==
    /\ tp[t].life \in {"up", "lost"} /\ (tp[t].swept \/ tp[t].cut)
    /\ \E left \in {"offline", "device"} :
          tp' = [(IF tp[t].cut THEN tp ELSE Moved(tp)) EXCEPT ![t].life = "gone", ![t].state = left]
    /\ HandleOffline(t)
    /\ registered' = SelectSeq(registered, LAMBDA u : u # t)
    /\ UNCHANGED waiter
    /\ TellRemoved

-----------------------------------------------------------------------------
(* Requests                                                                *)

\* create_local_socket for a new connection.  A thread that still waits for a
\* connection that is closed keeps its name.
NewConnection(c, pc, t) ==
    /\ sock[c].pc = "closed" /\ waiter[c].pc \in {"none", "done"}
    /\ sock' = [sock EXCEPT ![c] = [pc |-> pc, dev |-> t, owed |-> FALSE]]
    /\ waiter' = [waiter EXCEPT ![c] = NoWaiter]
    /\ UNCHANGED <<tp, registered, disc, fwd, seen>>

\* ss_listener_event_func
Accept(c) == NewConnection(c, "smart", NoDev)

\* A request gets a status and, unless it asked for a transport, is over.
Handled(c) == sock' = Closed({c})

\* "host:transport": the device is kept without a reference.
AskTransport(c, target) ==
    /\ sock[c].pc = "smart"
    /\ sock' = [sock EXCEPT ![c].dev = IF Acquire(target) = {} THEN @ ELSE CHOOSE t \in Acquire(target) : TRUE]
    /\ UNCHANGED <<tp, registered, disc, fwd, seen, waiter>>

\* "devices", "version", "get-state" and the like; "emulator:", whose transport is
\* registered later; an unknown host service; or a request that is too long or has
\* no length, which gets no status.
AskOther(c) ==
    /\ sock[c].pc = "smart"
    /\ Handled(c)
    /\ UNCHANGED <<tp, registered, disc, fwd, seen, waiter>>

\* "disconnect:" of one device, of none that there is, or of all: the transport is
\* unlinked, kicked and loses a reference (unregister_transport); nobody is told.
Disconnect(c) ==
    LET tcp == {t \in Listed : Type[t] = "local"} IN
    /\ sock[c].pc = "smart"
    /\ \E ts \in {{}, tcp} \cup {{t} : t \in tcp} :
          tp' = [t \in Devs |-> IF t \in ts THEN [tp[t] EXCEPT !.cut = TRUE, !.moved = (ts # {t})]
                               ELSE IF ts = {} THEN tp[t] ELSE Moved(tp)[t]]
    /\ Handled(c)
    /\ UNCHANGED <<registered, disc, fwd, seen, waiter>>

\* Mutant: a rebound forward stays on the list of its first device.
RebindKeeps(n, t) == disc' = [disc EXCEPT ![t] = IF fwd[n] = NoDev THEN @ \cup {n} ELSE @]

\* remove_transport_disconnect and add_transport_disconnect
Rebind(n, t) == disc' = [u \in Devs |-> IF u = t THEN disc[u] \cup {n} ELSE disc[u] \ {n}]

\* "forward": install_listener, unless the name is taken and may not be rebound.
\* The bind of a new name may fail.
Forward(c, n, target, norebind) ==
    /\ sock[c].pc = "smart"
    /\ \/ /\ Acquire(target) # {}
          /\ norebind => fwd[n] = NoDev
          /\ \E t \in Acquire(target) : Rebind(n, t) /\ fwd' = [fwd EXCEPT ![n] = t]
       \/ /\ Acquire(target) = {} \/ fwd[n] = NoDev \/ norebind
          /\ UNCHANGED <<disc, fwd>>
    /\ Handled(c)
    /\ UNCHANGED <<tp, registered, seen, waiter>>

Unforward(ns) == /\ fwd' = [n \in Names |-> IF n \in ns THEN NoDev ELSE fwd[n]]
                 /\ disc' = [t \in Devs |-> disc[t] \ ns]

\* "killforward" removes a forward, to whichever device, once it has acquired one.
KillForward(c, n, target) ==
    /\ sock[c].pc = "smart"
    /\ Unforward(IF Acquire(target) = {} THEN {} ELSE {n})
    /\ Handled(c)
    /\ UNCHANGED <<tp, registered, seen, waiter>>

\* "killforward-all"
KillForwardAll(c) ==
    /\ sock[c].pc = "smart"
    /\ Unforward(Names)
    /\ Handled(c)
    /\ UNCHANGED <<tp, registered, seen, waiter>>

\* "track-devices": the tracker sends the list when it is made ready.
TrackDevices(c) ==
    /\ sock[c].pc = "smart"
    /\ sock' = [sock EXCEPT ![c].pc = "tracker", ![c].dev = NoDev]
    /\ seen' = [seen EXCEPT ![c] = Lines(tp, registered)]
    /\ UNCHANGED <<tp, registered, disc, fwd, waiter>>

\* "wait-for-<type>" and "host-serial:...:wait-for-any" start a thread.
WaitFor(c, target) ==
    /\ sock[c].pc = "smart"
    /\ sock' = [sock EXCEPT ![c].pc = "waits", ![c].dev = NoDev]
    /\ waiter' = [waiter EXCEPT ![c] = [pc |-> "find", target |-> target, dev |-> NoDev]]
    /\ UNCHANGED <<tp, registered, disc, fwd, seen>>

\* A service of the device: A_OPEN is sent, and the status waits for the answer.
OpenService(c) ==
    /\ sock[c].pc = "smart"
    /\ IF sock[c].dev = NoDev \/ tp[sock[c].dev].state = "offline" THEN Handled(c)
       ELSE sock' = [sock EXCEPT ![c].pc = "opening", ![c].owed = TRUE]
    /\ UNCHANGED <<tp, registered, disc, fwd, seen, waiter>>

\* listener_event_func: a connection to a forward, which is owed no status.
AcceptForward(c, n) ==
    /\ fwd[n] # NoDev
    /\ NewConnection(c, "opening", fwd[n])

-----------------------------------------------------------------------------
(* Streams to the device                                                   *)

\* A_OKAY: create_remote_socket, and local_socket_ready_notify.
RemoteOkay(c) ==
    LET t == sock[c].dev IN
    /\ sock[c].pc = "opening" /\ tp[t].life = "up" /\ tp[t].state = "device"
    /\ sock' = [sock EXCEPT ![c].pc = "open", ![c].owed = FALSE]
    /\ disc' = [disc EXCEPT ![t] = @ \cup {c}]
    /\ UNCHANGED <<tp, registered, fwd, seen, waiter>>

\* A_CLSE, with local_socket_close_notify before the stream is open.
RemoteClse(c) ==
    LET t == sock[c].dev IN
    /\ sock[c].pc \in {"opening", "open"} /\ tp[t].life = "up" /\ tp[t].state = "device"
    /\ sock' = [Closed({c}) EXCEPT ![c].owed = FALSE]
    /\ disc' = [disc EXCEPT ![t] = @ \ {c}]
    /\ UNCHANGED <<tp, registered, fwd, seen, waiter>>

\* The client closes its end; a socket that does not read does not notice.
HangUp(c) ==
    /\ sock[c].pc \in {"smart", "tracker", "waits", "open"}
    /\ sock' = Closed({c})
    /\ disc' = [t \in Devs |-> disc[t] \ {c}]
    /\ seen' = [seen EXCEPT ![c] = {}]
    /\ UNCHANGED <<tp, registered, fwd, waiter>>

-----------------------------------------------------------------------------
(* wait_for_state: acquire_one_transport with CS_DEVICE                    *)

\* A wait without serial ends when two devices match; every other wait goes on.
GoesOn(target) == target \in {Serial[t] : t \in Devs} \/ Cardinality(Matches(target)) < 2

WaiterEnds(c) == /\ waiter' = [waiter EXCEPT ![c].pc = "done", ![c].dev = NoDev]
                 /\ sock' = IF sock[c].pc = "waits" THEN Closed({c}) ELSE sock

\* The list, under transport_lock,
WaiterFinds(c) ==
    /\ waiter[c].pc = "find"
    /\ IF Cardinality(Matches(waiter[c].target)) = 1
       THEN \E t \in Matches(waiter[c].target) :
               waiter' = [waiter EXCEPT ![c].pc = "check", ![c].dev = t] /\ sock' = sock
       ELSE IF GoesOn(waiter[c].target) THEN UNCHANGED <<waiter, sock>>
       ELSE WaiterEnds(c)
    /\ UNCHANGED <<tp, registered, disc, fwd, seen>>

\* and the state of what it found, after it: the transport may be freed by then.
WaiterChecks(c) ==
    /\ waiter[c].pc = "check" /\ tp[waiter[c].dev].state = "device"
    /\ WaiterEnds(c)
    /\ UNCHANGED <<tp, registered, disc, fwd, seen>>

\* Mutant: a retry looks again at the transport it has found.
WaiterRetriesStale(c) ==
    /\ waiter[c].pc = "check" /\ tp[waiter[c].dev].state # "device"
    /\ UNCHANGED host_vars

\* adb_sleep_ms and goto retry
WaiterRetries(c) ==
    /\ waiter[c].pc = "check" /\ tp[waiter[c].dev].state # "device"
    /\ waiter' = [waiter EXCEPT ![c].pc = "find", ![c].dev = NoDev]
    /\ UNCHANGED <<tp, registered, disc, fwd, sock, seen>>

-----------------------------------------------------------------------------
WaiterStep(c) == WaiterFinds(c) \/ WaiterChecks(c) \/ WaiterRetries(c)
TransportStep(t) == InputThreadExits(t) \/ RemoveTransport(t)

HostNext ==
    /\ ListIntact
    /\ \/ \E t \in Devs : Arrive(t) \/ Unauthorized(t) \/ Cnxn(t) \/ SyncOffline(t) \/ TransportStep(t)
       \/ \E c \in Conns :
             \/ Accept(c) \/ AskOther(c) \/ Disconnect(c) \/ KillForwardAll(c) \/ TrackDevices(c)
             \/ OpenService(c) \/ RemoteOkay(c) \/ RemoteClse(c) \/ HangUp(c) \/ WaiterStep(c)
             \/ \E target \in Targets : AskTransport(c, target) \/ WaitFor(c, target)
             \/ \E n \in Names : AcceptForward(c, n)
             \/ \E n \in Names, target \in Targets :
                   KillForward(c, n, target) \/ \E norebind \in BOOLEAN : Forward(c, n, target, norebind)

HostSpec == HostInit /\ [][HostNext]_host_vars

-----------------------------------------------------------------------------
(* Properties                                                              *)

\* A forward leads to a device that is there: install_listener keeps each forward
\* on the list of disconnects of its own device, also when it is rebound, so that
\* losing that device, and only that, removes it.
ForwardsLive ==
    \A n \in Names, t \in Devs :
       /\ n \in disc[t] <=> fwd[n] = t
       /\ fwd[n] = t => tp[t].life = "up"

\* No socket holds a transport that close_all_sockets has been through, though a
\* client may have asked for the transport long before and sends its service only
\* now: the pointer that host:transport stores has no reference of its own.  Nor
\* does one hold a transport that is freed, unless a client disconnected it: then
\* the first thread that exits frees it, and the pointer dangles until input_thread
\* has closed the socket.
MayBeHeld(tr) == ~tr.swept /\ (tr.life = "gone" => tr.cut)
NoSocketOnDead == \A c \in Conns : sock[c].dev # NoDev => MayBeHeld(tp[sock[c].dev])

SockType == [pc : {"closed", "smart", "opening", "open", "tracker", "waits"},
             dev : Devs \cup {NoDev}, owed : BOOLEAN]

TpType == [life : {"none", "up", "lost", "gone"}, state : {"offline", "unauthorized", "device"},
           cut : BOOLEAN, moved : BOOLEAN, swept : BOOLEAN]

HostTypeOK ==
    /\ tp \in [Devs -> TpType]
    /\ disc \in [Devs -> SUBSET (Names \cup Conns)]
    /\ fwd \in [Names -> Devs \cup {NoDev}]
    /\ sock \in [Conns -> SockType]

\* A transport that is lost is offline, so that nobody acquires it any more, and
\* only then can close_all_sockets have been through.
LostIsOffline ==
    \A t \in Devs : /\ tp[t].life = "lost" => tp[t].state = "offline"
                    /\ tp[t].swept => tp[t].life \in {"lost", "gone"}

\* A socket has a device while it may need one, and a stream that is open is on
\* the list of disconnects of its device.
SocketsKnown ==
    \A c \in Conns :
       /\ sock[c].dev # NoDev => sock[c].pc \in {"smart", "opening", "open"}
       /\ sock[c].pc \in {"opening", "open"} => sock[c].dev # NoDev
       /\ sock[c].pc = "open" => tp[sock[c].dev].life = "up"
       /\ \A t \in Devs : c \in disc[t] <=> (sock[c].pc = "open" /\ sock[c].dev = t)

\* The inductive invariant.
HostInv == HostTypeOK /\ LostIsOffline /\ SocketsKnown /\ ForwardsLive /\ NoSocketOnDead

\* A tracker has been sent the devices on the list, as many as the message holds,
\* and no other, unless one that was disconnected is still to be freed; and what it
\* was told of a device is its state, unless that has become offline or unauthorized
\* since, of which update_transports is not told.  A device that can be used, in
\* particular, is never shown as one that cannot.
TrackersKnow ==
    \A c \in Conns : sock[c].pc = "tracker" =>
       /\ (\A t \in Devs : tp[t].cut => tp[t].life = "gone") =>
             {r.dev : r \in seen[c]} = {r.dev : r \in Lines(tp, registered)}
       /\ \A r \in seen[c] : tp[r.dev].state \in {r.state, "offline", "unauthorized"}

\* SERVICES.TXT on host:track-devices: "a new device list description is sent each
\* time a device is added/removed or the state of a given device changes".  So
\* what a tracker was last sent is the list as it is.
TrackersCurrent == \A c \in Conns : sock[c].pc = "tracker" => seen[c] = Lines(tp, registered)

\* No connection is closed while it waits for the status of its request
\* (local_socket_close_notify).
NoSilentClose == \A c \in Conns : sock[c].pc = "closed" => ~sock[c].owed

\* wait-for-device returns once there is always exactly one device that it can mean
\* and that one is up, whatever came and went before.
WaitReturns ==
    \A c \in Conns :
       <>[](/\ waiter[c].pc # "none" /\ ListIntact
            /\ \E t \in Devs : /\ tp[t].life = "up" /\ tp[t].state = "device"
                               /\ Matches(waiter[c].target) = {t}) => <>(waiter[c].pc = "done")
=============================================================================
