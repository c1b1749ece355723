----------------------------- MODULE Transport -----------------------------
(***************************************************************************)
(* The life of a transport (transport.cpp): it is put on pending_list by   *)
(* the thread that found the device, registered by the main thread, served *)
(* by an input and an output thread that share it with the main thread,    *)
(* and removed by the main thread when its reference count reaches zero.   *)
(*                                                                         *)
(* A section under transport_lock is one step.  The two lists are the      *)
(* pointers of the code, so an unlink that uses stale pointers does what it *)
(* does in memory.  A thread does nothing more with a transport that was    *)
(* freed under it: what memory holds then is not modelled, only that it     *)
(* happened.                                                               *)
(***************************************************************************)
EXTENDS Integers, Sequences, FiniteSets

CONSTANTS Transports,  \* the atransport objects
          Tcp,         \* those with a TCP socket; the others are USB
          Serials,     \* serial numbers
          Disconnects, \* the transports a user may "adb disconnect"
          Emulators,   \* the TCP transports found on a local port
          Port,        \* Port[t]: adb_port of an emulator
          MaxSlots,    \* ADB_LOCAL_TRANSPORT_MAX
          MaxPackets,  \* bound: packets read from a remote
          MaxFds,      \* the fd table: fds are 1..MaxFds
          MaxOpens,    \* bound: fds other parts of the server open
          NoOne, Other \* owners of an fd that are not a transport

ASSUME TcpAssumption == Tcp \subseteq Transports /\ Disconnects \subseteq Tcp
                        /\ Emulators \subseteq Tcp /\ Emulators \subseteq DOMAIN Port
ASSUME BoundAssumption == MaxPackets \in Nat /\ MaxFds \in Nat /\ MaxOpens \in Nat
                          /\ MaxSlots \in Nat
ASSUME OwnerAssumption == NoOne # Other /\ NoOne \notin Transports /\ Other \notin Transports

VARIABLES tr,    \* the fields of each transport and its two threads
          list,  \* next and prev of every transport and of the two list heads
          regq,  \* the tmsgs in the registration socket
          wire,  \* wire[t]: the remote can be read, and packets left to read
          main,  \* where the main thread is in unregister_transport
          own,   \* own[f]: whose fd f is
          slots  \* local_transports

vars == <<tr, list, regq, wire, main, own, slots>>

Fds == 1..MaxFds
Slots == 1..MaxSlots
Pending == "pending_list"
Listed == "transport_list"
Heads == {Pending, Listed}

-----------------------------------------------------------------------------
(* Doubly linked lists                                                     *)

\* t->next->prev = t->prev; t->prev->next = t->next.  The pointers of t stay.
Unlink(l, t) == [l EXCEPT !.prev[l.next[t]] = l.prev[t], !.next[l.prev[t]] = l.next[t]]

\* Put t at the end of the list with the given head.
LinkLast(l, head, t) ==
    LET last == l.prev[head] IN
    [l EXCEPT !.next = [@ EXCEPT ![t] = head, ![last] = t],
              !.prev = [@ EXCEPT ![t] = last, ![head] = t]]

\* What a loop over the list visits.
Members(l, head) ==
    LET at[k \in 0..(Cardinality(Transports) + 1)] == IF k = 0 THEN head ELSE l.next[at[k - 1]]
    IN  {at[k] : k \in DOMAIN at} \ {head}

-----------------------------------------------------------------------------
Init ==
    /\ tr = [t \in Transports |->
               [life |-> "none", serial |-> NoOne, ref |-> 0, kicked |-> FALSE,
                closed |-> FALSE, dropped |-> FALSE, online |-> FALSE, fd |-> 0,
                out |-> "none", inp |-> "none", active |-> FALSE,
                tomain |-> <<>>, toinput |-> <<>>]]
    /\ list = [next |-> [n \in Transports \cup Heads |-> n],
               prev |-> [n \in Transports \cup Heads |-> n]]
    /\ regq = <<>>
    /\ wire = [t \in Transports |-> [up |-> TRUE, left |-> MaxPackets]]
    /\ main = [pc |-> "loop"]
    /\ own = [f \in Fds |-> NoOne]
    /\ slots = [n \in Slots |-> NoOne]

\* unregister_all_tcp_transports holds transport_lock from end to end.
Unlocked == main.pc # "all"

Alive(t) == tr[t].life = "listed"
Set(t, r) == tr' = [tr EXCEPT ![t] = r]

\* _fh_alloc in a server that has used every record of the table once: the first
\* free one.
FreeFds == {f \in Fds : own[f] = NoOne}
Lowest(S) == CHOOSE f \in S : \A g \in S : f <= g

\* adb_close of an fd number, whoever has it now.
CloseFd(f) == own' = [own EXCEPT ![f] = NoOne]

-----------------------------------------------------------------------------
(* Kick and unref                                                          *)

\* Mutant: an emulator's slot is kept until the transport is freed.
KickKeepsSlot(t) == wire' = [wire EXCEPT ![t].up = FALSE] /\ UNCHANGED slots

\* kick_transport: only the first caller calls t->kick, after which the
\* remote can neither be read nor written; remote_kick gives up t's slot.
Kick(t) ==
    /\ wire' = [wire EXCEPT ![t].up = FALSE]
    /\ slots' = [n \in Slots |-> IF slots[n] = t THEN NoOne ELSE slots[n]]

\* Mutant: every caller from the last reference on closes the transport.
UnrefAtMost(t, r) ==
    IF r.ref <= 1
    THEN /\ Set(t, [r EXCEPT !.ref = @ - 1, !.kicked = TRUE, !.closed = TRUE])
         /\ Kick(t)
         /\ IF t \in Tcp THEN CloseFd(r.fd) ELSE UNCHANGED own
         /\ regq' = Append(regq, [t |-> t, action |-> 0])
    ELSE /\ Set(t, [r EXCEPT !.ref = @ - 1])
         /\ UNCHANGED <<wire, own, regq, slots>>

\* transport_unref_locked, with r the state of t so far: the last reference
\* kicks and closes t (for TCP that closes t->fd) and asks for its removal.
Unref(t, r) ==
    IF r.ref = 1
    THEN /\ Set(t, [r EXCEPT !.ref = 0, !.kicked = TRUE, !.closed = TRUE])
         /\ Kick(t)
         /\ IF t \in Tcp THEN CloseFd(r.fd) ELSE UNCHANGED own
         /\ regq' = Append(regq, [t |-> t, action |-> 0])
    ELSE /\ Set(t, [r EXCEPT !.ref = @ - 1])
         /\ UNCHANGED <<wire, own, regq, slots>>

-----------------------------------------------------------------------------
(* Registration                                                            *)

\* A transport with this serial waits for registration or was registered.
Known(s) == \E u \in Members(list, Pending) \cup Members(list, Listed) : tr[u].serial = s

\* find_emulator_transport_by_adb_port_locked finds none: no slot has t's port.
\* What a slot whose transport was freed seems to hold is anybody's guess.
InSlots == {slots[n] : n \in Slots} \ {NoOne}
SamePort(t) == {u \in InSlots : tr[u].life # "refused" /\ Port[u] = Port[t]}
Guesses == {u \in InSlots : tr[u].life = "refused"}

\* The answers the search for t's port may give.
PortFree(t) == IF SamePort(t) # {} THEN {FALSE} ELSE IF Guesses # {} THEN BOOLEAN ELSE {TRUE}

FreeSlots == {n \in Slots : slots[n] = NoOne}

\* init_socket_transport: an emulator is refused when there is one on its port
\* or no slot is left.
InitSocket(t) ==
    /\ t \in Tcp /\ tr[t].life = "none"
    /\ \/ /\ t \in Emulators => TRUE \in PortFree(t) /\ FreeSlots # {}
          /\ slots' = IF t \in Emulators THEN [slots EXCEPT ![Lowest(FreeSlots)] = t] ELSE slots
          /\ Set(t, [tr[t] EXCEPT !.life = "init"])
       \/ /\ t \in Emulators /\ (FALSE \in PortFree(t) \/ FreeSlots = {})
          /\ Set(t, [tr[t] EXCEPT !.life = "refused"])
          /\ UNCHANGED slots
    /\ UNCHANGED <<list, regq, wire, main, own>>

\* register_socket_transport: refused when a transport with its serial is known.
RegisterSocket(t, s) ==
    /\ Unlocked /\ tr[t].life = "init"
    /\ IF Known(s)
       THEN Set(t, [tr[t] EXCEPT !.life = "refused"]) /\ UNCHANGED <<list, regq>>
       ELSE /\ Set(t, [tr[t] EXCEPT !.life = "pending", !.serial = s])
            /\ list' = LinkLast(list, Pending, t)
            /\ regq' = Append(regq, [t |-> t, action |-> 1])
    /\ UNCHANGED <<wire, main, own, slots>>

\* register_usb_transport: no check of the serial.
RegisterUsb(t, s) ==
    /\ Unlocked /\ t \notin Tcp /\ tr[t].life = "none"
    /\ Set(t, [tr[t] EXCEPT !.life = "pending", !.serial = s])
    /\ list' = LinkLast(list, Pending, t)
    /\ regq' = Append(regq, [t |-> t, action |-> 1])
    /\ UNCHANGED <<wire, main, own, slots>>

Request(action) == main.pc = "loop" /\ regq # <<>> /\ Head(regq).action = action

\* Mutant: one reference for the two threads.
InitialRefsOne == 1

\* "initial references are the two threads"
InitialRefs == 2

\* transport_registration_func, action 1: the socket pair, of which t->fd is
\* the threads' half, two threads with a reference each, and the master list.
RegistrationAdd ==
    LET t == Head(regq).t
        f == Lowest(FreeFds)
    IN
    /\ Request(1) /\ FreeFds # {}
    /\ Set(t, [tr[t] EXCEPT !.life = "listed", !.ref = InitialRefs, !.fd = f, !.out = "sync", !.inp = "loop"])
    /\ own' = [own EXCEPT ![f] = t]
    /\ list' = LinkLast(Unlink(list, t), Listed, t)
    /\ regq' = Tail(regq)
    /\ UNCHANGED <<wire, main, slots>>

\* Mutant: the freed transport is left on the list.
RegistrationRemoveLinked ==
    LET t == Head(regq).t IN
    /\ Request(0)
    /\ CloseFd(tr[t].fd)
    /\ Set(t, [tr[t] EXCEPT !.life = "freed", !.tomain = <<>>, !.toinput = <<>>])
    /\ regq' = Tail(regq)
    /\ UNCHANGED <<list, wire, main, slots>>

\* Action 0: t->fd is closed, t is unlinked, its disconnects run, t is freed.
RegistrationRemove ==
    LET t == Head(regq).t IN
    /\ Request(0)
    /\ CloseFd(tr[t].fd)
    /\ list' = Unlink(list, t)
    /\ Set(t, [tr[t] EXCEPT !.life = "freed", !.tomain = <<>>, !.toinput = <<>>])
    /\ regq' = Tail(regq)
    /\ UNCHANGED <<wire, main, slots>>

-----------------------------------------------------------------------------
(* output_thread: from the remote to the main thread                       *)

OutputSync(t) ==
    /\ Alive(t) /\ tr[t].out = "sync"
    /\ Set(t, [tr[t] EXCEPT !.out = "pump", !.tomain = Append(@, "SYNC1")])
    /\ UNCHANGED <<list, regq, wire, main, own, slots>>

\* Mutant: a failed read ends the thread without SYNC(0,0).
ReadFailedSilent(r) == [r EXCEPT !.out = "kick"]

\* A failed read posts SYNC(0,0).
ReadFailed(r) == [r EXCEPT !.out = "kick", !.tomain = Append(@, "SYNC0")]

OutputPump(t) ==
    /\ Alive(t) /\ tr[t].out = "pump"
    /\ IF wire[t].up
       THEN /\ wire[t].left > 0
            /\ wire' = [wire EXCEPT ![t].left = @ - 1]
            /\ Set(t, [tr[t] EXCEPT !.tomain = Append(@, "PKT")])
       ELSE /\ Set(t, ReadFailed(tr[t]))
            /\ UNCHANGED wire
    /\ UNCHANGED <<list, regq, main, own, slots>>

OutputKick(t) ==
    /\ Unlocked /\ Alive(t) /\ tr[t].out = "kick"
    /\ Set(t, [tr[t] EXCEPT !.kicked = TRUE, !.out = "unref"])
    /\ Kick(t)
    /\ UNCHANGED <<list, regq, main, own>>

OutputUnref(t) ==
    /\ Unlocked /\ Alive(t) /\ tr[t].out = "unref"
    /\ Unref(t, [tr[t] EXCEPT !.out = "exit"])
    /\ UNCHANGED <<list, main>>

-----------------------------------------------------------------------------
(* input_thread: from the main thread to the remote                        *)

InputLoop(t) ==
    /\ Alive(t) /\ tr[t].inp = "loop"
    /\ \/ /\ tr[t].toinput # <<>>
          /\ LET r == [tr[t] EXCEPT !.toinput = Tail(@)] IN
             Set(t, CASE Head(tr[t].toinput) = "SYNC1" -> [r EXCEPT !.active = TRUE]
                      [] Head(tr[t].toinput) = "SYNC0" -> [r EXCEPT !.inp = "kick"]
                      [] OTHER -> r)
       \/ /\ tr[t].closed    \* read_packet fails once t->fd is closed
          /\ t \in Tcp
          /\ Set(t, [tr[t] EXCEPT !.inp = "kick"])
    /\ UNCHANGED <<list, regq, wire, main, own, slots>>

\* close_all_sockets has run; Streams models it.
InputKick(t) ==
    /\ Unlocked /\ Alive(t) /\ tr[t].inp = "kick"
    /\ Set(t, [tr[t] EXCEPT !.kicked = TRUE, !.inp = "unref"])
    /\ Kick(t)
    /\ UNCHANGED <<list, regq, main, own>>

InputUnref(t) ==
    /\ Unlocked /\ Alive(t) /\ tr[t].inp = "unref"
    /\ Unref(t, [tr[t] EXCEPT !.inp = "exit"])
    /\ UNCHANGED <<list, main>>

-----------------------------------------------------------------------------
(* The main thread                                                         *)

\* transport_socket_events and handle_packet: a SYNC goes on to input_thread,
\* with a CNXN after the first; the remote's CNXN brings t online.
HandlePacket(t) ==
    /\ main.pc = "loop" /\ Alive(t) /\ tr[t].tomain # <<>>
    /\ LET p == Head(tr[t].tomain)
           r == [tr[t] EXCEPT !.tomain = Tail(@)]
       IN
       Set(t, CASE p = "SYNC1" -> [r EXCEPT !.toinput = @ \o <<"SYNC1", "PKT">>]
                [] p = "SYNC0" -> [r EXCEPT !.toinput = Append(@, "SYNC0"), !.online = FALSE]
                [] OTHER -> [r EXCEPT !.online = TRUE])
    /\ UNCHANGED <<list, regq, wire, main, own, slots>>

\* "disconnect:<serial>": unregister_transport, in three sections.
Unregister(t) ==
    /\ main.pc = "loop" /\ t \in Disconnects /\ t \in Members(list, Listed)
    /\ list' = Unlink(list, t)
    /\ Set(t, [tr[t] EXCEPT !.dropped = TRUE])
    /\ main' = [pc |-> "kick", t |-> t]
    /\ UNCHANGED <<regq, wire, own, slots>>

\* Mutant: the transport is not kicked.
UnregisterKickNot ==
    /\ main.pc = "kick"
    /\ main' = [main EXCEPT !.pc = "unref"]
    /\ UNCHANGED <<tr, list, regq, wire, own, slots>>

UnregisterKick ==
    /\ main.pc = "kick"
    /\ Set(main.t, [tr[main.t] EXCEPT !.kicked = TRUE])
    /\ Kick(main.t)
    /\ main' = [main EXCEPT !.pc = "unref"]
    /\ UNCHANGED <<list, regq, own>>

UnregisterUnref ==
    /\ main.pc = "unref"
    /\ Unref(main.t, tr[main.t])
    /\ main' = [pc |-> "loop"]
    /\ UNCHANGED list

\* "disconnect:": unregister_all_tcp_transports, one turn of its loop a step.
\* It passes over emulators.
Dropped == (Disconnects \ Emulators) \cap Members(list, Listed)

UnregisterAll ==
    /\ main.pc = "loop" /\ Dropped # {}
    /\ main' = [pc |-> "all"]
    /\ UNCHANGED <<tr, list, regq, wire, own, slots>>

UnregisterNext ==
    /\ main.pc = "all"
    /\ IF Dropped = {}
       THEN main' = [pc |-> "loop"] /\ UNCHANGED <<tr, list, regq, wire, own, slots>>
       ELSE \E t \in Dropped :
              LET r == [tr[t] EXCEPT !.kicked = TRUE, !.dropped = TRUE] IN
              /\ list' = Unlink(list, t)
              /\ IF r.ref = 1 THEN Unref(t, r)
                 ELSE Set(t, [r EXCEPT !.ref = @ - 1]) /\ Kick(t) /\ UNCHANGED <<own, regq>>
              /\ UNCHANGED main

-----------------------------------------------------------------------------
(* The environment                                                         *)

\* The cable is pulled, or the remote closes its socket.
Break(t) ==
    /\ tr[t].life # "none" /\ wire[t].up
    /\ wire' = [wire EXCEPT ![t].up = FALSE]
    /\ UNCHANGED <<tr, list, regq, main, own, slots>>

\* Another thread of the server opens a file or a socket.
OpenElsewhere ==
    /\ FreeFds # {} /\ Cardinality({f \in Fds : own[f] = Other}) < MaxOpens
    /\ own' = [own EXCEPT ![Lowest(FreeFds)] = Other]
    /\ UNCHANGED <<tr, list, regq, wire, main, slots>>

Registration == RegistrationAdd \/ RegistrationRemove
Output(t) == OutputSync(t) \/ OutputPump(t) \/ OutputKick(t) \/ OutputUnref(t)
Input(t) == InputLoop(t) \/ InputKick(t) \/ InputUnref(t)
MainUnregister == UnregisterKick \/ UnregisterUnref \/ UnregisterNext

Next ==
    \/ Registration \/ UnregisterAll \/ MainUnregister \/ OpenElsewhere
    \/ \E t \in Transports :
          \/ Output(t) \/ Input(t) \/ HandlePacket(t) \/ Unregister(t) \/ Break(t) \/ InitSocket(t)
          \/ \E s \in Serials : RegisterSocket(t, s) \/ RegisterUsb(t, s)

Spec == Init /\ [][Next]_vars

\* The main loop serves both kinds of fd that are ready, and threads run.
Fairness ==
    /\ WF_vars(Registration) /\ WF_vars(MainUnregister)
    /\ \A t \in Transports : WF_vars(HandlePacket(t)) /\ WF_vars(Output(t)) /\ WF_vars(Input(t))

FairSpec == Spec /\ Fairness

-----------------------------------------------------------------------------
(* Properties                                                              *)

Bit(b) == IF b THEN 1 ELSE 0
Running(t) == Bit(tr[t].out \notin {"none", "exit"}) + Bit(tr[t].inp \notin {"none", "exit"})

\* The type of every variable.
TypeOK ==
    /\ \A t \in Transports :
          /\ tr[t].life \in {"none", "init", "refused", "pending", "listed", "freed"}
          /\ tr[t].serial \in Serials \cup {NoOne}
          /\ tr[t].ref \in -1..2 /\ tr[t].fd \in Fds \cup {0}
          /\ tr[t].out \in {"none", "sync", "pump", "kick", "unref", "exit"}
          /\ tr[t].inp \in {"none", "loop", "kick", "unref", "exit"}
    /\ \A n \in Transports \cup Heads : {list.next[n], list.prev[n]} \subseteq Transports \cup Heads
    /\ \A k \in 1..Len(regq) : regq[k].t \in Transports /\ regq[k].action \in {0, 1}
    /\ own \in [Fds -> Transports \cup {NoOne, Other}]
    /\ slots \in [Slots -> Emulators \cup {NoOne}]

\* ref_count counts the threads that have still to let go of the transport,
\* until a disconnect takes a reference that is not its own.
RefsCountThreads ==
    \A t \in Transports : tr[t].life = "listed" /\ ~tr[t].dropped => tr[t].ref = Running(t)

\* The design comment above output_thread: a transport is not closed until both
\* its threads have exited; much less is it freed.
ClosedAfterThreads ==
    \A t \in Transports : tr[t].closed \/ tr[t].life = "freed" => Running(t) = 0

\* The two lists hold the transports that wait for registration and those that
\* were registered and not disconnected: each is on the list it should be on, no
\* freed one is reachable, and the backward pointers mirror the forward ones.
ListsExact ==
    /\ Members(list, Pending) = {t \in Transports : tr[t].life = "pending"}
    /\ Members(list, Listed) = {t \in Transports : tr[t].life = "listed" /\ ~tr[t].dropped}
    /\ \A h \in Heads : \A n \in Members(list, h) \cup {h} : list.prev[list.next[n]] = n

\* A transport is asked to be removed once at most, and never twice, whichever
\* of its users drops the last reference.
RemovedOnce ==
    \A t \in Transports :
       LET asked == {k \in 1..Len(regq) : regq[k].t = t /\ regq[k].action = 0} IN
       Cardinality(asked) + Bit(tr[t].life = "freed") <= 1

\* No two TCP transports that a client can name have one serial.
UniqueSerials ==
    \A t, u \in {x \in Tcp : tr[x].life \in {"pending", "listed"} /\ ~tr[x].dropped} :
       t # u => tr[t].serial # tr[u].serial

\* local_transports holds the emulators that are connected, each once: a port has
\* one at most.  A slot is left to a freed transport only by a registration that
\* was refused for its serial after it had taken the slot.
SlotsMatch ==
    /\ \A t \in Emulators : tr[t].life \in {"init", "pending", "listed"} /\ ~tr[t].kicked
                            => Cardinality({n \in Slots : slots[n] = t}) = 1
    /\ \A n \in Slots : slots[n] # NoOne =>
          ~tr[slots[n]].kicked /\ tr[slots[n]].life \in {"init", "pending", "listed", "refused"}
    /\ \A t, u \in {x \in Emulators : tr[x].life \in {"pending", "listed"} /\ ~tr[x].kicked} :
          t # u => Port[t] # Port[u]

\* Once the main thread has taken a transport offline it stays offline: the
\* SYNC(0,0) is the last packet it sees.
SyncOfflineLast ==
    \A t \in Transports :
       \A k \in 1..Len(tr[t].tomain) : tr[t].tomain[k] = "SYNC0" => k = Len(tr[t].tomain)

\* While nobody disconnects: every reference is a thread's, both lists are exact,
\* serials are unique, the table of emulators matches and SYNC(0,0) comes last.
TransportInv ==
    TypeOK /\ RefsCountThreads /\ ListsExact /\ UniqueSerials /\ SlotsMatch /\ SyncOfflineLast

\* A transport whose remote is gone, or which a user has disconnected, is freed in
\* the end, whatever its threads are doing.
LostIsFreed ==
    \A t \in Transports :
       (tr[t].dropped \/ (tr[t].life = "listed" /\ ~wire[t].up)) ~> (tr[t].life = "freed")
=============================================================================
