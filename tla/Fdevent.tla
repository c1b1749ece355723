------------------------------ MODULE Fdevent ------------------------------
(***************************************************************************)
(* The event loop of the main thread as the Windows build emulates it       *)
(* (sysdeps_win32.cpp, "fdevents emulation"): the fdevents, the hooks the   *)
(* looper keeps for them, the list of pending fdevents, and the rules by    *)
(* which Winsock records and re-records network events.                    *)
(*                                                                         *)
(* An fd is the socket of a stream, whose events are edges that            *)
(* WSAEnumNetworkEvents consumes, or the main thread's half of a transport's *)
(* socket pair, whose readiness is a level.  A callback of a transport      *)
(* handles one packet, so it does one thing to one stream.  A connection    *)
(* may end (recv returns 0); one that breaks under a send is not modelled.  *)
(***************************************************************************)
EXTENDS Naturals, Sequences, FiniteSets

CONSTANTS Sockets, Pairs  \* the fds, by kind

Fds == Sockets \cup Pairs

ASSUME KindAssumption == Sockets \cap Pairs = {}

VARIABLES fde,   \* fde[f]: active, pending, wanted and events of the fdevent on f, and
                 \* whether its socket is closing
          plist, \* list_pending
          hook,  \* hook[f]: what the looper's hook for f wants; {} if there is none
          mask,  \* mask[f]: fh->mask, what WSAEventSelect was last told
          rec,   \* rec[f]: network events recorded and not yet enumerated
          armed, \* armed[f]: FD_READ would be recorded again
          net,   \* net[f]: data to read ("R"), room to write ("W")
          loop   \* where fdevent_loop is

fdevent_vars == <<fde, plist, hook, mask, rec, armed, net, loop>>

R == "FDE_READ"
W == "FDE_WRITE"
Events == {R, W}

-----------------------------------------------------------------------------
\* The transports' fdevents have been set to read, those of the sockets wait for
\* ready().
Initially(f) == IF f \in Pairs THEN {R} ELSE {}

FdeventInit ==
    /\ fde = [f \in Fds |-> [active |-> TRUE, pending |-> FALSE, closing |-> FALSE,
                             wanted |-> Initially(f), events |-> {}]]
    /\ plist = <<>>
    /\ hook = [f \in Fds |-> Initially(f)]
    /\ mask = [f \in Fds |-> {}]
    /\ rec = [f \in Fds |-> {}]
    /\ armed = [f \in Fds |-> TRUE]
    /\ net \in [Fds -> {{W}, {R, W}}]
    /\ loop = [pc |-> "process"]

-----------------------------------------------------------------------------
(* Winsock                                                                 *)

\* WSAEventSelect(f, flags): what is the case already is recorded.
EventSelect(f, flags) ==
    /\ mask' = [mask EXCEPT ![f] = flags]
    /\ rec' = [rec EXCEPT ![f] = flags \cap net[f]]
    /\ armed' = [armed EXCEPT ![f] = ~(R \in flags /\ R \in net[f])]

\* Data arrives; FD_READ is recorded unless it was since the last recv.
DataArrives(f) ==
    LET record == f \in Sockets /\ armed[f] /\ R \in mask[f] IN
    /\ R \notin net[f]
    /\ net' = [net EXCEPT ![f] = @ \cup {R}]
    /\ rec' = IF record THEN [rec EXCEPT ![f] = @ \cup {R}] ELSE rec
    /\ armed' = [armed EXCEPT ![f] = @ /\ ~record]
    /\ UNCHANGED <<fde, plist, hook, mask, loop>>

\* The peer makes room after a send that failed; FD_WRITE is recorded.
MakeRoom(f) ==
    /\ W \notin net[f]
    /\ net' = [net EXCEPT ![f] = @ \cup {W}]
    /\ rec' = IF f \in Sockets /\ W \in mask[f] THEN [rec EXCEPT ![f] = @ \cup {W}] ELSE rec
    /\ UNCHANGED <<fde, plist, hook, mask, armed, loop>>

-----------------------------------------------------------------------------
(* Hooks and pending fdevents                                              *)

Without(q, f) == SelectSeq(q, LAMBDA g : g # f)

\* event_hook_signal: all that the hook wants is signalled, ready or not.
Signal(f, e) == [e EXCEPT !.pending = TRUE, !.events = @ \cup hook[f]]

\* The fdevents of S are signalled; those not yet pending join the list in the
\* order of the hooks, which may be any.
SignalAll(S) ==
    /\ fde' = [f \in Fds |-> IF f \in S THEN Signal(f, fde[f]) ELSE fde[f]]
    /\ \E q \in [1..Cardinality({f \in S : ~fde[f].pending}) -> S] :
          /\ {q[k] : k \in DOMAIN q} = {f \in S : ~fde[f].pending}
          /\ plist' = plist \o q

\* What the prepare and peek callbacks of a hook find.
HookReady(f) == hook[f] \cap (IF f \in Sockets THEN rec[f] ELSE net[f])
ReadyFds == {f \in Fds : HookReady(f) # {}}

\* WSAEnumNetworkEvents of every hooked socket consumes what is recorded.
Enumerated == [f \in Fds |-> IF hook[f] # {} THEN {} ELSE rec[f]]

\* event_looper_hook: for a socket, the hook is started with what it wanted
\* before, and wants more afterwards.
Hook(f, adds) ==
    /\ hook' = [hook EXCEPT ![f] = @ \cup adds]
    /\ IF f \in Sockets /\ mask[f] # hook[f]
       THEN EventSelect(f, hook[f])
       ELSE UNCHANGED <<mask, rec, armed>>

\* event_looper_unhook: the socket is not told.
Unhook(f, removes) ==
    /\ hook' = [hook EXCEPT ![f] = @ \ removes]
    /\ UNCHANGED <<mask, rec, armed>>

\* The part of fdevent_set that deals with a pending fdevent.
Drop(e, events) == [e EXCEPT !.events = @ \ events, !.pending = (e.events \ events # {})]

\* fdevent_set, where the callers only add or only remove events; e is the fdevent
\* on f.
SetTo(e, f, events) ==
    LET s == [e EXCEPT !.wanted = events]
        d == IF e.pending /\ e.wanted # events THEN Drop(s, events) ELSE s
    IN
    /\ IF events \subseteq e.wanted
       THEN Unhook(f, e.wanted \ events)
       ELSE Hook(f, events \ e.wanted)
    /\ fde' = [fde EXCEPT ![f] = d]
    /\ plist' = IF d.pending THEN plist ELSE Without(plist, f)

Set(f, events) == SetTo(fde[f], f, events)

Removed == [active |-> FALSE, pending |-> FALSE, closing |-> FALSE, wanted |-> {}, events |-> {}]

\* Mutant: a pending fdevent stays on the list when it is removed.
RemovePending(f) ==
    /\ Unhook(f, fde[f].wanted)
    /\ fde' = [fde EXCEPT ![f] = Removed]
    /\ UNCHANGED plist

\* fdevent_remove.
Remove(f) ==
    /\ Unhook(f, fde[f].wanted)
    /\ fde' = [fde EXCEPT ![f] = Removed]
    /\ plist' = Without(plist, f)

\* local_socket_close_locked: a socket with packets left to write, that is one
\* that wants W, gives up R and is closing; any other is destroyed.
CloseSocket(f) ==
    IF fde[f].closing \/ W \notin fde[f].wanted
    THEN Remove(f)
    ELSE SetTo([fde[f] EXCEPT !.closing = TRUE], f, {W})

-----------------------------------------------------------------------------
(* fdevent_process                                                         *)

\* Something is ready: it is signalled, and there is no waiting.
ProcessReady ==
    /\ loop.pc = "process" /\ ReadyFds # {}
    /\ SignalAll(ReadyFds)
    /\ rec' = Enumerated
    /\ loop' = [pc |-> "dispatch"]
    /\ UNCHANGED <<hook, mask, armed, net>>

\* Mutant: Winsock is not told of a change.
StartNever(f) == FALSE

\* _event_socket_start tells Winsock of a change.
Start(f) == f \in Sockets /\ hook[f] # {} /\ mask[f] # hook[f]

\* Nothing is: the hooks are started and the thread waits.
ProcessStart ==
    /\ loop.pc = "process" /\ ReadyFds = {}
    /\ mask' = [f \in Fds |-> IF Start(f) THEN hook[f] ELSE mask[f]]
    /\ rec' = [f \in Fds |-> IF Start(f) THEN hook[f] \cap net[f] ELSE Enumerated[f]]
    /\ armed' = [f \in Fds |-> IF Start(f) THEN R \notin hook[f] \cap net[f] ELSE armed[f]]
    /\ loop' = [pc |-> "wait"]
    /\ UNCHANGED <<fde, plist, hook, net>>

ProcessWait ==
    /\ loop.pc = "wait" /\ ReadyFds # {}
    /\ SignalAll(ReadyFds)
    /\ rec' = Enumerated
    /\ loop' = [pc |-> "dispatch"]
    /\ UNCHANGED <<hook, mask, armed, net>>

-----------------------------------------------------------------------------
(* fdevent_loop and the callbacks                                          *)

Dispatch ==
    /\ loop.pc = "dispatch"
    /\ IF plist = <<>>
       THEN loop' = [pc |-> "process"] /\ UNCHANGED <<fde, plist>>
       ELSE LET f == Head(plist) IN
            /\ plist' = Tail(plist)
            /\ fde' = [fde EXCEPT ![f].events = {}, ![f].pending = FALSE]
            /\ loop' = [pc |-> "callback", fd |-> f, ev |-> fde[f].events, free |-> TRUE]
    /\ UNCHANGED <<hook, mask, rec, armed, net>>

Called(f, ev) == loop.pc = "callback" /\ loop.fd = f /\ ev \in loop.ev /\ fde[f].active
CallHandled(ev) == loop' = [loop EXCEPT !.ev = @ \ {ev}]

\* FDE_WRITE comes first: all is written, and W is no longer wanted or the closing
\* socket goes; or a send finds no room, and the callback returns.
CallbackWrite(f) ==
    /\ Called(f, W)
    /\ \/ /\ W \in net[f] /\ ~fde[f].closing
          /\ Set(f, fde[f].wanted \ {W}) /\ CallHandled(W) /\ UNCHANGED net
       \/ /\ W \in net[f] /\ fde[f].closing
          /\ CloseSocket(f) /\ CallHandled(W) /\ UNCHANGED net
       \/ /\ net' = [net EXCEPT ![f] = @ \ {W}]
          /\ loop' = [loop EXCEPT !.ev = {}]
          /\ UNCHANGED <<fde, plist, hook, mask, rec, armed>>

\* A recv that finds data, takes all or some of it and arms FD_READ again.
Recv(f, rest) ==
    LET record == rest /\ f \in Sockets /\ R \in mask[f] IN
    /\ net' = [net EXCEPT ![f] = IF rest THEN @ ELSE @ \ {R}]
    /\ rec' = IF record THEN [rec EXCEPT ![f] = @ \cup {R}] ELSE rec
    /\ armed' = [armed EXCEPT ![f] = ~record]

CallbackRead(f) ==
    /\ Called(f, R) /\ W \notin loop.ev
    /\ \E rest \in BOOLEAN : (rest => R \in net[f]) /\ Recv(f, rest)
    /\ CallHandled(R)
    /\ UNCHANGED <<fde, plist, hook, mask>>

\* After a read the peer may be unable to take more: R is no longer wanted.
CallbackPause(f) ==
    /\ loop.pc = "callback" /\ loop.fd = f /\ loop.ev = {} /\ fde[f].active
    /\ f \in Sockets /\ R \in fde[f].wanted
    /\ Set(f, fde[f].wanted \ {R})
    /\ UNCHANGED <<net, loop>>

\* recv returns 0 or an error.
CallbackEof(f) ==
    /\ Called(f, R) /\ W \notin loop.ev /\ f \in Sockets
    /\ CloseSocket(f)
    /\ CallHandled(R)
    /\ UNCHANGED net

\* The one thing a callback does to another's socket, or to its own through the
\* peer.
Peer(g) == /\ loop.pc = "callback" /\ loop.free
           /\ g \in Sockets /\ fde[g].active /\ ~fde[g].closing
           /\ loop' = [loop EXCEPT !.free = FALSE]

\* ready() asks for R.
PeerReady(g) ==
    /\ Peer(g) /\ R \notin fde[g].wanted
    /\ Set(g, fde[g].wanted \cup {R})
    /\ UNCHANGED net

\* enqueue() finds no room and asks for W.
PeerEnqueue(g) ==
    /\ Peer(g) /\ W \notin fde[g].wanted
    /\ net' = [net EXCEPT ![g] = @ \ {W}]
    /\ Set(g, fde[g].wanted \cup {W})

PeerClose(g) == Peer(g) /\ CloseSocket(g) /\ UNCHANGED net

CallbackReturns ==
    /\ loop.pc = "callback" /\ (loop.ev = {} \/ ~fde[loop.fd].active)
    /\ loop' = [pc |-> "dispatch"]
    /\ UNCHANGED <<fde, plist, hook, mask, rec, armed, net>>

Process == ProcessReady \/ ProcessStart \/ ProcessWait
Callback(f) == CallbackWrite(f) \/ CallbackRead(f) \/ CallbackEof(f)

FdeventNext ==
    \/ Process \/ Dispatch \/ CallbackReturns
    \/ \E f \in Fds :
          \/ DataArrives(f) \/ MakeRoom(f) \/ Callback(f) \/ CallbackPause(f)
          \/ PeerReady(f) \/ PeerEnqueue(f) \/ PeerClose(f)

FdeventSpec == FdeventInit /\ [][FdeventNext]_fdevent_vars

-----------------------------------------------------------------------------
(* Properties                                                              *)

\* The type of every variable.
FdeventTypeOK ==
    /\ fde \in [Fds -> [active : BOOLEAN, pending : BOOLEAN, closing : BOOLEAN,
                        wanted : SUBSET Events, events : SUBSET Events]]
    /\ plist \in Seq(Fds)
    /\ {hook, mask, rec, net} \subseteq [Fds -> SUBSET Events]
    /\ armed \in [Fds -> BOOLEAN]
    /\ loop.pc \in {"process", "wait", "dispatch", "callback"}

\* FDE_PENDING says exactly whether the fdevent is on list_pending, once, and a
\* pending fdevent has an event to signal: fdevent_remove and fdevent_set take it
\* off whatever callbacks run in between.
PendingOnList ==
    \A f \in Fds :
       LET places == {k \in 1..Len(plist) : plist[k] = f} IN
       /\ Cardinality(places) = IF fde[f].pending THEN 1 ELSE 0
       /\ fde[f].pending => fde[f].events # {} /\ fde[f].active

\* The looper waits for what the fdevents want, no more and no less.
HooksMatch == \A f \in Fds : hook[f] = fde[f].wanted

\* An event that is wanted and there has not been consumed without effect.
Remembered(f, ev) == ev \in hook[f] \cap net[f] => ev \in rec[f]

\* The comment in local_socket_event_func on a socket that closes with packets
\* buffered: "this handler function will be called again to process FDE_WRITE
\* events".  So the thread does not go to wait while such a socket has room.
WriteRemembered == loop.pc = "wait" => \A f \in Sockets : Remembered(f, W)

\* When the thread goes to wait, _event_socket_start has told Winsock what every
\* socket wants, and no socket that is not closing has room it asked for and has
\* not been told of, whatever fdevent_set did to it while it was pending.
OpenWriteRemembered ==
    loop.pc = "wait" =>
       \A f \in Sockets : hook[f] # {} =>
          /\ mask[f] = hook[f]
          /\ Remembered(f, W) \/ fde[f].closing

\* The loop's books: list_pending and the hooks are exact whatever callbacks do to
\* other fdevents, and the write event of an open socket is never forgotten.
FdeventInv == FdeventTypeOK /\ PendingOnList /\ HooksMatch /\ OpenWriteRemembered

\* An fd with data whose fdevent wants to read is called back, provided the loop
\* is idle again and again.
Served ==
    []<>(loop.pc = "wait") =>
       \A f \in Fds : (R \in fde[f].wanted /\ R \in net[f]) ~>
                         \/ loop.pc = "callback" /\ loop.fd = f /\ R \in loop.ev
                         \/ R \notin fde[f].wanted
=============================================================================
