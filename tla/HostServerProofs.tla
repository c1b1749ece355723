--------------------------- MODULE HostServerProofs ---------------------------
(***************************************************************************)
(* Forwards and sockets never outlive their device, for every set of       *)
(* connections, devices, forwards and requests.                            *)
(***************************************************************************)
EXTENDS HostServer, TLAPS

\* What is acquired is up: everything else on the list is offline.
LEMMA AcquiredIsUp ==
    ASSUME HostTypeOK, LostIsOffline, NEW target, NEW t \in Acquire(target)
    PROVE t \in Devs /\ tp[t].life = "up"
<1>1. t \in Devs /\ tp[t].life \in {"up", "lost"} /\ tp[t].state # "offline"
  BY DEF Acquire, Matches, Listed, OnList
<1> QED BY <1>1 DEF LostIsOffline

\* A transport that is up may be held.
LEMMA UpIsHeld ==
    ASSUME LostIsOffline, NEW t \in Devs, tp[t].life = "up"
    PROVE MayBeHeld(tp[t])
  BY DEF LostIsOffline, MayBeHeld

\* Closing sockets touches no other.
LEMMA ClosedFacts ==
    ASSUME HostTypeOK, NEW cs, sock' = Closed(cs)
    PROVE /\ sock' \in [Conns -> SockType]
          /\ \A c \in Conns : /\ c \in cs => sock'[c].pc = "closed" /\ sock'[c].dev = NoDev
                              /\ c \notin cs => sock'[c] = sock[c]
<1>1. \A c \in Conns : [sock[c] EXCEPT !.pc = "closed", !.dev = NoDev] \in SockType
  BY DEF HostTypeOK, SockType
<1>2. \A c \in Conns : /\ [sock[c] EXCEPT !.pc = "closed", !.dev = NoDev].pc = "closed"
                       /\ [sock[c] EXCEPT !.pc = "closed", !.dev = NoDev].dev = NoDev
  BY DEF HostTypeOK, SockType
<1> QED BY <1>1, <1>2 DEF Closed, HostTypeOK

\* The same for one socket.
LEMMA ClosedOne ==
    ASSUME HostTypeOK, NEW c \in Conns
    PROVE /\ Closed({c}) \in [Conns -> SockType]
          /\ Closed({c})[c].pc = "closed" /\ Closed({c})[c].dev = NoDev
          /\ \A d \in Conns : d # c => Closed({c})[d] = sock[d]
  BY DEF Closed, HostTypeOK, SockType

\* After handle_offline nothing hangs on the device any more.
LEMMA OfflineFacts ==
    ASSUME HostInv, NEW t \in Devs, HandleOffline(t)
    PROVE /\ fwd' \in [Names -> Devs \cup {NoDev}]
          /\ disc' \in [Devs -> SUBSET (Names \cup Conns)]
          /\ sock' \in [Conns -> SockType]
          /\ \A n \in Names : fwd'[n] = IF fwd[n] = t THEN NoDev ELSE fwd[n]
          /\ \A u \in Devs : disc'[u] = IF u = t THEN {} ELSE disc[u]
          /\ \A c \in Conns : IF sock[c].pc = "open" /\ sock[c].dev = t
                              THEN sock'[c].pc = "closed" /\ sock'[c].dev = NoDev
                              ELSE sock'[c] = sock[c]
<1>1. sock' = Closed(disc[t] \cap Conns)
  BY DEF HandleOffline
<1>2. HostTypeOK
  BY DEF HostInv
<1>3. \A c \in Conns : c \in disc[t] \cap Conns <=> (sock[c].pc = "open" /\ sock[c].dev = t)
  BY DEF HostInv, SocketsKnown
<1>4. /\ \A n \in Names : fwd'[n] = IF fwd[n] = t THEN NoDev ELSE fwd[n]
      /\ fwd' \in [Names -> Devs \cup {NoDev}]
  BY DEF HandleOffline, HostInv, ForwardsLive, HostTypeOK
<1>5. /\ disc' \in [Devs -> SUBSET (Names \cup Conns)]
      /\ \A u \in Devs : disc'[u] = IF u = t THEN {} ELSE disc[u]
  BY DEF HandleOffline, HostInv, HostTypeOK
<1>6. /\ sock' \in [Conns -> SockType]
      /\ \A c \in Conns :
            /\ c \in disc[t] \cap Conns => sock'[c].pc = "closed" /\ sock'[c].dev = NoDev
            /\ c \notin disc[t] \cap Conns => sock'[c] = sock[c]
  BY <1>1, <1>2, ClosedFacts
<1> QED BY <1>3, <1>4, <1>5, <1>6

\* The transports that a step is not about are what they were, but that the list
\* may have changed.
SameButMoved(x, y) == x.life = y.life /\ x.state = y.state /\ x.cut = y.cut /\ x.swept = y.swept

\* So it is when only the list changes.
LEMMA MovedFacts ==
    ASSUME tp \in [Devs -> TpType]
    PROVE Moved(tp) \in [Devs -> TpType] /\ \A u \in Devs : SameButMoved(Moved(tp)[u], tp[u])
<1>1. \A u \in Devs : /\ [tp[u] EXCEPT !.moved = TRUE] \in TpType
                      /\ SameButMoved([tp[u] EXCEPT !.moved = TRUE], tp[u]) /\ SameButMoved(tp[u], tp[u])
  BY DEF TpType, SameButMoved
<1> QED BY <1>1 DEF Moved

\* handle_offline keeps the invariant whatever becomes of a device that was up,
\* or of one that no socket holds.
LEMMA OfflineInv ==
    ASSUME HostInv, NEW t \in Devs, HandleOffline(t),
           tp' \in [Devs -> TpType], \A u \in Devs : u # t => SameButMoved(tp'[u], tp[u]),
           tp'[t].life = "lost" => tp'[t].state = "offline",
           tp'[t].swept => tp'[t].life \in {"lost", "gone"},
           \A c \in Conns : sock[c].dev = t => MayBeHeld(tp'[t])
    PROVE HostInv'
<1>1. \A u \in Devs : u # t => /\ tp'[u].life = tp[u].life /\ tp'[u].state = tp[u].state
                               /\ tp'[u].swept = tp[u].swept /\ MayBeHeld(tp'[u]) = MayBeHeld(tp[u])
  BY DEF SameButMoved, MayBeHeld
<1>2. HostTypeOK'
  BY OfflineFacts DEF HostTypeOK
<1>3. LostIsOffline'
  BY <1>1 DEF HostInv, LostIsOffline
<1>4. ForwardsLive'
  <2> SUFFICES ASSUME NEW n \in Names, NEW u \in Devs
               PROVE (n \in disc'[u] <=> fwd'[n] = u) /\ (fwd'[n] = u => tp'[u].life = "up")
    BY DEF ForwardsLive
  <2>1. /\ fwd'[n] = IF fwd[n] = t THEN NoDev ELSE fwd[n]
        /\ disc'[u] = IF u = t THEN {} ELSE disc[u]
    BY OfflineFacts
  <2>2. (n \in disc[u] <=> fwd[n] = u) /\ (fwd[n] = u => tp[u].life = "up")
    BY DEF HostInv, ForwardsLive
  <2> QED BY <2>1, <2>2, <1>1, DevAssumption
<1>5. SocketsKnown' /\ NoSocketOnDead'
  <2> SUFFICES ASSUME NEW c \in Conns
               PROVE /\ sock'[c].dev # NoDev => /\ sock'[c].pc \in {"smart", "opening", "open"}
                                                /\ MayBeHeld(tp'[sock'[c].dev])
                     /\ sock'[c].pc \in {"opening", "open"} => sock'[c].dev # NoDev
                     /\ sock'[c].pc = "open" => tp'[sock'[c].dev].life = "up"
                     /\ \A u \in Devs : c \in disc'[u] <=> (sock'[c].pc = "open" /\ sock'[c].dev = u)
    BY DEF SocketsKnown, NoSocketOnDead
  <2>1. \A u \in Devs : disc'[u] = IF u = t THEN {} ELSE disc[u]
    BY OfflineFacts
  <2>2. /\ sock[c].dev \in Devs \cup {NoDev}
        /\ sock[c].dev # NoDev => sock[c].pc \in {"smart", "opening", "open"}
        /\ sock[c].dev # NoDev => MayBeHeld(tp[sock[c].dev])
        /\ sock[c].pc \in {"opening", "open"} => sock[c].dev # NoDev
        /\ sock[c].pc = "open" => tp[sock[c].dev].life = "up"
        /\ \A u \in Devs : c \in disc[u] <=> (sock[c].pc = "open" /\ sock[c].dev = u)
    BY DEF HostInv, SocketsKnown, NoSocketOnDead, HostTypeOK, SockType
  <2>3. CASE sock[c].pc = "open" /\ sock[c].dev = t
    <3>1. sock'[c].pc = "closed" /\ sock'[c].dev = NoDev
      BY <2>3, OfflineFacts
    <3> QED BY <3>1, <2>1, <2>2, <2>3
  <2>4. CASE ~(sock[c].pc = "open" /\ sock[c].dev = t)
    <3>1. sock'[c] = sock[c]
      BY <2>4, OfflineFacts
    <3>2. \A u \in Devs : c \in disc'[u] <=> (sock'[c].pc = "open" /\ sock'[c].dev = u)
      BY <3>1, <2>1, <2>2, <2>4
    <3> QED BY <3>1, <3>2, <2>2, <2>4, <1>1
  <2> QED BY <2>3, <2>4
<1> QED BY <1>2, <1>3, <1>4, <1>5 DEF HostInv

\* Steps that change sockets only, and give a device only to one that may have it.
LEMMA SocketsInv ==
    ASSUME HostInv, UNCHANGED <<tp, disc, fwd>>, sock' \in [Conns -> SockType],
           \A c \in Conns :
              sock'[c] = sock[c] \/
              /\ sock[c].pc # "open" /\ sock'[c].pc # "open"
              /\ sock'[c].dev # NoDev => /\ sock'[c].pc \in {"smart", "opening"}
                                         /\ MayBeHeld(tp[sock'[c].dev])
              /\ sock'[c].pc = "opening" => sock'[c].dev # NoDev
    PROVE HostInv'
<1>1. HostTypeOK' /\ LostIsOffline' /\ ForwardsLive'
  BY DEF HostInv, HostTypeOK, LostIsOffline, ForwardsLive
<1>2. SocketsKnown' /\ NoSocketOnDead'
  <2> SUFFICES ASSUME NEW c \in Conns
               PROVE /\ sock'[c].dev # NoDev => /\ sock'[c].pc \in {"smart", "opening", "open"}
                                                /\ MayBeHeld(tp[sock'[c].dev])
                     /\ sock'[c].pc \in {"opening", "open"} => sock'[c].dev # NoDev
                     /\ sock'[c].pc = "open" => tp[sock'[c].dev].life = "up"
                     /\ \A u \in Devs : c \in disc[u] <=> (sock'[c].pc = "open" /\ sock'[c].dev = u)
    BY DEF SocketsKnown, NoSocketOnDead
  <2>1. /\ sock[c].dev # NoDev => sock[c].pc \in {"smart", "opening", "open"}
        /\ sock[c].dev # NoDev => MayBeHeld(tp[sock[c].dev])
        /\ sock[c].pc \in {"opening", "open"} => sock[c].dev # NoDev
        /\ sock[c].pc = "open" => tp[sock[c].dev].life = "up"
        /\ \A u \in Devs : c \in disc[u] <=> (sock[c].pc = "open" /\ sock[c].dev = u)
    BY DEF HostInv, SocketsKnown, NoSocketOnDead
  <2> QED BY <2>1
<1> QED BY <1>1, <1>2 DEF HostInv

\* New connections, to the server or to a forward, whose device is up.
LEMMA AcceptInv ==
    ASSUME HostInv, NEW c \in Conns, Accept(c) \/ \E n \in Names : AcceptForward(c, n)
    PROVE HostInv'
<1>1. PICK pc \in {"smart", "opening"}, t \in Devs \cup {NoDev} :
         /\ NewConnection(c, pc, t)
         /\ pc = "opening" => t # NoDev
         /\ t # NoDev => tp[t].life = "up"
  <2> DEFINE Fits(pc, t) == /\ NewConnection(c, pc, t)
                            /\ pc = "opening" => t # NoDev
                            /\ t # NoDev => tp[t].life = "up"
  <2>1. ASSUME Accept(c) PROVE Fits("smart", NoDev)
    BY <2>1 DEF Accept
  <2>2. ASSUME NEW n \in Names, AcceptForward(c, n) PROVE fwd[n] \in Devs /\ Fits("opening", fwd[n])
    BY <2>2 DEF AcceptForward, HostInv, HostTypeOK, ForwardsLive
  <2>3. \E pc \in {"smart", "opening"}, t \in Devs \cup {NoDev} : Fits(pc, t)
    <3> HIDE DEF Fits
    <3> QED BY <2>1, <2>2
  <2> QED BY <2>3
<1>2. /\ UNCHANGED <<tp, disc, fwd>> /\ sock[c].pc = "closed"
      /\ sock' = [sock EXCEPT ![c] = [pc |-> pc, dev |-> t, owed |-> FALSE]]
  BY <1>1 DEF NewConnection
<1>3. sock' \in [Conns -> SockType]
  BY <1>2 DEF HostInv, HostTypeOK, SockType
<1>4. /\ sock'[c].pc = pc /\ sock'[c].dev = t
      /\ \A d \in Conns : d # c => sock'[d] = sock[d]
  BY <1>2 DEF HostInv, HostTypeOK
<1>5. t # NoDev => MayBeHeld(tp[t])
  BY <1>1, UpIsHeld DEF HostInv
<1> QED BY <1>1, <1>2, <1>3, <1>4, <1>5, SocketsInv

\* Requests that leave forwards alone.
LEMMA RequestInv ==
    ASSUME HostInv, NEW c \in Conns,
           AskOther(c) \/ TrackDevices(c) \/ OpenService(c)
           \/ \E target \in Targets : AskTransport(c, target) \/ WaitFor(c, target)
    PROVE HostInv'
<1>1. sock[c] \in SockType /\ HostTypeOK
  BY DEF HostInv, HostTypeOK
<1>2. /\ UNCHANGED <<tp, disc, fwd>> /\ sock[c].pc = "smart"
  BY DEF AskOther, TrackDevices, OpenService, AskTransport, WaitFor
<1>3. ASSUME sock' = Closed({c}) PROVE HostInv'
  BY <1>1, <1>2, <1>3, ClosedFacts, SocketsInv
<1>4. ASSUME NEW q \in SockType, q.pc # "open",
             q.dev # NoDev => q.pc \in {"smart", "opening"} /\ MayBeHeld(tp[q.dev]),
             q.pc = "opening" => q.dev # NoDev,
             sock' = [sock EXCEPT ![c] = q]
      PROVE HostInv'
  <2>1. /\ sock' \in [Conns -> SockType] /\ sock'[c] = q
        /\ \A d \in Conns : d # c => sock'[d] = sock[d]
    BY <1>4 DEF HostInv, HostTypeOK
  <2> QED BY <1>2, <1>4, <2>1, SocketsInv
<1>5. CASE AskOther(c)
  BY <1>3, <1>5 DEF AskOther, Handled
<1>6. CASE TrackDevices(c)
  <2> DEFINE q == [sock[c] EXCEPT !.pc = "tracker", !.dev = NoDev]
  <2>1. q \in SockType /\ q.pc = "tracker" /\ q.dev = NoDev
    BY <1>1 DEF SockType
  <2>2. sock' = [sock EXCEPT ![c] = q]
    BY <1>6 DEF TrackDevices, HostInv, HostTypeOK
  <2> HIDE DEF q
  <2> QED BY <2>1, <2>2, <1>4
<1>7. ASSUME NEW target \in Targets, WaitFor(c, target) PROVE HostInv'
  <2> DEFINE q == [sock[c] EXCEPT !.pc = "waits", !.dev = NoDev]
  <2>1. q \in SockType /\ q.pc = "waits" /\ q.dev = NoDev
    BY <1>1 DEF SockType
  <2>2. sock' = [sock EXCEPT ![c] = q]
    BY <1>7 DEF WaitFor, HostInv, HostTypeOK
  <2> HIDE DEF q
  <2> QED BY <2>1, <2>2, <1>4
<1>8. ASSUME NEW target \in Targets, AskTransport(c, target) PROVE HostInv'
  <2> DEFINE t == IF Acquire(target) = {} THEN sock[c].dev ELSE CHOOSE u \in Acquire(target) : TRUE
             q == [sock[c] EXCEPT !.dev = t]
  <2>1. t \in Devs \cup {NoDev} /\ (t # NoDev => MayBeHeld(tp[t]))
    <3>1. CASE Acquire(target) = {}
      BY <3>1, <1>1 DEF HostInv, NoSocketOnDead, SockType
    <3>2. CASE Acquire(target) # {}
      <4>1. t \in Acquire(target)
        BY <3>2
      <4> QED BY <4>1, AcquiredIsUp, UpIsHeld DEF HostInv
    <3> QED BY <3>1, <3>2
  <2>2. sock' = [sock EXCEPT ![c] = q]
    BY <1>8 DEF AskTransport, HostInv, HostTypeOK
  <2> HIDE DEF t
  <2>3. q \in SockType /\ q.pc = "smart" /\ q.dev = t
    BY <1>1, <1>2, <2>1 DEF SockType
  <2> HIDE DEF q
  <2> QED BY <2>1, <2>2, <2>3, <1>4
<1>9. CASE OpenService(c)
  <2>1. CASE sock[c].dev = NoDev \/ tp[sock[c].dev].state = "offline"
    BY <1>3, <1>9, <2>1 DEF OpenService, Handled
  <2>2. CASE ~(sock[c].dev = NoDev \/ tp[sock[c].dev].state = "offline")
    <3> DEFINE q == [sock[c] EXCEPT !.pc = "opening", !.owed = TRUE]
    <3>1. q \in SockType /\ q.pc = "opening" /\ q.dev = sock[c].dev
      BY <1>1 DEF SockType
    <3>2. sock' = [sock EXCEPT ![c] = q]
      BY <1>9, <2>2 DEF OpenService, HostInv, HostTypeOK
    <3>3. MayBeHeld(tp[sock[c].dev])
      BY <2>2 DEF HostInv, NoSocketOnDead
    <3> HIDE DEF q
    <3> QED BY <2>2, <3>1, <3>2, <3>3, <1>4
  <2> QED BY <2>1, <2>2
<1> QED BY <1>5, <1>6, <1>7, <1>8, <1>9

\* Steps of the waiting threads.
LEMMA WaiterInv == ASSUME HostInv, NEW c \in Conns, WaiterStep(c) PROVE HostInv'
<1>1. UNCHANGED <<tp, disc, fwd>>
  BY DEF WaiterStep, WaiterFinds, WaiterChecks, WaiterRetries
<1>2. sock' = sock \/ (sock[c].pc = "waits" /\ sock' = Closed({c}))
  <2>1. ASSUME WaiterEnds(c) PROVE sock' = sock \/ (sock[c].pc = "waits" /\ sock' = Closed({c}))
    BY <2>1 DEF WaiterEnds
  <2> QED BY <2>1 DEF WaiterStep, WaiterFinds, WaiterChecks, WaiterRetries
<1>3. CASE sock' = sock
  BY <1>1, <1>3, SocketsInv DEF HostInv, HostTypeOK
<1>4. CASE sock[c].pc = "waits" /\ sock' = Closed({c})
  <2>1. HostTypeOK
    BY DEF HostInv
  <2>2. /\ sock' \in [Conns -> SockType]
        /\ sock'[c].pc = "closed" /\ sock'[c].dev = NoDev
        /\ \A d \in Conns : d # c => sock'[d] = sock[d]
    BY <1>4, <2>1, ClosedOne
  <2> QED BY <1>1, <1>4, <2>2, SocketsInv
<1> QED BY <1>2, <1>3, <1>4

\* A request changes nothing of a transport but that it is disconnected.
TpKept ==
    /\ tp' \in [Devs -> TpType]
    /\ \A t \in Devs : /\ tp'[t].life = tp[t].life /\ tp'[t].state = tp[t].state
                       /\ tp'[t].swept = tp[t].swept /\ (tp[t].cut => tp'[t].cut)

LEMMA TpUnchanged == ASSUME HostInv, UNCHANGED tp PROVE TpKept
  BY DEF HostInv, HostTypeOK, TpKept

\* A handled request closes its socket, which is on no list of disconnects.
LEMMA HandledInv ==
    ASSUME HostInv, NEW c \in Conns, sock[c].pc = "smart", Handled(c), TpKept,
           fwd' \in [Names -> Devs \cup {NoDev}], disc' \in [Devs -> SUBSET (Names \cup Conns)],
           \A t \in Devs, d \in Conns : d \in disc'[t] <=> d \in disc[t],
           ForwardsLive'
    PROVE HostInv'
<1>1. /\ sock' \in [Conns -> SockType]
      /\ sock'[c].pc = "closed" /\ sock'[c].dev = NoDev
      /\ \A d \in Conns : d # c => sock'[d] = sock[d]
  <2>1. HostTypeOK /\ sock' = Closed({c})
    BY DEF Handled, HostInv
  <2> QED BY <2>1, ClosedOne
<1>2. HostTypeOK' /\ LostIsOffline'
  BY <1>1 DEF HostInv, HostTypeOK, LostIsOffline, TpKept
<1>3. \A d \in Conns : sock[d].dev \in Devs \cup {NoDev}
  BY DEF HostInv, HostTypeOK, SockType
<1>4. SocketsKnown'
  BY <1>1, <1>3 DEF HostInv, SocketsKnown, TpKept
<1>5. \A t \in Devs : MayBeHeld(tp[t]) => MayBeHeld(tp'[t])
  BY DEF MayBeHeld, TpKept
<1>6. NoSocketOnDead'
  BY <1>1, <1>3, <1>5 DEF HostInv, NoSocketOnDead
<1> QED BY <1>2, <1>4, <1>6 DEF HostInv

\* disconnect: nothing hangs on the list of transports.
LEMMA DisconnectInv == ASSUME HostInv, NEW c \in Conns, Disconnect(c) PROVE HostInv'
<1> DEFINE tcp == {t \in Listed : Type[t] = "local"}
<1>1. /\ sock[c].pc = "smart" /\ Handled(c) /\ UNCHANGED <<disc, fwd>>
      /\ tp \in [Devs -> TpType]
  BY DEF Disconnect, HostInv, HostTypeOK
<1>2. PICK ts \in {{}, tcp} \cup {{t} : t \in tcp} :
         tp' = [t \in Devs |-> IF t \in ts THEN [tp[t] EXCEPT !.cut = TRUE, !.moved = (ts # {t})]
                              ELSE IF ts = {} THEN tp[t] ELSE Moved(tp)[t]]
  BY DEF Disconnect
<1> HIDE DEF tcp
<1>3. TpKept
  <2> SUFFICES ASSUME NEW t \in Devs
               PROVE /\ tp'[t] \in TpType
                     /\ tp'[t].life = tp[t].life /\ tp'[t].state = tp[t].state
                     /\ tp'[t].swept = tp[t].swept /\ (tp[t].cut => tp'[t].cut)
    BY <1>2 DEF TpKept
  <2>1. tp'[t] = IF t \in ts THEN [tp[t] EXCEPT !.cut = TRUE, !.moved = (ts # {t})]
                 ELSE IF ts = {} THEN tp[t] ELSE Moved(tp)[t]
    BY <1>2
  <2>2. tp[t] \in TpType /\ Moved(tp)[t] \in TpType /\ SameButMoved(Moved(tp)[t], tp[t])
    BY <1>1, MovedFacts
  <2>3. CASE t \in ts
    BY <2>1, <2>2, <2>3 DEF TpType
  <2>4. CASE t \notin ts
    BY <2>1, <2>2, <2>4 DEF SameButMoved
  <2> QED BY <2>3, <2>4
<1>4. ForwardsLive'
  BY <1>1, <1>3 DEF HostInv, ForwardsLive, TpKept
<1> QED BY <1>1, <1>3, <1>4, HandledInv DEF HostInv, HostTypeOK

\* Installing, rebinding and removing forwards.
LEMMA ForwardInv ==
    ASSUME HostInv, NEW c \in Conns, NEW n \in Names, NEW target, NEW norebind,
           Forward(c, n, target, norebind)
    PROVE HostInv'
<1>1. sock[c].pc = "smart" /\ Handled(c) /\ UNCHANGED tp /\ TpKept
  BY TpUnchanged DEF Forward
<1>2. CASE UNCHANGED <<disc, fwd>>
  BY <1>1, <1>2, HandledInv DEF HostInv, HostTypeOK, ForwardsLive
<1>3. ASSUME NEW t \in Acquire(target), Rebind(n, t), fwd' = [fwd EXCEPT ![n] = t] PROVE HostInv'
  <2>1. t \in Devs /\ tp[t].life = "up"
    BY AcquiredIsUp DEF HostInv
  <2>2. /\ fwd' \in [Names -> Devs \cup {NoDev}] /\ fwd'[n] = t
        /\ \A m \in Names : m # n => fwd'[m] = fwd[m]
    BY <1>3, <2>1 DEF HostInv, HostTypeOK
  <2>3. /\ disc' \in [Devs -> SUBSET (Names \cup Conns)]
        /\ \A u \in Devs : disc'[u] = IF u = t THEN disc[u] \cup {n} ELSE disc[u] \ {n}
    BY <1>3 DEF Rebind, HostInv, HostTypeOK
  <2>4. \A u \in Devs, d \in Conns : d \in disc'[u] <=> d \in disc[u]
    BY <2>3, DevAssumption
  <2>5. ForwardsLive'
    BY <1>1, <2>1, <2>2, <2>3 DEF HostInv, ForwardsLive
  <2> QED BY <1>1, <2>2, <2>3, <2>4, <2>5, HandledInv
<1> QED BY <1>2, <1>3 DEF Forward

\* Removing forwards, one or all.
LEMMA UnforwardInv ==
    ASSUME HostInv, NEW c \in Conns, NEW ns \in SUBSET Names,
           sock[c].pc = "smart", Handled(c), UNCHANGED tp, Unforward(ns)
    PROVE HostInv'
<1>1. /\ fwd' \in [Names -> Devs \cup {NoDev}]
      /\ \A n \in Names : fwd'[n] = IF n \in ns THEN NoDev ELSE fwd[n]
  BY DEF Unforward, HostInv, HostTypeOK
<1>2. /\ disc' \in [Devs -> SUBSET (Names \cup Conns)]
      /\ \A t \in Devs : disc'[t] = disc[t] \ ns
  BY DEF Unforward, HostInv, HostTypeOK
<1>3. \A t \in Devs, d \in Conns : d \in disc'[t] <=> d \in disc[t]
  BY <1>2, DevAssumption
<1>4. ForwardsLive'
  BY <1>1, <1>2, DevAssumption DEF HostInv, ForwardsLive
<1> QED BY <1>1, <1>2, <1>3, <1>4, HandledInv, TpUnchanged

\* A stream is on its device's list of disconnects while it is open.
LEMMA StreamInv ==
    ASSUME HostInv, NEW c \in Conns, RemoteOkay(c) \/ RemoteClse(c) \/ HangUp(c)
    PROVE HostInv'
<1>1. HostTypeOK /\ sock[c] \in SockType /\ UNCHANGED <<tp, fwd>>
  BY DEF HostInv, HostTypeOK, RemoteOkay, RemoteClse, HangUp
<1>2. ASSUME NEW q \in SockType, NEW opens \in BOOLEAN,
             sock'[c] = q, \A d \in Conns : d # c => sock'[d] = sock[d], sock' \in [Conns -> SockType],
             disc' \in [Devs -> SUBSET (Names \cup Conns)],
             \A u \in Devs, x \in Names \cup Conns : x # c => (x \in disc'[u] <=> x \in disc[u]),
             \A u \in Devs : c \in disc'[u] <=> (opens /\ q.dev = u),
             IF opens THEN q.pc = "open" /\ q.dev \in Devs /\ tp[q.dev].life = "up"
             ELSE q.pc = "closed" /\ q.dev = NoDev
      PROVE HostInv'
  <2>1. HostTypeOK' /\ LostIsOffline'
    BY <1>1, <1>2 DEF HostInv, HostTypeOK, LostIsOffline
  <2>2. ForwardsLive'
    BY <1>1, <1>2, DevAssumption DEF HostInv, ForwardsLive
  <2>3. SocketsKnown' /\ NoSocketOnDead'
    <3> SUFFICES ASSUME NEW d \in Conns
                 PROVE /\ sock'[d].dev # NoDev => /\ sock'[d].pc \in {"smart", "opening", "open"}
                                                  /\ MayBeHeld(tp[sock'[d].dev])
                       /\ sock'[d].pc \in {"opening", "open"} => sock'[d].dev # NoDev
                       /\ sock'[d].pc = "open" => tp[sock'[d].dev].life = "up"
                       /\ \A u \in Devs : d \in disc'[u] <=> (sock'[d].pc = "open" /\ sock'[d].dev = u)
      BY <1>1 DEF SocketsKnown, NoSocketOnDead
    <3>1. CASE d = c
      <4>1. q.dev # NoDev => MayBeHeld(tp[q.dev])
        BY <1>2, UpIsHeld DEF HostInv
      <4> QED BY <3>1, <4>1, <1>2, DevAssumption
    <3>2. CASE d # c
      BY <3>2, <1>2 DEF HostInv, SocketsKnown, NoSocketOnDead
    <3> QED BY <3>1, <3>2
  <2> QED BY <2>1, <2>2, <2>3 DEF HostInv
<1>3. CASE RemoteOkay(c)
  <2> DEFINE t == sock[c].dev
             q == [sock[c] EXCEPT !.pc = "open", !.owed = FALSE]
  <2>1. sock[c].pc = "opening" /\ tp[t].life = "up" /\ t \in Devs
    BY <1>1, <1>3 DEF RemoteOkay, HostInv, SocketsKnown, SockType
  <2>2. q \in SockType /\ q.pc = "open" /\ q.dev = t
    BY <1>1 DEF SockType
  <2>3. sock' = [sock EXCEPT ![c] = q]
    BY <1>1, <1>3 DEF RemoteOkay, HostTypeOK
  <2> HIDE DEF q
  <2>4. /\ sock'[c] = q /\ sock' \in [Conns -> SockType]
        /\ \A d \in Conns : d # c => sock'[d] = sock[d]
    BY <2>2, <2>3, <1>1 DEF HostTypeOK
  <2>5. disc' = [disc EXCEPT ![t] = disc[t] \cup {c}]
    BY <1>3 DEF RemoteOkay
  <2>6. \A u \in Devs : c \in disc[u] <=> FALSE
    BY <2>1 DEF HostInv, SocketsKnown
  <2> HIDE DEF t
  <2>7. /\ disc' \in [Devs -> SUBSET (Names \cup Conns)]
        /\ \A u \in Devs : disc'[u] = IF u = t THEN disc[u] \cup {c} ELSE disc[u]
    BY <1>1, <2>1, <2>5 DEF HostTypeOK
  <2>8. \A u \in Devs : c \in disc'[u] <=> (TRUE /\ q.dev = u)
    BY <2>2, <2>6, <2>7
  <2>9. \A u \in Devs, x \in Names \cup Conns : x # c => (x \in disc'[u] <=> x \in disc[u])
    BY <2>7
  <2> QED BY <2>1, <2>2, <2>4, <2>7, <2>8, <2>9, <1>2
<1>4. CASE RemoteClse(c) \/ HangUp(c)
  <2>1. /\ sock'[c] \in SockType /\ sock'[c].pc = "closed" /\ sock'[c].dev = NoDev
        /\ sock' \in [Conns -> SockType]
        /\ \A d \in Conns : d # c => sock'[d] = sock[d]
    <3> DEFINE closed == Closed({c})
    <3>1. /\ closed \in [Conns -> SockType] /\ closed[c].pc = "closed" /\ closed[c].dev = NoDev
          /\ \A d \in Conns : d # c => closed[d] = sock[d]
      BY <1>1, ClosedOne
    <3> HIDE DEF closed
    <3>2. CASE sock' = closed
      BY <3>1, <3>2
    <3>3. CASE sock' = [closed EXCEPT ![c].owed = FALSE]
      <4> DEFINE q == [closed[c] EXCEPT !.owed = FALSE]
      <4>1. q \in SockType /\ q.pc = "closed" /\ q.dev = NoDev
        BY <3>1 DEF SockType
      <4>2. sock' = [closed EXCEPT ![c] = q]
        BY <3>3
      <4> HIDE DEF q
      <4> QED BY <3>1, <4>1, <4>2
    <3> QED BY <1>4, <3>2, <3>3 DEF RemoteClse, HangUp, closed
  <2>2. \A u \in Devs : disc'[u] = disc[u] \ {c}
    <3>1. CASE HangUp(c)
      BY <3>1 DEF HangUp
    <3>2. CASE RemoteClse(c)
      <4>1. \A u \in Devs : u # sock[c].dev => c \notin disc[u]
        BY DEF HostInv, SocketsKnown
      <4>2. disc' = [disc EXCEPT ![sock[c].dev] = disc[sock[c].dev] \ {c}]
        BY <3>2 DEF RemoteClse
      <4>3. \A u \in Devs : disc'[u] = IF u = sock[c].dev THEN disc[u] \ {c} ELSE disc[u]
        BY <4>2, <1>1 DEF HostTypeOK
      <4> QED BY <4>1, <4>3
    <3> QED BY <1>4, <3>1, <3>2
  <2>3. disc' \in [Devs -> SUBSET (Names \cup Conns)]
    BY <1>1, <1>4 DEF RemoteClse, HangUp, HostTypeOK
  <2>4. /\ \A u \in Devs : c \in disc'[u] <=> (FALSE /\ sock'[c].dev = u)
        /\ \A u \in Devs, x \in Names \cup Conns : x # c => (x \in disc'[u] <=> x \in disc[u])
    BY <2>2
  <2> QED BY <2>1, <2>3, <2>4, <1>2
<1> QED BY <1>3, <1>4

\* Devices that come, change state, and go.
LEMMA TransportInv ==
    ASSUME HostInv, NEW t \in Devs,
           Arrive(t) \/ Unauthorized(t) \/ Cnxn(t) \/ SyncOffline(t) \/ TransportStep(t)
    PROVE HostInv'
<1>1. HostTypeOK /\ LostIsOffline /\ tp \in [Devs -> TpType] /\ tp[t] \in TpType
  BY DEF HostInv, HostTypeOK
<1>2. ASSUME tp' \in [Devs -> TpType], \A u \in Devs : u # t => SameButMoved(tp'[u], tp[u]),
             tp'[t].life = "up", ~tp'[t].swept,
             tp[t].life \in {"none", "up"}, UNCHANGED <<disc, fwd, sock>>
      PROVE HostInv'
  <2>1. \A u \in Devs : u # t => /\ tp'[u].life = tp[u].life /\ tp'[u].state = tp[u].state
                                 /\ tp'[u].swept = tp[u].swept /\ MayBeHeld(tp'[u]) = MayBeHeld(tp[u])
    BY <1>2 DEF SameButMoved, MayBeHeld
  <2>2. HostTypeOK'
    BY <1>1, <1>2 DEF HostTypeOK
  <2>3. LostIsOffline' /\ ForwardsLive'
    BY <1>2, <2>1 DEF HostInv, LostIsOffline, ForwardsLive
  <2>4. \A c \in Conns : sock[c].dev \in Devs \cup {NoDev}
    BY <1>1 DEF HostTypeOK, SockType
  <2>5. SocketsKnown'
    BY <1>2, <2>1, <2>4 DEF HostInv, SocketsKnown
  <2>6. NoSocketOnDead'
    <3>1. MayBeHeld(tp'[t])
      BY <1>2 DEF MayBeHeld
    <3> QED BY <1>2, <2>1, <2>4, <3>1 DEF HostInv, NoSocketOnDead
  <2> QED BY <2>2, <2>3, <2>5, <2>6 DEF HostInv
<1>3. CASE Arrive(t)
  <2>1. Moved(tp) \in [Devs -> TpType] /\ \A u \in Devs : SameButMoved(Moved(tp)[u], tp[u])
    BY <1>1, MovedFacts
  <2>2. tp' = [Moved(tp) EXCEPT ![t].life = "up"] /\ tp[t].life = "none" /\ ~tp[t].swept
    BY <1>1, <1>3 DEF Arrive, LostIsOffline
  <2> DEFINE m == Moved(tp)
             q == [m[t] EXCEPT !.life = "up"]
  <2>3. m[t] \in TpType /\ m[t].swept = tp[t].swept
    BY <2>1 DEF SameButMoved
  <2>4. q \in TpType /\ q.life = "up" /\ q.swept = tp[t].swept
    <3> HIDE DEF m
    <3> QED BY <2>3 DEF TpType
  <2>5. tp' = [m EXCEPT ![t] = q] /\ m \in [Devs -> TpType]
    BY <2>1, <2>2
  <2> HIDE DEF q, m
  <2>6. tp' \in [Devs -> TpType] /\ tp'[t] = q /\ \A u \in Devs : u # t => tp'[u] = m[u]
    BY <2>4, <2>5
  <2>7. \A u \in Devs : u # t => SameButMoved(tp'[u], tp[u])
    BY <2>1, <2>6 DEF m
  <2> QED BY <2>2, <2>4, <2>6, <2>7, <1>2, <1>3 DEF Arrive
<1>4. ASSUME NEW q \in TpType, tp' = [tp EXCEPT ![t] = q]
      PROVE tp' \in [Devs -> TpType] /\ tp'[t] = q /\ \A u \in Devs : u # t => SameButMoved(tp'[u], tp[u])
  BY <1>1, <1>4 DEF SameButMoved
<1>5. ASSUME tp[t].life = "up" PROVE ~tp[t].swept
  BY <1>1, <1>5 DEF LostIsOffline
<1>6. CASE Unauthorized(t)
  <2> DEFINE q == [tp[t] EXCEPT !.state = "unauthorized"]
  <2>1. q \in TpType /\ q.life = "up" /\ ~q.swept
    BY <1>1, <1>5, <1>6 DEF Unauthorized, TpType
  <2>2. tp' = [tp EXCEPT ![t] = q]
    BY <1>1, <1>6 DEF Unauthorized
  <2> HIDE DEF q
  <2> QED BY <2>1, <2>2, <1>2, <1>4, <1>6 DEF Unauthorized
<1>7. CASE Cnxn(t)
  <2> DEFINE q == [tp[t] EXCEPT !.state = "device"]
  <2>1. q \in TpType /\ q.life = "up" /\ ~q.swept
    BY <1>1, <1>5, <1>7 DEF Cnxn, TpType
  <2>2. tp' = [tp EXCEPT ![t] = q]
    BY <1>1, <1>7 DEF Cnxn
  <2>3. tp[t].life = "up"
    BY <1>7 DEF Cnxn
  <2> HIDE DEF q
  <2>4. /\ tp' \in [Devs -> TpType] /\ tp'[t] = q
        /\ \A u \in Devs : u # t => SameButMoved(tp'[u], tp[u])
    BY <2>1, <2>2, <1>4
  <2>5. MayBeHeld(tp'[t])
    BY <2>1, <2>4 DEF MayBeHeld
  <2>6. CASE tp[t].state # "offline"
    <3>1. HandleOffline(t)
      BY <2>6, <1>7 DEF Cnxn
    <3> QED BY <3>1, <2>1, <2>4, <2>5, OfflineInv
  <2>7. CASE tp[t].state = "offline"
    <3>1. UNCHANGED <<disc, fwd, sock>>
      BY <2>7, <1>7 DEF Cnxn
    <3> QED BY <3>1, <2>1, <2>3, <2>4, <1>2
  <2> QED BY <2>6, <2>7
<1>8. CASE SyncOffline(t)
  <2> DEFINE q == [tp[t] EXCEPT !.life = "lost", !.state = "offline"]
  <2>1. q \in TpType /\ q.life = "lost" /\ q.state = "offline" /\ ~q.swept
    BY <1>1, <1>5, <1>8 DEF SyncOffline, TpType
  <2>2. tp' = [tp EXCEPT ![t] = q] /\ HandleOffline(t)
    BY <1>1, <1>8 DEF SyncOffline
  <2> HIDE DEF q
  <2>3. /\ tp' \in [Devs -> TpType] /\ tp'[t] = q
        /\ \A u \in Devs : u # t => SameButMoved(tp'[u], tp[u])
    BY <2>1, <2>2, <1>4
  <2>4. MayBeHeld(tp'[t])
    BY <2>1, <2>3 DEF MayBeHeld
  <2> QED BY <2>1, <2>2, <2>3, <2>4, OfflineInv
<1>9. CASE RemoveTransport(t)
  <2> DEFINE m == IF tp[t].cut THEN tp ELSE Moved(tp)
  <2>1. m \in [Devs -> TpType] /\ \A u \in Devs : SameButMoved(m[u], tp[u])
    BY <1>1, MovedFacts DEF SameButMoved
  <2>2. PICK left \in {"offline", "device"} :
           tp' = [m EXCEPT ![t].life = "gone", ![t].state = left]
    BY <1>9 DEF RemoveTransport
  <2>3. HandleOffline(t) /\ (tp[t].swept \/ tp[t].cut)
    BY <1>9 DEF RemoveTransport
  <2> HIDE DEF m
  <2> DEFINE q == [m[t] EXCEPT !.life = "gone", !.state = left]
  <2>4. m[t] \in TpType /\ m[t].swept = tp[t].swept /\ m[t].cut = tp[t].cut
    BY <2>1 DEF SameButMoved
  <2>5. q \in TpType /\ q.life = "gone" /\ q.swept = tp[t].swept /\ q.cut = tp[t].cut
    BY <2>4 DEF TpType
  <2>6. tp' = [m EXCEPT ![t] = q]
    BY <2>1, <2>2
  <2> HIDE DEF q
  <2>7. tp' \in [Devs -> TpType] /\ tp'[t] = q /\ \A u \in Devs : u # t => tp'[u] = m[u]
    BY <2>1, <2>5, <2>6
  <2>8. \A u \in Devs : u # t => SameButMoved(tp'[u], tp[u])
    BY <2>1, <2>7
  <2>9. \A c \in Conns : sock[c].dev = t => MayBeHeld(tp'[t])
    <3> SUFFICES ASSUME NEW c \in Conns, sock[c].dev = t PROVE MayBeHeld(tp'[t])
      OBVIOUS
    <3>1. ~tp[t].swept
      BY DevAssumption DEF HostInv, NoSocketOnDead, MayBeHeld
    <3> QED BY <3>1, <2>3, <2>5, <2>7 DEF MayBeHeld
  <2> QED BY <2>3, <2>5, <2>7, <2>8, <2>9, OfflineInv
<1>10. CASE InputThreadExits(t)
  <2>1. /\ tp[t].life \in {"lost", "gone"} /\ tp' = [tp EXCEPT ![t].swept = TRUE]
        /\ sock' = Closed(On(t)) /\ UNCHANGED <<disc, fwd>>
    BY <1>10 DEF InputThreadExits, CloseAllSockets
  <2>2. /\ tp' \in [Devs -> TpType] /\ tp'[t].life = tp[t].life /\ tp'[t].state = tp[t].state
        /\ \A u \in Devs : u # t => tp'[u] = tp[u]
    BY <1>1, <2>1 DEF TpType
  <2>3. /\ sock' \in [Conns -> SockType]
        /\ \A c \in Conns : /\ c \in On(t) => sock'[c].pc = "closed" /\ sock'[c].dev = NoDev
                            /\ c \notin On(t) => sock'[c] = sock[c]
    BY <1>1, <2>1, ClosedFacts
  <2>4. \A c \in Conns : /\ c \in On(t) <=> sock[c].dev = t
                         /\ sock[c].pc = "open" => sock[c].dev # t
    BY <2>1, DevAssumption DEF On, HostInv, SocketsKnown
  <2>5. HostTypeOK' /\ LostIsOffline'
    BY <1>1, <2>1, <2>2, <2>3 DEF HostInv, HostTypeOK, LostIsOffline
  <2>6. ForwardsLive'
    BY <2>1, <2>2 DEF HostInv, ForwardsLive
  <2>7. \A c \in Conns : sock[c].dev \in Devs \cup {NoDev}
    BY <1>1 DEF HostTypeOK, SockType
  <2>8. SocketsKnown' /\ NoSocketOnDead'
    BY <2>1, <2>2, <2>3, <2>4, <2>7 DEF HostInv, SocketsKnown, NoSocketOnDead
  <2> QED BY <2>5, <2>6, <2>8 DEF HostInv
<1> QED BY <1>3, <1>6, <1>7, <1>8, <1>9, <1>10 DEF TransportStep

\* At first there is nothing.
LEMMA HostInitInv == HostInit => HostInv
  BY DevAssumption DEF HostInit, HostInv, HostTypeOK, SockType, TpType, LostIsOffline, SocketsKnown,
     ForwardsLive, NoSocketOnDead

\* The inductive invariant holds throughout.
THEOREM HostInvariance == HostSpec => []HostInv
<1>1. HostInv /\ [HostNext]_host_vars => HostInv'
  <2> SUFFICES ASSUME HostInv, [HostNext]_host_vars PROVE HostInv'
    OBVIOUS
  <2>1. ASSUME NEW t \in Devs,
               Arrive(t) \/ Unauthorized(t) \/ Cnxn(t) \/ SyncOffline(t) \/ TransportStep(t)
        PROVE HostInv'
    BY <2>1, TransportInv
  <2>2. ASSUME NEW c \in Conns, Accept(c) \/ \E n \in Names : AcceptForward(c, n) PROVE HostInv'
    BY <2>2, AcceptInv
  <2>3. ASSUME NEW c \in Conns,
               AskOther(c) \/ TrackDevices(c) \/ OpenService(c)
               \/ \E target \in Targets : AskTransport(c, target) \/ WaitFor(c, target)
        PROVE HostInv'
    BY <2>3, RequestInv
  <2>4. ASSUME NEW c \in Conns, RemoteOkay(c) \/ RemoteClse(c) \/ HangUp(c) PROVE HostInv'
    BY <2>4, StreamInv
  <2>5. ASSUME NEW c \in Conns, WaiterStep(c) PROVE HostInv'
    BY <2>5, WaiterInv
  <2>6. ASSUME NEW c \in Conns, NEW n \in Names, NEW target \in Targets, NEW norebind \in BOOLEAN,
               Forward(c, n, target, norebind)
        PROVE HostInv'
    BY <2>6, ForwardInv
  <2>7. ASSUME NEW c \in Conns, NEW n \in Names, NEW target \in Targets, KillForward(c, n, target)
        PROVE HostInv'
    BY <2>7, UnforwardInv DEF KillForward
  <2>8. ASSUME NEW c \in Conns, KillForwardAll(c) PROVE HostInv'
    BY <2>8, UnforwardInv DEF KillForwardAll
  <2>9. CASE UNCHANGED host_vars
    BY <2>9 DEF host_vars, HostInv, HostTypeOK, LostIsOffline, SocketsKnown, ForwardsLive, NoSocketOnDead
  <2>10. ASSUME NEW c \in Conns, Disconnect(c) PROVE HostInv'
    BY <2>10, DisconnectInv
  <2> QED BY <2>1, <2>2, <2>3, <2>4, <2>5, <2>6, <2>7, <2>8, <2>9, <2>10 DEF HostNext
<1> QED BY HostInitInv, <1>1, PTL DEF HostSpec

\* Every forward leads to a device that is up, and goes with that device alone.
THEOREM ForwardsFollowDevice == HostSpec => []ForwardsLive
<1>1. HostInv => ForwardsLive
  BY DEF HostInv
<1> QED BY HostInvariance, <1>1, PTL

\* No socket holds a transport that close_all_sockets has been through or, unless it
\* was disconnected, one that is freed.
THEOREM SocketsLeaveFirst == HostSpec => []NoSocketOnDead
<1>1. HostInv => NoSocketOnDead
  BY DEF HostInv
<1> QED BY HostInvariance, <1>1, PTL
=============================================================================
