-------------------------- MODULE HandshakeProofs --------------------------
(***************************************************************************)
(* Nobody gets online with the device unearned, for every set of links and *)
(* keys, however often servers restart, cables are pulled and the          *)
(* framework dies.                                                         *)
(***************************************************************************)
EXTENDS Handshake, TLAPS

\* What no step at a link does to the words of the user.
AuthKept == /\ auth'.auth_enabled = auth.auth_enabled /\ auth'.accepted = auth.accepted
            /\ AcceptedExact(auth'.replies, auth'.accepted)

Ready(q, state) == state # "offline" \/ \E j \in 1..Len(q) : q[j].cmd = "CNXN"

\* Handling the first packet to the device keeps what is said of the others, if
\* a CNXN leaves the device not offline and only a SYNC leaves it offline.
LEMMA DevTakes ==
    ASSUME NEW l \in Links, NEW q \in Seq(Packets), NEW r \in Seq(Packets), NEW s, NEW s2, q # <<>>,
           QueuesExact(q, r, s, l),
           q[1].cmd = "CNXN" => s2 # "offline",
           q[1].cmd # "SYNC" /\ s # "offline" => s2 # "offline"
    PROVE Tail(q) \in Seq(Packets) /\ QueuesExact(Tail(q), r, s2, l)
<1> DEFINE t == Tail(q)
<1>1. /\ t \in Seq(Packets) /\ Len(q) \in Nat /\ Len(q) > 0 /\ Len(t) = Len(q) - 1
      /\ \A i \in 1..Len(t) : t[i] = q[i + 1] /\ i + 1 \in 1..Len(q)
  OBVIOUS
<1>2. q[1].cmd = "SYNC" => Len(q) > 1 /\ q[2].cmd = "CNXN" /\ t[1].cmd = "CNXN" /\ 1 \in 1..Len(t)
  BY <1>1 DEF QueuesExact
<1> HIDE DEF t
<1>3. ASSUME NEW j \in 1..Len(q), q[j].cmd = "CNXN", j # 1
      PROVE j - 1 \in 1..Len(t) /\ t[j - 1].cmd = "CNXN"
  BY <1>1, <1>3
<1>4. ASSUME NEW i \in 1..Len(t), t[i].cmd = "SIGNATURE"
      PROVE \E k \in 1..Len(KeyList[l]) : t[i].key = KeyList[l][k]
  <2>1. i + 1 \in 1..Len(q) /\ q[i + 1] = t[i]
    BY <1>1
  <2> QED BY <2>1, <1>4 DEF QueuesExact
<1>5. \A i \in 1..Len(t) : t[i].cmd # "SYNC"
  BY <1>1 DEF QueuesExact
<1>6. ASSUME NEW i \in 1..Len(t), t[i].cmd \in {"SIGNATURE", "RSAPUBLICKEY"}
      PROVE s2 # "offline" \/ \E j \in 1..Len(t) : j < i /\ t[j].cmd = "CNXN"
  <2>1. i + 1 \in 1..Len(q) /\ q[i + 1].cmd \in {"SIGNATURE", "RSAPUBLICKEY"}
    BY <1>1, <1>6
  <2>2. s # "offline" \/ \E j \in 1..Len(q) : j < i + 1 /\ q[j].cmd = "CNXN"
    BY <2>1 DEF QueuesExact
  <2>3. CASE q[1].cmd = "SYNC"
    <3>1. i # 1
      BY <2>1, <2>3, <1>2, <1>6
    <3> QED BY <3>1, <2>3, <1>2, <1>1
  <2>4. CASE q[1].cmd = "CNXN"
    BY <2>4
  <2>5. CASE q[1].cmd \notin {"CNXN", "SYNC"}
    <3>1. CASE s # "offline"
      BY <3>1, <2>5
    <3>2. ASSUME NEW j \in 1..Len(q), j < i + 1, q[j].cmd = "CNXN"
          PROVE \E n \in 1..Len(t) : n < i /\ t[n].cmd = "CNXN"
      <4>1. j # 1
        BY <3>2, <2>5
      <4> QED BY <4>1, <3>2, <1>3
    <3> QED BY <3>1, <3>2, <2>2
  <2> QED BY <2>3, <2>4, <2>5
<1>7. ASSUME NEW i \in 1..Len(r), r[i].cmd = "TOKEN"
      PROVE s2 # "offline" \/ \E j \in 1..Len(t) : t[j].cmd = "CNXN"
  <2>2. s # "offline" \/ \E j \in 1..Len(q) : q[j].cmd = "CNXN"
    BY <1>7 DEF QueuesExact
  <2>3. CASE q[1].cmd = "SYNC"
    BY <2>3, <1>2
  <2>4. CASE q[1].cmd = "CNXN"
    BY <2>4
  <2>5. CASE q[1].cmd \notin {"CNXN", "SYNC"}
    <3>1. CASE s # "offline"
      BY <3>1, <2>5
    <3>2. ASSUME NEW j \in 1..Len(q), q[j].cmd = "CNXN"
          PROVE \E n \in 1..Len(t) : t[n].cmd = "CNXN"
      <4>1. j # 1
        BY <3>2, <2>5
      <4> QED BY <4>1, <3>2, <1>3
    <3> QED BY <3>1, <3>2, <2>2
  <2> QED BY <2>3, <2>4, <2>5
<1>8. QueuesExact(t, r, s2, l)
  BY <1>4, <1>5, <1>6, <1>7 DEF QueuesExact
<1> QED BY <1>1, <1>8 DEF t

\* So does a packet that is sent to the device, in its turn,
LEMMA DevIsSent ==
    ASSUME NEW l \in Links, NEW q \in Seq(Packets), NEW r \in Seq(Packets), NEW s, NEW p \in Packets,
           QueuesExact(q, r, s, l), p.cmd # "SYNC",
           p.cmd = "SIGNATURE" => \E k \in 1..Len(KeyList[l]) : p.key = KeyList[l][k],
           p.cmd \in {"SIGNATURE", "RSAPUBLICKEY"} => Ready(q, s)
    PROVE Append(q, p) \in Seq(Packets) /\ QueuesExact(Append(q, p), r, s, l)
<1> DEFINE t == Append(q, p)
<1>1. /\ t \in Seq(Packets) /\ Len(q) \in Nat /\ Len(t) = Len(q) + 1 /\ t[Len(q) + 1] = p
      /\ \A i \in 1..Len(q) : t[i] = q[i] /\ i \in 1..Len(t)
  OBVIOUS
<1>2. \A i \in 1..Len(t) : i \in 1..Len(q) \/ (i = Len(q) + 1 /\ t[i] = p)
  BY <1>1
<1> HIDE DEF t
<1>3. \A i \in 1..Len(t) : t[i].cmd = "SIGNATURE" => \E k \in 1..Len(KeyList[l]) : t[i].key = KeyList[l][k]
  BY <1>1, <1>2 DEF QueuesExact
<1>4. \A i \in 1..Len(t) : t[i].cmd = "SYNC" => i = 1 /\ Len(t) > 1 /\ t[2].cmd = "CNXN"
  BY <1>1, <1>2 DEF QueuesExact
<1>5. \A i \in 1..Len(t) : t[i].cmd \in {"SIGNATURE", "RSAPUBLICKEY"} =>
         s # "offline" \/ \E j \in 1..Len(t) : j < i /\ t[j].cmd = "CNXN"
  <2>1. ASSUME NEW i \in 1..Len(q), t[i].cmd \in {"SIGNATURE", "RSAPUBLICKEY"}
        PROVE s # "offline" \/ \E j \in 1..Len(t) : j < i /\ t[j].cmd = "CNXN"
    <3>1. q[i].cmd \in {"SIGNATURE", "RSAPUBLICKEY"}
      BY <1>1, <2>1
    <3>2. s # "offline" \/ \E j \in 1..Len(q) : j < i /\ q[j].cmd = "CNXN"
      BY <3>1 DEF QueuesExact
    <3> QED BY <1>1, <3>2
  <2>2. p.cmd \in {"SIGNATURE", "RSAPUBLICKEY"} => s # "offline" \/ \E j \in 1..Len(t) : j < Len(q) + 1 /\ t[j].cmd = "CNXN"
    BY <1>1 DEF Ready
  <2> QED BY <2>1, <2>2, <1>2
<1>6. (\E i \in 1..Len(r) : r[i].cmd = "TOKEN") => s # "offline" \/ \E j \in 1..Len(t) : t[j].cmd = "CNXN"
  BY <1>1 DEF QueuesExact
<1>7. QueuesExact(t, r, s, l)
  BY <1>3, <1>4, <1>5, <1>6 DEF QueuesExact
<1> QED BY <1>1, <1>7 DEF t

\* a packet that the host takes,
LEMMA HostTakes ==
    ASSUME NEW l \in Links, NEW q \in Seq(Packets), NEW r \in Seq(Packets), NEW s, r # <<>>,
           QueuesExact(q, r, s, l)
    PROVE /\ Tail(r) \in Seq(Packets) /\ QueuesExact(q, Tail(r), s, l)
          /\ r[1].cmd = "TOKEN" => Ready(q, s)
<1>1. /\ Tail(r) \in Seq(Packets) /\ 1 \in 1..Len(r)
      /\ \A i \in 1..Len(Tail(r)) : Tail(r)[i] = r[i + 1] /\ i + 1 \in 1..Len(r)
  OBVIOUS
<1>2. (\E i \in 1..Len(Tail(r)) : Tail(r)[i].cmd = "TOKEN") => \E i \in 1..Len(r) : r[i].cmd = "TOKEN"
  BY <1>1
<1> QED BY <1>1, <1>2 DEF QueuesExact, Ready

\* and one that is sent to the host.
LEMMA HostIsSent ==
    ASSUME NEW l \in Links, NEW q \in Seq(Packets), NEW r \in Seq(Packets), NEW s, NEW p \in Packets,
           QueuesExact(q, r, s, l), p.cmd = "TOKEN" => Ready(q, s)
    PROVE Append(r, p) \in Seq(Packets) /\ QueuesExact(q, Append(r, p), s, l)
<1> DEFINE t == Append(r, p)
<1>1. /\ t \in Seq(Packets)
      /\ \A i \in 1..Len(t) : (i \in 1..Len(r) /\ t[i] = r[i]) \/ t[i] = p
  OBVIOUS
<1> HIDE DEF t
<1>2. (\E i \in 1..Len(t) : t[i].cmd = "TOKEN") => p.cmd = "TOKEN" \/ \E i \in 1..Len(r) : r[i].cmd = "TOKEN"
  BY <1>1
<1>3. QueuesExact(q, t, s, l)
  BY <1>2 DEF QueuesExact, Ready
<1> QED BY <1>1, <1>3 DEF t

\* A step at one link keeps the invariant if it does so there.
LEMMA LinkStep ==
    ASSUME HandshakeInv, NEW l \in Links, NEW d \in DevType, NEW h \in HostType,
           NEW q \in Seq(Packets), NEW r \in Seq(Packets),
           dev' = [dev EXCEPT ![l] = d], host' = [host EXCEPT ![l] = h],
           todev' = [todev EXCEPT ![l] = q], tohost' = [tohost EXCEPT ![l] = r], trusted' = trusted,
           auth' \in AuthType, AuthKept,
           auth'.usb_transport \in {auth.usb_transport, l, NoLink},
           auth'.needs_retry => auth'.usb_transport # NoLink,
           auth'.usb_transport = l => d.asked,
           h.key <= Len(KeyList[l]),
           QueuesExact(q, r, d.state, l),
           d.asked => d.state # "offline",
           d.online /\ auth.auth_enabled => Earned(l, d)
    PROVE HandshakeInv'
<1>1. /\ dev'[l] = d /\ host'[l] = h /\ todev'[l] = q /\ tohost'[l] = r
      /\ \A m \in Links : m # l => /\ dev'[m] = dev[m] /\ host'[m] = host[m]
                                  /\ todev'[m] = todev[m] /\ tohost'[m] = tohost[m]
  BY DEF HandshakeInv, HandshakeTypeOK
<1>2. HandshakeTypeOK'
  <2>1. /\ host' \in [Links -> HostType] /\ dev' \in [Links -> DevType] /\ auth' \in AuthType
        /\ tohost' \in [Links -> Seq(Packets)] /\ todev' \in [Links -> Seq(Packets)]
    BY DEF HandshakeInv, HandshakeTypeOK
  <2>2. \A m \in Links : host'[m].key <= Len(KeyList[m])
    BY <1>1 DEF HandshakeInv, HandshakeTypeOK
  <2> QED BY <2>1, <2>2 DEF HandshakeTypeOK
<1>3. AskedFirst'
  BY <1>1, LinkAssumption DEF HandshakeInv, HandshakeTypeOK, AskedFirst, AuthType
<1>4. OnlineIsEarned'
  <2>1. ASSUME NEW m \in Links, dev'[m].online, auth'.auth_enabled PROVE Earned(m, dev[m])'
    <3>1. CASE m = l
      BY <1>1, <2>1, <3>1 DEF Earned, AuthKept
    <3>2. CASE m # l
      BY <1>1, <2>1, <3>2 DEF HandshakeInv, OnlineIsEarned, Earned, AuthKept
    <3> QED BY <3>1, <3>2
  <2> QED BY <2>1 DEF OnlineIsEarned
<1>5. \A m \in Links : QueuesExact(todev'[m], tohost'[m], dev'[m].state, m)
  BY <1>1 DEF HandshakeInv
<1>6. \A m \in Links : dev'[m].asked => dev'[m].state # "offline"
  BY <1>1 DEF HandshakeInv
<1>7. AcceptedExact(auth.replies, auth.accepted)'
  BY DEF AuthKept, AcceptedExact
<1> QED BY <1>2, <1>3, <1>4, <1>5, <1>6, <1>7 DEF HandshakeInv, QueuesExact

\* The types of one link.
LEMMA LinkTypes ==
    ASSUME HandshakeInv, NEW l \in Links
    PROVE /\ host[l] \in HostType /\ dev[l] \in DevType
          /\ todev[l] \in Seq(Packets) /\ tohost[l] \in Seq(Packets)
          /\ host[l].key <= Len(KeyList[l]) /\ auth \in AuthType
          /\ auth.usb_transport = l => dev[l].asked
          /\ auth.needs_retry => auth.usb_transport # NoLink
          /\ dev[l].asked => dev[l].state # "offline"
          /\ dev[l].online /\ auth.auth_enabled => Earned(l, dev[l])
          /\ QueuesExact(todev[l], tohost[l], dev[l].state, l)
          /\ l # NoLink /\ AcceptedExact(auth.replies, auth.accepted)
  BY LinkAssumption DEF HandshakeInv, HandshakeTypeOK, AskedFirst, OnlineIsEarned

\* The host's handlers.
LEMMA HostPacketInv ==
    ASSUME HandshakeInv, NEW l \in Links, HostPacket(l)
    PROVE HandshakeInv'
<1> DEFINE r == tohost[l]
           q == todev[l]
           p == r[1]
<1>0. /\ r \in Seq(Packets) /\ q \in Seq(Packets) /\ r # <<>> /\ p \in Packets /\ Head(r) = p
      /\ host[l] \in HostType /\ dev[l] \in DevType
      /\ KeyList[l] \in Seq(Keys) /\ Len(KeyList[l]) > 0
      /\ Tail(r) \in Seq(Packets) /\ QueuesExact(q, Tail(r), dev[l].state, l)
      /\ p.cmd = "TOKEN" => Ready(q, dev[l].state)
  BY LinkTypes, HostTakes, KeyAssumption DEF HostPacket
<1>1. /\ dev' = [dev EXCEPT ![l] = dev[l]] /\ trusted' = trusted /\ auth' = auth
      /\ tohost' = [tohost EXCEPT ![l] = Tail(r)]
  BY DEF HostPacket, HandshakeInv, HandshakeTypeOK
<1>2. ASSUME NEW h \in HostType, NEW s \in Seq(Packets), host' = [host EXCEPT ![l] = h], h.key <= Len(KeyList[l]),
             todev' = [todev EXCEPT ![l] = s], QueuesExact(s, Tail(r), dev[l].state, l)
      PROVE HandshakeInv'
  <2>1. /\ auth' \in AuthType /\ AuthKept
        /\ auth'.usb_transport \in {auth.usb_transport, l, NoLink}
        /\ auth'.needs_retry => auth'.usb_transport # NoLink
        /\ auth'.usb_transport = l => dev[l].asked
        /\ dev[l].asked => dev[l].state # "offline"
        /\ dev[l].online /\ auth.auth_enabled => Earned(l, dev[l])
    BY <1>1, LinkTypes DEF AuthKept
  <2> QED BY <1>0, <1>1, <1>2, <2>1, LinkStep
<1> HIDE DEF r, q, p
<1>3. CASE p.cmd = "CNXN" /\ HostCnxn(l, p)
  <2> DEFINE h == [host[l] EXCEPT !.state = ParseBanner(p.banner), !.online = TRUE]
  <2>1. h \in HostType /\ h.key = host[l].key
    BY <1>0 DEF HostType, ParseBanner, States
  <2>2. host' = [host EXCEPT ![l] = h] /\ todev' = [todev EXCEPT ![l] = q]
    BY <1>3 DEF HostCnxn, HandshakeInv, HandshakeTypeOK, q
  <2> QED BY <1>0, <1>2, <2>1, <2>2, LinkTypes
<1>4. CASE p.cmd = "SYNC" /\ HostOffline(l)
  <2>1. NewHost \in HostType /\ NewHost.key <= Len(KeyList[l])
    BY <1>0 DEF HostType, NewHost, States
  <2>2. host' = [host EXCEPT ![l] = NewHost] /\ todev' = [todev EXCEPT ![l] = q]
    BY <1>4 DEF HostOffline, HandshakeInv, HandshakeTypeOK, q
  <2> QED BY <1>0, <1>2, <2>1, <2>2
<1>5. CASE p.cmd = "TOKEN" /\ HostToken(l, p)
  <2> DEFINE k == NextKey(l)
             h == [host[l] EXCEPT !.state = "unauthorized", !.key = k]
             a == IF k # 0 THEN SIGNATURE(KeyList[l][k], p.token) ELSE PUBLICKEY(KeyList[l][1])
  <2>1. k \in 0..Len(KeyList[l])
    BY <1>0, LinkTypes DEF NextKey, HostType
  <2>2. h \in HostType /\ h.key = k /\ h.key <= Len(KeyList[l])
    <3> HIDE DEF k
    <3>1. k \in Nat /\ k <= Len(KeyList[l]) /\ "unauthorized" \in States
      BY <1>0, <2>1 DEF States
    <3> QED BY <1>0, <3>1 DEF HostType
  <2>3. host' = [host EXCEPT ![l] = h]
    BY <1>5 DEF HostToken, HandshakeInv, HandshakeTypeOK
  <2>4. a \in Packets /\ a.cmd # "SYNC"
    <3> HIDE DEF k
    <3>1. k # 0 => KeyList[l][k] \in Keys
      BY <1>0, <2>1
    <3>5. KeyList[l][1] \in Keys
      BY <1>0
    <3>6. p.token \in Tokens \cup {0}
      BY <1>0 DEF Packets
    <3>2. KeyList[l][1] \in Keys /\ p.token \in Tokens \cup {0}
      BY <3>5, <3>6
    <3>3. \A x \in Keys : SIGNATURE(x, p.token) \in Packets /\ SIGNATURE(x, p.token).cmd # "SYNC"
      BY <3>2 DEF SIGNATURE, Packets
    <3>4. \A x \in Keys : PUBLICKEY(x) \in Packets /\ PUBLICKEY(x).cmd # "SYNC"
      BY DEF PUBLICKEY, Packets
    <3> QED BY <3>1, <3>2, <3>3, <3>4
  <2>5. a.cmd = "SIGNATURE" => \E n \in 1..Len(KeyList[l]) : a.key = KeyList[l][n]
    BY <2>1 DEF SIGNATURE, PUBLICKEY
  <2>6. Append(q, a) \in Seq(Packets) /\ QueuesExact(Append(q, a), Tail(r), dev[l].state, l)
    BY <1>0, <1>5, <2>4, <2>5, DevIsSent
  <2>7. CASE todev' = [todev EXCEPT ![l] = Append(q, a)]
    <3> HIDE DEF h, a, k
    <3> QED BY <1>2, <2>2, <2>3, <2>6, <2>7
  <2>8. CASE todev' = todev
    <3>1. todev' = [todev EXCEPT ![l] = q]
      BY <2>8 DEF HandshakeInv, HandshakeTypeOK, q
    <3> HIDE DEF h, a, k
    <3> QED BY <1>0, <1>2, <2>2, <2>3, <3>1
  <2> QED BY <1>5, <2>7, <2>8 DEF HostToken, q
<1> QED BY <1>0, <1>3, <1>4, <1>5 DEF HostPacket, r

\* The user and the framework.
LEMMA FrameworkInv ==
    ASSUME HandshakeInv, UserAnswers \/ FrameworkDies
    PROVE HandshakeInv'
<1>0. auth \in AuthType /\ AcceptedExact(auth.replies, auth.accepted)
  BY DEF HandshakeInv, HandshakeTypeOK
<1>1. /\ UNCHANGED <<host, dev, tohost, todev>> /\ trusted \subseteq trusted'
      /\ auth'.usb_transport = auth.usb_transport /\ auth'.needs_retry = auth.needs_retry
      /\ auth'.auth_enabled = auth.auth_enabled /\ auth' \in AuthType
      /\ auth.accepted \subseteq auth'.accepted /\ AcceptedExact(auth'.replies, auth'.accepted)
  <2>1. CASE UserAnswers
    <3> DEFINE k == Head(auth.questions)
    <3> PICK reply \in {"OK", "NO"} :
               auth' = [auth EXCEPT !.questions = Tail(@),
                                    !.replies = Append(@, [text |-> reply, key |-> k]),
                                    !.accepted = IF reply = "OK" THEN @ \cup {k} ELSE @]
      BY <2>1 DEF UserAnswers
    <3> DEFINE w == [text |-> reply, key |-> k]
               more == IF reply = "OK" THEN auth.accepted \cup {k} ELSE auth.accepted
    <3>1. auth.questions # <<>> /\ auth.questions \in Seq(Keys \cup {0}) /\ auth.replies \in Seq(Replies)
      BY <1>0, <2>1 DEF UserAnswers, AuthType
    <3>2. k \in Keys \cup {0} /\ Tail(auth.questions) \in Seq(Keys \cup {0})
      BY <3>1
    <3>3. UNCHANGED <<host, dev, tohost, todev>> /\ trusted \subseteq trusted'
      BY <2>1 DEF UserAnswers
    <3> HIDE DEF k
    <3>4. w \in Replies /\ w.text = reply /\ w.key = k
      BY <3>2 DEF Replies
    <3>5. auth.accepted \in SUBSET (Keys \cup {0})
      BY <1>0 DEF AuthType
    <3>6. more \in SUBSET (Keys \cup {0}) /\ auth.accepted \subseteq more /\ (reply = "OK" => k \in more)
      BY <3>2, <3>5
    <3>7. auth' = [auth EXCEPT !.questions = Tail(auth.questions), !.replies = Append(auth.replies, w),
                               !.accepted = more]
      BY <1>0 DEF AuthType
    <3> HIDE DEF w, more
    <3>8. Append(auth.replies, w) \in Seq(Replies) /\ AcceptedExact(Append(auth.replies, w), more)
      BY <1>0, <3>1, <3>4, <3>6 DEF AcceptedExact
    <3>9. auth'.replies = Append(auth.replies, w) /\ auth'.accepted = more
      BY <1>0, <3>7 DEF AuthType
    <3>10. /\ auth'.usb_transport = auth.usb_transport /\ auth'.needs_retry = auth.needs_retry
           /\ auth'.auth_enabled = auth.auth_enabled /\ auth' \in AuthType
      BY <1>0, <3>2, <3>6, <3>7, <3>8 DEF AuthType
    <3> QED BY <3>3, <3>6, <3>8, <3>9, <3>10
  <2>2. CASE FrameworkDies
    <3> PICK fd \in {"none", "dead"} :
               auth' = [auth EXCEPT !.framework_fd = fd, !.questions = <<>>, !.watched = FALSE]
      BY <2>2 DEF FrameworkDies
    <3>1. <<>> \in Seq(Keys \cup {0})
      OBVIOUS
    <3>2. UNCHANGED <<host, dev, tohost, todev, trusted>>
      BY <2>2 DEF FrameworkDies
    <3>3. auth'.replies = auth.replies /\ auth'.accepted = auth.accepted
      BY <1>0 DEF AuthType
    <3> QED BY <1>0, <3>1, <3>2, <3>3 DEF AuthType
  <2> QED BY <2>1, <2>2
<1>2. HandshakeTypeOK'
  BY <1>1 DEF HandshakeInv, HandshakeTypeOK
<1>3. AskedFirst' /\ OnlineIsEarned'
  BY <1>1 DEF HandshakeInv, AskedFirst, OnlineIsEarned, Earned
<1>4. AcceptedExact(auth.replies, auth.accepted)'
  BY <1>1 DEF AcceptedExact
<1> QED BY <1>1, <1>2, <1>3, <1>4 DEF HandshakeInv, QueuesExact

\* A new server, and a cable that is pulled and put back.
LEMMA LinkLostInv ==
    ASSUME HandshakeInv, NEW l \in Links, Restart(l) \/ Replug(l)
    PROVE HandshakeInv'
<1> DEFINE c == CNXN("host")
<1>0. /\ c \in Packets /\ c.cmd = "CNXN" /\ OFFLINE \in Packets /\ OFFLINE.cmd = "SYNC"
  BY DEF CNXN, OFFLINE, Packets
<1> HIDE DEF c
<1>1. /\ dev' = [dev EXCEPT ![l] = dev[l]] /\ trusted' = trusted /\ auth' = auth
  BY DEF Restart, Replug, HandshakeInv, HandshakeTypeOK
<1>2. ASSUME NEW h \in HostType, NEW s \in Seq(Packets), NEW r \in Seq(Packets), h.key <= Len(KeyList[l]),
             host' = [host EXCEPT ![l] = h], todev' = [todev EXCEPT ![l] = s], tohost' = [tohost EXCEPT ![l] = r],
             QueuesExact(s, r, dev[l].state, l)
      PROVE HandshakeInv'
  <2>1. /\ auth' \in AuthType /\ AuthKept
        /\ auth'.usb_transport \in {auth.usb_transport, l, NoLink}
        /\ auth'.needs_retry => auth'.usb_transport # NoLink
        /\ auth'.usb_transport = l => dev[l].asked
        /\ dev[l].asked => dev[l].state # "offline"
        /\ dev[l].online /\ auth.auth_enabled => Earned(l, dev[l])
        /\ dev[l] \in DevType
    BY <1>1, LinkTypes DEF AuthKept
  <2> QED BY <1>1, <1>2, <2>1, LinkStep
<1>3. CASE Restart(l)
  <2>1. NewHost \in HostType /\ NewHost.key <= Len(KeyList[l])
    BY KeyAssumption DEF HostType, NewHost, States
  <2>2. Append(todev[l], c) \in Seq(Packets) /\ QueuesExact(Append(todev[l], c), tohost[l], dev[l].state, l)
    BY <1>0, LinkTypes, DevIsSent
  <2>3. /\ host' = [host EXCEPT ![l] = NewHost] /\ todev' = [todev EXCEPT ![l] = Append(todev[l], c)]
        /\ tohost' = [tohost EXCEPT ![l] = tohost[l]]
    BY <1>3 DEF Restart, HandshakeInv, HandshakeTypeOK, c
  <2> QED BY <1>2, <2>1, <2>2, <2>3, LinkTypes
<1>4. CASE Replug(l)
  <2> DEFINE s == <<OFFLINE, c>>
             r == <<OFFLINE>>
  <2>1. s \in Seq(Packets) /\ r \in Seq(Packets) /\ QueuesExact(s, r, dev[l].state, l)
    BY <1>0 DEF QueuesExact
  <2>3. /\ host' = [host EXCEPT ![l] = host[l]] /\ todev' = [todev EXCEPT ![l] = s]
        /\ tohost' = [tohost EXCEPT ![l] = r]
    BY <1>4 DEF Replug, HandshakeInv, HandshakeTypeOK, c
  <2> HIDE DEF s, r
  <2> QED BY <1>2, <2>1, <2>3, LinkTypes
<1> QED BY <1>3, <1>4

\* The device's handlers: what becomes of one link, given its packet p.
LEMMA DevHandles ==
    ASSUME HandshakeInv, NEW l \in Links, todev[l] # <<>>, NEW d \in DevType, NEW r \in Seq(Packets),
           todev' = [todev EXCEPT ![l] = Tail(@)], host' = host, trusted' = trusted,
           dev' = [dev EXCEPT ![l] = d], tohost' = [tohost EXCEPT ![l] = r],
           todev[l][1].cmd = "CNXN" => d.state # "offline",
           todev[l][1].cmd # "SYNC" /\ dev[l].state # "offline" => d.state # "offline",
           r = tohost[l] \/ (d.state # "offline" /\ \E p \in Packets : r = Append(tohost[l], p)),
           auth' \in AuthType, AuthKept,
           auth'.usb_transport \in {auth.usb_transport, l, NoLink},
           auth'.needs_retry => auth'.usb_transport # NoLink,
           auth'.usb_transport = l => d.asked,
           d.asked => d.state # "offline",
           d.online /\ auth.auth_enabled => Earned(l, d)
    PROVE HandshakeInv'
<1> DEFINE q == Tail(todev[l])
<1>1. q \in Seq(Packets) /\ QueuesExact(q, tohost[l], d.state, l)
  BY LinkTypes, DevTakes
<1>2. QueuesExact(q, r, d.state, l)
  BY <1>1, LinkTypes, HostIsSent DEF Ready
<1>3. todev' = [todev EXCEPT ![l] = q] /\ host' = [host EXCEPT ![l] = host[l]]
  BY DEF HandshakeInv, HandshakeTypeOK
<1> HIDE DEF q
<1> QED BY <1>1, <1>2, <1>3, LinkTypes, LinkStep

\* A new token, or none.
LEMMA AuthRequested ==
    ASSUME HandshakeInv, NEW l \in Links, NEW d \in DevType, SendAuthRequest(l, d)
    PROVE \E e \in DevType, r \in Seq(Packets) :
             /\ dev' = [dev EXCEPT ![l] = e] /\ tohost' = [tohost EXCEPT ![l] = r]
             /\ e.state = d.state /\ e.online = d.online /\ e.asked = d.asked /\ e.grant = d.grant
             /\ r = tohost[l] \/ \E p \in Packets : r = Append(tohost[l], p)
<1>0. tohost[l] \in Seq(Packets)
  BY LinkTypes
<1>1. CASE /\ Unused(l) # {}
           /\ dev' = [dev EXCEPT ![l] = [d EXCEPT !.token = Fresh(l)]]
           /\ tohost' = [tohost EXCEPT ![l] = Append(@, TOKEN(Fresh(l)))]
  <2> DEFINE f == Fresh(l)
             e == [d EXCEPT !.token = f]
  <2>1. f \in Tokens
    BY <1>1 DEF Fresh, Unused
  <2> HIDE DEF f
  <2>2. e \in DevType /\ e.state = d.state /\ e.online = d.online /\ e.asked = d.asked /\ e.grant = d.grant
    BY <2>1 DEF DevType
  <2>3. TOKEN(f) \in Packets
    BY <2>1 DEF TOKEN, Packets
  <2>4. Append(tohost[l], TOKEN(f)) \in Seq(Packets)
    BY <1>0, <2>3
  <2>5. dev' = [dev EXCEPT ![l] = e] /\ tohost' = [tohost EXCEPT ![l] = Append(tohost[l], TOKEN(f))]
    BY <1>1 DEF f, HandshakeInv, HandshakeTypeOK
  <2> HIDE DEF e
  <2> QED BY <2>2, <2>3, <2>4, <2>5
<1>2. CASE dev' = [dev EXCEPT ![l] = d] /\ tohost' = tohost
  <2>1. tohost' = [tohost EXCEPT ![l] = tohost[l]]
    BY <1>2 DEF HandshakeInv, HandshakeTypeOK
  <2> QED BY <1>0, <1>2, <2>1
<1> QED BY <1>1, <1>2 DEF SendAuthRequest

\* The device goes online at its end.
LEMMA VerifiedFacts ==
    ASSUME HandshakeInv, NEW l \in Links, NEW d \in DevType, NEW k \in Keys \cup {0}, Verified(l, d, k)
    PROVE \E e \in DevType, r \in Seq(Packets) :
             /\ dev' = [dev EXCEPT ![l] = e] /\ tohost' = [tohost EXCEPT ![l] = r]
             /\ e.state = d.state /\ e.asked = d.asked /\ e.grant = k
             /\ \E p \in Packets : r = Append(tohost[l], p)
<1> DEFINE e == [d EXCEPT !.online = TRUE, !.grant = k]
           c == CNXN("device")
<1>0. tohost[l] \in Seq(Packets)
  BY LinkTypes
<1>1. e \in DevType /\ e.state = d.state /\ e.asked = d.asked /\ e.grant = k
  BY DEF DevType
<1>2. c \in Packets
  BY DEF CNXN, Packets
<1>3. dev' = [dev EXCEPT ![l] = e] /\ tohost' = [tohost EXCEPT ![l] = Append(tohost[l], c)]
  BY DEF Verified, HandshakeInv, HandshakeTypeOK
<1> HIDE DEF e, c
<1>4. Append(tohost[l], c) \in Seq(Packets)
  BY <1>0, <1>2
<1> QED BY <1>1, <1>2, <1>3, <1>4

\* usb_disconnected, if it was for this transport.
LEMMA OfflineFacts ==
    ASSUME HandshakeInv, NEW l \in Links, HandleOffline(l)
    PROVE /\ auth' \in AuthType /\ AuthKept
          /\ auth'.usb_transport \in {auth.usb_transport, NoLink} /\ auth'.usb_transport # l
          /\ auth'.needs_retry => auth'.usb_transport # NoLink
<1>1. /\ auth \in AuthType /\ l # NoLink /\ (auth.needs_retry => auth.usb_transport # NoLink)
      /\ AcceptedExact(auth.replies, auth.accepted)
  BY LinkTypes
<1>2. CASE auth.usb_transport = l
  <2>1. auth' = [auth EXCEPT !.usb_transport = NoLink, !.needs_retry = FALSE]
    BY <1>2 DEF HandleOffline
  <2>2. AuthKept
    BY <1>1, <2>1 DEF AuthType, AuthKept
  <2> QED BY <1>1, <2>1, <2>2 DEF AuthType
<1>3. CASE auth.usb_transport # l
  <2>1. auth' = auth
    BY <1>3 DEF HandleOffline
  <2> QED BY <1>1, <1>3, <2>1 DEF AuthKept
<1> QED BY <1>2, <1>3

\* A_CNXN: the transport that was in the framework's hands is forgotten, unless
\* it was offline, and then it was not.
LEMMA DevCnxnInv ==
    ASSUME HandshakeInv, NEW l \in Links, DevPacket(l), todev[l][1].cmd = "CNXN", DevCnxn(l, todev[l][1])
    PROVE HandshakeInv'
<1> DEFINE p == todev[l][1]
           d == [dev[l] EXCEPT !.state = ParseBanner(p.banner), !.online = FALSE,
                         !.asked = FALSE, !.grant = 0]
<1>0. /\ todev[l] # <<>> /\ todev' = [todev EXCEPT ![l] = Tail(@)] /\ host' = host /\ trusted' = trusted
  BY DEF DevPacket, DevCnxn
<1>1. d \in DevType /\ d.state # "offline" /\ d.online = FALSE /\ d.asked = FALSE
  <2>1. dev[l] \in DevType /\ ParseBanner(p.banner) \in States \ {"offline"}
    BY LinkTypes DEF ParseBanner, States
  <2> QED BY <2>1 DEF DevType
<1>2. /\ auth' \in AuthType /\ AuthKept
      /\ auth'.usb_transport \in {auth.usb_transport, NoLink} /\ auth'.usb_transport # l
      /\ auth'.needs_retry => auth'.usb_transport # NoLink
  <2>1. CASE dev[l].state # "offline"
    BY <2>1, OfflineFacts DEF DevCnxn
  <2>2. CASE dev[l].state = "offline"
    BY <2>2, LinkTypes DEF DevCnxn, AuthKept
  <2> QED BY <2>1, <2>2
<1>3. \E e \in DevType, r \in Seq(Packets) :
         /\ dev' = [dev EXCEPT ![l] = e] /\ tohost' = [tohost EXCEPT ![l] = r]
         /\ e.state # "offline" /\ e.asked = FALSE /\ (auth.auth_enabled => e.online = FALSE)
         /\ r = tohost[l] \/ \E x \in Packets : r = Append(tohost[l], x)
  <2>1. IF auth.auth_enabled THEN SendAuthRequest(l, d) ELSE Verified(l, d, 0)
    BY DEF DevCnxn
  <2> HIDE DEF d
  <2>2. CASE auth.auth_enabled
    BY <2>1, <2>2, <1>1, AuthRequested
  <2>3. CASE ~auth.auth_enabled
    <3> PICK e \in DevType, r \in Seq(Packets) :
                /\ dev' = [dev EXCEPT ![l] = e] /\ tohost' = [tohost EXCEPT ![l] = r]
                /\ e.state = d.state /\ e.asked = d.asked
                /\ \E x \in Packets : r = Append(tohost[l], x)
      BY <2>1, <2>3, <1>1, VerifiedFacts
    <3> QED BY <2>3, <1>1
  <2> QED BY <2>2, <2>3
<1> HIDE DEF d, p
<1> QED BY <1>0, <1>2, <1>3, DevHandles

\* A_AUTH with a signature: it is by a key of the host.
LEMMA DevSignatureInv ==
    ASSUME HandshakeInv, NEW l \in Links, DevPacket(l), todev[l][1].cmd = "SIGNATURE",
           DevSignature(l, todev[l][1])
    PROVE HandshakeInv'
<1> DEFINE p == todev[l][1]
<1>0. /\ todev[l] # <<>> /\ todev' = [todev EXCEPT ![l] = Tail(@)] /\ host' = host /\ trusted' = trusted
      /\ auth' = auth
  BY DEF DevPacket, DevSignature
<1>1. /\ auth' \in AuthType /\ dev[l] \in DevType /\ todev[l] \in Seq(Packets) /\ tohost[l] \in Seq(Packets)
      /\ auth'.needs_retry => auth'.usb_transport # NoLink
      /\ auth'.usb_transport = l => dev[l].asked
      /\ dev[l].asked => dev[l].state # "offline"
      /\ dev[l].online /\ auth.auth_enabled => Earned(l, dev[l])
      /\ QueuesExact(todev[l], tohost[l], dev[l].state, l) /\ AuthKept
  BY <1>0, LinkTypes DEF AuthKept
<1>2. Verify(l, p) => p.key \in trusted /\ \E k \in 1..Len(KeyList[l]) : p.key = KeyList[l][k]
  <2>1. 1 \in 1..Len(todev[l])
    BY <1>0, <1>1
  <2>2. \E k \in 1..Len(KeyList[l]) : p.key = KeyList[l][k]
    BY <1>1, <2>1 DEF QueuesExact
  <2> QED BY <2>2 DEF Verify
<1>4. dev[l].state # "offline"
  <2>1. 1 \in 1..Len(todev[l]) /\ ~ \E j \in 1..Len(todev[l]) : j < 1
    BY <1>0, <1>1
  <2> QED BY <1>1, <2>1 DEF QueuesExact
<1>3. \E e \in DevType, r \in Seq(Packets) :
         /\ dev' = [dev EXCEPT ![l] = e] /\ tohost' = [tohost EXCEPT ![l] = r]
         /\ e.state = dev[l].state /\ e.asked = dev[l].asked
         /\ e.online /\ auth.auth_enabled => Earned(l, e)
         /\ r = tohost[l] \/ \E x \in Packets : r = Append(tohost[l], x)
  <2>1. CASE Verify(l, p) /\ Verified(l, dev[l], p.key)
    <3>0. p \in Packets
      BY <1>0, <1>1
    <3>1. p.key \in Keys \cup {0}
      BY <3>0 DEF Packets
    <3> HIDE DEF p
    <3>3. HandshakeInv /\ l \in Links /\ dev[l] \in DevType /\ Verified(l, dev[l], p.key)
      BY <1>1, <2>1
    <3> PICK e \in DevType, r \in Seq(Packets) :
                /\ dev' = [dev EXCEPT ![l] = e] /\ tohost' = [tohost EXCEPT ![l] = r]
                /\ e.state = dev[l].state /\ e.asked = dev[l].asked /\ e.grant = p.key
                /\ \E x \in Packets : r = Append(tohost[l], x)
      BY ONLY <3>1, <3>3, VerifiedFacts, SMTT(30)
    <3>2. Earned(l, e)
      BY <2>1, <1>2 DEF Earned
    <3> QED BY <3>2, Zenon
  <2>2. CASE SendAuthRequest(l, dev[l])
    <3> PICK e \in DevType, r \in Seq(Packets) :
                /\ dev' = [dev EXCEPT ![l] = e] /\ tohost' = [tohost EXCEPT ![l] = r]
                /\ e.state = dev[l].state /\ e.online = dev[l].online /\ e.asked = dev[l].asked
                /\ e.grant = dev[l].grant
                /\ r = tohost[l] \/ \E x \in Packets : r = Append(tohost[l], x)
      BY <2>2, <1>1, AuthRequested
    <3>1. e.online /\ auth.auth_enabled => Earned(l, e)
      BY <1>1 DEF Earned
    <3> QED BY <3>1
  <2> QED BY <2>1, <2>2 DEF DevSignature
<1>5. todev[l][1].cmd # "CNXN"
  OBVIOUS
<1> HIDE DEF p
<1> QED BY <1>0, <1>1, <1>3, <1>4, <1>5, DevHandles

\* A_AUTH with a public key: the transport is the one to be asked about, unless
\* another is.
LEMMA DevPublicKeyInv ==
    ASSUME HandshakeInv, NEW l \in Links, DevPacket(l), todev[l][1].cmd = "RSAPUBLICKEY",
           DevPublicKey(l, todev[l][1])
    PROVE HandshakeInv'
<1> DEFINE p == todev[l][1]
           d == [dev[l] EXCEPT !.asked = TRUE]
           a == [auth EXCEPT !.usb_transport = IF @ = NoLink THEN l ELSE @]
<1>0. /\ todev[l] # <<>> /\ todev' = [todev EXCEPT ![l] = Tail(@)] /\ host' = host /\ trusted' = trusted
      /\ dev' = [dev EXCEPT ![l] = d] /\ tohost' = [tohost EXCEPT ![l] = tohost[l]]
  BY DEF DevPacket, DevPublicKey, HandshakeInv, HandshakeTypeOK
<1>1. /\ auth \in AuthType /\ dev[l] \in DevType /\ todev[l] \in Seq(Packets) /\ tohost[l] \in Seq(Packets)
      /\ QueuesExact(todev[l], tohost[l], dev[l].state, l) /\ l # NoLink
      /\ AcceptedExact(auth.replies, auth.accepted)
      /\ dev[l].online /\ auth.auth_enabled => Earned(l, dev[l])
  BY LinkTypes
<1>2. dev[l].state # "offline" /\ p \in Packets
  <2>1. 1 \in 1..Len(todev[l]) /\ ~ \E j \in 1..Len(todev[l]) : j < 1
    BY <1>0, <1>1
  <2> QED BY <1>1, <2>1 DEF QueuesExact
<1>3. d \in DevType /\ d.state = dev[l].state /\ d.asked /\ d.online = dev[l].online /\ d.grant = dev[l].grant
  BY <1>1 DEF DevType
<1>8. d.online /\ auth.auth_enabled => Earned(l, d)
  <2> HIDE DEF d
  <2> QED BY <1>1, <1>3 DEF Earned
<1>4. /\ a \in AuthType /\ a.auth_enabled = auth.auth_enabled /\ a.usb_transport # NoLink
      /\ a.usb_transport \in {auth.usb_transport, l}
      /\ a.accepted = auth.accepted /\ a.replies = auth.replies
  BY <1>1 DEF AuthType
<1>5. /\ auth' \in AuthType /\ auth'.auth_enabled = a.auth_enabled
      /\ auth'.usb_transport = a.usb_transport
      /\ auth'.accepted = a.accepted /\ auth'.replies = a.replies
  <2>0. auth' = CASE a.framework_fd = "none" -> [a EXCEPT !.needs_retry = TRUE]
                  [] a.framework_fd = "dead" -> a
                  [] OTHER -> [a EXCEPT !.questions = Append(@, p.key), !.watched = TRUE]
    BY DEF DevPublicKey
  <2>1. p.key \in Keys \cup {0}
    BY <1>2 DEF Packets
  <2> HIDE DEF a, p
  <2>2. Append(a.questions, p.key) \in Seq(Keys \cup {0})
    <3>1. a.questions \in Seq(Keys \cup {0})
      BY <1>4 DEF AuthType
    <3> QED BY <2>1, <3>1
  <2>3. CASE a.framework_fd = "none"
    <3>1. auth' = [a EXCEPT !.needs_retry = TRUE]
      BY <2>0, <2>3
    <3> QED BY <3>1, <1>4 DEF AuthType
  <2>4. CASE a.framework_fd = "dead"
    <3>1. auth' = a
      BY <2>0, <2>4
    <3> QED BY <3>1, <1>4
  <2>5. CASE a.framework_fd \notin {"none", "dead"}
    <3>1. auth' = [a EXCEPT !.questions = Append(@, p.key), !.watched = TRUE]
      BY <2>0, <2>5
    <3> QED BY <3>1, <1>4, <2>2 DEF AuthType
  <2> QED BY <2>3, <2>4, <2>5
<1>6. /\ AuthKept /\ auth'.usb_transport # NoLink
      /\ auth'.usb_transport \in {auth.usb_transport, l, NoLink}
  BY <1>1, <1>4, <1>5 DEF AuthKept
<1>7. todev[l][1].cmd # "CNXN"
  OBVIOUS
<1> HIDE DEF d, a, p
<1> QED BY <1>0, <1>1, <1>2, <1>3, <1>5, <1>6, <1>7, <1>8, DevHandles

\* A_SYNC: the transport is offline and nobody's business.
LEMMA DevOfflineInv ==
    ASSUME HandshakeInv, NEW l \in Links, DevPacket(l), todev[l][1].cmd = "SYNC", DevOffline(l)
    PROVE HandshakeInv'
<1>0. /\ todev[l] # <<>> /\ todev' = [todev EXCEPT ![l] = Tail(@)] /\ host' = host /\ trusted' = trusted
      /\ dev' = [dev EXCEPT ![l] = NewDev] /\ tohost' = [tohost EXCEPT ![l] = tohost[l]]
  BY DEF DevPacket, DevOffline, HandshakeInv, HandshakeTypeOK
<1>1. NewDev \in DevType /\ ~NewDev.asked /\ ~NewDev.online
  BY DEF NewDev, DevType, States
<1>2. tohost[l] \in Seq(Packets) /\ todev[l][1].cmd # "CNXN"
  BY LinkTypes
<1>3. HandleOffline(l)
  BY DEF DevOffline
<1> QED BY <1>0, <1>1, <1>2, <1>3, OfflineFacts, DevHandles

\* Any packet at the device.
LEMMA DevPacketInv ==
    ASSUME HandshakeInv, NEW l \in Links, DevPacket(l)
    PROVE HandshakeInv'
<1>1. todev[l] \in Seq(Packets) /\ todev[l] # <<>>
  BY LinkTypes DEF DevPacket
<1>2. Head(todev[l]) = todev[l][1]
  BY <1>1
<1> QED BY <1>2, DevCnxnInv, DevSignatureInv, DevPublicKeyInv, DevOfflineInv DEF DevPacket

\* A packet to the host of a transport that has asked, sent by the framework's
\* answer or its arrival.
LEMMA AskedSends ==
    ASSUME HandshakeInv, auth.usb_transport # NoLink,
           NEW d \in DevType, NEW p \in Packets,
           d.state = dev[auth.usb_transport].state, d.asked,
           dev' = [dev EXCEPT ![auth.usb_transport] = d],
           tohost' = [tohost EXCEPT ![auth.usb_transport] = Append(@, p)],
           UNCHANGED <<host, todev, trusted>>,
           auth' \in AuthType, AuthKept,
           auth'.usb_transport = auth.usb_transport,
           d.online /\ auth.auth_enabled => Earned(auth.usb_transport, d)
    PROVE HandshakeInv'
<1> PICK l \in Links : l = auth.usb_transport
  BY DEF HandshakeInv, HandshakeTypeOK, AuthType
<1>1. /\ dev' = [dev EXCEPT ![l] = d] /\ tohost' = [tohost EXCEPT ![l] = Append(tohost[l], p)]
      /\ todev' = [todev EXCEPT ![l] = todev[l]] /\ host' = [host EXCEPT ![l] = host[l]]
  BY DEF HandshakeInv, HandshakeTypeOK
<1>2. /\ dev[l].asked /\ d.state = dev[l].state /\ d.state # "offline"
      /\ host[l] \in HostType /\ host[l].key <= Len(KeyList[l])
      /\ todev[l] \in Seq(Packets) /\ tohost[l] \in Seq(Packets)
      /\ QueuesExact(todev[l], tohost[l], d.state, l)
  BY LinkTypes
<1>3. /\ Append(tohost[l], p) \in Seq(Packets)
      /\ QueuesExact(todev[l], Append(tohost[l], p), d.state, l)
  BY <1>2, HostIsSent DEF Ready
<1>4. /\ auth'.usb_transport \in {auth.usb_transport, l, NoLink} /\ auth'.usb_transport # NoLink
      /\ trusted' = trusted
  OBVIOUS
<1>5. /\ auth'.needs_retry => auth'.usb_transport # NoLink
      /\ auth'.usb_transport = l => d.asked
      /\ d.asked => d.state # "offline"
      /\ d.online /\ auth.auth_enabled => Earned(l, d)
  BY <1>2
<1> DEFINE r == Append(tohost[l], p)
<1> HIDE DEF r
<1>6. r \in Seq(Packets) /\ tohost' = [tohost EXCEPT ![l] = r] /\ QueuesExact(todev[l], r, d.state, l)
  BY <1>1, <1>3 DEF r
<1>7. /\ HandshakeInv /\ l \in Links /\ d \in DevType /\ auth' \in AuthType
      /\ AuthKept
  OBVIOUS
<1> QED BY ONLY <1>1, <1>2, <1>4, <1>5, <1>6, <1>7, LinkStep

\* Neither the links nor the choice of a transport change.
LEMMA AuthOnly ==
    ASSUME HandshakeInv, UNCHANGED <<host, dev, tohost, todev, trusted>>, auth' \in AuthType,
           AuthKept, auth'.usb_transport = auth.usb_transport,
           auth'.needs_retry => auth.needs_retry
    PROVE HandshakeInv'
<1>1. HandshakeTypeOK'
  BY DEF HandshakeInv, HandshakeTypeOK
<1>2. AskedFirst' /\ OnlineIsEarned'
  BY DEF HandshakeInv, AskedFirst, OnlineIsEarned, Earned, AuthKept
<1>3. AcceptedExact(auth.replies, auth.accepted)'
  BY DEF AuthKept, AcceptedExact
<1> QED BY <1>1, <1>2, <1>3 DEF HandshakeInv, QueuesExact

\* The framework connects.
LEMMA ListenerInv ==
    ASSUME HandshakeInv, AuthListener
    PROVE HandshakeInv'
<1> DEFINE l == auth.usb_transport
<1>0. /\ auth \in AuthType /\ (auth.needs_retry => auth.usb_transport # NoLink)
      /\ AcceptedExact(auth.replies, auth.accepted)
  BY DEF HandshakeInv, HandshakeTypeOK, AskedFirst
<1>1. auth' = [auth EXCEPT !.framework_fd = "open", !.needs_retry = FALSE, !.watched = FALSE]
  BY DEF AuthListener
<1>2. /\ auth' \in AuthType /\ AuthKept
      /\ auth'.usb_transport = auth.usb_transport /\ ~auth'.needs_retry
  BY <1>0, <1>1 DEF AuthType, AuthKept
<1>3. UNCHANGED <<host, todev, trusted>>
  BY DEF AuthListener
<1>4. CASE UNCHANGED <<dev, tohost>>
  BY <1>2, <1>3, <1>4, AuthOnly
<1>5. CASE /\ auth.needs_retry /\ Unused(l) # {}
           /\ dev' = [dev EXCEPT ![l].token = Fresh(l)]
           /\ tohost' = [tohost EXCEPT ![l] = Append(@, TOKEN(Fresh(l)))]
  <2> DEFINE f == Fresh(l)
             d == [dev[l] EXCEPT !.token = f]
  <2>1. f \in Tokens
    BY <1>5 DEF Fresh, Unused
  <2>2. l \in Links /\ dev[l].asked /\ dev[l] \in DevType
    BY <1>0, <1>5 DEF HandshakeInv, HandshakeTypeOK, AuthType, AskedFirst
  <2>3. dev' = [dev EXCEPT ![l] = d]
    BY <1>5, <2>2 DEF HandshakeInv, HandshakeTypeOK
  <2> HIDE DEF f
  <2>4. /\ d \in DevType /\ d.state = dev[l].state /\ d.asked = dev[l].asked
        /\ d.online = dev[l].online /\ d.grant = dev[l].grant
    BY <2>1, <2>2 DEF DevType
  <2>5. TOKEN(f) \in Packets
    BY <2>1 DEF TOKEN, Packets
  <2>6. tohost' = [tohost EXCEPT ![l] = Append(@, TOKEN(f))]
    BY <1>5 DEF f
  <2> HIDE DEF d
  <2>7. d.online /\ auth.auth_enabled => Earned(l, d)
    BY <2>2, <2>4, LinkTypes DEF Earned
  <2> QED BY <1>0, <1>2, <1>3, <1>5, <2>2, <2>3, <2>4, <2>5, <2>6, <2>7, AskedSends
<1> QED BY <1>4, <1>5 DEF AuthListener

\* The framework answers.
LEMMA EventInv ==
    ASSUME HandshakeInv, AuthEvent
    PROVE HandshakeInv'
<1> DEFINE l == auth.usb_transport
           w == Head(auth.replies)
<1>0. /\ auth \in AuthType /\ auth.replies \in Seq(Replies) /\ auth.replies # <<>>
      /\ AcceptedExact(auth.replies, auth.accepted)
  BY DEF HandshakeInv, HandshakeTypeOK, AuthEvent, AuthType
<1>1. /\ Tail(auth.replies) \in Seq(Replies) /\ AcceptedExact(Tail(auth.replies), auth.accepted)
      /\ w \in Replies /\ (w.text = "OK" => w.key \in auth.accepted)
  BY <1>0 DEF AcceptedExact
<1>2. auth' = [auth EXCEPT !.replies = Tail(@)]
  BY DEF AuthEvent
<1>3. /\ auth' \in AuthType /\ AuthKept
      /\ auth'.usb_transport = auth.usb_transport /\ auth'.needs_retry = auth.needs_retry
  BY <1>0, <1>1, <1>2 DEF AuthType, AuthKept
<1>4. UNCHANGED <<host, todev, trusted>>
  BY DEF AuthEvent
<1>5. CASE UNCHANGED <<dev, tohost>>
  BY <1>3, <1>4, <1>5, AuthOnly
<1>6. CASE w.text = "OK" /\ l # NoLink /\ Verified(l, dev[l], w.key)
  <2> HIDE DEF w
  <2> DEFINE d == [dev[l] EXCEPT !.online = TRUE, !.grant = w.key]
             c == CNXN("device")
  <2>1. l \in Links /\ dev[l].asked /\ dev[l] \in DevType /\ w.key \in Keys \cup {0}
    BY <1>0, <1>1, <1>6 DEF HandshakeInv, HandshakeTypeOK, AuthType, AskedFirst, Replies
  <2>2. d \in DevType /\ d.state = dev[l].state /\ d.asked = dev[l].asked /\ d.grant = w.key
    BY <2>1 DEF DevType
  <2>3. c \in Packets
    BY DEF CNXN, Packets
  <2>4. dev' = [dev EXCEPT ![l] = d] /\ tohost' = [tohost EXCEPT ![l] = Append(@, c)]
    BY <1>6 DEF Verified
  <2> HIDE DEF d, c
  <2>5. Earned(l, d)
    BY <1>1, <1>6, <2>1, <2>2 DEF Earned
  <2> QED BY <1>3, <1>4, <1>6, <2>1, <2>2, <2>3, <2>4, <2>5, AskedSends
<1> QED BY <1>5, <1>6 DEF AuthEvent

\* At first there is a CNXN on its way to the device, and nothing else.
LEMMA HandshakeInitInv == HandshakeInit => HandshakeInv
<1> SUFFICES ASSUME HandshakeInit PROVE HandshakeInv
  OBVIOUS
<1> DEFINE c == CNXN("host")
<1>0. c \in Packets /\ c.cmd = "CNXN"
  BY DEF CNXN, Packets
<1>1. /\ host = [l \in Links |-> NewHost] /\ dev = [l \in Links |-> NewDev]
      /\ tohost = [l \in Links |-> <<>>] /\ todev = [l \in Links |-> <<c>>]
  BY DEF HandshakeInit
<1> HIDE DEF c
<1>2. PICK b \in BOOLEAN :
         auth = [auth_enabled |-> b, usb_transport |-> NoLink, needs_retry |-> FALSE,
                 framework_fd |-> "none", questions |-> <<>>, replies |-> <<>>, watched |-> FALSE,
                 accepted |-> {}]
  BY DEF HandshakeInit
<1>3. /\ auth \in AuthType /\ auth.usb_transport = NoLink /\ ~auth.needs_retry
      /\ AcceptedExact(auth.replies, auth.accepted)
  <2>1. <<>> \in Seq(Keys \cup {0}) /\ <<>> \in Seq(Replies) /\ {} \in SUBSET (Keys \cup {0})
    OBVIOUS
  <2>2. AcceptedExact(<<>>, {})
    BY DEF AcceptedExact
  <2> QED BY <1>2, <2>1, <2>2 DEF AuthType
<1>4. /\ NewHost \in HostType /\ NewHost.key = 0
      /\ NewDev \in DevType /\ ~NewDev.asked /\ ~NewDev.online
  BY DEF NewHost, NewDev, HostType, DevType, States
<1>5. HandshakeTypeOK
  BY <1>0, <1>1, <1>3, <1>4, KeyAssumption DEF HandshakeTypeOK
<1>6. AskedFirst /\ OnlineIsEarned
  BY <1>1, <1>3, <1>4 DEF AskedFirst, OnlineIsEarned
<1>7. \A l \in Links : QueuesExact(todev[l], tohost[l], dev[l].state, l)
  BY <1>0, <1>1 DEF QueuesExact
<1> QED BY <1>1, <1>3, <1>4, <1>5, <1>6, <1>7 DEF HandshakeInv

\* The inductive invariant holds throughout.
THEOREM HandshakeInvariance == HandshakeSpec => []HandshakeInv
<1>1. HandshakeInv /\ [HandshakeNext]_handshake_vars => HandshakeInv'
  <2> SUFFICES ASSUME HandshakeInv, [HandshakeNext]_handshake_vars PROVE HandshakeInv'
    OBVIOUS
  <2>1. ASSUME NEW l \in Links, HostPacket(l) PROVE HandshakeInv'
    BY <2>1, HostPacketInv
  <2>2. ASSUME NEW l \in Links, DevPacket(l) PROVE HandshakeInv'
    BY <2>2, DevPacketInv
  <2>3. ASSUME NEW l \in Links, Restart(l) \/ Replug(l) PROVE HandshakeInv'
    BY <2>3, LinkLostInv
  <2>4. CASE AuthListener
    BY <2>4, ListenerInv
  <2>5. CASE AuthEvent
    BY <2>5, EventInv
  <2>6. CASE UserAnswers \/ FrameworkDies
    BY <2>6, FrameworkInv
  <2>7. CASE UNCHANGED handshake_vars
    <3>1. UNCHANGED <<host, dev, tohost, todev, trusted, auth>>
      BY <2>7 DEF handshake_vars
    <3>2. AuthKept
      BY <3>1 DEF AuthKept, HandshakeInv
    <3> QED BY <3>1, <3>2, AuthOnly DEF HandshakeInv, HandshakeTypeOK
  <2> QED BY <2>1, <2>2, <2>3, <2>4, <2>5, <2>6, <2>7 DEF HandshakeNext
<1> QED BY HandshakeInitInv, <1>1, PTL DEF HandshakeSpec

\* A reply of the framework is only taken for a transport that offered its key
\* since it last connected.
THEOREM ReplyIsAskedFor == HandshakeSpec => []AskedFirst
<1>1. HandshakeInv => AskedFirst
  BY DEF HandshakeInv
<1> QED BY HandshakeInvariance, <1>1, PTL

\* With authentication on, adb_auth_verified has been called for a transport only
\* by a signature of its own host with an installed key, or by an "OK" that the
\* user gave to a key, at a time when this host had offered its own since CNXN.
THEOREM OnlineEarned == HandshakeSpec => []OnlineIsEarned
<1>1. HandshakeInv => OnlineIsEarned
  BY DEF HandshakeInv
<1> QED BY HandshakeInvariance, <1>1, PTL
=============================================================================
