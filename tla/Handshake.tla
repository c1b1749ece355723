----------------------------- MODULE Handshake -----------------------------
(***************************************************************************)
(* How the two ends of a transport come online: CNXN and AUTH packets      *)
(* (handle_packet in adb.cpp), the host's private keys tried one by one    *)
(* (adb_auth_host.cpp), and the device's question to its user through the  *)
(* framework (adb_auth_client.c).                                          *)
(*                                                                         *)
(* Each link joins the device to a host of its own.  Each end handles its  *)
(* packets in one thread.  A server may be restarted, which the device does *)
(* not notice: what was under way on a USB link still arrives.             *)
(***************************************************************************)
EXTENDS Integers, Sequences, FiniteSets, SequencesExt

CONSTANTS Links,        \* the transports of the device
          Keys,         \* RSA key pairs
          KeyList,      \* KeyList[l]: key_list of the host of l, user key first
          Installed,    \* keys in the device's adb_keys files at the start
          Tokens,       \* random tokens
          MaxRestarts,  \* bound: restarts of servers and unplugged links
          MaxFrameworks,\* bound: times the framework connects
          MaxFails,     \* bound: packets that cannot be made
          NoLink

ASSUME KeyAssumption == /\ KeyList \in [Links -> Seq(Keys)]
                        /\ \A l \in Links : Len(KeyList[l]) > 0
                        /\ Installed \subseteq Keys
ASSUME LinkAssumption == NoLink \notin Links
ASSUME HandshakeBounds == /\ MaxRestarts \in Nat /\ MaxFrameworks \in Nat /\ MaxFails \in Nat
                          /\ Tokens \subseteq Nat \ {0}

VARIABLES host,    \* host[l]: connection_state, online and key (its place, 0 is NULL)
          dev,     \* dev[l]: connection_state, online and token of the device's end
          tohost,  \* packets on their way to the host of each link
          todev,   \* and to the device
          trusted, \* keys in adb_keys
          auth,    \* the static variables of adb_auth_client.c, what is under way to
                   \* and from the framework, and the keys its user has accepted
          bounds   \* what the bounds count

handshake_vars == <<host, dev, tohost, todev, trusted, auth, bounds>>

-----------------------------------------------------------------------------
CNXN(banner)    == [cmd |-> "CNXN", banner |-> banner, token |-> 0, key |-> 0]
TOKEN(t)        == [cmd |-> "TOKEN", banner |-> "", token |-> t, key |-> 0]
SIGNATURE(k, t) == [cmd |-> "SIGNATURE", banner |-> "", token |-> t, key |-> k]
PUBLICKEY(k)    == [cmd |-> "RSAPUBLICKEY", banner |-> "", token |-> 0, key |-> k]
OFFLINE         == [cmd |-> "SYNC", banner |-> "", token |-> 0, key |-> 0]

\* parse_banner: only these names are states of a device.
ParseBanner(type) ==
    IF type \in {"bootloader", "device", "recovery", "sideload"} THEN type ELSE "host"

NewHost == [state |-> "offline", online |-> FALSE, key |-> 0]
\* Not in the code: asked says that a public key came since the last CNXN, grant
\* is the key on whose account the device went online.
NewDev  == [state |-> "offline", online |-> FALSE, token |-> 0, asked |-> FALSE, grant |-> 0]

HandshakeInit ==
    /\ host = [l \in Links |-> NewHost]
    /\ dev = [l \in Links |-> NewDev]
    /\ tohost = [l \in Links |-> <<>>]
    /\ todev = [l \in Links |-> <<CNXN("host")>>]    \* the host's SYNC(1, token)
    /\ trusted = Installed
    /\ auth \in {[auth_enabled |-> b, usb_transport |-> NoLink, needs_retry |-> FALSE,
                  framework_fd |-> "none", questions |-> <<>>, replies |-> <<>>,
                  watched |-> FALSE, accepted |-> {}] : b \in BOOLEAN}
    /\ bounds = [restarts |-> 0, frameworks |-> 0, fails |-> 0]

May(what, max) == bounds[what] < max /\ bounds' = [bounds EXCEPT ![what] = @ + 1]

-----------------------------------------------------------------------------
(* The host                                                                *)

HostCnxn(l, p) ==
    /\ host' = [host EXCEPT ![l].state = ParseBanner(p.banner), ![l].online = TRUE]
    /\ UNCHANGED <<todev, bounds>>

\* Mutant: the last key is tried again and again.
NextKeyStuck(l) == IF host[l].key = Len(KeyList[l]) THEN host[l].key ELSE host[l].key + 1

\* adb_auth_nextkey: 0, the public key's turn, comes after the last key.
NextKey(l) == IF host[l].key = Len(KeyList[l]) THEN 0 ELSE host[l].key + 1

\* send_auth_response signs with the new key; send_auth_publickey sends the
\* user's.  Either may find that it cannot, and then nothing is sent.
HostToken(l, p) ==
    LET k == NextKey(l) IN
    /\ host' = [host EXCEPT ![l].state = "unauthorized", ![l].key = k]
    /\ \/ /\ todev' = [todev EXCEPT ![l] = Append(@,
                          IF k # 0 THEN SIGNATURE(KeyList[l][k], p.token)
                                   ELSE PUBLICKEY(KeyList[l][1]))]
          /\ UNCHANGED bounds
       \/ May("fails", MaxFails) /\ UNCHANGED todev

HostOffline(l) ==
    /\ host' = [host EXCEPT ![l] = NewHost]
    /\ UNCHANGED <<todev, bounds>>

HostPacket(l) ==
    /\ tohost[l] # <<>>
    /\ tohost' = [tohost EXCEPT ![l] = Tail(@)]
    /\ LET p == Head(tohost[l]) IN
       \/ p.cmd = "CNXN" /\ HostCnxn(l, p)
       \/ p.cmd = "TOKEN" /\ HostToken(l, p)
       \/ p.cmd = "SYNC" /\ HostOffline(l)
    /\ UNCHANGED <<dev, trusted, auth>>

-----------------------------------------------------------------------------
(* The device                                                              *)

\* Tokens are random: a new one is none of those still in use on the link.
Unused(l) == {t \in Tokens :
               /\ t # dev[l].token
               /\ \A i \in 1..Len(tohost[l]) : tohost[l][i].token # t
               /\ \A i \in 1..Len(todev[l]) : todev[l][i].token # t}
Fresh(l) == CHOOSE t \in Unused(l) : TRUE

\* send_auth_request on link l, whose state is now d.
SendAuthRequest(l, d) ==
    \/ /\ Unused(l) # {}
       /\ dev' = [dev EXCEPT ![l] = [d EXCEPT !.token = Fresh(l)]]
       /\ tohost' = [tohost EXCEPT ![l] = Append(@, TOKEN(Fresh(l)))]
       /\ UNCHANGED bounds
    \/ /\ May("fails", MaxFails)    \* no /dev/urandom
       /\ dev' = [dev EXCEPT ![l] = d]
       /\ UNCHANGED tohost

\* adb_auth_verified, on account of key k: handle_online and send_connect.
Verified(l, d, k) ==
    /\ dev' = [dev EXCEPT ![l] = [d EXCEPT !.online = TRUE, !.grant = k]]
    /\ tohost' = [tohost EXCEPT ![l] = Append(@, CNXN("device"))]
    /\ UNCHANGED bounds

\* Mutant: the end of a transport is not noticed.
HandleOfflineUnseen(l) == UNCHANGED auth

\* handle_offline: run_transport_disconnects calls usb_disconnected where
\* adb_auth_confirm_key asked for it.
HandleOffline(l) ==
    auth' = IF auth.usb_transport = l
            THEN [auth EXCEPT !.usb_transport = NoLink, !.needs_retry = FALSE] ELSE auth

DevCnxn(l, p) ==
    LET d == [dev[l] EXCEPT !.state = ParseBanner(p.banner), !.online = FALSE,
                             !.asked = FALSE, !.grant = 0] IN
    /\ IF dev[l].state # "offline" THEN HandleOffline(l) ELSE UNCHANGED auth
    /\ IF auth.auth_enabled THEN SendAuthRequest(l, d) ELSE Verified(l, d, 0)
    /\ UNCHANGED trusted

\* Mutant: any key will do.
VerifyAny(l, p) == p.token = dev[l].token

\* adb_auth_verify reads adb_keys each time.
Verify(l, p) == p.key \in trusted /\ p.token = dev[l].token

DevSignature(l, p) ==
    /\ IF Verify(l, p) THEN Verified(l, dev[l], p.key) ELSE SendAuthRequest(l, dev[l])
    /\ UNCHANGED <<auth, trusted>>

\* adb_auth_confirm_key: the first transport to ask is the one a reply is for.
\* A write to a framework that is gone fails, and the question is dropped.
DevPublicKey(l, p) ==
    LET a == [auth EXCEPT !.usb_transport = IF @ = NoLink THEN l ELSE @] IN
    /\ auth' = CASE a.framework_fd = "none" -> [a EXCEPT !.needs_retry = TRUE]
                 [] a.framework_fd = "dead" -> a
                 [] OTHER -> [a EXCEPT !.questions = Append(@, p.key), !.watched = TRUE]
    /\ dev' = [dev EXCEPT ![l].asked = TRUE]
    /\ UNCHANGED <<tohost, trusted, bounds>>

DevOffline(l) ==
    /\ dev' = [dev EXCEPT ![l] = NewDev]
    /\ HandleOffline(l)
    /\ UNCHANGED <<tohost, trusted, bounds>>

DevPacket(l) ==
    /\ todev[l] # <<>>
    /\ todev' = [todev EXCEPT ![l] = Tail(@)]
    /\ LET p == Head(todev[l]) IN
       \/ p.cmd = "CNXN" /\ DevCnxn(l, p)
       \/ p.cmd = "SIGNATURE" /\ DevSignature(l, p)
       \/ p.cmd = "RSAPUBLICKEY" /\ DevPublicKey(l, p)
       \/ p.cmd = "SYNC" /\ DevOffline(l)
    /\ UNCHANGED host

\* adb_auth_listener: the framework connects.  A question it missed is put by
\* way of a new token, which makes the host offer its keys again.
AuthListener ==
    /\ bounds.frameworks < MaxFrameworks
    /\ auth' = [auth EXCEPT !.framework_fd = "open", !.needs_retry = FALSE, !.watched = FALSE]
    /\ LET l == auth.usb_transport
           more == [bounds EXCEPT !.frameworks = @ + 1]
       IN
       \/ /\ ~auth.needs_retry
          /\ bounds' = more
          /\ UNCHANGED <<dev, tohost>>
       \/ /\ auth.needs_retry /\ Unused(l) # {}
          /\ dev' = [dev EXCEPT ![l].token = Fresh(l)]
          /\ tohost' = [tohost EXCEPT ![l] = Append(@, TOKEN(Fresh(l)))]
          /\ bounds' = more
       \/ /\ auth.needs_retry /\ bounds.fails < MaxFails
          /\ bounds' = [more EXCEPT !.fails = @ + 1]
          /\ UNCHANGED <<dev, tohost>>
    /\ UNCHANGED <<host, todev, trusted>>

\* adb_auth_event: "OK" is for usb_transport; anything else is ignored.  The two
\* bytes do not name the key they are about: it is in the model to tell.
AuthEvent ==
    /\ auth.replies # <<>>
    /\ auth' = [auth EXCEPT !.replies = Tail(@)]
    /\ IF Head(auth.replies).text = "OK" /\ auth.usb_transport # NoLink
       THEN Verified(auth.usb_transport, dev[auth.usb_transport], Head(auth.replies).key)
       ELSE UNCHANGED <<dev, tohost, bounds>>
    /\ UNCHANGED <<host, todev, trusted>>

-----------------------------------------------------------------------------
(* The framework, the user and the cable                                   *)

\* The user answers a question, and may have the key remembered.
UserAnswers ==
    /\ auth.questions # <<>>
    /\ \E reply \in {"OK", "NO"}, remember \in BOOLEAN :
          /\ remember => reply = "OK"
          /\ auth' = [auth EXCEPT !.questions = Tail(@),
                                  !.replies = Append(@, [text |-> reply, key |-> Head(auth.questions)]),
                                  !.accepted = IF reply = "OK" THEN @ \cup {Head(auth.questions)} ELSE @]
          /\ trusted' = IF remember THEN trusted \cup {Head(auth.questions)} ELSE trusted
    /\ UNCHANGED <<host, dev, tohost, todev, bounds>>

\* The framework dies.  adb_auth_event sees a read error if the fd is watched
\* and had something unread; the end of the file it takes for an empty reply.
FrameworkDies ==
    /\ auth.framework_fd = "open"
    /\ \E error \in BOOLEAN :
          /\ error => auth.watched
          /\ auth' = [auth EXCEPT !.framework_fd = IF error THEN "none" ELSE "dead",
                                  !.questions = <<>>, !.watched = FALSE]
    /\ UNCHANGED <<host, dev, tohost, todev, trusted, bounds>>

\* The server of a link is replaced by a new one.
Restart(l) ==
    /\ May("restarts", MaxRestarts)
    /\ host' = [host EXCEPT ![l] = NewHost]
    /\ todev' = [todev EXCEPT ![l] = Append(@, CNXN("host"))]
    /\ UNCHANGED <<dev, tohost, trusted, auth>>

\* The cable is pulled out and put back: both ends drop the transport, and
\* nothing under way arrives.
Replug(l) ==
    /\ May("restarts", MaxRestarts)
    /\ tohost' = [tohost EXCEPT ![l] = <<OFFLINE>>]
    /\ todev' = [todev EXCEPT ![l] = <<OFFLINE, CNXN("host")>>]
    /\ UNCHANGED <<host, dev, trusted, auth>>

-----------------------------------------------------------------------------
HandshakeNext ==
    \/ \E l \in Links : HostPacket(l) \/ DevPacket(l) \/ Restart(l) \/ Replug(l)
    \/ AuthListener \/ AuthEvent \/ UserAnswers \/ FrameworkDies

HandshakeSpec == HandshakeInit /\ [][HandshakeNext]_handshake_vars

-----------------------------------------------------------------------------
(* Properties                                                              *)

\* A reply of the framework is only ever taken for a transport that offered its
\* key since it last connected, whatever questions of earlier connections are
\* still with the user; and a question is only put again for such a transport.
AskedFirst ==
    /\ auth.usb_transport # NoLink => dev[auth.usb_transport].asked
    /\ auth.needs_retry => auth.usb_transport # NoLink

\* d went online by a signature that adb_auth_verify found to be by a key of the
\* host of l in adb_keys; or by an "OK" of the user, after its host offered a key.
Earned(l, d) ==
    \/ d.grant \in trusted /\ \E i \in 1..Len(KeyList[l]) : d.grant = KeyList[l][i]
    \/ d.asked /\ d.grant \in auth.accepted

\* With authentication on, a device's end is online only by a verified signature
\* of its own host or because the user accepted a key when this host had offered
\* its own: neither a host's offer, nor a question that is still with the user or
\* was answered NO, nor the grant of an earlier connection
\* puts a transport online.  The key accepted may be one that was asked about
\* for another transport, since "OK" does not say which question it answers.
OnlineIsEarned ==
    \A l \in Links : dev[l].online /\ auth.auth_enabled => Earned(l, dev[l])

States == {"offline", "unauthorized", "bootloader", "device", "recovery", "sideload", "host"}
Packets == [cmd : {"CNXN", "TOKEN", "SIGNATURE", "RSAPUBLICKEY", "SYNC"}, banner : {"host", "device", ""},
            token : Tokens \cup {0}, key : Keys \cup {0}]

Replies == [text : {"OK", "NO"}, key : Keys \cup {0}]

HostType == [state : States, online : BOOLEAN, key : Nat]
DevType == [state : States, online : BOOLEAN, token : Tokens \cup {0}, asked : BOOLEAN,
            grant : Keys \cup {0}]
AuthType == [auth_enabled : BOOLEAN, usb_transport : Links \cup {NoLink}, needs_retry : BOOLEAN,
             framework_fd : {"none", "open", "dead"}, questions : Seq(Keys \cup {0}),
             replies : Seq(Replies), watched : BOOLEAN, accepted : SUBSET (Keys \cup {0})]

HandshakeTypeOK ==
    /\ host \in [Links -> HostType] /\ dev \in [Links -> DevType] /\ auth \in AuthType
    /\ tohost \in [Links -> Seq(Packets)] /\ todev \in [Links -> Seq(Packets)]
    /\ \A l \in Links : host[l].key <= Len(KeyList[l])

\* What is under way on a link, in queue q to the device and r to the host: a
\* signature is by a key of the host; the end of a transport comes first and a
\* CNXN follows it; an answer, and the token that leads to one, come after a
\* CNXN, which is in q or has been handled.
QueuesExact(q, r, state, l) ==
    /\ \A i \in 1..Len(q) : q[i].cmd = "SIGNATURE" => \E k \in 1..Len(KeyList[l]) : q[i].key = KeyList[l][k]
    /\ \A i \in 1..Len(q) : q[i].cmd = "SYNC" => i = 1 /\ Len(q) > 1 /\ q[2].cmd = "CNXN"
    /\ \A i \in 1..Len(q) : q[i].cmd \in {"SIGNATURE", "RSAPUBLICKEY"} =>
          state # "offline" \/ \E j \in 1..Len(q) : j < i /\ q[j].cmd = "CNXN"
    /\ (\E i \in 1..Len(r) : r[i].cmd = "TOKEN") =>
          state # "offline" \/ \E j \in 1..Len(q) : q[j].cmd = "CNXN"

\* Every "OK" on its way from the framework is to a question about a key that the
\* user accepted.
AcceptedExact(replies, accepted) ==
    \A i \in 1..Len(replies) : replies[i].text = "OK" => replies[i].key \in accepted

\* The inductive invariant.  handle_packet only runs the disconnects of a
\* transport that is not offline, so one that has asked must not be.
HandshakeInv ==
    /\ HandshakeTypeOK /\ AskedFirst /\ OnlineIsEarned
    /\ \A l \in Links : QueuesExact(todev[l], tohost[l], dev[l].state, l)
    /\ \A l \in Links : dev[l].asked => dev[l].state # "offline"
    /\ AcceptedExact(auth.replies, auth.accepted)

\* A host with a key that the device has known from the start ends up online
\* with it, and does again after every restart, however many tokens and answers
\* of an earlier server are still under way, unless a packet could not be made.
Connects ==
    \A l \in Links :
       (\E i \in 1..Len(KeyList[l]) : KeyList[l][i] \in Installed) =>
          []<>(bounds.fails > 0 \/ (host[l].online /\ dev[l].online))
=============================================================================
