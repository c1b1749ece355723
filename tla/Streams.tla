------------------------------ MODULE Streams ------------------------------
(***************************************************************************)
(* The streams adb multiplexes over a transport: the local sockets of the  *)
(* two ends (sockets.cpp), the packets that join them (handle_packet in    *)
(* adb.cpp) and the loss of the transport under them.                      *)
(*                                                                         *)
(* Each end runs its sockets in one thread, so a handler is one step, with *)
(* one exception: close_all_sockets runs in input_thread, some time after  *)
(* the main thread took the transport offline.  A local socket that talks  *)
(* to the other end has exactly one remote asocket as its peer; the two    *)
(* are one record here, whose peer is the remote asocket's id or 0.        *)
(***************************************************************************)
EXTENDS Integers, Sequences, FiniteSets

CONSTANTS Host, Device,  \* the two ends; the host opens streams
          MaxSockets,    \* bound: local sockets created by an end
          MaxBytes,      \* bound: bytes a program writes to its socket
          Talkers,       \* the ends whose programs write
          Drained,       \* the ends whose event loop forgets no closing socket
          MaxHangups,    \* bound: programs that go away
          MaxPayload,    \* MAX_PAYLOAD
          MaxTransports  \* bound: connections made between the two ends

Ends == {Host, Device}
Other(e) == IF e = Host THEN Device ELSE Host
Ids == 1..MaxSockets
Transports == 1..MaxTransports

ASSUME BoundAssumption == MaxSockets \in Nat /\ MaxTransports \in Nat
                          /\ MaxBytes \in Nat /\ MaxHangups \in Nat
ASSUME PayloadAssumption == MaxPayload \in Nat \ {0}
ASSUME EndAssumption == Host # Device /\ Talkers \subseteq Ends /\ Drained \subseteq Ends

VARIABLES socks,   \* socks[e][i]: the local socket of end e that was given id i
          next_id, \* local_socket_next_id of each end
          chan,    \* chan[e][t]: packets on their way to the main thread of e
          online,  \* online[e][t]: t->online
          link,    \* the wire of each transport
          dying    \* dying[e][t]: input_thread has close_all_sockets to run

vars == <<socks, next_id, chan, online, link, dying>>

-----------------------------------------------------------------------------
(* Packets and sockets                                                     *)

OPEN(l)       == [cmd |-> "OPEN", arg0 |-> l, arg1 |-> 0, data |-> <<>>]
OKAY(l, r)    == [cmd |-> "OKAY", arg0 |-> l, arg1 |-> r, data |-> <<>>]
CLSE(l, r)    == [cmd |-> "CLSE", arg0 |-> l, arg1 |-> r, data |-> <<>>]
WRTE(l, r, d) == [cmd |-> "WRTE", arg0 |-> l, arg1 |-> r, data |-> d]
SYNC0         == [cmd |-> "SYNC", arg0 |-> 0, arg1 |-> 0, data |-> <<>>]

\* state is the list a socket is on; notify says ready and close are the
\* *_notify variants; sent and got are the bytes read from and written to its
\* fd, hup that the program on the fd has gone, status what it was told.
\* mate remembers the peer after the socket has lost it.
NoSocket == [state |-> "none", peer |-> 0, transport |-> 0, reading |-> FALSE,
             queue |-> <<>>, notify |-> FALSE, hup |-> FALSE,
             sent |-> 0, got |-> <<>>, status |-> "none", mate |-> 0]

\* Mutant: a closing socket is destroyed with what it has still to write.
ShutNow(s) == [s EXCEPT !.state = "gone", !.queue = <<>>, !.peer = 0, !.reading = FALSE]

\* local_socket_close_locked, without the CLSE its peer sends: a socket that
\* still has packets to write goes to the closing list, and any other, or one
\* that was there already, is destroyed.
Shut(s) ==
    LET gone == s.state = "closing" \/ s.queue = <<>>
    IN  [s EXCEPT !.state = IF gone THEN "gone" ELSE "closing",
                  !.queue = IF gone THEN <<>> ELSE @,
                  !.peer = 0, !.reading = FALSE]

\* Mutant: a CLSE is never sent.
ShutPacketsNever(i, s) == <<>>
ShutPackets(i, s) == IF s.peer = 0 THEN <<>> ELSE <<CLSE(i, s.peer)>>

\* s->close(s): local_socket_close or local_socket_close_notify.
Close(s) == IF s.notify THEN Shut([s EXCEPT !.notify = FALSE, !.status = "FAIL"])
                        ELSE Shut(s)

\* Mutant: the program is not told.
ReadyQuiet(s) == [s EXCEPT !.reading = TRUE, !.notify = FALSE]

\* s->ready(s): local_socket_ready or local_socket_ready_notify.
Ready(s) == [s EXCEPT !.reading = TRUE, !.notify = FALSE,
                      !.status = IF s.notify THEN "OKAY" ELSE @]

\* n bytes read from the fd were handed to the remote peer, whose enqueue always
\* returns 1: no more is read until the peer is ready.
ConsumeOn(s, n) == [s EXCEPT !.sent = @ + n]    \* mutant: reading goes on
Consume(s, n) == [s EXCEPT !.sent = @ + n, !.reading = (n = 0)]

\* n bytes of the first packet queued are written to the fd.
WriteOut(s, n) ==
    LET p == Head(s.queue) IN
    [s EXCEPT !.got = @ \o SubSeq(p, 1, n),
              !.queue = IF n = Len(p) THEN Tail(@) ELSE <<SubSeq(p, n + 1, Len(p))>> \o Tail(@)]

\* find_local_socket: a peer id of 0 matches every peer.
Found(e, local_id, peer_id) ==
    /\ local_id \in Ids
    /\ socks[e][local_id].state = "open"
    /\ peer_id = 0 \/ socks[e][local_id].peer = peer_id

\* What end e does to its socket i and sends on transport t in one step.
\* Packets put on a broken transport are discarded.
Update(e, i, s) == socks' = [socks EXCEPT ![e][i] = s]
Sent(e, t, pkts) == IF link[t] = "up" THEN [chan EXCEPT ![Other(e)][t] = @ \o pkts] ELSE chan
Send(e, t, pkts) == chan' = Sent(e, t, pkts)

-----------------------------------------------------------------------------
Init ==
    /\ socks = [e \in Ends |-> [i \in Ids |-> NoSocket]]
    /\ next_id = [e \in Ends |-> 1]
    /\ chan = [e \in Ends |-> [t \in Transports |-> <<>>]]
    /\ online = [e \in Ends |-> [t \in Transports |-> FALSE]]
    /\ link = [t \in Transports |-> "none"]
    /\ dying = [e \in Ends |-> [t \in Transports |-> FALSE]]

\* A program asks the host for a stream: smart_socket_enqueue rigs its socket
\* to report the outcome and connect_to_remote sends the OPEN.  When the read that
\* brought the request met the end of the file as well, the event function closes
\* the socket at once: it has no peer yet, so no CLSE follows the OPEN.
Hangups == Cardinality({k \in Ends \X Ids : socks[k[1]][k[2]].hup})

Connect(t) ==
    LET i == next_id[Host]
        s == [NoSocket EXCEPT !.state = "open", !.transport = t, !.notify = TRUE]
    IN
    /\ i \in Ids /\ online[Host][t]
    /\ next_id' = [next_id EXCEPT ![Host] = i + 1]
    /\ \E eof \in BOOLEAN :
          /\ eof => Hangups < MaxHangups
          /\ Update(Host, i, IF eof THEN Close([s EXCEPT !.hup = TRUE]) ELSE s)
    /\ Send(Host, t, <<OPEN(i)>>)
    /\ UNCHANGED <<online, link, dying>>

\* The program on the fd of a socket goes away.
Hangup(e, i) ==
    /\ socks[e][i].state \in {"open", "closing"} /\ ~socks[e][i].hup
    /\ Hangups < MaxHangups
    /\ Update(e, i, [socks[e][i] EXCEPT !.hup = TRUE])
    /\ UNCHANGED <<next_id, chan, online, link, dying>>

-----------------------------------------------------------------------------
(* local_socket_event_func                                                 *)

\* FDE_READ: n bytes, then the end of the file or not.
Readable(e, i) ==
    LET s == socks[e][i] IN
    /\ s.state = "open" /\ s.reading
    /\ \E n \in 0..MaxPayload, eof \in BOOLEAN :
          LET data == [k \in 1..n |-> s.sent + k]
              s1 == Consume(s, n)
          IN
          /\ n > 0 \/ eof
          /\ eof => s.hup
          /\ s.sent + n <= IF e \in Talkers THEN MaxBytes ELSE 0
          /\ Update(e, i, IF eof THEN Close(s1) ELSE s1)
          /\ Send(e, s.transport, (IF n > 0 THEN <<WRTE(i, s.peer, data)>> ELSE <<>>)
                                  \o (IF eof THEN ShutPackets(i, s1) ELSE <<>>))
    /\ UNCHANGED <<next_id, online, link, dying>>

\* FDE_WRITE: the packets queued are written in order until the fd takes no
\* more, or fails.
Writable(e, i) ==
    LET s == socks[e][i] IN
    /\ s.state \in {"open", "closing"} /\ s.queue # <<>>
    /\ \/ \E n \in 1..Len(Head(s.queue)) :
             LET s1 == WriteOut(s, n) IN
             IF s1.queue # <<>>
             THEN Update(e, i, s1) /\ UNCHANGED chan
             ELSE IF s.state = "closing"
             THEN Update(e, i, Close(s1)) /\ UNCHANGED chan
             ELSE Update(e, i, s1) /\ Send(e, s.transport, <<OKAY(i, s.peer)>>)
       \/ /\ s.hup
          /\ Update(e, i, Close(s))
          /\ Send(e, s.transport, ShutPackets(i, s))
    /\ UNCHANGED <<next_id, online, link, dying>>

-----------------------------------------------------------------------------
(* handle_packet                                                           *)

\* The main thread of e takes the next packet of transport t and sends pkts.
Take(e, t, pkts) ==
    /\ chan' = [Sent(e, t, pkts) EXCEPT ![e][t] = Tail(@)]
    /\ UNCHANGED <<online, link, dying>>

\* Mutant: the ids of the READY are the wrong way round.
HandleOpenSwapped(e, t, p) ==
    LET i == next_id[e] IN
    /\ i \in Ids
    /\ next_id' = [next_id EXCEPT ![e] = i + 1]
    /\ Update(e, i, Ready([NoSocket EXCEPT !.state = "open", !.transport = t,
                                           !.peer = p.arg0, !.mate = p.arg0]))
    /\ Take(e, t, <<OKAY(p.arg0, i)>>)

HandleOpen(e, t, p) ==
    \/ /\ Take(e, t, <<CLSE(0, p.arg0)>>)    \* no such service
       /\ UNCHANGED <<socks, next_id>>
    \/ LET i == next_id[e] IN
       /\ i \in Ids
       /\ next_id' = [next_id EXCEPT ![e] = i + 1]
       /\ Update(e, i, Ready([NoSocket EXCEPT !.state = "open", !.transport = t,
                                              !.peer = p.arg0, !.mate = p.arg0]))
       /\ Take(e, t, <<OKAY(i, p.arg0)>>)

HandleOkay(e, t, p) ==
    LET s == socks[e][p.arg1] IN
    /\ IF Found(e, p.arg1, 0) /\ s.peer \in {0, p.arg0}
       THEN Update(e, p.arg1, Ready([s EXCEPT !.peer = p.arg0, !.transport = t,
                                             !.mate = p.arg0]))
       ELSE UNCHANGED socks
    /\ Take(e, t, <<>>)
    /\ UNCHANGED next_id

HandleClose(e, t, p) ==
    LET s == socks[e][p.arg1]
        wrong == p.arg0 = 0 /\ s.peer # 0 /\ s.transport # t
    IN
    /\ IF Found(e, p.arg1, p.arg0) /\ ~wrong
       THEN Update(e, p.arg1, Close(s)) /\ Take(e, t, ShutPackets(p.arg1, s))
       ELSE UNCHANGED socks /\ Take(e, t, <<>>)
    /\ UNCHANGED next_id

\* local_socket_enqueue: behind the packets already queued, or straight to the
\* fd as far as it takes the data; the sender is told to go on only when all of
\* it was taken.
HandleWrite(e, t, p) ==
    LET i == p.arg1
        s == socks[e][i]
    IN
    /\ IF ~Found(e, i, p.arg0) THEN UNCHANGED socks /\ Take(e, t, <<>>)
       ELSE IF s.queue # <<>>
       THEN Update(e, i, [s EXCEPT !.queue = Append(@, p.data)]) /\ Take(e, t, <<>>)
       ELSE \E n \in 0..Len(p.data) :
              LET s1 == WriteOut([s EXCEPT !.queue = <<p.data>>], n)
                  s2 == [s1 EXCEPT !.queue = <<>>]    \* p is dropped on an error
              IN
              \/ s1.queue = <<>> /\ Update(e, i, s1) /\ Take(e, t, <<OKAY(i, p.arg0)>>)
              \/ s1.queue # <<>> /\ Update(e, i, s1) /\ Take(e, t, <<>>)
              \/ /\ s1.queue # <<>> /\ s.hup
                 /\ Update(e, i, Close(s2)) /\ Take(e, t, ShutPackets(i, s2))
    /\ UNCHANGED next_id

\* SYNC(0, 0): handle_offline runs the disconnect callback of every remote
\* socket on t, which closes its peer; the packet then goes to input_thread.
HandleOffline(e, t) ==
    /\ chan' = [chan EXCEPT ![e][t] = Tail(@)]
    /\ online' = [online EXCEPT ![e][t] = FALSE]
    /\ dying' = [dying EXCEPT ![e][t] = TRUE]
    /\ socks' = [socks EXCEPT ![e] = [i \in Ids |->
                   LET s == @[i] IN
                   IF s.transport = t /\ s.peer # 0 THEN Close([s EXCEPT !.peer = 0]) ELSE s]]
    /\ UNCHANGED <<next_id, link>>

HandlePacket(e, t) ==
    /\ chan[e][t] # <<>>
    /\ LET p == Head(chan[e][t]) IN
       \/ p.cmd = "SYNC" /\ HandleOffline(e, t)
       \/ p.cmd # "SYNC" /\ ~online[e][t] /\ Take(e, t, <<>>) /\ UNCHANGED <<socks, next_id>>
       \/ p.cmd = "OPEN" /\ online[e][t] /\ HandleOpen(e, t, p)
       \/ p.cmd = "OKAY" /\ online[e][t] /\ HandleOkay(e, t, p)
       \/ p.cmd = "CLSE" /\ online[e][t] /\ HandleClose(e, t, p)
       \/ p.cmd = "WRTE" /\ online[e][t] /\ HandleWrite(e, t, p)

-----------------------------------------------------------------------------
(* The transport: its handshake and its threads are modelled elsewhere      *)

\* Both ends have seen the other's CNXN.
Up(t) ==
    /\ link[t] = "none" /\ \A u \in 1..(t - 1) : link[u] = "down"
    /\ link' = [link EXCEPT ![t] = "up"]
    /\ online' = [e \in Ends |-> [online[e] EXCEPT ![t] = TRUE]]
    /\ UNCHANGED <<socks, next_id, chan, dying>>

\* The wire breaks: each end still sees what its output_thread had read, and
\* then SYNC(0, 0).
Break(t) ==
    /\ link[t] = "up"
    /\ link' = [link EXCEPT ![t] = "down"]
    /\ \E m \in 0..Len(chan[Host][t]), n \in 0..Len(chan[Device][t]) :
          chan' = [chan EXCEPT ![Host][t] = Append(SubSeq(@, 1, m), SYNC0),
                               ![Device][t] = Append(SubSeq(@, 1, n), SYNC0)]
    /\ UNCHANGED <<socks, next_id, online, dying>>

\* Mutant: only sockets with a peer on t are looked for.
CloseAllConnected(e, t) ==
    /\ dying[e][t]
    /\ dying' = [dying EXCEPT ![e][t] = FALSE]
    /\ socks' = [socks EXCEPT ![e] = [i \in Ids |->
                   LET s == @[i] IN
                   IF s.state = "open" /\ s.transport = t /\ s.peer # 0 THEN Shut(s) ELSE s]]
    /\ UNCHANGED <<next_id, chan, online, link>>

\* input_thread: close_all_sockets, for the sockets the main thread left.
CloseAllSockets(e, t) ==
    /\ dying[e][t]
    /\ dying' = [dying EXCEPT ![e][t] = FALSE]
    /\ socks' = [socks EXCEPT ![e] = [i \in Ids |->
                   LET s == @[i] IN
                   IF s.state = "open" /\ s.transport = t THEN Shut(s) ELSE s]]
    /\ UNCHANGED <<next_id, chan, online, link>>

-----------------------------------------------------------------------------
SocketStep(e, i) == Readable(e, i) \/ Writable(e, i)

Next ==
    \/ \E t \in Transports : Connect(t) \/ Up(t) \/ Break(t)
    \/ \E e \in Ends, i \in Ids : SocketStep(e, i) \/ Hangup(e, i)
    \/ \E e \in Ends, t \in Transports : HandlePacket(e, t) \/ CloseAllSockets(e, t)

Spec == Init /\ [][Next]_vars

\* The main loop serves every fd and transport that has something for it, a
\* program reads what it is sent or goes away, and input_thread runs.  The loop of
\* the Windows build may forget a closing socket that has data to write (module
\* Fdevent, WriteRemembered), never an open one (OpenWriteRemembered): a closing
\* socket is served at the ends of Drained only.
Fairness ==
    /\ \A e \in Ends, i \in Ids :
          /\ WF_vars(Readable(e, i))
          /\ WF_vars((e \in Drained \/ socks[e][i].state = "open") /\ Writable(e, i))
    /\ \A e \in Ends, t \in Transports :
          WF_vars(HandlePacket(e, t)) /\ WF_vars(CloseAllSockets(e, t))

FairSpec == Spec /\ Fairness

-----------------------------------------------------------------------------
(* Properties                                                              *)

Bit(b) == IF b THEN 1 ELSE 0
Matching(e, t, cmd, l, r) ==
    {k \in 1..Len(chan[e][t]) : /\ chan[e][t][k].cmd = cmd
                                /\ chan[e][t][k].arg0 = l /\ chan[e][t][k].arg1 = r}
Total(lens) == LET sum[k \in 0..Len(lens)] == IF k = 0 THEN 0 ELSE sum[k - 1] + lens[k]
               IN  sum[Len(lens)]
Bytes(pkts) == Total([k \in 1..Len(pkts) |-> Len(pkts[k])])

\* Socket i of end e and socket j of the other end are the ends of one stream.
Paired(e, i, j) ==
    /\ socks[e][i].state # "none" /\ socks[Other(e)][j].state # "none"
    /\ socks[e][i].transport = socks[Other(e)][j].transport
    /\ socks[e][i].mate = j \/ socks[Other(e)][j].mate = i

\* The type of every variable; no id is zero where protocol.txt forbids it.
TypeOK ==
    /\ \A e \in Ends, i \in Ids :
          LET s == socks[e][i] IN
          /\ s.state \in {"none", "open", "closing", "gone"}
          /\ s.peer \in Ids \cup {0} /\ s.mate \in Ids \cup {0}
          /\ s.transport \in Transports \cup {0}
          /\ s.reading \in BOOLEAN /\ s.notify \in BOOLEAN /\ s.hup \in BOOLEAN
          /\ s.sent \in 0..MaxBytes /\ s.status \in {"none", "OKAY", "FAIL"}
    /\ next_id \in [Ends -> 1..(MaxSockets + 1)]
    /\ \A e \in Ends, t \in Transports : \A k \in 1..Len(chan[e][t]) :
          LET p == chan[e][t][k] IN
          \/ p = SYNC0
          \/ p.cmd = "OPEN" /\ p.arg0 \in Ids /\ p.arg1 = 0
          \/ p.cmd \in {"OKAY", "WRTE"} /\ p.arg0 \in Ids /\ p.arg1 \in Ids
          \/ p.cmd = "CLSE" /\ p.arg0 \in Ids \cup {0} /\ p.arg1 \in Ids
    /\ online \in [Ends -> [Transports -> BOOLEAN]]
    /\ link \in [Transports -> {"none", "up", "down"}]
    /\ dying \in [Ends -> [Transports -> BOOLEAN]]

\* Flow control: in each direction of a stream with both ends open there is one
\* permission to write, which is with the sender (it watches its fd), under way
\* as a WRTE, held by a receiver that has not written the data yet, or under way
\* back as an OKAY.  So a socket never has a second packet behind the one it
\* could not write: the list local_socket_enqueue keeps has one element at most.
FlowControl ==
    /\ \A e \in Ends, i, j \in Ids :
          LET f == Other(e)
              s == socks[e][i]
              r == socks[f][j]
              t == s.transport
          IN
          (/\ Paired(e, i, j) /\ link[t] = "up"
           /\ s.state = "open" /\ r.state = "open")
          => Bit(s.reading) + Bit(Matching(f, t, "WRTE", i, j) # {}) + Bit(r.queue # <<>>)
             + Bit(Matching(e, t, "OKAY", j, i) # {}) = 1
    /\ \A e \in Ends, i \in Ids : Len(socks[e][i].queue) <= 1

\* Bytes come out of a stream in the order they went in, none twice, none
\* missing in the middle, and none that was not sent.
InOrder ==
    \A e \in Ends, i \in Ids :
       LET s == socks[e][i] IN
       /\ s.got = [k \in 1..Len(s.got) |-> k]
       /\ s.got # <<>> => s.mate # 0 /\ Len(s.got) <= socks[Other(e)][s.mate].sent

\* Nothing is lost when a stream closes: while the wire holds and the receiving
\* program stays, every byte read from the sender's fd is written out, queued at
\* the receiver, or in a WRTE on its way, even after the sender is gone.
\* What is written out is in order.
NoLoss ==
    /\ InOrder
    /\ \A e \in Ends, i, j \in Ids :
          LET f == Other(e)
              s == socks[e][i]
              r == socks[f][j]
              t == s.transport
              under_way == SelectSeq(chan[f][t], LAMBDA p : p.cmd = "WRTE" /\ p.arg1 = j)
          IN
          (Paired(e, i, j) /\ link[t] = "up" /\ ~r.hup)
          => s.sent = Len(r.got) + Bytes(r.queue)
                      + Bytes([k \in 1..Len(under_way) |-> under_way[k].data])

\* The two ends of a stream agree on each other, on one transport: no packet
\* joins a socket to a stranger, whatever was in flight when others closed.
MatesAgree ==
    \A e \in Ends, i \in Ids :
       LET s == socks[e][i] IN
       s.mate # 0 => /\ socks[Other(e)][s.mate].state # "none"
                     /\ socks[Other(e)][s.mate].mate \in {0, i}
                     /\ socks[Other(e)][s.mate].transport = s.transport

\* All of it at once, for streams that share transports and reuse the way back:
\* no packet has an id of zero where protocol.txt forbids it (TypeOK), the mates
\* agree, one credit per direction, nothing lost.
StreamsInv == TypeOK /\ MatesAgree /\ FlowControl /\ NoLoss

\* A program that asked for a stream hears OKAY before any data, and hears
\* nothing after FAIL.
StatusFirst ==
    \A i \in Ids :
       LET s == socks[Host][i] IN
       /\ s.got # <<>> \/ s.sent > 0 => s.status = "OKAY"
       /\ s.status = "FAIL" => s.state = "gone"

\* Once both threads have dealt with the loss of a transport, no open socket
\* refers to it.
NoOrphan ==
    \A e \in Ends, t \in Transports :
       (link[t] = "down" /\ ~online[e][t] /\ ~dying[e][t]) =>
          \A i \in Ids : socks[e][i].transport = t => socks[e][i].state # "open"

\* What is sent arrives, unless the receiving program goes away, the wire breaks,
\* or the receiving socket is on the closing list of an end that may forget it.
Delivered ==
    \A e \in Ends, i, j \in Ids, n \in 1..MaxBytes :
       LET r == socks[Other(e)][j]
           t == socks[e][i].transport
       IN  (Paired(e, i, j) /\ socks[e][i].sent = n) ~>
              \/ Len(r.got) >= n
              \/ r.hup \/ (t # 0 /\ link[t] = "down")
              \/ Other(e) \notin Drained /\ r.state = "closing"

\* When an end of a stream that knows its peer closes, so does the other.  (An end
\* that closes before it hears from its peer sends no CLSE: see Connect.)
ClosePropagates ==
    \A e \in Ends, i, j \in Ids :
       (Paired(e, i, j) /\ socks[e][i].mate = j /\ socks[e][i].state # "open")
       ~> (socks[Other(e)][j].state # "open")

\* While the wire holds, the program that asked for a stream is told OKAY or FAIL;
\* when it breaks, the program is told or its connection is closed.
Answered == \A i \in Ids :
    LET s == socks[Host][i] IN
    s.notify ~> \/ s.status # "none"
                \/ s.state = "gone" /\ link[s.transport] = "down"
=============================================================================
