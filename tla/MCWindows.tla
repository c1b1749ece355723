----------------------------- MODULE MCWindows -----------------------------
(* One instance for TLC of what stands for POSIX in the Windows build        *)
(* (sysdeps_win32.cpp): the buffers of a socketpair, the descriptor table,   *)
(* the wait for many events and the event loop.  They share no state, so a   *)
(* behaviour is one of one of them (`part`) while the others stay in one of  *)
(* their initial states.                                                     *)
(*                                                                           *)
(* There are two buffers.  The first has one writer, one reader and a close, *)
(* with requests shorter and longer than the buffer.  The second, Packets,   *)
(* has two writers of packet pointers whose size divides SIZE.               *)
EXTENDS BipBuffer, FhTable, WaitAll, Fdevent

CONSTANT PacketWriters

VARIABLES part,
          p_a_start, p_a_end, p_b_end, p_buff, p_can_write, p_evt_write, p_can_read, p_evt_read,
          p_closed, p_lock, p_pc, p_len, p_ret, p_sent, p_rcvd, p_dst

packet_vars == <<p_a_start, p_a_end, p_b_end, p_buff, p_can_write, p_evt_write, p_can_read, p_evt_read,
                 p_closed, p_lock, p_pc, p_len, p_ret, p_sent, p_rcvd, p_dst>>

Packets ==
    INSTANCE BipBuffer WITH
        SIZE <- 4, Writers <- PacketWriters, Closers <- {}, Lens <- {2}, MaxBytes <- 10,
        a_start <- p_a_start, a_end <- p_a_end, b_end <- p_b_end, buff <- p_buff,
        can_write <- p_can_write, evt_write <- p_evt_write, can_read <- p_can_read,
        evt_read <- p_evt_read, closed <- p_closed, lock <- p_lock,
        pc <- p_pc, len <- p_len, ret <- p_ret, sent <- p_sent, rcvd <- p_rcvd, dst <- p_dst

MCInit ==
    /\ part \in {"bytes", "packets", "table", "wait", "loop"}
    /\ Init
    /\ Packets!Init
    /\ FhInit
    /\ WaitInit /\ (part # "wait" => signaled = {})
    /\ FdeventInit /\ (part # "loop" => \A f \in Fds : net[f] = {W})

MCNext ==
    /\ UNCHANGED part
    /\ \/ /\ part = "bytes" /\ Next
          /\ UNCHANGED <<packet_vars, fh_vars, wait_vars, fdevent_vars>>
       \/ /\ part = "packets" /\ Packets!Next
          /\ UNCHANGED <<vars, fh_vars, wait_vars, fdevent_vars>>
       \/ /\ part = "table" /\ FhNext
          /\ UNCHANGED <<vars, packet_vars, wait_vars, fdevent_vars>>
       \/ /\ part = "wait" /\ WaitNext
          /\ UNCHANGED <<vars, packet_vars, fh_vars, fdevent_vars>>
       \/ /\ part = "loop" /\ FdeventNext
          /\ UNCHANGED <<vars, packet_vars, fh_vars, wait_vars>>

\* Every thread inside a call keeps being scheduled.  The reader of a transport's
\* pair, input_thread, calls again as soon as a read returns; nothing obliges a writer
\* or a closer to call.  No temporal property is about the packets.
BytesFairness ==
    /\ \A w \in Writers : WF_vars(part = "bytes" /\ WriteStep(w))
    /\ \A r \in Readers : /\ WF_vars(part = "bytes" /\ ReadStep(r))
                          /\ WF_vars(part = "bytes" /\ \E n \in Lens : ReadCall(r, n))
    /\ \A c \in Closers : WF_vars(part = "bytes" /\ CloseStep(c))

\* Threads run.  Nothing says that a handle is ever set.
WaitFairness ==
    /\ WF_wait_vars(part = "wait" /\ CallerStep)
    /\ \A k \in WaitThreads : WF_wait_vars(part = "wait" /\ ThreadStep(k))

\* The main thread runs; callbacks come to an end; peers take what is sent.
LoopFairness ==
    /\ WF_fdevent_vars(part = "loop" /\ Process)
    /\ WF_fdevent_vars(part = "loop" /\ Dispatch)
    /\ WF_fdevent_vars(part = "loop" /\ CallbackReturns)
    /\ \A f \in Fds : /\ WF_fdevent_vars(part = "loop" /\ Callback(f))
                      /\ WF_fdevent_vars(part = "loop" /\ MakeRoom(f))

MCSpec == /\ MCInit /\ [][MCNext]_<<part, vars, packet_vars, fh_vars, wait_vars, fdevent_vars>>
          /\ BytesFairness /\ WaitFairness /\ LoopFairness

\* NoTornPacket (BipBuffer): when every request is one packet pointer and SIZE is a
\* multiple of its size, bip_buffer_write puts down a whole pointer at a time, so
\* what a read returns is made of whole pointers, with two writers too.
PacketsWhole == Packets!NoTornPacket

\* WaitAllReturns (WaitAll): _wait_for_all returns when one of its handles is set.
WaitersReturn == part = "wait" => WaitAllReturns

\* Served (Fdevent): an fd with data whose FDE_READ is wanted is called back by
\* fdevent_loop, if the loop is idle again and again.
LoopServed == part = "loop" => Served
=============================================================================
