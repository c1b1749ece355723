------------------------------- MODULE Shell -------------------------------
(***************************************************************************)
(* The "shell:" service of adbd: a process on a pseudo terminal, a thread  *)
(* that waits for it to exit and tells the event loop by sending the number *)
(* of the fd (services.cpp), the select loop (fdevent.c), and the local     *)
(* socket that carries the output to the host (sockets.cpp).               *)
(*                                                                         *)
(* Streams models what a client types and the loss of the transport; here  *)
(* the host opens shells, acknowledges output and closes.                   *)
(***************************************************************************)
EXTENDS Integers, Sequences, FiniteSets, FiniteSetsExt

CONSTANTS Shells,       \* streams; each is opened once
          Fds,          \* numbers for terminals: the lowest free one is taken
          MaxPayload,   \* MAX_PAYLOAD, in units of output
          MaxOutput,    \* bound: MaxOutput[s] is the output of the processes of s
          MaxForkFails, \* bound: times that fork fails
          TransportFd, ExitFd, \* the numbers of the other two fds in the loop
          NoShell

ASSUME FdAssumption ==
    /\ Fds \subseteq Nat /\ {TransportFd, ExitFd} \subseteq Nat \ Fds /\ TransportFd # ExitFd
    /\ NoShell \notin Shells
ASSUME ShellBounds == MaxPayload \in Nat \ {0} /\ MaxOutput \in [Shells -> Nat] /\ MaxForkFails \in Nat

VARIABLES stream, \* stream[s]: the local socket, its fdevent and what the host is owed
          proc,   \* proc[s]: the shell, a process it left behind, and the terminal
          waiter, \* waiter[s]: the thread of subproc_waiter_service
          fd_table,
          evloop, \* pending fdevents, and a call of a socket's function by another
          inbox,  \* packets from the host
          exits,  \* fd numbers sent to SHELL_EXIT_NOTIFY_FD
          forkfails

NoFd == -1

shell_vars == <<stream, proc, waiter, fd_table, evloop, inbox, exits, forkfails>>

\* `read`: FDE_READ is wanted; `owed`: WRITEs that the host has not answered with
\* a READY that has been handled; `by`: who closed first.
ShellInit ==
    /\ stream = [s \in Shells |-> [state |-> "none", fd |-> NoFd, read |-> FALSE, force_eof |-> FALSE,
                                   sent |-> 0, owed |-> 0, unanswered |-> 0, by |-> "nobody"]]
    /\ proc = [s \in Shells |-> [sh |-> "none", kid |-> FALSE, out |-> 0, wrote |-> 0, reaped |-> FALSE]]
    /\ waiter = [s \in Shells |-> [pc |-> "none", fd |-> NoFd, any |-> FALSE]]
    /\ fd_table = [f \in Fds |-> NoShell]
    /\ evloop = [pending |-> {}, calls |-> NoShell]
    /\ inbox = <<>>
    /\ exits = <<>>
    /\ forkfails = 0

-----------------------------------------------------------------------------
(* Processes and their terminal                                            *)

\* A process on the terminal writes; with the master closed the output is gone.
Write(s) ==
    /\ proc[s].sh = "runs" \/ proc[s].kid
    /\ proc[s].wrote < MaxOutput[s] /\ stream[s].state = "open"
    /\ proc' = [proc EXCEPT ![s].wrote = @ + 1, ![s].out = @ + 1]
    /\ UNCHANGED <<stream, waiter, fd_table, evloop, inbox, exits, forkfails>>

\* The shell starts a process in the background, and exits;
Background(s) ==
    /\ proc[s].sh = "runs" /\ ~proc[s].kid
    /\ proc' = [proc EXCEPT ![s].kid = TRUE]
    /\ UNCHANGED <<stream, waiter, fd_table, evloop, inbox, exits, forkfails>>

ShellExits(s) ==
    /\ proc[s].sh = "runs"
    /\ proc' = [proc EXCEPT ![s].sh = "exited"]
    /\ UNCHANGED <<stream, waiter, fd_table, evloop, inbox, exits, forkfails>>

KidExit(s) ==
    /\ proc[s].kid
    /\ proc' = [proc EXCEPT ![s].kid = FALSE]
    /\ UNCHANGED <<stream, waiter, fd_table, evloop, inbox, exits, forkfails>>

\* No process has the terminal any more: a read of the master fails with EIO.
HungUp(s) == proc[s].sh = "exited" /\ ~proc[s].kid

-----------------------------------------------------------------------------
(* subproc_waiter_service                                                  *)

\* waitpid returns; the thread of a shell that could not be forked waits for
\* pid -1, which is any child, and takes the status of one that is not its own.
WaitPid(s) ==
    /\ waiter[s].pc = "waits" /\ ~waiter[s].any
    /\ proc[s].sh = "exited" /\ ~proc[s].reaped
    /\ proc' = [proc EXCEPT ![s].reaped = TRUE]
    /\ waiter' = [waiter EXCEPT ![s].pc = "tells"]
    /\ UNCHANGED <<stream, fd_table, evloop, inbox, exits, forkfails>>

WaitAny(s, x) ==
    /\ waiter[s].pc = "waits" /\ waiter[s].any
    /\ \/ /\ proc[x].sh = "exited" /\ ~proc[x].reaped
          /\ proc' = [proc EXCEPT ![x].reaped = TRUE]
          /\ UNCHANGED waiter
       \/ /\ \A y \in Shells : proc[y].sh = "none" \/ proc[y].reaped
          /\ waiter' = [waiter EXCEPT ![s].pc = "tells"]
          /\ UNCHANGED proc
    /\ UNCHANGED <<stream, fd_table, evloop, inbox, exits, forkfails>>

\* The number of the fd is written to SHELL_EXIT_NOTIFY_FD.
Tell(s) ==
    /\ waiter[s].pc = "tells"
    /\ exits' = Append(exits, waiter[s].fd)
    /\ waiter' = [waiter EXCEPT ![s].pc = "done"]
    /\ UNCHANGED <<stream, proc, fd_table, evloop, inbox, forkfails>>

-----------------------------------------------------------------------------
(* The event loop                                                          *)

Readable(s) == proc[s].out > 0 \/ HungUp(s)

\* What select reports: the transport's socket, the socket of the exits, and
\* terminals that are wanted.
Ready == {f \in Fds : fd_table[f] # NoShell /\ stream[fd_table[f]].read /\ Readable(fd_table[f])}
         \cup (IF inbox = <<>> THEN {} ELSE {TransportFd}) \cup (IF exits = <<>> THEN {} ELSE {ExitFd})

\* fdevent_process: the order is that of the fd numbers, which may be any.
Select ==
    /\ evloop.pending = {} /\ evloop.calls = NoShell /\ Ready # {}
    /\ evloop' = [evloop EXCEPT !.pending = Ready]
    /\ UNCHANGED <<stream, proc, waiter, fd_table, inbox, exits, forkfails>>

\* local_socket_close: CLOSE goes to the host, and fdevent_remove takes the
\* fdevent off the pending list and closes the fd.
Closed(s, r, who) == [r EXCEPT !.state = "closed", !.read = FALSE, !.by = who]
TableWithout(f) == [fd_table EXCEPT ![f] = NoShell]

\* remote_socket_enqueue
EnqueueResult == 1

\* Mutant: a read that finds nothing for now counts as an end.
IsEofEagain(s) == proc[s].out < MaxPayload

\* The loop of reads ends with EIO, unless the packet is full before.
IsEof(s) == HungUp(s) /\ proc[s].out < MaxPayload

\* local_socket_event_func with FDE_READ on the terminal of s, with `pending` left
\* to do.  `r` is what the last read (EAGAIN) or the enqueue returned.
Pump(s, pending) ==
    LET n == Min({proc[s].out, MaxPayload})
        r == IF n = 0 THEN -1 ELSE EnqueueResult
        q == [stream[s] EXCEPT !.sent = @ + n,
                               !.owed = IF n = 0 THEN @ ELSE @ + 1,
                               !.unanswered = IF n = 0 THEN @ ELSE @ + 1,
                               !.read = @ /\ ~(r > 0)]
        ends == (q.force_eof /\ r = 0) \/ IsEof(s)
    IN /\ proc' = [proc EXCEPT ![s].out = @ - n]
       /\ stream' = [stream EXCEPT ![s] = IF ends THEN Closed(s, q, "adbd") ELSE q]
       /\ fd_table' = IF ends THEN TableWithout(q.fd) ELSE fd_table
       /\ evloop' = [pending |-> IF ends THEN pending \ {q.fd} ELSE pending, calls |-> NoShell]
       /\ UNCHANGED <<waiter, inbox, exits, forkfails>>

\* fdevent_call_fdfunc for a terminal
ShellEvent(f) ==
    /\ evloop.calls = NoShell /\ f \in evloop.pending \cap Fds
    /\ Pump(fd_table[f], evloop.pending \ {f})

\* fdevent_subproc_event_func: whichever socket has the number now gets force_eof.
\* If FIONREAD finds nothing, and it is not pending, its function is called
ExitEvent ==
    LET f == Head(exits)
        s == fd_table[f]
        pending == evloop.pending \ {ExitFd}
    IN /\ evloop.calls = NoShell /\ ExitFd \in evloop.pending
       /\ exits' = Tail(exits)
       /\ IF f \notin Fds
          THEN evloop' = [evloop EXCEPT !.pending = pending] /\ UNCHANGED stream
          ELSE IF s = NoShell
          THEN evloop' = [evloop EXCEPT !.pending = pending] /\ UNCHANGED stream
          ELSE /\ stream' = [stream EXCEPT ![s].force_eof = TRUE]
               /\ evloop' = [pending |-> pending,
                             calls |-> IF proc[s].out > 0 \/ f \in pending THEN NoShell ELSE s]
       /\ UNCHANGED <<proc, waiter, fd_table, inbox, forkfails>>

\* as if there were something to read, whether it is wanted or not.
DirectCall ==
    /\ evloop.calls # NoShell
    /\ Pump(evloop.calls, evloop.pending)

-----------------------------------------------------------------------------
(* handle_packet                                                           *)

FreeFds == {f \in Fds : fd_table[f] = NoShell}

\* OPEN: create_subproc_thread starts the process and the waiter; READY goes to
\* the host and the terminal is read.
OpenShell(s) ==
    /\ FreeFds # {}
    /\ LET f == Min(FreeFds) IN
       /\ fd_table' = [fd_table EXCEPT ![f] = s]
       /\ stream' = [stream EXCEPT ![s].state = "open", ![s].fd = f, ![s].read = TRUE]
       /\ waiter' = [waiter EXCEPT ![s] = [pc |-> "waits", fd |-> f, any |-> FALSE]]
       /\ proc' = [proc EXCEPT ![s].sh = "runs"]
    /\ UNCHANGED forkfails

\* fork fails: the host gets CLOSE, but there is a waiter, for pid -1.
OpenFails(s) ==
    /\ forkfails < MaxForkFails /\ forkfails' = forkfails + 1
    /\ stream' = [stream EXCEPT ![s].state = "closed", ![s].by = "fork"]
    /\ waiter' = [waiter EXCEPT ![s] = [pc |-> "waits", fd |-> NoFd, any |-> TRUE]]
    /\ UNCHANGED <<proc, fd_table>>

\* Mutant: the terminal is not read again.
ReadyPacketDeaf(s) ==
    /\ stream' = IF stream[s].state = "open" THEN [stream EXCEPT ![s].owed = @ - 1] ELSE stream
    /\ UNCHANGED <<proc, waiter, fd_table, forkfails>>

\* READY: local_socket_ready; CLOSE: local_socket_close.  Either finds the socket
\* only if it is there.
ReadyPacket(s) ==
    /\ stream' = IF stream[s].state = "open"
                 THEN [stream EXCEPT ![s].read = TRUE, ![s].owed = @ - 1] ELSE stream
    /\ UNCHANGED <<proc, waiter, fd_table, forkfails>>

ClosePacket(s) ==
    /\ IF stream[s].state = "open"
       THEN stream' = [stream EXCEPT ![s] = Closed(s, @, "host")] /\ fd_table' = TableWithout(stream[s].fd)
       ELSE UNCHANGED <<stream, fd_table>>
    /\ UNCHANGED <<proc, waiter, forkfails>>

TransportEvent ==
    LET p == Head(inbox)
        s == p.shell
        gone == IF p.cmd = "CLOSE" /\ stream[s].state = "open" THEN {stream[s].fd} ELSE {}
    IN /\ evloop.calls = NoShell /\ TransportFd \in evloop.pending
       /\ inbox' = Tail(inbox)
       /\ evloop' = [evloop EXCEPT !.pending = @ \ ({TransportFd} \cup gone)]
       /\ \/ p.cmd = "OPEN" /\ (OpenShell(s) \/ OpenFails(s))
          \/ p.cmd = "READY" /\ ReadyPacket(s)
          \/ p.cmd = "CLOSE" /\ ClosePacket(s)
       /\ UNCHANGED exits

-----------------------------------------------------------------------------
(* The host                                                                *)

Sent(cmd, s) == inbox' = Append(inbox, [cmd |-> cmd, shell |-> s])
Asked(cmd, s) == \E k \in DOMAIN inbox : inbox[k] = [cmd |-> cmd, shell |-> s]

\* A client asks for a shell, as long as adbd can have one;
HostOpens(s) ==
    /\ stream[s].state = "none" /\ ~Asked("OPEN", s)
    /\ Cardinality(FreeFds) > Cardinality({x \in Shells : Asked("OPEN", x)})
    /\ Sent("OPEN", s)
    /\ UNCHANGED <<stream, proc, waiter, fd_table, evloop, exits, forkfails>>

\* takes what was written;
HostTakes(s) ==
    /\ stream[s].unanswered > 0 /\ ~Asked("CLOSE", s)
    /\ stream' = [stream EXCEPT ![s].unanswered = @ - 1]
    /\ Sent("READY", s)
    /\ UNCHANGED <<proc, waiter, fd_table, evloop, exits, forkfails>>

\* goes away.
HostCloses(s) ==
    /\ stream[s].state = "open" /\ ~Asked("CLOSE", s)
    /\ Sent("CLOSE", s)
    /\ UNCHANGED <<stream, proc, waiter, fd_table, evloop, exits, forkfails>>

-----------------------------------------------------------------------------
MainLoop == Select \/ ExitEvent \/ DirectCall \/ TransportEvent \/ \E f \in Fds : ShellEvent(f)
Waiter(s) == WaitPid(s) \/ Tell(s) \/ \E x \in Shells : WaitAny(s, x)
Process(s) == Write(s) \/ Background(s) \/ ShellExits(s) \/ KidExit(s)

ShellNext ==
    \/ MainLoop
    \/ \E s \in Shells : Waiter(s) \/ Process(s) \/ HostOpens(s) \/ HostTakes(s) \/ HostCloses(s)

ShellSpec == ShellInit /\ [][ShellNext]_shell_vars

-----------------------------------------------------------------------------
(* Properties                                                              *)

\* adbd closes a shell's stream only when its processes are gone and all that they
\* wrote has been sent, whatever numbers arrive from the waiters of other shells,
\* those of an earlier owner of the fd included.
OutputWhole ==
    \A s \in Shells : /\ stream[s].by = "adbd" => HungUp(s) /\ stream[s].sent = proc[s].wrote
                      /\ stream[s].state = "open" => fd_table[stream[s].fd] = s
                                                     /\ stream[s].sent + proc[s].out = proc[s].wrote

\* protocol.txt: "Once a WRITE message is sent, an additional WRITE message may not
\* be sent until another READY message has been received."  fdevent_subproc_event_func
\* calls the function of a terminal whose FDE_READ is not wanted.
OneWrite == \A s \in Shells : stream[s].owed <= 1

\* A stream whose processes are gone is closed, if the host takes what was written,
\* also when another shell's fork failed and the exit is never told.
ShellEnds ==
    LET ending == {s \in Shells : HungUp(s) /\ stream[s].state # "closed"}
    IN ending # {} ~> ending = {}
=============================================================================
