-------------------------------- MODULE Jdwp --------------------------------
(***************************************************************************)
(* The JDWP services of the daemon (jdwp_service.c).  Every debuggable     *)
(* process connects to a control socket, sends its pid and keeps the       *)
(* connection open; adbd passes debugger connections to it, lists the pids *)
(* and tells its trackers whenever the list changes.  One thread runs it:  *)
(* an event of the main loop is a step.                                    *)
(*                                                                         *)
(* The four characters of a pid arrive in two parts.  fcntl on an open     *)
(* socket is taken not to fail.                                            *)
(***************************************************************************)
EXTENDS Integers, Sequences, FiniteSets, SequencesExt

CONSTANTS Vms,       \* processes that connect to the control socket
          Pid,       \* Pid[v]: its pid; a later process may have that of an earlier one
          Debuggers, \* "jdwp:<pid>" requests, each with a socket pair of its own
          Trackers,  \* "track-jdwp" and "jdwp" sockets
          MaxOut,    \* MAX_OUT_FDS
          MaxFirst,  \* pids that fit in the packet of jdwp_tracker_ready
          MaxUpdate, \* pids that fit in the buffer of jdwp_process_list_updated
          NoVm

ASSUME PidAssumption == Vms \subseteq DOMAIN Pid /\ NoVm \notin Vms
ASSUME MaxOutAssumption == MaxOut \in Nat \ {0}
ASSUME BufferAssumption == MaxUpdate \in Nat /\ MaxFirst \in Nat

VARIABLES vm,      \* a process, its end of the connection and its JdwpProcess
          plist,   \* _jdwp_list
          dbg,     \* what became of the fd that a request passes on
          trk      \* the trackers and the last list each was sent

jdwp_vars == <<vm, plist, dbg, trk>>

\* `sent` and `got`: parts of the pid written and read; `text`: the last part
\* is that of a number; `out`: out_fds; `want`: FDE_WRITE is asked for.
JdwpInit ==
    /\ vm = [v \in Vms |-> [app |-> "new", conn |-> "none", sent |-> 0, got |-> 0, text |-> TRUE,
                            pid |-> FALSE, out |-> <<>>, want |-> FALSE]]
    /\ plist = <<>>
    /\ dbg = [d \in Debuggers |-> [at |-> "none", vm |-> NoVm]]
    /\ trk = [t \in Trackers |-> [life |-> "none", seen |-> <<>>, unread |-> 0]]

-----------------------------------------------------------------------------
(* The list and the trackers                                               *)

\* jdwp_process_list: transient connections are passed over, and the list ends
\* with the last pid before the buffer is full.
PidList(list, vms, max) ==
    LET known == SelectSeq(list, LAMBDA v : vms[v].pid)
        fits == SubSeq(known, 1, IF Len(known) <= max THEN Len(known) ELSE max)
    IN  [k \in 1..Len(fits) |-> Pid[fits[k]]]

\* jdwp_process_list_updated: a packet to every tracker, at once.
Told(list, vms) ==
    [t \in Trackers |-> IF trk[t].life = "open"
                        THEN [trk[t] EXCEPT !.seen = PidList(list, vms, MaxUpdate), !.unread = @ + 1]
                        ELSE trk[t]]

\* create_jdwp_tracker_service_socket, and jdwp_tracker_ready, which the OPEN
\* that made it calls: the first list.
OpenTracker(t) ==
    /\ trk[t].life = "none"
    /\ trk' = [trk EXCEPT ![t] = [life |-> "open", seen |-> PidList(plist, vm, MaxFirst), unread |-> 1]]
    /\ UNCHANGED <<vm, plist, dbg>>

\* The other side's READY: need_update is 0, so that nothing is sent.
TrackerReady(t) ==
    /\ trk[t].life = "open" /\ trk[t].unread > 0
    /\ trk' = [trk EXCEPT ![t].unread = @ - 1]
    /\ UNCHANGED <<vm, plist, dbg>>

\* create_jdwp_service_socket and jdwp_socket_ready: the list on the first call,
\* the end on the second.
OpenList(t) ==
    /\ trk[t].life = "none"
    /\ trk' = [trk EXCEPT ![t] = [life |-> "list", seen |-> PidList(plist, vm, MaxFirst), unread |-> 1]]
    /\ UNCHANGED <<vm, plist, dbg>>

ListReady(t) ==
    /\ trk[t].life = "list"
    /\ trk' = [trk EXCEPT ![t] = [life |-> "closed", seen |-> <<>>, unread |-> 0]]
    /\ UNCHANGED <<vm, plist, dbg>>

\* jdwp_tracker_close: the client has gone, or has written to the tracker.
CloseTracker(t) ==
    /\ trk[t].life = "open"
    /\ trk' = [trk EXCEPT ![t] = [life |-> "closed", seen |-> <<>>, unread |-> 0]]
    /\ UNCHANGED <<vm, plist, dbg>>

-----------------------------------------------------------------------------
(* The processes                                                           *)

VmConnect(v) ==
    /\ vm[v].app = "new"
    /\ vm' = [vm EXCEPT ![v].app = "running", ![v].conn = "backlog"]
    /\ UNCHANGED <<plist, dbg, trk>>

VmWrite(v) ==
    /\ vm[v].app = "running" /\ vm[v].sent < 2
    /\ \E ok \in {TRUE, vm[v].sent = 0} : vm' = [vm EXCEPT ![v].sent = @ + 1, ![v].text = ok]
    /\ UNCHANGED <<plist, dbg, trk>>

VmDies(v) ==
    /\ vm[v].app = "running"
    /\ vm' = [vm EXCEPT ![v].app = "dead"]
    /\ UNCHANGED <<plist, dbg, trk>>

-----------------------------------------------------------------------------
(* The connections                                                         *)

\* jdwp_control_event: accept and jdwp_process_alloc; a process that has died
\* already may make accept fail.
ControlEvent(v) ==
    /\ vm[v].conn = "backlog"
    /\ \/ /\ vm' = [vm EXCEPT ![v].conn = "open"]
          /\ plist' = Append(plist, v)
       \/ /\ vm[v].app = "dead"
          /\ vm' = [vm EXCEPT ![v].conn = "closed"]
          /\ UNCHANGED plist
    /\ UNCHANGED <<dbg, trk>>

\* Mutants: the fds that wait are not closed; the trackers are not told.
FreeKeepsFds(v) ==
    LET vms == [vm EXCEPT ![v].conn = "closed", ![v].pid = FALSE, ![v].out = <<>>, ![v].want = FALSE]
        list == SelectSeq(plist, LAMBDA w : w # v)
    IN  vm' = vms /\ plist' = list /\ trk' = Told(list, vms) /\ UNCHANGED dbg
FreeSilent(v) ==
    /\ vm' = [vm EXCEPT ![v].conn = "closed", ![v].pid = FALSE, ![v].out = <<>>, ![v].want = FALSE]
    /\ plist' = SelectSeq(plist, LAMBDA w : w # v)
    /\ dbg' = [d \in Debuggers |-> IF d \in ToSet(vm[v].out) THEN [dbg[d] EXCEPT !.at = "closed"] ELSE dbg[d]]
    /\ UNCHANGED trk

\* jdwp_process_free.
Free(v) ==
    LET vms == [vm EXCEPT ![v].conn = "closed", ![v].pid = FALSE, ![v].out = <<>>, ![v].want = FALSE]
        list == SelectSeq(plist, LAMBDA w : w # v)
    IN  /\ vm' = vms /\ plist' = list
        /\ dbg' = [d \in Debuggers |-> IF d \in ToSet(vm[v].out) THEN [dbg[d] EXCEPT !.at = "closed"] ELSE dbg[d]]
        /\ trk' = Told(list, vms)

\* jdwp_process_event with FDE_READ, before the pid is known: what has arrived
\* is read, and the pid decoded once it is complete;
ReadPid(v) ==
    /\ vm[v].conn = "open" /\ ~vm[v].pid
    /\ \/ /\ vm[v].got < vm[v].sent /\ vm[v].sent < 2 /\ vm[v].app = "running"
          /\ vm' = [vm EXCEPT ![v].got = vm[v].sent]
          /\ UNCHANGED <<plist, dbg, trk>>
       \/ /\ vm[v].sent = 2 /\ vm[v].text
          /\ LET vms == [vm EXCEPT ![v].got = 2, ![v].pid = TRUE] IN
             vm' = vms /\ trk' = Told(plist, vms)
          /\ UNCHANGED <<plist, dbg>>
       \/ /\ vm[v].sent = 2 /\ ~vm[v].text /\ Free(v)
       \/ /\ vm[v].sent < 2 /\ vm[v].app = "dead" /\ Free(v)

\* and after: only the end of the stream is of interest.
ReadEnd(v) == vm[v].conn = "open" /\ vm[v].pid /\ vm[v].app = "dead" /\ Free(v)

\* if (--proc->out_count == 0) fdevent_del
StillWant(rest) == rest # <<>>

\* With FDE_WRITE: the first fd is sent and closed here; if the process has
\* died, sendmsg may fail, and the connection is closed.
WriteFd(v) ==
    LET d == Head(vm[v].out) IN
    /\ vm[v].conn = "open" /\ vm[v].want
    /\ \/ /\ vm' = [vm EXCEPT ![v].out = Tail(@), ![v].want = StillWant(Tail(vm[v].out))]
          /\ dbg' = [dbg EXCEPT ![d].at = "sent"]
          /\ UNCHANGED <<plist, trk>>
       \/ vm[v].app = "dead" /\ Free(v)

\* create_jdwp_connection_fd: the first process on the list with the pid.
Connect(d, pid) ==
    LET with == SelectSeq(plist, LAMBDA v : vm[v].pid /\ Pid[v] = pid) IN
    /\ dbg[d].at = "none"
    /\ IF with # <<>> /\ Len(vm[Head(with)].out) < MaxOut
       THEN /\ vm' = [vm EXCEPT ![Head(with)].out = Append(@, d), ![Head(with)].want = TRUE]
            /\ dbg' = [dbg EXCEPT ![d] = [at |-> "waits", vm |-> Head(with)]]
       ELSE /\ dbg' = [dbg EXCEPT ![d].at = "refused"]
            /\ UNCHANGED vm
    /\ UNCHANGED <<plist, trk>>

-----------------------------------------------------------------------------
JdwpEvent(v) == ControlEvent(v) \/ ReadPid(v) \/ ReadEnd(v) \/ WriteFd(v)

JdwpNext ==
    \/ \E v \in Vms : VmConnect(v) \/ VmWrite(v) \/ VmDies(v) \/ JdwpEvent(v)
    \/ \E t \in Trackers : OpenTracker(t) \/ TrackerReady(t) \/ CloseTracker(t) \/ OpenList(t) \/ ListReady(t)
    \/ \E d \in Debuggers : \E v \in Vms : Connect(d, Pid[v])

JdwpSpec == JdwpInit /\ [][JdwpNext]_jdwp_vars

-----------------------------------------------------------------------------
(* Properties                                                              *)

\* The last list a tracker was sent is the list as far as its buffer holds it, that
\* of jdwp_tracker_ready or that of jdwp_process_list_updated: nothing that changes
\* the list, at whatever point of a connection, leaves a tracker out.
TrackersFresh ==
    \A t \in Trackers : trk[t].life = "open" =>
       trk[t].seen \in {PidList(plist, vm, max) : max \in {MaxFirst, MaxUpdate}}

\* An fd that waits is in the out_fds of one process that is still on the list,
\* whose FDE_WRITE is asked for, in at most MAX_OUT_FDS places.
WaitingExact ==
    /\ \A v \in Vms : /\ vm[v].want <=> vm[v].out # <<>>
                      /\ Len(vm[v].out) <= MaxOut
                      /\ \A k \in DOMAIN vm[v].out : dbg[vm[v].out[k]] = [at |-> "waits", vm |-> v]
    /\ \A d \in Debuggers : dbg[d].at = "waits" =>
          /\ vm[dbg[d].vm].conn = "open" /\ dbg[d].vm \in ToSet(plist)
          /\ Cardinality({k \in DOMAIN vm[dbg[d].vm].out : vm[dbg[d].vm].out[k] = d}) = 1

\* Both: trackers have what fits of the list, and an fd that waits is where it will be passed on
\* or closed, whenever a process connects, sends its pid or dies.
JdwpExact == TrackersFresh /\ WaitingExact
=============================================================================
