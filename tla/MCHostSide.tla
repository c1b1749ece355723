----------------------------- MODULE MCHostSide -----------------------------
(* One instance for TLC of the parts of the host's programs: starting the    *)
(* server and the server's clients.  They share no state, so a behaviour is  *)
(* a behaviour of one of them (`part`) while the other stays in one of its   *)
(* initial states.                                                           *)
EXTENDS ServerStart, MCHostServer

VARIABLE part

Program(kinds, versions) == [kind : kinds, version : versions]
MCPrograms == << Program({"start", "other"}, {31}), Program({"other"}, {30, 31}),
                 Program({"kill", "other"}, {31}) >>

MCInit ==
    /\ part \in {"start", "server"}
    /\ StartInit /\ (part # "start" => /\ \A c \in Commands : prog[c].kind = "other" /\ prog[c].version = 31
                                       /\ server[OldServer] = [pc |-> "none", version |-> 31,
                                                               acked |-> FALSE, pipe |-> FALSE])
    /\ HostInit

MCNext ==
    /\ UNCHANGED part
    /\ \/ part = "start" /\ StartNext /\ UNCHANGED host_vars
       \/ part = "server" /\ HostNext /\ UNCHANGED start_vars

\* Every process runs.
StartFairness ==
    /\ \A c \in Commands : WF_start_vars(part = "start" /\ CommandStep(c))
    /\ \A s \in Servers : WF_start_vars(part = "start" /\ ServerStep(s))

\* The wait-for threads run; nothing else is needed for a wait to return.
HostFairness ==
    \A c \in Conns : WF_host_vars(part = "server" /\ ListIntact /\ WaiterStep(c))

MCSpec == MCInit /\ [][MCNext]_<<part, start_vars, host_vars>> /\ StartFairness /\ HostFairness

\* CommandsEnd (ServerStart): every command that looks for, starts, replaces or
\* kills a server (adb_connect, launch_server) comes to an end.
StartCommandsEnd == part = "start" => CommandsEnd

\* WaitReturns (HostServer): wait_for_state returns when its device stays in the
\* state that is asked for.
HostWaitReturns == part = "server" => WaitReturns
=============================================================================
