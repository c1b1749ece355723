---------------------------- MODULE ServerStart ----------------------------
(***************************************************************************)
(* How adb commands find the server, start it, and replace one of another  *)
(* version (adb_client.cpp, launch_server and adb_main in adb.cpp).        *)
(*                                                                         *)
(* Commands are processes that run at the same time.  A sleep gives no     *)
(* order: whatever may happen during it may happen after it.  The server   *)
(* is on this machine; a command for a server elsewhere starts none.       *)
(***************************************************************************)
EXTENDS Integers, FiniteSets

CONSTANTS Commands,   \* adb processes
          Programs,   \* Programs[c]: what it may be, [kind |-> "start" (start-server),
                      \* "kill" (kill-server) or "other", version |-> ADB_SERVER_VERSION]
          OldServer,  \* a server that may be there already
          OldVersions, \* the versions it may have
          MaxLaunchErrors, \* bound: times that no process can be made
          NoServer

ASSUME CommandAssumption ==
    /\ OldServer \notin Commands /\ NoServer \notin Commands \cup {OldServer}
    /\ \A c \in Commands, p \in UNION {Programs[d] : d \in Commands} :
          p.kind \in {"start", "kill", "other"} /\ Programs[c] # {}
ASSUME LaunchBound == MaxLaunchErrors \in Nat

VARIABLES prog,    \* prog[c]: which of its Programs command c is
          cmd,     \* cmd[c]: where a command is, the server it is connected to, how it ended
          server,  \* server[s]: the server that command s launched, and the old one
          misses   \* launches that failed

start_vars == <<prog, cmd, server, misses>>

\* A command launches one server at most.
Servers == Commands \cup {OldServer}

\* `acked`: "OK" is in the pipe; `pipe`: the parent still holds its write end.
StartInit ==
    /\ prog \in [Commands -> UNION {Programs[c] : c \in Commands}]
    /\ \A c \in Commands : prog[c] \in Programs[c]
    /\ cmd = [c \in Commands |-> [pc |-> IF prog[c].kind = "kill" THEN "kill" ELSE "version",
                                  at |-> NoServer, result |-> 1]]
    /\ \E there \in BOOLEAN, old \in OldVersions :
          server = [s \in Servers |-> [pc |-> IF s = OldServer /\ there THEN "loop" ELSE "none",
                                       version |-> IF s = OldServer THEN old ELSE prog[s].version,
                                       acked |-> FALSE, pipe |-> FALSE]]
    /\ misses = 0

\* The port is bound, so that a connection is made, if only to wait.
Listening == {s \in Servers : server[s].pc \in {"bound", "loop", "exits"}}

Go(c, pc, s) == cmd' = [cmd EXCEPT ![c].pc = pc, ![c].at = s]
End(c, r) == cmd' = [cmd EXCEPT ![c].pc = "end", ![c].at = NoServer, ![c].result = r]

-----------------------------------------------------------------------------
(* adb_connect                                                             *)

\* _adb_connect("host:version")
AskVersion(c) ==
    /\ cmd[c].pc = "version"
    /\ IF Listening = {} THEN Go(c, "launch", NoServer)
       ELSE \E s \in Listening : Go(c, "asked", s)
    /\ UNCHANGED <<prog, server, misses>>

\* The answer, or the end of the connection when the server has been killed.
GetVersion(c) ==
    LET s == cmd[c].at IN
    /\ cmd[c].pc = "asked"
    /\ \/ /\ server[s].pc = "loop"
          /\ Go(c, IF server[s].version = prog[c].version THEN "command" ELSE "kill", NoServer)
       \/ server[s].pc = "dead" /\ End(c, -1)
    /\ UNCHANGED <<prog, server, misses>>

\* What a command does once it has tried to kill a server.
AfterKill(c, r) == IF prog[c].kind = "kill" THEN End(c, r) ELSE Go(c, "launch", NoServer)

\* _adb_connect("host:kill"), whichever server it reaches by now,
SendKill(c) ==
    /\ cmd[c].pc = "kill"
    /\ IF Listening = {} THEN AfterKill(c, 0)
       ELSE \E s \in Listening : Go(c, "killing", s)
    /\ UNCHANGED <<prog, server, misses>>

\* which answers OKAY; it has the port until it has exited.
Killed(c) ==
    LET s == cmd[c].at IN
    /\ cmd[c].pc = "killing"
    /\ \/ server[s].pc = "loop" /\ server' = [server EXCEPT ![s].pc = "exits"] /\ AfterKill(c, 0)
       \/ server[s].pc = "dead" /\ UNCHANGED server /\ AfterKill(c, 1)
    /\ UNCHANGED <<prog, misses>>

\* Mutant: the parent keeps its copy of the write end.
WriteEndAfterLaunchKept == TRUE

\* CloseHandle(pipe_write)
WriteEndAfterLaunch == FALSE

\* launch_server: a pipe and a process.
Launch(c) ==
    /\ cmd[c].pc = "launch"
    /\ \/ /\ server' = [server EXCEPT ![c].pc = "init", ![c].pipe = WriteEndAfterLaunch]
          /\ Go(c, "wait_ok", NoServer)
          /\ UNCHANGED <<prog, misses>>
       \/ /\ misses < MaxLaunchErrors /\ misses' = misses + 1
          /\ End(c, -1)
          /\ UNCHANGED <<prog, server>>

\* ReadFile returns the "OK", or nothing once no process has the write end.
WaitOk(c) ==
    /\ cmd[c].pc = "wait_ok"
    /\ \/ server[c].acked /\ Go(c, "command", NoServer)
       \/ ~server[c].acked /\ server[c].pc = "dead" /\ ~server[c].pipe /\ End(c, -1)
    /\ UNCHANGED <<prog, server, misses>>

\* The command proper, on a connection of its own; start-server has none.
SendCommand(c) ==
    /\ cmd[c].pc = "command"
    /\ IF prog[c].kind = "start" THEN End(c, 0)
       ELSE IF Listening = {} THEN End(c, -2)
       ELSE \E s \in Listening : Go(c, "waits", s)
    /\ UNCHANGED <<prog, server, misses>>

GetAnswer(c) ==
    /\ cmd[c].pc = "waits"
    /\ \/ server[cmd[c].at].pc = "loop" /\ End(c, 0)
       \/ server[cmd[c].at].pc = "dead" /\ End(c, -1)
    /\ UNCHANGED <<prog, server, misses>>

-----------------------------------------------------------------------------
(* adb_main                                                                *)

\* Mutant: "OK" is written before the port is bound.
BindAcksFirst(s) ==
    /\ server[s].pc = "init"
    /\ server' = IF server[s].acked
                 THEN [server EXCEPT ![s].pc = IF Listening = {} THEN "bound" ELSE "dead"]
                 ELSE [server EXCEPT ![s].acked = TRUE]
    /\ UNCHANGED <<prog, cmd, misses>>

\* install_listener: without the port the server exits.
Bind(s) ==
    /\ server[s].pc = "init"
    /\ server' = [server EXCEPT ![s].pc = IF Listening = {} THEN "bound" ELSE "dead"]
    /\ UNCHANGED <<prog, cmd, misses>>

\* "OK" to the parent, and the event loop.
Ack(s) ==
    /\ server[s].pc = "bound"
    /\ server' = [server EXCEPT ![s].pc = "loop", ![s].acked = TRUE]
    /\ UNCHANGED <<prog, cmd, misses>>

\* exit(0), after usb_cleanup.
ServerExits(s) ==
    /\ server[s].pc = "exits"
    /\ server' = [server EXCEPT ![s].pc = "dead"]
    /\ UNCHANGED <<prog, cmd, misses>>

-----------------------------------------------------------------------------
CommandStep(c) == \/ AskVersion(c) \/ GetVersion(c) \/ SendKill(c) \/ Killed(c) \/ Launch(c)
                  \/ WaitOk(c) \/ SendCommand(c) \/ GetAnswer(c)
ServerStep(s) == Bind(s) \/ Ack(s) \/ ServerExits(s)

StartNext == (\E c \in Commands : CommandStep(c)) \/ (\E s \in Servers : ServerStep(s))
StartSpec == StartInit /\ [][StartNext]_start_vars

-----------------------------------------------------------------------------
(* Properties                                                              *)

\* Every command comes to an end, with or without a server, however many start
\* at once and whoever kills whom.
CommandsEnd == <>(\A c \in Commands : cmd[c].pc = "end")

\* The servers that there have been are of the commands' version, and no command
\* is kill-server.
OneVersion ==
    \A c \in Commands : /\ prog[c].kind # "kill"
                        /\ \A s \in Servers : server[s].pc # "none" => server[s].version = prog[c].version

\* Programs of one version agree on one server: a command never ends with "daemon
\* still not running" (-2), and one whose server said OK never ends with an error (-1),
\* unless a user kills the server.  An error is left to a command that could make no
\* process or whose own server found the port taken.
StartedIsUp ==
    OneVersion => \A c \in Commands :
                     cmd[c].result < 0 => /\ server[c].pc \in {"none", "dead"} /\ ~server[c].acked
                                          /\ cmd[c].result = -1

CommandPlaces == {"version", "asked", "kill", "killing", "launch", "wait_ok", "command", "waits", "end"}
Versions == OldVersions \cup {p.version : p \in UNION {Programs[c] : c \in Commands}}

StartTypeOK ==
    /\ prog \in [Commands -> UNION {Programs[c] : c \in Commands}]
    /\ cmd \in [Commands -> [pc : CommandPlaces, at : Servers \cup {NoServer}, result : {-2, -1, 0, 1}]]
    /\ server \in [Servers -> [pc : {"none", "init", "bound", "loop", "exits", "dead"}, version : Versions,
                               acked : BOOLEAN, pipe : BOOLEAN]]

\* A command launches its server once, and a server says OK once it has the port.
LaunchExact ==
    /\ \A c \in Commands :
          /\ cmd[c].pc \in {"version", "asked", "kill", "killing", "launch"} => server[c].pc = "none"
          /\ cmd[c].pc \in {"asked", "killing", "waits"} => cmd[c].at \in Servers
          /\ cmd[c].result < 0 => cmd[c].pc = "end"
    /\ \A s \in Servers : server[s].pc \in {"none", "init", "bound"} => ~server[s].acked

\* No server that said OK stops.
NobodyExits ==
    \A s \in Servers : server[s].pc # "exits" /\ (server[s].pc = "dead" => ~server[s].acked)

\* Without kill-server, and with one version, nobody kills: what a command has
\* found stays there.
NobodyKills ==
    /\ \A c \in Commands :
          /\ cmd[c].pc \notin {"kill", "killing"}
          /\ cmd[c].pc \in {"asked", "waits"} => server[cmd[c].at].pc \in {"bound", "loop"}
          /\ cmd[c].pc = "command" => \E s \in Servers : server[s].pc = "loop"
          /\ cmd[c].result < 0 => server[c].pc \in {"none", "dead"} /\ cmd[c].result = -1
    /\ NobodyExits

\* The inductive invariant.
StartInv == StartTypeOK /\ LaunchExact /\ (OneVersion => NobodyKills)
=============================================================================
