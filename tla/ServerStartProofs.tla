-------------------------- MODULE ServerStartProofs -------------------------
(***************************************************************************)
(* Any number of commands of one version agree on one server.              *)
(***************************************************************************)
EXTENDS ServerStart, TLAPS

\* Servers keep their version and do not go back to "none", so that one version
\* now was one version before.
LEMMA OneVersionBefore ==
    ASSUME UNCHANGED prog, OneVersion',
           \A s \in Servers : server'[s].version = server[s].version
                              /\ (server'[s].pc = "none" => server[s].pc = "none")
    PROVE OneVersion
  BY DEF OneVersion

\* A step of command c that leaves the servers alone.
LEMMA CommandMoves ==
    ASSUME StartInv, NEW c \in Commands, UNCHANGED <<prog, server>>,
           NEW r \in [pc : CommandPlaces, at : Servers \cup {NoServer}, result : {-2, -1, 0, 1}],
           cmd' = [cmd EXCEPT ![c] = r],
           r.pc \in {"version", "asked", "kill", "killing", "launch"} => server[c].pc = "none",
           r.pc \in {"asked", "killing", "waits"} => r.at \in Servers,
           r.result < 0 => r.pc = "end",
           OneVersion => /\ r.pc \notin {"kill", "killing"}
                         /\ r.pc \in {"asked", "waits"} => server[r.at].pc \in {"bound", "loop"}
                         /\ r.pc = "command" => \E s \in Servers : server[s].pc = "loop"
                         /\ r.result < 0 => server[c].pc \in {"none", "dead"} /\ r.result = -1
    PROVE StartInv'
<1>1. cmd'[c] = r /\ \A d \in Commands : d # c => cmd'[d] = cmd[d]
  BY DEF StartInv, StartTypeOK
<1>2. StartTypeOK'
  BY DEF StartInv, StartTypeOK
<1>3. LaunchExact'
  BY <1>1 DEF StartInv, LaunchExact
<1>4. OneVersion' => NobodyKills'
  <2> SUFFICES ASSUME OneVersion' PROVE NobodyKills'
    OBVIOUS
  <2>1. OneVersion
    BY OneVersionBefore
  <2> QED BY <1>1, <2>1 DEF StartInv, NobodyKills, NobodyExits
<1> QED BY <1>2, <1>3, <1>4 DEF StartInv

\* Go and End, in the terms of CommandMoves.
LEMMA GoFacts ==
    ASSUME StartInv, NEW c \in Commands, NEW pc \in CommandPlaces, NEW s \in Servers \cup {NoServer},
           Go(c, pc, s)
    PROVE \E r \in [pc : CommandPlaces, at : Servers \cup {NoServer}, result : {-2, -1, 0, 1}] :
             cmd' = [cmd EXCEPT ![c] = r] /\ r.pc = pc /\ r.at = s /\ r.result = cmd[c].result
<1> DEFINE r == [cmd[c] EXCEPT !.pc = pc, !.at = s]
<1>1. cmd[c] \in [pc : CommandPlaces, at : Servers \cup {NoServer}, result : {-2, -1, 0, 1}]
  BY DEF StartInv, StartTypeOK
<1>2. /\ r \in [pc : CommandPlaces, at : Servers \cup {NoServer}, result : {-2, -1, 0, 1}]
      /\ r.pc = pc /\ r.at = s /\ r.result = cmd[c].result
  BY <1>1
<1>3. cmd' = [cmd EXCEPT ![c] = r]
  BY DEF Go, StartInv, StartTypeOK
<1> QED BY <1>2, <1>3

\* A command ends with a result and no connection.
LEMMA EndFacts ==
    ASSUME StartInv, NEW c \in Commands, NEW x \in {-2, -1, 0, 1}, End(c, x)
    PROVE \E r \in [pc : CommandPlaces, at : Servers \cup {NoServer}, result : {-2, -1, 0, 1}] :
             cmd' = [cmd EXCEPT ![c] = r] /\ r.pc = "end" /\ r.at = NoServer /\ r.result = x
<1> DEFINE r == [cmd[c] EXCEPT !.pc = "end", !.at = NoServer, !.result = x]
<1>1. cmd[c] \in [pc : CommandPlaces, at : Servers \cup {NoServer}, result : {-2, -1, 0, 1}]
  BY DEF StartInv, StartTypeOK
<1>2. /\ r \in [pc : CommandPlaces, at : Servers \cup {NoServer}, result : {-2, -1, 0, 1}]
      /\ r.pc = "end" /\ r.at = NoServer /\ r.result = x
  BY <1>1 DEF CommandPlaces
<1>3. cmd' = [cmd EXCEPT ![c] = r]
  BY DEF End, StartInv, StartTypeOK
<1> QED BY <1>2, <1>3

\* A command goes on, with the servers as they are.
LEMMA GoInv ==
    ASSUME StartInv, NEW c \in Commands, UNCHANGED <<prog, server>>, cmd[c].pc # "end",
           NEW pc \in CommandPlaces \ {"end"}, NEW s \in Servers \cup {NoServer}, Go(c, pc, s),
           pc \in {"version", "asked", "kill", "killing", "launch"} => server[c].pc = "none",
           pc \in {"asked", "killing", "waits"} => s \in Servers,
           OneVersion => /\ pc \notin {"kill", "killing"}
                         /\ pc \in {"asked", "waits"} => server[s].pc \in {"bound", "loop"}
                         /\ pc = "command" => \E x \in Servers : server[x].pc = "loop"
    PROVE StartInv'
<1>1. ~(cmd[c].result < 0)
  BY DEF StartInv, LaunchExact
<1>2. PICK r \in [pc : CommandPlaces, at : Servers \cup {NoServer}, result : {-2, -1, 0, 1}] :
         cmd' = [cmd EXCEPT ![c] = r] /\ r.pc = pc /\ r.at = s /\ r.result = cmd[c].result
  BY GoFacts
<1> QED BY <1>1, <1>2, CommandMoves

\* A command ends, with the servers as they are.
LEMMA EndInv ==
    ASSUME StartInv, NEW c \in Commands, UNCHANGED <<prog, server>>, NEW x \in {-2, -1, 0, 1}, End(c, x),
           OneVersion /\ x < 0 => server[c].pc \in {"none", "dead"} /\ x = -1
    PROVE StartInv'
<1>1. PICK r \in [pc : CommandPlaces, at : Servers \cup {NoServer}, result : {-2, -1, 0, 1}] :
         cmd' = [cmd EXCEPT ![c] = r] /\ r.pc = "end" /\ r.at = NoServer /\ r.result = x
  BY EndFacts
<1> QED BY <1>1, CommandMoves

\* What the invariant says of one command.
LEMMA OneCommand ==
    ASSUME StartInv, NEW c \in Commands
    PROVE /\ cmd[c].pc \in {"version", "asked", "kill", "killing", "launch"} => server[c].pc = "none"
          /\ cmd[c].pc \in {"asked", "killing", "waits"} => cmd[c].at \in Servers
          /\ OneVersion => /\ prog[c].kind # "kill"
                           /\ cmd[c].pc \notin {"kill", "killing"}
                           /\ cmd[c].pc \in {"asked", "waits"} => server[cmd[c].at].pc \in {"bound", "loop"}
                           /\ cmd[c].pc = "command" => \E s \in Servers : server[s].pc = "loop"
  BY DEF StartInv, LaunchExact, NobodyKills, OneVersion

\* What the invariant says of one server when there is one version.
LEMMA OneServer ==
    ASSUME StartInv, OneVersion, NEW s \in Servers
    PROVE server[s].pc # "exits" /\ (server[s].pc = "dead" => ~server[s].acked)
<1>1. NobodyKills
  BY DEF StartInv
<1>2. NobodyExits
  BY <1>1 DEF NobodyKills
<1> QED BY <1>2 DEF NobodyExits

\* A server that a command can connect to.
LEMMA ListeningServer ==
    ASSUME StartInv, NEW s \in Listening
    PROVE s \in Servers /\ (OneVersion => server[s].pc \in {"bound", "loop"})
<1>1. s \in Servers /\ server[s].pc \in {"bound", "loop", "exits"}
  BY DEF Listening
<1>2. OneVersion => server[s].pc # "exits"
  BY <1>1, OneServer
<1> QED BY <1>1, <1>2

\* The steps of a command that only look at a server.
LEMMA AsksInv ==
    ASSUME StartInv, NEW c \in Commands,
           AskVersion(c) \/ GetVersion(c) \/ WaitOk(c) \/ SendCommand(c) \/ GetAnswer(c)
    PROVE StartInv'
<1>0. UNCHANGED <<prog, server>>
  BY DEF AskVersion, GetVersion, WaitOk, SendCommand, GetAnswer
<1>1. CASE AskVersion(c)
  <2>1. cmd[c].pc = "version" /\ server[c].pc = "none"
    BY <1>1, OneCommand DEF AskVersion
  <2>2. CASE Go(c, "launch", NoServer)
    BY <1>0, <2>1, <2>2, GoInv DEF CommandPlaces
  <2>3. ASSUME NEW s \in Listening, Go(c, "asked", s) PROVE StartInv'
    <3>1. s \in Servers /\ (OneVersion => server[s].pc \in {"bound", "loop"})
      BY ListeningServer
    <3> QED BY <1>0, <2>1, <2>3, <3>1, GoInv DEF CommandPlaces
  <2> QED BY <1>1, <2>2, <2>3 DEF AskVersion
<1>2. CASE GetVersion(c)
  <2>1. cmd[c].pc = "asked" /\ server[c].pc = "none" /\ cmd[c].at \in Servers
    BY <1>2, OneCommand DEF GetVersion
  <2>2. CASE server[cmd[c].at].pc = "loop" /\ server[cmd[c].at].version = prog[c].version /\ Go(c, "command", NoServer)
    BY <1>0, <2>1, <2>2, GoInv DEF CommandPlaces
  <2>3. CASE server[cmd[c].at].pc = "loop" /\ server[cmd[c].at].version # prog[c].version /\ Go(c, "kill", NoServer)
    <3>1. ~OneVersion
      BY <2>1, <2>3 DEF OneVersion
    <3> QED BY <1>0, <2>1, <2>3, <3>1, GoInv DEF CommandPlaces
  <2>4. CASE server[cmd[c].at].pc = "dead" /\ End(c, -1)
    BY <1>0, <2>1, <2>4, EndInv
  <2> QED BY <1>2, <2>2, <2>3, <2>4 DEF GetVersion
<1>3. CASE WaitOk(c)
  <2>1. cmd[c].pc = "wait_ok" /\ c \in Servers
    BY <1>3 DEF WaitOk, Servers
  <2>2. CASE server[c].acked /\ Go(c, "command", NoServer)
    <3>1. OneVersion => server[c].pc = "loop"
      <4>1. server[c].pc \in {"none", "init", "bound", "loop", "exits", "dead"}
        BY <2>1 DEF StartInv, StartTypeOK
      <4>2. server[c].pc \notin {"none", "init", "bound"}
        BY <2>1, <2>2 DEF StartInv, LaunchExact
      <4> QED BY <2>1, <2>2, <4>1, <4>2, OneServer
    <3> QED BY <1>0, <2>1, <2>2, <3>1, GoInv DEF CommandPlaces
  <2>3. CASE server[c].pc = "dead" /\ End(c, -1)
    BY <1>0, <2>3, EndInv
  <2> QED BY <1>3, <2>2, <2>3 DEF WaitOk
<1>4. CASE SendCommand(c)
  <2>1. cmd[c].pc = "command"
    BY <1>4 DEF SendCommand
  <2>2. CASE End(c, 0)
    BY <1>0, <2>2, EndInv
  <2>3. CASE Listening = {} /\ End(c, -2)
    <3>1. ~OneVersion
      BY <2>1, <2>3, OneCommand DEF Listening
    <3> QED BY <1>0, <2>3, <3>1, EndInv
  <2>4. ASSUME NEW s \in Listening, Go(c, "waits", s) PROVE StartInv'
    <3>1. s \in Servers /\ (OneVersion => server[s].pc \in {"bound", "loop"})
      BY ListeningServer
    <3> QED BY <1>0, <2>1, <2>4, <3>1, GoInv DEF CommandPlaces
  <2> QED BY <1>4, <2>2, <2>3, <2>4 DEF SendCommand
<1>5. CASE GetAnswer(c)
  <2>1. cmd[c].pc = "waits"
    BY <1>5 DEF GetAnswer
  <2>2. CASE End(c, 0)
    BY <1>0, <2>2, EndInv
  <2>3. CASE server[cmd[c].at].pc = "dead" /\ End(c, -1)
    <3>1. ~OneVersion
      BY <2>1, <2>3, OneCommand
    <3> QED BY <1>0, <2>3, <3>1, EndInv
  <2> QED BY <1>5, <2>2, <2>3 DEF GetAnswer
<1> QED BY <1>1, <1>2, <1>3, <1>4, <1>5

\* What a command does after a kill that changed no server.
LEMMA AfterKillInv ==
    ASSUME StartInv, NEW c \in Commands, UNCHANGED <<prog, server>>, cmd[c].pc \in {"kill", "killing"},
           NEW x \in {0, 1}, AfterKill(c, x)
    PROVE StartInv'
<1>1. server[c].pc = "none"
  BY OneCommand
<1>2. CASE End(c, x)
  BY <1>2, EndInv
<1>3. CASE Go(c, "launch", NoServer)
  BY <1>1, <1>3, GoInv DEF CommandPlaces
<1> QED BY <1>2, <1>3 DEF AfterKill

\* host:kill is sent only where there is a second version or kill-server.
LEMMA SendKillInv ==
    ASSUME StartInv, NEW c \in Commands, SendKill(c)
    PROVE StartInv'
<1>1. cmd[c].pc = "kill" /\ UNCHANGED <<prog, server>> /\ server[c].pc = "none" /\ ~OneVersion
  BY OneCommand DEF SendKill
<1>2. CASE AfterKill(c, 0)
  BY <1>1, <1>2, AfterKillInv
<1>3. ASSUME NEW s \in Listening, Go(c, "killing", s) PROVE StartInv'
  BY <1>1, <1>3, GoInv DEF CommandPlaces, Listening
<1> QED BY <1>2, <1>3 DEF SendKill

\* A server that is there is killed.
LEMMA KilledInv ==
    ASSUME StartInv, NEW c \in Commands, Killed(c)
    PROVE StartInv'
<1> DEFINE CmdType == [pc : CommandPlaces, at : Servers \cup {NoServer}, result : {-2, -1, 0, 1}]
           s == cmd[c].at
<1>1. cmd[c].pc = "killing" /\ UNCHANGED prog /\ server[c].pc = "none" /\ ~OneVersion /\ s \in Servers
  BY OneCommand DEF Killed
<1>2. CASE UNCHANGED server /\ AfterKill(c, 1)
  BY <1>1, <1>2, AfterKillInv
<1>3. CASE server[s].pc = "loop" /\ server' = [server EXCEPT ![s].pc = "exits"] /\ AfterKill(c, 0)
  <2>1. PICK r \in CmdType : /\ cmd' = [cmd EXCEPT ![c] = r]
                             /\ \/ r.pc = "end" /\ r.result = 0
                                \/ r.pc = "launch" /\ r.result = cmd[c].result
    <3>1. CASE End(c, 0)
      BY <3>1, EndFacts
    <3>2. CASE Go(c, "launch", NoServer)
      BY <3>2, GoFacts DEF CommandPlaces
    <3> QED BY <1>3, <3>1, <3>2 DEF AfterKill
  <2>2. cmd'[c] = r /\ \A d \in Commands : d # c => cmd'[d] = cmd[d]
    BY <2>1 DEF StartInv, StartTypeOK
  <2>3. /\ server' \in [Servers -> [pc : {"none", "init", "bound", "loop", "exits", "dead"}, version : Versions,
                                    acked : BOOLEAN, pipe : BOOLEAN]]
        /\ server'[s].pc = "exits" /\ server'[s].version = server[s].version
        /\ \A x \in Servers : x # s => server'[x] = server[x]
    BY <1>1, <1>3 DEF StartInv, StartTypeOK
  <2> HIDE DEF s
  <2>4. StartTypeOK'
    BY <1>1, <2>1, <2>3 DEF StartInv, StartTypeOK
  <2>5. \A d \in Commands : d \in Servers /\ (server[d].pc = "none" => server'[d].pc = "none")
    BY <1>3, <2>3 DEF Servers
  <2>6. LaunchExact'
    <3>1. ASSUME NEW d \in Commands
          PROVE /\ cmd'[d].pc \in {"version", "asked", "kill", "killing", "launch"} => server'[d].pc = "none"
                /\ cmd'[d].pc \in {"asked", "killing", "waits"} => cmd'[d].at \in Servers
                /\ cmd'[d].result < 0 => cmd'[d].pc = "end"
      <4>1. CASE d = c
        BY <1>1, <2>1, <2>2, <2>5, <4>1 DEF StartInv, LaunchExact
      <4>2. CASE d # c
        BY <2>2, <2>5, <4>2 DEF StartInv, LaunchExact
      <4> QED BY <4>1, <4>2
    <3>2. \A x \in Servers : server'[x].pc \in {"none", "init", "bound"} => ~server'[x].acked
      BY <2>3 DEF StartInv, LaunchExact
    <3> QED BY <3>1, <3>2 DEF LaunchExact
  <2>7. ~OneVersion'
    <3>1. \A x \in Servers : server'[x].version = server[x].version
                             /\ (server'[x].pc = "none" => server[x].pc = "none")
      BY <2>3
    <3> QED BY <1>1, <3>1, OneVersionBefore
  <2> QED BY <2>4, <2>6, <2>7 DEF StartInv
<1> QED BY <1>2, <1>3 DEF Killed

\* launch_server: the server is new, and so it has not said OK.
LEMMA LaunchInv ==
    ASSUME StartInv, NEW c \in Commands, Launch(c)
    PROVE StartInv'
<1>1. cmd[c].pc = "launch" /\ UNCHANGED prog /\ server[c].pc = "none" /\ c \in Servers
  BY OneCommand DEF Launch, Servers
<1>2. CASE UNCHANGED server /\ End(c, -1)
  BY <1>1, <1>2, EndInv
<1>3. CASE /\ server' = [server EXCEPT ![c].pc = "init", ![c].pipe = WriteEndAfterLaunch]
           /\ Go(c, "wait_ok", NoServer)
  <2>1. PICK r \in [pc : CommandPlaces, at : Servers \cup {NoServer}, result : {-2, -1, 0, 1}] :
           cmd' = [cmd EXCEPT ![c] = r] /\ r.pc = "wait_ok" /\ r.result = cmd[c].result
    BY <1>3, GoFacts DEF CommandPlaces
  <2>2. cmd'[c] = r /\ \A d \in Commands : d # c => cmd'[d] = cmd[d]
    BY <2>1 DEF StartInv, StartTypeOK
  <2>3. /\ server' \in [Servers -> [pc : {"none", "init", "bound", "loop", "exits", "dead"}, version : Versions,
                                    acked : BOOLEAN, pipe : BOOLEAN]]
        /\ server'[c].pc = "init" /\ server'[c].version = server[c].version /\ server'[c].acked = server[c].acked
        /\ \A x \in Servers : x # c => server'[x] = server[x]
    BY <1>1, <1>3 DEF StartInv, StartTypeOK, WriteEndAfterLaunch
  <2>4. StartTypeOK'
    BY <1>1, <2>1, <2>3 DEF StartInv, StartTypeOK
  <2>5. ~(cmd[c].result < 0) /\ ~server[c].acked /\ Commands \subseteq Servers
    BY <1>1 DEF StartInv, LaunchExact, Servers
  <2>6. LaunchExact'
    BY <1>1, <2>1, <2>2, <2>3, <2>5 DEF StartInv, LaunchExact
  <2>7. ASSUME OneVersion' PROVE NobodyKills'
    <3>1. \A x \in Servers : server'[x].version = server[x].version
                             /\ (server'[x].pc = "none" => server[x].pc = "none")
      BY <1>1, <2>3
    <3>2. OneVersion
      BY <1>1, <2>7, <3>1, OneVersionBefore
    <3>3. NobodyKills
      BY <3>2 DEF StartInv
    <3>4. \A x \in Servers : server[x].pc \in {"bound", "loop"} => server'[x] = server[x]
      BY <1>1, <2>3
    <3>5. ASSUME NEW d \in Commands
          PROVE /\ cmd'[d].pc \notin {"kill", "killing"}
                /\ cmd'[d].pc \in {"asked", "waits"} => server'[cmd'[d].at].pc \in {"bound", "loop"}
                /\ cmd'[d].pc = "command" => \E s \in Servers : server'[s].pc = "loop"
                /\ cmd'[d].result < 0 => server'[d].pc \in {"none", "dead"} /\ cmd'[d].result = -1
      <4>1. CASE d = c
        BY <2>1, <2>2, <2>5, <4>1
      <4>2. CASE d # c
        <5>1. cmd'[d] = cmd[d] /\ server'[d] = server[d]
          BY <2>2, <2>3, <2>5, <4>2
        <5>2. cmd[d].pc \in {"asked", "waits"} => cmd[d].at \in Servers
          BY OneCommand
        <5> QED BY <3>3, <3>4, <5>1, <5>2 DEF NobodyKills
      <4> QED BY <4>1, <4>2
    <3>6. \A x \in Servers : server'[x].pc # "exits" /\ (server'[x].pc = "dead" => ~server'[x].acked)
      <4>1. \A x \in Servers : server[x].pc # "exits" /\ (server[x].pc = "dead" => ~server[x].acked)
        BY <3>2, OneServer
      <4> QED BY <2>3, <4>1
    <3> QED BY <3>5, <3>6 DEF NobodyKills, NobodyExits
  <2> QED BY <2>4, <2>6, <2>7 DEF StartInv
<1> QED BY <1>2, <1>3 DEF Launch

\* adb_main: a server that has the port is the one a command may wait for.
LEMMA ServerStepInv ==
    ASSUME StartInv, NEW s \in Servers, ServerStep(s)
    PROVE StartInv'
<1> DEFINE SrvType == [pc : {"none", "init", "bound", "loop", "exits", "dead"}, version : Versions,
                       acked : BOOLEAN, pipe : BOOLEAN]
<1>1. UNCHANGED <<prog, cmd>>
  BY DEF ServerStep, Bind, Ack, ServerExits
<1>2. /\ server' \in [Servers -> SrvType] /\ server'[s].version = server[s].version
      /\ \A x \in Servers : x # s => server'[x] = server[x]
      /\ \/ server[s].pc = "init" /\ server'[s].pc \in {"bound", "dead"} /\ server'[s].acked = server[s].acked
         \/ server[s].pc = "bound" /\ server'[s].pc = "loop"
         \/ server[s].pc = "exits" /\ server'[s].pc = "dead" /\ server'[s].acked = server[s].acked
  <2>1. server \in [Servers -> SrvType]
    BY DEF StartInv, StartTypeOK
  <2>2. CASE Bind(s)
    BY <2>1, <2>2 DEF Bind
  <2>3. CASE Ack(s)
    BY <2>1, <2>3 DEF Ack
  <2>4. CASE ServerExits(s)
    BY <2>1, <2>4 DEF ServerExits
  <2> QED BY <2>2, <2>3, <2>4 DEF ServerStep
<1>3. StartTypeOK'
  BY <1>1, <1>2 DEF StartInv, StartTypeOK
<1>4. Commands \subseteq Servers
  BY DEF Servers
<1>5. LaunchExact'
  BY <1>1, <1>2, <1>4 DEF StartInv, LaunchExact
<1>6. ASSUME OneVersion' PROVE NobodyKills'
  <2>1. OneVersion
    BY <1>1, <1>2, <1>6, OneVersionBefore
  <2>2. NobodyKills
    BY <2>1 DEF StartInv
  <2>3. \A x \in Servers : /\ server[x].pc \in {"bound", "loop"} => server'[x].pc \in {"bound", "loop"}
                           /\ server[x].pc = "loop" => server'[x].pc = "loop"
                           /\ server[x].pc \in {"none", "dead"} => server'[x].pc \in {"none", "dead"}
    BY <1>2
  <2>4. ASSUME NEW d \in Commands
        PROVE /\ cmd'[d].pc \notin {"kill", "killing"}
              /\ cmd'[d].pc \in {"asked", "waits"} => server'[cmd'[d].at].pc \in {"bound", "loop"}
              /\ cmd'[d].pc = "command" => \E x \in Servers : server'[x].pc = "loop"
              /\ cmd'[d].result < 0 => server'[d].pc \in {"none", "dead"} /\ cmd'[d].result = -1
    <3>1. cmd'[d] = cmd[d] /\ d \in Servers /\ (cmd[d].pc \in {"asked", "waits"} => cmd[d].at \in Servers)
      BY <1>1, <1>4, OneCommand
    <3> QED BY <2>2, <2>3, <3>1 DEF NobodyKills
  <2>5. \A x \in Servers : server'[x].pc # "exits" /\ (server'[x].pc = "dead" => ~server'[x].acked)
    <3>1. \A x \in Servers : server[x].pc # "exits" /\ (server[x].pc = "dead" => ~server[x].acked)
      BY <2>1, OneServer
    <3>2. server[s].pc = "init" => ~server[s].acked
      BY DEF StartInv, LaunchExact
    <3>3. ASSUME NEW x \in Servers
          PROVE server'[x].pc # "exits" /\ (server'[x].pc = "dead" => ~server'[x].acked)
      <4>1. CASE x = s
        BY <1>2, <3>1, <3>2, <4>1
      <4>2. CASE x # s
        BY <1>2, <3>1, <4>2
      <4> QED BY <4>1, <4>2
    <3> QED BY <3>3
  <2> QED BY <2>4, <2>5 DEF NobodyKills, NobodyExits
<1> QED BY <1>3, <1>5, <1>6 DEF StartInv

\* Commands begin without a server of their own.
LEMMA StartInitInv == StartInit => StartInv
<1> SUFFICES ASSUME StartInit PROVE StartInv
  OBVIOUS
<1>1. PICK there \in BOOLEAN, old \in OldVersions :
         server = [s \in Servers |-> [pc |-> IF s = OldServer /\ there THEN "loop" ELSE "none",
                                      version |-> IF s = OldServer THEN old ELSE prog[s].version,
                                      acked |-> FALSE, pipe |-> FALSE]]
  BY DEF StartInit
<1>2. /\ prog \in [Commands -> UNION {Programs[c] : c \in Commands}]
      /\ cmd = [c \in Commands |-> [pc |-> IF prog[c].kind = "kill" THEN "kill" ELSE "version",
                                    at |-> NoServer, result |-> 1]]
  BY DEF StartInit
<1>3. ASSUME NEW s \in Servers
      PROVE /\ server[s].pc = (IF s = OldServer /\ there THEN "loop" ELSE "none")
            /\ ~server[s].acked
            /\ server[s] \in [pc : {"none", "init", "bound", "loop", "exits", "dead"}, version : Versions,
                              acked : BOOLEAN, pipe : BOOLEAN]
  <2>1. s # OldServer => prog[s].version \in Versions
    BY <1>2 DEF Versions, Servers
  <2>2. old \in Versions
    BY DEF Versions
  <2> QED BY <1>1, <2>1, <2>2
<1>4. ASSUME NEW c \in Commands
      PROVE /\ cmd[c].pc = (IF prog[c].kind = "kill" THEN "kill" ELSE "version") /\ cmd[c].result = 1
            /\ cmd[c] \in [pc : CommandPlaces, at : Servers \cup {NoServer}, result : {-2, -1, 0, 1}]
            /\ c \in Servers /\ c # OldServer
  BY <1>2, CommandAssumption DEF CommandPlaces, Servers
<1>5. StartTypeOK
  BY <1>1, <1>2, <1>3, <1>4 DEF StartTypeOK
<1>6. LaunchExact
  BY <1>3, <1>4 DEF LaunchExact
<1>7. OneVersion => NobodyKills
  BY <1>3, <1>4 DEF OneVersion, NobodyKills, NobodyExits
<1> QED BY <1>5, <1>6, <1>7 DEF StartInv

\* The invariant holds for any number of commands of any versions.
THEOREM StartInvariance == StartSpec => []StartInv
<1>1. StartInv /\ [StartNext]_start_vars => StartInv'
  <2> SUFFICES ASSUME StartInv, [StartNext]_start_vars PROVE StartInv'
    OBVIOUS
  <2>1. CASE \E c \in Commands : CommandStep(c)
    BY <2>1, AsksInv, SendKillInv, KilledInv, LaunchInv DEF CommandStep
  <2>2. CASE \E s \in Servers : ServerStep(s)
    BY <2>2, ServerStepInv
  <2>3. CASE UNCHANGED start_vars
    BY <2>3 DEF start_vars, StartInv, StartTypeOK, LaunchExact, OneVersion, NobodyKills, NobodyExits
  <2> QED BY <2>1, <2>2, <2>3 DEF StartNext
<1> QED BY <1>1, StartInitInv, PTL DEF StartSpec

\* Any number of commands of one version that start at once agree on one server:
\* adb_connect fails only in a command whose own server found the port taken or
\* could not be launched.
THEOREM OneServerForAll == StartSpec => []StartedIsUp
<1>1. StartInv => StartedIsUp
  <2> SUFFICES ASSUME StartInv, OneVersion, NEW c \in Commands, cmd[c].result < 0
               PROVE server[c].pc \in {"none", "dead"} /\ ~server[c].acked /\ cmd[c].result = -1
    BY DEF StartedIsUp
  <2>1. c \in Servers
    BY DEF Servers
  <2> QED BY <2>1, OneServer DEF StartInv, NobodyKills, LaunchExact
<1> QED BY <1>1, StartInvariance, PTL
=============================================================================
