------------------------------ MODULE FileSync ------------------------------
(***************************************************************************)
(* The sync protocol: "adb push", "adb pull", "adb sync" and "adb ls"      *)
(* (file_sync_client.cpp) against the service on the device                *)
(* (file_sync_service.c), over a stream that holds a few messages each     *)
(* way, so that writex waits when it is full.                              *)
(*                                                                         *)
(* A file is a sequence of blocks and a time.  A message and the data that *)
(* follows it are one message.  A reply says which file it is about, which *)
(* no program looks at.  Symbolic links are not modelled: the Windows      *)
(* client is built without HAVE_SYMLINKS.                                  *)
(***************************************************************************)
EXTENDS Integers, Sequences, FiniteSets, SequencesExt

CONSTANTS Files,      \* the files of a directory
          Dir,        \* the directory
          Capacity,   \* messages the stream holds in each direction
          MaxSyncErrors,  \* bound: calls to the file systems that fail
          NoFile

ASSUME FileAssumption == Dir \notin Files
\* The answers to the STATs of "adb sync" fit in the stream: with more files both
\* programs would wait in writex for ever.
ASSUME StatsFit == Cardinality(Files) <= 2 * Capacity
ASSUME SyncBounds == Capacity \in Nat \ {0} /\ MaxSyncErrors \in Nat

VARIABLES client,   \* the adb command
          service,  \* file_sync_service
          disk,     \* disk.local, disk.remote: the files of both sides
          pipe,     \* the stream, and whether each side still has it open
          errors    \* failed calls so far

sync_vars == <<client, service, disk, pipe, errors>>

Old == [data |-> <<"c", "c", "c">>, time |-> 1]
New == [data |-> <<"a", "b">>, time |-> 2]

\* The commands; "pull_shown" is "adb pull -p" of a file.  Some begin with
\* local_build_list.
DirJobs == {"push_dir", "sync", "sync_list"}
PullJobs == {"pull_dir", "pull_file", "pull_shown"}
Jobs == DirJobs \cup PullJobs \cup {"push_file", "ls"}

\* What a command does first.
FirstStep(job) == CASE job = "push_dir" -> "send"
                    [] job \in {"sync", "sync_list"} -> "stat"
                    [] job = "ls" -> "list"
                    [] OTHER -> "mode"

\* The files it names, or finds in the local directory.
FirstFiles(job) == CASE job \in {"push_file", "pull_file", "pull_shown"} -> SubSeq(SetToSeq(Files), 1, 1)
                     [] job \in DirJobs -> SetToSeq(Files)
                     [] OTHER -> <<>>

\* torn: files of which only a part could be read, or whose part could not be
\* unlinked; kept: files the device could not unlink before it wrote them; undated:
\* files whose time it could not set.
SyncInit ==
    /\ \E job \in Jobs :
          client = [job |-> job, pc |-> FirstStep(job), files |-> FirstFiles(job), k |-> 1, pos |-> 0,
                    skip |-> {}, done |-> {}, torn |-> {}, result |-> -1]
    /\ service = [pc |-> "cmd", f |-> Dir, open |-> FALSE, left |-> {}, pos |-> 0,
                  kept |-> {}, undated |-> {}]
    /\ disk \in [local : [Files -> {New}], remote : [Files -> {NoFile, Old, New}]]
    /\ pipe = [up |-> <<>>, down |-> <<>>, client |-> TRUE, service |-> TRUE]
    /\ errors = 0

\* n calls fail.
Failing(n) == errors + n <= MaxSyncErrors /\ errors' = errors + n
Fails == Failing(1)

\* What STAT tells of a file: nothing of its contents but the size.
Stat(file) == IF file = NoFile THEN [mode |-> "none", size |-> 0, time |-> 0]
              ELSE [mode |-> "file", size |-> Len(file.data), time |-> file.time]
StatDir == [mode |-> "dir", size |-> 0, time |-> 0]

\* A message about file f; `val` is what it carries besides.
Msg(id, f, val) == [id |-> id, f |-> f, val |-> val]

-----------------------------------------------------------------------------
(* The client                                                              *)

Current == client.files[client.k]
More == client.k <= Len(client.files)
Reply == Head(pipe.down)
Become(c) == client' = c
Following == [client EXCEPT !.k = @ + 1, !.pos = 0]

\* writex and readx of a whole message.
ClientPut(m) == pipe.service /\ Len(pipe.up) < Capacity /\ pipe' = [pipe EXCEPT !.up = Append(@, m)]
ClientGet == pipe.down # <<>> /\ pipe' = [pipe EXCEPT !.down = Tail(@)]

\* The command ends, which closes its end of the stream.
Exit(c, r) == [c EXCEPT !.pc = "exit", !.result = r]
ClientExit(r) == Become(Exit(client, r)) /\ pipe' = [pipe EXCEPT !.client = FALSE]
GetAndExit(r) ==
    /\ pipe.down # <<>>
    /\ Become(Exit(client, r)) /\ pipe' = [pipe EXCEPT !.client = FALSE, !.down = Tail(@)]

\* "adb sync -l" only names the files; those that are up to date are passed over.
PassedOver == Current \in client.skip \/ client.job = "sync_list"

Writing == \/ client.pc \in {"mode", "list", "size", "data", "finish"}
           \/ client.pc \in {"stat", "recv"} /\ More
           \/ client.pc = "send" /\ More /\ ~PassedOver
Reading == {"mode_reply", "dents", "size_reply", "stats", "status", "first", "rest"}

\* readx or writex fails: the service has closed the stream.
ClientFails ==
    /\ ~pipe.service
    /\ Writing \/ (client.pc \in Reading /\ pipe.down = <<>>)
    /\ ClientExit(1)
    /\ UNCHANGED <<service, disk, errors>>

\* sync_readmode: what is at the other end.
ReadMode ==
    /\ client.pc = "mode"
    /\ ClientPut(Msg("STAT", IF client.files = <<>> THEN Dir ELSE Current, ""))
    /\ Become([client EXCEPT !.pc = "mode_reply"])
    /\ UNCHANGED <<service, disk, errors>>

\* do_sync_push of one file: a directory there only changes the remote name.
DoSyncPush ==
    /\ client.pc = "mode_reply" /\ client.job = "push_file"
    /\ ClientGet
    /\ Become([client EXCEPT !.pc = "send"])
    /\ UNCHANGED <<service, disk, errors>>

\* do_sync_pull: nothing is there, or a file, or a directory to list.
DoSyncPull ==
    /\ client.pc = "mode_reply" /\ client.job # "push_file"
    /\ IF pipe.down # <<>> /\ Reply.val.mode = "none"
       THEN GetAndExit(1)
       ELSE ClientGet /\ Become([client EXCEPT !.pc = CASE client.files = <<>> -> "list"
                                                       [] client.job = "pull_shown" -> "size"
                                                       [] OTHER -> "recv"])
    /\ UNCHANGED <<service, disk, errors>>

\* remote_build_list: sync_ls_build_list_cb appends every file.
RemoteBuildList == [client EXCEPT !.files = Append(@, Reply.f)]

\* sync_ls, with the callback that builds the list of files to pull.
SyncLs ==
    /\ \/ /\ client.pc = "list"
          /\ ClientPut(Msg("LIST", Dir, ""))
          /\ Become([client EXCEPT !.pc = "dents"])
       \/ /\ client.pc = "dents"
          /\ ClientGet
          /\ Become(CASE Reply.id = "DENT" -> RemoteBuildList
                      [] client.job = "ls" -> [client EXCEPT !.pc = "quit"]
                      [] OTHER -> [client EXCEPT !.pc = "recv"])
    /\ UNCHANGED <<service, disk, errors>>

\* local_build_list fails: the command ends before it has sent anything.
LocalBuildList ==
    /\ client.job \in DirJobs /\ client.pc = FirstStep(client.job) /\ client.k = 1
    /\ Fails /\ ClientExit(1)
    /\ UNCHANGED <<service, disk>>

\* copy_local_dir_remote with checktimestamps: every STAT is sent
StartReadtime ==
    /\ client.pc = "stat"
    /\ IF More
       THEN ClientPut(Msg("STAT", Current, "")) /\ Become(Following)
       ELSE Become([client EXCEPT !.pc = "stats", !.k = 1]) /\ UNCHANGED pipe
    /\ UNCHANGED <<service, disk, errors>>

\* before the first answer is read; a file of the same size and time is skipped.
FinishReadtime ==
    /\ client.pc = "stats"
    /\ IF More
       THEN /\ ClientGet
            /\ Become([Following EXCEPT !.skip = IF Reply.val = Stat(disk.local[Current])
                                                 THEN @ \cup {Current} ELSE @])
       ELSE Become([client EXCEPT !.pc = "send", !.k = 1]) /\ UNCHANGED pipe
    /\ UNCHANGED <<service, disk, errors>>

\* The loop over the files to push; of a single file, "adb install" first checks
\* that it is an APK.
PushNext ==
    /\ client.pc = "send"
    /\ \/ /\ ~More
          /\ Become([client EXCEPT !.pc = "quit"]) /\ UNCHANGED <<pipe, errors>>
       \/ /\ More /\ PassedOver
          /\ Become(Following) /\ UNCHANGED <<pipe, errors>>
       \/ /\ More /\ client.job = "push_file" /\ Fails /\ ClientExit(1)
       \/ /\ More /\ ~PassedOver
          /\ ClientPut(Msg("SEND", Current, ""))
          /\ Become([client EXCEPT !.pc = "data"]) /\ UNCHANGED errors
    /\ UNCHANGED <<service, disk>>

\* write_data_file: a file that cannot be opened or read any further is taken
\* to have ended, since sync_send does not look at what this returns.
WriteDataFile ==
    /\ client.pc = "data"
    /\ \/ /\ client.pos < Len(disk.local[Current].data)
          /\ ClientPut(Msg("DATA", Current, disk.local[Current].data[client.pos + 1]))
          /\ Become([client EXCEPT !.pos = @ + 1]) /\ UNCHANGED errors
       \/ /\ client.pos = Len(disk.local[Current].data)
          /\ Become([client EXCEPT !.pc = "finish"]) /\ UNCHANGED <<pipe, errors>>
       \/ /\ client.pos < Len(disk.local[Current].data) /\ Fails
          /\ Become([client EXCEPT !.pc = "finish", !.torn = @ \cup {Current}]) /\ UNCHANGED pipe
    /\ UNCHANGED <<service, disk>>

\* sync_send: DONE with the time of the file, and then the one answer.
SendDone ==
    /\ client.pc = "finish"
    /\ ClientPut(Msg("DONE", Current, disk.local[Current].time))
    /\ Become([client EXCEPT !.pc = "status"])
    /\ UNCHANGED <<service, disk, errors>>

\* Mutant: the next file is sent after a FAIL.
GetStatusGoesOn ==
    /\ client.pc = "status"
    /\ ClientGet
    /\ Become([Following EXCEPT !.pc = "send", !.done = IF Reply.id = "OKAY" THEN @ \cup {Current} ELSE @])
    /\ UNCHANGED <<service, disk, errors>>

GetStatus ==
    /\ client.pc = "status"
    /\ IF pipe.down # <<>> /\ Reply.id = "OKAY"
       THEN ClientGet /\ Become([Following EXCEPT !.pc = "send", !.done = @ \cup {Current}])
       ELSE GetAndExit(1)
    /\ UNCHANGED <<service, disk, errors>>

\* The loop over the files to pull.
PullNext ==
    /\ client.pc = "recv"
    /\ IF More
       THEN ClientPut(Msg("RECV", Current, "")) /\ Become([client EXCEPT !.pc = "first"])
       ELSE Become([client EXCEPT !.pc = "quit"]) /\ UNCHANGED pipe
    /\ UNCHANGED <<service, disk, errors>>

\* sync_recv with show_progress asks for the size first.
ShowProgress ==
    /\ \/ /\ client.pc = "size"
          /\ ClientPut(Msg("STAT", Current, ""))
          /\ Become([client EXCEPT !.pc = "size_reply"])
       \/ /\ client.pc = "size_reply"
          /\ ClientGet
          /\ Become([client EXCEPT !.pc = "recv"])
    /\ UNCHANGED <<service, disk, errors>>

Local(file) == disk' = [disk EXCEPT !.local[Current] = file]

\* remote_error: the local file is removed, if it can be, and 0 returned.
RemoteError ==
    \/ /\ Local(NoFile) /\ UNCHANGED errors
       /\ Become([Following EXCEPT !.pc = "recv"])
    \/ /\ disk.local[Current] # NoFile /\ Fails /\ UNCHANGED disk
       /\ Become([Following EXCEPT !.pc = "recv", !.torn = @ \cup {Current}])

\* sync_recv: the first answer makes it unlink and create the local file, and
\* is then handled as the others are.
Received == IF client.pc = "first" THEN <<>> ELSE disk.local[Current].data

SyncRecv ==
    /\ client.pc \in {"first", "rest"} /\ pipe.down # <<>>
    /\ \/ /\ Reply.id = "DATA"
          /\ Local([data |-> Append(Received, Reply.val), time |-> 0])
          /\ ClientGet /\ Become([client EXCEPT !.pc = "rest"]) /\ UNCHANGED errors
       \/ /\ Reply.id = "DONE"
          /\ Local([data |-> Received, time |-> 0])
          /\ ClientGet /\ Become([Following EXCEPT !.pc = "recv", !.done = @ \cup {Current}])
          /\ UNCHANGED errors
       \/ /\ Reply.id \in {"DATA", "DONE"} /\ client.pc = "first" /\ Fails    \* adb_creat
          /\ Local(NoFile) \/ UNCHANGED disk
          /\ GetAndExit(1)
       \/ /\ Reply.id = "DATA" /\ Fails                                       \* writex
          /\ Local([data |-> Received, time |-> 0]) /\ GetAndExit(1)
       \/ Reply.id = "FAIL" /\ RemoteError /\ ClientGet
    /\ UNCHANGED service

\* sync_quit.
SyncQuit ==
    /\ client.pc = "quit"
    /\ pipe.service => Len(pipe.up) < Capacity
    /\ Become(Exit(client, 0))
    /\ pipe' = [pipe EXCEPT !.client = FALSE,
                            !.up = IF pipe.service THEN Append(@, Msg("QUIT", Dir, "")) ELSE @]
    /\ UNCHANGED <<service, disk, errors>>

-----------------------------------------------------------------------------
(* The service                                                             *)

Command == Head(pipe.up)
Remote(f, file) == disk' = [disk EXCEPT !.remote[f] = file]

\* A message is taken, and answers go down the stream as far as it is open.
Answer(taken, answers) ==
    /\ pipe.client => Len(pipe.down) + Len(answers) <= Capacity
    /\ pipe' = [pipe EXCEPT !.up = IF taken THEN Tail(@) ELSE @,
                            !.down = IF pipe.client THEN @ \o answers ELSE @]
OK(f) == <<Msg("OKAY", f, "")>>
FAIL(f) == <<Msg("FAIL", f, "")>>

\* adb_close of the service's end.
ServiceClosed == [service EXCEPT !.pc = "closed"]
Close(taken, answers) ==
    /\ service' = ServiceClosed
    /\ pipe.client => Len(pipe.down) + Len(answers) <= Capacity
    /\ pipe' = [pipe EXCEPT !.service = FALSE, !.up = IF taken THEN Tail(@) ELSE @,
                            !.down = IF pipe.client THEN @ \o answers ELSE @]

Commanded(id) == service.pc = "cmd" /\ pipe.up # <<>> /\ Command.id = id

DoStat ==
    /\ Commanded("STAT")
    /\ LET f == Command.f IN
       Answer(TRUE, <<Msg("STAT", f, IF f = Dir THEN StatDir ELSE Stat(disk.remote[f]))>>)
    /\ UNCHANGED <<client, service, disk, errors>>

\* do_list: opendir may fail, and lstat of an entry, which is then left out.
DoList ==
    /\ \/ /\ Commanded("LIST")
          /\ Answer(TRUE, <<>>)
          /\ \/ /\ service' = [service EXCEPT !.pc = "list", !.left = {f \in Files : disk.remote[f] # NoFile}]
                /\ UNCHANGED errors
             \/ service' = [service EXCEPT !.pc = "list"] /\ Fails
       \/ /\ service.pc = "list" /\ pipe.client
          /\ \E f \in service.left, found \in BOOLEAN :
                /\ IF found THEN UNCHANGED errors ELSE Fails
                /\ Answer(FALSE, IF found THEN <<Msg("DENT", f, "")>> ELSE <<>>)
                /\ service' = [service EXCEPT !.left = @ \ {f}]
       \/ /\ service.pc = "list" /\ service.left = {}
          /\ Answer(FALSE, <<Msg("DONE", Dir, "")>>)
          /\ service' = [service EXCEPT !.pc = "cmd"] /\ UNCHANGED errors
       \/ /\ service.pc = "list" /\ service.left # {} /\ ~pipe.client
          /\ Close(FALSE, <<>>) /\ UNCHANGED errors
    /\ UNCHANGED <<client, disk>>

\* do_send and the opening in handle_send_file.  The file that was there is
\* unlinked; if it cannot be, O_EXCL fails with EEXIST and it is opened as it is,
\* without O_TRUNC.  The answers to a file that cannot be made or given its owner are
\* sent at once, two of them when mkdirs failed.
Taking(f, open, kept) ==
    service' = [service EXCEPT !.pc = "take", !.f = f, !.open = open, !.pos = 0,
                               !.kept = IF kept THEN @ \cup {f} ELSE @ \ {f}]

DoSend ==
    /\ Commanded("SEND")
    /\ LET f == Command.f
           empty == [data |-> <<>>, time |-> 0]
       IN
       \/ \E kept \in BOOLEAN, fchown \in {<<>>, FAIL(f)} :
             /\ kept => disk.remote[f] # NoFile
             /\ Failing(Len(fchown) + IF kept THEN 1 ELSE 0)
             /\ Answer(TRUE, fchown) /\ Taking(f, TRUE, kept)
             /\ Remote(f, IF kept THEN disk.remote[f] ELSE empty)
       \/ /\ Fails /\ Answer(TRUE, FAIL(f)) /\ Taking(f, FALSE, FALSE)                \* open
          /\ Remote(f, NoFile) \/ UNCHANGED disk
       \/ /\ Fails /\ Answer(TRUE, FAIL(f) \o FAIL(f)) /\ Taking(f, FALSE, FALSE)     \* mkdirs
          /\ disk.remote[f] = NoFile /\ UNCHANGED disk
    /\ UNCHANGED client

\* Mutant: a failed write is not answered; the file is left as it is.
WriteFailsSilent(f) == Answer(TRUE, <<>>) /\ UNCHANGED disk

\* A block that cannot be written: the file is closed and unlinked, if it can be.
WritexFails(f) == Answer(TRUE, FAIL(f)) /\ (Remote(f, NoFile) \/ UNCHANGED disk)

\* A block is written at the position of the fd, over what is there.
Overwritten(file, n, block) ==
    [data |-> IF n <= Len(file.data) THEN [file.data EXCEPT ![n] = block]
                                     ELSE Append(file.data, block), time |-> 0]

\* After DONE: a file that is still open is complete, whether or not its time can
\* be set; of another the client has been told.
DoneAnswer(f) == IF service.open THEN OK(f) ELSE <<>>

\* The loop of handle_send_file; it reads to the end also when it has no file.
HandleSendFile ==
    LET f == service.f IN
    /\ service.pc = "take" /\ pipe.up # <<>>
    /\ \/ /\ Command.id = "DATA"
          /\ Answer(TRUE, <<>>)
          /\ IF service.open
             THEN /\ Remote(f, Overwritten(disk.remote[f], service.pos + 1, Command.val))
                  /\ service' = [service EXCEPT !.pos = @ + 1]
             ELSE UNCHANGED <<disk, service>>
          /\ UNCHANGED errors
       \/ /\ Command.id = "DATA" /\ service.open /\ Fails
          /\ WritexFails(f)
          /\ service' = [service EXCEPT !.open = FALSE]
       \/ /\ Command.id = "DONE"
          /\ Answer(TRUE, DoneAnswer(f))
          /\ \E utime \in {TRUE, ~service.open} :
                /\ IF utime THEN UNCHANGED errors ELSE Fails
                /\ IF service.open /\ utime
                   THEN Remote(f, [disk.remote[f] EXCEPT !.time = Command.val]) ELSE UNCHANGED disk
                /\ service' = [service EXCEPT !.pc = "cmd", !.open = FALSE, !.pos = 0,
                                              !.undated = IF utime THEN @ ELSE @ \cup {f}]
    /\ UNCHANGED client

\* do_recv: DATA until the end of the file, or FAIL.
DoRecv ==
    LET f == service.f IN
    /\ \/ /\ Commanded("RECV")
          /\ \/ /\ disk.remote[Command.f] # NoFile
                /\ Answer(TRUE, <<>>)
                /\ service' = [service EXCEPT !.pc = "give", !.f = Command.f, !.pos = 0]
                /\ UNCHANGED errors
             \/ /\ IF disk.remote[Command.f] = NoFile THEN UNCHANGED errors ELSE Fails
                /\ Answer(TRUE, FAIL(Command.f)) /\ UNCHANGED service
       \/ /\ service.pc = "give" /\ pipe.client
          /\ \/ /\ service.pos < Len(disk.remote[f].data)
                /\ Answer(FALSE, <<Msg("DATA", f, disk.remote[f].data[service.pos + 1])>>)
                /\ service' = [service EXCEPT !.pos = @ + 1] /\ UNCHANGED errors
             \/ /\ service.pos = Len(disk.remote[f].data)
                /\ Answer(FALSE, <<Msg("DONE", f, "")>>)
                /\ service' = [service EXCEPT !.pc = "cmd"] /\ UNCHANGED errors
             \/ /\ Fails /\ Answer(FALSE, FAIL(f))
                /\ service' = [service EXCEPT !.pc = "cmd"]
       \/ /\ service.pc = "give" /\ ~pipe.client /\ Close(FALSE, <<>>) /\ UNCHANGED errors
    /\ UNCHANGED <<client, disk>>

\* ID_QUIT, and a request that is none: its answer is FAIL.
DoQuit ==
    /\ service.pc = "cmd" /\ pipe.up # <<>> /\ Command.id \in {"QUIT", "DATA", "DONE"}
    /\ Close(TRUE, IF Command.id = "QUIT" THEN <<>> ELSE FAIL(Command.f))
    /\ UNCHANGED <<client, disk, errors>>

\* readx fails: the client has gone.  A file that was being sent is unlinked, if it
\* can be.
ServiceEof ==
    /\ service.pc \in {"cmd", "take"} /\ pipe.up = <<>> /\ ~pipe.client
    /\ Close(FALSE, <<>>)
    /\ \/ service.pc = "take" /\ Remote(service.f, NoFile)
       \/ UNCHANGED disk
    /\ UNCHANGED <<client, errors>>

\* The stream is closed by something between the two.
Lose ==
    /\ Fails
    /\ pipe' = [up |-> <<>>, down |-> <<>>, client |-> FALSE, service |-> FALSE]
    /\ UNCHANGED <<client, service, disk>>

-----------------------------------------------------------------------------
Client ==
    \/ ClientFails \/ ReadMode \/ SyncLs \/ SyncQuit \/ LocalBuildList \/ ShowProgress
    \/ DoSyncPush \/ StartReadtime \/ FinishReadtime \/ PushNext \/ WriteDataFile \/ SendDone \/ GetStatus
    \/ DoSyncPull \/ PullNext \/ SyncRecv
Service == DoStat \/ DoList \/ DoSend \/ HandleSendFile \/ DoRecv \/ DoQuit \/ ServiceEof

SyncNext == Client \/ Service \/ Lose
SyncSpec == SyncInit /\ [][SyncNext]_sync_vars

-----------------------------------------------------------------------------
(* Properties                                                              *)

Bytes(file) == IF file = NoFile THEN <<>> ELSE file.data

\* A file that sync_send was told is copied is on the device block for block: what is
\* there begins with what the host could read of it, and nothing follows unless the
\* old file could not be unlinked (adb_unlink in do_send is not checked); it has its
\* time unless utime failed.  A file that sync_recv took to the end is on the host.
\* A pull that ends well leaves no part of a file that it could remove.
CopiesWhole ==
    /\ client.job \in DirJobs \cup {"push_file"} => \A f \in client.done :
          LET l == disk.local[f]
              r == disk.remote[f]
          IN
          /\ \E n \in IF f \in client.torn THEN 0..Len(l.data) ELSE {Len(l.data)} :
                /\ n <= Len(r.data) /\ SubSeq(r.data, 1, n) = SubSeq(l.data, 1, n)
                /\ f \notin service.kept => n = Len(r.data)
          /\ f \notin service.undated => r.time = l.time
    /\ client.job \in PullJobs => \A f \in client.done :
          Bytes(disk.local[f]) = disk.remote[f].data
    /\ client.job \in PullJobs /\ client.result = 0 =>
          \A k \in DOMAIN client.files :
             LET f == client.files[k] IN
             f \in client.done \cup client.torn \/ disk.local[f] = NoFile

\* The programs keep in step, although the service answers some requests twice
\* and STATs are sent ahead: what the client reads is about the file it asked for.
InStep ==
    client.pc \in {"stats", "status", "first", "rest"} /\ More /\ pipe.down # <<>> =>
       /\ Reply.f = Current
       /\ client.pc = "stats" => Reply.id = "STAT"
       /\ client.pc = "status" => Reply.id \in {"OKAY", "FAIL"}
       /\ client.pc \in {"first", "rest"} => Reply.id \in {"DATA", "DONE", "FAIL"}

\* Both: the replies are read for what they are, and what was copied is whole.
SyncExact == InStep /\ CopiesWhole

\* The command ends, and so does the service.
SyncEnds == <>(client.pc = "exit" /\ service.pc = "closed")
=============================================================================
