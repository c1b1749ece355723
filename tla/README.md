# adb in TLA+

A verification project for AdbWide, a Windows build of the Android Debug Bridge
with Unicode paths. The sources are in `src/adb/`. The project file compiles the
host side for Windows (`ADB_HOST`, `HAVE_WIN32_*`), so where the host's code has
several platforms the modules follow the Windows one; `UsbLinux` is the exception. The
device's side is modelled from the daemon's sources, which are in the repository too.

## The system

One program is both the command line client and the server. The server is one
main thread that runs an event loop (*fdevents*), plus two threads per
*transport*, which is a connection to a device over USB or TCP:

```
 client ── TCP ──┐                        ┌── output_thread ◄── remote (device)
 client ── TCP ──┤ local sockets          │        │ packets
 service thread ─┤  (asocket)      socketpair ◄────┘
    socketpair   │      │                 │
                 └── main thread ─────────┤
                     fdevent loop         └──► input_thread ──► remote (device)
```

- A **command** asks the server for its version, starts it if there is none and
  replaces it if it is another version, then sends its request.
- A request arrives at a **smart socket**, which answers it, starts a service, or
  becomes a stream to the device.
- A **local socket** is a queue around an fd. Its peer is a **remote socket**, the
  proxy of a local socket at the other end of a transport, or a second local
  socket. Between the ends travel OPEN, OKAY, WRTE and CLSE packets, one
  unanswered WRTE per direction of a stream at most.
- The ends of a transport come online with CNXN and AUTH packets: the host signs
  the device's tokens with its keys one by one, and in the end offers its public
  key, about which the device asks its user.
- The main thread and the two threads of a transport pass packets as pointers over
  a **socket pair**. Windows has none, so `sysdeps_win32.cpp` emulates it with two
  circular buffers (*bip buffers*) with a critical section and two events each.
- `sysdeps_win32.cpp` also emulates the **event loop** over Winsock's network
  events, which are recorded once and consumed when they are looked at; the wait
  for more handles than Windows allows in one call; and a table of descriptors.
- A transport is **registered** by the thread that found the device, through a
  socket the main thread listens to, and **removed** the same way once its
  reference count is zero.
- Services on top of streams: files are copied by the **sync** protocol, debuggers
  reach processes on the device by the **JDWP** service, and a **shell** is a process
  on a pseudo terminal with a thread that waits for it to exit.

`PROJECT.json` lists every part with what is modelled of it, the line each
definition stands for, and the hazards at their lines.

## Modules

| Module | What it models | Sources |
|---|---|---|
| `ByteQueue` | abstract: a FIFO of bytes of bounded capacity that can be closed | |
| `BipBuffer` | one direction of an emulated socket pair, with its threads | `sysdeps_win32.cpp` |
| `Streams` | the sockets of two ends, the packets between them, the loss of a transport | `sockets.cpp`, `adb.cpp` |
| `Transport` | registration, the two threads, references, lists, slots of emulators, removal | `transport.cpp`, `transport_local.cpp` |
| `Fdevent` | the event loop over Winsock's rules | `sysdeps_win32.cpp` |
| `Handshake` | CNXN and AUTH at both ends, the framework's questions | `adb.cpp`, `adb_auth_*` |
| `UsbWindows` | the poll for USB devices and the handles of their transports | `usb_windows.cpp`, `transport_usb.cpp` |
| `UsbLinux` | the same on Linux: requests to the kernel, and the two locks | `usb_linux.c`, `transport.cpp` |
| `Jdwp` | debuggable processes, fds on their way to them, trackers | `jdwp_service.c` |
| `Shell` | shells on the device, the select loop and its subprocess monitor | `services.cpp`, `fdevent.c`, `sockets.cpp` |
| `HostServer` | requests, forwards, device trackers, choice of a device, wait-for-device | `sockets.cpp`, `adb.cpp`, `transport.cpp`, `services.cpp` |
| `ServerStart` | how commands find, start, replace and kill the server | `adb_client.cpp`, `adb.cpp` |
| `FileSync` | push, pull, sync and ls against the service on the device | `file_sync_client.cpp`, `file_sync_service.c` |
| `FhTable` | the table of descriptors | `sysdeps_win32.cpp` |
| `WaitAll` | waiting for more than 64 handles with helper threads | `sysdeps_win32.cpp` |
| `*Proofs` | the theorems about the module they are named after | |
| `MC*` | instances for TLC; the constants are in the `.cfg` files | |

Definitions named as mutants in their comment are not used by the specifications;
each is a plausible error in the definition after it, and shows that the property
named in `PROJECT.json` notices such an error.

### BipBuffer

The variables are the fields of `BipBufferRec` plus, per thread, where it is in
`bip_buffer_write`, `bip_buffer_read` or `bip_buffer_close`. A step is what happens
between two places another thread can observe: taking the lock, one copy with its
change of the marks, the update of the flags, leaving. `bip_buffer_close` takes no
lock, so its tests and its `SetEvent`s are separate steps that fall between any of
these. A byte is its position in the stream, which makes "the right bytes in the
right order" an equation. `IsQueue` states that `BipBuffer` implements `ByteQueue`,
with the queue mapped to the bytes in regions A then B.

### Streams

A local socket that talks to the other end has exactly one remote socket, so the
two are one record: `peer` is the remote socket's id. `state` is the list the
socket is on. One handler is one step because each end runs its sockets in one
thread; the exception, `close_all_sockets` in `input_thread`, is an action of its
own some time after the main thread took the transport offline. Every action
includes the packets it sends. A program may hang up at any time, an fd may take
any part of the data, the wire may break with any number of packets delivered, and
a second transport may come up while the ends are still busy with the first. Only
the host opens streams, as in adb without reverse forwards. A client that goes while
its request is read (`Connect`) is closed by the same callback, after its OPEN and
without a CLSE, since the socket has no peer yet. The device's end of that stream stays
half-open until its program ends or the transport goes, as packets for a socket that is
not there are ignored; so `ClosePropagates` speaks of an end that knows its peer.

### Transport

`list` holds the `next` and `prev` pointers of the code, so that an unlink with
stale pointers does what it does in memory. A section under `transport_lock` is one
step. The threads' loops, the SYNC packets that hand the end of the transport from
`output_thread` over the main thread to `input_thread`, `kick`, `unref`, the
disconnect of one or of all TCP transports and the two registration messages are
the actions. A TCP transport of an emulator takes a slot of `local_transports` and
`remote_kick` gives it up while the transport is still on its list. fds are numbers
in a small table, in a server that has used every record of its table once (before
that `_fh_alloc` always takes a new one).

### Fdevent

An fd is the socket of a stream (edges: `WSAEnumNetworkEvents` consumes what is
recorded, and FD_READ is recorded again only after a recv, FD_WRITE only after a
send that found no room) or the main thread's half of a transport's pair (a level).
`fdevent_process` is three actions: something is ready, nothing is and the hooks
are started, and the wait ends. Callbacks are those of `local_socket_event_func`,
and what a packet of a transport does to a socket: `ready`, `enqueue`, `close`.
`FdeventInv` says that the loop waits for what the fdevents want, that its pending list
is right, and that the room of a socket that is not closing is never forgotten. Of a
closing socket it may be (`write_forgotten`), and of data too, until there is room
again. The Winsock rules are external to the sources and follow how the code uses them.

### Handshake

Each link joins the device to a host of its own. `host[l]` and `dev[l]` are the
fields of the two `atransport`s that the handshake uses, `auth` the static variables
of `adb_auth_client.c` with the questions and replies under way to and from the
framework. A signature is a key and a token; `Verify` compares both, and a token is
random in that it is none of those still in use. The server of a link may be
restarted, which the device does not notice, so that old tokens and answers meet the
new server; a cable may be pulled; the framework may die and connect again; tokens
and signatures may fail to be made. Three fields are not in the code: `asked`
remembers that a public key arrived since the last CNXN, `grant` the key for which the
transport was put online, and `accepted` the keys to which the user said yes. A reply
of the framework has no key in the code; in the model it carries the one of
its question, so that `OnlineIsEarned` can tell a yes from a reply to something else.

### UsbWindows

`usb[h]` is a `usb_handle`, its place on the list, and the two threads of its
transport; freed memory is used again. `device_poll_thread` takes a list of what is
plugged in and works through it, while cables are pulled and put back. What a read of
a lost device reports is the driver's choice. `output_thread` posts its SYNC(0,0) when
it leaves its loop (`offline`), before it kicks the transport. A `do_usb_open` that fails half-way
frees fields that were never set: the server may then end (`"crashed"`), and nothing
is promised from there on.

### UsbLinux

`lusb[h]` is a `usb_handle` with its two requests (`in`, `out`), its transport and the
two threads. A request is idle, in flight, or complete until it is reaped; discarding
it, or pulling the cable, completes it. `usb_lock` and `transport_lock` are variables
because each is held across a call that takes the other; a section under the handle's
own lock is one step. The reader reaps both requests outside that lock and tells the
writer. `Embraced` is the state in which the poll has `usb_lock` and wants
`transport_lock` and a thread in `usb_close` has them the other way round. One packet
is one transfer (`usb_read` and `usb_write` cut it into pieces of 4096 bytes).

### Jdwp

`vm[v]` is a process and its `JdwpProcess`, `dbg[d]` what became of the fd of a
request, `trk[t]` a tracker and the list it was last sent. A pid arrives in two parts,
may be none, and processes may have the pid of an earlier one. A list is cut to the
pids that fit, more in the first answer (`MaxFirst`) than in an update (`MaxUpdate`), as
their buffers have different sizes; all pids take the same room.

### Shell

`stream[s]` is the local socket of a shell and its fdevent, `proc[s]` the shell, a
process it may leave in the background and what is in the terminal, `waiter[s]` the
thread of `subproc_waiter_service`. The number of a terminal's fd goes to the event loop
through `exits`; by then it may be the number of another shell's terminal.
`fdevent_subproc_event_func` is two steps, because a process may write between its
FIONREAD and the read of the function it calls. That read may come before the READY
for the last WRITE (`early_write`), and `owed` counts the READYs that are due. `HostOpens` keeps within the
terminals there are; a failing `/dev/ptmx` is not modelled.

### HostServer

`tp` is the life of a transport as its lists show it, `disc[t]` its list of
disconnects, on which forwards and open streams are, `fwd` the listeners, `sock` the
local socket of each connection, `seen` what each tracker was sent, `waiter` the
threads of wait-for-device. A request is one step, with everything the handlers do
for it. A lost device passes through *lost* (A_SYNC handled, the input thread not
yet), *swept* (`close_all_sockets` done) and *gone* (freed; what a pointer to it
reads is then any state). `registered` is the order of the list, of which a message to
a tracker holds the first `MaxLines`. `disconnect:` takes TCP devices off the list at
once (`cut`) and drops a reference, so that they may be freed before or after
`close_all_sockets`; nobody is told until then. If the list changes between the
disconnect and the removal (`moved`), the second unlink uses stale pointers and may
damage the list (`Transport` has the pointers); `ListIntact` says that this has not
happened, and waits are promised to return only as long as it has not.

### ServerStart

Commands of several versions run at once against servers they and others started:
`host:version`, `host:kill`, `launch_server` with its pipe, the bind of the port and
the "OK". A server that is killed answers OKAY and exits in a later step; in between it
still has the port. Sleeps give no order.

### FileSync

Both programs and the stream between them, which holds a few messages each way: a
full stream makes `writex` wait. Any call to a file system may fail, and the stream
may be lost. A file is its blocks and its time. The service answers a failed SEND at
once, and twice when `mkdirs` failed. An `unlink` that fails leaves the file: the
service then opens it as it is, without O_TRUNC, and writes over its first blocks.
`CopiesWhole` says what a file that counts as copied is: the blocks sent, in order, all of
them unless the host could not read its own file to the end, followed by old
ones only where the unlink failed. Left out: a `close` that fails and loses data, a block
of which a part is written, and the results of `local_build_list` for directories in
the directory.

### FhTable, WaitAll

`_fh_close` resets a record in two steps without the lock under which `_fh_alloc`
looks for a free one. `_wait_for_all` splits the handles among threads that report
the first that is signalled, and wakes and joins the others.

## Runs

| Run | Instance | Shows |
|---|---|---|
| `windows` | buffer: 3 bytes; a writer, a reader, a closer; calls of 1, 2 and 4 bytes, 5 bytes in all. Packets: 4 bytes, two writers of 2-byte packets, a reader. Table: three threads, three records. Wait: five handles in chunks of two. Loop: a stream's socket, two transports | the inductive invariant `IInv`, the refinement `IsQueue`, writes return, a close releases the threads; packets of two writers are never torn; the safety properties of the others; waits return, an fd with data is called back |
| `streams_one` | one stream, 3 bytes each way, payload 2, any program may hang up, the wire may break | `StreamsInv` (flow control, one packet queued, order, no loss at a close), the status comes first; delivery, propagation of a close, and no client waits for ever: it hears a status or its socket is closed (without one only when the transport is lost, see `silent_close`) |
| `streams_two` | two streams, two transports, one byte from the device | `StreamsInv` across streams, and no socket is left on a dead transport |
| `transport` | two emulators on one port, two slots, equal or different serials. And a TCP and a USB transport, the first disconnected by the user | of the emulators, `TransportInv` (references count threads, lists, serials, slots) and that nothing is closed before its threads end; of both, one removal, and a lost or disconnected transport is freed |
| `usb_linux` | a device and one without permission, one pull, one failure | `BuffersHeld`; both threads of a pulled device end and its handle is closed, or the locks embrace |
| `device_side` | handshake: two hosts with three keys, a restart, a framework that dies, a failure. USB: two interfaces, one pull, one error. JDWP: two processes with one pid, three debuggers, a tracker, lists of two and of one pid. Shell: two shells, one terminal number, a failed fork. Sync: two files in a directory, a stream of two messages, two errors | the safety properties of each; a known host gets online, a plugged device is found, the stream of a shell ends, a transfer finishes |
| `host_side` | start: three commands of two versions, one launch error. Server: two connections, a USB and a TCP device, a forward, lists of one device | the safety properties of each; commands end, wait-for-device returns |

`windows`, `device_side` and `host_side` check several modules in one run, `windows` and
`transport` two instances of one module. `part` says which one moves; the others stay in
one of their initial states. This is sound because the parts share no variable: a
behaviour of the run is a behaviour of one module, and every behaviour of each module
is one of the run. (The two instances of `Transport` do share them, from one initial
state, and each behaviour takes the steps of one instance only.)

The bounds are chosen so that the cases that matter occur: 3 bytes with calls of up
to 4 make the buffer wrap, fill exactly and split a call; 4 bytes with packets of 2
do the same for packets; 3 bytes with payload 2 make a partial write of a packet and
a second packet behind it; two transports in sequence make late packets of the first
meet sockets of the second; two emulators on one port make one take the slot the other
gave up; two shells on one terminal number make the exit of the first be told to the
second; five handles in chunks of two make a full and a partial chunk; a stream of two
messages is full while the other side is full too. A stream, a transport or a command
that has ended may simply stop, so the runs do not look for deadlock; the liveness
properties say what may not stop.

### Fairness

Weak fairness of threads, programs and the handlers of the main loops: the operating
system runs every thread, and a loop dispatches every fdevent that is ready before it
looks for more. Beyond that:

- A program reads what it is sent or goes away (`Writable`, `MakeRoom`, `HostTakes`).
- In `Streams` the loop is fair to every open socket, and to a closing one only at the
  ends in `Drained`. The runs have the device there, whose loop uses select, and not the
  host: on Windows its loop may forget a closing socket (`write_forgotten`). `Delivered`
  excepts that case.
- `WriterStops` and `WriterLeaves` are strongly fair: the SYNC(0,0) is in a FIFO queue
  of finite length, so `input_thread` gets to it between its writes.
- `CloseUsb` is strongly fair: `device_poll_thread` sleeps for a second between scans,
  so `usb_lock` is free again and again.
- `LoopServed` assumes that the loop is idle again and again, because a new interest
  reaches Winsock only when nothing else is ready (`sysdeps_win32.cpp` 1692). It is
  stated inside the property.

Arrivals, hang-ups, breaks, cables, failures, new streams, exits of processes and
what users and clients do are not fair.

## Findings

Five runs state what a comment or a document says and end in a counterexample.

| Run | What the code does |
|---|---|
| `closed_early` | `unregister_transport` (`transport.cpp` 1091) drops a reference, but the two references belong to the threads: the transport is closed, and freed, when the first thread ends, although it "will not actually be closed until both threads exit". `ClosedAfterThreads` and `TransportInv` hold without a disconnect, which is what `transport` shows of the emulators; `RemovedOnce` holds with it. |
| `write_forgotten` | `fdevent_set` clears the events that are wanted from a pending fdevent (`sysdeps_win32.cpp` 1921) and not the others. A closing socket can lose its FDE_WRITE for good and never finish. |
| `silent_close` | `close_all_sockets` closes a client's socket that waits for the answer to its OPEN without the status message that the comment at `sockets.cpp` 618 promises. |
| `early_write` | When a shell has exited, `fdevent_subproc_event_func` (`fdevent.c` 571) calls the function of its socket whether FDE_READ is wanted or not. A process in the background may have written in between, and a WRITE goes out before the READY of the one before, which `protocol.txt` 145 rules out. Nothing is lost or cut off by it (`OutputWhole`). |
| `stale_tracker` | A_SYNC and A_AUTH (`adb.cpp` 530, 555) change the state of a device and `unregister_transport` takes one off the list without a word to the trackers, although `SERVICES.TXT` 29 says that a list is sent "each time a device is added/removed or the state of a given device changes". `TrackersKnow` says what a tracker can rely on. |

Met on the way, in the models and not stated by a run:

- *Transports.* `unregister_transport` leaves the pointers of the transport it unlinks;
  the removal unlinks it again and cuts out one that was registered in between.
  `remote_close` closes the fd of a TCP transport and the removal closes the number
  again, when it may be another's.
- *Streams.* A CLSE for an open stream is answered by a CLSE, which `protocol.txt` 163
  rules out; the receiver ignores it. On the device, streams whose OPEN is not yet
  answered are forgotten by a second CNXN.
- *Event loop on Windows.* A callback that returns for want of room (`sockets.cpp` 315)
  has used up the read event: the data waits until there is room, not for "the next
  iteration loop".
- *Bip buffer.* A close wakes one reader and one writer; with two readers in one pair
  the second might stay.
- *Handshake.* After a restart of the server a device that the framework put online
  may be listed as unauthorized until it is asked again; "remember this computer" takes
  effect with the next token; the end of the framework's socket alone is not
  taken for a disconnect.
- *Server.* `host:kill` is obeyed whatever the version. A list of devices that does not
  fit in its buffer is cut without a sign.
  The loser of a race to start the server reports failure although a server is up.
  `launch_server` does not pass the port.
- *Sync.* `sync_recv` returns success when the device fails in the middle, and removes
  the local file; an error while reading a local file ends a push early and
  without a message; a file that cannot be unlinked on the device keeps its old end when
  the new one is shorter; "adb sync" of more files than the stream holds answers for waits
  for ever (`StatsFit`).
- *Shell.* `force_eof` never closes a stream, as an enqueue returns 1 and a read with
  nothing to read returns -1 (`sockets.cpp` 402): the stream stays as long as a process
  left in the background. The test for a number that was "reallocated" (`fdevent.c` 545) compares a table
  entry with its own index. A failed fork leaves a thread that takes the exit
  status of other shells.
- *USB on Linux.* The write that is to "time out after five seconds" never does, since
  `pthread_cond_timedwait` returns a positive number; `BuffersHeld` relies on it. The
  poll and `usb_close` take `usb_lock` and `transport_lock` in opposite orders when a
  device without permission goes at the moment another is closed, and `Embraced` is
  reached. The handle of a device without permission is never closed; if it goes before
  its transport is registered, the transport stays listed.

## Proofs

TLAPS checks the theorems of eight modules, for every value of the constants that
the assumptions allow: any buffer size, any number of threads, devices, handles,
links, commands or records.

| Theorem | States | Module |
|---|---|---|
| `Invariance`, `TypeCorrect`, `LayoutKept`, `BytesInOrder`, `FlagsCorrect`, `MutualExclusion`, `AssertionsNeverFail`, `NoWakeupIsLost` | the inductive invariant and its parts | `BipBufferProofs` |
| `FhInvariance`, `DescriptorsHeld`, `SlotsReturn` | a descriptor in use belongs to one owner, and none is lost | `FhTableProofs` |
| `WaitInvariance`, `WaitTruthful` | what is returned was signalled | `WaitAllProofs` |
| `HostInvariance`, `ForwardsFollowDevice`, `SocketsLeaveFirst` | forwards go with their own device; no socket holds a transport that `close_all_sockets` has been through or, unless it was disconnected, one that is freed | `HostServerProofs` |
| `HandshakeInvariance`, `ReplyIsAskedFor`, `OnlineEarned` | who is online signed the last token with a trusted key of its own host, or offered a key when the user accepted one | `HandshakeProofs` |
| `UsbInvariance`, `PipesClosedOnce` | pipes closed once, handles freed after both threads | `UsbWindowsProofs` |
| `StartInvariance`, `OneServerForAll` | with one version and no kill, no server that said OK goes, and a command fails only if it could make no process or its own server found the port taken | `ServerStartProofs` |
| `LinuxInvariance`, `KernelHoldsNoBuffer` | no buffer of a call that returned is with the kernel, the last thread closes | `UsbLinuxProofs` |

Each follows the same way: an inductive invariant, one lemma per action that shows it
is kept, and the theorem by temporal logic. The properties are not inductive by
themselves:

- *BipBuffer.* What a thread does after it has tested a flag is right only because the
  flag cannot have changed since, which needs exclusion; exclusion needs to know which
  places are inside the lock; and the flags are wrong for a while inside a call, so the
  invariant says at each place what the thread there still has to do.
- *FhTable, WaitAll.* The invariant says for each place of a thread what it has
  written and not yet published.
- *HostServer.* A forward is live because it is on the list of disconnects of its
  transport, so the invariant ties listeners, lists and sockets to one another. A
  transport that is lost is offline before `close_all_sockets` goes through it, so that
  nobody acquires it afterwards.
- *Handshake.* Who is let in depends on packets under way, so the invariant
  describes the queues: at most one token, signature or question belongs to a state,
  and an OK on its way from the framework is about a key that was accepted.
- *UsbWindows.* Handles, threads and the poll: the reference count is the number of
  threads in the handle, and the poll has one that nobody else knows.
- *ServerStart.* A launch belongs to one command, and an "OK" is behind a bind.
- *UsbLinux.* A write may return when it is not busy only because busy outlives the
  flight of its request, through the time in which the reader has reaped it and not yet
  said so; requests are not in flight on a handle that is dead or gone; references are
  threads; and the poll walks its list only while it holds `usb_lock`.

The assumptions are the `ASSUME`s of the modules: sizes are positive, names of things
that are not there are not names of things, and threads of different kinds are
different.

Only model-checked: all liveness (out of the prover's reach), the refinement of
`ByteQueue`, `NoTornPacket`, `TrackersKnow`, and everything about `Streams`, `Transport`, `Fdevent`,
`Jdwp`, `Shell` and `FileSync`, whose invariants speak of sequences by position.

## Not modelled

- Pairs of local sockets, as a host service and its client are; a write error there
  frees the socket whose callback is running (`sockets.cpp` 178).
- Packet framing (`check_header`, `check_data`): predicates on one message. A failed
  check is a failed read.
- USB on other platforms and on the device (`usb_libusb.c`, `usb_osx.c`,
  `usb_linux_client.c`). In the last an old transport's thread may still write when a
  new one has opened the files again.
- In `Fdevent`: connections that break under a send, FDE_ERROR, growth of `fd_table`.
  In `Shell`: epoll, fds that go bad under select, input to the shell (as in `Streams`).
- The wrap of socket ids after 2^32 sockets, reverse streams, `close_usb_devices`.
- The command line, the zip reader, string conversion and the device's simple services
  are sequential input and output. The RSA arithmetic and the format of key files
  are left to their libraries. The headers of third parties under `src/` are
  declarations.
