----------------------------- MODULE BipBuffer -----------------------------
(***************************************************************************)
(* One direction of a socketpair, as sysdeps_win32.cpp emulates it in user *)
(* space: a circular buffer in two regions, A = [a_start, a_end) and       *)
(* B = [0, b_end), guarded by a critical section, with one manual-reset    *)
(* event for its readers and one for its writers.  bip_buffer_close takes  *)
(* no lock, so its steps interleave with those inside a critical section.  *)
(*                                                                         *)
(* A byte is its position in the stream: the n-th byte a write accepts is  *)
(* the number n - 1, which is all the properties need to know of it.       *)
(***************************************************************************)
EXTENDS Integers, Sequences

CONSTANTS SIZE,       \* BIP_BUFFER_SIZE
          Writers,    \* threads that call bip_buffer_write
          Readers,    \* threads that call bip_buffer_read
          Closers,    \* threads that call bip_buffer_close (one per end at most)
          Lens,       \* the lengths a call may ask for
          MaxBytes,   \* bound: bytes the writers try to send
          NoThread    \* the owner of a free critical section

Threads == Writers \cup Readers \cup Closers

ASSUME SizeAssumption == SIZE \in Nat \ {0}
ASSUME LensAssumption == Lens \subseteq Nat \ {0}
ASSUME ThreadAssumption ==
    /\ Writers \cap Readers = {}
    /\ Closers \cap (Writers \cup Readers) = {}
    /\ NoThread \notin Threads

VARIABLES a_start, a_end, b_end, buff,
          can_write, evt_write, can_read, evt_read, closed,
          lock,       \* the owner of the critical section
          pc, len, ret,  \* each thread: where it is, what it asked for, the result
          sent, rcvd, dst  \* bytes accepted, bytes delivered, the last delivery

region == <<a_start, a_end, b_end, buff>>
flags  == <<can_write, evt_write, can_read, evt_read, closed>>
stream == <<sent, rcvd, dst>>
vars   == <<region, flags, lock, pc, len, ret, stream>>

Least(a, b) == IF a < b THEN a ELSE b

Init ==
    /\ a_start = 0 /\ a_end = 0 /\ b_end = 0
    /\ buff = [i \in 0..(SIZE - 1) |-> 0]
    /\ can_write = TRUE /\ evt_write = TRUE
    /\ can_read = FALSE /\ evt_read = FALSE
    /\ closed = FALSE
    /\ lock = NoThread
    /\ pc = [t \in Threads |-> "idle"]
    /\ len = [t \in Threads |-> 0]
    /\ ret = [t \in Threads |-> 0]
    /\ sent = 0 /\ rcvd = 0 /\ dst = <<>>

Goto(t, l) == pc' = [pc EXCEPT ![t] = l]
Return(t, r) == Goto(t, "idle") /\ ret' = [ret EXCEPT ![t] = r]

\* SetEvent on a manual-reset event ends every wait on it; t moves on to l.
Release(t, l, blocked, woken) ==
    pc' = [u \in Threads |-> IF u = t THEN l
                             ELSE IF pc[u] = blocked THEN woken ELSE pc[u]]
SetWrite(t, l) == evt_write' = TRUE /\ Release(t, l, "w_blocked", "w_woken")
SetRead(t, l)  == evt_read' = TRUE /\ Release(t, l, "r_blocked", "r_woken")

-----------------------------------------------------------------------------
(* bip_buffer_write                                                        *)

WriteCall(w, n) ==
    /\ pc[w] = "idle" /\ sent + n <= MaxBytes
    /\ Goto(w, "w_enter")
    /\ len' = [len EXCEPT ![w] = n]
    /\ ret' = [ret EXCEPT ![w] = 0]
    /\ UNCHANGED <<region, flags, lock, stream>>

\* EnterCriticalSection and the test of can_write, which only changes under it.
WriteEnter(w) ==
    /\ pc[w] = "w_enter" /\ lock = NoThread
    /\ IF can_write THEN lock' = w /\ Goto(w, "w_exec")
                    ELSE UNCHANGED lock /\ Goto(w, "w_check")
    /\ UNCHANGED <<region, flags, len, ret, stream>>

WriteCheck(w) ==
    /\ pc[w] = "w_check"
    /\ IF closed THEN Return(w, -1) ELSE Goto(w, "w_wait") /\ UNCHANGED ret
    /\ UNCHANGED <<region, flags, lock, len, stream>>

WriteWait(w) ==
    /\ pc[w] = "w_wait"
    /\ Goto(w, IF evt_write THEN "w_woken" ELSE "w_blocked")
    /\ UNCHANGED <<region, flags, lock, len, ret, stream>>

WriteWoken(w) ==
    /\ pc[w] = "w_woken"
    /\ IF closed THEN Return(w, -1) ELSE Goto(w, "w_enter") /\ UNCHANGED ret
    /\ UNCHANGED <<region, flags, lock, len, stream>>

\* Mutant: one slot of the room left in region A is not used.
AppendAOneShort(w) == Least(SIZE - 1 - a_end, len[w])
AppendA(w) == Least(SIZE - a_end, len[w])
FullA(w)   == a_end < SIZE /\ a_end + AppendA(w) = SIZE /\ a_start = 0
ReachB(w)  == ~FullA(w) /\ len[w] > AppendA(w)
AppendB(w) == IF ReachB(w) THEN Least(a_start - b_end, len[w] - AppendA(w)) ELSE 0

WriteExec(w) ==
    LET na == AppendA(w)
        nb == AppendB(w)
        full == FullA(w) \/ (ReachB(w) /\ b_end + nb = a_start)
    IN
    /\ pc[w] = "w_exec"
    /\ buff' = [i \in 0..(SIZE - 1) |->
                  IF i \in a_end..(a_end + na - 1) THEN sent + (i - a_end)
                  ELSE IF i \in b_end..(b_end + nb - 1) THEN sent + na + (i - b_end)
                  ELSE buff[i]]
    /\ a_end' = a_end + na
    /\ b_end' = b_end + nb
    /\ can_write' = ~full
    /\ sent' = sent + na + nb
    /\ ret' = [ret EXCEPT ![w] = na + nb]
    /\ Goto(w, IF full THEN "w_reset" ELSE "w_exit")
    /\ UNCHANGED <<a_start, evt_write, can_read, evt_read, closed, lock, len, rcvd, dst>>

WriteReset(w) ==
    /\ pc[w] = "w_reset"
    /\ evt_write' = FALSE
    /\ Goto(w, "w_exit")
    /\ UNCHANGED <<region, can_write, can_read, evt_read, closed, lock, len, ret, stream>>

\* Mutant: the readers' event is not set.
WriteExitSilent(w) ==
    /\ pc[w] = "w_exit"
    /\ can_read' = TRUE
    /\ Goto(w, "leave")
    /\ UNCHANGED <<region, can_write, evt_write, evt_read, closed, lock, len, ret, stream>>
WriteExit(w) ==
    /\ pc[w] = "w_exit"
    /\ can_read' = TRUE
    /\ Goto(w, IF can_read THEN "leave" ELSE "w_signal")
    /\ UNCHANGED <<region, can_write, evt_write, evt_read, closed, lock, len, ret, stream>>

WriteSignal(w) ==
    /\ pc[w] = "w_signal"
    /\ SetRead(w, "leave")
    /\ UNCHANGED <<region, can_write, evt_write, can_read, closed, lock, len, ret, stream>>

\* LeaveCriticalSection and the return of count, for both directions.
Leave(t) ==
    /\ pc[t] = "leave"
    /\ lock' = NoThread
    /\ Goto(t, "idle")
    /\ UNCHANGED <<region, flags, len, ret, stream>>

-----------------------------------------------------------------------------
(* bip_buffer_read                                                         *)

ReadCall(r, n) ==
    /\ pc[r] = "idle"
    /\ Goto(r, "r_enter")
    /\ len' = [len EXCEPT ![r] = n]
    /\ ret' = [ret EXCEPT ![r] = 0]
    /\ UNCHANGED <<region, flags, lock, stream>>

ReadEnter(r) ==
    /\ pc[r] = "r_enter" /\ lock = NoThread
    /\ IF can_read THEN lock' = r /\ Goto(r, "r_exec")
                   ELSE UNCHANGED lock /\ Goto(r, "r_check")
    /\ UNCHANGED <<region, flags, len, ret, stream>>

ReadCheck(r) ==
    /\ pc[r] = "r_check"
    /\ IF closed THEN Return(r, -1) ELSE Goto(r, "r_wait") /\ UNCHANGED ret
    /\ UNCHANGED <<region, flags, lock, len, stream>>

ReadWait(r) ==
    /\ pc[r] = "r_wait"
    /\ Goto(r, IF evt_read THEN "r_woken" ELSE "r_blocked")
    /\ UNCHANGED <<region, flags, lock, len, ret, stream>>

ReadWoken(r) ==
    /\ pc[r] = "r_woken"
    /\ IF closed THEN Return(r, -1) ELSE Goto(r, "r_enter") /\ UNCHANGED ret
    /\ UNCHANGED <<region, flags, lock, len, stream>>

TakeA(r)  == Least(a_end - a_start, len[r])
DrainA(r) == a_start + TakeA(r) = a_end
TakeB(r)  == IF DrainA(r) THEN Least(b_end, len[r] - TakeA(r)) ELSE 0
\* Mutant: the buffer counts as empty once region A is.
DrainIgnoresB(r) == DrainA(r)
Drain(r)  == DrainA(r) /\ TakeB(r) = b_end

ReadExec(r) ==
    LET ma == TakeA(r)
        mb == TakeB(r)
    IN
    /\ pc[r] = "r_exec"
    /\ dst' = [i \in 1..(ma + mb) |->
                 IF i <= ma THEN buff[a_start + i - 1] ELSE buff[i - ma - 1]]
    /\ a_start' = IF ~DrainA(r) THEN a_start + ma ELSE IF Drain(r) THEN 0 ELSE mb
    /\ a_end'   = IF ~DrainA(r) THEN a_end ELSE IF Drain(r) THEN 0 ELSE b_end
    /\ b_end'   = IF ~DrainA(r) THEN b_end ELSE 0
    /\ can_read' = ~Drain(r)
    /\ rcvd' = rcvd + ma + mb
    /\ ret' = [ret EXCEPT ![r] = ma + mb]
    /\ Goto(r, IF Drain(r) THEN "r_reset" ELSE "r_exit")
    /\ UNCHANGED <<buff, can_write, evt_write, evt_read, closed, lock, len, sent>>

ReadReset(r) ==
    /\ pc[r] = "r_reset"
    /\ evt_read' = FALSE
    /\ Goto(r, "r_exit")
    /\ UNCHANGED <<region, can_write, evt_write, can_read, closed, lock, len, ret, stream>>

\* Mutant: the writers' event is not set.
ReadExitSilent(r) ==
    /\ pc[r] = "r_exit"
    /\ can_write' = TRUE
    /\ Goto(r, "leave")
    /\ UNCHANGED <<region, evt_write, can_read, evt_read, closed, lock, len, ret, stream>>
ReadExit(r) ==
    /\ pc[r] = "r_exit"
    /\ can_write' = TRUE
    /\ Goto(r, IF can_write THEN "leave" ELSE "r_signal")
    /\ UNCHANGED <<region, evt_write, can_read, evt_read, closed, lock, len, ret, stream>>

ReadSignal(r) ==
    /\ pc[r] = "r_signal"
    /\ SetWrite(r, "leave")
    /\ UNCHANGED <<region, can_write, can_read, evt_read, closed, lock, len, ret, stream>>

-----------------------------------------------------------------------------
(* bip_buffer_close: no lock is taken                                      *)

CloseSet(c) ==
    /\ pc[c] = "idle"
    /\ closed' = TRUE
    /\ Goto(c, "c_testr")
    /\ UNCHANGED <<region, can_write, evt_write, can_read, evt_read, lock, len, ret, stream>>

\* Mutant: the test for readers is the wrong way round.
CloseTestReadInverted(c) ==
    /\ pc[c] = "c_testr"
    /\ Goto(c, IF can_read THEN "c_setr" ELSE "c_testw")
    /\ UNCHANGED <<region, flags, lock, len, ret, stream>>
CloseTestRead(c) ==
    /\ pc[c] = "c_testr"
    /\ Goto(c, IF can_read THEN "c_testw" ELSE "c_setr")
    /\ UNCHANGED <<region, flags, lock, len, ret, stream>>

CloseSetRead(c) ==
    /\ pc[c] = "c_setr"
    /\ SetRead(c, "c_testw")
    /\ UNCHANGED <<region, can_write, evt_write, can_read, closed, lock, len, ret, stream>>

CloseTestWrite(c) ==
    /\ pc[c] = "c_testw"
    /\ Goto(c, IF can_write THEN "c_done" ELSE "c_setw")
    /\ UNCHANGED <<region, flags, lock, len, ret, stream>>

CloseSetWrite(c) ==
    /\ pc[c] = "c_setw"
    /\ SetWrite(c, "c_done")
    /\ UNCHANGED <<region, can_write, can_read, evt_read, closed, lock, len, ret, stream>>

-----------------------------------------------------------------------------
WriteStep(w) ==
    \/ WriteEnter(w) \/ WriteCheck(w) \/ WriteWait(w) \/ WriteWoken(w)
    \/ WriteExec(w) \/ WriteReset(w) \/ WriteExit(w) \/ WriteSignal(w) \/ Leave(w)
ReadStep(r) ==
    \/ ReadEnter(r) \/ ReadCheck(r) \/ ReadWait(r) \/ ReadWoken(r)
    \/ ReadExec(r) \/ ReadReset(r) \/ ReadExit(r) \/ ReadSignal(r) \/ Leave(r)
CloseStep(c) ==
    CloseTestRead(c) \/ CloseSetRead(c) \/ CloseTestWrite(c) \/ CloseSetWrite(c)

Next ==
    \/ \E w \in Writers : WriteStep(w) \/ \E n \in Lens : WriteCall(w, n)
    \/ \E r \in Readers : ReadStep(r) \/ \E n \in Lens : ReadCall(r, n)
    \/ \E c \in Closers : CloseStep(c) \/ CloseSet(c)

Spec == Init /\ [][Next]_vars

-----------------------------------------------------------------------------
(* Properties                                                              *)

Held == {"w_exec", "w_reset", "w_exit", "w_signal",
         "r_exec", "r_reset", "r_exit", "r_signal", "leave"}
WriterPC == {"idle", "w_enter", "w_check", "w_wait", "w_blocked", "w_woken",
             "w_exec", "w_reset", "w_exit", "w_signal", "leave"}
ReaderPC == {"idle", "r_enter", "r_check", "r_wait", "r_blocked", "r_woken",
             "r_exec", "r_reset", "r_exit", "r_signal", "leave"}
CloserPC == {"idle", "c_testr", "c_setr", "c_testw", "c_setw", "c_done"}

\* The type of every variable.
TypeOK ==
    /\ a_start \in 0..SIZE /\ a_end \in 0..SIZE /\ b_end \in 0..SIZE
    /\ buff \in [0..(SIZE - 1) -> Nat]
    /\ can_write \in BOOLEAN /\ evt_write \in BOOLEAN
    /\ can_read \in BOOLEAN /\ evt_read \in BOOLEAN /\ closed \in BOOLEAN
    /\ lock \in Threads \cup {NoThread}
    /\ pc \in [Threads -> WriterPC \cup ReaderPC \cup CloserPC]
    /\ \A w \in Writers : pc[w] \in WriterPC
    /\ \A r \in Readers : pc[r] \in ReaderPC
    /\ \A c \in Closers : pc[c] \in CloserPC
    /\ len \in [Threads -> Nat] /\ ret \in [Threads -> Int]
    /\ sent \in Nat /\ rcvd \in Nat /\ dst \in Seq(Nat)

Count == (a_end - a_start) + b_end

\* The layout the comment above the code promises: B ends at or before A
\* starts, B is in use only when A reaches the end of the array, and an empty
\* buffer has all three marks at zero.
Layout ==
    /\ b_end <= a_start /\ a_start <= a_end /\ a_end <= SIZE
    /\ b_end > 0 => a_end = SIZE
    /\ a_start = a_end => a_end = 0

\* What is stored is exactly the bytes accepted and not yet delivered, oldest
\* first, across the wrap from region A to region B.
InOrder ==
    /\ sent = rcvd + Count
    /\ \A i \in a_start..(a_end - 1) : buff[i] = rcvd + (i - a_start)
    /\ \A i \in 0..(b_end - 1) : buff[i] = rcvd + (a_end - a_start) + i

\* can_read and can_write tell an empty and a full buffer apart from the others
\* whenever no thread is between moving the data and updating the flag.
FlagsMatch ==
    /\ (\A w \in Writers : pc[w] \notin {"w_reset", "w_exit"}) => (can_read <=> Count > 0)
    /\ (\A r \in Readers : pc[r] \notin {"r_reset", "r_exit"}) => (can_write <=> Count < SIZE)

\* The assertions in bip_buffer_write and bip_buffer_read never fail: a writer
\* that was let in finds room in region B when it gets there and accepts at
\* least one byte, a reader that was let in finds a byte in region A.
AssertsHold ==
    /\ \A w \in Writers : pc[w] = "w_exec" =>
          /\ ReachB(w) => a_start - b_end > 0
          /\ AppendA(w) + AppendB(w) > 0
    /\ \A r \in Readers : pc[r] = "r_exec" =>
          /\ a_end - a_start > 0
          /\ TakeA(r) + TakeB(r) > 0

\* Each region, event and flag is only updated by the thread that owns the
\* critical section (bip_buffer_close apart).
Exclusive == \A t \in Threads : pc[t] \in Held <=> lock = t

\* What a thread inside the critical section knows: it was let in because its
\* flag was set, it asked for at least one byte, and the data it moved is there.
InCall ==
    /\ \A w \in Writers : /\ pc[w] # "idle" => len[w] > 0
                          /\ pc[w] = "w_exec" => can_write
                          /\ pc[w] \in {"w_reset", "w_exit"} => Count > 0
    /\ \A r \in Readers : /\ pc[r] # "idle" => len[r] > 0
                          /\ pc[r] = "r_exec" => can_read
                          /\ pc[r] \in {"r_reset", "r_exit"} => Count < SIZE

\* A flag is set together with its event, up to a signal about to be sent, and
\* nobody is blocked on an event that is set.
Wakes ==
    /\ can_read => evt_read \/ \E w \in Writers : pc[w] = "w_signal"
    /\ can_write => evt_write \/ \E r \in Readers : pc[r] = "r_signal"
    /\ \A r \in Readers : /\ pc[r] = "r_blocked" => ~evt_read
                          /\ pc[r] = "r_reset" => ~can_read
    /\ \A w \in Writers : /\ pc[w] = "w_blocked" => ~evt_write
                          /\ pc[w] = "w_reset" => ~can_write

\* The inductive invariant of bip_buffer_write, bip_buffer_read and
\* bip_buffer_close: the layout, the order of the bytes, the flags and the events
\* at every step of every thread.  It implies NoLostWakeup and AssertsHold.
IInv == TypeOK /\ Exclusive /\ InCall /\ Layout /\ InOrder /\ FlagsMatch /\ Wakes

\* No lost wake-up: a thread blocked on its event while it could proceed is about
\* to be released by the thread in the critical section.
NoLostWakeup ==
    /\ \A r \in Readers : pc[r] = "r_blocked" /\ Count > 0 =>
          \E w \in Writers : pc[w] \in {"w_reset", "w_exit", "w_signal"}
    /\ \A w \in Writers : pc[w] = "w_blocked" /\ Count < SIZE =>
          \E r \in Readers : pc[r] \in {"r_reset", "r_exit", "r_signal"}

\* A call never moves part of what it was asked to move.  It holds when SIZE is a
\* multiple of the one length in use, and is what lets several threads write
\* packet pointers to a transport's pair without tearing one: write_packet
\* and read_packet loop over partial results with no lock of their own.
NoTornPacket == \A t \in Writers \cup Readers : ret[t] > 0 => ret[t] = len[t]

\* The buffer is a bounded FIFO queue of bytes.
Contents == [i \in 1..Count |-> IF i <= a_end - a_start
                                THEN buff[a_start + i - 1]
                                ELSE buff[i - (a_end - a_start) - 1]]
Queue == INSTANCE ByteQueue WITH Capacity <- SIZE, queue <- Contents
IsQueue == Queue!Spec

\* A write that has begun returns, as long as the other end keeps reading.
WritesReturn == \A w \in Writers : pc[w] = "w_enter" ~> pc[w] = "idle"

\* Once the buffer is closed, every call in progress returns, blocked or not.
CloseReleases ==
    \A t \in Writers \cup Readers : (closed /\ pc[t] # "idle") ~> (pc[t] = "idle")
=============================================================================
