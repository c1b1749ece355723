------------------------------ MODULE WaitAll ------------------------------
(***************************************************************************)
(* _wait_for_all of the Windows build (sysdeps_win32.cpp): more handles    *)
(* than WaitForMultipleObjects takes are shared out to threads, and the    *)
(* call returns one that is signaled.  Handles are manual-reset events;    *)
(* whoever resets one is the caller, outside of this call.                 *)
(***************************************************************************)
EXTENDS Integers

CONSTANTS HandlesCount,   \* handles_count
          ChunkSize       \* WAIT_ALL_CHUNK_SIZE

ASSUME WaitAllAssumption == HandlesCount \in Nat \ {0} /\ ChunkSize \in Nat \ {0}

VARIABLES signaled,    \* the handles that are signaled
          main_event,  \* the event by which threads tell each other, and the caller
          sig_index,
          caller,      \* where the caller is, how many threads run, what it returned
          thread       \* thread[k]: where waiting thread k is, and what its wait returned

wait_vars == <<signaled, main_event, sig_index, caller, thread>>

WAIT_FAILED == -2

WaitHandles == 0 .. HandlesCount - 1

Remains == HandlesCount % ChunkSize
Chunks == HandlesCount \div ChunkSize + (IF Remains = 0 THEN 0 ELSE 1)
WaitThreads == 0 .. Chunks - 1

\* first_handle_index and handles_count of thread k
FirstHandle(k) == ChunkSize * k
ChunkCount(k) == IF k < HandlesCount \div ChunkSize THEN ChunkSize ELSE Remains

WaitInit ==
    /\ signaled \in SUBSET WaitHandles
    /\ main_event = FALSE
    /\ sig_index = -1
    /\ caller = [pc |-> "start", chunks |-> 0, failed |-> FALSE, ret |-> -1]
    /\ thread = [k \in WaitThreads |-> [pc |-> "none", res |-> 0]]

\* Somebody sets an event.
SignalHandle(h) ==
    /\ caller.pc # "done" /\ h \notin signaled
    /\ signaled' = signaled \cup {h}
    /\ UNCHANGED <<main_event, sig_index, caller, thread>>

-----------------------------------------------------------------------------
(* The caller                                                              *)

StartThread ==
    /\ caller.pc = "start" /\ caller.chunks < Chunks
    /\ \/ /\ thread' = [thread EXCEPT ![caller.chunks].pc = "wait"]
          /\ caller' = [caller EXCEPT !.chunks = @ + 1]
          /\ UNCHANGED main_event
       \/ /\ caller' = [caller EXCEPT !.pc = "wait", !.failed = TRUE]
          /\ main_event' = TRUE
          /\ UNCHANGED thread
    /\ UNCHANGED <<signaled, sig_index>>

AllStarted ==
    /\ caller.pc = "start" /\ caller.chunks = Chunks
    /\ caller' = [caller EXCEPT !.pc = "wait"]
    /\ UNCHANGED <<signaled, main_event, sig_index, thread>>

WaitMain ==
    /\ caller.pc = "wait" /\ main_event
    /\ caller' = [caller EXCEPT !.pc = "join"]
    /\ UNCHANGED <<signaled, main_event, sig_index, thread>>

Joined == \A k \in 0 .. caller.chunks - 1 : thread[k].pc = "exit"

ReturnIndex ==
    /\ caller.pc = "join" /\ Joined
    /\ caller' = [caller EXCEPT !.pc = "done", !.ret = IF sig_index >= 0 THEN sig_index ELSE WAIT_FAILED]
    /\ UNCHANGED <<signaled, main_event, sig_index, thread>>

-----------------------------------------------------------------------------
(* _in_waiter_thread                                                       *)

\* Mutant: the threads do not wait for each other's event.
MainWakesNot == FALSE

MainWakes == main_event

\* WaitForMultipleObjects returns the first of wait_on that is signaled:
\* 0 is main_event, r is handle r - 1 of the chunk.
ThreadWakes(k) ==
    /\ thread[k].pc = "wait"
    /\ \/ MainWakes /\ thread' = [thread EXCEPT ![k] = [pc |-> "set", res |-> 0]]
       \/ /\ ~MainWakes
          /\ \E r \in 1 .. ChunkCount(k) :
                /\ FirstHandle(k) + r - 1 \in signaled
                /\ \A q \in 1 .. ChunkCount(k) : FirstHandle(k) + q - 1 \in signaled => r <= q
                /\ thread' = [thread EXCEPT ![k] = [pc |-> "store", res |-> r]]
    /\ UNCHANGED <<signaled, main_event, sig_index, caller>>

\* Mutant: the index within the chunk.
AbsoluteIndexLost(k) == thread[k].res - 1

AbsoluteIndex(k) == thread[k].res - 1 + FirstHandle(k)

\* InterlockedCompareExchange
ThreadStores(k) ==
    /\ thread[k].pc = "store"
    /\ sig_index' = IF sig_index = -1 THEN AbsoluteIndex(k) ELSE sig_index
    /\ thread' = [thread EXCEPT ![k].pc = "set"]
    /\ UNCHANGED <<signaled, main_event, caller>>

\* SetEvent(main_event)
ThreadSets(k) ==
    /\ thread[k].pc = "set"
    /\ main_event' = TRUE
    /\ thread' = [thread EXCEPT ![k].pc = "exit"]
    /\ UNCHANGED <<signaled, sig_index, caller>>

-----------------------------------------------------------------------------
ThreadStep(k) == ThreadWakes(k) \/ ThreadStores(k) \/ ThreadSets(k)
CallerStep == StartThread \/ AllStarted \/ WaitMain \/ ReturnIndex

WaitNext == (\E h \in WaitHandles : SignalHandle(h)) \/ CallerStep \/ \E k \in WaitThreads : ThreadStep(k)
WaitSpec == WaitInit /\ [][WaitNext]_wait_vars

-----------------------------------------------------------------------------
(* Properties                                                              *)

WaitTypeOK ==
    /\ signaled \in SUBSET WaitHandles
    /\ main_event \in BOOLEAN
    /\ sig_index \in Int
    /\ caller \in [pc : {"start", "wait", "join", "done"}, chunks : 0 .. Chunks, failed : BOOLEAN, ret : Int]
    /\ thread \in [WaitThreads -> [pc : {"none", "wait", "store", "set", "exit"}, res : Nat]]

\* _wait_for_all returns the index of a signaled handle in the whole array, and
\* fails only when a thread could not be created; by then no thread is left that
\* would use the event or the parameters it frees.
Truthful ==
    caller.pc = "done" =>
       /\ caller.ret \in signaled \/ (caller.failed /\ caller.ret = WAIT_FAILED)
       /\ \A k \in WaitThreads : thread[k].pc \in {"none", "exit"}

\* The inductive invariant.  An event is set only after an index is stored, or for
\* want of a thread; a thread woken by the event therefore finds one of the two.
WaitInv ==
    /\ WaitTypeOK
    /\ sig_index # -1 => sig_index \in signaled
    /\ main_event => sig_index # -1 \/ caller.failed
    /\ \A k \in WaitThreads :
          /\ k >= caller.chunks => thread[k].pc = "none"
          /\ thread[k].pc = "store" => FirstHandle(k) + thread[k].res - 1 \in signaled
          /\ thread[k].pc \in {"set", "exit"} => sig_index # -1 \/ caller.failed
    /\ caller.pc \in {"join", "done"} => main_event
    /\ Truthful

\* One handle that is signaled is enough for the call to return, whichever chunk
\* it is in.
WaitAllReturns == (signaled # {}) ~> (caller.pc = "done")
=============================================================================
