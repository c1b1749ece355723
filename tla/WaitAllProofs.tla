---------------------------- MODULE WaitAllProofs ----------------------------
(***************************************************************************)
(* What _wait_for_all returns, for every number of handles and every size  *)
(* of a chunk.                                                             *)
(***************************************************************************)
EXTENDS WaitAll, TLAPS

\* The number of chunks is a number, and so is the first index of each.
LEMMA ChunkTypes == Chunks \in Nat /\ \A k \in WaitThreads : FirstHandle(k) \in Int
<1>1. HandlesCount \div ChunkSize \in Nat
  BY WaitAllAssumption
<1>2. Chunks \in Nat
  BY <1>1 DEF Chunks
<1>3. \A k \in WaitThreads : FirstHandle(k) \in Int
  BY WaitAllAssumption, <1>2 DEF WaitThreads, FirstHandle
<1> QED BY <1>2, <1>3

\* No thread runs at first.
LEMMA WaitInitInv == WaitInit => WaitInv
<1> SUFFICES ASSUME WaitInit PROVE WaitInv
  OBVIOUS
<1>1. /\ caller.pc = "start" /\ caller.chunks = 0 /\ ~main_event /\ sig_index = -1
      /\ \A k \in WaitThreads : thread[k].pc = "none"
  BY DEF WaitInit
<1>2. caller \in [pc : {"start", "wait", "join", "done"}, chunks : 0 .. Chunks, failed : BOOLEAN, ret : Int]
  BY ChunkTypes DEF WaitInit
<1>3. thread \in [WaitThreads -> [pc : {"none", "wait", "store", "set", "exit"}, res : Nat]]
  BY DEF WaitInit
<1>4. WaitTypeOK
  BY <1>2, <1>3 DEF WaitInit, WaitTypeOK
<1> QED BY <1>1, <1>4 DEF WaitInv, Truthful

\* Setting an event takes nothing back.
LEMMA SignalInv == ASSUME WaitInv, NEW h \in WaitHandles, SignalHandle(h) PROVE WaitInv'
<1>1. /\ signaled' = signaled \cup {h} /\ caller.pc # "done"
      /\ UNCHANGED <<main_event, sig_index, caller, thread>>
  BY DEF SignalHandle
<1>2. WaitTypeOK'
  BY <1>1 DEF WaitInv, WaitTypeOK
<1> QED BY <1>1, <1>2 DEF WaitInv, Truthful

\* A thread is started at the end of those that run, or the caller gives up.
LEMMA StartInv == ASSUME WaitInv, StartThread PROVE WaitInv'
<1> DEFINE n == caller.chunks
<1>1. /\ n \in Nat /\ n < Chunks /\ n \in WaitThreads /\ n + 1 \in 0 .. Chunks
      /\ caller.pc = "start" /\ UNCHANGED <<signaled, sig_index>>
  BY ChunkTypes DEF StartThread, WaitInv, WaitTypeOK, WaitThreads
<1>2. CASE /\ thread' = [thread EXCEPT ![n].pc = "wait"]
           /\ caller' = [caller EXCEPT !.chunks = n + 1]
           /\ UNCHANGED main_event
  <2>1. /\ caller'.pc = "start" /\ caller'.chunks = n + 1 /\ caller'.failed = caller.failed
        /\ \A k \in WaitThreads : /\ k = n => thread'[k].pc = "wait"
                                  /\ k # n => thread'[k] = thread[k]
    BY <1>1, <1>2 DEF WaitInv, WaitTypeOK
  <2>2. WaitTypeOK'
    BY <1>1, <1>2 DEF WaitInv, WaitTypeOK
  <2>3. \A k \in WaitThreads : k >= n + 1 => k >= n /\ k # n
    BY <1>1, ChunkTypes DEF WaitThreads
  <2> QED BY <1>1, <1>2, <2>1, <2>2, <2>3 DEF WaitInv, Truthful
<1>3. CASE /\ caller' = [caller EXCEPT !.pc = "wait", !.failed = TRUE]
           /\ main_event' = TRUE
           /\ UNCHANGED thread
  <2>1. caller'.pc = "wait" /\ caller'.failed /\ caller'.chunks = n
    BY <1>3 DEF WaitInv, WaitTypeOK
  <2>2. WaitTypeOK'
    BY <1>1, <1>3 DEF WaitInv, WaitTypeOK
  <2> QED BY <1>1, <1>3, <2>1, <2>2 DEF WaitInv, Truthful
<1> QED BY <1>2, <1>3 DEF StartThread

\* The caller's waits change nothing but its place.
LEMMA CallerWaitsInv == ASSUME WaitInv, AllStarted \/ WaitMain PROVE WaitInv'
<1>1. /\ UNCHANGED <<signaled, main_event, sig_index, thread>>
      /\ caller'.chunks = caller.chunks /\ caller'.failed = caller.failed
      /\ caller'.pc = "wait" \/ (caller'.pc = "join" /\ main_event)
  BY DEF AllStarted, WaitMain, WaitInv, WaitTypeOK
<1>2. WaitTypeOK'
  BY DEF AllStarted, WaitMain, WaitInv, WaitTypeOK
<1> QED BY <1>1, <1>2 DEF WaitInv, Truthful

\* Once all threads have exited, the index is final.
LEMMA ReturnInv == ASSUME WaitInv, ReturnIndex PROVE WaitInv'
<1>1. /\ UNCHANGED <<signaled, main_event, sig_index, thread>> /\ main_event
      /\ caller'.chunks = caller.chunks /\ caller'.failed = caller.failed /\ caller'.pc = "done"
      /\ caller'.ret = IF sig_index >= 0 THEN sig_index ELSE WAIT_FAILED
  BY DEF ReturnIndex, WaitInv, WaitTypeOK
<1>2. WaitTypeOK'
  <2>1. (IF sig_index >= 0 THEN sig_index ELSE WAIT_FAILED) \in Int
    BY DEF WaitInv, WaitTypeOK, WAIT_FAILED
  <2>2. caller' \in [pc : {"start", "wait", "join", "done"}, chunks : 0 .. Chunks, failed : BOOLEAN, ret : Int]
    BY <2>1 DEF ReturnIndex, WaitInv, WaitTypeOK
  <2> QED BY <1>1, <2>2 DEF WaitInv, WaitTypeOK
<1>3. \A k \in WaitThreads : thread[k].pc \in {"none", "exit"}
  <2>1. \A k \in WaitThreads : k < caller.chunks => thread[k].pc = "exit"
    BY ChunkTypes DEF ReturnIndex, Joined, WaitThreads, WaitInv, WaitTypeOK
  <2>2. \A k \in WaitThreads : k < caller.chunks \/ k >= caller.chunks
    BY ChunkTypes DEF WaitThreads, WaitInv, WaitTypeOK
  <2> QED BY <2>1, <2>2 DEF WaitInv
<1>4. caller'.ret \in signaled \/ (caller.failed /\ caller'.ret = WAIT_FAILED)
  <2>1. CASE sig_index = -1
    BY <2>1, <1>1 DEF WaitInv
  <2>2. CASE sig_index # -1
    <3>1. sig_index \in signaled /\ sig_index >= 0
      BY <2>2, WaitAllAssumption DEF WaitInv, WaitTypeOK, WaitHandles
    <3> QED BY <3>1, <1>1
  <2> QED BY <2>1, <2>2
<1> QED BY <1>1, <1>2, <1>3, <1>4 DEF WaitInv, Truthful

\* A thread wakes because an index is stored, or with a signaled handle of its own.
LEMMA WakesInv == ASSUME WaitInv, NEW k \in WaitThreads, ThreadWakes(k) PROVE WaitInv'
<1>1. /\ UNCHANGED <<signaled, main_event, sig_index, caller>>
      /\ thread[k].pc = "wait"
  BY DEF ThreadWakes
<1>2. PICK p \in {"set", "store"}, r \in Nat :
         /\ thread' = [thread EXCEPT ![k] = [pc |-> p, res |-> r]]
         /\ p = "set" => main_event
         /\ p = "store" => FirstHandle(k) + r - 1 \in signaled
  <2>1. CASE MainWakes
    BY <2>1 DEF ThreadWakes, MainWakes
  <2>2. CASE ~MainWakes
    <3>1. PICK r \in 1 .. ChunkCount(k) :
             /\ FirstHandle(k) + r - 1 \in signaled
             /\ thread' = [thread EXCEPT ![k] = [pc |-> "store", res |-> r]]
      BY <2>2 DEF ThreadWakes
    <3>2. r \in Nat
      BY WaitAllAssumption DEF ChunkCount, Remains
    <3> QED BY <3>1, <3>2
  <2> QED BY <2>1, <2>2
<1>3. /\ thread'[k].pc = p /\ thread'[k].res = r
      /\ \A j \in WaitThreads : j # k => thread'[j] = thread[j]
  BY <1>2 DEF WaitInv, WaitTypeOK
<1>4. WaitTypeOK'
  BY <1>1, <1>2 DEF WaitInv, WaitTypeOK
<1>5. ~(k >= caller.chunks) /\ caller.pc # "done"
  BY <1>1 DEF WaitInv, Truthful
<1> QED BY <1>1, <1>2, <1>3, <1>4, <1>5 DEF WaitInv, Truthful

\* The first thread to store fixes the index: that of its signaled handle.
LEMMA StoresInv == ASSUME WaitInv, NEW k \in WaitThreads, ThreadStores(k) PROVE WaitInv'
<1>1. UNCHANGED <<signaled, main_event, caller>> /\ thread[k].pc = "store"
  BY DEF ThreadStores
<1>2. AbsoluteIndex(k) = FirstHandle(k) + thread[k].res - 1 /\ AbsoluteIndex(k) \in signaled
  <2>1. thread[k].res \in Nat /\ FirstHandle(k) \in Int
    BY ChunkTypes DEF WaitInv, WaitTypeOK
  <2>2. AbsoluteIndex(k) = FirstHandle(k) + thread[k].res - 1
    BY <2>1 DEF AbsoluteIndex
  <2> QED BY <2>2, <1>1 DEF WaitInv
<1>3. sig_index' \in signaled /\ sig_index' # -1 /\ sig_index' \in Int
  <2>1. sig_index' \in signaled
    BY <1>2 DEF ThreadStores, WaitInv
  <2> QED BY <2>1, WaitAllAssumption DEF WaitInv, WaitTypeOK, WaitHandles
<1>4. /\ thread'[k].pc = "set" /\ \A j \in WaitThreads : j # k => thread'[j] = thread[j]
  BY DEF ThreadStores, WaitInv, WaitTypeOK
<1>5. WaitTypeOK'
  BY <1>1, <1>3 DEF ThreadStores, WaitInv, WaitTypeOK
<1>6. ~(k >= caller.chunks) /\ caller.pc # "done"
  BY <1>1 DEF WaitInv, Truthful
<1> QED BY <1>1, <1>3, <1>4, <1>5, <1>6 DEF WaitInv, Truthful

\* The event is set by a thread that has stored, or was woken by it.
LEMMA SetsInv == ASSUME WaitInv, NEW k \in WaitThreads, ThreadSets(k) PROVE WaitInv'
<1>1. UNCHANGED <<signaled, sig_index, caller>> /\ thread[k].pc = "set" /\ main_event'
  BY DEF ThreadSets
<1>2. /\ thread'[k].pc = "exit" /\ \A j \in WaitThreads : j # k => thread'[j] = thread[j]
  BY DEF ThreadSets, WaitInv, WaitTypeOK
<1>3. WaitTypeOK'
  BY <1>1 DEF ThreadSets, WaitInv, WaitTypeOK
<1>4. ~(k >= caller.chunks) /\ caller.pc # "done"
  BY <1>1 DEF WaitInv, Truthful
<1> QED BY <1>1, <1>2, <1>3, <1>4 DEF WaitInv, Truthful

\* The inductive invariant holds throughout.
THEOREM WaitInvariance == WaitSpec => []WaitInv
<1>1. WaitInv /\ [WaitNext]_wait_vars => WaitInv'
  <2> SUFFICES ASSUME WaitInv, [WaitNext]_wait_vars PROVE WaitInv'
    OBVIOUS
  <2>1. ASSUME NEW h \in WaitHandles, SignalHandle(h) PROVE WaitInv'
    BY <2>1, SignalInv
  <2>2. ASSUME CallerStep PROVE WaitInv'
    BY <2>2, StartInv, CallerWaitsInv, ReturnInv DEF CallerStep
  <2>3. ASSUME NEW k \in WaitThreads, ThreadStep(k) PROVE WaitInv'
    BY <2>3, WakesInv, StoresInv, SetsInv DEF ThreadStep
  <2>4. CASE UNCHANGED wait_vars
    BY <2>4 DEF wait_vars, WaitInv, WaitTypeOK, Truthful
  <2> QED BY <2>1, <2>2, <2>3, <2>4 DEF WaitNext
<1> QED BY WaitInitInv, <1>1, PTL DEF WaitSpec

\* _wait_for_all returns a signaled handle, or fails for want of a thread, and
\* leaves no thread behind, however many handles and chunks there are.
THEOREM WaitTruthful == WaitSpec => []Truthful
<1>1. WaitInv => Truthful
  BY DEF WaitInv
<1> QED BY WaitInvariance, <1>1, PTL
=============================================================================
