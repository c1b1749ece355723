------------------------------ MODULE FhTable ------------------------------
(***************************************************************************)
(* The table of file descriptors of the Windows build (sysdeps_win32.cpp): *)
(* _fh_alloc runs under _win32_lock, _fh_close under no lock.  A thread    *)
(* closes a descriptor that it has and closes it once.                     *)
(***************************************************************************)
EXTENDS Integers, FiniteSets

CONSTANTS FdThreads,     \* threads of the program
          MaxFhs         \* WIN32_MAX_FHS

ASSUME FhAssumption == MaxFhs \in Nat \ {0}

VARIABLES fh,        \* fh[i]: _win32_fhs[i], with clazz as "not NULL"
          fh_count,  \* _win32_fh_count
          owner      \* owner[i]: the threads that have descriptor i open
                     \* or are closing it, and how far they are

fh_vars == <<fh, fh_count, owner>>

Slots == 0 .. MaxFhs - 1
Places == {"none", "open", "closing", "unused"}

FhInit ==
    /\ fh = [i \in Slots |-> [clazz |-> FALSE, used |-> FALSE]]
    /\ fh_count = 0
    /\ owner = [i \in Slots |-> [t \in FdThreads |-> "none"]]

\* Mutant: a slot that is not used is free.
FreeToTakeUnused == {i \in Slots : ~fh[i].used}

\* The slots that _fh_alloc may take once every slot has been taken before.
FreeToTake == {i \in Slots : ~fh[i].clazz}

FhAlloc(t) ==
    \E i \in Slots :
       /\ IF fh_count < MaxFhs THEN i = fh_count
          ELSE i \in FreeToTake /\ \A j \in FreeToTake : i <= j
       /\ fh_count' = IF fh_count < MaxFhs THEN fh_count + 1 ELSE fh_count
       /\ fh' = [fh EXCEPT ![i] = [clazz |-> TRUE, used |-> TRUE]]
       /\ owner' = [owner EXCEPT ![i][t] = "open"]

\* _fh_from_int accepts the number, and _fh_close begins with the class's close,
FhCloseClass(t, i) ==
    /\ owner[i][t] = "open" /\ i < fh_count /\ fh[i].used
    /\ owner' = [owner EXCEPT ![i][t] = "closing"]
    /\ UNCHANGED <<fh, fh_count>>

\* goes on with `used',
FhCloseUsed(t, i) ==
    /\ owner[i][t] = "closing"
    /\ owner' = [owner EXCEPT ![i][t] = "unused"]
    /\ fh' = [fh EXCEPT ![i].used = FALSE]
    /\ UNCHANGED fh_count

\* and ends with `clazz'.
FhCloseClazz(t, i) ==
    /\ owner[i][t] = "unused"
    /\ owner' = [owner EXCEPT ![i][t] = "none"]
    /\ fh' = [fh EXCEPT ![i].clazz = FALSE]
    /\ UNCHANGED fh_count

FhNext ==
    \E t \in FdThreads :
       \/ FhAlloc(t)
       \/ \E i \in Slots : FhCloseClass(t, i) \/ FhCloseUsed(t, i) \/ FhCloseClazz(t, i)
FhSpec == FhInit /\ [][FhNext]_fh_vars

-----------------------------------------------------------------------------
FhTypeOK ==
    /\ fh \in [Slots -> [clazz : BOOLEAN, used : BOOLEAN]]
    /\ fh_count \in 0 .. MaxFhs
    /\ owner \in [Slots -> [FdThreads -> Places]]

\* A descriptor that a thread has open stays valid until that thread closes it,
\* and is nobody else's: no close that is under way in another thread, which
\* holds no lock, resets a slot that _fh_alloc has handed out again.
FdsHeld ==
    \A i \in Slots, t \in FdThreads :
       owner[i][t] # "none" =>
          /\ fh[i].clazz /\ (owner[i][t] # "unused" => fh[i].used)
          /\ \A u \in FdThreads : owner[i][u] # "none" => u = t

\* No slot is lost: one that nobody has open or is closing can be taken.
NoSlotLost == \A i \in Slots : (\A t \in FdThreads : owner[i][t] = "none") => ~fh[i].clazz

\* Slots that were never taken have no class.
Fresh == \A i \in Slots : i >= fh_count => ~fh[i].clazz

\* The inductive invariant: a slot without class has no owner by FdsHeld, so that
\* neither a fresh slot nor a free one is anybody's when _fh_alloc takes it.
FhInv == FhTypeOK /\ FdsHeld /\ NoSlotLost /\ Fresh
=============================================================================
