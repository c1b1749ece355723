---------------------------- MODULE FhTableProofs ----------------------------
(***************************************************************************)
(* Descriptors of the Windows build are never shared or reset under their  *)
(* owner, for every size of the table and every set of threads.            *)
(***************************************************************************)
EXTENDS FhTable, TLAPS

\* The table is empty at first, so nobody has a descriptor.
LEMMA FhInitInv == FhInit => FhInv
  BY FhAssumption DEF FhInit, FhInv, FhTypeOK, FdsHeld, NoSlotLost, Fresh, Slots, Places

\* _fh_alloc hands out a slot that nobody has.
LEMMA AllocInv == ASSUME FhInv, NEW t \in FdThreads, FhAlloc(t) PROVE FhInv'
<1>1. PICK i \in Slots :
         /\ IF fh_count < MaxFhs THEN i = fh_count ELSE i \in FreeToTake
         /\ fh_count' = IF fh_count < MaxFhs THEN fh_count + 1 ELSE fh_count
         /\ fh' = [fh EXCEPT ![i] = [clazz |-> TRUE, used |-> TRUE]]
         /\ owner' = [owner EXCEPT ![i][t] = "open"]
  BY DEF FhAlloc
<1>2. ~fh[i].clazz
  BY <1>1 DEF FhInv, Fresh, FhTypeOK, FreeToTake, Slots
<1>3. \A u \in FdThreads : owner[i][u] = "none"
  BY <1>2 DEF FhInv, FdsHeld
<1>4. FhTypeOK'
  BY <1>1, FhAssumption DEF FhInv, FhTypeOK, Slots, Places
<1>5. \A j \in Slots, u \in FdThreads : owner'[j][u] = IF j = i /\ u = t THEN "open" ELSE owner[j][u]
  BY <1>1 DEF FhInv, FhTypeOK
<1>6. \A j \in Slots : fh'[j] = IF j = i THEN [clazz |-> TRUE, used |-> TRUE] ELSE fh[j]
  BY <1>1 DEF FhInv, FhTypeOK
<1>7. FdsHeld'
  BY <1>3, <1>5, <1>6 DEF FhInv, FdsHeld
<1>8. NoSlotLost'
  BY <1>5, <1>6 DEF FhInv, NoSlotLost
<1>9. Fresh'
  BY <1>1, <1>6, FhAssumption DEF FhInv, FhTypeOK, Fresh, Slots
<1> QED BY <1>4, <1>7, <1>8, <1>9 DEF FhInv

\* A close disturbs its own slot only, and gives it up in its last step.
LEMMA CloseInv ==
    ASSUME FhInv, NEW t \in FdThreads, NEW i \in Slots,
           FhCloseClass(t, i) \/ FhCloseUsed(t, i) \/ FhCloseClazz(t, i)
    PROVE FhInv'
<1>1. ASSUME FhCloseClass(t, i) PROVE FhInv'
  <2>1. /\ \A j \in Slots, u \in FdThreads : owner'[j][u] = IF j = i /\ u = t THEN "closing" ELSE owner[j][u]
        /\ fh_count' = fh_count
    BY <1>1 DEF FhCloseClass, FhInv, FhTypeOK
  <2>2. fh' = fh
    BY <1>1 DEF FhCloseClass, FhInv, FhTypeOK
  <2>3. FhTypeOK'
    BY <1>1 DEF FhCloseClass, FhInv, FhTypeOK, Places
  <2>4. owner[i][t] = "open"
    BY <1>1 DEF FhCloseClass
  <2>5. fh[i].clazz /\ \A u \in FdThreads : owner[i][u] # "none" => u = t
    BY <2>4 DEF FhInv, FdsHeld
  <2>6. FdsHeld'
    BY <2>1, <2>2, <2>4, <2>5 DEF FhInv, FdsHeld
  <2>7. NoSlotLost'
    BY <2>1, <2>2, <2>4, <2>5 DEF FhInv, NoSlotLost
  <2>8. Fresh'
    BY <2>1, <2>2 DEF FhInv, Fresh
  <2> QED BY <2>3, <2>6, <2>7, <2>8 DEF FhInv
<1>2. ASSUME FhCloseUsed(t, i) PROVE FhInv'
  <2>1. /\ \A j \in Slots, u \in FdThreads : owner'[j][u] = IF j = i /\ u = t THEN "unused" ELSE owner[j][u]
        /\ fh_count' = fh_count
    BY <1>2 DEF FhCloseUsed, FhInv, FhTypeOK
  <2>2. \A j \in Slots : /\ j # i => fh'[j].used = fh[j].used
                         /\ ~fh'[i].used /\ fh'[j].clazz = fh[j].clazz
    BY <1>2 DEF FhCloseUsed, FhInv, FhTypeOK
  <2>3. FhTypeOK'
    BY <1>2 DEF FhCloseUsed, FhInv, FhTypeOK, Places
  <2>4. owner[i][t] = "closing"
    BY <1>2 DEF FhCloseUsed
  <2>5. fh[i].clazz /\ \A u \in FdThreads : owner[i][u] # "none" => u = t
    BY <2>4 DEF FhInv, FdsHeld
  <2>6. FdsHeld'
    BY <2>1, <2>2, <2>4, <2>5 DEF FhInv, FdsHeld
  <2>7. NoSlotLost'
    BY <2>1, <2>2, <2>4, <2>5 DEF FhInv, NoSlotLost
  <2>8. Fresh'
    BY <2>1, <2>2 DEF FhInv, Fresh
  <2> QED BY <2>3, <2>6, <2>7, <2>8 DEF FhInv
<1>3. ASSUME FhCloseClazz(t, i) PROVE FhInv'
  <2>1. /\ \A j \in Slots, u \in FdThreads : owner'[j][u] = IF j = i /\ u = t THEN "none" ELSE owner[j][u]
        /\ fh_count' = fh_count
    BY <1>3 DEF FhCloseClazz, FhInv, FhTypeOK
  <2>2. \A j \in Slots : /\ j # i => fh'[j].clazz = fh[j].clazz
                         /\ ~fh'[i].clazz /\ fh'[j].used = fh[j].used
    BY <1>3 DEF FhCloseClazz, FhInv, FhTypeOK
  <2>3. FhTypeOK'
    BY <1>3 DEF FhCloseClazz, FhInv, FhTypeOK, Places
  <2>4. owner[i][t] = "unused"
    BY <1>3 DEF FhCloseClazz
  <2>5. fh[i].clazz /\ \A u \in FdThreads : owner[i][u] # "none" => u = t
    BY <2>4 DEF FhInv, FdsHeld
  <2>6. FdsHeld'
    BY <2>1, <2>2, <2>4, <2>5 DEF FhInv, FdsHeld
  <2>7. NoSlotLost'
    BY <2>1, <2>2, <2>4, <2>5 DEF FhInv, NoSlotLost
  <2>8. Fresh'
    BY <2>1, <2>2 DEF FhInv, Fresh
  <2> QED BY <2>3, <2>6, <2>7, <2>8 DEF FhInv
<1> QED BY <1>1, <1>2, <1>3

\* The inductive invariant holds throughout.
THEOREM FhInvariance == FhSpec => []FhInv
<1>1. FhInv /\ [FhNext]_fh_vars => FhInv'
  <2> SUFFICES ASSUME FhInv, [FhNext]_fh_vars PROVE FhInv'
    OBVIOUS
  <2>1. ASSUME NEW t \in FdThreads, FhAlloc(t) PROVE FhInv'
    BY <2>1, AllocInv
  <2>2. ASSUME NEW t \in FdThreads, NEW i \in Slots,
               FhCloseClass(t, i) \/ FhCloseUsed(t, i) \/ FhCloseClazz(t, i)
        PROVE FhInv'
    BY <2>2, CloseInv
  <2>3. CASE UNCHANGED fh_vars
    BY <2>3 DEF fh_vars, FhInv, FhTypeOK, FdsHeld, NoSlotLost, Fresh
  <2> QED BY <2>1, <2>2, <2>3 DEF FhNext
<1> QED BY FhInitInv, <1>1, PTL DEF FhSpec

\* A descriptor belongs to one thread, which alone can make it invalid.
THEOREM DescriptorsHeld == FhSpec => []FdsHeld
<1>1. FhInv => FdsHeld
  BY DEF FhInv
<1> QED BY FhInvariance, <1>1, PTL

\* A slot that nobody has can be taken again.
THEOREM SlotsReturn == FhSpec => []NoSlotLost
<1>1. FhInv => NoSlotLost
  BY DEF FhInv
<1> QED BY FhInvariance, <1>1, PTL
=============================================================================
