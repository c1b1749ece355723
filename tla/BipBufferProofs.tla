-------------------------- MODULE BipBufferProofs --------------------------
(***************************************************************************)
(* The buffer of an emulated socketpair keeps its bytes in order, and its  *)
(* assertions hold, for every buffer size, any number of threads and every *)
(* length they ask for.                                                    *)
(***************************************************************************)
EXTENDS BipBuffer, TLAPS

\* The buffer bip_buffer_init makes satisfies the invariant.
LEMMA InitIInv == Init => IInv
<1> USE SizeAssumption, ThreadAssumption
<1> SUFFICES ASSUME Init PROVE IInv
  OBVIOUS
<1>1. TypeOK
  BY DEF Init, TypeOK, WriterPC, ReaderPC, CloserPC, Threads
<1>2. Exclusive
  BY DEF Init, Exclusive, Held, Threads
<1>3. InCall
  BY DEF Init, InCall, Threads
<1>4. Layout /\ InOrder /\ FlagsMatch
  BY DEF Init, Layout, InOrder, FlagsMatch, Count
<1>5. Wakes
  BY DEF Init, Wakes, Threads
<1>6. QED
  BY <1>1, <1>2, <1>3, <1>4, <1>5 DEF IInv

\* A step that moves no data keeps the layout and the order.
LEMMA QuietStep ==
  ASSUME Layout, InOrder, UNCHANGED <<region, stream>>
  PROVE  Layout' /\ InOrder' /\ Count' = Count
BY SMTT(30) DEF Layout, InOrder, Count, region, stream

\* Every step but the two that move data preserves the invariant.
LEMMA ControlStep ==
  ASSUME IInv
  PROVE  /\ \A w \in Writers :
              \/ \E n \in Lens : WriteCall(w, n)
              \/ WriteEnter(w) \/ WriteCheck(w) \/ WriteWait(w) \/ WriteWoken(w)
              \/ WriteReset(w) \/ WriteExit(w) \/ WriteSignal(w) \/ Leave(w)
              => IInv'
         /\ \A r \in Readers :
              \/ \E n \in Lens : ReadCall(r, n)
              \/ ReadEnter(r) \/ ReadCheck(r) \/ ReadWait(r) \/ ReadWoken(r)
              \/ ReadReset(r) \/ ReadExit(r) \/ ReadSignal(r) \/ Leave(r)
              => IInv'
         /\ \A c \in Closers : CloseStep(c) \/ CloseSet(c) => IInv'
<1> USE SizeAssumption, LensAssumption, ThreadAssumption
    DEF IInv, Held, WriterPC, ReaderPC, CloserPC, Threads,
        Goto, Return, Release, SetWrite, SetRead, region, flags, stream
<1>0. -1 \in Int
  OBVIOUS
<1>1. ASSUME NEW w \in Writers, NEW n \in Lens, WriteCall(w, n) PROVE IInv'
  <2>0. Layout' /\ InOrder' /\ Count' = Count BY <1>1, QuietStep DEF WriteCall
  <2>1. TypeOK' BY <1>1 DEF TypeOK, WriteCall
  <2>2. Exclusive' BY <1>1 DEF TypeOK, Exclusive, WriteCall
  <2>3. InCall' BY <1>1, <2>0 DEF TypeOK, InCall, WriteCall
  <2>4. FlagsMatch' BY <1>1, <2>0 DEF TypeOK, Exclusive, InCall, FlagsMatch, WriteCall
  <2>5. Wakes' BY <1>1 DEF TypeOK, Exclusive, Wakes, WriteCall
  <2>6. QED BY <2>0, <2>1, <2>2, <2>3, <2>4, <2>5
<1>2. ASSUME NEW w \in Writers, WriteEnter(w) PROVE IInv'
  <2>0. Layout' /\ InOrder' /\ Count' = Count BY <1>2, QuietStep DEF WriteEnter
  <2>a. UNCHANGED <<region, flags, len, ret, stream>> /\ ((lock' = w /\ Goto(w, "w_exec")) \/ (UNCHANGED lock /\ Goto(w, "w_check")))
    BY <1>2, Zenon DEF WriteEnter, flags
  <2>1. TypeOK'
    <3>1. CASE lock' = w /\ Goto(w, "w_exec") BY <1>0, <2>a, <3>1 DEF TypeOK
    <3>2. CASE UNCHANGED lock /\ Goto(w, "w_check") BY <1>0, <2>a, <3>2 DEF TypeOK
    <3>3. QED BY <2>a, <3>1, <3>2
  <2>2. Exclusive' BY <1>2 DEF TypeOK, Exclusive, WriteEnter
  <2>3. InCall' BY <1>2, <2>0 DEF TypeOK, InCall, WriteEnter
  <2>4. FlagsMatch' BY <1>2, <2>0 DEF TypeOK, Exclusive, InCall, FlagsMatch, WriteEnter
  <2>5. Wakes' BY <1>2 DEF TypeOK, Exclusive, Wakes, WriteEnter
  <2>6. QED BY <2>0, <2>1, <2>2, <2>3, <2>4, <2>5
<1>3. ASSUME NEW w \in Writers, WriteCheck(w) PROVE IInv'
  <2>0. Layout' /\ InOrder' /\ Count' = Count BY <1>3, QuietStep DEF WriteCheck
  <2>a. UNCHANGED <<region, flags, lock, len, stream>> /\ ((Return(w, -1)) \/ (Goto(w, "w_wait") /\ UNCHANGED ret))
    BY <1>3, Zenon DEF WriteCheck, flags
  <2>1. TypeOK'
    <3>1. CASE Return(w, -1) BY <1>0, <2>a, <3>1 DEF TypeOK
    <3>2. CASE Goto(w, "w_wait") /\ UNCHANGED ret BY <1>0, <2>a, <3>2 DEF TypeOK
    <3>3. QED BY <2>a, <3>1, <3>2
  <2>2. Exclusive' BY <1>3 DEF TypeOK, Exclusive, WriteCheck
  <2>3. InCall' BY <1>3, <2>0 DEF TypeOK, InCall, WriteCheck
  <2>4. FlagsMatch'
    <3>1. /\ \A v \in Writers : pc'[v] \in {"w_reset", "w_exit"} <=> pc[v] \in {"w_reset", "w_exit"}
          /\ \A v \in Readers : pc'[v] \in {"r_reset", "r_exit"} <=> pc[v] \in {"r_reset", "r_exit"}
      BY <1>3 DEF TypeOK, WriteCheck
    <3>2. can_read' = can_read /\ can_write' = can_write BY <2>a
    <3>3. FlagsMatch OBVIOUS
    <3>4. QED BY ONLY <3>1, <3>2, <3>3, <2>0, Zenon DEF FlagsMatch
  <2>5. Wakes' BY <1>3 DEF TypeOK, Exclusive, Wakes, WriteCheck
  <2>6. QED BY <2>0, <2>1, <2>2, <2>3, <2>4, <2>5
<1>4. ASSUME NEW w \in Writers, WriteWait(w) PROVE IInv'
  <2>0. Layout' /\ InOrder' /\ Count' = Count BY <1>4, QuietStep DEF WriteWait
  <2>1. TypeOK' BY <1>4 DEF TypeOK, WriteWait
  <2>2. Exclusive' BY <1>4 DEF TypeOK, Exclusive, WriteWait
  <2>3. InCall' BY <1>4, <2>0 DEF TypeOK, InCall, WriteWait
  <2>4. FlagsMatch' BY <1>4, <2>0 DEF TypeOK, Exclusive, InCall, FlagsMatch, WriteWait
  <2>5. Wakes' BY <1>4 DEF TypeOK, Exclusive, Wakes, WriteWait
  <2>6. QED BY <2>0, <2>1, <2>2, <2>3, <2>4, <2>5
<1>5. ASSUME NEW w \in Writers, WriteWoken(w) PROVE IInv'
  <2>0. Layout' /\ InOrder' /\ Count' = Count BY <1>5, QuietStep DEF WriteWoken
  <2>a. UNCHANGED <<region, flags, lock, len, stream>> /\ ((Return(w, -1)) \/ (Goto(w, "w_enter") /\ UNCHANGED ret))
    BY <1>5, Zenon DEF WriteWoken, flags
  <2>1. TypeOK'
    <3>1. CASE Return(w, -1) BY <1>0, <2>a, <3>1 DEF TypeOK
    <3>2. CASE Goto(w, "w_enter") /\ UNCHANGED ret BY <1>0, <2>a, <3>2 DEF TypeOK
    <3>3. QED BY <2>a, <3>1, <3>2
  <2>2. Exclusive' BY <1>5 DEF TypeOK, Exclusive, WriteWoken
  <2>3. InCall' BY <1>5, <2>0 DEF TypeOK, InCall, WriteWoken
  <2>4. FlagsMatch'
    <3>1. /\ \A v \in Writers : pc'[v] \in {"w_reset", "w_exit"} <=> pc[v] \in {"w_reset", "w_exit"}
          /\ \A v \in Readers : pc'[v] \in {"r_reset", "r_exit"} <=> pc[v] \in {"r_reset", "r_exit"}
      BY <1>5 DEF TypeOK, WriteWoken
    <3>2. can_read' = can_read /\ can_write' = can_write BY <2>a
    <3>3. FlagsMatch OBVIOUS
    <3>4. QED BY ONLY <3>1, <3>2, <3>3, <2>0, Zenon DEF FlagsMatch
  <2>5. Wakes' BY <1>5 DEF TypeOK, Exclusive, Wakes, WriteWoken
  <2>6. QED BY <2>0, <2>1, <2>2, <2>3, <2>4, <2>5
<1>6. ASSUME NEW w \in Writers, WriteReset(w) PROVE IInv'
  <2>0. Layout' /\ InOrder' /\ Count' = Count BY <1>6, QuietStep DEF WriteReset
  <2>1. TypeOK' BY <1>6 DEF TypeOK, WriteReset
  <2>2. Exclusive' BY <1>6 DEF TypeOK, Exclusive, WriteReset
  <2>3. InCall' BY <1>6, <2>0 DEF TypeOK, InCall, WriteReset
  <2>4. FlagsMatch' BY <1>6, <2>0 DEF TypeOK, Exclusive, InCall, FlagsMatch, WriteReset
  <2>5. Wakes' BY <1>6 DEF TypeOK, Exclusive, Wakes, WriteReset
  <2>6. QED BY <2>0, <2>1, <2>2, <2>3, <2>4, <2>5
<1>7. ASSUME NEW w \in Writers, WriteExit(w) PROVE IInv'
  <2>0. Layout' /\ InOrder' /\ Count' = Count BY <1>7, QuietStep DEF WriteExit
  <2>1. TypeOK' BY <1>7 DEF TypeOK, WriteExit
  <2>2. Exclusive' BY <1>7 DEF TypeOK, Exclusive, WriteExit
  <2>3. InCall' BY <1>7, <2>0 DEF TypeOK, InCall, WriteExit
  <2>4. FlagsMatch' BY <1>7, <2>0 DEF TypeOK, Exclusive, InCall, FlagsMatch, WriteExit
  <2>5. Wakes' BY <1>7 DEF TypeOK, Exclusive, Wakes, WriteExit
  <2>6. QED BY <2>0, <2>1, <2>2, <2>3, <2>4, <2>5
<1>8. ASSUME NEW w \in Writers, WriteSignal(w) PROVE IInv'
  <2>0. Layout' /\ InOrder' /\ Count' = Count BY <1>8, QuietStep DEF WriteSignal
  <2>1. TypeOK' BY <1>8 DEF TypeOK, WriteSignal
  <2>2. Exclusive' BY <1>8 DEF TypeOK, Exclusive, WriteSignal
  <2>3. InCall' BY <1>8, <2>0 DEF TypeOK, InCall, WriteSignal
  <2>4. FlagsMatch' BY <1>8, <2>0 DEF TypeOK, Exclusive, InCall, FlagsMatch, WriteSignal
  <2>5. Wakes' BY <1>8 DEF TypeOK, Exclusive, Wakes, WriteSignal
  <2>6. QED BY <2>0, <2>1, <2>2, <2>3, <2>4, <2>5
<1>9. ASSUME NEW r \in Readers, NEW n \in Lens, ReadCall(r, n) PROVE IInv'
  <2>0. Layout' /\ InOrder' /\ Count' = Count BY <1>9, QuietStep DEF ReadCall
  <2>1. TypeOK' BY <1>9 DEF TypeOK, ReadCall
  <2>2. Exclusive' BY <1>9 DEF TypeOK, Exclusive, ReadCall
  <2>3. InCall' BY <1>9, <2>0 DEF TypeOK, InCall, ReadCall
  <2>4. FlagsMatch' BY <1>9, <2>0 DEF TypeOK, Exclusive, InCall, FlagsMatch, ReadCall
  <2>5. Wakes' BY <1>9 DEF TypeOK, Exclusive, Wakes, ReadCall
  <2>6. QED BY <2>0, <2>1, <2>2, <2>3, <2>4, <2>5
<1>10. ASSUME NEW r \in Readers, ReadEnter(r) PROVE IInv'
  <2>0. Layout' /\ InOrder' /\ Count' = Count BY <1>10, QuietStep DEF ReadEnter
  <2>a. UNCHANGED <<region, flags, len, ret, stream>> /\ ((lock' = r /\ Goto(r, "r_exec")) \/ (UNCHANGED lock /\ Goto(r, "r_check")))
    BY <1>10, Zenon DEF ReadEnter, flags
  <2>1. TypeOK'
    <3>1. CASE lock' = r /\ Goto(r, "r_exec") BY <1>0, <2>a, <3>1 DEF TypeOK
    <3>2. CASE UNCHANGED lock /\ Goto(r, "r_check") BY <1>0, <2>a, <3>2 DEF TypeOK
    <3>3. QED BY <2>a, <3>1, <3>2
  <2>2. Exclusive' BY <1>10 DEF TypeOK, Exclusive, ReadEnter
  <2>3. InCall' BY <1>10, <2>0 DEF TypeOK, InCall, ReadEnter
  <2>4. FlagsMatch' BY <1>10, <2>0 DEF TypeOK, Exclusive, InCall, FlagsMatch, ReadEnter
  <2>5. Wakes' BY <1>10 DEF TypeOK, Exclusive, Wakes, ReadEnter
  <2>6. QED BY <2>0, <2>1, <2>2, <2>3, <2>4, <2>5
<1>11. ASSUME NEW r \in Readers, ReadCheck(r) PROVE IInv'
  <2>0. Layout' /\ InOrder' /\ Count' = Count BY <1>11, QuietStep DEF ReadCheck
  <2>a. UNCHANGED <<region, flags, lock, len, stream>> /\ ((Return(r, -1)) \/ (Goto(r, "r_wait") /\ UNCHANGED ret))
    BY <1>11, Zenon DEF ReadCheck, flags
  <2>1. TypeOK'
    <3>1. CASE Return(r, -1) BY <1>0, <2>a, <3>1 DEF TypeOK
    <3>2. CASE Goto(r, "r_wait") /\ UNCHANGED ret BY <1>0, <2>a, <3>2 DEF TypeOK
    <3>3. QED BY <2>a, <3>1, <3>2
  <2>2. Exclusive' BY <1>11 DEF TypeOK, Exclusive, ReadCheck
  <2>3. InCall' BY <1>11, <2>0 DEF TypeOK, InCall, ReadCheck
  <2>4. FlagsMatch' BY <1>11, <2>0 DEF TypeOK, Exclusive, InCall, FlagsMatch, ReadCheck
  <2>5. Wakes' BY <1>11 DEF TypeOK, Exclusive, Wakes, ReadCheck
  <2>6. QED BY <2>0, <2>1, <2>2, <2>3, <2>4, <2>5
<1>12. ASSUME NEW r \in Readers, ReadWait(r) PROVE IInv'
  <2>0. Layout' /\ InOrder' /\ Count' = Count BY <1>12, QuietStep DEF ReadWait
  <2>1. TypeOK' BY <1>12 DEF TypeOK, ReadWait
  <2>2. Exclusive' BY <1>12 DEF TypeOK, Exclusive, ReadWait
  <2>3. InCall' BY <1>12, <2>0 DEF TypeOK, InCall, ReadWait
  <2>4. FlagsMatch' BY <1>12, <2>0 DEF TypeOK, Exclusive, InCall, FlagsMatch, ReadWait
  <2>5. Wakes' BY <1>12 DEF TypeOK, Exclusive, Wakes, ReadWait
  <2>6. QED BY <2>0, <2>1, <2>2, <2>3, <2>4, <2>5
<1>13. ASSUME NEW r \in Readers, ReadWoken(r) PROVE IInv'
  <2>0. Layout' /\ InOrder' /\ Count' = Count BY <1>13, QuietStep DEF ReadWoken
  <2>a. UNCHANGED <<region, flags, lock, len, stream>> /\ ((Return(r, -1)) \/ (Goto(r, "r_enter") /\ UNCHANGED ret))
    BY <1>13, Zenon DEF ReadWoken, flags
  <2>1. TypeOK'
    <3>1. CASE Return(r, -1) BY <1>0, <2>a, <3>1 DEF TypeOK
    <3>2. CASE Goto(r, "r_enter") /\ UNCHANGED ret BY <1>0, <2>a, <3>2 DEF TypeOK
    <3>3. QED BY <2>a, <3>1, <3>2
  <2>2. Exclusive' BY <1>13 DEF TypeOK, Exclusive, ReadWoken
  <2>3. InCall' BY <1>13, <2>0 DEF TypeOK, InCall, ReadWoken
  <2>4. FlagsMatch'
    <3>1. /\ \A v \in Writers : pc'[v] \in {"w_reset", "w_exit"} <=> pc[v] \in {"w_reset", "w_exit"}
          /\ \A v \in Readers : pc'[v] \in {"r_reset", "r_exit"} <=> pc[v] \in {"r_reset", "r_exit"}
      BY <1>13 DEF TypeOK, ReadWoken
    <3>2. can_read' = can_read /\ can_write' = can_write BY <2>a
    <3>3. FlagsMatch OBVIOUS
    <3>4. QED BY ONLY <3>1, <3>2, <3>3, <2>0, Zenon DEF FlagsMatch
  <2>5. Wakes' BY <1>13 DEF TypeOK, Exclusive, Wakes, ReadWoken
  <2>6. QED BY <2>0, <2>1, <2>2, <2>3, <2>4, <2>5
<1>14. ASSUME NEW r \in Readers, ReadReset(r) PROVE IInv'
  <2>0. Layout' /\ InOrder' /\ Count' = Count BY <1>14, QuietStep DEF ReadReset
  <2>1. TypeOK' BY <1>14 DEF TypeOK, ReadReset
  <2>2. Exclusive' BY <1>14 DEF TypeOK, Exclusive, ReadReset
  <2>3. InCall' BY <1>14, <2>0 DEF TypeOK, InCall, ReadReset
  <2>4. FlagsMatch' BY <1>14, <2>0 DEF TypeOK, Exclusive, InCall, FlagsMatch, ReadReset
  <2>5. Wakes' BY <1>14 DEF TypeOK, Exclusive, Wakes, ReadReset
  <2>6. QED BY <2>0, <2>1, <2>2, <2>3, <2>4, <2>5
<1>15. ASSUME NEW r \in Readers, ReadExit(r) PROVE IInv'
  <2>0. Layout' /\ InOrder' /\ Count' = Count BY <1>15, QuietStep DEF ReadExit
  <2>1. TypeOK' BY <1>15 DEF TypeOK, ReadExit
  <2>2. Exclusive' BY <1>15 DEF TypeOK, Exclusive, ReadExit
  <2>3. InCall' BY <1>15, <2>0 DEF TypeOK, InCall, ReadExit
  <2>4. FlagsMatch' BY <1>15, <2>0 DEF TypeOK, Exclusive, InCall, FlagsMatch, ReadExit
  <2>5. Wakes' BY <1>15 DEF TypeOK, Exclusive, Wakes, ReadExit
  <2>6. QED BY <2>0, <2>1, <2>2, <2>3, <2>4, <2>5
<1>16. ASSUME NEW r \in Readers, ReadSignal(r) PROVE IInv'
  <2>0. Layout' /\ InOrder' /\ Count' = Count BY <1>16, QuietStep DEF ReadSignal
  <2>1. TypeOK' BY <1>16 DEF TypeOK, ReadSignal
  <2>2. Exclusive' BY <1>16 DEF TypeOK, Exclusive, ReadSignal
  <2>3. InCall' BY <1>16, <2>0 DEF TypeOK, InCall, ReadSignal
  <2>4. FlagsMatch' BY <1>16, <2>0 DEF TypeOK, Exclusive, InCall, FlagsMatch, ReadSignal
  <2>5. Wakes' BY <1>16 DEF TypeOK, Exclusive, Wakes, ReadSignal
  <2>6. QED BY <2>0, <2>1, <2>2, <2>3, <2>4, <2>5
<1>17. ASSUME NEW t \in Writers \cup Readers, Leave(t) PROVE IInv'
  <2>0. Layout' /\ InOrder' /\ Count' = Count BY <1>17, QuietStep DEF Leave
  <2>1. TypeOK' BY <1>17 DEF TypeOK, Leave
  <2>2. Exclusive' BY <1>17 DEF TypeOK, Exclusive, Leave
  <2>3. InCall' BY <1>17, <2>0 DEF TypeOK, InCall, Leave
  <2>4. FlagsMatch' BY <1>17, <2>0 DEF TypeOK, Exclusive, InCall, FlagsMatch, Leave
  <2>5. Wakes' BY <1>17 DEF TypeOK, Exclusive, Wakes, Leave
  <2>6. QED BY <2>0, <2>1, <2>2, <2>3, <2>4, <2>5
<1>18. ASSUME NEW c \in Closers, CloseSet(c) PROVE IInv'
  <2>0. Layout' /\ InOrder' /\ Count' = Count BY <1>18, QuietStep DEF CloseSet
  <2>1. TypeOK' BY <1>18 DEF TypeOK, CloseSet
  <2>2. Exclusive' BY <1>18 DEF TypeOK, Exclusive, CloseSet
  <2>3. InCall' BY <1>18, <2>0 DEF TypeOK, InCall, CloseSet
  <2>4. FlagsMatch' BY <1>18, <2>0 DEF TypeOK, Exclusive, InCall, FlagsMatch, CloseSet
  <2>5. Wakes' BY <1>18 DEF TypeOK, Exclusive, Wakes, CloseSet
  <2>6. QED BY <2>0, <2>1, <2>2, <2>3, <2>4, <2>5
<1>19. ASSUME NEW c \in Closers, CloseTestRead(c) PROVE IInv'
  <2>0. Layout' /\ InOrder' /\ Count' = Count BY <1>19, QuietStep DEF CloseTestRead
  <2>1. TypeOK' BY <1>19 DEF TypeOK, CloseTestRead
  <2>2. Exclusive' BY <1>19 DEF TypeOK, Exclusive, CloseTestRead
  <2>3. InCall' BY <1>19, <2>0 DEF TypeOK, InCall, CloseTestRead
  <2>4. FlagsMatch' BY <1>19, <2>0 DEF TypeOK, Exclusive, InCall, FlagsMatch, CloseTestRead
  <2>5. Wakes' BY <1>19 DEF TypeOK, Exclusive, Wakes, CloseTestRead
  <2>6. QED BY <2>0, <2>1, <2>2, <2>3, <2>4, <2>5
<1>20. ASSUME NEW c \in Closers, CloseSetRead(c) PROVE IInv'
  <2>0. Layout' /\ InOrder' /\ Count' = Count BY <1>20, QuietStep DEF CloseSetRead
  <2>1. TypeOK' BY <1>20 DEF TypeOK, CloseSetRead
  <2>2. Exclusive' BY <1>20 DEF TypeOK, Exclusive, CloseSetRead
  <2>3. InCall' BY <1>20, <2>0 DEF TypeOK, InCall, CloseSetRead
  <2>4. FlagsMatch' BY <1>20, <2>0 DEF TypeOK, Exclusive, InCall, FlagsMatch, CloseSetRead
  <2>5. Wakes' BY <1>20 DEF TypeOK, Exclusive, Wakes, CloseSetRead
  <2>6. QED BY <2>0, <2>1, <2>2, <2>3, <2>4, <2>5
<1>21. ASSUME NEW c \in Closers, CloseTestWrite(c) PROVE IInv'
  <2>0. Layout' /\ InOrder' /\ Count' = Count BY <1>21, QuietStep DEF CloseTestWrite
  <2>1. TypeOK' BY <1>21 DEF TypeOK, CloseTestWrite
  <2>2. Exclusive' BY <1>21 DEF TypeOK, Exclusive, CloseTestWrite
  <2>3. InCall' BY <1>21, <2>0 DEF TypeOK, InCall, CloseTestWrite
  <2>4. FlagsMatch' BY <1>21, <2>0 DEF TypeOK, Exclusive, InCall, FlagsMatch, CloseTestWrite
  <2>5. Wakes' BY <1>21 DEF TypeOK, Exclusive, Wakes, CloseTestWrite
  <2>6. QED BY <2>0, <2>1, <2>2, <2>3, <2>4, <2>5
<1>22. ASSUME NEW c \in Closers, CloseSetWrite(c) PROVE IInv'
  <2>0. Layout' /\ InOrder' /\ Count' = Count BY <1>22, QuietStep DEF CloseSetWrite
  <2>1. TypeOK' BY <1>22 DEF TypeOK, CloseSetWrite
  <2>2. Exclusive' BY <1>22 DEF TypeOK, Exclusive, CloseSetWrite
  <2>3. InCall' BY <1>22, <2>0 DEF TypeOK, InCall, CloseSetWrite
  <2>4. FlagsMatch' BY <1>22, <2>0 DEF TypeOK, Exclusive, InCall, FlagsMatch, CloseSetWrite
  <2>5. Wakes' BY <1>22 DEF TypeOK, Exclusive, Wakes, CloseSetWrite
  <2>6. QED BY <2>0, <2>1, <2>2, <2>3, <2>4, <2>5
<1>23. QED
  BY <1>1, <1>2, <1>3, <1>4, <1>5, <1>6, <1>7, <1>8, <1>9, <1>10, <1>11, <1>12, <1>13, <1>14, <1>15, <1>16, <1>17, <1>18, <1>19, <1>20, <1>21, <1>22 DEF CloseStep

\* What a writer that was let in moves: it fits, B is used only once A reaches
\* the end, something is moved, and the buffer becomes full exactly when the
\* code clears can_write.  The second assertion and the first hold.
LEMMA WriteAmounts ==
  ASSUME IInv, NEW w \in Writers, pc[w] = "w_exec"
  PROVE  /\ AppendA(w) \in 0..(SIZE - a_end) /\ AppendB(w) \in 0..(a_start - b_end)
         /\ AppendB(w) > 0 => a_end + AppendA(w) = SIZE
         /\ AppendA(w) + AppendB(w) > 0
         /\ ReachB(w) => a_start - b_end > 0
         /\ (FullA(w) \/ (ReachB(w) /\ b_end + AppendB(w) = a_start))
              <=> Count + AppendA(w) + AppendB(w) = SIZE
<1> USE SizeAssumption, ThreadAssumption
<1>1. /\ a_start \in 0..SIZE /\ a_end \in 0..SIZE /\ b_end \in 0..SIZE /\ SIZE \in Nat
      /\ len[w] \in Nat /\ len[w] > 0
  BY DEF IInv, TypeOK, InCall, Threads
<1>2. Count < SIZE
  <2>1. can_write BY DEF IInv, InCall
  <2>2. \A r \in Readers : pc[r] \notin {"r_reset", "r_exit"}
    BY DEF IInv, Exclusive, Held, Threads
  <2>3. QED BY <2>1, <2>2 DEF IInv, FlagsMatch
<1>3. Layout
  BY DEF IInv
<1>4. QED
  BY <1>1, <1>2, <1>3 DEF Layout, Count, AppendA, AppendB, FullA, ReachB, Least

\* What a reader that was let in takes: at least one byte, no more than is
\* stored, and everything exactly when the code clears can_read.
LEMMA ReadAmounts ==
  ASSUME IInv, NEW r \in Readers, pc[r] = "r_exec"
  PROVE  /\ a_start < a_end
         /\ TakeA(r) \in 1..(a_end - a_start) /\ TakeB(r) \in 0..b_end
         /\ TakeB(r) > 0 => DrainA(r)
         /\ Drain(r) <=> Count = TakeA(r) + TakeB(r)
<1> USE SizeAssumption, ThreadAssumption
<1>1. /\ a_start \in 0..SIZE /\ a_end \in 0..SIZE /\ b_end \in 0..SIZE /\ SIZE \in Nat
      /\ len[r] \in Nat /\ len[r] > 0
  BY DEF IInv, TypeOK, InCall, Threads
<1>2. Count > 0
  <2>1. can_read BY DEF IInv, InCall
  <2>2. \A w \in Writers : pc[w] \notin {"w_reset", "w_exit"}
    BY DEF IInv, Exclusive, Held, Threads
  <2>3. QED BY <2>1, <2>2 DEF IInv, FlagsMatch
<1>3. Layout
  BY DEF IInv
<1>4. QED
  BY <1>1, <1>2, <1>3 DEF Layout, Count, TakeA, TakeB, DrainA, Drain, Least

\* Moving the data in keeps the invariant.
LEMMA WriteExecIInv ==
  ASSUME IInv, NEW w \in Writers, WriteExec(w)
  PROVE  IInv'
<1> USE SizeAssumption, ThreadAssumption
<1> DEFINE na == AppendA(w)
           nb == AppendB(w)
           full == FullA(w) \/ (ReachB(w) /\ b_end + nb = a_start)
<1>0. TypeOK /\ Exclusive /\ InCall /\ Layout /\ InOrder /\ FlagsMatch /\ Wakes
  BY DEF IInv
<1>1. pc[w] = "w_exec" /\ w \in Threads
  BY DEF WriteExec, Threads
<1>2. /\ na \in 0..(SIZE - a_end) /\ nb \in 0..(a_start - b_end)
      /\ nb > 0 => a_end + na = SIZE
      /\ na + nb > 0
      /\ full <=> Count + na + nb = SIZE
  BY <1>1, WriteAmounts
<1>3. /\ a_start \in Nat /\ a_end \in Nat /\ b_end \in Nat /\ SIZE \in Nat
      /\ sent \in Nat /\ rcvd \in Nat /\ buff \in [0..(SIZE - 1) -> Nat]
  BY <1>0 DEF TypeOK
<1>4. /\ a_start' = a_start /\ a_end' = a_end + na /\ b_end' = b_end + nb
      /\ sent' = sent + na + nb /\ rcvd' = rcvd /\ dst' = dst
      /\ can_write' = ~full
      /\ can_read' = can_read /\ evt_write' = evt_write /\ evt_read' = evt_read
      /\ closed' = closed /\ lock' = lock /\ len' = len
      /\ ret' = [ret EXCEPT ![w] = na + nb]
      /\ pc' = [pc EXCEPT ![w] = IF full THEN "w_reset" ELSE "w_exit"]
  BY DEF WriteExec, Goto
<1>5. buff' = [i \in 0..(SIZE - 1) |->
                 IF i \in a_end..(a_end + na - 1) THEN sent + (i - a_end)
                 ELSE IF i \in b_end..(b_end + nb - 1) THEN sent + na + (i - b_end)
                 ELSE buff[i]]
  BY DEF WriteExec
<1> HIDE DEF na, nb, full
<1>6. Layout'
  BY <1>0, <1>2, <1>3, <1>4 DEF Layout
<1>7. Count' = Count + na + nb /\ Count' > 0 /\ Count \in Nat
  BY <1>0, <1>2, <1>3, <1>4 DEF Count, Layout
<1>8. TypeOK'
  <2>1. buff' \in [0..(SIZE - 1) -> Nat]
    BY <1>2, <1>3, <1>5
  <2>2. /\ a_start' \in 0..SIZE /\ a_end' \in 0..SIZE /\ b_end' \in 0..SIZE
        /\ sent' \in Nat /\ rcvd' \in Nat
    BY <1>0, <1>2, <1>3, <1>4 DEF Layout
  <2>3. ret' \in [Threads -> Int]
    <3>1. na + nb \in Int /\ ret \in [Threads -> Int]
      BY <1>0, <1>2, <1>3 DEF TypeOK
    <3>2. QED
      BY <1>1, <1>4, <3>1
  <2>4. can_write' \in BOOLEAN
    BY <1>4
  <2>5. /\ pc' \in [Threads -> WriterPC \cup ReaderPC \cup CloserPC]
        /\ \A v \in Writers : pc'[v] \in WriterPC
        /\ \A r \in Readers : pc'[r] \in ReaderPC
        /\ \A c \in Closers : pc'[c] \in CloserPC
    BY <1>0, <1>1, <1>4 DEF TypeOK, WriterPC
  <2>6. QED
    BY <1>0, <1>4, <2>1, <2>2, <2>3, <2>4, <2>5 DEF TypeOK
<1>9. Exclusive'
  BY <1>0, <1>1, <1>4 DEF TypeOK, Exclusive, Held
<1>10. InOrder'
  <2>1. sent' = rcvd' + Count'
    BY <1>0, <1>2, <1>3, <1>4, <1>7 DEF InOrder
  <2>2. ASSUME NEW i \in a_start'..(a_end' - 1)
        PROVE  buff'[i] = rcvd' + (i - a_start')
    <3>1. i \in 0..(SIZE - 1) /\ i \in a_start..(a_end + na - 1)
      BY <1>0, <1>2, <1>3, <1>4 DEF Layout
    <3>2. CASE i < a_end
      <4>1. i \notin a_end..(a_end + na - 1) /\ i \notin b_end..(b_end + nb - 1)
        BY <1>0, <1>2, <1>3, <3>1, <3>2 DEF Layout
      <4>2. buff'[i] = buff[i]
        BY <1>5, <3>1, <4>1
      <4>3. QED
        BY <1>0, <1>3, <1>4, <3>1, <3>2, <4>2 DEF InOrder
    <3>3. CASE i >= a_end
      <4>1. buff'[i] = sent + (i - a_end)
        BY <1>3, <1>5, <3>1, <3>3, <1>2
      <4>2. na > 0 /\ (b_end = 0 \/ a_end = SIZE)
        BY <1>0, <1>2, <1>3, <3>1, <3>3 DEF Layout
      <4>3. QED
        BY <1>0, <1>2, <1>3, <1>4, <3>1, <4>1, <4>2 DEF InOrder, Count, Layout
    <3>4. QED
      BY <1>3, <3>1, <3>2, <3>3
  <2>3. ASSUME NEW i \in 0..(b_end' - 1)
        PROVE  buff'[i] = rcvd' + (a_end' - a_start') + i
    <3>1. i \in 0..(SIZE - 1) /\ i \in 0..(b_end + nb - 1) /\ i < a_end
      BY <1>0, <1>2, <1>3, <1>4 DEF Layout
    <3>2. CASE i < b_end
      <4>1. buff'[i] = buff[i] /\ na = 0
        BY <1>0, <1>2, <1>3, <1>5, <3>1, <3>2 DEF Layout
      <4>2. QED
        BY <1>0, <1>2, <1>3, <1>4, <3>1, <3>2, <4>1 DEF InOrder
    <3>3. CASE i >= b_end
      <4>1. buff'[i] = sent + na + (i - b_end)
        BY <1>2, <1>3, <1>5, <3>1, <3>3
      <4>2. QED
        BY <1>0, <1>2, <1>3, <1>4, <3>1, <4>1 DEF InOrder, Count
    <3>4. QED
      BY <1>3, <3>1, <3>2, <3>3
  <2>4. QED
    BY <2>1, <2>2, <2>3 DEF InOrder
<1>11. InCall'
  <2>1. \A r \in Readers : pc[r] \notin Held
    BY <1>0, <1>1 DEF Exclusive, Held, Threads, TypeOK
  <2>2. \A v \in Writers : v # w => pc[v] \notin Held
    BY <1>0, <1>1 DEF Exclusive, Held, Threads, TypeOK
  <2>3. QED
    BY <1>0, <1>1, <1>4, <1>7, <2>1, <2>2, SMTT(30) DEF InCall, Held, TypeOK, Threads
<1>12. FlagsMatch'
  <2>1. pc'[w] \in {"w_reset", "w_exit"}
    BY <1>0, <1>1, <1>4 DEF TypeOK
  <2>2. can_write' <=> Count' < SIZE
    <3>1. Count' <= SIZE /\ Count' \in Int
      BY <1>2, <1>3, <1>4, <1>6 DEF Layout, Count
    <3>2. (Count + na + nb = SIZE) <=> ~(Count' < SIZE)
      BY <1>3, <1>7, <3>1
    <3>3. can_write' = ~full
      BY <1>4
    <3>4. QED
      BY <1>2, <3>2, <3>3, Zenon
  <2>3. QED
    BY <2>1, <2>2 DEF FlagsMatch
<1>13. Wakes'
  BY <1>0, <1>1, <1>4 DEF Wakes, Exclusive, Held, InCall, TypeOK, Threads
<1>14. QED
  BY <1>6, <1>8, <1>9, <1>10, <1>11, <1>12, <1>13 DEF IInv

\* Moving the data out keeps the invariant.
LEMMA ReadExecIInv ==
  ASSUME IInv, NEW r \in Readers, ReadExec(r)
  PROVE  IInv'
<1> USE SizeAssumption, ThreadAssumption
<1> DEFINE ma == TakeA(r)
           mb == TakeB(r)
<1>0. TypeOK /\ Exclusive /\ InCall /\ Layout /\ InOrder /\ FlagsMatch /\ Wakes
  BY DEF IInv
<1>1. pc[r] = "r_exec" /\ r \in Threads
  BY DEF ReadExec, Threads
<1>2. /\ a_start < a_end
      /\ ma \in 1..(a_end - a_start) /\ mb \in 0..b_end
      /\ mb > 0 => DrainA(r)
      /\ DrainA(r) <=> a_start + ma = a_end
      /\ Drain(r) <=> DrainA(r) /\ mb = b_end
      /\ Drain(r) <=> Count = ma + mb
  BY <1>1, ReadAmounts DEF DrainA, Drain
<1>3. /\ a_start \in Nat /\ a_end \in Nat /\ b_end \in Nat /\ SIZE \in Nat
      /\ sent \in Nat /\ rcvd \in Nat /\ buff \in [0..(SIZE - 1) -> Nat]
  BY <1>0 DEF TypeOK
<1>4. /\ sent' = sent /\ rcvd' = rcvd + ma + mb /\ buff' = buff
      /\ can_read' = ~Drain(r)
      /\ can_write' = can_write /\ evt_write' = evt_write /\ evt_read' = evt_read
      /\ closed' = closed /\ lock' = lock /\ len' = len
      /\ ret' = [ret EXCEPT ![r] = ma + mb]
      /\ pc' = [pc EXCEPT ![r] = IF Drain(r) THEN "r_reset" ELSE "r_exit"]
  BY DEF ReadExec, Goto
<1>5. dst' = [i \in 1..(ma + mb) |->
                IF i <= ma THEN buff[a_start + i - 1] ELSE buff[i - ma - 1]]
  BY DEF ReadExec
<1>6. /\ a_start' = IF ~DrainA(r) THEN a_start + ma ELSE IF Drain(r) THEN 0 ELSE mb
      /\ a_end'   = IF ~DrainA(r) THEN a_end ELSE IF Drain(r) THEN 0 ELSE b_end
      /\ b_end'   = IF ~DrainA(r) THEN b_end ELSE 0
  BY DEF ReadExec
<1> HIDE DEF ma, mb
<1>7. \/ /\ ~DrainA(r) /\ ~Drain(r) /\ mb = 0 /\ a_start + ma < a_end
         /\ a_start' = a_start + ma /\ a_end' = a_end /\ b_end' = b_end
      \/ /\ DrainA(r) /\ ~Drain(r) /\ a_start + ma = a_end /\ mb < b_end
         /\ a_start' = mb /\ a_end' = b_end /\ b_end' = 0
      \/ /\ DrainA(r) /\ Drain(r) /\ a_start + ma = a_end /\ mb = b_end
         /\ a_start' = 0 /\ a_end' = 0 /\ b_end' = 0
  BY <1>2, <1>3, <1>6
<1>8. Layout'
  BY <1>0, <1>2, <1>3, <1>7 DEF Layout
<1>9. Count' = Count - (ma + mb) /\ Count' < SIZE /\ Count \in Nat /\ Count' \in Nat
  <2>1. ma \in Nat /\ mb \in Nat /\ ma > 0
    BY <1>2, <1>3
  <2>2. Count' = Count - (ma + mb)
    <3>1. CASE ~DrainA(r)
      BY <1>3, <1>7, <2>1, <3>1 DEF Count
    <3>2. CASE DrainA(r)
      <4>1. a_end' - a_start' = b_end - mb /\ b_end' = 0 /\ a_end = a_start + ma
        BY <1>3, <1>7, <2>1, <3>2
      <4>2. QED
        BY <1>3, <2>1, <4>1 DEF Count
    <3>3. QED
      BY <3>1, <3>2
  <2>3. Count \in Nat /\ Count <= SIZE
    BY <1>0, <1>3 DEF Count, Layout
  <2>4. Count' \in Nat
    BY <1>3, <1>7, <1>8, <2>1 DEF Count, Layout
  <2>5. QED
    BY <1>3, <2>1, <2>2, <2>3, <2>4
<1>10. TypeOK'
  <2>1. /\ a_start' \in 0..SIZE /\ a_end' \in 0..SIZE /\ b_end' \in 0..SIZE
        /\ sent' \in Nat /\ rcvd' \in Nat
    BY <1>0, <1>2, <1>3, <1>4, <1>7 DEF Layout
  <2>2. dst' \in Seq(Nat)
    <3>1. ma + mb \in Nat
      BY <1>2, <1>3
    <3>2. ASSUME NEW i \in 1..(ma + mb)
          PROVE  (IF i <= ma THEN buff[a_start + i - 1] ELSE buff[i - ma - 1]) \in Nat
      <4>1. CASE i <= ma
        <5>1. a_start + i - 1 \in 0..(SIZE - 1)
          BY <1>0, <1>2, <1>3, <4>1 DEF Layout
        <5>2. QED BY <1>3, <4>1, <5>1
      <4>2. CASE ~(i <= ma)
        <5>1. i - ma - 1 \in 0..(SIZE - 1)
          BY <1>0, <1>2, <1>3, <4>2 DEF Layout
        <5>2. QED BY <1>3, <4>2, <5>1
      <4>3. QED BY <4>1, <4>2
    <3>3. QED
      BY <1>5, <3>1, <3>2
  <2>3. ret' \in [Threads -> Int]
    <3>1. ma + mb \in Int /\ ret \in [Threads -> Int]
      BY <1>0, <1>2, <1>3 DEF TypeOK
    <3>2. QED
      BY <1>1, <1>4, <3>1
  <2>4. can_read' \in BOOLEAN
    BY <1>4
  <2>5. /\ pc' \in [Threads -> WriterPC \cup ReaderPC \cup CloserPC]
        /\ \A w \in Writers : pc'[w] \in WriterPC
        /\ \A v \in Readers : pc'[v] \in ReaderPC
        /\ \A c \in Closers : pc'[c] \in CloserPC
    BY <1>0, <1>1, <1>4 DEF TypeOK, ReaderPC
  <2>6. QED
    BY <1>0, <1>4, <2>1, <2>2, <2>3, <2>4, <2>5, SMTT(30) DEF TypeOK
<1>11. Exclusive'
  BY <1>0, <1>1, <1>4 DEF TypeOK, Exclusive, Held
<1>12. InOrder'
  <2>1. sent' = rcvd' + Count'
    BY <1>0, <1>2, <1>3, <1>4, <1>9 DEF InOrder
  <2>2. ASSUME NEW i \in a_start'..(a_end' - 1)
        PROVE  buff'[i] = rcvd' + (i - a_start')
    <3>1. CASE ~DrainA(r)
      <4>1. i \in a_start..(a_end - 1)
        BY <1>2, <1>3, <1>7, <3>1
      <4>2. QED
        BY <1>0, <1>2, <1>3, <1>4, <1>7, <3>1, <4>1 DEF InOrder
    <3>2. CASE DrainA(r)
      <4>1. i \in 0..(b_end - 1) /\ a_start' = mb
        BY <1>2, <1>3, <1>7, <3>2
      <4>2. buff[i] = rcvd + (a_end - a_start) + i
        BY <1>0, <4>1 DEF InOrder
      <4>3. a_start + ma = a_end
        BY <1>2, <3>2
      <4>4. QED
        BY <1>2, <1>3, <1>4, <4>1, <4>2, <4>3
    <3>3. QED
      BY <3>1, <3>2
  <2>3. ASSUME NEW i \in 0..(b_end' - 1)
        PROVE  buff'[i] = rcvd' + (a_end' - a_start') + i
    <3>1. /\ b_end' = b_end /\ a_end' = a_end /\ a_start' = a_start + ma /\ mb = 0
          /\ i \in 0..(b_end - 1)
      BY <1>3, <1>7
    <3>2. buff[i] = rcvd + (a_end - a_start) + i
      BY <1>0, <3>1 DEF InOrder
    <3>3. QED
      BY <1>2, <1>3, <1>4, <3>1, <3>2
  <2>4. QED
    BY <2>1, <2>2, <2>3 DEF InOrder
<1>13. InCall'
  <2>1. \A w \in Writers : pc[w] \notin Held
    BY <1>0, <1>1 DEF Exclusive, Held, Threads, TypeOK
  <2>2. \A v \in Readers : v # r => pc[v] \notin Held
    BY <1>0, <1>1 DEF Exclusive, Held, Threads, TypeOK
  <2>3. QED
    BY <1>0, <1>1, <1>4, <1>9, <2>1, <2>2, SMTT(30) DEF InCall, Held, TypeOK, Threads
<1>14. FlagsMatch'
  <2>1. pc'[r] \in {"r_reset", "r_exit"}
    BY <1>0, <1>1, <1>4 DEF TypeOK
  <2>2. can_read' <=> Count' > 0
    <3>1. (Count = ma + mb) <=> ~(Count' > 0)
      BY <1>2, <1>3, <1>9
    <3>2. can_read' = ~Drain(r)
      BY <1>4
    <3>3. QED
      BY <1>2, <3>1, <3>2, Zenon
  <2>3. QED
    BY <2>1, <2>2 DEF FlagsMatch
<1>15. Wakes'
  BY <1>0, <1>1, <1>4 DEF Wakes, Exclusive, Held, InCall, TypeOK, Threads
<1>16. QED
  BY <1>8, <1>10, <1>11, <1>12, <1>13, <1>14, <1>15 DEF IInv

\* Every step keeps the invariant.
LEMMA NextIInv ==
  ASSUME IInv, [Next]_vars
  PROVE  IInv'
<1>1. CASE Next
  <2>1. ASSUME NEW w \in Writers, WriteStep(w) \/ \E n \in Lens : WriteCall(w, n)
        PROVE  IInv'
    BY <2>1, ControlStep, WriteExecIInv DEF WriteStep
  <2>2. ASSUME NEW r \in Readers, ReadStep(r) \/ \E n \in Lens : ReadCall(r, n)
        PROVE  IInv'
    BY <2>2, ControlStep, ReadExecIInv DEF ReadStep
  <2>3. ASSUME NEW c \in Closers, CloseStep(c) \/ CloseSet(c)
        PROVE  IInv'
    BY <2>3, ControlStep
  <2>4. QED
    BY <1>1, <2>1, <2>2, <2>3 DEF Next
<1>2. CASE UNCHANGED vars
  BY <1>2 DEF IInv, TypeOK, Exclusive, InCall, Layout, InOrder, FlagsMatch, Wakes, Count,
              vars, region, flags, stream
<1>3. QED
  BY <1>1, <1>2

\* The invariant holds in every reachable state.
THEOREM Invariance == Spec => []IInv
<1>1. Init => IInv
  BY InitIInv
<1>2. IInv /\ [Next]_vars => IInv'
  BY NextIInv
<1>3. QED
  BY <1>1, <1>2, PTL DEF Spec

\* Every variable keeps its type, whatever the size of the buffer, the lengths
\* asked for, and the threads that use it.
THEOREM TypeCorrect == Spec => []TypeOK
<1>1. IInv => TypeOK
  BY DEF IInv
<1>2. QED
  BY <1>1, Invariance, PTL

\* The marks a_start, a_end and b_end never cross, and B is in use only when A
\* reaches the end of the array.
THEOREM LayoutKept == Spec => []Layout
<1>1. IInv => Layout
  BY DEF IInv
<1>2. QED
  BY <1>1, Invariance, PTL

\* The bytes stored are those accepted and not yet delivered, in order, for any
\* number of writers, readers and closers.
THEOREM BytesInOrder == Spec => []InOrder
<1>1. IInv => InOrder
  BY DEF IInv
<1>2. QED
  BY <1>1, Invariance, PTL

\* can_read and can_write tell the truth to whoever enters the section.
THEOREM FlagsCorrect == Spec => []FlagsMatch
<1>1. IInv => FlagsMatch
  BY DEF IInv
<1>2. QED
  BY <1>1, Invariance, PTL

\* At most one thread is between EnterCriticalSection and its Leave.
THEOREM MutualExclusion == Spec => []Exclusive
<1>1. IInv => Exclusive
  BY DEF IInv
<1>2. QED
  BY <1>1, Invariance, PTL

\* The assertions of bip_buffer_write and bip_buffer_read cannot fail.
THEOREM AssertionsNeverFail == Spec => []AssertsHold
<1>1. IInv => AssertsHold
  <2> SUFFICES ASSUME IInv PROVE AssertsHold
    OBVIOUS
  <2>1. ASSUME NEW w \in Writers, pc[w] = "w_exec"
        PROVE  (ReachB(w) => a_start - b_end > 0) /\ AppendA(w) + AppendB(w) > 0
    BY <2>1, WriteAmounts
  <2>2. ASSUME NEW r \in Readers, pc[r] = "r_exec"
        PROVE  a_end - a_start > 0 /\ TakeA(r) + TakeB(r) > 0
    <3>1. a_start \in Nat /\ a_end \in Nat /\ b_end \in Nat
      BY SizeAssumption DEF IInv, TypeOK
    <3>2. QED
      BY <2>2, <3>1, ReadAmounts
  <2>3. QED
    BY <2>1, <2>2 DEF AssertsHold
<1>2. QED
  BY <1>1, Invariance, PTL

\* A reader blocked while there is data, and a writer blocked while there is
\* room, are about to be released, for any number of readers and writers: no
\* wake-up between bip_buffer_write and bip_buffer_read is lost.
THEOREM NoWakeupIsLost == Spec => []NoLostWakeup
<1>1. IInv => NoLostWakeup
  <2> SUFFICES ASSUME IInv PROVE NoLostWakeup
    OBVIOUS
  <2>1. ASSUME NEW r \in Readers, pc[r] = "r_blocked", Count > 0,
               \A w \in Writers : pc[w] \notin {"w_reset", "w_exit"}
        PROVE  \E w \in Writers : pc[w] = "w_signal"
    BY <2>1 DEF IInv, FlagsMatch, Wakes
  <2>2. ASSUME NEW w \in Writers, pc[w] = "w_blocked", Count < SIZE,
               \A r \in Readers : pc[r] \notin {"r_reset", "r_exit"}
        PROVE  \E r \in Readers : pc[r] = "r_signal"
    BY <2>2 DEF IInv, FlagsMatch, Wakes
  <2>3. QED
    BY <2>1, <2>2 DEF NoLostWakeup
<1>2. QED
  BY <1>1, Invariance, PTL
=============================================================================
