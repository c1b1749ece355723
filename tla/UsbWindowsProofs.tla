-------------------------- MODULE UsbWindowsProofs --------------------------
(***************************************************************************)
(* The pipes of a USB handle are closed once, the handle is freed after    *)
(* both threads have left it, and no device has two, for any number of     *)
(* interfaces and handles.                                                 *)
(***************************************************************************)
EXTENDS UsbWindows, TLAPS

\* The invariant gives the property.
LEMMA UsbInvExact == UsbInv => HandlesExact
<1> SUFFICES ASSUME UsbInv PROVE HandlesExact
  OBVIOUS
<1>1. ASSUME NEW h \in Handles
      PROVE /\ usb[h].closes <= 1
            /\ usb[h].life = "none" => usb[h].closes = 1 \/ usb[h] = NewHandle
            /\ usb[h].life = "none" => ~usb[h].linked /\ usb[h].reader = "exit" /\ usb[h].writer = "exit"
  <2>1. usb[h] \in HandleType /\ HandleExact(usb[h])
    BY DEF UsbInv, UsbTypeOK
  <2>2. CASE usb[h] = NewHandle
    BY <2>2 DEF NewHandle
  <2>3. CASE usb[h] # NewHandle
    BY <2>1, <2>3 DEF HandleExact, HandleType
  <2> QED BY <2>2, <2>3
<1> QED BY <1>1 DEF HandlesExact, ClosedOnce, UsbInv

\* A thread's step at one handle keeps the invariant if it is right for that
\* handle and gives nothing to it.
LEMMA HandleStep ==
    ASSUME UsbInv, NEW h \in Handles, NEW r \in HandleType, HandleExact(r),
           usb' = [usb EXCEPT ![h] = r], UNCHANGED <<poll, plugged>>,
           usb[h].life # "open", r.life # "open",
           r.linked => usb[h].linked, r.pipes => usb[h].pipes,
           r.name \in {usb[h].name, NoInterface}, r.dev = usb[h].dev
    PROVE UsbInv'
<1>1. usb'[h] = r /\ \A g \in Handles : g # h => usb'[g] = usb[g]
  BY DEF UsbInv, UsbTypeOK
<1>2. UsbTypeOK'
  BY DEF UsbInv, UsbTypeOK
<1>3. \A g \in Handles : HandleExact(usb'[g])
  BY <1>1 DEF UsbInv
<1>4. PollExact'
  <2>1. \A g \in Handles : usb'[g].life = "open" <=> poll.pc = "check" /\ poll.h = g
    BY <1>1 DEF UsbInv, PollExact
  <2>2. poll.pc = "check" => poll.h \in Handles /\ usb'[poll.h].pipes /\ usb'[poll.h].dev = poll.at
    BY <1>1 DEF UsbInv, PollExact
  <2>3. poll.pc \in {"open", "check"} =>
           poll.at \in Interfaces /\ ~ \E g \in Handles : usb'[g].linked /\ usb'[g].name = poll.at
    BY <1>1, InterfaceAssumption DEF UsbInv, PollExact, KnownDevice
  <2> QED BY <2>1, <2>2, <2>3 DEF PollExact, KnownDevice
<1>5. OneHandle'
  BY <1>1 DEF UsbInv, OneHandle
<1> QED BY <1>2, <1>3, <1>4, <1>5 DEF UsbInv, HandleExact, Uses

\* What usb_cleanup_handle leaves.
LEMMA CleanupFacts ==
    ASSUME NEW r \in HandleType
    PROVE /\ Cleanup(r) \in HandleType
          /\ Cleanup(r).name = NoInterface /\ ~Cleanup(r).pipes
          /\ Cleanup(r).closes = IF r.pipes THEN r.closes + 1 ELSE r.closes
          /\ Cleanup(r).life = r.life /\ Cleanup(r).dev = r.dev /\ Cleanup(r).linked = r.linked
          /\ Cleanup(r).refs = r.refs /\ Cleanup(r).kicked = r.kicked
          /\ Cleanup(r).reader = r.reader /\ Cleanup(r).writer = r.writer
<1> DEFINE c == IF r.pipes THEN r.closes + 1 ELSE r.closes
<1>1. c \in Nat
  BY DEF HandleType
<1>2. Cleanup(r) = [r EXCEPT !.name = NoInterface, !.pipes = FALSE, !.closes = c]
  BY DEF Cleanup, HandleType
<1> HIDE DEF c
<1>3. /\ Cleanup(r) \in HandleType
      /\ Cleanup(r).name = NoInterface /\ ~Cleanup(r).pipes /\ Cleanup(r).closes = c
      /\ Cleanup(r).life = r.life /\ Cleanup(r).dev = r.dev /\ Cleanup(r).linked = r.linked
      /\ Cleanup(r).refs = r.refs /\ Cleanup(r).kicked = r.kicked
      /\ Cleanup(r).reader = r.reader /\ Cleanup(r).writer = r.writer
  BY <1>1, <1>2 DEF HandleType
<1> QED BY <1>3 DEF c

\* The handle that a thread has in hand.
LEMMA ServedFacts ==
    ASSUME UsbInv, NEW h \in Handles
    PROVE /\ usb[h] \in HandleType /\ HandleExact(usb[h])
          /\ usb[h].reader # "exit" \/ usb[h].writer # "exit" => usb[h].life = "served"
  BY DEF UsbInv, UsbTypeOK, HandleExact

\* transport_registration_func gives two references to two threads.
LEMMA UsbStartInv ==
    ASSUME UsbInv, NEW h \in Handles, UsbStart(h)
    PROVE UsbInv'
<1> DEFINE r == [usb[h] EXCEPT !.life = "served", !.refs = 2, !.reader = "run", !.writer = "run"]
<1>1. /\ usb[h] \in HandleType /\ HandleExact(usb[h]) /\ usb[h].life = "registered"
      /\ usb' = [usb EXCEPT ![h] = r] /\ UNCHANGED <<poll, plugged>>
  BY ServedFacts DEF UsbStart, SetHandle
<1>2. /\ r \in HandleType /\ r.life = "served" /\ r.refs = 2 /\ r.reader = "run" /\ r.writer = "run"
      /\ r.linked = usb[h].linked /\ r.pipes = usb[h].pipes /\ r.name = usb[h].name /\ r.dev = usb[h].dev
      /\ r.closes = usb[h].closes /\ r.kicked = usb[h].kicked
  BY <1>1 DEF HandleType, Places
<1> HIDE DEF r
<1>3. HandleExact(r)
  BY <1>1, <1>2 DEF HandleExact, Uses
<1> QED BY <1>1, <1>2, <1>3, HandleStep

\* Threads that go on to another place without touching the handle.
LEMMA ThreadMoves ==
    ASSUME UsbInv, NEW h \in Handles,
           ReadGone(h) \/ ReadError(h) \/ WriteFails(h) \/ WriterStops(h)
    PROVE UsbInv'
<1>0. usb[h] \in HandleType /\ HandleExact(usb[h])
  BY ServedFacts
<1>1. UNCHANGED <<poll, plugged>>
  BY DEF ReadGone, ReadError, ReadFails, WriteFails, WriterStops
<1>2. ASSUME NEW x \in {"usb_kick", "kick"}, NEW o \in BOOLEAN, usb[h].reader = "run",
             usb' = [usb EXCEPT ![h] = [usb[h] EXCEPT !.reader = x, !.offline = o]]
      PROVE UsbInv'
  <2> DEFINE r == [usb[h] EXCEPT !.reader = x, !.offline = o]
  <2>1. /\ r \in HandleType /\ r.life = usb[h].life /\ r.refs = usb[h].refs /\ r.reader = x /\ r.writer = usb[h].writer
        /\ r.linked = usb[h].linked /\ r.pipes = usb[h].pipes /\ r.name = usb[h].name /\ r.dev = usb[h].dev
        /\ r.closes = usb[h].closes /\ r.kicked = usb[h].kicked
    BY <1>0 DEF HandleType, Places
  <2>2. usb[h].life = "served"
    BY <1>2, ServedFacts
  <2>3. usb' = [usb EXCEPT ![h] = r]
    BY <1>2
  <2> HIDE DEF r
  <2>4. HandleExact(r)
    BY <1>0, <1>2, <2>1, <2>2 DEF HandleExact, Uses
  <2> QED BY <1>1, <2>1, <2>2, <2>3, <2>4, HandleStep
<1>3. ASSUME NEW x \in {"usb_kick", "kick"}, usb[h].writer = "run", usb' = [usb EXCEPT ![h] = [usb[h] EXCEPT !.writer = x]]
      PROVE UsbInv'
  <2> DEFINE r == [usb[h] EXCEPT !.writer = x]
  <2>1. /\ r \in HandleType /\ r.life = usb[h].life /\ r.refs = usb[h].refs /\ r.writer = x /\ r.reader = usb[h].reader
        /\ r.linked = usb[h].linked /\ r.pipes = usb[h].pipes /\ r.name = usb[h].name /\ r.dev = usb[h].dev
        /\ r.closes = usb[h].closes /\ r.kicked = usb[h].kicked
    BY <1>0 DEF HandleType, Places
  <2>2. usb[h].life = "served"
    BY <1>3, ServedFacts
  <2>3. usb' = [usb EXCEPT ![h] = r]
    BY <1>3
  <2> HIDE DEF r
  <2>4. HandleExact(r)
    BY <1>0, <1>3, <2>1, <2>2 DEF HandleExact, Uses
  <2> QED BY <1>1, <2>1, <2>2, <2>3, <2>4, HandleStep
<1>4. CASE ReadGone(h) \/ ReadError(h)
  <2>1. PICK e : ReadFails(h, e)
    BY <1>4 DEF ReadGone, ReadError
  <2>2. AfterRead(e) \in {"usb_kick", "kick"} /\ (AfterRead(e) = "kick") \in BOOLEAN
    BY DEF AfterRead
  <2> QED BY <2>1, <2>2, <1>2 DEF ReadFails, SetHandle
<1>5. CASE WriteFails(h) \/ WriterStops(h)
  BY <1>5, <1>3 DEF WriteFails, WriterStops, SetHandle
<1> QED BY <1>4, <1>5

\* usb_kick closes the pipes if they are open; the thread still has its reference.
LEMMA UsbKickInv ==
    ASSUME UsbInv, NEW h \in Handles, NEW w \in {"reader", "writer"}, UsbKick(h, w)
    PROVE UsbInv'
<1> DEFINE c == Cleanup(usb[h])
<1>0. usb[h] \in HandleType /\ HandleExact(usb[h]) /\ UNCHANGED <<poll, plugged>>
  BY ServedFacts DEF UsbKick
<1>1. /\ c \in HandleType /\ c.name = NoInterface /\ ~c.pipes
      /\ c.closes = (IF usb[h].pipes THEN usb[h].closes + 1 ELSE usb[h].closes)
      /\ c.life = usb[h].life /\ c.dev = usb[h].dev /\ c.linked = usb[h].linked
      /\ c.refs = usb[h].refs /\ c.kicked = usb[h].kicked
      /\ c.reader = usb[h].reader /\ c.writer = usb[h].writer
  BY <1>0, CleanupFacts
<1>2. usb[h].life = "served" /\ usb[h][w] = "usb_kick"
  BY ServedFacts DEF UsbKick
<1>3. usb' = [usb EXCEPT ![h] = [c EXCEPT ![w] = IF w = "reader" THEN "kick" ELSE "run",
                                          !.offline = @ \/ w = "reader"]]
  BY DEF UsbKick, SetHandle
<1> HIDE DEF c
<1>4. CASE w = "reader"
  <2> DEFINE r == [c EXCEPT !.reader = "kick", !.offline = @ \/ w = "reader"]
  <2>1. /\ r \in HandleType /\ r.name = NoInterface /\ ~r.pipes /\ r.closes = c.closes
        /\ r.life = c.life /\ r.dev = c.dev /\ r.linked = c.linked /\ r.refs = c.refs
        /\ r.kicked = c.kicked /\ r.reader = "kick" /\ r.writer = c.writer
    BY <1>1 DEF HandleType, Places
  <2>2. usb' = [usb EXCEPT ![h] = r]
    BY <1>3, <1>4
  <2> HIDE DEF r
  <2>3. HandleExact(r)
    BY <1>0, <1>1, <1>2, <1>4, <2>1 DEF HandleExact, Uses, HandleType
  <2> QED BY <1>0, <1>1, <1>2, <2>1, <2>2, <2>3, HandleStep
<1>5. CASE w = "writer"
  <2> DEFINE r == [c EXCEPT !.writer = "run", !.offline = @ \/ w = "reader"]
  <2>1. /\ r \in HandleType /\ r.name = NoInterface /\ ~r.pipes /\ r.closes = c.closes
        /\ r.life = c.life /\ r.dev = c.dev /\ r.linked = c.linked /\ r.refs = c.refs
        /\ r.kicked = c.kicked /\ r.reader = c.reader /\ r.writer = "run"
    BY <1>1 DEF HandleType, Places
  <2>2. usb' = [usb EXCEPT ![h] = r]
    BY <1>3, <1>5
  <2> HIDE DEF r
  <2>3. HandleExact(r)
    BY <1>0, <1>1, <1>2, <1>5, <2>1 DEF HandleExact, Uses, HandleType
  <2> QED BY <1>0, <1>1, <1>2, <2>1, <2>2, <2>3, HandleStep
<1> QED BY <1>4, <1>5

\* kick_transport leaves a handle whose pipes are closed, whoever closed them.
LEMMA KickTransportInv ==
    ASSUME UsbInv, NEW h \in Handles, NEW w \in {"reader", "writer"}, KickTransport(h, w)
    PROVE UsbInv'
<1> DEFINE k == Kicked(usb[h])
<1>0. usb[h] \in HandleType /\ HandleExact(usb[h]) /\ UNCHANGED <<poll, plugged>>
  BY ServedFacts DEF KickTransport
<1>1. usb[h].life = "served" /\ usb[h][w] = "kick"
  BY ServedFacts DEF KickTransport
<1>2. /\ k \in HandleType /\ k.name \in {usb[h].name, NoInterface} /\ ~k.pipes
      /\ k.closes = 1
      /\ k.life = usb[h].life /\ k.dev = usb[h].dev /\ k.linked = usb[h].linked
      /\ k.refs = usb[h].refs /\ k.kicked
      /\ k.reader = usb[h].reader /\ k.writer = usb[h].writer
  <2>1. CASE usb[h].kicked
    BY <1>0, <1>1, <2>1 DEF Kicked, HandleExact, HandleType
  <2>2. CASE ~usb[h].kicked
    <3> DEFINE c == Cleanup(usb[h])
    <3>1. k = [c EXCEPT !.kicked = TRUE]
      BY <2>2 DEF Kicked
    <3>2. /\ c \in HandleType /\ c.name = NoInterface /\ ~c.pipes
          /\ c.closes = (IF usb[h].pipes THEN usb[h].closes + 1 ELSE usb[h].closes)
          /\ c.life = usb[h].life /\ c.dev = usb[h].dev /\ c.linked = usb[h].linked
          /\ c.refs = usb[h].refs
          /\ c.reader = usb[h].reader /\ c.writer = usb[h].writer
      BY <1>0, CleanupFacts
    <3>3. c.closes = 1
      BY <1>0, <1>1, <3>2 DEF HandleExact, HandleType
    <3> HIDE DEF c, k
    <3> QED BY <3>1, <3>2, <3>3 DEF HandleType
  <2> QED BY <2>1, <2>2
<1>3. usb' = [usb EXCEPT ![h] = [k EXCEPT ![w] = "unref"]]
  BY DEF KickTransport, SetHandle
<1> HIDE DEF k
<1>4. CASE w = "reader"
  <2> DEFINE r == [k EXCEPT !.reader = "unref"]
  <2>1. /\ r \in HandleType /\ r.name = k.name /\ ~r.pipes /\ r.closes = 1
        /\ r.life = k.life /\ r.dev = k.dev /\ r.linked = k.linked /\ r.refs = k.refs
        /\ r.kicked /\ r.reader = "unref" /\ r.writer = k.writer
    BY <1>2 DEF HandleType, Places
  <2>2. usb' = [usb EXCEPT ![h] = r]
    BY <1>3, <1>4
  <2> HIDE DEF r
  <2>3. HandleExact(r)
    BY <1>0, <1>1, <1>2, <1>4, <2>1 DEF HandleExact, Uses, HandleType
  <2> QED BY <1>0, <1>1, <1>2, <2>1, <2>2, <2>3, HandleStep
<1>5. CASE w = "writer"
  <2> DEFINE r == [k EXCEPT !.writer = "unref"]
  <2>1. /\ r \in HandleType /\ r.name = k.name /\ ~r.pipes /\ r.closes = 1
        /\ r.life = k.life /\ r.dev = k.dev /\ r.linked = k.linked /\ r.refs = k.refs
        /\ r.kicked /\ r.reader = k.reader /\ r.writer = "unref"
    BY <1>2 DEF HandleType, Places
  <2>2. usb' = [usb EXCEPT ![h] = r]
    BY <1>3, <1>5
  <2> HIDE DEF r
  <2>3. HandleExact(r)
    BY <1>0, <1>1, <1>2, <1>5, <2>1 DEF HandleExact, Uses, HandleType
  <2> QED BY <1>0, <1>1, <1>2, <2>1, <2>2, <2>3, HandleStep
<1> QED BY <1>4, <1>5

\* transport_unref_locked: the last reference takes the handle off the list.
LEMMA UsbUnrefInv ==
    ASSUME UsbInv, NEW h \in Handles, NEW w \in {"reader", "writer"}, UsbUnref(h, w)
    PROVE UsbInv'
<1>0. usb[h] \in HandleType /\ HandleExact(usb[h]) /\ UNCHANGED <<poll, plugged>>
  BY ServedFacts DEF UsbUnref
<1>1. usb[h].life = "served" /\ usb[h][w] = "unref"
  BY ServedFacts DEF UsbUnref
<1>2. usb' = [usb EXCEPT ![h] = IF usb[h].refs = 1
                                THEN [usb[h] EXCEPT !.refs = 0, !.linked = FALSE, ![w] = "close"]
                                ELSE [usb[h] EXCEPT !.refs = usb[h].refs - 1, ![w] = "exit"]]
  BY <1>0 DEF UsbUnref, SetHandle, HandleType
<1>3. CASE w = "reader"
  <2>1. CASE usb[h].refs = 1
    <3> DEFINE r == [usb[h] EXCEPT !.refs = 0, !.linked = FALSE, !.reader = "close"]
    <3>1. /\ r \in HandleType /\ r.name = usb[h].name /\ r.pipes = usb[h].pipes /\ r.closes = usb[h].closes
          /\ r.life = usb[h].life /\ r.dev = usb[h].dev /\ ~r.linked /\ r.refs = 0
          /\ r.kicked = usb[h].kicked /\ r.reader = "close" /\ r.writer = usb[h].writer
      BY <1>0 DEF HandleType, Places
    <3>2. usb' = [usb EXCEPT ![h] = r]
      BY <1>2, <1>3, <2>1
    <3> HIDE DEF r
    <3>3. usb[h].writer = "exit" /\ usb[h].kicked
      BY <1>0, <1>1, <1>3, <2>1 DEF HandleExact, Uses
    <3>4. HandleExact(r)
      BY <1>0, <1>1, <3>1, <3>3 DEF HandleExact, Uses, HandleType
    <3> QED BY <1>0, <1>1, <3>1, <3>2, <3>4, HandleStep
  <2>2. CASE usb[h].refs # 1
    <3>0. usb[h].refs = 2 /\ Uses(usb[h], "writer") /\ usb[h].kicked
      BY <1>0, <1>1, <1>3, <2>2 DEF HandleExact, Uses
    <3> DEFINE r == [usb[h] EXCEPT !.refs = 1, !.reader = "exit"]
    <3>1. /\ r \in HandleType /\ r.name = usb[h].name /\ r.pipes = usb[h].pipes /\ r.closes = usb[h].closes
          /\ r.life = usb[h].life /\ r.dev = usb[h].dev /\ r.linked = usb[h].linked /\ r.refs = 1
          /\ r.kicked = usb[h].kicked /\ r.reader = "exit" /\ r.writer = usb[h].writer
      BY <1>0 DEF HandleType, Places
    <3>2. usb' = [usb EXCEPT ![h] = r]
      <4>1. usb[h].refs - 1 = 1
        BY <3>0
      <4> QED BY <1>2, <1>3, <2>2, <4>1
    <3> HIDE DEF r
    <3>4. HandleExact(r)
      BY <1>0, <1>1, <3>0, <3>1 DEF HandleExact, Uses, HandleType
    <3> QED BY <1>0, <1>1, <3>1, <3>2, <3>4, HandleStep
  <2> QED BY <2>1, <2>2
<1>4. CASE w = "writer"
  <2>1. CASE usb[h].refs = 1
    <3> DEFINE r == [usb[h] EXCEPT !.refs = 0, !.linked = FALSE, !.writer = "close"]
    <3>1. /\ r \in HandleType /\ r.name = usb[h].name /\ r.pipes = usb[h].pipes /\ r.closes = usb[h].closes
          /\ r.life = usb[h].life /\ r.dev = usb[h].dev /\ ~r.linked /\ r.refs = 0
          /\ r.kicked = usb[h].kicked /\ r.writer = "close" /\ r.reader = usb[h].reader
      BY <1>0 DEF HandleType, Places
    <3>2. usb' = [usb EXCEPT ![h] = r]
      BY <1>2, <1>4, <2>1
    <3> HIDE DEF r
    <3>3. usb[h].reader = "exit" /\ usb[h].kicked
      BY <1>0, <1>1, <1>4, <2>1 DEF HandleExact, Uses
    <3>4. HandleExact(r)
      BY <1>0, <1>1, <3>1, <3>3 DEF HandleExact, Uses, HandleType
    <3> QED BY <1>0, <1>1, <3>1, <3>2, <3>4, HandleStep
  <2>2. CASE usb[h].refs # 1
    <3>0. usb[h].refs = 2 /\ Uses(usb[h], "reader") /\ usb[h].kicked
      BY <1>0, <1>1, <1>4, <2>2 DEF HandleExact, Uses
    <3> DEFINE r == [usb[h] EXCEPT !.refs = 1, !.writer = "exit"]
    <3>1. /\ r \in HandleType /\ r.name = usb[h].name /\ r.pipes = usb[h].pipes /\ r.closes = usb[h].closes
          /\ r.life = usb[h].life /\ r.dev = usb[h].dev /\ r.linked = usb[h].linked /\ r.refs = 1
          /\ r.kicked = usb[h].kicked /\ r.writer = "exit" /\ r.reader = usb[h].reader
      BY <1>0 DEF HandleType, Places
    <3>2. usb' = [usb EXCEPT ![h] = r]
      <4>1. usb[h].refs - 1 = 1
        BY <3>0
      <4> QED BY <1>2, <1>4, <2>2, <4>1
    <3> HIDE DEF r
    <3>4. HandleExact(r)
      BY <1>0, <1>1, <3>0, <3>1 DEF HandleExact, Uses, HandleType
    <3> QED BY <1>0, <1>1, <3>1, <3>2, <3>4, HandleStep
  <2> QED BY <2>1, <2>2
<1> QED BY <1>3, <1>4

\* usb_close frees the handle: the pipes are closed by then, and the other
\* thread has gone.
LEMMA UsbCloseInv ==
    ASSUME UsbInv, NEW h \in Handles, NEW w \in {"reader", "writer"}, UsbClose(h, w)
    PROVE UsbInv'
<1> DEFINE c == Cleanup(usb[h])
<1>0. usb[h] \in HandleType /\ HandleExact(usb[h]) /\ UNCHANGED <<poll, plugged>>
  BY ServedFacts DEF UsbClose
<1>1. /\ c \in HandleType /\ c.name = NoInterface /\ ~c.pipes
      /\ c.closes = (IF usb[h].pipes THEN usb[h].closes + 1 ELSE usb[h].closes)
      /\ c.life = usb[h].life /\ c.dev = usb[h].dev /\ c.linked = usb[h].linked
      /\ c.refs = usb[h].refs /\ c.kicked = usb[h].kicked
      /\ c.reader = usb[h].reader /\ c.writer = usb[h].writer
  BY <1>0, CleanupFacts
<1>2. usb[h].life = "served" /\ usb[h][w] = "close"
  BY ServedFacts DEF UsbClose
<1>3. usb' = [usb EXCEPT ![h] = [c EXCEPT !.life = "none", ![w] = "exit"]]
  BY DEF UsbClose, SetHandle
<1> HIDE DEF c
<1>4. CASE w = "reader"
  <2> DEFINE r == [c EXCEPT !.life = "none", !.reader = "exit"]
  <2>1. /\ r \in HandleType /\ r.name = NoInterface /\ ~r.pipes /\ r.closes = c.closes
        /\ r.life = "none" /\ r.dev = c.dev /\ r.linked = c.linked /\ r.refs = c.refs
        /\ r.kicked = c.kicked /\ r.reader = "exit" /\ r.writer = c.writer
    BY <1>1 DEF HandleType, Places
  <2>2. usb' = [usb EXCEPT ![h] = r]
    BY <1>3, <1>4
  <2> HIDE DEF r
  <2>3. usb[h].writer = "exit" /\ ~usb[h].linked
    BY <1>0, <1>2, <1>4 DEF HandleExact, Uses
  <2>4. HandleExact(r)
    BY <1>0, <1>1, <1>2, <2>1, <2>3 DEF HandleExact, Uses, HandleType
  <2> QED BY <1>0, <1>1, <1>2, <2>1, <2>2, <2>4, HandleStep
<1>5. CASE w = "writer"
  <2> DEFINE r == [c EXCEPT !.life = "none", !.writer = "exit"]
  <2>1. /\ r \in HandleType /\ r.name = NoInterface /\ ~r.pipes /\ r.closes = c.closes
        /\ r.life = "none" /\ r.dev = c.dev /\ r.linked = c.linked /\ r.refs = c.refs
        /\ r.kicked = c.kicked /\ r.writer = "exit" /\ r.reader = c.reader
    BY <1>1 DEF HandleType, Places
  <2>2. usb' = [usb EXCEPT ![h] = r]
    BY <1>3, <1>5
  <2> HIDE DEF r
  <2>3. usb[h].reader = "exit" /\ ~usb[h].linked
    BY <1>0, <1>2, <1>5 DEF HandleExact, Uses
  <2>4. HandleExact(r)
    BY <1>0, <1>1, <1>2, <2>1, <2>3 DEF HandleExact, Uses, HandleType
  <2> QED BY <1>0, <1>1, <1>2, <2>1, <2>2, <2>4, HandleStep
<1> QED BY <1>4, <1>5

\* find_devices up to the point where it opens an interface: nothing is
\* written, and it opens only what no handle on the list has.
LEMMA PollLooksInv ==
    ASSUME UsbInv, PollEnum \/ PollNext
    PROVE UsbInv'
<1>1. UNCHANGED <<usb, plugged>> /\ poll.pc \in {"sleep", "next"}
  BY DEF PollEnum, PollNext
<1>2. poll \in [pc : {"sleep", "next", "open", "check", "crashed"}, left : SUBSET Interfaces,
                at : Interfaces \cup {NoInterface}, h : Handles \cup {NoHandle}] /\ plugged \subseteq Interfaces
  BY DEF UsbInv, UsbTypeOK
<1>3. /\ poll' \in [pc : {"sleep", "next", "open", "check", "crashed"}, left : SUBSET Interfaces,
                    at : Interfaces \cup {NoInterface}, h : Handles \cup {NoHandle}]
      /\ poll'.pc \in {"sleep", "next", "open"}
      /\ poll'.pc = "open" => poll'.at \in Interfaces /\ ~KnownDevice(poll'.at)
  <2>1. CASE PollEnum
    BY <1>2, <2>1 DEF PollEnum
  <2>2. CASE PollNext /\ poll.left = {}
    BY <1>2, <2>2 DEF PollNext
  <2>3. CASE PollNext /\ poll.left # {}
    <3>1. PICK i \in poll.left :
             poll' = [poll EXCEPT !.left = @ \ {i}, !.at = i, !.pc = IF KnownDevice(i) THEN "next" ELSE "open"]
      BY <2>3 DEF PollNext
    <3> QED BY <1>2, <3>1
  <2> QED BY <2>1, <2>2, <2>3
<1>4. PollExact'
  BY <1>1, <1>3 DEF UsbInv, PollExact, KnownDevice
<1>5. UsbTypeOK' /\ OneHandle' /\ \A h \in Handles : HandleExact(usb'[h])
  BY <1>1, <1>3 DEF UsbInv, UsbTypeOK, OneHandle
<1> QED BY <1>4, <1>5 DEF UsbInv, HandleExact, Uses

\* do_usb_open fills in a handle for an interface that no handle on the list has.
LEMMA PollOpenInv ==
    ASSUME UsbInv, PollOpen
    PROVE UsbInv'
<1> DEFINE PollType == [pc : {"sleep", "next", "open", "check", "crashed"}, left : SUBSET Interfaces,
                        at : Interfaces \cup {NoInterface}, h : Handles \cup {NoHandle}]
<1>1. /\ poll \in PollType /\ poll.pc = "open" /\ UNCHANGED plugged
      /\ poll.at \in Interfaces /\ ~KnownDevice(poll.at)
      /\ \A g \in Handles : usb[g].life # "open"
  BY DEF UsbInv, UsbTypeOK, PollExact, PollOpen
<1>2. ASSUME NEW h \in Handles, usb[h].life = "none",
             SetHandle(h, [NewHandle EXCEPT !.life = "open", !.dev = poll.at, !.name = poll.at,
                                            !.pipes = TRUE, !.works = TRUE]),
             poll' = [poll EXCEPT !.pc = "check", !.h = h]
      PROVE UsbInv'
  <2> DEFINE r == [NewHandle EXCEPT !.life = "open", !.dev = poll.at, !.name = poll.at,
                                    !.pipes = TRUE, !.works = TRUE]
  <2>1. /\ r \in HandleType /\ r.life = "open" /\ r.dev = poll.at /\ r.name = poll.at /\ r.pipes
        /\ ~r.linked /\ r.closes = 0 /\ r.refs = 0 /\ ~r.kicked /\ r.reader = "exit" /\ r.writer = "exit"
    BY <1>1 DEF NewHandle, HandleType, Places
  <2>2. usb' = [usb EXCEPT ![h] = r]
    BY <1>2 DEF SetHandle
  <2> HIDE DEF r
  <2>3. HandleExact(r)
    BY <2>1 DEF HandleExact
  <2>4. usb'[h] = r /\ \A g \in Handles : g # h => usb'[g] = usb[g]
    BY <2>2 DEF UsbInv, UsbTypeOK
  <2>5. poll' \in PollType /\ poll'.pc = "check" /\ poll'.h = h /\ poll'.at = poll.at
    BY <1>1, <1>2
  <2>6. UsbTypeOK'
    BY <1>1, <2>1, <2>2, <2>5 DEF UsbInv, UsbTypeOK
  <2>7. PollExact'
    <3>1. \A g \in Handles : usb'[g].life = "open" <=> g = h
      BY <1>1, <2>1, <2>4
    <3>2. ~ \E g \in Handles : usb'[g].linked /\ usb'[g].name = poll.at
      BY <1>1, <2>1, <2>4 DEF KnownDevice
    <3> QED BY <1>1, <2>1, <2>4, <2>5, <3>1, <3>2 DEF PollExact, KnownDevice
  <2>8. OneHandle'
    <3> SUFFICES ASSUME NEW x \in Handles, NEW y \in Handles,
                        usb'[x].linked, usb'[y].pipes, usb'[x].pipes, usb'[x].dev = usb'[y].dev
                 PROVE x = y
      BY DEF OneHandle
    <3>1. x # h
      BY <2>1, <2>4
    <3>2. usb[x].name = usb[x].dev /\ usb'[x] = usb[x]
      BY <2>4, <3>1 DEF UsbInv, HandleExact
    <3>3. y # h
      BY <1>1, <2>1, <2>4, <3>2 DEF KnownDevice
    <3> QED BY <2>4, <3>2, <3>3 DEF UsbInv, OneHandle
  <2> QED BY <2>3, <2>4, <2>6, <2>7, <2>8 DEF UsbInv, HandleExact, Uses
<1>3. ASSUME poll' \in {[poll EXCEPT !.pc = "next"], [poll EXCEPT !.pc = "crashed"]}, UNCHANGED usb
      PROVE UsbInv'
  <2>1. poll' \in PollType /\ poll'.pc \in {"next", "crashed"}
    BY <1>1, <1>3
  <2>2. PollExact'
    BY <1>1, <1>3, <2>1 DEF PollExact
  <2>3. UsbTypeOK' /\ OneHandle' /\ \A h \in Handles : HandleExact(usb'[h])
    BY <1>1, <1>3, <2>1 DEF UsbInv, UsbTypeOK, OneHandle
  <2> QED BY <2>2, <2>3 DEF UsbInv, HandleExact, Uses
<1> QED BY <1>2, <1>3 DEF PollOpen

\* register_new_device puts the handle on the list if the name is not there;
\* else, or after a failed call, the handle is cleaned up and freed.
LEMMA PollCheckInv ==
    ASSUME UsbInv, PollCheck
    PROVE UsbInv'
<1> DEFINE h == poll.h
           PollType == [pc : {"sleep", "next", "open", "check", "crashed"}, left : SUBSET Interfaces,
                        at : Interfaces \cup {NoInterface}, h : Handles \cup {NoHandle}]
<1>1. /\ poll \in PollType /\ poll.pc = "check" /\ UNCHANGED plugged
      /\ poll' = [poll EXCEPT !.pc = "next", !.h = NoHandle]
  BY DEF UsbInv, UsbTypeOK, PollCheck
<1>2. /\ h \in Handles /\ usb[h] \in HandleType /\ HandleExact(usb[h]) /\ usb[h].life = "open"
      /\ usb[h].pipes /\ usb[h].dev = poll.at /\ ~KnownDevice(poll.at)
      /\ \A g \in Handles : g # h => usb[g].life # "open"
  BY <1>1 DEF UsbInv, UsbTypeOK, PollExact
<1>3. poll' \in PollType /\ poll'.pc = "next"
  BY <1>1
<1> HIDE DEF h
<1>4. ASSUME NEW r \in HandleType, HandleExact(r), usb' = [usb EXCEPT ![h] = r],
             r.life # "open", r.dev = usb[h].dev
      PROVE UsbInv'
  <2>1. usb'[h] = r /\ \A g \in Handles : g # h => usb'[g] = usb[g]
    BY <1>2, <1>4 DEF UsbInv, UsbTypeOK
  <2>2. UsbTypeOK'
    BY <1>1, <1>2, <1>3, <1>4 DEF UsbInv, UsbTypeOK
  <2>3. PollExact'
    BY <1>2, <1>3, <1>4, <2>1 DEF PollExact
  <2>4. ASSUME NEW g \in Handles, g # h, usb[g].pipes
        PROVE usb[g].dev # usb[h].dev
    <3>1. usb[g] \in HandleType /\ HandleExact(usb[g]) /\ usb[g].life # "open"
      BY <1>2, <2>4 DEF UsbInv, UsbTypeOK
    <3>2. usb[g].life \in {"registered", "served"} /\ usb[g].name = usb[g].dev /\ ~usb[g].kicked
      BY <2>4, <3>1 DEF HandleExact, HandleType
    <3>3. usb[g].life = "served" => usb[g].refs # 0
      BY <3>1, <3>2 DEF HandleExact
    <3>4. usb[g].linked
      BY <3>1, <3>2, <3>3 DEF HandleExact, HandleType
    <3> QED BY <1>2, <3>2, <3>4 DEF KnownDevice
  <2>5. OneHandle'
    <3> SUFFICES ASSUME NEW x \in Handles, NEW y \in Handles,
                        usb'[x].linked, usb'[y].pipes, usb'[x].pipes, usb'[x].dev = usb'[y].dev, x # y
                 PROVE FALSE
      BY DEF OneHandle
    <3>1. CASE x = h
      BY <1>4, <2>1, <2>4, <3>1
    <3>2. CASE y = h
      BY <1>4, <2>1, <2>4, <3>2
    <3>3. CASE x # h /\ y # h
      BY <2>1, <3>3 DEF UsbInv, OneHandle
    <3> QED BY <3>1, <3>2, <3>3
  <2>6. \A g \in Handles : HandleExact(usb'[g])
    BY <1>4, <2>1 DEF UsbInv
  <2> QED BY <2>2, <2>3, <2>5, <2>6 DEF UsbInv, HandleExact, Uses
<1>5. CASE usb' = [usb EXCEPT ![h] = [usb[h] EXCEPT !.linked = TRUE, !.life = "registered"]]
  <2> DEFINE r == [usb[h] EXCEPT !.linked = TRUE, !.life = "registered"]
  <2>1. /\ r \in HandleType /\ r.life = "registered" /\ r.dev = usb[h].dev /\ r.name = usb[h].name
        /\ r.pipes = usb[h].pipes /\ r.linked /\ r.closes = usb[h].closes /\ r.kicked = usb[h].kicked
        /\ r.reader = usb[h].reader /\ r.writer = usb[h].writer
    BY <1>2 DEF HandleType
  <2>2. usb' = [usb EXCEPT ![h] = r]
    BY <1>5
  <2> HIDE DEF r
  <2>3. HandleExact(r)
    BY <1>2, <2>1 DEF HandleExact
  <2> QED BY <1>4, <2>1, <2>2, <2>3
<1>6. CASE usb' = [usb EXCEPT ![h] = [Cleanup(usb[h]) EXCEPT !.life = "none"]]
  <2> DEFINE c == Cleanup(usb[h])
             r == [c EXCEPT !.life = "none"]
  <2>1. /\ c \in HandleType /\ ~c.pipes /\ c.closes = usb[h].closes + 1
        /\ c.dev = usb[h].dev /\ c.linked = usb[h].linked
        /\ c.reader = usb[h].reader /\ c.writer = usb[h].writer
    BY <1>2, CleanupFacts
  <2> HIDE DEF c
  <2>2. /\ r \in HandleType /\ ~r.pipes /\ r.closes = c.closes /\ r.life = "none"
        /\ r.dev = c.dev /\ r.linked = c.linked /\ r.reader = c.reader /\ r.writer = c.writer
    BY <2>1 DEF HandleType
  <2>3. usb' = [usb EXCEPT ![h] = r]
    BY <1>6 DEF c
  <2> HIDE DEF r
  <2>4. usb[h].closes = 0 /\ ~usb[h].linked /\ usb[h].reader = "exit" /\ usb[h].writer = "exit"
    BY <1>2 DEF HandleExact, HandleType
  <2>5. HandleExact(r)
    BY <2>1, <2>2, <2>4 DEF HandleExact
  <2> QED BY <1>4, <2>1, <2>2, <2>3, <2>5
<1> QED BY <1>5, <1>6 DEF PollCheck, SetHandle, h

\* The cable: what a handle is does not change, only whether it works.
LEMMA CableInv ==
    ASSUME UsbInv, NEW i \in Interfaces, Unplug(i) \/ Plug(i)
    PROVE UsbInv'
<1>1. /\ UNCHANGED poll /\ plugged' \subseteq Interfaces
      /\ usb' = usb \/ usb' = [h \in Handles |-> IF usb[h].dev = i THEN [usb[h] EXCEPT !.works = FALSE] ELSE usb[h]]
  BY DEF UsbInv, UsbTypeOK, Unplug, Plug
<1>2. ASSUME NEW h \in Handles
      PROVE /\ usb'[h] \in HandleType /\ HandleExact(usb'[h])
            /\ usb'[h].life = usb[h].life /\ usb'[h].dev = usb[h].dev /\ usb'[h].name = usb[h].name
            /\ usb'[h].pipes = usb[h].pipes /\ usb'[h].linked = usb[h].linked
  <2>1. usb[h] \in HandleType /\ HandleExact(usb[h])
    BY DEF UsbInv, UsbTypeOK
  <2>2. CASE usb'[h] = usb[h]
    BY <2>1, <2>2
  <2>3. CASE usb'[h] # usb[h]
    <3> DEFINE r == [usb[h] EXCEPT !.works = FALSE]
    <3>1. usb'[h] = r /\ usb[h].dev = i
      BY <1>1, <2>3
    <3>2. /\ r \in HandleType /\ r.life = usb[h].life /\ r.dev = usb[h].dev /\ r.name = usb[h].name
          /\ r.pipes = usb[h].pipes /\ r.linked = usb[h].linked /\ r.closes = usb[h].closes
          /\ r.refs = usb[h].refs /\ r.kicked = usb[h].kicked
          /\ r.reader = usb[h].reader /\ r.writer = usb[h].writer
      BY <2>1 DEF HandleType
    <3> HIDE DEF r
    <3>3. usb[h] # NewHandle
      BY <3>1, InterfaceAssumption DEF NewHandle
    <3>4. HandleExact(r)
      BY <2>1, <3>2, <3>3 DEF HandleExact, Uses
    <3> QED BY <3>1, <3>2, <3>4
  <2> QED BY <2>2, <2>3
<1>3. UsbTypeOK'
  <2>1. usb' \in [Handles -> HandleType]
    BY <1>1, <1>2 DEF UsbInv, UsbTypeOK
  <2> QED BY <1>1, <2>1 DEF UsbInv, UsbTypeOK
<1>4. PollExact'
  BY <1>1, <1>2 DEF UsbInv, PollExact, KnownDevice
<1>5. OneHandle'
  BY <1>2 DEF UsbInv, OneHandle
<1> QED BY <1>2, <1>3, <1>4, <1>5 DEF UsbInv, HandleExact, Uses

\* The program starts with no handle.
LEMMA UsbInitInv == UsbInit => UsbInv
<1> SUFFICES ASSUME UsbInit PROVE UsbInv
  OBVIOUS
<1>1. \A h \in Handles : usb[h] = NewHandle
  BY DEF UsbInit
<1>2. NewHandle \in HandleType /\ HandleExact(NewHandle) /\ NewHandle.life = "none" /\ ~NewHandle.linked
  BY DEF NewHandle, HandleType, HandleExact, Places
<1>3. poll = [pc |-> "sleep", left |-> {}, at |-> NoInterface, h |-> NoHandle]
  BY DEF UsbInit
<1>4. UsbTypeOK
  BY <1>2, <1>3 DEF UsbInit, UsbTypeOK
<1>5. PollExact /\ OneHandle
  BY <1>1, <1>2, <1>3 DEF PollExact, OneHandle
<1> QED BY <1>1, <1>2, <1>4, <1>5 DEF UsbInv

\* The invariant holds for any set of interfaces, any number of handles and any
\* number of times a cable is pulled.
THEOREM UsbInvariance == UsbSpec => []UsbInv
<1>1. UsbInv /\ [UsbNext]_usb_vars => UsbInv'
  <2> SUFFICES ASSUME UsbInv, [UsbNext]_usb_vars PROVE UsbInv'
    OBVIOUS
  <2>1. CASE Poll
    BY <2>1, PollLooksInv, PollOpenInv, PollCheckInv DEF Poll
  <2>2. CASE \E h \in Handles : UsbStart(h)
    BY <2>2, UsbStartInv
  <2>3. CASE \E h \in Handles : ReadGone(h) \/ ReadError(h) \/ WriteFails(h) \/ WriterStops(h)
    BY <2>3, ThreadMoves
  <2>4. CASE \E h \in Handles : \E w \in {"reader", "writer"} : UsbThread(h, w)
    BY <2>4, UsbKickInv, KickTransportInv, UsbUnrefInv, UsbCloseInv DEF UsbThread
  <2>5. CASE \E i \in Interfaces : Unplug(i) \/ Plug(i)
    BY <2>5, CableInv
  <2>6. CASE UNCHANGED usb_vars
    BY <2>6 DEF usb_vars, UsbInv, UsbTypeOK, HandleExact, Uses, PollExact, KnownDevice, OneHandle
  <2> QED BY <2>1, <2>2, <2>3, <2>4, <2>5, <2>6 DEF UsbNext
<1> QED BY <1>1, UsbInitInv, PTL DEF UsbSpec

\* Whichever of usb_read, usb_write, kick_transport and usb_close comes first, the
\* pipes of a handle are closed once, it is freed after both threads have left
\* it, and no two transports share a device.
THEOREM PipesClosedOnce == UsbSpec => []HandlesExact
  BY UsbInvariance, UsbInvExact, PTL
=============================================================================
