--------------------------- MODULE UsbLinuxProofs ---------------------------
(***************************************************************************)
(* The kernel has no buffer of a call that has returned, and a handle is   *)
(* closed by the last to leave it, for any number of devices and handles.  *)
(***************************************************************************)
EXTENDS UsbLinux, TLAPS

\* A step at one handle that leaves its device and the poll alone keeps the
\* invariant if it is right for that handle.
LEMMA OneHandleStep ==
    ASSUME LinuxInv, NEW h \in LHandles, NEW r \in UsbType, UsbExact(r),
           r.life = lusb[h].life, r.dev = lusb[h].dev,
           lusb' = [lusb EXCEPT ![h] = r], UNCHANGED <<lpoll, present, usb_lock>>
    PROVE LinuxInv'
<1>1. lusb'[h] = r /\ \A g \in LHandles : g # h => lusb'[g] = lusb[g]
  BY DEF LinuxInv, LinuxTypeOK
<1>2. LinuxTypeOK'
  BY DEF LinuxInv, LinuxTypeOK
<1>3. \A g \in LHandles : UsbExact(lusb'[g])
  BY <1>1 DEF LinuxInv
<1>4. \A g \in LHandles : lusb'[g].dev = lusb[g].dev /\ lusb'[g].life = lusb[g].life
  BY <1>1
<1>5. PollHolds' /\ OneUsb'
  BY <1>4 DEF LinuxInv, LinuxTypeOK, PollHolds, OneUsb
<1> QED BY <1>2, <1>3, <1>5 DEF LinuxInv, UsbExact, Waits

\* The handle of a thread.
LEMMA UsbFacts ==
    ASSUME LinuxInv, NEW h \in LHandles
    PROVE lusb[h] \in UsbType /\ UsbExact(lusb[h])
  BY DEF LinuxInv, LinuxTypeOK

\* usb_kick leaves no request with the kernel.
LEMMA KickFacts ==
    ASSUME NEW r \in UsbType, UsbExact(r)
    PROVE /\ KickHandle(r) \in UsbType /\ UsbExact(KickHandle(r))
          /\ KickHandle(r).life = r.life /\ KickHandle(r).dev = r.dev
          /\ KickHandle(r).reader = r.reader /\ KickHandle(r).writer = r.writer
          /\ KickHandle(r).dead /\ KickHandle(r).refs = r.refs
<1>1. CASE r.dead
  BY <1>1 DEF KickHandle
<1>2. CASE ~r.dead
  <2> DEFINE i == Discarded(r.in)
             o == Discarded(r.out)
             k == [r EXCEPT !.dead = TRUE, !.in = i, !.out = o, !.out_busy = FALSE]
  <2>1. i \in UrbType /\ i.at # "flight" /\ (r.in.at = "idle" => i.at = "idle")
    BY DEF UsbType, UrbType, Discarded, Urb
  <2>2. o \in UrbType /\ o.at # "flight" /\ (r.out.at = "idle" => o.at = "idle")
    BY DEF UsbType, UrbType, Discarded, Urb
  <2>3. KickHandle(r) = k
    BY <1>2 DEF KickHandle
  <2> HIDE DEF i, o
  <2>4. /\ k \in UsbType /\ k.life = r.life /\ k.dev = r.dev /\ k.works = r.works /\ k.writeable = r.writeable
        /\ k.dead /\ k.in = i /\ k.out = o /\ k.reg = r.reg /\ k.refs = r.refs /\ k.got = r.got
        /\ k.reader = r.reader /\ k.writer = r.writer
    BY <2>1, <2>2 DEF UsbType
  <2> HIDE DEF k
  <2>5. UsbExact(k)
    BY <2>1, <2>2, <2>4 DEF UsbExact, Waits
  <2> QED BY <2>3, <2>4, <2>5
<1> QED BY <1>1, <1>2 DEF UsbType

\* ReadFailed only moves the reader.
LEMMA ReadFailedFacts ==
    ASSUME NEW r \in UsbType, UsbExact(r), r.reader \in {"read", "reaped"}, r.in.at # "flight"
    PROVE /\ ReadFailed(r) \in UsbType /\ UsbExact(ReadFailed(r))
          /\ ReadFailed(r).life = r.life /\ ReadFailed(r).dev = r.dev
<1> DEFINE k == ReadFailed(r)
<1>1. /\ k \in UsbType /\ k.life = r.life /\ k.dev = r.dev /\ k.works = r.works /\ k.writeable = r.writeable
      /\ k.dead = r.dead /\ k.in = r.in /\ k.out = r.out /\ k.out_busy = r.out_busy
      /\ k.reg = r.reg /\ k.refs = r.refs /\ k.reader = "kick" /\ k.writer = r.writer
  BY DEF UsbType, ReadFailed, ReaderPlaces
<1> HIDE DEF k
<1>2. UsbExact(k)
  BY <1>1 DEF UsbExact, Waits, Refs
<1> QED BY <1>1, <1>2 DEF k

\* usb_bulk_read submits its request when the handle has none.
LEMMA SubmitReadInv ==
    ASSUME LinuxInv, NEW h \in LHandles, SubmitRead(h)
    PROVE LinuxInv'
<1> DEFINE r == lusb[h]
<1>1. r \in UsbType /\ UsbExact(r) /\ r.reader = "read" /\ r.in.at # "flight"
  BY UsbFacts DEF SubmitRead, UsbExact
<1>2. UNCHANGED <<lpoll, present, usb_lock>>
  BY DEF SubmitRead
<1>3. CASE r.dead \/ ~r.works
  BY <1>1, <1>2, <1>3, ReadFailedFacts, OneHandleStep DEF SubmitRead, SetLusb
<1>4. CASE ~r.dead /\ r.works
  <2> DEFINE u == Urb("flight", TRUE)
             k == [r EXCEPT !.in = u, !.reader = "reap"]
  <2>1. u \in UrbType /\ u.at = "flight"
    BY DEF Urb, UrbType
  <2>2. lusb' = [lusb EXCEPT ![h] = k]
    BY <1>4 DEF SubmitRead, SetLusb
  <2> HIDE DEF u
  <2>3. /\ k \in UsbType /\ k.life = r.life /\ k.dev = r.dev /\ k.works = r.works /\ k.writeable = r.writeable
        /\ k.dead = r.dead /\ k.in = u /\ k.out = r.out /\ k.out_busy = r.out_busy
        /\ k.reg = r.reg /\ k.refs = r.refs /\ k.reader = "reap" /\ k.writer = r.writer
    BY <1>1, <2>1 DEF UsbType, ReaderPlaces
  <2> HIDE DEF k
  <2>4. UsbExact(k)
    BY <1>1, <1>4, <2>1, <2>3 DEF UsbExact, Waits, Refs
  <2> QED BY <1>2, <2>2, <2>3, <2>4, OneHandleStep
<1> QED BY <1>3, <1>4, <1>1 DEF UsbType

\* USBDEVFS_REAPURB gives the reader a request that the kernel is done with.
LEMMA ReapInv ==
    ASSUME LinuxInv, NEW h \in LHandles, Reap(h)
    PROVE LinuxInv'
<1> DEFINE r == lusb[h]
<1>1. r \in UsbType /\ UsbExact(r) /\ r.reader = "reap" /\ UNCHANGED <<lpoll, present, usb_lock>>
  BY UsbFacts DEF Reap
<1>2. CASE r.in.at = "complete" /\ lusb' = [lusb EXCEPT ![h] = [r EXCEPT !.in.at = "idle", !.got = "in", !.reader = "reaped"]]
  <2> DEFINE u == [r.in EXCEPT !.at = "idle"]
             k == [r EXCEPT !.in = u, !.got = "in", !.reader = "reaped"]
  <2>1. u \in UrbType /\ u.at = "idle"
    BY <1>1 DEF UsbType, UrbType
  <2>2. lusb' = [lusb EXCEPT ![h] = k]
    BY <1>1, <1>2 DEF UsbType
  <2> HIDE DEF u
  <2>3. /\ k \in UsbType /\ k.life = r.life /\ k.dev = r.dev /\ k.works = r.works /\ k.writeable = r.writeable
        /\ k.dead = r.dead /\ k.in = u /\ k.out = r.out /\ k.out_busy = r.out_busy /\ k.reg = r.reg
        /\ k.refs = r.refs /\ k.got = "in" /\ k.reader = "reaped" /\ k.writer = r.writer
    BY <1>1, <2>1 DEF UsbType, ReaderPlaces
  <2> HIDE DEF k
  <2>4. UsbExact(k)
    BY <1>1, <2>1, <2>3 DEF UsbExact, Waits, Refs
  <2> QED BY <1>1, <2>2, <2>3, <2>4, OneHandleStep
<1>3. CASE r.out.at = "complete" /\ lusb' = [lusb EXCEPT ![h] = [r EXCEPT !.out.at = "idle", !.got = "out", !.reader = "reaped"]]
  <2> DEFINE u == [r.out EXCEPT !.at = "idle"]
             k == [r EXCEPT !.out = u, !.got = "out", !.reader = "reaped"]
  <2>1. u \in UrbType /\ u.at = "idle"
    BY <1>1 DEF UsbType, UrbType
  <2>2. lusb' = [lusb EXCEPT ![h] = k]
    BY <1>1, <1>3 DEF UsbType
  <2> HIDE DEF u
  <2>3. /\ k \in UsbType /\ k.life = r.life /\ k.dev = r.dev /\ k.works = r.works /\ k.writeable = r.writeable
        /\ k.dead = r.dead /\ k.in = r.in /\ k.out = u /\ k.out_busy = r.out_busy /\ k.reg = r.reg
        /\ k.refs = r.refs /\ k.got = "out" /\ k.reader = "reaped" /\ k.writer = r.writer
    BY <1>1, <2>1 DEF UsbType, ReaderPlaces
  <2> HIDE DEF k
  <2>4. UsbExact(k)
    BY <1>1, <1>3, <2>1, <2>3 DEF UsbExact, Waits, Refs
  <2> QED BY <1>1, <2>2, <2>3, <2>4, OneHandleStep
<1>4. ASSUME NEW x \in {"error", "eintr"}, x = "error" => ~r.works, x = "eintr" => r.dead,
             lusb' = [lusb EXCEPT ![h] = [r EXCEPT !.got = x, !.reader = "reaped"]]
      PROVE LinuxInv'
  <2> DEFINE k == [r EXCEPT !.got = x, !.reader = "reaped"]
  <2>1. /\ k \in UsbType /\ k.life = r.life /\ k.dev = r.dev /\ k.works = r.works /\ k.writeable = r.writeable
        /\ k.dead = r.dead /\ k.in = r.in /\ k.out = r.out /\ k.out_busy = r.out_busy /\ k.reg = r.reg
        /\ k.refs = r.refs /\ k.got = x /\ k.reader = "reaped" /\ k.writer = r.writer
    BY <1>1, <1>4 DEF UsbType, ReaderPlaces
  <2>2. lusb' = [lusb EXCEPT ![h] = k]
    BY <1>4
  <2> HIDE DEF k
  <2>3. UsbExact(k)
    BY <1>1, <1>4, <2>1 DEF UsbExact, Waits, Refs
  <2> QED BY <1>1, <2>1, <2>2, <2>3, OneHandleStep
<1> QED BY <1>2, <1>3, <1>4 DEF Reap, SetLusb

\* With the lock again, the reader returns or tells the writer.
LEMMA ReapedInv ==
    ASSUME LinuxInv, NEW h \in LHandles, Reaped(h)
    PROVE LinuxInv'
<1> DEFINE r == lusb[h]
<1>1. r \in UsbType /\ UsbExact(r) /\ r.reader = "reaped" /\ UNCHANGED <<lpoll, present, usb_lock>>
  BY UsbFacts DEF Reaped
<1>2. CASE r.dead \/ r.got = "error" \/ (r.got = "in" /\ ~r.in.ok)
  <2>1. r.in.at # "flight"
    BY <1>1, <1>2 DEF UsbExact
  <2>2. lusb' = [lusb EXCEPT ![h] = ReadFailed(r)]
    BY <1>2 DEF Reaped, SetLusb
  <2> QED BY <1>1, <2>1, <2>2, ReadFailedFacts, OneHandleStep
<1>3. CASE ~r.dead /\ r.got = "in" /\ r.in.ok
  <2> DEFINE k == [r EXCEPT !.reader = "read", !.got = "none"]
  <2>1. /\ k \in UsbType /\ k.life = r.life /\ k.dev = r.dev /\ k.works = r.works /\ k.writeable = r.writeable
        /\ k.dead = r.dead /\ k.in = r.in /\ k.out = r.out /\ k.out_busy = r.out_busy /\ k.reg = r.reg
        /\ k.refs = r.refs /\ k.got = "none" /\ k.reader = "read" /\ k.writer = r.writer
    BY <1>1 DEF UsbType, ReaderPlaces
  <2>2. lusb' = [lusb EXCEPT ![h] = k]
    BY <1>3 DEF Reaped, SetLusb
  <2> HIDE DEF k
  <2>3. UsbExact(k)
    BY <1>1, <1>3, <2>1 DEF UsbExact, Waits, Refs
  <2> QED BY <1>1, <2>1, <2>2, <2>3, OneHandleStep
<1>4. CASE ~r.dead /\ r.got # "in" /\ r.got # "error"
  <2> DEFINE k == [r EXCEPT !.reader = "reap", !.got = "none", !.out_busy = FALSE]
  <2>1. /\ k \in UsbType /\ k.life = r.life /\ k.dev = r.dev /\ k.works = r.works /\ k.writeable = r.writeable
        /\ k.dead = r.dead /\ k.in = r.in /\ k.out = r.out /\ k.out_busy = FALSE /\ k.reg = r.reg
        /\ k.refs = r.refs /\ k.got = "none" /\ k.reader = "reap" /\ k.writer = r.writer
    BY <1>1 DEF UsbType, ReaderPlaces
  <2>2. lusb' = [lusb EXCEPT ![h] = k]
    BY <1>4 DEF Reaped, SetLusb
  <2> HIDE DEF k
  <2>3. r.out.at = "idle"
    BY <1>1, <1>4 DEF UsbExact
  <2>4. UsbExact(k)
    BY <1>1, <1>4, <2>1, <2>3 DEF UsbExact, Waits, Refs
  <2> QED BY <1>1, <2>1, <2>2, <2>4, OneHandleStep
<1> QED BY <1>1, <1>2, <1>3, <1>4 DEF UsbType, UrbType

\* usb_bulk_write: a request is submitted when there is none, and the call returns
\* when there is none any more.
LEMMA WriterInv ==
    ASSUME LinuxInv, NEW h \in LHandles, SubmitWrite(h) \/ WriteReturns(h) \/ WriterLeaves(h)
    PROVE LinuxInv'
<1> DEFINE r == lusb[h]
<1>1. r \in UsbType /\ UsbExact(r) /\ UNCHANGED <<lpoll, present, usb_lock>>
  BY UsbFacts DEF SubmitWrite, WriteReturns, WriterLeaves
<1>2. CASE SubmitWrite(h)
  <2> DEFINE u == Urb("flight", TRUE)
             k == [r EXCEPT !.out = u, !.out_busy = TRUE, !.writer = "wait"]
  <2>1. u \in UrbType /\ u.at = "flight"
    BY DEF Urb, UrbType
  <2>2. lusb' = [lusb EXCEPT ![h] = k] /\ r.writer = "idle" /\ ~r.dead /\ r.works
    BY <1>2 DEF SubmitWrite, SetLusb
  <2> HIDE DEF u
  <2>3. /\ k \in UsbType /\ k.life = r.life /\ k.dev = r.dev /\ k.works = r.works /\ k.writeable = r.writeable
        /\ k.dead = r.dead /\ k.in = r.in /\ k.out = u /\ k.out_busy = TRUE /\ k.reg = r.reg
        /\ k.refs = r.refs /\ k.got = r.got /\ k.reader = r.reader /\ k.writer = "wait"
    BY <1>1, <2>1 DEF UsbType, WriterPlaces
  <2> HIDE DEF k
  <2>4. UsbExact(k)
    BY <1>1, <2>1, <2>2, <2>3 DEF UsbExact, Waits, Refs
  <2> QED BY <1>1, <2>2, <2>3, <2>4, OneHandleStep
<1>3. ASSUME NEW x \in {"idle", "kick"}, r.writer \in {"idle", "wait"}, r.writer = "wait" => WaitOver(r),
             lusb' = [lusb EXCEPT ![h] = [r EXCEPT !.writer = x]]
      PROVE LinuxInv'
  <2> DEFINE k == [r EXCEPT !.writer = x]
  <2>1. /\ k \in UsbType /\ k.life = r.life /\ k.dev = r.dev /\ k.works = r.works /\ k.writeable = r.writeable
        /\ k.dead = r.dead /\ k.in = r.in /\ k.out = r.out /\ k.out_busy = r.out_busy /\ k.reg = r.reg
        /\ k.refs = r.refs /\ k.got = r.got /\ k.reader = r.reader /\ k.writer = x
    BY <1>1 DEF UsbType, WriterPlaces
  <2>2. lusb' = [lusb EXCEPT ![h] = k]
    BY <1>3
  <2> HIDE DEF k
  <2>3. r.dead \/ (r.out.at = "idle" /\ ~(r.writer = "wait" /\ r.out_busy))
    BY <1>1, <1>3 DEF UsbExact, Waits, WaitOver
  <2>4. UsbExact(k)
    BY <1>1, <1>3, <2>1, <2>3 DEF UsbExact, Waits, Refs
  <2> QED BY <1>1, <2>1, <2>2, <2>4, OneHandleStep
<1> QED BY <1>2, <1>3 DEF WriteReturns, WriterLeaves, SetLusb

\* kick_transport and usb_kick move a thread on.
LEMMA KickInv ==
    ASSUME LinuxInv, NEW h \in LHandles, NEW w \in {"reader", "writer"}, FirstKick(h, w) \/ KickByThread(h, w)
    PROVE LinuxInv'
<1>1. lusb[h] \in UsbType /\ UsbExact(lusb[h]) /\ UNCHANGED <<lpoll, present, usb_lock>>
  BY UsbFacts DEF FirstKick, KickByThread
<1>2. ASSUME NEW r \in UsbType, UsbExact(r), r.life = lusb[h].life, r.dev = lusb[h].dev,
             NEW x \in {"usb_kick", "unref"}, NEW b \in BOOLEAN, r[w] \in {"kick", "usb_kick"},
             lusb' = [lusb EXCEPT ![h] = [r EXCEPT ![w] = x, !.kicked = b]]
      PROVE LinuxInv'
  <2> DEFINE k == [r EXCEPT ![w] = x, !.kicked = b]
  <2>1. CASE w = "reader"
    <3>1. k = [r EXCEPT !.reader = x, !.kicked = b] /\ r.reader \in {"kick", "usb_kick"}
      BY <1>2, <2>1 DEF UsbType
    <3>2. /\ k \in UsbType /\ k.life = r.life /\ k.dev = r.dev /\ k.works = r.works /\ k.writeable = r.writeable
          /\ k.dead = r.dead /\ k.in = r.in /\ k.out = r.out /\ k.out_busy = r.out_busy /\ k.reg = r.reg
          /\ k.refs = r.refs /\ k.got = r.got /\ k.reader = x /\ k.writer = r.writer
      BY <3>1 DEF UsbType, ReaderPlaces
    <3> HIDE DEF k
    <3>3. UsbExact(k)
      BY <1>2, <3>1, <3>2 DEF UsbExact, Waits, Refs
    <3> QED BY <1>1, <1>2, <3>2, <3>3, OneHandleStep DEF k
  <2>2. CASE w = "writer"
    <3>1. k = [r EXCEPT !.writer = x, !.kicked = b] /\ r.writer \in {"kick", "usb_kick"}
      BY <1>2, <2>2 DEF UsbType
    <3>2. /\ k \in UsbType /\ k.life = r.life /\ k.dev = r.dev /\ k.works = r.works /\ k.writeable = r.writeable
          /\ k.dead = r.dead /\ k.in = r.in /\ k.out = r.out /\ k.out_busy = r.out_busy /\ k.reg = r.reg
          /\ k.refs = r.refs /\ k.got = r.got /\ k.reader = r.reader /\ k.writer = x
      BY <3>1 DEF UsbType, WriterPlaces
    <3> HIDE DEF k
    <3>3. UsbExact(k)
      <4>1. /\ r.out.at # "idle" => r.dead
            /\ r.reader = "reaped" /\ r.got = "out" => r.dead
        BY <1>2, <3>1 DEF UsbExact, Waits
      <4>2. Refs(x) = 1 /\ Refs(r.writer) = 1 /\ x \notin {"close", "exit"} /\ r.writer \notin {"close", "exit"}
        BY <3>1 DEF Refs
      <4> HIDE DEF Refs
      <4>3. k.reader = "reaped" => \/ k.got = "in" /\ k.in.at = "idle"
                                   \/ k.got = "out" /\ k.out.at = "idle" /\ Waits(k)
                                   \/ k.got = "error" /\ ~k.works
                                   \/ k.got = "eintr" /\ k.dead
        BY <1>2, <3>2, <4>1 DEF UsbExact, Waits
      <4> QED BY <1>2, <3>2, <4>1, <4>2, <4>3 DEF UsbExact, Waits
    <3> QED BY <1>1, <1>2, <3>2, <3>3, OneHandleStep DEF k
  <2> QED BY <2>1, <2>2
<1>3. CASE FirstKick(h, w)
  <2>1. lusb' = [lusb EXCEPT ![h] = [lusb[h] EXCEPT ![w] = IF lusb[h].kicked THEN "unref" ELSE "usb_kick", !.kicked = TRUE]]
        /\ lusb[h][w] = "kick"
    BY <1>3 DEF FirstKick, SetLusb
  <2> QED BY <1>1, <1>2, <2>1
<1>4. CASE KickByThread(h, w)
  <2> DEFINE r == KickHandle(lusb[h])
  <2>1. lusb' = [lusb EXCEPT ![h] = [r EXCEPT ![w] = "unref"]] /\ lusb[h][w] = "usb_kick"
    BY <1>4 DEF KickByThread, SetLusb
  <2>2. /\ r \in UsbType /\ UsbExact(r) /\ r.life = lusb[h].life /\ r.dev = lusb[h].dev
        /\ r.reader = lusb[h].reader /\ r.writer = lusb[h].writer
    BY <1>1, KickFacts
  <2> HIDE DEF r
  <2>3. r[w] = "usb_kick"
    BY <1>1, <2>1, <2>2 DEF UsbType
  <2>4. [r EXCEPT ![w] = "unref"] = [r EXCEPT ![w] = "unref", !.kicked = r.kicked] /\ r.kicked \in BOOLEAN
    BY <2>2 DEF UsbType
  <2> QED BY <1>2, <2>1, <2>2, <2>3, <2>4
<1> QED BY <1>3, <1>4

\* transport_unref: the one that finds a single reference is the last.
LEMMA UnrefInv ==
    ASSUME LinuxInv, NEW h \in LHandles, NEW w \in {"reader", "writer"}, UnrefTransport(h, w)
    PROVE LinuxInv'
<1> DEFINE r == lusb[h]
           x == IF r.refs = 1 THEN "close" ELSE "exit"
           n == r.refs - 1
           k == [r EXCEPT !.refs = n, ![w] = x]
<1>1. r \in UsbType /\ UsbExact(r) /\ r[w] = "unref" /\ UNCHANGED <<lpoll, present, usb_lock>>
  BY UsbFacts DEF UnrefTransport
<1>2. lusb' = [lusb EXCEPT ![h] = k]
  BY DEF UnrefTransport, SetLusb
<1>3. n \in Int /\ x \in {"close", "exit"} /\ (x = "close" => r.refs = 1)
  BY <1>1 DEF UsbType
<1>n. n = r.refs - 1
  OBVIOUS
<1> HIDE DEF x, n
<1>4. CASE w = "reader"
  <2>1. k = [r EXCEPT !.refs = n, !.reader = x] /\ r.reader = "unref"
    BY <1>1, <1>4 DEF UsbType
  <2>2. /\ k \in UsbType /\ k.life = r.life /\ k.dev = r.dev /\ k.works = r.works /\ k.writeable = r.writeable
        /\ k.dead = r.dead /\ k.in = r.in /\ k.out = r.out /\ k.out_busy = r.out_busy /\ k.reg = r.reg
        /\ k.refs = n /\ k.got = r.got /\ k.reader = x /\ k.writer = r.writer
    BY <1>1, <1>3, <2>1 DEF UsbType, ReaderPlaces
  <2> HIDE DEF k
  <2>3. x = "close" => r.writer = "exit"
    BY <1>1, <1>3, <2>1 DEF UsbExact, Refs, UsbType
  <2>4. UsbExact(k)
    BY <1>1, <1>3, <1>n, <2>1, <2>2, <2>3 DEF UsbExact, Waits, Refs
  <2> QED BY <1>1, <1>2, <2>2, <2>4, OneHandleStep
<1>5. CASE w = "writer"
  <2>1. k = [r EXCEPT !.refs = n, !.writer = x] /\ r.writer = "unref"
    BY <1>1, <1>5 DEF UsbType
  <2>2. /\ k \in UsbType /\ k.life = r.life /\ k.dev = r.dev /\ k.works = r.works /\ k.writeable = r.writeable
        /\ k.dead = r.dead /\ k.in = r.in /\ k.out = r.out /\ k.out_busy = r.out_busy /\ k.reg = r.reg
        /\ k.refs = n /\ k.got = r.got /\ k.reader = r.reader /\ k.writer = x
    BY <1>1, <1>3, <2>1 DEF UsbType, WriterPlaces
  <2> HIDE DEF k
  <2>3. x = "close" => r.reader = "exit"
    BY <1>1, <1>3, <2>1 DEF UsbExact, Refs, UsbType
  <2>4. UsbExact(k)
    BY <1>1, <1>3, <1>n, <2>1, <2>2, <2>3 DEF UsbExact, Waits, Refs
  <2> QED BY <1>1, <1>2, <2>2, <2>4, OneHandleStep
<1> QED BY <1>4, <1>5

\* A handle that nobody has used.
LEMMA NewUsbFacts == NewUsb \in UsbType /\ UsbExact(NewUsb) /\ NewUsb.dev = NoDevice /\ NewUsb.life = "none"
<1> DEFINE u == Urb("idle", TRUE)
<1>1. u \in UrbType /\ u.at = "idle"
  BY DEF Urb, UrbType
<1>2. NewUsb = [life |-> "none", dev |-> NoDevice, works |-> FALSE, writeable |-> FALSE,
                mark |-> FALSE, dead |-> FALSE, in |-> u, out |-> u,
                out_busy |-> FALSE, reg |-> "out", refs |-> 0, kicked |-> FALSE, offline |-> FALSE,
                got |-> "none", reader |-> "exit", writer |-> "exit"]
  BY DEF NewUsb
<1> HIDE DEF u
<1>3. NewUsb \in UsbType
  BY <1>1, <1>2 DEF UsbType, ReaderPlaces, WriterPlaces
<1>4. UsbExact(NewUsb)
  BY <1>1, <1>2 DEF UsbExact, Refs
<1> QED BY <1>2, <1>3, <1>4

\* usb_close frees the handle while the poll does not walk the list.
LEMMA CloseInv ==
    ASSUME LinuxInv, NEW h \in LHandles, NEW w \in {"reader", "writer"}, CloseUsb(h, w)
    PROVE LinuxInv'
<1>1. /\ lusb' = [lusb EXCEPT ![h] = NewUsb] /\ UNCHANGED <<lpoll, present, usb_lock>> /\ lpoll.pc # "kick"
  BY OwnerAssumption DEF CloseUsb, SetLusb, LinuxInv, PollHolds
<1>2. lusb'[h] = NewUsb /\ \A g \in LHandles : g # h => lusb'[g] = lusb[g]
  BY <1>1 DEF LinuxInv, LinuxTypeOK
<1>3. LinuxTypeOK'
  BY <1>1, NewUsbFacts DEF LinuxInv, LinuxTypeOK
<1>4. \A g \in LHandles : UsbExact(lusb'[g])
  BY <1>2, NewUsbFacts DEF LinuxInv
<1>5. PollHolds' /\ OneUsb'
  BY <1>1, <1>2, NewUsbFacts, DeviceAssumption DEF LinuxInv, LinuxTypeOK, PollHolds, OneUsb
<1> QED BY <1>3, <1>4, <1>5 DEF LinuxInv, UsbExact, Waits

\* transport_registration_func starts the threads of a handle that has none.
LEMMA RegisterInv ==
    ASSUME LinuxInv, NEW h \in LHandles, RegisterTransport(h)
    PROVE LinuxInv'
<1> DEFINE r == lusb[h]
<1>1. r \in UsbType /\ UsbExact(r) /\ r.reg = "pending" /\ UNCHANGED <<lpoll, present, usb_lock>>
  BY UsbFacts DEF RegisterTransport
<1>2. CASE r.writeable
  <2> DEFINE k == [r EXCEPT !.reg = "listed", !.refs = 2, !.reader = "read", !.writer = "idle"]
  <2>1. /\ k \in UsbType /\ k.life = r.life /\ k.dev = r.dev /\ k.works = r.works /\ k.writeable = r.writeable
        /\ k.dead = r.dead /\ k.in = r.in /\ k.out = r.out /\ k.out_busy = r.out_busy /\ k.reg = "listed"
        /\ k.refs = 2 /\ k.got = r.got /\ k.reader = "read" /\ k.writer = "idle"
    <3> DEFINE n == 2
               m == [r EXCEPT !.reg = "listed", !.refs = n]
    <3>n. n \in Int /\ n = 2
      OBVIOUS
    <3> HIDE DEF n
    <3>1. /\ m \in UsbType /\ m.life = r.life /\ m.dev = r.dev /\ m.works = r.works /\ m.writeable = r.writeable
          /\ m.dead = r.dead /\ m.in = r.in /\ m.out = r.out /\ m.out_busy = r.out_busy /\ m.reg = "listed"
          /\ m.refs = n /\ m.got = r.got
      BY <1>1, <3>n DEF UsbType
    <3>2. k = [m EXCEPT !.reader = "read", !.writer = "idle"]
      BY <3>n
    <3> HIDE DEF m, k
    <3> QED BY <3>n, <3>1, <3>2 DEF UsbType, ReaderPlaces, WriterPlaces
  <2>2. lusb' = [lusb EXCEPT ![h] = k]
    BY <1>2 DEF RegisterTransport, SetLusb
  <2> HIDE DEF k
  <2>3. UsbExact(k)
    BY <1>1, <1>2, <2>1 DEF UsbExact, Waits, Refs
  <2> QED BY <1>1, <2>1, <2>2, <2>3, OneHandleStep
<1>3. CASE ~r.writeable
  <2> DEFINE k == [r EXCEPT !.reg = "listed"]
  <2>1. /\ k \in UsbType /\ k.life = r.life /\ k.dev = r.dev /\ k.works = r.works /\ k.writeable = r.writeable
        /\ k.dead = r.dead /\ k.in = r.in /\ k.out = r.out /\ k.out_busy = r.out_busy /\ k.reg = "listed"
        /\ k.refs = r.refs /\ k.got = r.got /\ k.reader = r.reader /\ k.writer = r.writer
    BY <1>1 DEF UsbType
  <2>2. lusb' = [lusb EXCEPT ![h] = k]
    BY <1>3 DEF RegisterTransport, SetLusb
  <2> HIDE DEF k
  <2>3. UsbExact(k)
    BY <1>1, <1>3, <2>1 DEF UsbExact, Waits, Refs
  <2> QED BY <1>1, <2>1, <2>2, <2>3, OneHandleStep
<1> QED BY <1>1, <1>2, <1>3 DEF UsbType

\* The kernel completes a request.
LEMMA CompleteInv ==
    ASSUME LinuxInv, NEW h \in LHandles, NEW u \in {"in", "out"}, Complete(h, u)
    PROVE LinuxInv'
<1> DEFINE r == lusb[h]
<1>1. r \in UsbType /\ UsbExact(r) /\ r[u].at = "flight" /\ UNCHANGED <<lpoll, present, usb_lock>>
  BY UsbFacts DEF Complete
<1>2. PICK v \in UrbType : v.at = "complete" /\ lusb' = [lusb EXCEPT ![h] = [r EXCEPT ![u] = v]]
  <2>1. CASE lusb' = [lusb EXCEPT ![h] = [r EXCEPT ![u].at = "complete"]]
    <3> DEFINE v == [r[u] EXCEPT !.at = "complete"]
    <3>1. r[u] \in UrbType
      BY <1>1 DEF UsbType
    <3>2. v \in UrbType /\ v.at = "complete"
      BY <3>1 DEF UrbType
    <3>3. [r EXCEPT ![u].at = "complete"] = [r EXCEPT ![u] = v]
      BY <1>1 DEF UsbType
    <3> QED BY <2>1, <3>2, <3>3
  <2>2. CASE lusb' = [lusb EXCEPT ![h] = [r EXCEPT ![u] = Urb("complete", FALSE)]]
    BY <2>2 DEF Urb, UrbType
  <2> QED BY <2>1, <2>2 DEF Complete, SetLusb
<1> DEFINE k == [r EXCEPT ![u] = v]
<1>3. CASE u = "in"
  <2>1. k = [r EXCEPT !.in = v] /\ r.in.at = "flight"
    BY <1>1, <1>3 DEF UsbType
  <2>2. /\ k \in UsbType /\ k.life = r.life /\ k.dev = r.dev /\ k.works = r.works /\ k.writeable = r.writeable
        /\ k.dead = r.dead /\ k.in = v /\ k.out = r.out /\ k.out_busy = r.out_busy /\ k.reg = r.reg
        /\ k.refs = r.refs /\ k.got = r.got /\ k.reader = r.reader /\ k.writer = r.writer
    BY <1>1, <1>2, <2>1 DEF UsbType
  <2> HIDE DEF k
  <2>3. UsbExact(k)
    BY <1>1, <1>2, <2>1, <2>2 DEF UsbExact, Waits, Refs
  <2> QED BY <1>1, <1>2, <2>2, <2>3, OneHandleStep DEF k
<1>4. CASE u = "out"
  <2>1. k = [r EXCEPT !.out = v] /\ r.out.at = "flight"
    BY <1>1, <1>4 DEF UsbType
  <2>2. /\ k \in UsbType /\ k.life = r.life /\ k.dev = r.dev /\ k.works = r.works /\ k.writeable = r.writeable
        /\ k.dead = r.dead /\ k.in = r.in /\ k.out = v /\ k.out_busy = r.out_busy /\ k.reg = r.reg
        /\ k.refs = r.refs /\ k.got = r.got /\ k.reader = r.reader /\ k.writer = r.writer
    BY <1>1, <1>2, <2>1 DEF UsbType
  <2> HIDE DEF k
  <2>3. UsbExact(k)
    BY <1>1, <1>2, <2>1, <2>2 DEF UsbExact, Waits, Refs
  <2> QED BY <1>1, <1>2, <2>2, <2>3, OneHandleStep DEF k
<1> QED BY <1>3, <1>4

\* The mark of a handle is the poll's own.
LEMMA MarkFacts ==
    ASSUME NEW r \in UsbType, UsbExact(r), NEW b \in BOOLEAN
    PROVE LET k == [r EXCEPT !.mark = b] IN k \in UsbType /\ UsbExact(k) /\ k.life = r.life /\ k.dev = r.dev
<1> DEFINE k == [r EXCEPT !.mark = b]
<1>1. /\ k \in UsbType /\ k.life = r.life /\ k.dev = r.dev /\ k.works = r.works /\ k.writeable = r.writeable
      /\ k.dead = r.dead /\ k.in = r.in /\ k.out = r.out /\ k.out_busy = r.out_busy /\ k.reg = r.reg
      /\ k.refs = r.refs /\ k.got = r.got /\ k.reader = r.reader /\ k.writer = r.writer
  BY DEF UsbType
<1> HIDE DEF k
<1>2. UsbExact(k)
  BY <1>1 DEF UsbExact, Waits
<1> QED BY <1>1, <1>2 DEF k

\* A handle that is open for reading has no threads and no requests.
LEMMA ReadOnlyDeadFacts ==
    ASSUME NEW r \in UsbType, UsbExact(r), ~r.writeable, NEW x \in {"pending", "listed", "out"}
    PROVE LET k == [r EXCEPT !.dead = TRUE, !.reg = x]
          IN k \in UsbType /\ UsbExact(k) /\ k.life = r.life /\ k.dev = r.dev
<1> DEFINE k == [r EXCEPT !.dead = TRUE, !.reg = x]
<1>1. /\ k \in UsbType /\ k.life = r.life /\ k.dev = r.dev /\ k.works = r.works /\ k.writeable = r.writeable
      /\ k.dead = TRUE /\ k.in = r.in /\ k.out = r.out /\ k.out_busy = r.out_busy /\ k.reg = x
      /\ k.refs = r.refs /\ k.got = r.got /\ k.reader = r.reader /\ k.writer = r.writer
  BY DEF UsbType
<1> HIDE DEF k
<1>2. r.in.at # "flight" /\ r.out.at # "flight" /\ r.reader = "exit" /\ r.writer = "exit"
  BY DEF UsbExact, Waits
<1>3. UsbExact(k)
  BY <1>1, <1>2 DEF UsbExact, Waits
<1> QED BY <1>1, <1>3 DEF k

\* The kernel gives up the requests of a device that is pulled.
LEMMA PulledFacts ==
    ASSUME NEW r \in UsbType, UsbExact(r)
    PROVE LET k == [r EXCEPT !.works = FALSE, !.in = Discarded(@), !.out = Discarded(@)]
          IN k \in UsbType /\ UsbExact(k) /\ k.life = r.life /\ k.dev = r.dev
<1> DEFINE i == Discarded(r.in)
           o == Discarded(r.out)
           k == [r EXCEPT !.works = FALSE, !.in = i, !.out = o]
<1>1. i \in UrbType /\ i.at # "flight" /\ (r.in.at = "idle" => i.at = "idle")
  BY DEF UsbType, UrbType, Discarded, Urb
<1>2. o \in UrbType /\ o.at # "flight" /\ (r.out.at = "idle" <=> o.at = "idle")
  BY DEF UsbType, UrbType, Discarded, Urb
<1>3. [r EXCEPT !.works = FALSE, !.in = Discarded(@), !.out = Discarded(@)] = k
  OBVIOUS
<1> HIDE DEF i, o
<1>4. /\ k \in UsbType /\ k.life = r.life /\ k.dev = r.dev /\ k.works = FALSE /\ k.writeable = r.writeable
      /\ k.dead = r.dead /\ k.in = i /\ k.out = o /\ k.out_busy = r.out_busy /\ k.reg = r.reg
      /\ k.refs = r.refs /\ k.got = r.got /\ k.reader = r.reader /\ k.writer = r.writer
  BY <1>1, <1>2 DEF UsbType
<1> HIDE DEF k
<1>5. UsbExact(k)
  BY <1>1, <1>2, <1>4 DEF UsbExact, Waits
<1> QED BY <1>3, <1>4, <1>5

\* What is right for each handle and for the poll is right.
LEMMA AllHandles ==
    ASSUME LinuxInv, lusb' \in [LHandles -> UsbType], \A g \in LHandles : UsbExact(lusb'[g]),
           \A g \in LHandles : lusb'[g].life = lusb[g].life /\ lusb'[g].dev = lusb[g].dev,
           lpoll' \in [pc : {"scan", "next", "open", "kick"}, left : SUBSET Devices,
                       at : Devices \cup {NoDevice}, todo : SUBSET LHandles],
           present' \subseteq Devices, PollHolds'
    PROVE LinuxInv'
  BY DEF LinuxInv, LinuxTypeOK, OneUsb, UsbExact, Waits

\* The poll between two scans of the list of handles.
LEMMA PollInv ==
    ASSUME LinuxInv, PollScan \/ PollName \/ SweepDone
    PROVE LinuxInv'
<1> USE DEF LinuxInv, LinuxTypeOK
<1>1. CASE PollScan
  <2>1. UNCHANGED <<lusb, present, usb_lock>> /\ lpoll' = [lpoll EXCEPT !.pc = "next", !.left = present] /\ lpoll.pc = "scan"
    BY <1>1 DEF PollScan
  <2>2. lpoll'.pc = "next" /\ lpoll'.todo = {}
    BY <2>1 DEF PollHolds
  <2>3. PollHolds'
    BY <2>1, <2>2 DEF PollHolds
  <2> QED BY <2>1, <2>3, AllHandles
<1>2. CASE SweepDone
  <2>1. UNCHANGED <<lusb, present>> /\ lpoll' = [lpoll EXCEPT !.pc = "scan"] /\ lpoll.todo = {}
    BY <1>2 DEF SweepDone
  <2>2. PollHolds'
    BY <2>1 DEF PollHolds
  <2> QED BY <2>1, <2>2, AllHandles
<1>3. CASE PollName
  <2>0. lpoll.pc = "next" /\ UNCHANGED present /\ lpoll.todo = {}
    BY <1>3 DEF PollName, PollHolds
  <2>1. ASSUME NEW d \in lpoll.left,
               lpoll' = [lpoll EXCEPT !.left = @ \ {d}, !.at = d,
                                      !.pc = IF WithName(d) = {} THEN "open" ELSE "next"],
               lusb' = [h \in LHandles |-> IF h \in WithName(d) THEN [lusb[h] EXCEPT !.mark = TRUE] ELSE lusb[h]],
               UNCHANGED usb_lock
        PROVE LinuxInv'
    <3>1. ASSUME NEW g \in LHandles
          PROVE /\ lusb'[g] \in UsbType /\ UsbExact(lusb'[g])
                /\ lusb'[g].life = lusb[g].life /\ lusb'[g].dev = lusb[g].dev
      BY <2>1, MarkFacts
    <3>2. lusb' \in [LHandles -> UsbType]
      BY <2>1, <3>1
    <3>3. d \in Devices /\ lpoll'.todo = {} /\ lpoll'.pc \in {"open", "next"} /\ lpoll'.at = d
          /\ (lpoll'.pc = "open" => WithName(d) = {})
      BY <2>0, <2>1
    <3>4. lpoll'.pc = "open" => \A g \in LHandles : lusb'[g].dev # d
      BY <3>1, <3>3, DeviceAssumption DEF WithName, UsbExact, UsbType
    <3>5. PollHolds'
      BY <3>3, <3>4 DEF PollHolds
    <3>6. lpoll' \in [pc : {"scan", "next", "open", "kick"}, left : SUBSET Devices,
                      at : Devices \cup {NoDevice}, todo : SUBSET LHandles]
      BY <2>1, <3>3
    <3> QED BY <2>0, <3>1, <3>2, <3>5, <3>6, AllHandles
  <2>2. ASSUME lpoll' = [lpoll EXCEPT !.pc = "kick", !.todo = {h \in LHandles : lusb[h].life = "open"}],
               usb_lock' = "poll", UNCHANGED lusb
        PROVE LinuxInv'
    <3>1. PollHolds'
      BY <2>2 DEF PollHolds
    <3> QED BY <2>0, <2>2, <3>1, AllHandles
  <2> QED BY <1>3, <2>1, <2>2 DEF PollName
<1> QED BY <1>1, <1>2, <1>3

\* register_device adds a handle for a device that has none.
LEMMA RegisterDeviceInv ==
    ASSUME LinuxInv, RegisterDevice
    PROVE LinuxInv'
<1> DEFINE d == lpoll.at
<1>1. /\ lpoll.pc = "open" /\ lpoll' = [lpoll EXCEPT !.pc = "next"] /\ UNCHANGED <<present, usb_lock>>
      /\ d \in Devices /\ \A g \in LHandles : lusb[g].dev # d
      /\ lpoll.todo = {}
  BY DEF RegisterDevice, LinuxInv, PollHolds
<1>2. /\ lpoll'.pc = "next" /\ lpoll'.todo = {}
      /\ lpoll' \in [pc : {"scan", "next", "open", "kick"}, left : SUBSET Devices,
                     at : Devices \cup {NoDevice}, todo : SUBSET LHandles]
  BY <1>1 DEF LinuxInv, LinuxTypeOK
<1>3. PollHolds'
  BY <1>2 DEF PollHolds
<1>4. CASE UNCHANGED lusb
  BY <1>1, <1>2, <1>3, <1>4, AllHandles DEF LinuxInv, LinuxTypeOK
<1>5. ASSUME NEW h \in LHandles, NEW b \in BOOLEAN,
             lusb' = [lusb EXCEPT ![h] = [NewUsb EXCEPT !.life = "open", !.dev = d, !.works = TRUE,
                                                         !.mark = TRUE, !.writeable = b, !.reg = "pending"]]
      PROVE LinuxInv'
  <2> DEFINE m == [NewUsb EXCEPT !.life = "open", !.dev = d, !.works = TRUE]
             k == [m EXCEPT !.mark = TRUE, !.writeable = b, !.reg = "pending"]
  <2>1. lusb' = [lusb EXCEPT ![h] = k]
    BY <1>5
  <2>2. /\ m \in UsbType /\ m.life = "open" /\ m.dev = d /\ m.works = TRUE /\ m.dead = NewUsb.dead
        /\ m.in = NewUsb.in /\ m.out = NewUsb.out /\ m.refs = NewUsb.refs
        /\ m.reader = NewUsb.reader /\ m.writer = NewUsb.writer
    BY <1>1, NewUsbFacts DEF UsbType
  <2> HIDE DEF m
  <2>3. /\ k \in UsbType /\ k.life = "open" /\ k.dev = d /\ k.works = TRUE /\ k.dead = m.dead
        /\ k.in = m.in /\ k.out = m.out /\ k.refs = m.refs
        /\ k.reader = m.reader /\ k.writer = m.writer
    BY <2>2 DEF UsbType
  <2> HIDE DEF k
  <2>4. /\ NewUsb.in.at = "idle" /\ NewUsb.out.at = "idle" /\ NewUsb.refs = 0
        /\ NewUsb.reader = "exit" /\ NewUsb.writer = "exit"
    BY DEF NewUsb, Urb
  <2>5. UsbExact(k)
    BY <2>2, <2>3, <2>4 DEF UsbExact, Waits, Refs
  <2>6. lusb'[h] = k /\ \A g \in LHandles : g # h => lusb'[g] = lusb[g]
    BY <2>1 DEF LinuxInv, LinuxTypeOK
  <2>7. OneUsb'
    BY <1>1, <2>3, <2>6 DEF LinuxInv, OneUsb
  <2>8. \A g \in LHandles : UsbExact(lusb'[g])
    BY <2>5, <2>6 DEF LinuxInv
  <2>9. LinuxTypeOK'
    BY <1>1, <1>2, <2>1, <2>3 DEF LinuxInv, LinuxTypeOK
  <2> QED BY <1>3, <2>7, <2>8, <2>9 DEF LinuxInv, UsbExact, Waits
<1> QED BY <1>4, <1>5 DEF RegisterDevice, SetLusb

\* kick_disconnected_devices at one handle.
LEMMA SweepInv ==
    ASSUME LinuxInv, NEW h \in LHandles, Sweep(h)
    PROVE LinuxInv'
<1> DEFINE r == lusb[h]
<1>1. /\ r \in UsbType /\ UsbExact(r) /\ UNCHANGED <<present, usb_lock>>
      /\ lpoll' = [lpoll EXCEPT !.todo = @ \ {h}] /\ lpoll.pc = "kick"
  BY UsbFacts DEF Sweep
<1>2. ASSUME NEW k \in UsbType, UsbExact(k), k.life = r.life, k.dev = r.dev, lusb' = [lusb EXCEPT ![h] = k]
      PROVE LinuxInv'
  <2>1. lusb'[h] = k /\ \A g \in LHandles : g # h => lusb'[g] = lusb[g]
    BY <1>2 DEF LinuxInv, LinuxTypeOK
  <2>2. \A g \in LHandles : /\ UsbExact(lusb'[g])
                            /\ lusb'[g].life = lusb[g].life /\ lusb'[g].dev = lusb[g].dev
    BY <1>2, <2>1 DEF LinuxInv
  <2>3. /\ lpoll'.pc = "kick" /\ lpoll'.todo = lpoll.todo \ {h}
        /\ lpoll' \in [pc : {"scan", "next", "open", "kick"}, left : SUBSET Devices,
                       at : Devices \cup {NoDevice}, todo : SUBSET LHandles]
    BY <1>1 DEF LinuxInv, LinuxTypeOK
  <2>4. PollHolds'
    BY <1>1, <2>2, <2>3 DEF PollHolds, LinuxInv, LinuxTypeOK
  <2>5. lusb' \in [LHandles -> UsbType]
    BY <1>2 DEF LinuxInv, LinuxTypeOK
  <2> QED BY <1>1, <2>2, <2>3, <2>4, <2>5, AllHandles DEF LinuxInv, LinuxTypeOK
<1>3. CASE lusb' = [lusb EXCEPT ![h] = [r EXCEPT !.mark = FALSE]]
  BY <1>1, <1>2, <1>3, MarkFacts
<1>4. CASE lusb' = [lusb EXCEPT ![h] = KickHandle(r)]
  BY <1>1, <1>2, <1>4, KickFacts
<1>5. CASE UNCHANGED lusb
  <2>1. lusb' = [lusb EXCEPT ![h] = r]
    BY <1>5 DEF LinuxInv, LinuxTypeOK
  <2> QED BY <1>1, <1>2, <2>1
<1>6. CASE ~r.writeable /\ lusb' = [lusb EXCEPT ![h] = [r EXCEPT !.dead = TRUE, !.reg = IF @ = "listed" THEN "out" ELSE @]]
  <2> DEFINE x == IF r.reg = "listed" THEN "out" ELSE r.reg
  <2>1. x \in {"pending", "listed", "out"}
    BY <1>1 DEF UsbType
  <2>2. lusb' = [lusb EXCEPT ![h] = [r EXCEPT !.dead = TRUE, !.reg = x]]
    BY <1>6
  <2> HIDE DEF x
  <2> QED BY <1>1, <1>2, <1>6, <2>1, <2>2, ReadOnlyDeadFacts
<1> QED BY <1>3, <1>4, <1>5, <1>6 DEF Sweep, SetLusb

\* The cable.
LEMMA CableInv ==
    ASSUME LinuxInv, NEW d \in Devices, Pull(d) \/ Insert(d)
    PROVE LinuxInv'
<1>1. CASE Insert(d)
  BY <1>1, AllHandles DEF Insert, LinuxInv, LinuxTypeOK, PollHolds
<1>2. CASE Pull(d)
  <2>1. ASSUME NEW g \in LHandles
        PROVE /\ lusb'[g] \in UsbType /\ UsbExact(lusb'[g])
              /\ lusb'[g].life = lusb[g].life /\ lusb'[g].dev = lusb[g].dev
    BY <1>2, PulledFacts, UsbFacts DEF Pull
  <2>2. lusb' \in [LHandles -> UsbType] /\ present' \subseteq Devices /\ UNCHANGED <<lpoll, usb_lock>>
    BY <1>2, <2>1 DEF Pull, LinuxInv, LinuxTypeOK
  <2>3. PollHolds'
    BY <2>1, <2>2 DEF PollHolds, LinuxInv, LinuxTypeOK
  <2> QED BY <2>1, <2>2, <2>3, AllHandles DEF LinuxInv, LinuxTypeOK
<1> QED BY <1>1, <1>2

\* The invariant is kept by every step of the poll, the threads and the kernel.
THEOREM LinuxInvariance == LinuxSpec => []LinuxInv
<1>1. LinuxInit => LinuxInv
  <2> SUFFICES ASSUME LinuxInit PROVE LinuxInv
    OBVIOUS
  <2>1. \A h \in LHandles : lusb[h] = NewUsb
    BY DEF LinuxInit
  <2>2. LinuxTypeOK
    BY NewUsbFacts DEF LinuxInit, LinuxTypeOK
  <2>3. PollHolds /\ OneUsb
    BY <2>1, NewUsbFacts DEF LinuxInit, PollHolds, OneUsb
  <2> QED BY <2>1, <2>2, <2>3, NewUsbFacts DEF LinuxInv
<1>2. LinuxInv /\ [LinuxNext]_linux_vars => LinuxInv'
  <2> SUFFICES ASSUME LinuxInv, [LinuxNext]_linux_vars PROVE LinuxInv'
    OBVIOUS
  <2>1. CASE DevicePoll
    BY <2>1, PollInv, RegisterDeviceInv, SweepInv DEF DevicePoll
  <2>2. ASSUME NEW h \in LHandles, RegisterTransport(h) \/ LinuxReader(h)
        PROVE LinuxInv'
    BY <2>2, RegisterInv, SubmitReadInv, ReapInv, ReapedInv DEF LinuxReader
  <2>3. ASSUME NEW h \in LHandles, SubmitWrite(h) \/ WriteReturns(h) \/ WriterLeaves(h)
        PROVE LinuxInv'
    BY <2>3, WriterInv
  <2>4. ASSUME NEW h \in LHandles, NEW w \in {"reader", "writer"}, LeavingThread(h, w)
        PROVE LinuxInv'
    BY <2>4, KickInv, UnrefInv, CloseInv DEF LeavingThread
  <2>5. ASSUME NEW h \in LHandles, NEW u \in {"in", "out"}, Complete(h, u)
        PROVE LinuxInv'
    BY <2>5, CompleteInv
  <2>6. ASSUME NEW d \in Devices, Pull(d) \/ Insert(d)
        PROVE LinuxInv'
    BY <2>6, CableInv
  <2>7. CASE UNCHANGED linux_vars
    BY <2>7 DEF linux_vars, LinuxInv, LinuxTypeOK, PollHolds, OneUsb, UsbExact, Waits
  <2> QED BY <2>1, <2>2, <2>3, <2>4, <2>5, <2>6, <2>7 DEF LinuxNext
<1> QED BY <1>1, <1>2, PTL DEF LinuxSpec

\* usb_bulk_read and usb_bulk_write return only when the kernel is done with their
\* buffers, and usb_close is called by the last to use the handle.
THEOREM KernelHoldsNoBuffer == LinuxSpec => []BuffersHeld
<1>1. LinuxInv => BuffersHeld
  <2> SUFFICES ASSUME LinuxInv PROVE BuffersHeld
    OBVIOUS
  <2>1. ASSUME NEW h \in LHandles
        PROVE /\ lusb[h].in.at = "flight" => lusb[h].reader \in {"reap", "reaped"}
              /\ lusb[h].out.at = "flight" => lusb[h].writer = "wait"
              /\ lusb[h].reader = "close" => lusb[h].writer = "exit"
              /\ lusb[h].writer = "close" => lusb[h].reader = "exit"
              /\ lusb[h].life = "none" => h \notin lpoll.todo
    BY UsbFacts DEF UsbExact, Waits, LinuxInv, PollHolds
  <2> QED BY <2>1 DEF BuffersHeld, LinuxInv
<1> QED BY <1>1, LinuxInvariance, PTL
=============================================================================
