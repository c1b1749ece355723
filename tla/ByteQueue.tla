----------------------------- MODULE ByteQueue -----------------------------
(***************************************************************************)
(* What one direction of an emulated socketpair promises its two ends: a   *)
(* bounded first-in first-out queue of bytes.  A write appends some bytes  *)
(* at the tail, a read removes some bytes from the head and hands exactly  *)
(* those bytes to the reader.                                              *)
(***************************************************************************)
EXTENDS Naturals, Sequences

CONSTANT Capacity     \* most bytes the queue holds

VARIABLES queue,      \* the bytes written and not yet read, oldest first
          dst         \* the bytes the last read returned

vars == <<queue, dst>>

Init == queue = <<>> /\ dst = <<>>

Put == 
    /\ \E n \in 1..(Capacity - Len(queue)) :
          /\ Len(queue') = Len(queue) + n
          /\ SubSeq(queue', 1, Len(queue)) = queue
    /\ UNCHANGED dst

Get ==
    \E n \in 1..Len(queue) :
       /\ dst' = SubSeq(queue, 1, n)
       /\ queue' = SubSeq(queue, n + 1, Len(queue))

Next == Put \/ Get

Spec == Init /\ [][Next]_vars
=============================================================================
