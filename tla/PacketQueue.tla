--------------------------- MODULE PacketQueue ---------------------------
(***************************************************************************)
(* What the main loop may rely on from a queue the USB interrupt fills     *)
(* (hid.c): packets come out whole and in the order they went in, a packet *)
(* that finds the queue full is lost, and a clear ends an epoch, so that   *)
(* nothing queued before it comes out after it.                            *)
(***************************************************************************)
EXTENDS Naturals, Sequences

CONSTANTS Packets, Capacity, Nothing

VARIABLES queue, taken, epoch

Init == queue = <<>> /\ taken = Nothing /\ epoch = 0

Put(p) == /\ Len(queue) < Capacity
          /\ queue' = Append(queue, p)
          /\ UNCHANGED <<taken, epoch>>

Take == /\ queue # <<>>
        /\ taken' = Head(queue)
        /\ queue' = Tail(queue)
        /\ UNCHANGED epoch

Clear == /\ queue' = <<>>
         /\ epoch' = 1 - epoch
         /\ UNCHANGED taken

Next == (\E p \in Packets : Put(p)) \/ Take \/ Clear

Spec == Init /\ [][Next]_<<queue, taken, epoch>>
=============================================================================
