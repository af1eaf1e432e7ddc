----------------------------- MODULE HidRing -----------------------------
(***************************************************************************)
(* One of the two receive rings of src/src/usb/hid.c: pd_buf, or sys_buf   *)
(* when nothing clears it.  The USB interrupt pushes a packet between any  *)
(* two steps of the main loop, which peeks at the oldest packet, copies it *)
(* to its stack and then pops it (hid_forward_pd, cmd_process_next), and   *)
(* which empties the ring by two separate stores when the connection       *)
(* changes.  A packet is two halves, so that a copy can be torn.           *)
(***************************************************************************)
EXTENDS Naturals, Sequences

CONSTANTS
    Halves,     \* what half a packet may hold
    Zero,       \* a half of cleared memory
    Depth,      \* HID_RX_FIFO_DEPTH: 8 in the code
    MayClear    \* pd_buf is cleared, sys_buf never is

ASSUME DepthAssumption == Depth \in Nat /\ Depth >= 2 /\ MayClear \in BOOLEAN

Packets == { <<h, h>> : h \in Halves }
Blank   == <<Zero, Zero>>

VARIABLES
    buf, head, tail,    \* the ring: head is the interrupt's, tail the loop's
    pc,                 \* where the main loop stands
    data,               \* the slot a peek returned
    packet,             \* its copy on the stack, half by half
    taken,              \* the packet popped last
    epoch               \* clears, modulo 2

ring == <<buf, head, tail>>
vars == <<ring, pc, data, packet, taken, epoch>>

Slots   == 0..(Depth - 1)
NoSlot  == Depth

-----------------------------------------------------------------------------
(* HID_RING_INC, hid_rx_buf_is_full and hid_rx_buf_has_data. *)
NoWrap(x)       == x + 1                                         \* mutant
Inc(x)          == (x + 1) % Depth
NeverFull(h, t) == FALSE                                         \* mutant
IsFull(h, t)    == Inc(h) = t
HasData         == head # tail

Init ==
    /\ buf = [i \in Slots |-> Blank]
    /\ head = 0
    /\ tail = 0
    /\ pc = "idle"
    /\ data = NoSlot
    /\ packet = Blank
    /\ taken = Blank
    /\ epoch = 0

(* usbd_hid_custom_out_callback for a valid header of this ring's type, and *)
(* hid_rx_buf_push: an atomic step, for the main loop cannot interrupt it.  *)
Push(p) ==
    /\ ~IsFull(head, tail)
    /\ buf' = [buf EXCEPT ![head] = p]
    /\ head' = Inc(head)
    /\ UNCHANGED <<tail, pc, data, packet, taken, epoch>>

Peek ==
    /\ pc = "idle"
    /\ HasData
    /\ data' = tail
    /\ pc' = "copy"
    /\ UNCHANGED <<ring, packet, taken, epoch>>

(* memcpy of the packet, interrupted half way. *)
PopEarly == tail' = Inc(tail) /\ UNCHANGED <<buf, head>>         \* mutant
KeepSlot == UNCHANGED ring

CopyFirst ==
    /\ pc = "copy"
    /\ packet' = [packet EXCEPT ![1] = buf[data][1]]
    /\ pc' = "copying"
    /\ KeepSlot
    /\ UNCHANGED <<data, taken, epoch>>

CopySecond ==
    /\ pc = "copying"
    /\ packet' = [packet EXCEPT ![2] = buf[data][2]]
    /\ pc' = "copied"
    /\ UNCHANGED <<ring, data, taken, epoch>>

Pop ==
    /\ pc = "copied"
    /\ tail' = IF HasData THEN Inc(tail) ELSE tail
    /\ taken' = packet
    /\ packet' = Blank
    /\ data' = NoSlot
    /\ pc' = "idle"
    /\ UNCHANGED <<buf, head, epoch>>

(* hid_rx_buf_clear: head = 0, then tail = 0. *)
ClearHead ==
    /\ MayClear /\ pc = "idle"
    /\ head' = 0
    /\ epoch' = 1 - epoch
    /\ pc' = "clear"
    /\ UNCHANGED <<buf, tail, data, packet, taken>>

ClearTail ==
    /\ pc = "clear"
    /\ tail' = 0
    /\ pc' = "idle"
    /\ UNCHANGED <<buf, head, data, packet, taken, epoch>>

Next == \/ \E p \in Packets : Push(p)
        \/ Peek \/ CopyFirst \/ CopySecond \/ Pop
        \/ ClearHead \/ ClearTail

Spec == Init /\ [][Next]_vars

-----------------------------------------------------------------------------
TypeOK ==
    /\ buf \in [Slots -> Packets \union {Blank}]
    /\ head \in Slots
    /\ tail \in Slots
    /\ pc \in {"idle", "copy", "copying", "copied", "clear"}
    /\ data \in Slots \union {NoSlot}
    /\ packet \in (Halves \union {Zero}) \X (Halves \union {Zero})
    /\ taken \in Packets \union {Blank}
    /\ epoch \in 0..1

(* A copied packet is the one at the tail, whole: while the loop copies a  *)
(* packet, no interrupt reuses its slot, however many packets come         *)
(* (hid.c 185-192, event.c 466-474, cmd.c 194-202).                        *)
CopyWhole == pc = "copied" => packet = buf[tail]

(* The packets the ring holds, oldest first; between the two stores of a   *)
(* clear, those that came since the first.                                 *)
First   == IF pc = "clear" THEN 0 ELSE tail
Content == [ i \in 1..((head + Depth - First) % Depth) |-> buf[(First + i - 1) % Depth] ]

(* The ring is a bounded queue whose packets come out whole, in order and  *)
(* in their own epoch.                                                     *)
Queue == INSTANCE PacketQueue WITH queue <- Content, Capacity <- Depth - 1, Nothing <- Blank
IsQueue == Queue!Spec
=============================================================================
