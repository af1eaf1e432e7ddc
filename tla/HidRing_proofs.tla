-------------------------- MODULE HidRing_proofs --------------------------
(***************************************************************************)
(* Theorems about HidRing for every depth and every packet: its types, the *)
(* copies the loop takes, and that it implements PacketQueue.              *)
(***************************************************************************)
EXTENDS HidRing, TLAPS, SequenceTheorems

Cells == Packets \union {Blank}

(* HID_RING_INC stays in the ring. *)
LEMMA IncType ==
    ASSUME NEW x \in Slots
    PROVE  Inc(x) \in Slots
<1>1. Depth \in Nat /\ Depth >= 2
  BY DepthAssumption DEF DepthAssumption
<1>2. CASE x + 1 < Depth
  <2>1. (x + 1) % Depth = x + 1
    BY <1>1, <1>2 DEF Slots
  <2> QED
    BY <1>1, <1>2, <2>1 DEF Inc, Slots
<1>3. CASE x + 1 = Depth
  <2>1. (x + 1) % Depth = 0
    BY <1>1, <1>3 DEF Slots
  <2> QED
    BY <1>1, <2>1 DEF Inc, Slots
<1> QED
  BY <1>1, <1>2, <1>3 DEF Slots

LEMMA CellHalves ==
    ASSUME NEW c \in Cells
    PROVE  /\ c = <<c[1], c[2]>>
           /\ c[1] \in Halves \union {Zero} /\ c[2] \in Halves \union {Zero}
  BY DEF Cells, Packets, Blank

(* While the loop reads, its slot is the tail, the ring is not empty, and   *)
(* what it has copied is what the slot holds.                              *)
Reading == pc \in {"copy", "copying", "copied"}

ReadInv ==
    /\ Reading => data = tail /\ head # tail
    /\ pc \in {"copying", "copied"} => packet[1] = buf[tail][1]
    /\ pc = "copied" => packet[2] = buf[tail][2]

RingInv == TypeOK /\ ReadInv

LEMMA RingStep == RingInv /\ [Next]_vars => RingInv'
<1> SUFFICES ASSUME TypeOK, ReadInv, [Next]_vars PROVE RingInv'
  BY DEF RingInv
<1>z. 0 \in Slots /\ NoSlot \in Slots \union {NoSlot}
  BY DepthAssumption DEF DepthAssumption, Slots
<1>i. Inc(head) \in Slots /\ Inc(tail) \in Slots
  BY IncType DEF TypeOK
<1>h. /\ buf[tail] \in Cells
      /\ packet = <<packet[1], packet[2]>>
      /\ buf[tail] = <<buf[tail][1], buf[tail][2]>>
      /\ buf[tail][1] \in Halves \union {Zero} /\ buf[tail][2] \in Halves \union {Zero}
  <2>1. buf[tail] \in Cells /\ packet = <<packet[1], packet[2]>>
    BY DEF TypeOK, Cells
  <2> QED
    BY <2>1, CellHalves
<1>1. ASSUME NEW p \in Packets, Push(p) PROVE RingInv'
  <2>1. /\ buf' = [buf EXCEPT ![head] = p] /\ head' = Inc(head) /\ head' # tail
        /\ UNCHANGED <<tail, pc, data, packet, taken, epoch>>
    BY <1>1 DEF Push, IsFull
  <2>2. TypeOK'
    BY <2>1, <1>i DEF TypeOK
  <2>3. Reading => buf'[tail] = buf[tail]
    BY <2>1 DEF TypeOK, ReadInv
  <2> QED
    BY <2>1, <2>2, <2>3 DEF RingInv, ReadInv, Reading
<1>2. CASE Peek
  BY <1>2 DEF Peek, HasData, ring, TypeOK, RingInv, ReadInv, Reading
<1>3. CASE CopyFirst
  <2>1. packet' = <<buf[tail][1], packet[2]>>
    BY <1>3, <1>h DEF CopyFirst, ReadInv, Reading, TypeOK
  <2> QED
    BY <1>3, <2>1, <1>h DEF CopyFirst, KeepSlot, ring, TypeOK, RingInv, ReadInv, Reading
<1>4. CASE CopySecond
  <2>1. packet' = <<buf[tail][1], buf[tail][2]>>
    BY <1>4, <1>h DEF CopySecond, ReadInv, Reading, TypeOK
  <2> QED
    BY <1>4, <2>1, <1>h DEF CopySecond, ring, TypeOK, RingInv, ReadInv, Reading
<1>5. CASE Pop
  <2>1. packet = buf[tail]
    BY <1>5, <1>h DEF Pop, ReadInv
  <2>2. Blank \in (Halves \union {Zero}) \X (Halves \union {Zero})
    BY DEF Blank
  <2> QED
    BY <1>5, <2>1, <2>2, <1>h, <1>i, <1>z
    DEF Pop, HasData, Cells, TypeOK, RingInv, ReadInv, Reading
<1>6. CASE ClearHead
  BY <1>6, <1>z DEF ClearHead, TypeOK, RingInv, ReadInv, Reading
<1>7. CASE ClearTail
  BY <1>7, <1>z DEF ClearTail, TypeOK, RingInv, ReadInv, Reading
<1>8. CASE UNCHANGED vars
  BY <1>8 DEF vars, ring, TypeOK, RingInv, ReadInv, Reading
<1> QED
  BY <1>1, <1>2, <1>3, <1>4, <1>5, <1>6, <1>7, <1>8 DEF Next

LEMMA RingInit == Init => RingInv
  BY DepthAssumption
  DEF DepthAssumption, Init, Blank, Slots, TypeOK, RingInv, ReadInv, Reading

LEMMA CopyIsWhole ==
    ASSUME TypeOK, ReadInv, pc = "copied"
    PROVE  packet = buf[tail]
<1>1. buf[tail] \in Cells /\ packet = <<packet[1], packet[2]>>
  BY DEF TypeOK, Cells
<1> QED
  BY <1>1, CellHalves DEF ReadInv

(* The indices stay in the ring and no half packet is ever handed out. *)
THEOREM TypeCorrect == Spec => []TypeOK
<1>1. RingInv => TypeOK
  BY DEF RingInv
<1> QED
  BY <1>1, RingInit, RingStep, PTL DEF Spec

(* A packet is copied whole whatever the interrupt pushes meanwhile: the    *)
(* slot that stays free keeps it off the one being read (hid.c 185-192).   *)
THEOREM CopiesAreWhole == Spec => []CopyWhole
<1>1. RingInv => CopyWhole
  BY CopyIsWhole DEF RingInv, CopyWhole
<1> QED
  BY <1>1, RingInit, RingStep, PTL DEF Spec

-----------------------------------------------------------------------------
(* Between the two stores of a clear, the stale tail keeps the interrupt   *)
(* from wrapping round: what has come since the first store lies below it. *)
ClearInv == pc = "clear" => tail = 0 \/ head < tail

LEMMA ClearStep == TypeOK /\ ClearInv /\ [Next]_vars => ClearInv'
<1> SUFFICES ASSUME TypeOK, ClearInv, [Next]_vars PROVE ClearInv'
  OBVIOUS
<1>1. Depth \in Nat /\ Depth >= 2 /\ head \in 0..(Depth - 1) /\ tail \in 0..(Depth - 1)
  BY DepthAssumption DEF DepthAssumption, TypeOK, Slots
<1>2. ASSUME NEW p \in Packets, Push(p) PROVE ClearInv'
  <2>1. /\ head' = (head + 1) % Depth /\ head' # tail
        /\ tail' = tail /\ pc' = pc
    BY <1>2 DEF Push, IsFull, Inc
  <2>2. CASE head + 1 < Depth
    <3>1. head' = head + 1
      BY <1>1, <2>1, <2>2
    <3> QED
      BY <1>1, <2>1, <3>1 DEF ClearInv
  <2>3. CASE head + 1 = Depth
    <3>1. head' = 0
      BY <1>1, <2>1, <2>3
    <3> QED
      BY <1>1, <2>1, <2>3, <3>1 DEF ClearInv
  <2> QED
    BY <1>1, <2>2, <2>3
<1>3. CASE Peek \/ CopyFirst \/ CopySecond \/ Pop \/ ClearTail
  BY <1>3 DEF Peek, CopyFirst, CopySecond, Pop, ClearTail, ClearInv
<1>4. CASE ClearHead
  BY <1>1, <1>4 DEF ClearHead, ClearInv
<1>5. CASE UNCHANGED vars
  BY <1>5 DEF vars, ring, ClearInv
<1> QED
  BY <1>2, <1>3, <1>4, <1>5 DEF Next

-----------------------------------------------------------------------------
(* The indices of the queue's content, without the remainder.              *)
Held(h, f)  == IF h >= f THEN h - f ELSE h + Depth - f
Place(f, i) == IF f + i - 1 < Depth THEN f + i - 1 ELSE f + i - 1 - Depth

LEMMA HeldIs ==
    ASSUME NEW h \in Slots, NEW f \in Slots
    PROVE  (h + Depth - f) % Depth = Held(h, f) /\ Held(h, f) \in 0..(Depth - 1)
<1>1. Depth \in Nat /\ Depth >= 2 /\ h \in 0..(Depth - 1) /\ f \in 0..(Depth - 1)
  BY DepthAssumption DEF DepthAssumption, Slots
<1>2. CASE h >= f
  <2> DEFINE d == h - f
  <2>1. d \in 0..(Depth - 1) /\ h + Depth - f = d + Depth
    BY <1>1, <1>2
  <2> HIDE DEF d
  <2>2. (d + Depth) % Depth = d
    BY <1>1, <2>1
  <2> QED
    BY <1>2, <2>1, <2>2 DEF Held, d
<1>3. CASE h < f
  <2> DEFINE d == h + Depth - f
  <2>1. d \in 0..(Depth - 1)
    BY <1>1, <1>3
  <2> HIDE DEF d
  <2>2. d % Depth = d
    BY <1>1, <2>1
  <2>3. Held(h, f) = d
    BY <1>1, <1>3 DEF Held, d
  <2> QED
    BY <2>1, <2>2, <2>3 DEF d
<1> QED
  BY <1>1, <1>2, <1>3

LEMMA PlaceIs ==
    ASSUME NEW f \in Slots, NEW i \in 1..Depth
    PROVE  (f + i - 1) % Depth = Place(f, i) /\ Place(f, i) \in Slots
<1>1. Depth \in Nat /\ Depth >= 2 /\ f \in 0..(Depth - 1)
  BY DepthAssumption DEF DepthAssumption, Slots
<1> DEFINE d == f + i - 1
<1>2. d \in Nat /\ d < Depth + Depth
  BY <1>1
<1> HIDE DEF d
<1>3. CASE d < Depth
  <2>1. d % Depth = d
    BY <1>1, <1>2, <1>3
  <2> QED
    BY <1>1, <1>2, <1>3, <2>1 DEF Place, Slots, d
<1>4. CASE d >= Depth
  <2>1. d % Depth = d - Depth
    BY <1>1, <1>2, <1>4
  <2> QED
    BY <1>1, <1>2, <1>4, <2>1 DEF Place, Slots, d
<1> QED
  BY <1>2, <1>1, <1>3, <1>4

LEMMA SeqOf ==
    ASSUME NEW S, NEW n \in Nat, NEW s \in [1..n -> S]
    PROVE  s \in Seq(S) /\ Len(s) = n
<1>1. s \in Seq(S)
  BY SeqDef
<1>2. Len(s) \in Nat /\ DOMAIN s = 1..Len(s) /\ DOMAIN s = 1..n
  BY <1>1, LenProperties
<1> QED
  BY <1>1, <1>2

LEMMA FirstType == TypeOK => First \in Slots
  BY DepthAssumption DEF DepthAssumption, TypeOK, First, Slots

(* What the queue holds. *)
ContentRight ==
    /\ Content \in Seq(Cells) /\ Len(Content) = Held(head, First)
    /\ \A i \in 1..Held(head, First) : Content[i] = buf[Place(First, i)]

LEMMA ContentIs == TypeOK => ContentRight
<1> SUFFICES ASSUME TypeOK PROVE ContentRight
  OBVIOUS
<1> DEFINE f == First
           n == Held(head, f)
<1>1. f \in Slots /\ head \in Slots
  BY FirstType DEF TypeOK
<1> HIDE DEF f
<1>2. n \in Nat /\ n < Depth /\ (head + Depth - f) % Depth = n
  BY <1>1, HeldIs, DepthAssumption DEF DepthAssumption
<1> HIDE DEF n
<1>3. Content = [i \in 1..n |-> buf[(f + i - 1) % Depth]]
  BY <1>2 DEF Content, f
<1>4. ASSUME NEW i \in 1..n
      PROVE  Content[i] = buf[Place(f, i)] /\ Content[i] \in Cells
  <2>1. i \in 1..Depth
    BY <1>2, DepthAssumption DEF DepthAssumption
  <2>2. (f + i - 1) % Depth = Place(f, i) /\ Place(f, i) \in Slots
    BY <1>1, <2>1, PlaceIs
  <2> QED
    BY <1>3, <2>2 DEF TypeOK, Cells
<1>5. Content \in [1..n -> Cells]
  BY <1>3, <1>4
<1>6. Content \in Seq(Cells) /\ Len(Content) = n
  BY <1>2, <1>5, SeqOf
<1> QED
  BY <1>4, <1>6 DEF ContentRight, n, f

LEMMA ContentIsNext == TypeOK' => ContentRight'
  BY ContentIs, PTL


LEMMA IncIs ==
    ASSUME NEW x \in Slots
    PROVE  Inc(x) = IF x + 1 = Depth THEN 0 ELSE x + 1
<1>1. Depth \in Nat /\ Depth >= 2 /\ x \in 0..(Depth - 1)
  BY DepthAssumption DEF DepthAssumption, Slots
<1>2. CASE x + 1 = Depth
  <2>1. (x + 1) % Depth = 0
    BY <1>1, <1>2
  <2> QED
    BY <1>2, <2>1 DEF Inc
<1>3. CASE x + 1 # Depth
  <2>1. (x + 1) % Depth = x + 1
    BY <1>1, <1>3
  <2> QED
    BY <1>3, <2>1 DEF Inc
<1> QED
  BY <1>2, <1>3

(* A pushed packet goes behind those that are held, and finds room.        *)
LEMMA PushPuts ==
    ASSUME RingInv, RingInv', ClearInv, NEW p \in Packets, Push(p)
    PROVE  Queue!Put(p)
<1> DEFINE f == First
           n == Held(head, f)
<1>1. /\ Depth \in Nat /\ Depth >= 2
      /\ head \in 0..(Depth - 1) /\ tail \in 0..(Depth - 1) /\ f \in 0..(Depth - 1)
  BY DepthAssumption, FirstType DEF DepthAssumption, RingInv, TypeOK, Slots
<1>2. /\ buf' = [buf EXCEPT ![head] = p]
      /\ head' = (IF head + 1 = Depth THEN 0 ELSE head + 1) /\ head' # tail
      /\ First' = f /\ taken' = taken /\ epoch' = epoch
  BY IncIs DEF Push, IsFull, First, RingInv, TypeOK
<1>3. f = tail \/ (f = 0 /\ (tail = 0 \/ head < tail))
  BY DEF First, ClearInv
<1> HIDE DEF f
<1>4. n \in Nat /\ n < Depth - 1 /\ Held(head', f) = n + 1
  BY <1>1, <1>2, <1>3 DEF Held
<1>5. Place(f, n + 1) = head /\ \A i \in 1..n : Place(f, i) # head
  BY <1>1, <1>4 DEF Held, Place
<1>6. /\ Content \in Seq(Cells) /\ Len(Content) = n
      /\ \A i \in 1..n : Content[i] = buf[Place(f, i)]
  BY ContentIs DEF RingInv, ContentRight, f
<1>7. /\ Content' \in Seq(Cells) /\ Len(Content') = n + 1
      /\ \A i \in 1..(n + 1) : Content'[i] = buf'[Place(f, i)]
  <2>1. /\ Content' \in Seq(Cells) /\ Len(Content') = Held(head', First')
        /\ \A i \in 1..Held(head', First') : Content'[i] = buf'[Place(First', i)]
    BY ContentIsNext DEF RingInv, ContentRight, Held, Place
  <2> QED
    BY <1>2, <1>4, <2>1
<1> HIDE DEF n
<1>8. Content' = Append(Content, p)
  <2>1. p \in Cells
    BY DEF Cells
  <2>2. /\ Append(Content, p) \in Seq(Cells) /\ Len(Append(Content, p)) = n + 1
        /\ \A i \in 1..n : Append(Content, p)[i] = Content[i]
        /\ Append(Content, p)[n + 1] = p
    BY <1>4, <1>6, <2>1, AppendProperties
  <2>3. ASSUME NEW i \in 1..(n + 1) PROVE Content'[i] = Append(Content, p)[i]
    <3>1. CASE i <= n
      <4>1. i \in 1..n /\ i \in 1..Depth
        BY <1>1, <1>4, <3>1
      <4>2. Place(f, i) \in Slots /\ Place(f, i) # head
        BY <1>1, <1>5, <4>1, PlaceIs DEF Slots
      <4>3. Content'[i] = buf[Place(f, i)]
        BY <1>2, <1>7, <4>2 DEF RingInv, TypeOK
      <4> QED
        BY <1>6, <2>2, <3>1, <4>1, <4>3
    <3>2. CASE i > n
      <4>1. i = n + 1
        BY <1>4, <3>2
      <4>2. Content'[i] = p
        BY <1>1, <1>2, <1>5, <1>7, <4>1 DEF RingInv, TypeOK, Slots
      <4> QED
        BY <1>4, <2>2, <4>1, <4>2
    <3>3. i <= n \/ i > n
      BY <1>4
    <3> QED
      BY <3>1, <3>2, <3>3
  <2> QED
    BY <1>7, <2>2, <2>3, SeqEqual
<1> QED
  BY <1>2, <1>4, <1>6, <1>8 DEF Queue!Put

(* A pop takes the packet at the tail, and no other.                       *)
LEMMA PopTakes ==
    ASSUME RingInv, RingInv', Pop
    PROVE  Queue!Take
<1> DEFINE n == Held(head, tail)
<1>1. /\ Depth \in Nat /\ Depth >= 2
      /\ head \in 0..(Depth - 1) /\ tail \in 0..(Depth - 1) /\ head # tail
  BY DepthAssumption DEF DepthAssumption, RingInv, TypeOK, Slots, ReadInv, Reading, Pop
<1>2. /\ tail' = (IF tail + 1 = Depth THEN 0 ELSE tail + 1)
      /\ buf' = buf /\ head' = head /\ First = tail /\ First' = tail'
      /\ taken' = packet /\ epoch' = epoch
  BY <1>1, IncIs DEF Pop, First, HasData, RingInv, TypeOK
<1>3. n \in Nat /\ n >= 1 /\ n < Depth /\ Held(head, tail') = n - 1 /\ Place(tail, 1) = tail
  BY <1>1, <1>2 DEF Held, Place
<1>4. /\ Content \in Seq(Cells) /\ Len(Content) = n
      /\ \A i \in 1..n : Content[i] = buf[Place(tail, i)]
  BY <1>2, ContentIs DEF RingInv, ContentRight
<1>5. /\ Content' \in Seq(Cells) /\ Len(Content') = n - 1
      /\ \A i \in 1..(n - 1) : Content'[i] = buf[Place(tail', i)]
  <2>1. /\ Content' \in Seq(Cells) /\ Len(Content') = Held(head', First')
        /\ \A i \in 1..Held(head', First') : Content'[i] = buf'[Place(First', i)]
    BY ContentIsNext DEF RingInv, ContentRight, Held, Place
  <2> QED
    BY <1>2, <1>3, <2>1
<1>6. \A i \in 1..(n - 1) : Place(tail', i) = Place(tail, i + 1)
  BY <1>1, <1>2, <1>3 DEF Place
<1> HIDE DEF n
<1>7. Content # <<>>
  BY <1>3, <1>4
<1>8. Head(Content) = packet
  <2>1. Head(Content) = Content[1]
    BY <1>4, <1>7
  <2>2. packet = buf[tail]
    BY CopyIsWhole DEF Pop, RingInv
  <2> QED
    BY <1>3, <1>4, <2>1, <2>2
<1>9. Content' = Tail(Content)
  <2>1. /\ Tail(Content) \in Seq(Cells) /\ Len(Tail(Content)) = n - 1
        /\ \A i \in 1..(n - 1) : Tail(Content)[i] = Content[i + 1]
    BY <1>4, <1>7, HeadTailProperties
  <2>2. \A i \in 1..(n - 1) : Content'[i] = Tail(Content)[i]
    BY <1>3, <1>4, <1>5, <1>6, <2>1
  <2> QED
    BY <1>5, <2>1, <2>2, SeqEqual
<1> QED
  BY <1>2, <1>7, <1>8, <1>9 DEF Queue!Take

LEMMA NoneHeld == TypeOK /\ head = First => Content = <<>>
<1> SUFFICES ASSUME TypeOK, head = First PROVE Content = <<>>
  OBVIOUS
<1>1. Held(head, First) = 0
  BY FirstType DEF Held, TypeOK, Slots
<1> QED
  BY <1>1, ContentIs, EmptySeq DEF ContentRight

(* The first store of a clear empties the queue, the second changes nothing.*)
LEMMA ClearClears ==
    ASSUME RingInv', ClearHead
    PROVE  Queue!Clear
<1>1. head' = First' /\ epoch' = 1 - epoch /\ taken' = taken
  BY DEF ClearHead, First
<1>2. (TypeOK /\ head = First => Content = <<>>)'
  BY NoneHeld, PTL
<1>3. Content' = <<>>
  BY <1>1, <1>2 DEF RingInv
<1> QED
  BY <1>1, <1>3 DEF Queue!Clear

LEMMA OthersStutter ==
    ASSUME Peek \/ CopyFirst \/ CopySecond \/ ClearTail \/ UNCHANGED vars
    PROVE  UNCHANGED <<Content, taken, epoch>>
<1>1. /\ buf' = buf /\ head' = head /\ taken' = taken /\ epoch' = epoch
      /\ First' = First
  BY DEF Peek, CopyFirst, KeepSlot, CopySecond, ClearTail, First, vars, ring
<1> QED
  BY <1>1 DEF Content

(* The ring is a bounded queue: packets come out whole, in order and in    *)
(* their own epoch, whenever the interrupt pushes, reads are half done or  *)
(* the two stores of a clear are apart (hid_rx_buf_push, hid_rx_buf_pop,   *)
(* hid_rx_buf_clear).                                                      *)
THEOREM RingIsQueue == Spec => IsQueue
<1>1. Init => RingInv /\ ClearInv /\ Queue!Init
  <2> SUFFICES ASSUME Init PROVE RingInv /\ ClearInv /\ Queue!Init
    OBVIOUS
  <2>1. RingInv /\ ClearInv
    BY RingInit DEF Init, ClearInv
  <2>2. Content = <<>>
    BY <2>1, NoneHeld DEF Init, First, RingInv
  <2> QED
    BY <2>1, <2>2 DEF Init, Queue!Init
<1>2. RingInv /\ ClearInv /\ [Next]_vars => RingInv' /\ ClearInv'
  BY RingStep, ClearStep DEF RingInv
<1>3. RingInv /\ ClearInv /\ [Next]_vars => [Queue!Next]_<<Content, taken, epoch>>
  <2> SUFFICES ASSUME RingInv, RingInv', ClearInv, [Next]_vars
               PROVE  Queue!Next \/ UNCHANGED <<Content, taken, epoch>>
    BY <1>2
  <2>1. ASSUME NEW p \in Packets, Push(p) PROVE Queue!Next
    BY <2>1, PushPuts DEF Queue!Next
  <2>2. CASE Pop
    BY <2>2, PopTakes DEF Queue!Next
  <2>3. CASE ClearHead
    BY <2>3, ClearClears DEF Queue!Next
  <2>4. CASE Peek \/ CopyFirst \/ CopySecond \/ ClearTail \/ UNCHANGED vars
    BY <2>4, OthersStutter
  <2> QED
    BY <2>1, <2>2, <2>3, <2>4 DEF Next
<1> QED
  BY <1>1, <1>2, <1>3, PTL DEF Spec, IsQueue, Queue!Spec
=============================================================================
