--------------------------- MODULE Settings_proofs ---------------------------
(* Proofs about Settings, for every chip, every list and every command.    *)
EXTENDS Settings, TLAPS

(* A chip of 2048 bytes or more has all the cells, none of them of two     *)
(* meanings.                                                               *)
LEMMA CellFacts ==
    /\ Names \subseteq Cells /\ HoldCells \subseteq Cells
    /\ {0, 2048, 4096} \subseteq Cells
    /\ Names \cap (HoldCells \union {0, 2048, 4096}) = {}
    /\ HoldCells \cap {0, 2048, 4096} = {}
    /\ NumCell \in HoldCells /\ RdoCell \in HoldCells /\ CopyCell \in HoldCells
    /\ \A i \in 1..MaxPdos : PdoCell(i) \in HoldCells \ {NumCell, RdoCell, CopyCell}
    /\ \A i, j \in 1..MaxPdos : PdoCell(i) = PdoCell(j) => i = j
    /\ NumCell # RdoCell /\ NumCell # CopyCell /\ RdoCell # CopyCell
BY DEF Names, Plain, Priority, SinkMode, ReportType, VbusEn, TriggerHold, Cells,
       HoldCells, PdoCells, NumCell, RdoCell, CopyCell, PdoCell, MaxPdos

(* Each list has a first PDO and at most 15, all numbers.                  *)
LEMMA ListFacts ==
    ASSUME NEW l \in Lists
    PROVE  /\ l \in Seq(Nat) /\ Len(l) \in 1..MaxPdos /\ l # <<>>
           /\ \A i \in 1..Len(l) : l[i] \in Nat
<1>1. l \in Seq(Nat) /\ Len(l) \in 1..MaxPdos
    BY ListAssumption DEF ListAssumption
<1>2. \A i \in 1..Len(l) : l[i] \in Nat
    BY <1>1
<1>3. l # <<>>
    BY <1>1
<1> QED
    BY <1>1, <1>2, <1>3

(* A slot of the list gives a request, and so does a packet of the host.   *)
LEMMA RequestFacts ==
    /\ \A r \in HostRequests : r \in [pos : Nat, copy_of_pdo : Nat]
    /\ pdos \in Lists \union {<<>>} =>
          \A p \in 1..Len(pdos) :
              pdos \in Lists /\ Request(p - 1, pdos[p]) \in [pos : Nat, copy_of_pdo : Nat]
<1>1. \A r \in HostRequests : r \in [pos : Nat, copy_of_pdo : Nat]
    BY ListAssumption DEF ListAssumption
<1>2. ASSUME pdos \in Lists, NEW p \in 1..Len(pdos)
      PROVE  Request(p - 1, pdos[p]) \in [pos : Nat, copy_of_pdo : Nat]
    <2>1. Len(pdos) \in Nat /\ pdos[p] \in Nat
        BY <1>2, ListFacts DEF MaxPdos
    <2>2. p - 1 \in Nat
        BY <1>2, <2>1
    <2> QED
        BY <2>1, <2>2 DEF Request
<1>3. pdos = <<>> => 1..Len(pdos) = {}
    OBVIOUS
<1> QED
    BY <1>1, <1>2, <1>3

LEMMA UpTo ==
    ASSUME NEW n \in 1..MaxPdos
    PROVE  n \in Nat /\ \A k \in 1..n : k \in 1..MaxPdos
BY DEF MaxPdos

LEMMA ConcatFacts ==
    ASSUME NEW S, NEW a \in Seq(S), NEW b \in Seq(S)
    PROVE  /\ a \o b \in Seq(S) /\ Len(a \o b) = Len(a) + Len(b)
           /\ \A i \in 1..Len(a) : (a \o b)[i] = a[i]
           /\ \A i \in 1..Len(b) : (a \o b)[Len(a) + i] = b[i]
OBVIOUS

(* The writes of a request, and those of a list and its request: what they *)
(* hold, and that the copy of the PDO is the last.                         *)
LEMMA RdoWritesFacts ==
    ASSUME NEW r \in [pos : Nat, copy_of_pdo : Nat]
    PROVE  /\ RdoWrites(r) \in Seq(Cells \X Nat)
           /\ Len(RdoWrites(r)) = 2
           /\ RdoWrites(r)[1] = <<RdoCell, r.pos>>
           /\ RdoWrites(r)[2] = <<CopyCell, r.copy_of_pdo>>
BY CellFacts DEF RdoWrites

LEMMA ListWritesFacts ==
    ASSUME NEW l \in Lists
    PROVE  /\ ListWrites(l) \in Seq(Cells \X Nat)
           /\ Len(ListWrites(l)) = Len(l) + 1
           /\ ListWrites(l)[1] = <<NumCell, Len(l)>>
           /\ \A i \in 1..Len(l) : ListWrites(l)[i + 1] = <<PdoCell(i), l[i]>>
<1> DEFINE head == << <<NumCell, Len(l)>> >>
           rest == [ i \in 1..Len(l) |-> <<PdoCell(i), l[i]>> ]
<1>1. Len(l) \in Nat /\ Len(l) \in 1..MaxPdos
    BY ListFacts DEF MaxPdos
<1>2. NumCell \in Cells /\ head \in Seq(Cells \X Nat) /\ Len(head) = 1 /\ head[1] = <<NumCell, Len(l)>>
    BY CellFacts, <1>1
<1>3. \A k \in 1..Len(l) : PdoCell(k) \in Cells /\ l[k] \in Nat
    <2>1. \A k \in 1..Len(l) : k \in 1..MaxPdos
        BY <1>1, UpTo
    <2> QED
        BY <2>1, CellFacts, ListFacts
<1>4. rest \in [1..Len(l) -> Cells \X Nat]
    BY <1>3
<1>5. rest \in Seq(Cells \X Nat) /\ Len(rest) = Len(l)
    BY <1>1, <1>4
<1>6. \A i \in 1..Len(l) : rest[i] = <<PdoCell(i), l[i]>>
    OBVIOUS
<1>7. ListWrites(l) = head \o rest
    BY DEF ListWrites
<1> HIDE DEF head, rest
<1>8. /\ head \o rest \in Seq(Cells \X Nat) /\ Len(head \o rest) = Len(head) + Len(rest)
      /\ \A i \in 1..Len(head) : (head \o rest)[i] = head[i]
      /\ \A i \in 1..Len(rest) : (head \o rest)[Len(head) + i] = rest[i]
    <2>1. head \in Seq(Cells \X Nat) /\ rest \in Seq(Cells \X Nat)
        BY <1>2, <1>5
    <2> QED
        BY <2>1, ConcatFacts
<1>9. \A i \in 1..Len(l) : (head \o rest)[1 + i] = rest[i] /\ 1 + i = i + 1
    BY <1>1, <1>2, <1>5, <1>8
<1> QED
    BY <1>1, <1>2, <1>5, <1>6, <1>7, <1>8, <1>9

LEMMA BothWritesFacts ==
    ASSUME NEW l \in Lists, NEW r \in [pos : Nat, copy_of_pdo : Nat]
    PROVE  LET w == ListWrites(l) \o RdoWrites(r)
           IN  /\ w \in Seq(Cells \X Nat)
               /\ Len(w) = Len(l) + 3
               /\ w[1] = <<NumCell, Len(l)>>
               /\ \A i \in 1..Len(l) : w[i + 1] = <<PdoCell(i), l[i]>>
               /\ w[Len(l) + 2] = <<RdoCell, r.pos>>
               /\ w[Len(l) + 3] = <<CopyCell, r.copy_of_pdo>>
<1> DEFINE first == ListWrites(l)
           second == RdoWrites(r)
<1>1. Len(l) \in Nat
    BY ListFacts
<1>2. /\ first \in Seq(Cells \X Nat) /\ Len(first) = Len(l) + 1
      /\ first[1] = <<NumCell, Len(l)>>
      /\ \A i \in 1..Len(l) : first[i + 1] = <<PdoCell(i), l[i]>>
    BY ListWritesFacts
<1>3. /\ second \in Seq(Cells \X Nat) /\ Len(second) = 2
      /\ second[1] = <<RdoCell, r.pos>> /\ second[2] = <<CopyCell, r.copy_of_pdo>>
    BY RdoWritesFacts
<1> HIDE DEF first, second
<1>4. /\ first \o second \in Seq(Cells \X Nat)
      /\ Len(first \o second) = Len(l) + 3
      /\ \A i \in 1..(Len(l) + 1) : (first \o second)[i] = first[i]
      /\ \A i \in 1..2 : (first \o second)[(Len(l) + 1) + i] = second[i]
    <2>1. first \in Seq(Cells \X Nat) /\ second \in Seq(Cells \X Nat)
        BY <1>2, <1>3
    <2>2. /\ first \o second \in Seq(Cells \X Nat)
          /\ Len(first \o second) = Len(first) + Len(second)
          /\ \A i \in 1..Len(first) : (first \o second)[i] = first[i]
          /\ \A i \in 1..Len(second) : (first \o second)[Len(first) + i] = second[i]
        BY <2>1, ConcatFacts
    <2>3. Len(first) = Len(l) + 1 /\ Len(second) = 2 /\ Len(first) + 2 = Len(l) + 3
        BY <1>1, <1>2, <1>3
    <2> QED
        BY <2>2, <2>3
<1>5. /\ 1 \in 1..(Len(l) + 1)
      /\ \A i \in 1..Len(l) : i + 1 \in 1..(Len(l) + 1)
      /\ (Len(l) + 1) + 1 = Len(l) + 2 /\ (Len(l) + 1) + 2 = Len(l) + 3
    BY <1>1
<1>6. /\ (first \o second)[1] = <<NumCell, Len(l)>>
      /\ \A i \in 1..Len(l) : (first \o second)[i + 1] = <<PdoCell(i), l[i]>>
    BY <1>2, <1>4, <1>5
<1>7. /\ (first \o second)[Len(l) + 2] = <<RdoCell, r.pos>>
      /\ (first \o second)[Len(l) + 3] = <<CopyCell, r.copy_of_pdo>>
    <2>1. 1 \in 1..2 /\ 2 \in 1..2
        OBVIOUS
    <2>2. /\ (first \o second)[(Len(l) + 1) + 1] = second[1]
          /\ (first \o second)[(Len(l) + 1) + 2] = second[2]
        BY <1>4, <2>1
    <2> QED
        BY <1>3, <1>5, <2>2
<1> QED
    BY <1>4, <1>6, <1>7 DEF first, second

-----------------------------------------------------------------------------
LEMMA ValueFacts ==
    /\ \A s \in Plain, v \in Nat : v \in Commanded[s] => v \in 0..255
    /\ Plain \subseteq Names /\ VbusEn \in Names
    /\ \A byte \in FirstBytes : byte \in Nat
<1>1. \A s \in Plain : Commanded[s] \subseteq 0..255
    BY ValueAssumption DEF ValueAssumption
<1>2. \A byte \in FirstBytes : byte \in Nat
    BY ValueAssumption DEF ValueAssumption
<1> QED
    BY <1>1, <1>2 DEF Names

(* A setting's write is one of the writes TypeOK allows.                   *)
LEMMA PutType ==
    ASSUME TypeOK, NEW s \in Names, NEW v \in Nat, Put(s, v)
    PROVE  /\ ram' \in [Names -> Nat] /\ todo' \in Seq(Cells \X Nat)
           /\ kept' \in [Names -> SUBSET Nat]
<1>1. s \in Cells /\ fram[s] \in Nat
    BY CellFacts DEF TypeOK
<1>2. << <<s, v>> >> \in Seq(Cells \X Nat)
    BY <1>1
<1>3. [kept EXCEPT ![s] = {fram[s], v}] \in [Names -> SUBSET Nat]
    BY <1>1 DEF TypeOK
<1> QED
    BY <1>2, <1>3 DEF Put, TypeOK

LEMMA InitType == Init => TypeOK
<1> SUFFICES ASSUME Init PROVE TypeOK
    OBVIOUS
<1>1. PICK byte \in FirstBytes : fram = [c \in Cells |-> byte]
    BY DEF Init
<1>2. fram \in [Cells -> Nat]
    BY <1>1, ValueFacts
<1>3. kept \in [Names -> SUBSET Nat]
    <2>1. \A s \in Names : fram[s] \in Nat
        BY <1>2, CellFacts
    <2> QED
        BY <2>1 DEF Init
<1>4. ram \in [Names -> Nat]
    BY DEF Init, Defaults, REPLY_PRIORITY, EPR_MODE
<1>5. rdo \in [pos : Nat, copy_of_pdo : Nat]
    BY DEF Init, NoRequest, Request
<1>6. todo \in Seq(Cells \X Nat) /\ backup \in Nat /\ point \in Nat /\ fram_capacity \in Nat
    BY DEF Init
<1>7. /\ gpio \in BOOLEAN /\ switch \in SUBSET BOOLEAN
      /\ held \in BOOLEAN /\ checked \in BOOLEAN /\ packed \in BOOLEAN /\ stray \in BOOLEAN
    BY DEF Init
<1> QED
    BY <1>2, <1>3, <1>4, <1>5, <1>6, <1>7 DEF Init, TypeOK

LEMMA TypeStep == TypeOK /\ [Next]_vars => TypeOK'
<1> SUFFICES ASSUME TypeOK, [Next]_vars PROVE TypeOK'
    OBVIOUS
<1> USE DEF board, start, engine, ghosts, marks
<1>r. ASSUME NEW l \in Lists, NEW p \in 1..Len(l)
      PROVE  Request(p - 1, l[p]) \in [pos : Nat, copy_of_pdo : Nat]
    <2>1. Len(l) \in Nat /\ l[p] \in Nat
        BY <1>r, ListFacts, UpTo
    <2>2. p - 1 \in Nat
        BY <1>r, <2>1
    <2> QED
        BY <2>1, <2>2 DEF Request
<1>e. \A l \in Lists : EprAfter(l) \in {"EPR_UNSUPPORTED", "EPR_NOT_READY", "EPR_READY", "EPR_ON"}
    BY DEF EprAfter, TypeOK
<1>f. \A c \in Cells, v \in Nat : [fram EXCEPT ![c] = v] \in [Cells -> Nat]
    BY DEF TypeOK
<1>1. CASE ProbeMark
    <2>1. [fram EXCEPT ![0] = 170] \in [Cells -> Nat] /\ fram[0] \in Nat
        BY CellFacts DEF TypeOK
    <2>2. /\ fram' \in [Cells -> Nat] /\ backup' \in Nat /\ point' \in Nat
          /\ pc' \in {"points", "init"}
        <3>1. CASE chip = 0
            BY <1>1, <3>1 DEF ProbeMark, TypeOK
        <3>2. CASE chip # 0
            BY <1>1, <2>1, <3>2 DEF ProbeMark, Marked
        <3> QED
            BY <3>1, <3>2
    <2> QED
        BY <1>1, <2>2 DEF ProbeMark, TypeOK
<1>2. CASE ProbePoint
    <2>1. [fram EXCEPT ![Cell(point)] = 85] \in [Cells -> Nat]
        BY DEF TypeOK
    <2> QED
        BY <1>2, <2>1 DEF ProbePoint, TypeOK
<1>3. CASE ProbeRestore
    <2>1. [fram EXCEPT ![0] = backup] \in [Cells -> Nat]
        BY DEF TypeOK
    <2> QED
        BY <1>3, <2>1 DEF ProbeRestore, TypeOK
<1>4. CASE StatusInit
    <2>1. ram' \in [Names -> Nat]
        BY <1>4, CellFacts DEF StatusInit, Loaded, TypeOK
    <2>2. gpio' \in BOOLEAN
        BY <1>4 DEF StatusInit, TypeOK
    <2>3. kept' \in [Names -> SUBSET Nat]
        BY <1>4, <2>1 DEF StatusInit
    <2>4. switch' \in SUBSET BOOLEAN
        BY <1>4, <2>2 DEF StatusInit
    <2> QED
        BY <1>4, <2>1, <2>2, <2>3, <2>4 DEF StatusInit, TypeOK
<1>5. ASSUME NEW s \in Plain, NEW v \in Commanded[s], SetSetting(s, v) PROVE TypeOK'
    <2>1. s \in Names /\ v \in Nat
        <3>1. Commanded[s] \subseteq 0..255
            BY ValueAssumption DEF ValueAssumption
        <3> QED
            BY <3>1 DEF Names
    <2>2. Put(s, v)
        BY <1>5 DEF SetSetting
    <2> QED
        BY <1>5, <2>1, <2>2, PutType DEF SetSetting, TypeOK
<1>6. ASSUME NEW status \in {VBUS_ALWAYS_OFF, VBUS_ALWAYS_ON, VBUS_HOLD}, SetVbusEn(status)
      PROVE  TypeOK'
    <2>1. \E v \in Nat : Put(VbusEn, v)
        BY <1>6 DEF SetVbusEn, VBUS_ALWAYS_OFF, VBUS_ALWAYS_ON, VBUS_HOLD, VBUS_HOLD_ON, VBUS_HOLD_OFF
    <2> QED
        BY <1>6, <2>1, PutType, ValueFacts DEF SetVbusEn, TypeOK
<1>7. ASSUME NEW on \in BOOLEAN, Switch(on) PROVE TypeOK'
    <2>1. CASE Holds(on)
        <3>1. \E v \in Nat : Put(VbusEn, v)
            BY <1>7, <2>1 DEF Switch, VBUS_HOLD_ON, VBUS_HOLD_OFF
        <3>2. gpio' \in BOOLEAN /\ switch' \in SUBSET BOOLEAN
            BY <1>7, <2>1 DEF Switch, TypeOK
        <3> QED
            BY <1>7, <3>1, <3>2, PutType, ValueFacts DEF Switch, TypeOK
    <2>2. CASE ~Holds(on)
        <3>2. gpio' \in BOOLEAN /\ switch' \in SUBSET BOOLEAN
            BY <1>7, <2>2 DEF Switch, TypeOK
        <3> QED
            BY <1>7, <2>2, <3>2 DEF Switch, TypeOK
    <2> QED
        BY <2>1, <2>2
<1>8. ASSUME NEW l \in Lists, ListComes(l) PROVE TypeOK'
    <2>0. /\ pdos' = l /\ epr_status' = EprAfter(l)
          /\ UNCHANGED <<board, start, ram, gpio, ghosts, stray>>
        BY <1>8 DEF ListComes
    <2>1. CASE AutoReply(l) /\ Restore(l)
        <3>1. rdo' \in [pos : Nat, copy_of_pdo : Nat]
            BY <2>1, CellFacts DEF Restore, Request, TypeOK
        <3>2. todo' \in Seq(Cells \X Nat)
            BY <2>1, <3>1, RdoWritesFacts DEF Restore, Stored
        <3>3. held' \in BOOLEAN /\ checked' \in BOOLEAN /\ packed' \in BOOLEAN
            BY <2>1 DEF Restore
        <3> QED
            BY <2>0, <3>1, <3>2, <3>3, <1>e DEF TypeOK
    <2>2. CASE AutoReply(l) /\ Ask(l)
        <3>1. rdo' \in [pos : Nat, copy_of_pdo : Nat]
            BY <2>2, ListFacts DEF Ask, Request
        <3>2. todo' \in Seq(Cells \X Nat)
            BY <2>2, <3>1, RdoWritesFacts, BothWritesFacts DEF Ask, Stored
        <3>3. held' \in BOOLEAN /\ checked' \in BOOLEAN /\ packed' \in BOOLEAN
            BY <2>2 DEF Ask, Compared
        <3> QED
            BY <2>0, <3>1, <3>2, <3>3, <1>e DEF TypeOK
    <2>3. CASE HostAnswers
        <3>1. rdo' \in [pos : Nat, copy_of_pdo : Nat]
            BY <2>3, RequestFacts DEF HostAnswers, Forward, TypeOK
        <3>2. held' \in BOOLEAN /\ checked' \in BOOLEAN /\ packed' \in BOOLEAN
            BY <2>3 DEF HostAnswers, Forward, TypeOK
        <3> QED
            BY <2>0, <2>3, <3>1, <3>2, <1>e DEF HostAnswers, TypeOK
    <2> QED
        BY <1>8, <2>1, <2>2, <2>3 DEF ListComes, AutoReply
<1>9. CASE PsRdy
    BY <1>9 DEF PsRdy, TypeOK
<1>10. ASSUME NEW p \in 1..Len(pdos), Select(p) PROVE TypeOK'
    <2>1. rdo' \in [pos : Nat, copy_of_pdo : Nat]
        BY <1>10, RequestFacts DEF Select, TypeOK
    <2>2. todo' \in Seq(Cells \X Nat)
        BY <1>10, <2>1, RdoWritesFacts DEF Select, Stored
    <2>3. held' \in BOOLEAN /\ packed' \in BOOLEAN /\ stray' \in BOOLEAN
        BY <1>10 DEF Select
    <2> QED
        BY <1>10, <2>1, <2>2, <2>3 DEF Select, TypeOK
<1>11. CASE Resend
    <2>1. todo' \in Seq(Cells \X Nat)
        BY <1>11, RdoWritesFacts DEF Resend, Stored, TypeOK
    <2>2. stray' \in BOOLEAN
        BY <1>11 DEF Resend
    <2> QED
        BY <1>11, <2>1, <2>2 DEF Resend, TypeOK
<1>16. CASE HostRequest
    BY <1>16, RequestFacts DEF HostRequest, Forward, TypeOK
<1>12. CASE ConnectChange
    BY <1>12 DEF ConnectChange, NoRequest, Request, TypeOK
<1>13. CASE Store
    <2>1. todo[1] \in Cells \X Nat /\ Tail(todo) \in Seq(Cells \X Nat)
        BY <1>13 DEF Store, TypeOK
    <2>2. fram' \in [Cells -> Nat]
        BY <1>13, <2>1, <1>f DEF Store
    <2>3. kept' \in [Names -> SUBSET Nat]
        BY <1>13, <2>1 DEF Store, TypeOK
    <2>4. switch' \in SUBSET BOOLEAN
        BY <1>13 DEF Store, TypeOK
    <2>5. stray' \in BOOLEAN
        BY <1>13 DEF Store, TypeOK
    <2> QED
        BY <1>13, <2>1, <2>2, <2>3, <2>4, <2>5 DEF Store, TypeOK
<1>14. CASE PowerFail
    <2>1. ram' \in [Names -> Nat]
        BY <1>14 DEF PowerFail, Defaults, REPLY_PRIORITY, EPR_MODE
    <2>2. stray' \in BOOLEAN
        BY <1>14 DEF PowerFail
    <2>3. rdo' \in [pos : Nat, copy_of_pdo : Nat]
        BY <1>14 DEF PowerFail, NoRequest, Request
    <2>4. todo' \in Seq(Cells \X Nat)
        BY <1>14 DEF PowerFail
    <2> QED
        BY <1>14, <2>1, <2>2, <2>3, <2>4 DEF PowerFail, TypeOK
<1>15. CASE UNCHANGED vars
    BY <1>15 DEF vars, TypeOK
<1> QED
    BY <1>1, <1>2, <1>3, <1>4, <1>5, <1>6, <1>7, <1>8, <1>9, <1>10, <1>11,
       <1>12, <1>13, <1>14, <1>15, <1>16 DEF Next

(* Type correctness, for every chip, list and command.                     *)
THEOREM TypeCorrect == Spec => []TypeOK
BY InitType, TypeStep, PTL DEF Spec

-----------------------------------------------------------------------------
(* Byte 0 keeps its mark until the probe reaches the size of the chip,     *)
(* where the address wraps.                                                *)
ProbeInv ==
    /\ pc = "points" => /\ chip # 0 /\ point \in {2048, 4096, 8192} /\ point <= chip
                        /\ fram[0] = 170
    /\ pc = "restore" => point = chip
    /\ pc = "mark" => fram_capacity = 0
    /\ CapacityRight

LEMMA Wraps ==
    ASSUME TypeOK, chip # 0, point \in {2048, 4096, 8192}, point <= chip
    PROVE  /\ point = chip => Cell(point) = 0
           /\ point # chip => Cell(point) # 0 /\ 2 * point \in {4096, 8192} /\ 2 * point <= chip
<1>1. chip \in {2048, 4096, 8192}
    BY ChipAssumption DEF ChipAssumption, TypeOK
<1>2. /\ 2048 % 8192 = 2048 /\ 4096 % 8192 = 4096 /\ 8192 % 8192 = 0
      /\ 2048 % 2048 = 0 /\ 4096 % 4096 = 0
      /\ 0 % 2048 = 0 /\ 0 % 4096 = 0 /\ 0 % 8192 = 0
      /\ 2048 % 4096 = 2048
    OBVIOUS
<1>3. CASE point = 2048
    BY <1>1, <1>2, <1>3 DEF Cell
<1>4. CASE point = 4096
    BY <1>1, <1>2, <1>4 DEF Cell
<1>5. CASE point = 8192
    BY <1>1, <1>2, <1>5 DEF Cell
<1> QED
    BY <1>3, <1>4, <1>5

LEMMA ProbeStep == TypeOK /\ ProbeInv /\ [Next]_vars => ProbeInv'
<1> SUFFICES ASSUME TypeOK, ProbeInv, [Next]_vars PROVE ProbeInv'
    OBVIOUS
<1> USE DEF board, start, engine, ghosts, marks
<1>1. CASE ProbeMark
    <2>1. CASE chip = 0
        BY <1>1, <2>1 DEF ProbeMark, ProbeInv, CapacityRight
    <2>2. CASE chip # 0
        <3>1. /\ pc' = "points" /\ point' = 2048 /\ chip' = chip
              /\ fram' = [fram EXCEPT ![0] = 170]
            BY <1>1, <2>2 DEF ProbeMark, Marked
        <3>2. fram'[0] = 170
            BY <3>1, CellFacts DEF TypeOK
        <3>3. 2048 <= chip
            BY <2>2, ChipAssumption DEF ChipAssumption, TypeOK
        <3> QED
            BY <2>2, <3>1, <3>2, <3>3 DEF ProbeInv, CapacityRight
    <2> QED
        BY <2>1, <2>2
<1>2. CASE ProbePoint
    <2>1. /\ chip # 0 /\ point \in {2048, 4096, 8192} /\ point <= chip /\ fram[0] = 170
          /\ fram' = [fram EXCEPT ![Cell(point)] = 85] /\ chip' = chip
        BY <1>2 DEF ProbePoint, ProbeInv
    <2>2. CASE point = chip
        <3>1. fram'[0] = 85
            BY <2>1, <2>2, Wraps, CellFacts DEF TypeOK
        <3> QED
            BY <1>2, <2>1, <2>2, <3>1 DEF ProbePoint, ProbeInv, CapacityRight
    <2>3. CASE point # chip
        <3>1. fram'[0] = 170
            BY <2>1, <2>3, Wraps, CellFacts DEF TypeOK
        <3> QED
            BY <1>2, <2>1, <2>3, <3>1, Wraps DEF ProbePoint, ProbeInv, CapacityRight
    <2> QED
        BY <2>2, <2>3
<1>3. CASE ProbeRestore
    BY <1>3 DEF ProbeRestore, ProbeInv, CapacityRight
<1>4. CASE StatusInit
    BY <1>4 DEF StatusInit, ProbeInv, CapacityRight
<1>5. CASE UNCHANGED <<start, board>>
    BY <1>5 DEF ProbeInv, CapacityRight
<1>6. CASE Store
    BY <1>6 DEF Store, ProbeInv, CapacityRight
<1>7. CASE PowerFail
    BY <1>7 DEF PowerFail, ProbeInv, CapacityRight
<1>8. [Next]_vars => \/ ProbeMark \/ ProbePoint \/ ProbeRestore \/ StatusInit
                     \/ UNCHANGED <<start, board>> \/ Store \/ PowerFail
    BY DEF Next, vars, SetSetting, SetVbusEn, Switch, ListComes, PsRdy, Select, Resend,
           HostRequest, Forward, ConnectChange
<1> QED
    BY <1>1, <1>2, <1>3, <1>4, <1>5, <1>6, <1>7, <1>8

(* Every start finds the capacity of its chip, whatever earlier starts cut *)
(* short left in the cells the probe writes.                               *)
THEOREM CapacityCorrect == Spec => []CapacityRight
<1>1. Init => ProbeInv
    BY DEF Init, ProbeInv, CapacityRight
<1>2. ProbeInv => CapacityRight
    BY DEF ProbeInv
<1> QED
    BY <1>1, <1>2, ProbeStep, TypeCorrect, PTL DEF Spec

-----------------------------------------------------------------------------
(* A command's write is alone in todo, all other writes are to the cells   *)
(* of the hold; and the VBUS switch stands where a hold mode says.         *)
Pending(s) == todo = << <<s, ram[s]>> >>

PendingInv ==
    /\ todo # <<>> => pc = "run" /\ chip # 0
    /\ \/ \E s \in Names : Pending(s)
       \/ \A i \in 1..Len(todo) : todo[i][1] \in HoldCells

SettingInv ==
    /\ pc = "run" /\ chip # 0 => \A s \in Names : ram[s] = fram[s] \/ Pending(s)
    /\ chip # 0 => \A s \in Names : fram[s] \in kept[s]
    /\ \A s \in Names : Pending(s) => ram[s] \in kept[s]

SwitchInv ==
    chip # 0 =>
    /\ pc = "run" /\ ram[VbusEn] = VBUS_HOLD_ON => gpio = TRUE
    /\ pc = "run" /\ ram[VbusEn] = VBUS_HOLD_OFF => gpio = FALSE
    /\ fram[VbusEn] = VBUS_HOLD_ON => TRUE \in switch
    /\ fram[VbusEn] = VBUS_HOLD_OFF => FALSE \in switch

(* The writes of a list or request are all to the cells of the hold.       *)
LEMMA HoldWrites ==
    ASSUME NEW r \in [pos : Nat, copy_of_pdo : Nat], NEW l \in Lists
    PROVE  /\ \A i \in 1..Len(RdoWrites(r)) : RdoWrites(r)[i][1] \in HoldCells
           /\ LET w == ListWrites(l) \o RdoWrites(r)
              IN  \A i \in 1..Len(w) : w[i][1] \in HoldCells
<1>1. \A i \in 1..2 : RdoWrites(r)[i][1] \in HoldCells
    BY RdoWritesFacts, CellFacts
<1> DEFINE w == ListWrites(l) \o RdoWrites(r)
<1>2. /\ Len(w) = Len(l) + 3
      /\ w[1] = <<NumCell, Len(l)>>
      /\ \A i \in 1..Len(l) : w[i + 1] = <<PdoCell(i), l[i]>>
      /\ w[Len(l) + 2] = <<RdoCell, r.pos>>
      /\ w[Len(l) + 3] = <<CopyCell, r.copy_of_pdo>>
    BY BothWritesFacts
<1> HIDE DEF w
<1>3. \A i \in 1..Len(l) : w[i + 1][1] \in HoldCells
    BY <1>2, ListFacts, UpTo, CellFacts
<1>4. w[1][1] \in HoldCells /\ w[Len(l) + 2][1] \in HoldCells /\ w[Len(l) + 3][1] \in HoldCells
    BY <1>2, CellFacts
<1>5. Len(l) \in Nat
    BY ListFacts, UpTo
<1>6. ASSUME NEW i \in 1..(Len(l) + 3) PROVE w[i][1] \in HoldCells
    <2>1. CASE i \in 2..(Len(l) + 1)
        <3>1. i - 1 \in 1..Len(l) /\ (i - 1) + 1 = i
            BY <1>5, <2>1
        <3> QED
            BY <1>3, <3>1
    <2>2. CASE i = 1 \/ i = Len(l) + 2 \/ i = Len(l) + 3
        BY <1>4, <2>2
    <2> QED
        BY <1>5, <1>6, <2>1, <2>2
<1> QED
    BY <1>1, <1>2, <1>6, RdoWritesFacts DEF w

(* What the engine does to lists and requests leaves the settings alone.   *)
EngineStep ==
    /\ UNCHANGED <<chip, fram, pc, fram_capacity, ram, gpio, kept, switch>>
    /\ \/ UNCHANGED todo
       \/ /\ todo = <<>> /\ pc = "run"
          /\ \/ todo' = <<>>
             \/ chip # 0 /\ \A i \in 1..Len(todo') : todo'[i][1] \in HoldCells

LEMMA EngineSteps ==
    ASSUME TypeOK, ProbeInv,
           \/ \E l \in Lists : ListComes(l)
           \/ PsRdy
           \/ \E p \in 1..Len(pdos) : Select(p)
           \/ Resend
           \/ HostRequest
           \/ ConnectChange
           \/ UNCHANGED vars
    PROVE  EngineStep
<1> USE DEF board, start, engine, ghosts, marks
<1>1. ASSUME NEW l \in Lists, ListComes(l) PROVE EngineStep
    <2>0. /\ UNCHANGED <<chip, fram, pc, fram_capacity, ram, gpio, kept, switch>>
          /\ todo = <<>> /\ pc = "run"
        BY <1>1 DEF ListComes, Idle
    <2>1. CASE Restore(l)
        <3>1. rdo' \in [pos : Nat, copy_of_pdo : Nat]
            BY <2>1, CellFacts DEF Restore, Request, TypeOK
        <3> QED
            BY <2>0, <2>1, <3>1, HoldWrites DEF Restore, Stored, EngineStep
    <2>2. CASE Ask(l)
        <3>1. rdo' \in [pos : Nat, copy_of_pdo : Nat]
            BY <2>2, ListFacts DEF Ask, Request
        <3> QED
            BY <2>0, <2>2, <3>1, HoldWrites DEF Ask, Stored, EngineStep
    <2>3. CASE HostAnswers
        BY <2>0, <2>3 DEF HostAnswers, EngineStep
    <2> QED
        BY <1>1, <2>1, <2>2, <2>3 DEF ListComes, AutoReply
<1>2. ASSUME NEW p \in 1..Len(pdos), Select(p) PROVE EngineStep
    <2>1. rdo' \in [pos : Nat, copy_of_pdo : Nat] /\ pdos \in Lists
        BY <1>2, RequestFacts DEF Select, TypeOK
    <2>2. todo' = <<>> \/ (chip # 0 /\ \A i \in 1..Len(todo') : todo'[i][1] \in HoldCells)
        BY <1>2, <2>1, HoldWrites DEF Select, Stored
    <2> QED
        BY <1>2, <2>2 DEF Select, Idle, EngineStep
<1>3. CASE Resend
    <2>1. rdo \in [pos : Nat, copy_of_pdo : Nat]
        BY DEF TypeOK
    <2>2. todo' = <<>> \/ (chip # 0 /\ \A i \in 1..Len(todo') : todo'[i][1] \in HoldCells)
        BY <1>3, <2>1, RdoWritesFacts, CellFacts DEF Resend, Stored
    <2> QED
        BY <1>3, <2>2 DEF Resend, Idle, EngineStep
<1> QED
    BY <1>1, <1>2, <1>3 DEF PsRdy, HostRequest, ConnectChange, vars, EngineStep

LEMMA Steps ==
    ASSUME TypeOK, ProbeInv, [Next]_vars
    PROVE  \/ ProbeMark \/ ProbePoint \/ ProbeRestore \/ StatusInit
           \/ \E s \in Plain : \E v \in Nat : SetSetting(s, v)
           \/ \E status \in {VBUS_ALWAYS_OFF, VBUS_ALWAYS_ON, VBUS_HOLD} : SetVbusEn(status)
           \/ \E on \in BOOLEAN : Switch(on)
           \/ Store \/ PowerFail \/ EngineStep
<1>1. \A s \in Plain : Commanded[s] \subseteq 0..255
    BY ValueAssumption DEF ValueAssumption
<1>2. \A s \in Plain : \A v \in Commanded[s] : v \in Nat
    BY <1>1
<1> QED
    BY <1>2, EngineSteps DEF Next

(* The probe writes no setting and no list or request.                     *)
LEMMA ProbeApart ==
    ASSUME TypeOK, ProbeInv, ProbeMark \/ ProbePoint \/ ProbeRestore,
           NEW s \in Names \union HoldCells
    PROVE  fram'[s] = fram[s] /\ chip' = chip
<1>1. s \notin {0, 2048, 4096} /\ s \in Cells
    BY CellFacts
<1>2. CASE ProbeMark
    <2>1. fram' = fram \/ fram' = [fram EXCEPT ![0] = 170]
        BY <1>2 DEF ProbeMark, Marked
    <2> QED
        BY <1>1, <1>2, <2>1 DEF ProbeMark, TypeOK
<1>3. CASE ProbePoint
    <2>1. chip # 0 /\ point \in {2048, 4096, 8192} /\ point <= chip
        BY <1>3 DEF ProbePoint, ProbeInv
    <2>2. Cell(point) \in {0, 2048, 4096}
        <3>1. chip \in {2048, 4096, 8192}
            BY <2>1, ChipAssumption DEF ChipAssumption, TypeOK
        <3>2. 2048 % 8192 = 2048 /\ 4096 % 8192 = 4096 /\ 2048 % 4096 = 2048
            OBVIOUS
        <3>3. point # chip => \/ point = 2048 /\ chip \in {4096, 8192}
                              \/ point = 4096 /\ chip = 8192
            BY <2>1, <3>1
        <3>4. point # chip => Cell(point) = point
            BY <3>2, <3>3 DEF Cell
        <3> QED
            BY <2>1, <3>1, <3>3, <3>4, Wraps
    <2>3. fram' = [fram EXCEPT ![Cell(point)] = 85] /\ chip' = chip
        BY <1>3 DEF ProbePoint
    <2> QED
        BY <1>1, <2>2, <2>3 DEF TypeOK
<1>4. CASE ProbeRestore
    BY <1>1, <1>4 DEF ProbeRestore, TypeOK
<1> QED
    BY <1>2, <1>3, <1>4

(* A setting's command, with no write pending before it.                   *)
LEMMA PutStep ==
    ASSUME TypeOK, ProbeInv, PendingInv, SettingInv, Idle, UNCHANGED <<chip, fram, pc>>,
           NEW s \in Names, NEW v \in Nat, Put(s, v)
    PROVE  /\ PendingInv' /\ SettingInv'
           /\ ram' = [ram EXCEPT ![s] = v]
<1>1. fram_capacity = chip /\ pc = "run" /\ todo = <<>>
    BY DEF Idle, ProbeInv, CapacityRight
<1>2. CASE chip = 0
    <2>1. todo' = <<>>
        BY <1>1, <1>2 DEF Put
    <2>2. \A t \in Names : ~Pending(t)'
        BY <2>1 DEF Pending
    <2> QED
        BY <1>1, <1>2, <2>1, <2>2 DEF PendingInv, SettingInv, Put
<1>3. CASE chip # 0
    <2>1. fram_capacity > 0
        BY <1>1, <1>3 DEF TypeOK
    <2>2. /\ todo' = << <<s, v>> >> /\ kept' = [kept EXCEPT ![s] = {fram[s], v}]
          /\ ram' = [ram EXCEPT ![s] = v]
        BY <2>1 DEF Put
    <2>3. ram'[s] = v /\ Pending(s)'
        BY <2>2 DEF Pending, TypeOK
    <2>4. \A t \in Names \ {s} : ram'[t] = ram[t] /\ kept'[t] = kept[t] /\ ~Pending(t)'
        BY <2>2 DEF Pending, TypeOK
    <2>5. kept'[s] = {fram[s], v}
        BY <2>2 DEF TypeOK
    <2>6. \A t \in Names : ram[t] = fram[t]
        BY <1>1, <1>3 DEF SettingInv, Pending
    <2>7. todo' # <<>>
        BY <2>2
    <2>8. PendingInv'
        BY <1>1, <1>3, <2>3 DEF PendingInv
    <2>9. SettingInv'
        <3>1. ASSUME NEW t \in Names PROVE ram'[t] = fram'[t] \/ Pending(t)'
            BY <2>3, <2>4, <2>6
        <3>2. ASSUME NEW t \in Names PROVE fram'[t] \in kept'[t]
            BY <1>3, <2>4, <2>5 DEF SettingInv
        <3>3. ASSUME NEW t \in Names, Pending(t)' PROVE ram'[t] \in kept'[t]
            BY <2>3, <2>4, <2>5, <3>3
        <3> QED
            BY <3>1, <3>2, <3>3 DEF SettingInv
    <2> QED
        BY <2>2, <2>8, <2>9
<1> QED
    BY <1>2, <1>3 DEF Put

(* One write reaches the FRAM.                                             *)
LEMMA StoreStep ==
    ASSUME TypeOK, ProbeInv, PendingInv, SettingInv, Store
    PROVE  PendingInv' /\ SettingInv'
<1> USE DEF board, start
<1>1. /\ pc = "run" /\ todo # <<>> /\ chip # 0 /\ UNCHANGED <<chip, pc, ram>>
      /\ todo' = Tail(todo)
    BY DEF Store, PendingInv
<1>2. /\ fram' = [fram EXCEPT ![todo[1][1]] = todo[1][2]]
      /\ kept' = [s \in Names |-> IF s = todo[1][1] /\ todo[1][2] \in kept[s]
                                  THEN {todo[1][2]} ELSE kept[s]]
    BY DEF Store
<1>3. ASSUME NEW s \in Names, Pending(s) PROVE PendingInv' /\ SettingInv'
    <2>1. todo[1][1] = s /\ todo[1][2] = ram[s] /\ todo' = <<>>
        BY <1>1, <1>3 DEF Pending
    <2>2. fram'[s] = ram[s] /\ kept'[s] = {ram[s]}
        BY <1>2, <1>3, <2>1, CellFacts DEF TypeOK, SettingInv
    <2>3. \A t \in Names \ {s} : fram'[t] = fram[t] /\ kept'[t] = kept[t] /\ ~Pending(t)
        BY <1>2, <1>3, <2>1, CellFacts DEF Pending, TypeOK
    <2>4. \A t \in Names : ~Pending(t)'
        BY <2>1 DEF Pending
    <2>5. PendingInv'
        BY <2>1 DEF PendingInv
    <2> QED
        BY <1>1, <2>2, <2>3, <2>4, <2>5 DEF SettingInv
<1>4. CASE \A i \in 1..Len(todo) : todo[i][1] \in HoldCells
    <2>1. todo[1][1] \in HoldCells
        BY <1>1, <1>4 DEF TypeOK
    <2>2. \A t \in Names : fram'[t] = fram[t] /\ kept'[t] = kept[t]
        <3>1. \A t \in Names : t # todo[1][1] /\ t \in Cells
            BY <2>1, CellFacts
        <3>2. \A t \in Names : fram'[t] = fram[t]
            BY <1>2, <3>1 DEF TypeOK
        <3>3. \A t \in Names : kept'[t] = kept[t]
            BY <1>2, <3>1 DEF TypeOK
        <3> QED
            BY <3>2, <3>3
    <2>3. \A i \in 1..Len(todo') : todo'[i][1] \in HoldCells
        <3>1. \A i \in 1..Len(todo') : i + 1 \in 1..Len(todo) /\ todo'[i] = todo[i + 1]
            BY <1>1 DEF TypeOK
        <3> QED
            BY <1>4, <3>1
    <2>4. \A t \in Names : ~Pending(t)
        BY <2>1, CellFacts DEF Pending
    <2>5. \A t \in Names : ~Pending(t)'
        <3>1. ASSUME NEW t \in Names, Pending(t)' PROVE FALSE
            <4>1. Len(todo') = 1 /\ todo'[1][1] = t
                BY <3>1 DEF Pending
            <4> QED
                BY <2>3, <3>1, <4>1, CellFacts
        <3> QED
            BY <3>1
    <2>6. PendingInv'
        BY <1>1, <2>3 DEF PendingInv
    <2> QED
        BY <1>1, <2>2, <2>4, <2>5, <2>6 DEF SettingInv
<1> QED
    BY <1>3, <1>4 DEF PendingInv

LEMMA SettingStep ==
    TypeOK /\ ProbeInv /\ PendingInv /\ SettingInv /\ [Next]_vars => PendingInv' /\ SettingInv'
<1> SUFFICES ASSUME TypeOK, ProbeInv, PendingInv, SettingInv, [Next]_vars
             PROVE  PendingInv' /\ SettingInv'
    OBVIOUS
<1> USE DEF board, start, engine, ghosts, marks
<1>1. CASE ProbeMark \/ ProbePoint \/ ProbeRestore
    <2>1. /\ pc # "run" /\ pc' # "run" /\ UNCHANGED <<todo, ram, kept>>
        BY <1>1 DEF ProbeMark, ProbePoint, ProbeRestore
    <2>2. chip' = chip /\ \A s \in Names : fram'[s] = fram[s]
        BY <1>1, ProbeApart DEF ProbeMark, ProbePoint, ProbeRestore
    <2>3. todo = <<>>
        BY <2>1 DEF PendingInv
    <2> QED
        BY <2>1, <2>2, <2>3 DEF PendingInv, SettingInv, Pending
<1>2. CASE StatusInit
    <2>1. todo = <<>> /\ todo' = <<>> /\ pc = "init" /\ UNCHANGED <<chip, fram>>
        BY <1>2 DEF StatusInit, PendingInv
    <2>2. chip # 0 => \A s \in Names : ram'[s] = fram[s]
        BY <1>2, <2>1 DEF StatusInit, Loaded, ProbeInv, CapacityRight, TypeOK
    <2>3. \A s \in Names : ram'[s] \in kept'[s] /\ ~Pending(s)'
        BY <1>2, <2>1 DEF StatusInit, Pending
    <2> QED
        BY <2>1, <2>2, <2>3 DEF PendingInv, SettingInv
<1>3. ASSUME NEW s \in Plain, NEW v \in Nat, SetSetting(s, v)
      PROVE  PendingInv' /\ SettingInv'
    BY <1>3, PutStep DEF SetSetting, Names
<1>4. ASSUME NEW status \in {VBUS_ALWAYS_OFF, VBUS_ALWAYS_ON, VBUS_HOLD}, SetVbusEn(status)
      PROVE  PendingInv' /\ SettingInv'
    <2>1. \E v \in Nat : Put(VbusEn, v)
        BY <1>4 DEF SetVbusEn, VBUS_ALWAYS_OFF, VBUS_ALWAYS_ON, VBUS_HOLD, VBUS_HOLD_ON, VBUS_HOLD_OFF
    <2> QED
        BY <1>4, <2>1, PutStep, ValueFacts DEF SetVbusEn
<1>5. ASSUME NEW on \in BOOLEAN, Switch(on) PROVE PendingInv' /\ SettingInv'
    <2>1. CASE Holds(on)
        <3>1. \E v \in Nat : Put(VbusEn, v)
            BY <1>5, <2>1 DEF Switch, VBUS_HOLD_ON, VBUS_HOLD_OFF
        <3> QED
            BY <1>5, <3>1, PutStep, ValueFacts DEF Switch
    <2>2. CASE ~Holds(on)
        <3>1. UNCHANGED <<ram, todo, kept, chip, fram, pc>>
            BY <1>5, <2>2 DEF Switch
        <3> QED
            BY <3>1 DEF PendingInv, SettingInv, Pending
    <2> QED
        BY <2>1, <2>2
<1>6. CASE Store
    BY <1>6, StoreStep
<1>7. CASE PowerFail
    <2>1. todo' = <<>> /\ pc' = "mark" /\ UNCHANGED <<chip, fram, kept>>
        BY <1>7 DEF PowerFail
    <2>2. \A s \in Names : ~Pending(s)'
        BY <2>1 DEF Pending
    <2> QED
        BY <2>1, <2>2 DEF PendingInv, SettingInv
<1>8. CASE EngineStep
    <2>1. CASE UNCHANGED todo
        BY <1>8, <2>1 DEF EngineStep, PendingInv, SettingInv, Pending
    <2>2. CASE todo = <<>> /\ pc = "run" /\ \/ todo' = <<>>
                                            \/ /\ chip # 0
                                               /\ \A i \in 1..Len(todo') : todo'[i][1] \in HoldCells
        <3>1. \A s \in Names : ~Pending(s)
            BY <2>2 DEF Pending
        <3>2. \A s \in Names : ~Pending(s)'
            <4>1. ASSUME NEW s \in Names, Pending(s)' PROVE FALSE
                <5>1. todo' # <<>> /\ 1 \in 1..Len(todo') /\ todo'[1][1] = s
                    BY <4>1 DEF Pending
                <5> QED
                    BY <2>2, <4>1, <5>1, CellFacts
            <4> QED
                BY <4>1
        <3> QED
            BY <1>8, <2>2, <3>1, <3>2 DEF EngineStep, PendingInv, SettingInv
    <2> QED
        BY <1>8, <2>1, <2>2 DEF EngineStep
<1> QED
    BY <1>1, <1>2, <1>3, <1>4, <1>5, <1>6, <1>7, <1>8, Steps

SettingsInv == TypeOK /\ ProbeInv /\ PendingInv /\ SettingInv

LEMMA SettingsInvariant == Spec => []SettingsInv
<1>1. Init => SettingsInv
    <2> SUFFICES ASSUME Init PROVE SettingsInv
        OBVIOUS
    <2>1. TypeOK
        BY InitType
    <2>2. ProbeInv
        BY DEF Init, ProbeInv, CapacityRight
    <2>3. todo = <<>> /\ pc = "mark" /\ \A s \in Names : kept[s] = {fram[s]}
        BY DEF Init
    <2>4. \A s \in Names : ~Pending(s)
        BY <2>3 DEF Pending
    <2> QED
        BY <2>1, <2>2, <2>3, <2>4 DEF SettingsInv, PendingInv, SettingInv
<1>2. SettingsInv /\ [Next]_vars => SettingsInv'
    BY TypeStep, ProbeStep, SettingStep DEF SettingsInv
<1> QED
    BY <1>1, <1>2, PTL DEF Spec

(* A start reads every setting as it was last commanded, or as it was      *)
(* before the command the power failure cut short.                         *)
THEOREM SettingsKept == Spec => SettingsSurvive
<1>1. ASSUME SettingsInv, [Next]_vars, pc = "init", pc' = "run", chip > 0
      PROVE  \A s \in Names : ram'[s] \in kept[s]
    <2>1. StatusInit
        BY <1>1 DEF SettingsInv, Next, ProbeMark, ProbePoint, ProbeRestore, SetSetting,
             SetVbusEn, Switch, ListComes, PsRdy, Select, Resend, HostRequest, Forward, ConnectChange,
             Store, PowerFail, Idle, vars, start
    <2>2. ram' = [s \in Names |-> fram[s]]
        BY <1>1, <2>1 DEF StatusInit, Loaded, SettingsInv, ProbeInv, CapacityRight
    <2> QED
        BY <1>1, <2>2 DEF SettingsInv, SettingInv
<1>2. SettingsInv /\ [Next]_vars
      => [pc = "init" /\ pc' = "run" /\ chip > 0 => \A s \in Names : ram'[s] \in kept[s]]_vars
    BY <1>1
<1> QED
    BY <1>2, SettingsInvariant, PTL DEF Spec, SettingsSurvive

LEMMA SwitchStep ==
    SettingsInv /\ SwitchInv /\ [Next]_vars => SwitchInv'
<1> SUFFICES ASSUME TypeOK, ProbeInv, PendingInv, SettingInv, SwitchInv, [Next]_vars,
                    chip' # 0
             PROVE  SwitchInv'
    BY DEF SettingsInv, SwitchInv
<1> USE DEF board, start, engine, ghosts, marks, VBUS_HOLD_ON, VBUS_HOLD_OFF
<1>0. chip' = chip /\ chip # 0
    BY DEF Next, ProbeMark, ProbePoint, ProbeRestore, StatusInit, SetSetting,
           SetVbusEn, Switch, ListComes, PsRdy, Select, Resend, HostRequest, Forward, ConnectChange,
           Store, PowerFail, vars
<1>v. VbusEn \in Names /\ VbusEn \notin Plain /\ VbusEn \in Cells
    BY CellFacts DEF Names, Plain, VbusEn, Priority, SinkMode, ReportType, TriggerHold
<1>c. pc = "run" => fram_capacity = chip /\ fram_capacity > 0
    BY <1>0 DEF ProbeInv, CapacityRight, TypeOK
<1>1. CASE ProbeMark \/ ProbePoint \/ ProbeRestore
    <2>1. pc' # "run" /\ UNCHANGED switch
        BY <1>1 DEF ProbeMark, ProbePoint, ProbeRestore
    <2>2. fram'[VbusEn] = fram[VbusEn]
        BY <1>1, <1>v, ProbeApart
    <2> QED
        BY <1>0, <2>1, <2>2 DEF SwitchInv
<1>2. CASE StatusInit
    <2>1. fram' = fram /\ fram_capacity > 0
        BY <1>0, <1>2 DEF StatusInit, ProbeInv, CapacityRight, TypeOK
    <2>2. ram'[VbusEn] = fram[VbusEn]
        BY <1>2, <1>v, <2>1 DEF StatusInit, Loaded
    <2>3. /\ ram'[VbusEn] = VBUS_HOLD_ON => gpio' = TRUE
          /\ ram'[VbusEn] = VBUS_HOLD_OFF => gpio' = FALSE
          /\ switch' = {gpio'}
        BY <1>2 DEF StatusInit, VBUS_ALWAYS_ON, VBUS_ALWAYS_OFF
    <2> QED
        BY <2>1, <2>2, <2>3 DEF SwitchInv
<1>3. ASSUME NEW s \in Plain, NEW v \in Nat, SetSetting(s, v) PROVE SwitchInv'
    <2>1. /\ UNCHANGED <<fram, pc, gpio, switch>> /\ pc = "run"
          /\ ram' = [ram EXCEPT ![s] = v]
        BY <1>3 DEF SetSetting, Put, Idle
    <2>2. ram'[VbusEn] = ram[VbusEn]
        BY <1>v, <2>1 DEF TypeOK
    <2> QED
        BY <1>0, <2>1, <2>2 DEF SwitchInv
<1>4. ASSUME NEW status \in {VBUS_ALWAYS_OFF, VBUS_ALWAYS_ON, VBUS_HOLD}, SetVbusEn(status)
      PROVE  SwitchInv'
    <2>1. /\ UNCHANGED <<fram, pc, gpio, switch>> /\ pc = "run"
        BY <1>4 DEF SetVbusEn, Idle
    <2>2. ram'[VbusEn] = IF status = VBUS_HOLD THEN IF gpio THEN 4 ELSE 3 ELSE status
        BY <1>4, <1>c, <1>v, <2>1 DEF SetVbusEn, Put, TypeOK
    <2>3. /\ ram'[VbusEn] = VBUS_HOLD_ON => gpio = TRUE
          /\ ram'[VbusEn] = VBUS_HOLD_OFF => gpio = FALSE
        BY <2>2 DEF VBUS_ALWAYS_OFF, VBUS_ALWAYS_ON, VBUS_HOLD, TypeOK
    <2> QED
        BY <1>0, <2>1, <2>3 DEF SwitchInv
<1>5. ASSUME NEW on \in BOOLEAN, Switch(on) PROVE SwitchInv'
    <2>0. UNCHANGED <<fram, pc>> /\ pc = "run" /\ todo = <<>> /\ gpio' = on
        BY <1>5 DEF Switch, Idle
    <2>f. ram[VbusEn] = fram[VbusEn]
        BY <1>0, <1>v, <2>0 DEF SettingInv, Pending
    <2>1. CASE Holds(on)
        <3>1. ram'[VbusEn] = IF on THEN VBUS_HOLD_ON ELSE VBUS_HOLD_OFF
            BY <1>5, <1>v, <2>1 DEF Switch, Put, TypeOK
        <3>2. switch' = {gpio, on} /\ ram[VbusEn] = IF on THEN VBUS_HOLD_OFF ELSE VBUS_HOLD_ON
            BY <1>5, <2>1 DEF Switch, Holds
        <3> QED
            BY <1>0, <2>0, <2>f, <3>1, <3>2 DEF SwitchInv
    <2>2. CASE ~Holds(on)
        <3>1. switch' = {on} /\ ram' = ram
            BY <1>5, <2>2 DEF Switch
        <3>2. ram[VbusEn] # IF on THEN VBUS_HOLD_OFF ELSE VBUS_HOLD_ON
            BY <1>c, <2>0, <2>2 DEF Holds
        <3> QED
            BY <2>0, <2>f, <3>1, <3>2 DEF SwitchInv
    <2> QED
        BY <2>1, <2>2
<1>6. CASE Store
    <2>0. pc = "run" /\ todo # <<>> /\ UNCHANGED <<pc, ram, gpio>>
        BY <1>6 DEF Store
    <2>1. /\ fram' = [fram EXCEPT ![todo[1][1]] = todo[1][2]]
          /\ switch' = IF todo[1][1] = VbusEn THEN {gpio} ELSE switch
        BY <1>6 DEF Store
    <2>2. CASE todo[1][1] = VbusEn
        <3>1. Pending(VbusEn)
            <4>1. \A i \in 1..Len(todo) : i = 1 => todo[i][1] \notin HoldCells
                BY <1>v, <2>2, CellFacts
            <4>2. 1 \in 1..Len(todo)
                BY <2>0 DEF TypeOK
            <4>3. PICK s \in Names : Pending(s)
                BY <4>1, <4>2 DEF PendingInv
            <4> QED
                BY <2>2, <4>3 DEF Pending
        <3>2. fram'[VbusEn] = ram[VbusEn]
            BY <1>v, <2>1, <3>1 DEF Pending, TypeOK
        <3> QED
            BY <1>0, <2>0, <2>1, <2>2, <3>2 DEF SwitchInv
    <2>3. CASE todo[1][1] # VbusEn
        <3>1. fram'[VbusEn] = fram[VbusEn]
            BY <1>v, <2>1, <2>3 DEF TypeOK
        <3> QED
            BY <1>0, <2>0, <2>1, <2>3, <3>1 DEF SwitchInv
    <2> QED
        BY <2>2, <2>3
<1>7. CASE PowerFail
    BY <1>0, <1>7 DEF PowerFail, SwitchInv
<1>8. CASE EngineStep
    BY <1>0, <1>8 DEF EngineStep, SwitchInv
<1> QED
    BY <1>1, <1>2, <1>3, <1>4, <1>5, <1>6, <1>7, <1>8, Steps

(* A start in a hold mode leaves the switch where it was.                  *)
THEOREM SwitchKept == Spec => SwitchRestored
<1>1. Init => SwitchInv
    BY DEF Init, SwitchInv
<1>2. ASSUME SettingsInv, SwitchInv, [Next]_vars, pc = "init", pc' = "run", chip > 0,
             ram'[VbusEn] \in {VBUS_HOLD_OFF, VBUS_HOLD_ON}
      PROVE  gpio' \in switch
    <2>1. StatusInit
        BY <1>2 DEF SettingsInv, Next, ProbeMark, ProbePoint, ProbeRestore, SetSetting,
             SetVbusEn, Switch, ListComes, PsRdy, Select, Resend, HostRequest, Forward, ConnectChange,
             Store, PowerFail, Idle, vars, start
    <2>2. ram'[VbusEn] = fram[VbusEn]
        BY <1>2, <2>1, CellFacts DEF StatusInit, Loaded, SettingsInv, ProbeInv, CapacityRight, Names
    <2>3. /\ ram'[VbusEn] = VBUS_HOLD_ON => gpio' = TRUE
          /\ ram'[VbusEn] = VBUS_HOLD_OFF => gpio' = FALSE
        BY <2>1 DEF StatusInit, VBUS_ALWAYS_ON, VBUS_ALWAYS_OFF, VBUS_HOLD_ON, VBUS_HOLD_OFF
    <2>4. chip # 0
        BY <1>2
    <2> QED
        BY <1>2, <2>2, <2>3, <2>4 DEF SwitchInv
<1>3. SettingsInv /\ SwitchInv /\ [Next]_vars
      => [pc = "init" /\ pc' = "run" /\ chip > 0 /\ ram'[VbusEn] \in {VBUS_HOLD_OFF, VBUS_HOLD_ON}
          => gpio' \in switch]_vars
    BY <1>2
<1> QED
    BY <1>1, <1>3, SettingsInvariant, SwitchStep, PTL DEF Spec, SwitchRestored

-----------------------------------------------------------------------------
(* The stored request.  While a list or request is being stored, todo      *)
(* holds nothing but words of the list and request at hand, the copy of    *)
(* the PDO last; what a checked list has not in todo it has in the FRAM;   *)
(* and outside such writes the stored request fits the stored list, unless *)
(* it is stray.                                                            *)
HoldPending == todo # <<>> /\ todo[1][1] \in HoldCells

HoldWrite(w) ==
    \/ w = <<NumCell, Len(pdos)>>
    \/ \E i \in 1..Len(pdos) : w = <<PdoCell(i), pdos[i]>>
    \/ w = <<RdoCell, rdo.pos>>
    \/ w = <<CopyCell, rdo.copy_of_pdo>>

Written(w) == fram[w[1]] = w[2] \/ \E i \in 1..Len(todo) : todo[i] = w

StoredFits ==
    /\ fram[NumCell] \in 1..MaxPdos /\ fram[RdoCell] < fram[NumCell]
    /\ fram[PdoCell(fram[RdoCell] + 1)] = fram[CopyCell]

CheckedInv ==
    /\ held => checked
    /\ checked => pdos # <<>> /\ pc = "run" /\ chip # 0
    /\ checked /\ ~packed /\ (held => ~stray) => Fits(rdo)
    /\ held => ~packed
    /\ checked => /\ Written(<<NumCell, Len(pdos)>>)
                  /\ \A i \in 1..Len(pdos) : Written(<<PdoCell(i), pdos[i]>>)

WritesInv ==
    HoldPending =>
        /\ \A i \in 1..Len(todo) : HoldWrite(todo[i]) /\ (todo[i][1] = CopyCell <=> i = Len(todo))
        /\ Written(<<RdoCell, rdo.pos>>)
        /\ ~stray => checked /\ ~packed

HoldInv ==
    /\ CheckedInv /\ WritesInv
    /\ ~stray /\ ~HoldPending => StoredFits

LEMMA HoldWriteUnique ==
    ASSUME TypeOK, NEW v, NEW w, HoldWrite(v), HoldWrite(w), v[1] = w[1]
    PROVE  v = w
<1>1. pdos = <<>> => 1..Len(pdos) = {}
    OBVIOUS
<1>2. \A i \in 1..Len(pdos) : i \in 1..MaxPdos
    BY <1>1, ListFacts, UpTo DEF TypeOK
<1>3. \A i, j \in 1..Len(pdos) : PdoCell(i) = PdoCell(j) => i = j
    BY <1>2, CellFacts
<1>4. \A i \in 1..Len(pdos) : PdoCell(i) \notin {NumCell, RdoCell, CopyCell}
    BY <1>2, CellFacts
<1> QED
    BY <1>3, <1>4, CellFacts DEF HoldWrite

(* What is written stays so while the writes go on.                        *)
LEMMA WrittenStep ==
    ASSUME TypeOK, Store, UNCHANGED <<pdos, rdo>>, HoldWrite(todo[1]), todo[1][1] \in HoldCells,
           NEW w, HoldWrite(w), w[1] \in Cells, Written(w)
    PROVE  Written(w)'
<1>1. /\ todo # <<>> /\ todo' = Tail(todo)
      /\ fram' = [fram EXCEPT ![todo[1][1]] = todo[1][2]]
    BY DEF Store
<1>2. CASE w = todo[1]
    <2>1. fram'[w[1]] = w[2]
        BY <1>1, <1>2 DEF TypeOK
    <2> QED
        BY <2>1 DEF Written
<1>3. CASE w # todo[1]
    <2>1. w[1] # todo[1][1]
        BY <1>3, HoldWriteUnique
    <2>2. fram'[w[1]] = fram[w[1]]
        BY <1>1, <2>1 DEF TypeOK
    <2>3. ASSUME NEW i \in 1..Len(todo), todo[i] = w
          PROVE  \E k \in 1..Len(todo') : todo'[k] = w
        <3>1. i # 1 /\ i - 1 \in 1..Len(todo') /\ todo'[i - 1] = todo[i]
            BY <1>1, <1>3, <2>3 DEF TypeOK
        <3> QED
            BY <2>3, <3>1
    <2> QED
        BY <2>2, <2>3 DEF Written
<1> QED
    BY <1>2, <1>3

LEMMA PdoFacts ==
    ASSUME TypeOK
    PROVE  /\ Len(pdos) \in Nat
           /\ \A i \in 1..Len(pdos) : /\ i \in 1..MaxPdos /\ pdos[i] \in Nat
                                      /\ PdoCell(i) \in HoldCells /\ PdoCell(i) \in Cells
<1>1. CASE pdos = <<>>
    <2>1. Len(pdos) = 0 /\ 1..Len(pdos) = {}
        BY <1>1
    <2> QED
        BY <2>1
<1>2. CASE pdos \in Lists
    BY <1>2, ListFacts, UpTo, CellFacts
<1> QED
    BY <1>1, <1>2 DEF TypeOK

(* Outside the writes of a list or request nothing of it is in todo.       *)
LEMMA NothingPending ==
    ASSUME TypeOK, PendingInv, ~HoldPending, NEW w, w[1] \in HoldCells
    PROVE  Written(w) <=> fram[w[1]] = w[2]
<1>1. \A i \in 1..Len(todo) : todo[i][1] \notin HoldCells
    <2>1. CASE todo = <<>>
        BY <2>1
    <2>2. CASE todo # <<>>
        <3>1. 1 \in 1..Len(todo) /\ todo[1][1] \notin HoldCells
            BY <2>2 DEF HoldPending, TypeOK
        <3>2. PICK s \in Names : Pending(s)
            BY <3>1 DEF PendingInv
        <3> QED
            BY <3>2, CellFacts DEF Pending
    <2> QED
        BY <2>1, <2>2
<1> QED
    BY <1>1 DEF Written

(* Steps that touch neither the cells of the hold nor the engine.          *)
LEMMA ApartStep ==
    ASSUME TypeOK, TypeOK', PendingInv, PendingInv', HoldInv,
           UNCHANGED <<chip, pdos, rdo, held, checked, packed, stray>>,
           \A c \in HoldCells : fram'[c] = fram[c],
           ~HoldPending, ~HoldPending', checked => pc' = "run"
    PROVE  HoldInv'
<1>1. ASSUME NEW w, w[1] \in HoldCells, Written(w) PROVE Written(w)'
    <2>1. fram'[w[1]] = w[2]
        BY <1>1, NothingPending
    <2> QED
        BY <2>1 DEF Written
<1>2. CheckedInv'
    <2>1. checked => Written(<<NumCell, Len(pdos)>>)'
        BY <1>1, CellFacts DEF HoldInv, CheckedInv
    <2>2. checked => \A i \in 1..Len(pdos) : Written(<<PdoCell(i), pdos[i]>>)'
        BY <1>1, PdoFacts DEF HoldInv, CheckedInv
    <2> QED
        BY <2>1, <2>2 DEF HoldInv, CheckedInv, Fits
<1>3. StoredFits => StoredFits'
    <2> SUFFICES ASSUME StoredFits PROVE StoredFits'
        OBVIOUS
    <2>1. fram[RdoCell] + 1 \in 1..MaxPdos
        <3>1. fram[RdoCell] \in Nat
            BY CellFacts DEF TypeOK
        <3> QED
            BY <3>1 DEF StoredFits, MaxPdos
    <2> QED
        BY <2>1, CellFacts DEF StoredFits
<1> QED
    BY <1>2, <1>3 DEF HoldInv, WritesInv

(* A first word of the list or request reaches the FRAM, or the last one.  *)
LEMMA HoldStore ==
    ASSUME TypeOK, TypeOK', PendingInv, PendingInv', HoldInv, HoldPending, Store
    PROVE  HoldInv'
<1> USE DEF board, start, engine, ghosts
<1>1. /\ todo # <<>> /\ todo' = Tail(todo)
      /\ fram' = [fram EXCEPT ![todo[1][1]] = todo[1][2]]
      /\ stray' = IF todo[1][1] = CopyCell /\ checked /\ ~held /\ ~packed THEN FALSE ELSE stray
      /\ UNCHANGED <<chip, pc, pdos, rdo, held, checked, packed>>
    BY DEF Store
<1>2. /\ todo \in Seq(Cells \X Nat) /\ Len(todo) \in Nat /\ Len(todo) >= 1
      /\ 1 \in 1..Len(todo)
    <2>1. todo \in Seq(Cells \X Nat)
        BY DEF TypeOK
    <2> QED
        BY <1>1, <2>1
<1>t. /\ Len(todo') = Len(todo) - 1
      /\ \A i \in 1..Len(todo') : i + 1 \in 1..Len(todo) /\ todo'[i] = todo[i + 1]
    BY <1>1, <1>2
<1>3. /\ \A i \in 1..Len(todo) : HoldWrite(todo[i]) /\ (todo[i][1] = CopyCell <=> i = Len(todo))
      /\ Written(<<RdoCell, rdo.pos>>)
      /\ ~stray => checked /\ ~packed
    BY DEF HoldInv, WritesInv
<1>4. ASSUME NEW w, HoldWrite(w), w[1] \in Cells, Written(w) PROVE Written(w)'
    BY <1>1, <1>2, <1>3, <1>4, WrittenStep DEF HoldPending
<1>5. Written(<<RdoCell, rdo.pos>>)'
    <2>1. HoldWrite(<<RdoCell, rdo.pos>>) /\ RdoCell \in Cells
        BY CellFacts DEF HoldWrite
    <2> QED
        BY <1>1, <1>3, <1>4, <2>1
<1>6. checked => /\ Written(<<NumCell, Len(pdos)>>)'
                 /\ \A i \in 1..Len(pdos) : Written(<<PdoCell(i), pdos[i]>>)'
    <2>1. checked => Written(<<NumCell, Len(pdos)>>)'
        <3>1. HoldWrite(<<NumCell, Len(pdos)>>) /\ NumCell \in Cells
            BY CellFacts DEF HoldWrite
        <3> QED
            BY <1>1, <1>4, <3>1 DEF HoldInv, CheckedInv
    <2>2. ASSUME checked, NEW i \in 1..Len(pdos) PROVE Written(<<PdoCell(i), pdos[i]>>)'
        <3>1. HoldWrite(<<PdoCell(i), pdos[i]>>) /\ PdoCell(i) \in Cells
            BY <2>2, PdoFacts DEF HoldWrite
        <3> QED
            BY <1>1, <1>4, <2>2, <3>1 DEF HoldInv, CheckedInv
    <2> QED
        BY <2>1, <2>2
<1>7. checked /\ ~packed /\ (held => ~stray') => Fits(rdo)
    BY <1>1 DEF HoldInv, CheckedInv, TypeOK
<1>8. CheckedInv'
    BY <1>1, <1>6, <1>7 DEF HoldInv, CheckedInv, Fits
<1>9. CASE Len(todo) # 1
    <2>1. todo[1][1] # CopyCell /\ stray' = stray
        BY <1>1, <1>2, <1>3, <1>9
    <2>2. \A i \in 1..Len(todo') : HoldWrite(todo[i + 1]) /\ (todo[i + 1][1] = CopyCell <=> i + 1 = Len(todo))
        BY <1>3, <1>t
    <2>3. ASSUME NEW i \in 1..Len(todo')
          PROVE  HoldWrite(todo[i])' /\ (todo'[i][1] = CopyCell <=> i = Len(todo'))
        <3>1. HoldWrite(todo[i + 1]) /\ todo'[i] = todo[i + 1]
            BY <1>t, <2>2, <2>3
        <3>2. HoldWrite(todo[i])'
            BY <1>1, <3>1 DEF HoldWrite
        <3>3. i + 1 = Len(todo) <=> i = Len(todo')
            BY <1>2, <1>t, <2>3
        <3> QED
            BY <2>2, <2>3, <3>1, <3>2, <3>3
    <2>4. HoldPending'
        <3>1. 1 \in 1..Len(todo') /\ todo' # <<>>
            BY <1>2, <1>t, <1>9
        <3>2. HoldWrite(todo[2]) /\ todo'[1] = todo[2]
            BY <1>t, <2>2, <3>1
        <3>3. todo[2][1] \in HoldCells
            BY <3>2, CellFacts, PdoFacts DEF HoldWrite
        <3> QED
            BY <3>1, <3>2, <3>3 DEF HoldPending
    <2> QED
        BY <1>1, <1>3, <1>5, <1>8, <2>1, <2>3, <2>4 DEF HoldInv, WritesInv
<1>10. CASE Len(todo) = 1
    <2>1. todo[1][1] = CopyCell /\ todo' = <<>>
        BY <1>1, <1>2, <1>3, <1>10
    <2>2. ~HoldPending' /\ 1..Len(todo') = {}
        BY <2>1 DEF HoldPending
    <2>3. todo[1] = <<CopyCell, rdo.copy_of_pdo>>
        BY <1>2, <1>3, <2>1, CellFacts, PdoFacts DEF HoldWrite
    <2>4. ASSUME ~stray' PROVE StoredFits'
        <3>1. checked /\ Fits(rdo)
            BY <1>1, <1>3, <1>7, <2>1, <2>4
        <3>2. fram'[RdoCell] = rdo.pos
            BY <1>1, <1>5, <2>2 DEF Written
        <3>3. fram'[NumCell] = Len(pdos)
            BY <1>1, <1>6, <2>2, <3>1 DEF Written
        <3>4. \A i \in 1..Len(pdos) : fram'[PdoCell(i)] = pdos[i]
            BY <1>1, <1>6, <2>2, <3>1 DEF Written
        <3>5. fram'[CopyCell] = rdo.copy_of_pdo
            BY <1>1, <2>3, CellFacts DEF TypeOK
        <3>6. rdo.pos + 1 \in 1..Len(pdos) /\ rdo.pos < Len(pdos) /\ pdos[rdo.pos + 1] = rdo.copy_of_pdo
            BY <3>1, PdoFacts DEF Fits, TypeOK
        <3>7. Len(pdos) \in 1..MaxPdos
            BY <3>1, ListFacts DEF HoldInv, CheckedInv, TypeOK
        <3> QED
            BY <3>2, <3>3, <3>4, <3>5, <3>6, <3>7 DEF StoredFits
    <2> QED
        BY <1>8, <2>2, <2>4 DEF HoldInv, WritesInv
<1> QED
    BY <1>9, <1>10

(* A list comes, while nothing is being written.                           *)
LEMMA ListStep ==
    ASSUME TypeOK, TypeOK', ProbeInv, PendingInv, HoldInv, NEW l \in Lists, ListComes(l)
    PROVE  HoldInv'
<1> USE DEF board, start, ghosts
<1>1. /\ pc = "run" /\ todo = <<>> /\ pdos' = l /\ fram_capacity = chip
      /\ UNCHANGED <<chip, fram, pc, stray>>
    BY DEF ListComes, Idle, ProbeInv, CapacityRight
<1>2. ~HoldPending /\ (~stray => StoredFits) /\ (StoredFits => StoredFits')
    BY <1>1 DEF HoldPending, HoldInv, StoredFits
<1>l. Len(l) \in Nat /\ Len(l) \in 1..MaxPdos /\ l # <<>> /\ 1 \in 1..Len(l)
    BY ListFacts, UpTo
<1>3. ASSUME NEW r \in [pos : Nat, copy_of_pdo : Nat], rdo' = r, todo' = RdoWrites(r),
             Matches(l), chip # 0, held' = TRUE, checked' = TRUE, packed' = FALSE,
             r = Request(fram[RdoCell], fram[CopyCell])
      PROVE  HoldInv'
    <2>1. Len(todo') = 2 /\ todo'[1] = <<RdoCell, r.pos>> /\ todo'[2] = <<CopyCell, r.copy_of_pdo>>
        BY <1>3, RdoWritesFacts
    <2>2. ASSUME NEW i \in 1..Len(todo')
          PROVE  HoldWrite(todo[i])' /\ (todo'[i][1] = CopyCell <=> i = Len(todo'))
        <3>1. HoldWrite(todo[1])' /\ HoldWrite(todo[2])'
            BY <1>3, <2>1 DEF HoldWrite
        <3>2. todo'[1][1] # CopyCell /\ todo'[2][1] = CopyCell
            BY <2>1, CellFacts
        <3>3. i = 1 \/ i = 2
            BY <2>1, <2>2
        <3> QED
            BY <2>1, <3>1, <3>2, <3>3
    <2>3. WritesInv'
        <3>1. Written(<<RdoCell, rdo.pos>>)'
            BY <1>3, <2>1 DEF Written
        <3> QED
            BY <1>3, <2>2, <3>1 DEF WritesInv
    <2>4. /\ Written(<<NumCell, Len(pdos)>>)'
          /\ \A i \in 1..Len(pdos') : Written(<<PdoCell(i), pdos[i]>>)'
        BY <1>1, <1>3 DEF Written, Matches
    <2>5. ~stray' => Fits(rdo)'
        <3> SUFFICES ASSUME StoredFits PROVE Fits(rdo)'
            BY <1>1, <1>2
        <3>1. r.pos = fram[RdoCell] /\ r.copy_of_pdo = fram[CopyCell] /\ r.pos < Len(l)
            BY <1>3 DEF Request, StoredFits, Matches
        <3>2. r.pos + 1 \in 1..Len(l)
            BY <1>3, <1>l, <3>1
        <3>3. l[r.pos + 1] = fram[CopyCell]
            BY <1>3, <3>1, <3>2 DEF StoredFits, Matches
        <3> QED
            BY <1>1, <1>3, <3>1, <3>3 DEF Fits
    <2>6. CheckedInv'
        BY <1>1, <1>l, <1>3, <2>4, <2>5 DEF CheckedInv
    <2>7. HoldPending'
        <3>1. todo' # <<>>
            BY <2>1
        <3> QED
            BY <2>1, <3>1, CellFacts DEF HoldPending
    <2> QED
        BY <2>3, <2>6, <2>7 DEF HoldInv
<1>4. ASSUME NEW r \in [pos : Nat, copy_of_pdo : Nat], rdo' = r, r = Request(0, l[1]),
             todo' = ListWrites(l) \o RdoWrites(r), chip # 0, held' = FALSE, checked' = TRUE,
             packed' = FALSE
      PROVE  HoldInv'
    <2>1. /\ Len(todo') = Len(l) + 3
          /\ todo'[1] = <<NumCell, Len(l)>>
          /\ \A i \in 1..Len(l) : todo'[i + 1] = <<PdoCell(i), l[i]>>
          /\ todo'[Len(l) + 2] = <<RdoCell, r.pos>>
          /\ todo'[Len(l) + 3] = <<CopyCell, r.copy_of_pdo>>
        BY <1>4, BothWritesFacts
    <2>2. ASSUME NEW i \in 1..Len(todo')
          PROVE  HoldWrite(todo[i])' /\ (todo'[i][1] = CopyCell <=> i = Len(todo'))
        <3>1. CASE i \in 2..(Len(l) + 1)
            <4>1. i - 1 \in 1..Len(l) /\ (i - 1) + 1 = i /\ i # Len(todo')
                BY <1>l, <2>1, <3>1
            <4>2. todo'[i] = <<PdoCell(i - 1), l[i - 1]>> /\ PdoCell(i - 1) # CopyCell
                BY <1>l, <2>1, <4>1, UpTo, CellFacts
            <4> QED
                BY <1>1, <4>1, <4>2 DEF HoldWrite
        <3>2. CASE i = 1
            BY <1>1, <1>l, <2>1, <3>2, CellFacts DEF HoldWrite
        <3>3. CASE i = Len(l) + 2
            BY <1>4, <1>l, <2>1, <3>3, CellFacts DEF HoldWrite
        <3>4. CASE i = Len(l) + 3
            BY <1>4, <1>l, <2>1, <3>4, CellFacts DEF HoldWrite
        <3> QED
            BY <1>l, <2>1, <2>2, <3>1, <3>2, <3>3, <3>4
    <2>3. WritesInv'
        <3>1. Written(<<RdoCell, rdo.pos>>)'
            <4>1. Len(l) + 2 \in 1..Len(todo')
                BY <1>l, <2>1
            <4> QED
                BY <1>4, <2>1, <4>1 DEF Written
        <3> QED
            BY <1>4, <2>2, <3>1 DEF WritesInv
    <2>4. /\ Written(<<NumCell, Len(pdos)>>)'
          /\ \A i \in 1..Len(pdos') : Written(<<PdoCell(i), pdos[i]>>)'
        <3>1. 1 \in 1..Len(todo') /\ \A i \in 1..Len(l) : i + 1 \in 1..Len(todo')
            BY <1>l, <2>1
        <3> QED
            BY <1>1, <2>1, <3>1 DEF Written
    <2>5. Fits(rdo)'
        BY <1>1, <1>4, <1>l DEF Fits, Request
    <2>6. CheckedInv'
        BY <1>1, <1>l, <1>4, <2>4, <2>5 DEF CheckedInv
    <2>7. HoldPending'
        <3>1. todo' # <<>>
            BY <1>l, <2>1
        <3> QED
            BY <2>1, <3>1, CellFacts DEF HoldPending
    <2> QED
        BY <2>3, <2>6, <2>7 DEF HoldInv
<1>5. ASSUME held' = FALSE, checked' = FALSE, todo' = <<>> PROVE HoldInv'
    BY <1>1, <1>2, <1>5 DEF HoldInv, CheckedInv, WritesInv, HoldPending
<1>6. CASE Restore(l)
    <2>1. rdo' \in [pos : Nat, copy_of_pdo : Nat]
        BY DEF TypeOK
    <2>2. chip # 0
        BY <1>1, <1>6 DEF Restore, Compared, TypeOK
    <2> QED
        BY <1>3, <1>6, <2>1, <2>2 DEF Restore, Stored
<1>7. CASE Ask(l)
    <2>1. rdo' \in [pos : Nat, copy_of_pdo : Nat]
        BY DEF TypeOK
    <2>2. CASE Compared(l)
        <3>1. chip # 0
            BY <1>1, <2>2 DEF Compared, TypeOK
        <3>2. EprAfter(l) # "EPR_NOT_READY"
            BY <2>2 DEF Compared
        <3> QED
            BY <1>4, <1>7, <2>1, <2>2, <3>1, <3>2 DEF Ask, Stored
    <2>3. CASE ~Compared(l)
        <3>1. fram_capacity > 0 \/ chip = 0
            BY <1>1 DEF TypeOK
        <3> QED
            BY <1>5, <1>7, <2>3, <3>1 DEF Ask, Stored, Compared
    <2> QED
        BY <2>2, <2>3
<1>8. CASE HostAnswers
    BY <1>1, <1>5, <1>8 DEF HostAnswers
<1> QED
    BY <1>6, <1>7, <1>8 DEF ListComes, AutoReply

(* A request is sent and stored: one for a slot of the list, or the one    *)
(* that is there already.                                                  *)
LEMMA SendStep ==
    ASSUME TypeOK, TypeOK', ProbeInv, PendingInv, HoldInv,
           NEW r \in [pos : Nat, copy_of_pdo : Nat], rdo' = r,
           Idle, UNCHANGED <<chip, fram, pc, pdos, checked>>, todo' = Stored(RdoWrites(r)),
           stray' = (stray \/ ~checked \/ packed'),
           \/ Fits(r) /\ held' = FALSE /\ packed' = FALSE
           \/ r = rdo /\ UNCHANGED <<held, packed>>
    PROVE  HoldInv'
<1>1. pc = "run" /\ todo = <<>>
    BY DEF Idle
<1>2. ~HoldPending /\ (~stray => StoredFits) /\ (StoredFits => StoredFits')
    BY <1>1 DEF HoldPending, HoldInv, StoredFits
<1>4. held' => ~packed'
    BY DEF HoldInv, CheckedInv
<1>5. checked' /\ ~packed' /\ (held' => ~stray') => Fits(rdo)'
    <2> SUFFICES ASSUME checked, ~packed', held' => ~stray' PROVE Fits(r)
        BY DEF Fits
    <2> QED
        BY DEF HoldInv, CheckedInv
<1>6. checked => /\ Written(<<NumCell, Len(pdos)>>)'
                 /\ \A i \in 1..Len(pdos) : Written(<<PdoCell(i), pdos[i]>>)'
    <2>1. checked => /\ fram[NumCell] = Len(pdos)
                     /\ \A i \in 1..Len(pdos) : fram[PdoCell(i)] = pdos[i]
        <3>1. checked => fram[NumCell] = Len(pdos)
            BY <1>2, NothingPending, CellFacts DEF HoldInv, CheckedInv
        <3>2. ASSUME checked, NEW i \in 1..Len(pdos) PROVE fram[PdoCell(i)] = pdos[i]
            <4>1. Written(<<PdoCell(i), pdos[i]>>) /\ PdoCell(i) \in HoldCells
                BY <3>2, PdoFacts DEF HoldInv, CheckedInv
            <4> QED
                BY <1>2, <4>1, NothingPending
        <3> QED
            BY <3>1, <3>2
    <2> QED
        BY <1>1, <2>1 DEF Written
<1>7. CheckedInv'
    BY <1>1, <1>5, <1>6 DEF HoldInv, CheckedInv
<1>8. CASE chip = 0
    <2>1. todo' = <<>> /\ ~HoldPending'
        BY <1>1, <1>8 DEF Stored, HoldPending
    <2> QED
        BY <1>1, <1>2, <1>7, <2>1 DEF HoldInv, WritesInv
<1>9. CASE chip # 0
    <2>1. Len(todo') = 2 /\ todo'[1] = <<RdoCell, r.pos>> /\ todo'[2] = <<CopyCell, r.copy_of_pdo>>
        BY <1>1, <1>9, RdoWritesFacts DEF Stored
    <2>2. ASSUME NEW i \in 1..Len(todo')
          PROVE  HoldWrite(todo[i])' /\ (todo'[i][1] = CopyCell <=> i = Len(todo'))
        <3>1. HoldWrite(todo[1])' /\ HoldWrite(todo[2])'
            BY <1>1, <2>1 DEF HoldWrite
        <3>2. todo'[1][1] # CopyCell /\ todo'[2][1] = CopyCell
            BY <2>1, CellFacts
        <3>3. i = 1 \/ i = 2
            BY <2>1, <2>2
        <3> QED
            BY <2>1, <3>1, <3>2, <3>3
    <2>3. Written(<<RdoCell, rdo.pos>>)'
        BY <1>1, <2>1 DEF Written
    <2>4. WritesInv'
        BY <1>1, <2>2, <2>3 DEF WritesInv
    <2>5. HoldPending'
        <3>1. todo' # <<>>
            BY <2>1
        <3> QED
            BY <2>1, <3>1, CellFacts DEF HoldPending
    <2> QED
        BY <1>7, <2>4, <2>5 DEF HoldInv
<1> QED
    BY <1>8, <1>9

LEMMA HoldStep ==
    /\ TypeOK /\ TypeOK' /\ ProbeInv /\ PendingInv /\ PendingInv' /\ HoldInv /\ [Next]_vars
    => HoldInv'
<1> SUFFICES ASSUME TypeOK, TypeOK', ProbeInv, PendingInv, PendingInv', HoldInv, [Next]_vars
             PROVE  HoldInv'
    OBVIOUS
<1> USE DEF board, start, engine, ghosts, marks
<1>i. ASSUME Idle, todo' = <<>> \/ \E s \in Names, v \in Nat : todo' = << <<s, v>> >>
      PROVE  ~HoldPending /\ ~HoldPending'
    BY <1>i, CellFacts DEF Idle, HoldPending
<1>1. CASE ProbeMark \/ ProbePoint \/ ProbeRestore
    <2>1. pc # "run" /\ UNCHANGED <<todo, pdos, rdo, held, checked, packed, stray>>
        BY <1>1 DEF ProbeMark, ProbePoint, ProbeRestore
    <2>2. ~checked /\ todo = <<>> /\ ~HoldPending /\ ~HoldPending'
        BY <2>1 DEF HoldInv, CheckedInv, PendingInv, HoldPending
    <2>3. chip' = chip /\ \A c \in HoldCells : fram'[c] = fram[c]
        BY <1>1, ProbeApart, CellFacts
    <2> QED
        BY <2>1, <2>2, <2>3, ApartStep
<1>2. CASE StatusInit
    <2>1. /\ pc # "run" /\ todo' = todo
          /\ UNCHANGED <<chip, fram, pdos, rdo, held, checked, packed, stray>>
        BY <1>2 DEF StatusInit
    <2>2. ~checked /\ todo = <<>> /\ ~HoldPending /\ ~HoldPending'
        BY <2>1 DEF HoldInv, CheckedInv, PendingInv, HoldPending
    <2> QED
        BY <2>1, <2>2, ApartStep
<1>3. ASSUME NEW s \in Plain, NEW v \in Nat, SetSetting(s, v) PROVE HoldInv'
    <2>1. /\ Idle /\ UNCHANGED <<chip, fram, pc, pdos, rdo, held, checked, packed, stray>>
          /\ todo' = <<>> \/ todo' = << <<s, v>> >>
        BY <1>3 DEF SetSetting, Put, Idle
    <2>2. s \in Names
        BY DEF Names
    <2> QED
        BY <1>i, <2>1, <2>2, ApartStep DEF Idle
<1>4. ASSUME NEW status \in {VBUS_ALWAYS_OFF, VBUS_ALWAYS_ON, VBUS_HOLD}, SetVbusEn(status)
      PROVE  HoldInv'
    <2>1. \E v \in Nat : Put(VbusEn, v)
        BY <1>4 DEF SetVbusEn, VBUS_ALWAYS_OFF, VBUS_ALWAYS_ON, VBUS_HOLD, VBUS_HOLD_ON, VBUS_HOLD_OFF
    <2>2. Idle /\ UNCHANGED <<chip, fram, pc, pdos, rdo, held, checked, packed, stray>>
        BY <1>4 DEF SetVbusEn
    <2>3. todo' = <<>> \/ \E v \in Nat : todo' = << <<VbusEn, v>> >>
        BY <2>1, <2>2 DEF Put, Idle
    <2> QED
        BY <1>i, <2>2, <2>3, ApartStep, ValueFacts DEF Idle
<1>5. ASSUME NEW on \in BOOLEAN, Switch(on) PROVE HoldInv'
    <2>1. Idle /\ UNCHANGED <<chip, fram, pc, pdos, rdo, held, checked, packed, stray>>
        BY <1>5 DEF Switch
    <2>2. todo' = <<>> \/ \E v \in Nat : todo' = << <<VbusEn, v>> >>
        BY <1>5, <2>1 DEF Switch, Put, Idle, VBUS_HOLD_ON, VBUS_HOLD_OFF
    <2> QED
        BY <1>i, <2>1, <2>2, ApartStep, ValueFacts DEF Idle
<1>6. ASSUME NEW l \in Lists, ListComes(l) PROVE HoldInv'
    BY <1>6, ListStep
<1>7. CASE PsRdy
    <2>1. Idle /\ UNCHANGED <<chip, fram, pc, pdos, rdo, held, checked, packed, stray, todo>>
        BY <1>7 DEF PsRdy
    <2> QED
        BY <1>i, <2>1, ApartStep DEF Idle
<1>8. ASSUME NEW p \in 1..Len(pdos), Select(p) PROVE HoldInv'
    <2>1. Request(p - 1, pdos[p]) \in [pos : Nat, copy_of_pdo : Nat] /\ pdos \in Lists
        BY RequestFacts DEF TypeOK
    <2>2. Fits(Request(p - 1, pdos[p]))
        BY <2>1, ListFacts DEF Request, Fits, MaxPdos
    <2> QED
        BY <1>8, <2>1, <2>2, SendStep DEF Select
<1>16. CASE Resend
    <2>1. rdo \in [pos : Nat, copy_of_pdo : Nat]
        BY DEF TypeOK
    <2> QED
        BY <1>16, <2>1, SendStep DEF Resend
<1>9. CASE HostRequest
    <2>1. /\ Idle /\ UNCHANGED <<chip, fram, pc, todo, pdos, checked, stray>>
          /\ held' = FALSE /\ packed' = TRUE
        BY <1>9 DEF HostRequest, Forward
    <2>3. ~HoldPending /\ ~HoldPending' /\ (StoredFits => StoredFits')
        BY <1>i, <2>1 DEF Idle, StoredFits
    <2>4. checked => /\ Written(<<NumCell, Len(pdos)>>)'
                     /\ \A i \in 1..Len(pdos) : Written(<<PdoCell(i), pdos[i]>>)'
        BY <2>1 DEF HoldInv, CheckedInv, Written
    <2>5. CheckedInv'
        BY <2>1, <2>4 DEF HoldInv, CheckedInv
    <2> QED
        BY <2>1, <2>3, <2>5 DEF HoldInv, WritesInv
<1>10. CASE ConnectChange
    <2>1. Idle /\ UNCHANGED <<chip, fram, pc, todo, stray>> /\ held' = FALSE /\ checked' = FALSE
        BY <1>10 DEF ConnectChange
    <2>2. ~HoldPending /\ ~HoldPending' /\ (StoredFits => StoredFits')
        BY <1>i, <2>1 DEF Idle, StoredFits
    <2> QED
        BY <2>1, <2>2 DEF HoldInv, CheckedInv, WritesInv
<1>11. CASE Store /\ HoldPending
    BY <1>11, HoldStore
<1>12. CASE Store /\ ~HoldPending
    <2>1. PICK s \in Names : Pending(s)
        <3>1. todo # <<>> /\ 1 \in 1..Len(todo)
            BY <1>12 DEF Store, TypeOK
        <3> QED
            BY <1>12, <3>1 DEF PendingInv, HoldPending
    <2>0. todo[1][1] = s /\ todo[1][2] = ram[s] /\ Tail(todo) = <<>> /\ s # CopyCell
        BY <2>1, CellFacts DEF Pending
    <2>2. /\ fram' = [fram EXCEPT ![s] = ram[s]] /\ todo' = <<>>
          /\ UNCHANGED <<chip, pc, pdos, rdo, held, checked, packed, stray>>
        BY <1>12, <2>0 DEF Store
    <2>3. \A c \in HoldCells : fram'[c] = fram[c]
        BY <2>2, CellFacts DEF TypeOK
    <2>4. ~HoldPending'
        BY <2>2 DEF HoldPending
    <2>5. checked => pc' = "run"
        BY <2>2 DEF HoldInv, CheckedInv
    <2> QED
        BY <1>12, <2>2, <2>3, <2>4, <2>5, ApartStep
<1>13. CASE PowerFail
    <2>1. /\ UNCHANGED <<chip, fram>> /\ todo' = <<>> /\ held' = FALSE /\ checked' = FALSE
          /\ stray' = (stray \/ \E i \in 1..Len(todo) : todo[i][1] \in HoldCells)
        BY <1>13 DEF PowerFail
    <2>2. ~HoldPending' /\ (StoredFits => StoredFits')
        BY <2>1 DEF HoldPending, StoredFits
    <2>3. ~stray' => ~stray /\ ~HoldPending
        <3>1. todo # <<>> => 1 \in 1..Len(todo)
            BY DEF TypeOK
        <3> QED
            BY <2>1, <3>1 DEF HoldPending
    <2> QED
        BY <2>1, <2>2, <2>3 DEF HoldInv, CheckedInv, WritesInv
<1>14. CASE UNCHANGED vars
    BY <1>14 DEF vars, HoldInv, CheckedInv, WritesInv, HoldPending, HoldWrite, Written, StoredFits, Fits
<1>15. \A s \in Plain : \A v \in Commanded[s] : v \in Nat
    <2>1. \A s \in Plain : Commanded[s] \subseteq 0..255
        BY ValueAssumption DEF ValueAssumption
    <2> QED
        BY <2>1
<1> QED
    BY <1>1, <1>2, <1>3, <1>4, <1>5, <1>6, <1>7, <1>8, <1>9, <1>10, <1>11,
       <1>12, <1>13, <1>14, <1>15, <1>16 DEF Next

(* The request a trigger hold restores is for a PDO of the list at hand,   *)
(* unless it went stray in one of the ways HeldRequestFits names.          *)
THEOREM HeldRequestKept == Spec => []HeldRequestFits
<1>1. Init => HoldInv
    <2> SUFFICES ASSUME Init PROVE HoldInv
        OBVIOUS
    <2>1. todo = <<>> /\ held = FALSE /\ checked = FALSE /\ stray = TRUE
        BY DEF Init
    <2> QED
        BY <2>1 DEF HoldInv, CheckedInv, WritesInv, HoldPending
<1>2. SettingsInv /\ SettingsInv' /\ HoldInv /\ [Next]_vars => HoldInv'
    BY HoldStep DEF SettingsInv
<1>3. HoldInv => HeldRequestFits
    BY DEF HoldInv, CheckedInv, HeldRequestFits
<1> QED
    BY <1>1, <1>2, <1>3, SettingsInvariant, PTL DEF Spec
=============================================================================
