-------------------------- MODULE RdoRequest_proofs --------------------------
(***************************************************************************)
(* Theorems about RdoRequest for all lists of up to 15 supplies, all       *)
(* commands of the host and all lengths of the queue: the request names a  *)
(* slot in use (RequestInv), and its values are what that slot grants      *)
(* (KeptInv).  Positions come first, then the arithmetic of the values,    *)
(* then the steps.                                                         *)
(***************************************************************************)
EXTENDS RdoRequest, TLAPS, SequenceTheorems, WellFoundedInduction

(* A request is a record with these fields, whatever the numbers in it.    *)
Names == {"pos", "type", "copy_of_pdo", "voltage", "current", "power"}
IsRequest(r) == r = [name \in Names |-> r[name]]

(* What a command or a step leaves alone. *)
SameSupply(r, q) ==
    IsRequest(q) /\ q.pos = r.pos /\ q.type = r.type /\ q.copy_of_pdo = r.copy_of_pdo

RequestFor(l, r) ==
    /\ IsRequest(r)
    /\ r.pos \in 0..Len(l) - 1
    /\ Supply(l, r) # Empty
    /\ r.copy_of_pdo = Supply(l, r) /\ r.type = Supply(l, r).type

-----------------------------------------------------------------------------
LEMMA LeastOf ==
    ASSUME NEW T, T \subseteq Nat, T # {}
    PROVE  \E x \in T : \A y \in T : x <= y
<1> DEFINE R == OpToRel(<, Nat)
<1>1. \E x \in T : \A y \in T : ~(<<y, x>> \in R)
  <2>1. IsWellFoundedOn(R, Nat)
    BY NatLessThanWellFounded
  <2> HIDE DEF R
  <2> QED
    BY <2>1, WFMin
<1>2. \A x, y \in Nat : ~(<<y, x>> \in R) => x <= y
  BY DEF OpToRel
<1> HIDE DEF R
<1> QED
  BY <1>1, <1>2

(* Going round a list from any position, one comes to its first slot. *)
LEMMA RoundTheList ==
    ASSUME NEW n \in 1..15, NEW p \in Nat, NEW d \in {1, -1}
    PROVE  \E i \in 1..n : (p + i * d) % n = 0
<1>1. \A r \in 0..n - 1 : \E i \in 1..n : (r + i * d) % n = 0
  <2> TAKE r \in 0..n - 1
  <2>1. CASE d = 1
    <3>1. n - r \in 1..n /\ r + (n - r) * d = n
      BY <2>1
    <3>2. n % n = 0
      OBVIOUS
    <3> QED
      BY <3>1, <3>2
  <2>2. CASE d = -1 /\ r # 0
    <3>1. r \in 1..n /\ r + r * d = 0
      BY <2>2
    <3> QED
      BY <3>1
  <2>3. CASE d = -1 /\ r = 0
    <3>1. n \in 1..n /\ r + n * d = -n
      BY <2>3
    <3>2. (-n) % n = 0
      OBVIOUS
    <3> QED
      BY <3>1, <3>2
  <2> QED
    BY <2>1, <2>2, <2>3
<1>2. p % n \in 0..n - 1
  OBVIOUS
<1>3. ASSUME NEW i \in 1..n PROVE (p + i * d) % n = ((p % n) + i * d) % n
  OBVIOUS
<1> QED
  BY <1>1, <1>2, <1>3

(* find_valid_pdo_pos returns a slot in use, also from a position that is  *)
(* none of the list's.                                                     *)
LEMMA FindsUsedSlot ==
    ASSUME NEW l \in Seq(Supplies), Len(l) \in 1..15, l[1] # Empty,
           NEW p \in Nat, NEW d \in {1, -1}
    PROVE  /\ FindValid(l, p, d) \in 0..Len(l) - 1
           /\ l[FindValid(l, p, d) + 1] # Empty
<1> DEFINE At(i) == (p + i * d) % Len(l)
           found == { i \in 1..Len(l) : InUse(l[At(i) + 1]) }
           least == CHOOSE i \in found : \A j \in found : i <= j
<1>1. \A i \in 1..Len(l) : At(i) \in 0..Len(l) - 1
  OBVIOUS
<1>2. found # {}
  <2>1. PICK i \in 1..Len(l) : At(i) = 0
    BY RoundTheList
  <2> QED
    BY <2>1 DEF InUse
<1>3. found \subseteq Nat
  OBVIOUS
<1>4. \E i \in found : \A j \in found : i <= j
  <2> HIDE DEF found
  <2> QED
    BY <1>2, <1>3, LeastOf
<1>5. least \in found
  BY <1>4
<1>6. FindValid(l, p, d) = At(least)
  BY <1>2 DEF FindValid
<1> QED
  BY <1>1, <1>5, <1>6 DEF InUse

(* select_and_send_rdo of a slot in use. *)
LEMMA SelectedIsRequest ==
    ASSUME NEW l \in Seq(Supplies), NEW p \in 0..Len(l) - 1, l[p + 1] # Empty
    PROVE  RequestFor(l, Selected(l, p))
<1>1. /\ IsRequest(Selected(l, p)) /\ Selected(l, p).pos = p
      /\ Selected(l, p).type = l[p + 1].type /\ Selected(l, p).copy_of_pdo = l[p + 1]
  BY DEF Selected, IsRequest, Names
<1> QED
  BY <1>1 DEF RequestFor, Supply

(* USB_PD_CMD_SET_x and apply_step change no more than the values.         *)
LEMMA ValueSet ==
    ASSUME NEW r, IsRequest(r), NEW n \in Fields, NEW v
    PROVE  SameSupply(r, [r EXCEPT ![n] = v])
  BY DEF IsRequest, SameSupply, Names, Fields

LEMMA FieldSet ==
    ASSUME NEW s, NEW r, IsRequest(r), NEW field \in Fields, NEW v
    PROVE  SameSupply(r, SetField(s, r, field, v))
<1>1. ASSUME NEW q, SameSupply(r, q) PROVE SameSupply(r, ClampSprAvs(s, q, field))
  <2>1. ASSUME NEW w PROVE SameSupply(r, [q EXCEPT !.current = w])
    BY <1>1, ValueSet DEF SameSupply, Fields
  <2> QED
    BY <1>1, <2>1 DEF ClampSprAvs
<1>2. ASSUME NEW q, SameSupply(r, q) PROVE SameSupply(r, ClampEprAvs(s, q, field))
  <2>1. ASSUME NEW w PROVE SameSupply(r, [q EXCEPT !.current = w])
                           /\ SameSupply(r, [q EXCEPT !.voltage = w])
    BY <1>2, ValueSet DEF SameSupply, Fields
  <2>2. CASE q.type = "EPR_AVS_PDO" /\ (q.voltage * q.current) \div 1000 > s.pdp * 10
    <3>1. CASE field = "voltage"
      <4>1. ClampEprAvs(s, q, field) = [q EXCEPT !.current = AmpsAt(s.pdp, q.voltage)]
        BY <2>2, <3>1 DEF ClampEprAvs
      <4> QED
        BY <2>1, <4>1
    <3>2. CASE field # "voltage"
      <4> DEFINE w == (U16((s.pdp * 10000) \div q.current) \div 100) * 100
      <4>1. ClampEprAvs(s, q, field) = [q EXCEPT !.voltage = w]
        BY <2>2, <3>2 DEF ClampEprAvs
      <4> HIDE DEF w
      <4> QED
        BY <2>1, <4>1
    <3> QED
      BY <3>1, <3>2
  <2>3. CASE ~(q.type = "EPR_AVS_PDO" /\ (q.voltage * q.current) \div 1000 > s.pdp * 10)
    <3>1. ClampEprAvs(s, q, field) = q
      BY <2>3 DEF ClampEprAvs
    <3> QED
      BY <1>2, <3>1
  <2> QED
    BY <2>2, <2>3
<1>3. ASSUME NEW w PROVE SameSupply(r, [r EXCEPT ![field] = w])
  BY ValueSet
<1> QED
  BY <1>1, <1>2, <1>3 DEF SetField

(* A command that selects makes a request for a slot in use, whatever the  *)
(* request before it and the list that one was made for.                   *)
LEMMA SelectingSelects ==
    ASSUME NEW l \in Seq(Supplies), Len(l) \in 1..15, l[1] # Empty,
           NEW r, r.pos \in Nat, NEW c \in Commands, Selecting(l, c)
    PROVE  \E p \in 0..Len(l) - 1 : l[p + 1] # Empty /\ Executed(l, r, c) = Selected(l, p)
<1>1. c.type \in {"SELECT_PDO", "NEXT_PDO", "PREV_PDO"} /\ c.value \in Int
  BY DEF Selecting, Commands
<1>2. FieldOf(c.type) = "none"
  BY <1>1 DEF FieldOf
<1>3. CASE c.type = "SELECT_PDO"
  <2>1. Selectable(l, NamedPos(c.value))
    BY <1>3 DEF Selecting
  <2>2. NamedPos(c.value) \in 0..Len(l) - 1 /\ l[NamedPos(c.value) + 1] # Empty
    BY <1>1, <2>1 DEF NamedPos, Selectable, InUse
  <2>3. Executed(l, r, c) = Selected(l, NamedPos(c.value))
    BY <1>2, <1>3, <2>1 DEF Executed
  <2> QED
    BY <2>2, <2>3
<1>4. CASE c.type = "NEXT_PDO"
  <2>1. Executed(l, r, c) = Selected(l, FindValid(l, r.pos, 1))
    BY <1>2, <1>4 DEF Executed
  <2> QED
    BY <2>1, FindsUsedSlot
<1>5. CASE c.type = "PREV_PDO"
  <2>1. Executed(l, r, c) = Selected(l, FindValid(l, r.pos, -1))
    BY <1>2, <1>5 DEF Executed
  <2> QED
    BY <2>1, FindsUsedSlot
<1> QED
  BY <1>1, <1>3, <1>4, <1>5

(* A command that names no value and selects nothing does nothing. *)
LEMMA OthersDoNothing ==
    ASSUME NEW l, NEW r, NEW c \in Commands, FieldOf(c.type) = "none", ~Selecting(l, c)
    PROVE  Executed(l, r, c) = r
  BY DEF Executed, Selecting, FieldOf, Commands, CmdTypes

(* cmd_execute_immediate, also with a command queued for another list. *)
LEMMA ExecutedIsRequest ==
    ASSUME NEW l \in Seq(Supplies), Len(l) \in 1..15, l[1] # Empty,
           NEW r, RequestFor(l, r), NEW c \in Commands
    PROVE  RequestFor(l, Executed(l, r, c))
<1>1. c.type \in CmdTypes /\ c.value \in Int
  BY DEF Commands
<1>2. r.pos \in 0..Len(l) - 1 /\ l[r.pos + 1] # Empty
  BY DEF RequestFor, Supply
<1>3. CASE FieldOf(c.type) # "none"
  <2>1. FieldOf(c.type) \in Fields
    BY <1>1, <1>3 DEF FieldOf, Fields, CmdTypes
  <2>2. ASSUME NEW v PROVE RequestFor(l, SetField(Supply(l, r), r, FieldOf(c.type), v))
    <3>1. SameSupply(r, SetField(Supply(l, r), r, FieldOf(c.type), v))
      BY <2>1, FieldSet DEF RequestFor
    <3> QED
      BY <3>1 DEF RequestFor, SameSupply, Supply
  <2>0. c.type \notin {"SELECT_PDO", "NEXT_PDO", "PREV_PDO"}
    BY <1>3 DEF FieldOf
  <2>3. CASE FitsType(FieldOf(c.type), r.type)
    <3> DEFINE v == IF c.type \in {"SET_VOLTAGE", "SET_CURRENT", "SET_POWER"} THEN c.value
                    ELSE r[FieldOf(c.type)] + Int16(c.value)
    <3>1. Executed(l, r, c) = SetField(Supply(l, r), r, FieldOf(c.type), v)
      BY <1>3, <2>0, <2>3 DEF Executed
    <3> HIDE DEF v
    <3> QED
      BY <2>2, <3>1
  <2>4. CASE ~FitsType(FieldOf(c.type), r.type)
    <3>1. Executed(l, r, c) = r
      BY <1>3, <2>0, <2>4 DEF Executed
    <3> QED
      BY <3>1
  <2> QED
    BY <2>3, <2>4
<1>4. CASE FieldOf(c.type) = "none"
  <2>1. CASE Selecting(l, c)
    BY <1>2, <2>1, SelectingSelects, SelectedIsRequest
  <2>2. CASE ~Selecting(l, c)
    BY <1>4, <2>2, OthersDoNothing
  <2> QED
    BY <2>1, <2>2
<1> QED
  BY <1>3, <1>4

-----------------------------------------------------------------------------
(* Arithmetic, and what the conversions of a request do to its values.     *)
LEMMA Times ==
    ASSUME NEW a \in Nat, NEW b \in Nat, NEW c \in Nat, a <= b
    PROVE  a * c <= b * c
<1>1. PICK d \in Nat : b = a + d
  <2>1. b = a + (b - a) /\ b - a \in Nat
    OBVIOUS
  <2> QED
    BY <2>1
<1>2. b * c = a * c + d * c /\ d * c \in Nat /\ a * c \in Nat
  BY <1>1
<1> QED
  BY <1>2

LEMMA Divides ==
    ASSUME NEW n \in Nat, NEW d \in Nat \ {0}
    PROVE  /\ n \div d \in Nat
           /\ (n \div d) * d <= n
           /\ n < (n \div d) * d + d
  OBVIOUS

LEMMA AmpsBound ==
    ASSUME NEW p \in Nat, NEW v \in Nat
    PROVE  AmpsAt(p, v) \in Nat /\ AmpsAt(p, v) * v <= p * 10000
<1>1. CASE v = 0
  BY <1>1 DEF AmpsAt
<1>2. CASE v # 0
  <2> DEFINE w == (p * 10000) \div v
  <2>1. w \in Nat /\ w * v <= p * 10000
    BY <1>2, Divides
  <2>2. AmpsAt(p, v) = w % 65536
    BY <1>2 DEF AmpsAt, U16
  <2> HIDE DEF w
  <2>3. w % 65536 \in Nat /\ w % 65536 <= w
    BY <2>1
  <2>4. (w % 65536) * v <= w * v /\ w * v \in Nat /\ (w % 65536) * v \in Nat
    BY <2>1, <2>3, Times
  <2> QED
    BY <2>1, <2>2, <2>3, <2>4
<1> QED
  BY <1>1, <1>2

LEMMA AmpsNat ==
    ASSUME NEW p \in Nat, NEW v \in Nat
    PROVE  AmpsAt(p, v) \in Nat
  BY AmpsBound

(* No current that CurrentMax allows of an EPR AVS supply overdraws it. *)
LEMMA AmpsGranted ==
    ASSUME NEW p \in Nat, NEW v \in Nat, NEW c \in Nat, c <= AmpsAt(p, v)
    PROVE  v * c <= p * 10000
<1> DEFINE a == AmpsAt(p, v)
<1>1. a \in Nat /\ a * v <= p * 10000 /\ c <= a
  BY AmpsBound
<1> HIDE DEF a
<1>2. c * v <= a * v /\ c * v \in Nat /\ a * v \in Nat
  BY <1>1, Times
<1> QED
  BY <1>1, <1>2

Numbers(r) == r.voltage \in Nat /\ r.current \in Nat /\ r.power \in Nat

(* The values the sink keeps are granted but for the milliwatt. *)
Kept(s, r) == r.type = s.type /\ Numbers(r) /\ Grants(s, r.voltage, r.current, r.power, 999)

(* What SupplyAssumption says of a supply. *)
IsSupply(s) ==
    /\ s \in Supplies
    /\ s.min <= s.max
    /\ s.type \in {"PPS_PDO", "EPR_AVS_PDO"} => s.min % 100 = 0
    /\ s.type = "SPR_AVS_PDO" => s.current20 <= s.current

LEMMA SupplyFields ==
    ASSUME NEW s \in Supplies
    PROVE  /\ s.type \in Types
           /\ s.min \in Nat /\ s.max \in Nat /\ s.current \in Nat
           /\ s.current20 \in Nat /\ s.pdp \in Nat
           /\ s.max < 65536
  BY DEF Supplies, Words

(* A value cut to units of the message and read again, in the bits it has. *)
LEMMA ReadVolts ==
    ASSUME NEW n \in Nat, NEW low \in Nat, low <= n, n < 65536, low % 100 = 0
    PROVE  /\ ((n \div 20) % 4096) * 20 \in low..n
           /\ ((n \div 25) % 4096) * 25 \in low..n
<1> DEFINE x == n \div 20
           y == n \div 25
<1>1. PICK k \in Nat : low = 100 * k
  <2>1. low = 100 * (low \div 100) /\ low \div 100 \in Nat
    OBVIOUS
  <2> QED
    BY <2>1
<1>2. x \in Nat /\ x < 4096 /\ low <= x * 20 /\ x * 20 <= n
  BY <1>1
<1>3. y \in Nat /\ y < 4096 /\ low <= y * 25 /\ y * 25 <= n
  BY <1>1
<1> HIDE DEF x, y
<1>4. x % 4096 = x
  BY <1>2
<1>5. y % 4096 = y
  BY <1>3
<1>6. (x % 4096) * 20 \in low..n
  BY <1>2, <1>4
<1>7. (y % 4096) * 25 \in low..n
  BY <1>3, <1>5
<1> QED
  BY <1>6, <1>7 DEF x, y

LEMMA ReadAmps ==
    ASSUME NEW n \in Nat, NEW d \in {10, 25, 50}, NEW bits \in {128, 1024}
    PROVE  ((n \div d) % bits) * d <= n /\ (n \div d) % bits \in Nat
<1>1. n \div d \in Nat /\ (n \div d) * d <= n
  OBVIOUS
<1> DEFINE q == n \div d
<1> HIDE DEF q
<1>2. q % bits \in Nat /\ q % bits <= q
  BY <1>1 DEF q
<1>3. (q % bits) * d <= q * d
  BY <1>1, <1>2 DEF q
<1> QED
  BY <1>1, <1>2, <1>3 DEF q

LEMMA ReadIsGranted ==
    ASSUME NEW s, IsSupply(s), NEW r, Kept(s, r)
    PROVE  LET m == Message(r)
           IN  Grants(s, VoltsRead(s, m), AmpsRead(s, m), PowerRead(s, m), 0)
<1> SUFFICES ASSUME NEW m, m = Message(r)
             PROVE  Grants(s, VoltsRead(s, m), AmpsRead(s, m), PowerRead(s, m), 0)
  OBVIOUS
<1>1. /\ s.type \in Types /\ s.min \in Nat /\ s.max \in Nat /\ s.current \in Nat
      /\ s.current20 \in Nat /\ s.pdp \in Nat /\ s.min <= s.max /\ s.max < 65536
  BY SupplyFields DEF IsSupply
<1>2. r.type = s.type /\ r.voltage \in Nat /\ r.current \in Nat /\ r.power \in Nat
  BY DEF Kept, Numbers
<1>3. CASE s.type \in {"FPDO", "VPDO"}
  <2>1. /\ m.high = r.current \div 10
        /\ VoltsRead(s, m) = s.min /\ AmpsRead(s, m) = (m.high % 1024) * 10
        /\ PowerRead(s, m) = 0
    BY <1>2, <1>3 DEF Message, VoltsRead, AmpsRead, PowerRead
  <2>2. r.current <= s.current
    BY <1>3 DEF Kept, Grants
  <2>3. AmpsRead(s, m) <= r.current /\ AmpsRead(s, m) \in Nat
    BY <1>2, <2>1, ReadAmps
  <2> QED
    BY <1>1, <1>2, <1>3, <2>1, <2>2, <2>3 DEF Grants
<1>4. CASE s.type = "BPDO"
  <2>1. /\ m.high = r.power \div 25
        /\ VoltsRead(s, m) = s.min /\ AmpsRead(s, m) = 0
        /\ PowerRead(s, m) = (m.high % 1024) * 25
    BY <1>2, <1>4 DEF Message, VoltsRead, AmpsRead, PowerRead
  <2>2. r.power <= s.pdp
    BY <1>4 DEF Kept, Grants
  <2>3. PowerRead(s, m) <= r.power /\ PowerRead(s, m) \in Nat
    BY <1>2, <2>1, ReadAmps
  <2> QED
    BY <1>1, <1>2, <1>4, <2>1, <2>2, <2>3 DEF Grants
<1>5. CASE s.type = "PPS_PDO"
  <2>1. /\ m.high = r.voltage \div 20 /\ m.low = r.current \div 50
        /\ VoltsRead(s, m) = (m.high % 4096) * 20 /\ AmpsRead(s, m) = (m.low % 128) * 50
        /\ PowerRead(s, m) = 0
    BY <1>2, <1>5 DEF Message, VoltsRead, AmpsRead, PowerRead
  <2>2. r.voltage \in s.min..s.max /\ r.current <= s.current /\ s.min % 100 = 0
    BY <1>5 DEF Kept, Grants, IsSupply
  <2>0. s.min <= r.voltage /\ r.voltage < 65536
    BY <1>1, <1>2, <2>2
  <2>3. VoltsRead(s, m) \in s.min..r.voltage
    BY <1>1, <1>2, <2>0, <2>1, <2>2, ReadVolts
  <2>4. AmpsRead(s, m) <= r.current /\ AmpsRead(s, m) \in Nat
    BY <1>2, <2>1, ReadAmps
  <2> QED
    BY <1>1, <1>2, <1>5, <2>1, <2>2, <2>3, <2>4 DEF Grants
<1>6. CASE s.type = "SPR_AVS_PDO"
  <2>1. /\ m.high = r.voltage \div 25 /\ m.low = r.current \div 50
        /\ VoltsRead(s, m) = (m.high % 4096) * 25 /\ AmpsRead(s, m) = (m.low % 128) * 50
        /\ PowerRead(s, m) = 0
    BY <1>2, <1>6 DEF Message, VoltsRead, AmpsRead, PowerRead
  <2>2. /\ r.voltage >= 9000 /\ r.voltage <= 20000 /\ s.current20 <= s.current
        /\ r.current <= IF r.voltage > 15000 THEN s.current20 ELSE s.current
    BY <1>6 DEF Kept, Grants, IsSupply
  <2>3. VoltsRead(s, m) >= 9000 /\ VoltsRead(s, m) <= r.voltage /\ VoltsRead(s, m) \in Nat
    <3> DEFINE low == 9000
    <3>1. low \in Nat /\ low % 100 = 0 /\ low <= r.voltage
      BY <2>2
    <3> HIDE DEF low
    <3>2. VoltsRead(s, m) \in low..r.voltage
      BY <1>2, <2>1, <2>2, <3>1, ReadVolts
    <3> QED
      BY <1>2, <3>1, <3>2 DEF low
  <2>4. AmpsRead(s, m) <= r.current /\ AmpsRead(s, m) \in Nat
    BY <1>2, <2>1, ReadAmps
  <2>5. AmpsRead(s, m) <= IF VoltsRead(s, m) > 15000 THEN s.current20 ELSE s.current
    BY <1>1, <1>2, <2>2, <2>3, <2>4
  <2> QED
    BY <1>2, <1>6, <2>2, <2>3, <2>5 DEF Grants
<1>7. CASE s.type = "EPR_AVS_PDO"
  <2> DEFINE x == (m.high % 4096)
             y == (m.low % 128)
  <2>1. m.high = r.voltage \div 25 /\ m.low = r.current \div 50
    BY <1>2, <1>7 DEF Message
  <2>2. /\ r.voltage \in s.min..s.max /\ s.min % 100 = 0
        /\ r.voltage * r.current <= s.pdp * 10000 + 999
    BY <1>7 DEF Kept, Grants, IsSupply
  <2>0. s.min <= r.voltage /\ r.voltage < 65536
    BY <1>1, <1>2, <2>2
  <2>3. x * 25 \in s.min..r.voltage
    <3>1. ((r.voltage \div 25) % 4096) * 25 \in s.min..r.voltage
      BY <1>1, <1>2, <2>0, <2>2, ReadVolts
    <3> QED
      BY <2>1, <3>1
  <2>4. y * 50 <= r.current /\ y \in Nat
    BY <1>2, <2>1, ReadAmps
  <2>5. x \in Nat
    BY <1>2, <2>1
  <2>b. VoltsRead(s, m) = x * 25
    BY <1>7 DEF VoltsRead
  <2>c. AmpsRead(s, m) = y * 50
    BY <1>7 DEF AmpsRead
  <2> HIDE DEF x, y
  <2>6. (x * 25) * (y * 50) <= r.voltage * (y * 50)
    BY <1>1, <1>2, <2>3, <2>4, <2>5, Times
  <2>7. (y * 50) * r.voltage <= r.current * r.voltage
    BY <1>2, <2>4, Times
  <2>8. (x * 25) * (y * 50) <= r.voltage * r.current
    BY <1>2, <2>4, <2>5, <2>6, <2>7
  <2>9. (x * 25) * (y * 50) = 1250 * (x * y) /\ x * y \in Nat
    BY <2>4, <2>5
  <2>10. 1250 * (x * y) <= s.pdp * 10000
    <3> DEFINE xy == x * y
    <3>1. 1250 * xy <= s.pdp * 10000 + 999 /\ xy \in Nat
      BY <1>1, <1>2, <2>2, <2>8, <2>9
    <3> HIDE DEF xy
    <3>2. 1250 * xy <= s.pdp * 10000
      BY <1>1, <3>1
    <3> QED
      BY <3>2 DEF xy
  <2>11. VoltsRead(s, m) * AmpsRead(s, m) <= s.pdp * 10000 + 0
    BY <1>1, <2>b, <2>c, <2>9, <2>10
  <2> QED
    BY <1>1, <1>7, <2>b, <2>2, <2>3, <2>11 DEF Grants
<1> QED
  BY <1>1, <1>3, <1>4, <1>5, <1>6, <1>7 DEF Types

-----------------------------------------------------------------------------
(* A step and its clamps change the values alone.                          *)
Has(q, r, volts, amps, power) ==
    SameSupply(r, q) /\ q.voltage = volts /\ q.current = amps /\ q.power = power

LEMMA OneChanged ==
    ASSUME NEW r, IsRequest(r), NEW w
    PROVE  /\ Has([r EXCEPT !.voltage = w], r, w, r.current, r.power)
           /\ Has([r EXCEPT !.current = w], r, r.voltage, w, r.power)
           /\ Has([r EXCEPT !.power = w], r, r.voltage, r.current, w)
  BY DEF Has, IsRequest, SameSupply, Names

LEMMA Selects ==
    ASSUME NEW l \in Seq(Supplies), NEW p \in 0..Len(l) - 1, IsSupply(l[p + 1])
    PROVE  Kept(l[p + 1], Selected(l, p))
<1> DEFINE s == l[p + 1]
           q == Selected(l, p)
<1>1. /\ s.type \in Types /\ s.min \in Nat /\ s.max \in Nat /\ s.current \in Nat
      /\ s.pdp \in Nat /\ s.min <= s.max
      /\ s.type = "SPR_AVS_PDO" => s.current20 <= s.current
  BY SupplyFields DEF IsSupply
<1>2. q.type = s.type /\ q.voltage = (IF s.type = "SPR_AVS_PDO" THEN 9000 ELSE s.min)
  BY DEF Selected
<1>3. q.power = IF s.type \in {"BPDO", "EPR_AVS_PDO"} THEN s.pdp ELSE 0
  BY DEF Selected
<1>4. CASE s.type = "EPR_AVS_PDO"
  <2>1. q.current = IF s.min > 0 THEN Least(5000, AmpsAt(s.pdp, s.min)) ELSE 5000
    BY <1>4 DEF Selected
  <2>2. q.voltage = s.min /\ q.power = s.pdp
    BY <1>2, <1>3, <1>4
  <2>3. q.current \in Nat /\ s.min * q.current <= s.pdp * 10000 + 999
    <3>1. CASE s.min = 0
      BY <1>1, <2>1, <3>1
    <3>2. CASE s.min > 0
      <4> HIDE DEF s, q
      <4>0. AmpsAt(s.pdp, s.min) \in Nat
        BY <1>1, AmpsNat
      <4>1. q.current = Least(5000, AmpsAt(s.pdp, s.min))
        BY <2>1, <3>2
      <4>2. q.current \in Nat /\ q.current <= AmpsAt(s.pdp, s.min)
        BY <4>0, <4>1 DEF Least
      <4>3. s.min * q.current <= s.pdp * 10000
        BY <1>1, <4>2, AmpsGranted
      <4> QED
        BY <1>1, <4>2, <4>3
    <3> QED
      BY <1>1, <3>1, <3>2
  <2> HIDE DEF s, q
  <2> QED
    BY <1>1, <1>2, <1>4, <2>2, <2>3 DEF Kept, Numbers, Grants, s, q
<1>5. CASE s.type = "BPDO"
  <2>1. q.current = 0
    BY <1>5 DEF Selected
  <2> QED
    BY <1>1, <1>2, <1>3, <1>5, <2>1 DEF Kept, Numbers, Grants
<1>6. CASE s.type \notin {"BPDO", "EPR_AVS_PDO"}
  <2>1. q.current = s.current
    BY <1>6 DEF Selected
  <2> QED
    BY <1>1, <1>2, <1>3, <1>6, <2>1 DEF Kept, Numbers, Grants
<1> QED
  BY <1>4, <1>5, <1>6

(* What AvsAssumption says of a supply. *)
IsAvs(s) == s.type = "EPR_AVS_PDO" => s.min >= 15000 /\ s.pdp <= 25500

Overdrawn(s, r) == r.type = "EPR_AVS_PDO" /\ r.voltage * r.current > s.pdp * 10000

(* What AdjustMovesOneWay says of the request q after r, of which a field  *)
(* was to become v.                                                        *)
OneWay(s, r, q, field, v) ==
    /\ \A g \in Fields \ {field} : q[g] <= r[g]
    /\ v >= r[field] => \/ q[field] >= r[field]
                        \/ field = "current" /\ Overdrawn(s, r) /\ q[field] = r[field] - 1
    /\ v <= r[field] => q[field] <= r[field]

Steps(s, r, field, v) ==
    LET q == SetField(s, r, field, v)
    IN  Kept(s, q) /\ (IsAvs(s) => OneWay(s, r, q, field, v))

LEMMA CurrentSteps ==
    ASSUME NEW s, IsSupply(s), NEW r, IsRequest(r), Kept(s, r), r.type # "EPR_AVS_PDO",
           NEW v \in Int, FitsType("current", r.type)
    PROVE  Steps(s, r, "current", v)
<1> DEFINE most == CurrentMax(s, r)
           w == Clamp(v, 0, most)
           q == [r EXCEPT !.current = w]
<1>1. /\ s.type \in Types /\ s.current \in Nat /\ s.current20 \in Nat
      /\ r.type = s.type /\ r.voltage \in Nat /\ r.current \in Nat /\ r.power \in Nat
      /\ s.type # "BPDO"
  BY SupplyFields DEF IsSupply, Kept, Numbers, FitsType
<1>2. most = IF s.type = "SPR_AVS_PDO" /\ r.voltage > 15000 THEN s.current20 ELSE s.current
  BY <1>1 DEF CurrentMax
<1>3. most \in Nat /\ r.current <= most
  BY <1>1, <1>2 DEF Kept, Grants, Types
<1>4. SetField(s, r, "current", v) = q
  <2>1. Bounds(s, r, "current") = <<0, most>>
    BY DEF Bounds
  <2>2. q.type = r.type
    BY OneChanged DEF Has, SameSupply
  <2>3. ClampSprAvs(s, q, "current") = q
    BY DEF ClampSprAvs
  <2>4. ClampEprAvs(s, q, "current") = q
    BY <2>2 DEF ClampEprAvs
  <2> QED
    BY <2>1, <2>3, <2>4 DEF SetField
<1>5. /\ w \in Nat /\ w <= most
      /\ v >= r.current => w >= r.current
      /\ v <= r.current => w <= r.current
  <2> HIDE DEF most
  <2> QED
    BY <1>1, <1>3 DEF Clamp
<1>6. Has(q, r, r.voltage, w, r.power)
  <2> HIDE DEF w
  <2> QED
    BY OneChanged
<1> HIDE DEF most, w, q
<1>7. Kept(s, q)
  BY <1>1, <1>2, <1>3, <1>5, <1>6 DEF Kept, Numbers, Grants, Types, Has, SameSupply
<1>8. OneWay(s, r, q, "current", v)
  BY <1>1, <1>5, <1>6 DEF OneWay, Fields, Has
<1> QED
  BY <1>4, <1>7, <1>8 DEF Steps

LEMMA PowerSteps ==
    ASSUME NEW s, IsSupply(s), NEW r, IsRequest(r), Kept(s, r), r.type = "BPDO", NEW v \in Int
    PROVE  Steps(s, r, "power", v)
<1> DEFINE w == Clamp(v, 0, s.pdp)
           q == [r EXCEPT !.power = w]
<1>1. /\ s.pdp \in Nat
      /\ r.type = s.type /\ r.voltage \in Nat /\ r.current \in Nat /\ r.power \in Nat
  BY SupplyFields DEF IsSupply, Kept, Numbers
<1>2. r.power <= s.pdp /\ r.voltage \in s.min..s.max /\ r.current <= s.current
  BY <1>1 DEF Kept, Grants
<1>3. SetField(s, r, "power", v) = q
  <2>1. Bounds(s, r, "power") = <<0, s.pdp>>
    BY DEF Bounds
  <2>2. q.type = r.type
    BY OneChanged DEF Has, SameSupply
  <2>3. ClampSprAvs(s, q, "power") = q
    BY DEF ClampSprAvs
  <2>4. ClampEprAvs(s, q, "power") = q
    BY <2>2 DEF ClampEprAvs
  <2> QED
    BY <2>1, <2>3, <2>4 DEF SetField
<1>4. /\ w \in Nat /\ w <= s.pdp
      /\ v >= r.power => w >= r.power
      /\ v <= r.power => w <= r.power
  BY <1>1, <1>2 DEF Clamp
<1>5. Has(q, r, r.voltage, r.current, w)
  <2> HIDE DEF w
  <2> QED
    BY OneChanged
<1> HIDE DEF w, q
<1>6. Kept(s, q)
  <2>1. q.type = s.type /\ s.type = "BPDO"
    BY <1>1, <1>5 DEF Has, SameSupply
  <2>2. q.voltage = r.voltage /\ q.current = r.current /\ q.power = w
    BY <1>5 DEF Has
  <2> QED
    BY <1>1, <1>2, <1>4, <2>1, <2>2 DEF Kept, Numbers, Grants
<1>7. OneWay(s, r, q, "power", v)
  BY <1>1, <1>4, <1>5 DEF OneWay, Fields, Has
<1> QED
  BY <1>3, <1>6, <1>7 DEF Steps

LEMMA PpsVoltageSteps ==
    ASSUME NEW s, IsSupply(s), NEW r, IsRequest(r), Kept(s, r), r.type = "PPS_PDO", NEW v \in Int
    PROVE  Steps(s, r, "voltage", v)
<1> DEFINE w == Clamp(v, s.min, s.max)
           q == [r EXCEPT !.voltage = w]
<1>1. /\ s.min \in Nat /\ s.max \in Nat /\ s.min <= s.max /\ s.current \in Nat
      /\ r.type = s.type /\ r.voltage \in Nat /\ r.current \in Nat /\ r.power \in Nat
  BY SupplyFields DEF IsSupply, Kept, Numbers
<1>2. r.voltage \in s.min..s.max /\ r.current <= s.current /\ r.power <= s.pdp
  BY <1>1 DEF Kept, Grants
<1>3. SetField(s, r, "voltage", v) = q
  <2>1. Bounds(s, r, "voltage") = <<s.min, s.max>>
    BY DEF Bounds
  <2>2. q.type = r.type
    BY OneChanged DEF Has, SameSupply
  <2>3. ClampSprAvs(s, q, "voltage") = q
    BY <2>2 DEF ClampSprAvs
  <2>4. ClampEprAvs(s, q, "voltage") = q
    BY <2>2 DEF ClampEprAvs
  <2> QED
    BY <2>1, <2>3, <2>4 DEF SetField
<1>4. /\ w \in s.min..s.max
      /\ v >= r.voltage => w >= r.voltage
      /\ v <= r.voltage => w <= r.voltage
  BY <1>1, <1>2 DEF Clamp
<1>5. Has(q, r, w, r.current, r.power)
  <2> HIDE DEF w
  <2> QED
    BY OneChanged
<1> HIDE DEF w, q
<1>6. Kept(s, q)
  <2>1. q.type = s.type /\ s.type = "PPS_PDO"
    BY <1>1, <1>5 DEF Has, SameSupply
  <2>2. q.voltage = w /\ q.current = r.current /\ q.power = r.power
    BY <1>5 DEF Has
  <2> QED
    BY <1>1, <1>2, <1>4, <2>1, <2>2 DEF Kept, Numbers, Grants
<1>7. OneWay(s, r, q, "voltage", v)
  BY <1>1, <1>4, <1>5 DEF OneWay, Fields, Has
<1> QED
  BY <1>3, <1>6, <1>7 DEF Steps

LEMMA SprVoltageSteps ==
    ASSUME NEW s, IsSupply(s), NEW r, IsRequest(r), Kept(s, r), r.type = "SPR_AVS_PDO",
           NEW v \in Int
    PROVE  Steps(s, r, "voltage", v)
<1> DEFINE w == Clamp(v, 9000, 20000)
           p == [r EXCEPT !.voltage = w]
           most == CurrentMax(s, p)
           c == Least(r.current, most)
           q == [p EXCEPT !.current = c]
<1>1. /\ s.current \in Nat /\ s.current20 \in Nat
      /\ r.type = s.type /\ r.voltage \in Nat /\ r.current \in Nat /\ r.power \in Nat
  BY SupplyFields DEF IsSupply, Kept, Numbers
<1>2. r.voltage >= 9000 /\ r.voltage <= 20000
  BY <1>1 DEF Kept, Grants
<1>3. /\ w \in Nat /\ w >= 9000 /\ w <= 20000
      /\ v >= r.voltage => w >= r.voltage
      /\ v <= r.voltage => w <= r.voltage
  BY <1>1, <1>2 DEF Clamp
<1>4. Has(p, r, w, r.current, r.power)
  <2> HIDE DEF w
  <2> QED
    BY OneChanged
<1>5. IsRequest(p) /\ p.type = r.type
  BY <1>4 DEF Has, SameSupply
<1>6. most = IF w > 15000 THEN s.current20 ELSE s.current
  <2> HIDE DEF w, p
  <2> QED
    BY <1>4, <1>5 DEF CurrentMax, Has
<1>7. Has(q, r, w, c, r.power)
  <2> HIDE DEF w, p, c
  <2>1. Has(q, p, p.voltage, c, p.power)
    BY <1>5, OneChanged
  <2> QED
    BY <1>4, <2>1 DEF Has, SameSupply
<1>8. SetField(s, r, "voltage", v) = q
  <2>1. Bounds(s, r, "voltage") = <<9000, 20000>>
    BY DEF Bounds
  <2>2. p.current = r.current
    BY <1>4 DEF Has
  <2>3. ClampSprAvs(s, p, "voltage") = q
    <3> HIDE DEF w, p
    <3> QED
      BY <1>5, <2>2 DEF ClampSprAvs
  <2>4. ClampEprAvs(s, q, "voltage") = q
    <3> HIDE DEF q
    <3> QED
      BY <1>7 DEF ClampEprAvs, Has, SameSupply
  <2> HIDE DEF q
  <2> QED
    BY <2>1, <2>3, <2>4 DEF SetField
<1> HIDE DEF w, p, most, q
<1>9. c \in Nat /\ c <= r.current /\ c <= IF w > 15000 THEN s.current20 ELSE s.current
  BY <1>1, <1>6 DEF Least
<1> HIDE DEF c
<1>10. Kept(s, q)
  <2>1. q.type = s.type /\ s.type = "SPR_AVS_PDO"
    BY <1>1, <1>7 DEF Has, SameSupply
  <2>2. q.voltage = w /\ q.current = c /\ q.power = r.power
    BY <1>7 DEF Has
  <2> QED
    BY <1>1, <1>3, <1>9, <2>1, <2>2 DEF Kept, Numbers, Grants
<1>11. OneWay(s, r, q, "voltage", v)
  BY <1>1, <1>3, <1>7, <1>9 DEF OneWay, Fields, Has
<1> QED
  BY <1>8, <1>10, <1>11 DEF Steps

(* What clamp_epr_avs_pdp compares. *)
LEMMA Milliwatts ==
    ASSUME NEW n \in Nat, NEW p \in Nat
    PROVE  /\ n \div 1000 > p * 10 => n > p * 10000
           /\ ~(n \div 1000 > p * 10) => n <= p * 10000 + 999
           /\ n <= p * 10000 => ~(n \div 1000 > p * 10)
  OBVIOUS

LEMMA TimesLess ==
    ASSUME NEW a \in Nat, NEW b \in Nat, NEW c \in Nat, a * c < b * c
    PROVE  a < b
<1>1. b <= a => b * c <= a * c
  BY Times
<1>2. a * c \in Nat /\ b * c \in Nat
  OBVIOUS
<1> QED
  BY <1>1, <1>2

LEMMA EprVoltageSteps ==
    ASSUME NEW s, IsSupply(s), NEW r, IsRequest(r), Kept(s, r), r.type = "EPR_AVS_PDO",
           NEW v \in Int
    PROVE  Steps(s, r, "voltage", v)
<1> DEFINE w == Clamp(v, s.min, s.max)
           p == [r EXCEPT !.voltage = w]
           a == AmpsAt(s.pdp, w)
           q == SetField(s, r, "voltage", v)
<1>1. /\ s.min \in Nat /\ s.max \in Nat /\ s.min <= s.max /\ s.pdp \in Nat
      /\ r.type = s.type /\ r.voltage \in Nat /\ r.current \in Nat /\ r.power \in Nat
  BY SupplyFields DEF IsSupply, Kept, Numbers
<1>2. r.voltage \in s.min..s.max
  BY <1>1 DEF Kept, Grants
<1>3. /\ w \in s.min..s.max /\ w \in Nat
      /\ v >= r.voltage => w >= r.voltage
      /\ v <= r.voltage => w <= r.voltage
  BY <1>1, <1>2 DEF Clamp
<1>4. Has(p, r, w, r.current, r.power)
  <2> HIDE DEF w
  <2> QED
    BY OneChanged
<1>5. IsRequest(p) /\ p.type = "EPR_AVS_PDO" /\ p.voltage = w /\ p.current = r.current
  BY <1>4 DEF Has, SameSupply
<1>6. q = IF (w * r.current) \div 1000 > s.pdp * 10 THEN [p EXCEPT !.current = a] ELSE p
  <2>1. Bounds(s, r, "voltage") = <<s.min, s.max>>
    BY DEF Bounds
  <2>2. ClampSprAvs(s, p, "voltage") = p
    BY <1>5 DEF ClampSprAvs
  <2>3. q = ClampEprAvs(s, p, "voltage")
    BY <2>1, <2>2 DEF SetField
  <2> HIDE DEF w, p, q
  <2> QED
    BY <1>5, <2>3 DEF ClampEprAvs
<1> HIDE DEF w, p, q
<1> SUFFICES \E c \in Nat : /\ Has(q, r, w, c, r.power) /\ c <= r.current
                            /\ w * c <= s.pdp * 10000 + 999
  <2> SUFFICES ASSUME NEW c \in Nat, Has(q, r, w, c, r.power), c <= r.current,
                      w * c <= s.pdp * 10000 + 999
               PROVE  Steps(s, r, "voltage", v)
    OBVIOUS
  <2>1. Kept(s, q)
    <3>1. q.type = s.type /\ s.type = "EPR_AVS_PDO"
      BY <1>1 DEF Has, SameSupply
    <3>2. q.voltage = w /\ q.current = c /\ q.power = r.power
      BY DEF Has
    <3> QED
      BY <1>1, <1>3, <3>1, <3>2 DEF Kept, Numbers, Grants
  <2>2. OneWay(s, r, q, "voltage", v)
    BY <1>1, <1>3 DEF OneWay, Fields, Has
  <2> QED
    BY <2>1, <2>2 DEF Steps, q
<1> DEFINE n == w * r.current
<1>7. n \in Nat
  BY <1>1, <1>3
<1>8. CASE n \div 1000 > s.pdp * 10
  <2>1. q = [p EXCEPT !.current = a]
    BY <1>6, <1>8
  <2>2. Has(q, r, w, a, r.power)
    <3> HIDE DEF a
    <3>1. Has(q, p, p.voltage, a, p.power)
      BY <1>5, <2>1, OneChanged
    <3> QED
      BY <1>4, <3>1 DEF Has, SameSupply
  <2>a. AmpsAt(s.pdp, w) \in Nat
    BY <1>1, <1>3, AmpsNat
  <2>3. a \in Nat /\ a * w <= s.pdp * 10000
    <3>1. a \in Nat /\ a <= AmpsAt(s.pdp, w)
      BY <2>a
    <3> HIDE DEF a
    <3>2. w * a <= s.pdp * 10000
      BY <1>1, <1>3, <3>1, AmpsGranted
    <3> QED
      BY <1>3, <3>1, <3>2
  <2>4. n > s.pdp * 10000
    <3> HIDE DEF n
    <3> QED
      BY <1>1, <1>7, <1>8, Milliwatts
  <2> HIDE DEF a
  <2>5. a * w < r.current * w
    BY <1>1, <1>3, <2>3, <2>4
  <2>6. a <= r.current
    BY <1>1, <1>3, <2>3, <2>5, TimesLess
  <2>7. w * a <= s.pdp * 10000 + 999
    BY <1>1, <1>3, <2>3
  <2> QED
    BY <2>2, <2>3, <2>6, <2>7
<1>9. CASE ~(n \div 1000 > s.pdp * 10)
  <2>1. Has(q, r, w, r.current, r.power)
    BY <1>4, <1>6, <1>9
  <2>2. n <= s.pdp * 10000 + 999
    <3> HIDE DEF n
    <3> QED
      BY <1>1, <1>7, <1>9, Milliwatts
  <2> QED
    BY <1>1, <2>1, <2>2
<1> QED
  BY <1>8, <1>9

LEMMA EprCurrentSteps ==
    ASSUME NEW s, IsSupply(s), NEW r, IsRequest(r), Kept(s, r), r.type = "EPR_AVS_PDO",
           NEW v \in Int
    PROVE  Steps(s, r, "current", v)
<1> DEFINE a == AmpsAt(s.pdp, r.voltage)
           w == Clamp(v, 0, a)
           q == [r EXCEPT !.current = w]
<1>1. /\ s.pdp \in Nat /\ s.min \in Nat /\ s.max \in Nat
      /\ r.type = s.type /\ r.voltage \in Nat /\ r.current \in Nat /\ r.power \in Nat
  BY SupplyFields DEF IsSupply, Kept, Numbers
<1>2. r.voltage \in s.min..s.max /\ r.voltage * r.current <= s.pdp * 10000 + 999
  BY <1>1 DEF Kept, Grants
<1>3. a \in Nat
  BY <1>1, AmpsNat
<1>4. w \in Nat /\ w <= a
  <2> HIDE DEF a
  <2> QED
    BY <1>3 DEF Clamp
<1>5. r.voltage * w <= s.pdp * 10000
  <2> HIDE DEF w
  <2> QED
    BY <1>1, <1>4, AmpsGranted
<1>6. Has(q, r, r.voltage, w, r.power)
  <2> HIDE DEF w
  <2> QED
    BY OneChanged
<1>7. SetField(s, r, "current", v) = q
  <2>1. Bounds(s, r, "current") = <<0, a>>
    BY DEF Bounds, CurrentMax
  <2>2. ClampSprAvs(s, q, "current") = q
    BY DEF ClampSprAvs
  <2>3. SetField(s, r, "current", v) = ClampEprAvs(s, q, "current")
    BY <2>1, <2>2 DEF SetField
  <2> DEFINE n == r.voltage * w
  <2>4. n \in Nat
    BY <1>1, <1>4
  <2>5. ~(n \div 1000 > s.pdp * 10)
    <3>1. n <= s.pdp * 10000
      BY <1>5
    <3> HIDE DEF n
    <3> QED
      BY <1>1, <2>4, <3>1, Milliwatts
  <2>6. ~((q.voltage * q.current) \div 1000 > s.pdp * 10)
    <3>1. q.voltage * q.current = n
      BY <1>6 DEF Has
    <3> HIDE DEF n, q
    <3> QED
      BY <2>5, <3>1
  <2> HIDE DEF q, n
  <2> QED
    BY <2>3, <2>6 DEF ClampEprAvs
<1> HIDE DEF q
<1>8. Kept(s, q)
  <2> HIDE DEF w
  <2>1. q.type = s.type /\ s.type = "EPR_AVS_PDO"
    BY <1>1, <1>6 DEF Has, SameSupply
  <2>2. q.voltage = r.voltage /\ q.current = w /\ q.power = r.power
    BY <1>6 DEF Has
  <2>3. r.voltage * w <= s.pdp * 10000 + 999
    BY <1>1, <1>4, <1>5
  <2> QED
    BY <1>1, <1>2, <1>4, <2>1, <2>2, <2>3 DEF Kept, Numbers, Grants
<1>9. ASSUME IsAvs(s) PROVE OneWay(s, r, q, "current", v)
  <2>1. s.min >= 15000 /\ s.pdp <= 25500 /\ r.voltage >= 15000
    BY <1>1, <1>2, <1>9 DEF IsAvs
  <2> DEFINE m == (s.pdp * 10000) \div r.voltage
  <2>2. m \in Nat /\ m * r.voltage <= s.pdp * 10000 /\ s.pdp * 10000 < m * r.voltage + r.voltage
    <3> DEFINE n == s.pdp * 10000
    <3>1. n \in Nat /\ r.voltage \in Nat \ {0}
      BY <1>1, <2>1
    <3> HIDE DEF n
    <3>2. /\ n \div r.voltage \in Nat /\ (n \div r.voltage) * r.voltage <= n
          /\ n < (n \div r.voltage) * r.voltage + r.voltage
      BY <3>1, Divides
    <3> QED
      BY <3>2 DEF n
  <2>3. a = U16(m)
    BY <1>1, <2>1 DEF AmpsAt
  <2> HIDE DEF m, a
  <2>4. m < 65536
    <3>1. m * r.voltage < 65536 * r.voltage
      BY <1>1, <2>1, <2>2
    <3> QED
      BY <1>1, <2>2, <3>1, TimesLess
  <2>5. a = m
    BY <2>2, <2>3, <2>4 DEF U16
  <2>6. r.current <= m + 1
    <3>1. r.current * r.voltage < (m + 2) * r.voltage
      BY <1>1, <1>2, <2>1, <2>2
    <3> QED
      BY <1>1, <2>2, <3>1, TimesLess
  <2>7. r.current = m + 1 => Overdrawn(s, r)
    BY <1>1, <2>2 DEF Overdrawn
  <2>8. /\ v >= r.current => w >= r.current \/ (r.current = m + 1 /\ w = m)
        /\ v <= r.current => w <= r.current
    BY <1>1, <2>2, <2>5, <2>6 DEF Clamp
  <2> HIDE DEF w
  <2>9. \A g \in Fields \ {"current"} : q[g] <= r[g]
    BY <1>1, <1>6 DEF Fields, Has
  <2>10. q["current"] = w
    BY <1>6 DEF Has
  <2> QED
    BY <1>1, <1>4, <2>2, <2>7, <2>8, <2>9, <2>10 DEF OneWay
<1> QED
  BY <1>7, <1>8, <1>9 DEF Steps

(* A value that a command sets, or that a step moves. *)
LEMMA FieldSteps ==
    ASSUME NEW s, IsSupply(s), NEW r, IsRequest(r), Kept(s, r),
           NEW field \in Fields, FitsType(field, r.type), NEW v \in Int
    PROVE  Steps(s, r, field, v)
<1>1. r.type = s.type /\ s.type \in Types
  BY SupplyFields DEF IsSupply, Kept
<1>2. CASE field = "power"
  <2>1. r.type = "BPDO"
    BY <1>1, <1>2 DEF FitsType, Types
  <2> QED
    BY <1>2, <2>1, PowerSteps
<1>3. CASE field = "current"
  BY <1>3, CurrentSteps, EprCurrentSteps
<1>4. CASE field = "voltage"
  <2>1. r.type \in {"PPS_PDO", "SPR_AVS_PDO", "EPR_AVS_PDO"}
    BY <1>1, <1>4 DEF FitsType, Types
  <2> QED
    BY <1>4, <2>1, PpsVoltageSteps, SprVoltageSteps, EprVoltageSteps
<1> QED
  BY <1>2, <1>3, <1>4 DEF Fields

LEMMA SelectedIsKept ==
    ASSUME NEW l \in Seq(Supplies), \A p \in 0..Len(l) - 1 : IsSupply(l[p + 1]),
           NEW p \in 0..Len(l) - 1
    PROVE  Kept(Supply(l, Selected(l, p)), Selected(l, p))
<1>1. Selected(l, p).pos = p
  BY DEF Selected
<1>2. Kept(l[p + 1], Selected(l, p))
  BY Selects
<1> QED
  BY <1>1, <1>2 DEF Supply

(* cmd_execute_immediate keeps what the supply grants. *)
LEMMA ExecutedIsKept ==
    ASSUME NEW l \in Seq(Supplies), Len(l) \in 1..15, l[1] # Empty,
           \A p \in 0..Len(l) - 1 : IsSupply(l[p + 1]),
           NEW r, RequestFor(l, r), Kept(Supply(l, r), r), NEW c \in Commands
    PROVE  Kept(Supply(l, Executed(l, r, c)), Executed(l, r, c))
<1> DEFINE s == Supply(l, r)
           field == FieldOf(c.type)
<1>1. c.type \in CmdTypes /\ c.value \in Int
  BY DEF Commands
<1>2. r.pos \in 0..Len(l) - 1 /\ l[r.pos + 1] # Empty /\ IsRequest(r)
  BY DEF RequestFor, Supply
<1>3. IsSupply(s)
  BY <1>2 DEF Supply
<1>4. CASE field # "none"
  <2>0. c.type \notin {"SELECT_PDO", "NEXT_PDO", "PREV_PDO"} /\ field \in Fields
    BY <1>1, <1>4 DEF FieldOf, Fields, CmdTypes
  <2>1. CASE FitsType(field, r.type)
    <3> DEFINE v == IF c.type \in {"SET_VOLTAGE", "SET_CURRENT", "SET_POWER"} THEN c.value
                    ELSE r[field] + Int16(c.value)
               q == SetField(s, r, field, v)
    <3>1. Executed(l, r, c) = q
      BY <1>4, <2>0, <2>1 DEF Executed
    <3>2. v \in Int
      BY <1>1, <2>0 DEF Kept, Numbers, Fields, Int16
    <3> HIDE DEF v
    <3>3. Kept(s, q)
      <4>1. Steps(s, r, field, v)
        BY <1>2, <1>3, <2>0, <2>1, <3>2, FieldSteps
      <4> QED
        BY <4>1 DEF Steps
    <3>4. q.pos = r.pos
      BY <1>2, <2>0, FieldSet DEF SameSupply
    <3> HIDE DEF q
    <3> QED
      BY <3>1, <3>3, <3>4 DEF Supply
  <2>2. CASE ~FitsType(field, r.type)
    <3>1. Executed(l, r, c) = r
      BY <1>4, <2>0, <2>2 DEF Executed
    <3> QED
      BY <3>1
  <2> QED
    BY <2>1, <2>2
<1>5. CASE field = "none"
  <2>1. CASE Selecting(l, c)
    BY <1>2, <2>1, SelectingSelects, SelectedIsKept
  <2>2. CASE ~Selecting(l, c)
    BY <1>5, <2>2, OthersDoNothing
  <2> QED
    BY <2>1, <2>2
<1> QED
  BY <1>4, <1>5

(* One step of the keys or the host, as AdjustMovesOneWay says it. *)
LEMMA ExecutedMovesOneWay ==
    ASSUME NEW l \in Seq(Supplies),
           \A p \in 0..Len(l) - 1 : IsSupply(l[p + 1]) /\ IsAvs(l[p + 1]),
           NEW r, RequestFor(l, r), Kept(Supply(l, r), r), NEW c \in Commands,
           c.type \in {"ADJUST_VOLTAGE", "ADJUST_CURRENT", "ADJUST_POWER"},
           Int16(c.value) = c.value
    PROVE  LET q == Executed(l, r, c)
               f == FieldOf(c.type)
           IN  /\ c.value >= 0 => \/ q[f] >= r[f]
                                  \/ f = "current" /\ Overdraws(l, r) /\ q[f] = r[f] - 1
               /\ c.value <= 0 => q[f] <= r[f]
               /\ \A g \in Fields \ {f} : q[g] <= r[g]
<1> DEFINE s == Supply(l, r)
           field == FieldOf(c.type)
           v == r[field] + Int16(c.value)
<1>1. field \in Fields /\ field # "none" /\ c.value \in Int
  BY DEF FieldOf, Fields, Commands
<1>2. \A g \in Fields : r[g] \in Nat
  BY DEF Kept, Numbers, Fields
<1>3. IsRequest(r) /\ IsSupply(s) /\ IsAvs(s)
  BY DEF RequestFor, Supply
<1>4. CASE FitsType(field, r.type)
  <2>1. Executed(l, r, c) = SetField(s, r, field, v)
    BY <1>1, <1>4 DEF Executed
  <2>2. v \in Int /\ (c.value >= 0 => v >= r[field]) /\ (c.value <= 0 => v <= r[field])
    BY <1>1, <1>2
  <2> HIDE DEF v
  <2>3. Steps(s, r, field, v)
    BY <1>1, <1>3, <1>4, <2>2, FieldSteps
  <2> DEFINE q == SetField(s, r, field, v)
  <2>4. OneWay(s, r, q, field, v)
    BY <1>3, <2>3 DEF Steps
  <2> HIDE DEF q
  <2> QED
    BY <2>1, <2>2, <2>4 DEF OneWay, Overdrawn, Overdraws, q
<1>5. CASE ~FitsType(field, r.type)
  <2>1. Executed(l, r, c) = r
    BY <1>1, <1>5 DEF Executed
  <2> QED
    BY <1>1, <1>2, <2>1
<1> QED
  BY <1>4, <1>5

-----------------------------------------------------------------------------
RequestInv ==
    /\ cmd_queue \in Seq(Commands) /\ Len(cmd_queue) <= CmdSlots
    /\ pdos # <<>> => pdos \in Seq(Supplies) /\ Len(pdos) \in 1..15 /\ pdos[1] # Empty
    /\ answered => pdos # <<>> /\ RequestFor(pdos, rdo)
    /\ rdo.pos \in Nat

LEMMA KeysGiveCommands ==
    ASSUME NEW e
    PROVE  KeyCommands(e) = <<>> \/ \E c \in Commands : KeyCommands(e) = <<c>>
<1>1. MinStep(rdo.type, modify_field) \in Int
  BY DEF MinStep
<1>2. ASSUME NEW t \in CmdTypes, NEW v \in Int PROVE \E c \in Commands : Cmd(t, v) = <<c>>
  BY DEF Cmd, Commands
<1>3. Sign(e) * MinStep(rdo.type, modify_field) * (IF e[2] = "CLICK" THEN 1 ELSE 10) \in Int
  BY <1>1 DEF Sign
<1> QED
  BY <1>2, <1>3 DEF KeyCommands, CmdTypes

(* The command a waiting pass carries out. *)
LEMMA PassExecutes ==
    ASSUME cmd_queue \in Seq(Commands), NEW e, process_next(e),
           ~(rdo' = rdo /\ (answered' <=> answered))
    PROVE  /\ pdos # <<>> /\ pdos' = pdos /\ answered'
           /\ \E c \in Commands : /\ answered \/ Selecting(pdos, c)
                                  /\ rdo' = Executed(pdos, rdo, c)
                                  /\ cmd_queue # <<>> => c = Head(cmd_queue)
<1> DEFINE queue == Pushed(cmd_queue, KeyCommands(e))
           fits  == queue # <<>> /\ pdos # <<>> /\ (answered \/ Selecting(pdos, Head(queue)))
<1>1. /\ rdo' = IF fits THEN Executed(pdos, rdo, Head(queue)) ELSE rdo
      /\ answered' = (answered \/ fits)
      /\ pdos' = pdos
  BY DEF process_next
<1>2. queue \in Seq(Commands) /\ (cmd_queue # <<>> => Head(queue) = Head(cmd_queue))
  <2>1. CASE KeyCommands(e) = <<>>
    <3>1. queue = cmd_queue
      BY <2>1, ConcatEmptySeq DEF Pushed
    <3> QED
      BY <3>1
  <2>2. ASSUME NEW c \in Commands, KeyCommands(e) = <<c>>
        PROVE  queue \in Seq(Commands) /\ (cmd_queue # <<>> => Head(queue) = Head(cmd_queue))
    BY <2>2 DEF Pushed
  <2> QED
    BY <2>1, <2>2, KeysGiveCommands
<1>3. fits
  <2> HIDE DEF fits
  <2>1. CASE ~fits
    <3>1. rdo' = rdo
      BY <1>1, <2>1
    <3>2. answered' <=> answered
      BY <1>1, <2>1
    <3> QED
      BY <3>1, <3>2
  <2> QED
    BY <2>1
<1>4. Head(queue) \in Commands
  BY <1>2, <1>3, HeadTailProperties
<1>5. rdo' = Executed(pdos, rdo, Head(queue)) /\ answered'
  <2> HIDE DEF fits
  <2> QED
    BY <1>1, <1>3
<1> HIDE DEF queue
<1> QED
  BY <1>1, <1>2, <1>3, <1>4, <1>5

(* The queue holds commands, and the request names a slot in use. *)
THEOREM RequestInvHolds == Spec => []RequestInv
<1>1. Init => RequestInv
  BY CommandAssumption, EmptySeq DEF Init, RequestInv, CommandAssumption, NoRequest
<1>p. ASSUME RequestInv, NEW q, q = <<>> \/ \E c \in Commands : q = <<c>>
      PROVE  /\ Pushed(cmd_queue, q) \in Seq(Commands) /\ Len(Pushed(cmd_queue, q)) <= CmdSlots
  <2>1. q \in Seq(Commands) /\ Len(q) <= 1
    <3>1. CASE q = <<>>
      BY <3>1
    <3>2. ASSUME NEW c \in Commands, q = <<c>> PROVE q \in Seq(Commands) /\ Len(q) <= 1
      BY <3>2
    <3> QED
      BY <1>p, <3>1, <3>2
  <2>2. cmd_queue \o q \in Seq(Commands) /\ Len(cmd_queue \o q) = Len(cmd_queue) + Len(q)
    BY <1>p, <2>1, ConcatProperties DEF RequestInv
  <2> QED
    BY <1>p, <2>1, <2>2, CommandAssumption, LenProperties
       DEF Pushed, RequestInv, CommandAssumption
<1>2. RequestInv /\ [Next]_vars => RequestInv'
  <2> SUFFICES ASSUME RequestInv, [Next]_vars PROVE RequestInv'
    OBVIOUS
  <2>1. ASSUME NEW c \in HostCommands, HostCommand(c) PROVE RequestInv'
    <3>1. c \in Commands
      BY CommandAssumption DEF CommandAssumption
    <3>2. cmd_queue' \in Seq(Commands) /\ Len(cmd_queue') <= CmdSlots
      BY <1>p, <2>1, <3>1 DEF HostCommand
    <3> QED
      BY <2>1, <3>2 DEF HostCommand, RequestInv
  <2>2. ASSUME NEW l \in Lists, NewList(l) PROVE RequestInv'
    <3>1. l \in Seq(Supplies) /\ Len(l) \in 1..15 /\ l[1] # Empty
      BY ListAssumption DEF ListAssumption
    <3>2. RequestFor(l, Selected(l, 0)) /\ Selected(l, 0).pos \in Nat
      <4>1. RequestFor(l, Selected(l, 0))
        BY <3>1, SelectedIsRequest
      <4> QED
        BY <3>1, <4>1 DEF RequestFor
    <3>3. l # <<>>
      BY <3>1
    <3> QED
      BY <2>2, <3>1, <3>2, <3>3 DEF NewList, ParsePdos, AutoReply, RequestInv
  <2>3. CASE ConnectChange
    BY <2>3, CommandAssumption, EmptySeq
       DEF ConnectChange, RequestInv, CommandAssumption, NoRequest
  <2>4. ASSUME NEW e \in KeyEvents, process_next(e) PROVE RequestInv'
    <3> DEFINE queue == Pushed(cmd_queue, KeyCommands(e))
    <3>1. queue \in Seq(Commands) /\ Len(queue) <= CmdSlots
      BY <1>p, KeysGiveCommands
    <3>2. /\ cmd_queue' = IF queue = <<>> THEN queue ELSE Tail(queue)
          /\ UNCHANGED pdos
      BY <2>4 DEF process_next
    <3>3. queue # <<>> => /\ Tail(queue) \in Seq(Commands) /\ Len(Tail(queue)) = Len(queue) - 1
      BY <3>1, HeadTailProperties
    <3>4. cmd_queue' \in Seq(Commands) /\ Len(cmd_queue') <= CmdSlots
      <4> HIDE DEF queue
      <4> QED
        BY <3>1, <3>2, <3>3, LenProperties, CommandAssumption DEF CommandAssumption
    <3>5. CASE rdo' = rdo /\ (answered' <=> answered)
      BY <3>2, <3>4, <3>5 DEF RequestInv
    <3>6. CASE ~(rdo' = rdo /\ (answered' <=> answered))
      <4>1. PICK c \in Commands : /\ pdos # <<>> /\ answered'
                                  /\ answered \/ Selecting(pdos, c)
                                  /\ rdo' = Executed(pdos, rdo, c)
        BY <2>4, <3>6, PassExecutes DEF RequestInv
      <4>2. pdos \in Seq(Supplies) /\ Len(pdos) \in 1..15 /\ pdos[1] # Empty
        BY <4>1 DEF RequestInv
      <4>3. RequestFor(pdos, rdo')
        <5>1. CASE answered
          BY <4>1, <4>2, <5>1, ExecutedIsRequest DEF RequestInv
        <5>2. CASE Selecting(pdos, c)
          <6>1. rdo.pos \in Nat
            BY DEF RequestInv
          <6> QED
            BY <4>1, <4>2, <5>2, <6>1, SelectingSelects, SelectedIsRequest
        <5> QED
          BY <4>1, <5>1, <5>2
      <4>4. rdo'.pos \in Nat
        BY <4>2, <4>3 DEF RequestFor
      <4> QED
        BY <3>2, <3>4, <4>1, <4>2, <4>3, <4>4 DEF RequestInv
    <3> QED
      BY <3>5, <3>6
  <2>5. CASE UNCHANGED vars
    BY <2>5 DEF vars, RequestInv
  <2> QED
    BY <2>1, <2>2, <2>3, <2>4, <2>5 DEF Next
<1> QED
  BY <1>1, <1>2, PTL DEF Spec

(* However keys and host mix, and whatever waits in the queue for a list   *)
(* that has been replaced, a request made for the present list names a     *)
(* slot in use of it, by its own type and its own PDO, also when it was    *)
(* chosen from where a request for another list stood                      *)
(* (cmd_execute_immediate, find_valid_pdo_pos, auto_reply); and the queue  *)
(* keeps its size.                                                         *)
THEOREM RequestsName == Spec => [](RequestNamed /\ Len(cmd_queue) <= CmdSlots)
<1>1. RequestInv => RequestNamed /\ Len(cmd_queue) <= CmdSlots
  BY DEF RequestInv, RequestNamed, RequestFor
<1> QED
  BY <1>1, RequestInvHolds, PTL

-----------------------------------------------------------------------------
LEMMA OfLists ==
    ASSUME NEW l \in Lists
    PROVE  /\ l \in Seq(Supplies) /\ Len(l) \in 1..15 /\ l[1] # Empty
           /\ \A p \in 0..Len(l) - 1 : IsSupply(l[p + 1]) /\ IsAvs(l[p + 1])
<1>1. l \in Seq(Supplies) /\ Len(l) \in 1..15 /\ l[1] # Empty
  BY ListAssumption DEF ListAssumption
<1>2. ASSUME NEW p \in 0..Len(l) - 1 PROVE IsSupply(l[p + 1]) /\ IsAvs(l[p + 1])
  <2>1. p + 1 \in 1..Len(l)
    BY <1>1
  <2>2. l[p + 1] \in Supplies
    BY <1>1, <2>1
  <2>3. IsSupply(l[p + 1])
    BY <2>1, <2>2, SupplyAssumption DEF SupplyAssumption, IsSupply
  <2>4. IsAvs(l[p + 1])
    BY <2>1, AvsAssumption DEF AvsAssumption, IsAvs
  <2> QED
    BY <2>3, <2>4
<1> QED
  BY <1>1, <1>2

KeptInv ==
    /\ pdos # <<>> => pdos \in Lists
    /\ answered => Kept(Supply(pdos, rdo), rdo)

LEMMA KeptInvHolds == Spec => []KeptInv
<1>1. Init => KeptInv
  BY DEF Init, KeptInv
<1>2. RequestInv /\ KeptInv /\ [Next]_vars => KeptInv'
  <2> SUFFICES ASSUME RequestInv, KeptInv, [Next]_vars PROVE KeptInv'
    OBVIOUS
  <2>1. ASSUME NEW c \in HostCommands, HostCommand(c) PROVE KeptInv'
    BY <2>1 DEF HostCommand, KeptInv
  <2>2. ASSUME NEW l \in Lists, NewList(l) PROVE KeptInv'
    <3>1. Kept(Supply(l, Selected(l, 0)), Selected(l, 0))
      <4>1. l \in Seq(Supplies) /\ 0 \in 0..Len(l) - 1
        BY OfLists
      <4> QED
        BY <4>1, OfLists, SelectedIsKept
    <3> QED
      BY <2>2, <3>1 DEF NewList, ParsePdos, AutoReply, KeptInv
  <2>3. CASE ConnectChange
    BY <2>3 DEF ConnectChange, KeptInv
  <2>4. ASSUME NEW e \in KeyEvents, process_next(e) PROVE KeptInv'
    <3>1. CASE rdo' = rdo /\ (answered' <=> answered)
      BY <2>4, <3>1 DEF process_next, KeptInv
    <3>2. CASE ~(rdo' = rdo /\ (answered' <=> answered))
      <4>1. PICK c \in Commands : /\ pdos # <<>> /\ pdos' = pdos
                                  /\ answered \/ Selecting(pdos, c)
                                  /\ rdo' = Executed(pdos, rdo, c)
        BY <2>4, <3>2, PassExecutes DEF RequestInv
      <4>2. pdos \in Lists
        BY <4>1 DEF KeptInv
      <4>3. Kept(Supply(pdos, rdo'), rdo')
        <5>1. CASE answered
          <6>1. Kept(Supply(pdos, rdo), rdo) /\ RequestFor(pdos, rdo)
            BY <5>1 DEF KeptInv, RequestInv
          <6> QED
            BY <4>1, <4>2, <6>1, OfLists, ExecutedIsKept
        <5>2. CASE Selecting(pdos, c)
          <6>1. rdo.pos \in Nat
            BY DEF RequestInv
          <6> QED
            BY <4>1, <4>2, <5>2, <6>1, OfLists, SelectingSelects, SelectedIsKept
        <5> QED
          BY <4>1, <5>1, <5>2
      <4> QED
        BY <4>1, <4>2, <4>3 DEF KeptInv
    <3> QED
      BY <3>1, <3>2
  <2>5. CASE UNCHANGED vars
    BY <2>5 DEF vars, KeptInv
  <2> QED
    BY <2>1, <2>2, <2>3, <2>4, <2>5 DEF Next
<1> QED
  BY <1>1, <1>2, RequestInvHolds, PTL DEF Spec

(* Whatever keys and host do, a request made for the present list asks for *)
(* what the supply it names grants, by the values the other side reads,    *)
(* and by those the sink keeps but for a milliwatt (select_and_send_rdo,   *)
(* apply_step, the clamps, build_rdo_msg).                                 *)
THEOREM RequestsGranted == Spec => []RequestGranted
<1>1. RequestInv /\ KeptInv => RequestGranted
  <2> SUFFICES ASSUME RequestInv, KeptInv PROVE RequestGranted
    OBVIOUS
  <2>1. RequestNamed
    BY DEF RequestInv, RequestNamed, RequestFor
  <2>2. ASSUME answered
        PROVE  LET s == Supply(pdos, rdo)
                   m == Message(rdo)
               IN  /\ Grants(s, rdo.voltage, rdo.current, rdo.power, 999)
                   /\ Grants(s, VoltsRead(s, m), AmpsRead(s, m), PowerRead(s, m), 0)
    <3>1. Kept(Supply(pdos, rdo), rdo) /\ IsSupply(Supply(pdos, rdo))
      BY <2>2, OfLists DEF KeptInv, RequestInv, RequestFor, Supply
    <3> QED
      BY <3>1, ReadIsGranted DEF Kept
  <2> QED
    BY <2>1, <2>2 DEF RequestGranted
<1> QED
  BY <1>1, RequestInvHolds, KeptInvHolds, PTL

(* Of a request made for the present list, a step of a key or of the host  *)
(* moves the value it names in its own direction and raises no other       *)
(* (apply_step, clamp_spr_avs_current, clamp_epr_avs_pdp).                 *)
THEOREM StepsMoveOneWay == Spec => AdjustMovesOneWay
<1>1. RequestInv /\ KeptInv /\ [Next]_vars => [StepMovesOneWay]_vars
  <2> SUFFICES ASSUME RequestInv, KeptInv, Next, answered,
                      cmd_queue # <<>>, cmd_queue' = Tail(cmd_queue), pdos' = pdos
               PROVE  LET c == Head(cmd_queue)
                          f == FieldOf(c.type)
                      IN  (/\ c.type \in {"ADJUST_VOLTAGE", "ADJUST_CURRENT", "ADJUST_POWER"}
                           /\ Int16(c.value) = c.value) =>
                            /\ c.value >= 0 => \/ rdo'[f] >= rdo[f]
                                               \/ /\ f = "current" /\ Overdraws(pdos, rdo)
                                                  /\ rdo'[f] = rdo[f] - 1
                            /\ c.value <= 0 => rdo'[f] <= rdo[f]
                            /\ \A g \in Fields \ {f} : rdo'[g] <= rdo[g]
    BY DEF StepMovesOneWay
  <2> DEFINE c == Head(cmd_queue)
             f == FieldOf(c.type)
  <2> SUFFICES ASSUME c.type \in {"ADJUST_VOLTAGE", "ADJUST_CURRENT", "ADJUST_POWER"},
                      Int16(c.value) = c.value
               PROVE  /\ c.value >= 0 => \/ rdo'[f] >= rdo[f]
                                         \/ /\ f = "current" /\ Overdraws(pdos, rdo)
                                            /\ rdo'[f] = rdo[f] - 1
                      /\ c.value <= 0 => rdo'[f] <= rdo[f]
                      /\ \A g \in Fields \ {f} : rdo'[g] <= rdo[g]
    OBVIOUS
  <2>1. Len(cmd_queue') = Len(cmd_queue) - 1 /\ Len(cmd_queue) \in Nat /\ c \in Commands
    BY HeadTailProperties, LenProperties DEF RequestInv
  <2>2. f \in Fields
    BY DEF FieldOf, Fields
  <2>0. pdos \in Lists /\ Kept(Supply(pdos, rdo), rdo) /\ RequestFor(pdos, rdo)
    BY DEF KeptInv, RequestInv
  <2>3. \A g \in Fields : rdo[g] \in Nat
    BY <2>0 DEF Kept, Numbers, Fields
  <2>4. CASE rdo' = rdo
    BY <2>2, <2>3, <2>4
  <2>5. CASE rdo' # rdo
    <3>1. PICK e \in KeyEvents : process_next(e)
      <4>1. ASSUME NEW h \in HostCommands, HostCommand(h) PROVE FALSE
        BY <2>5, <4>1 DEF HostCommand
      <4>2. ASSUME NEW l \in Lists, NewList(l) PROVE FALSE
        BY <2>1, <4>2 DEF NewList, ParsePdos, AutoReply
      <4>3. CASE ConnectChange
        BY <4>3 DEF ConnectChange, RequestInv
      <4> QED
        BY <4>1, <4>2, <4>3 DEF Next
    <3>2. pdos # <<>> /\ rdo' = Executed(pdos, rdo, c)
      BY <2>5, <3>1, PassExecutes DEF RequestInv
    <3> QED
      BY <2>0, <2>1, <3>2, OfLists, ExecutedMovesOneWay
  <2> QED
    BY <2>4, <2>5
<1> QED
  BY <1>1, RequestInvHolds, KeptInvHolds, PTL DEF Spec, AdjustMovesOneWay
=============================================================================
