------------------------------ MODULE Settings ------------------------------
(***************************************************************************)
(* What the trigger keeps in its FRAM, and the VBUS switch that follows    *)
(* it: src/src/control/status.c, the capacity probe of                     *)
(* src/src/memory/fram.c that every start runs, and the source list and    *)
(* request the trigger hold of src/src/usb_pd/event.c stores and restores. *)
(* The device lives on the power of the cable, which may fail between any  *)
(* two writes.                                                             *)
(*                                                                         *)
(* A cell of the FRAM has its address.  A setting is named by the address  *)
(* of its byte; a PDO is one word; a stored request is two, its position   *)
(* and values and its copy of the PDO.                                     *)
(***************************************************************************)
EXTENDS Integers, Sequences

CONSTANTS
    ChipSizes,      \* the FRAM a board may carry: bytes, 0 for none
    FirstBytes,     \* what a chip from the factory holds in every cell
    Commanded,      \* Commanded[s]: the values the host gives setting s
    SprLists,       \* lists of Source_Capabilities, sequences of PDOs
    EprLists,       \* lists of EPR_Source_Capabilities
    EprCapable,     \* SPR lists with the EPR bit
    HostRequests    \* what a request packed by the host may leave in rdo

(* The offsets of fram.h. *)
Priority    == 32
SinkMode    == 33
ReportType  == 34
VbusEn      == 35
TriggerHold == 36
NumOverHold == 36               \* mutant
NumCell     == 96
PdoCell(i)  == 96 + 4 * i       \* 97, after the SOP and header: i counts from 1
RdoCell     == 161
CopyCell    == 169

(* The values of status.h the code compares with. *)
HID_PRIORITY    == 0
REPLY_PRIORITY  == 1
EPR_MODE        == 1
VBUS_ALWAYS_OFF == 0
VBUS_ALWAYS_ON  == 1
VBUS_HOLD       == 2
VBUS_HOLD_OFF   == 3
VBUS_HOLD_ON    == 4

Plain == {Priority, SinkMode, ReportType, TriggerHold}
Names == Plain \union {VbusEn}

Lists   == SprLists \union EprLists
MaxPdos == 15                   \* MAX_PDO_COUNT

ASSUME ChipAssumption == ChipSizes \subseteq {0, 2048, 4096, 8192}
ASSUME ValueAssumption ==
    /\ FirstBytes \subseteq 0..255
    /\ Commanded \in [Plain -> SUBSET (0..255)]
(* A slot of an EPR list may be empty: its PDO is 0. *)
ASSUME ListAssumption ==
    /\ \A l \in Lists : l \in Seq(Nat) /\ Len(l) \in 1..MaxPdos
    /\ EprCapable \subseteq SprLists
    /\ HostRequests \subseteq [pos : Nat, copy_of_pdo : Nat]

PdoCells  == { PdoCell(i) : i \in 1..MaxPdos }
HoldCells == {NumCell, RdoCell, CopyCell} \union PdoCells
Cells     == {0, 2048, 4096} \union Names \union HoldCells

VARIABLES
    chip, fram,         \* the board's FRAM
    pc,                 \* what the start has come to, then "run"
    backup, point,      \* of the probe
    fram_capacity,
    ram,                \* the five settings of status.c
    gpio,               \* the VBUS switch
    todo,               \* the writes the current call has still to do
    pdos, epr_status, rdo,  \* of event.c
    kept, switch,       \* history: what a setting and the switch may come back as
    held, checked, packed, stray  \* history of the request, see HeldRequestFits

board   == <<chip, fram>>
start   == <<pc, backup, point, fram_capacity>>
engine  == <<pdos, epr_status, rdo>>
ghosts  == <<kept, switch>>
marks   == <<held, checked, packed, stray>>
vars    == <<board, start, ram, gpio, todo, engine, ghosts, marks>>

-----------------------------------------------------------------------------
(* fram_write masks the address to 13 bits, the chip to its size. *)
Cell(address) == (address % 8192) % chip

Defaults == [ s \in Names |-> CASE s = Priority -> REPLY_PRIORITY
                                [] s = SinkMode -> EPR_MODE
                                [] OTHER -> 0 ]

FromOne(p, word) == [pos |-> p - 1, copy_of_pdo |-> word]        \* mutant
Request(p, word) == [pos |-> p, copy_of_pdo |-> word]
NoRequest == Request(0, 0)

Init ==
    /\ chip \in ChipSizes
    /\ \E byte \in FirstBytes : fram = [c \in Cells |-> byte]
    /\ pc = "mark" /\ backup = 0 /\ point = 0 /\ fram_capacity = 0
    /\ ram = Defaults
    /\ gpio = FALSE
    /\ todo = <<>>
    /\ pdos = <<>> /\ epr_status = "EPR_UNSUPPORTED" /\ rdo = NoRequest
    /\ kept = [s \in Names |-> {fram[s]}]
    /\ switch = BOOLEAN
    /\ held = FALSE /\ checked = FALSE /\ packed = FALSE /\ stray = TRUE

-----------------------------------------------------------------------------
(* fram_get_capacity.  Byte 0 is marked with 0xAA; then 0x55 is written at *)
(* 2048, 4096 and 8192 until byte 0 reads 0x55, for the address wraps at   *)
(* the size of the chip; at the end byte 0 gets its old value back.        *)
Unmarked == UNCHANGED fram                                       \* mutant
Marked   == fram' = [fram EXCEPT ![0] = 170]

ProbeMark ==
    /\ pc = "mark"
    /\ IF chip = 0
       THEN pc' = "init" /\ UNCHANGED <<fram, backup, point>>
       ELSE pc' = "points" /\ backup' = fram[0] /\ point' = 2048 /\ Marked
    /\ UNCHANGED <<chip, fram_capacity, ram, gpio, todo, engine, ghosts, marks>>

ProbePoint ==
    /\ pc = "points"
    /\ fram' = [fram EXCEPT ![Cell(point)] = 85]
    /\ IF fram'[0] = 85 THEN pc' = "restore" /\ UNCHANGED point
                        ELSE point' = 2 * point /\ UNCHANGED pc
    /\ UNCHANGED <<chip, backup, fram_capacity, ram, gpio, todo, engine, ghosts, marks>>

ProbeRestore ==
    /\ pc = "restore"
    /\ fram' = [fram EXCEPT ![0] = backup]
    /\ fram_capacity' = point
    /\ pc' = "init"
    /\ UNCHANGED <<chip, backup, point, ram, gpio, todo, engine, ghosts, marks>>

(* status_init: the settings as they are in the FRAM, then the switch.     *)
Loaded == IF fram_capacity > 0 THEN [s \in Names |-> fram[s]] ELSE ram

StatusInit ==
    /\ pc = "init"
    /\ ram' = Loaded
    /\ gpio' = CASE ram'[VbusEn] \in {VBUS_HOLD_ON, VBUS_ALWAYS_ON}   -> TRUE
                 [] ram'[VbusEn] \in {VBUS_HOLD_OFF, VBUS_ALWAYS_OFF} -> FALSE
                 [] OTHER -> gpio
    /\ switch' = {gpio'}
    /\ kept' = [s \in Names |-> {ram'[s]}]
    /\ pc' = "run"
    /\ UNCHANGED <<board, backup, point, fram_capacity, todo, engine, marks>>

-----------------------------------------------------------------------------
(* Between two calls of the main loop. *)
Idle == pc = "run" /\ todo = <<>>

(* Setting s becomes v and, if there is an FRAM, is written. *)
Put(s, v) ==
    /\ ram' = [ram EXCEPT ![s] = v]
    /\ IF fram_capacity > 0
       THEN todo' = << <<s, v>> >> /\ kept' = [kept EXCEPT ![s] = {fram[s], v}]
       ELSE UNCHANGED <<todo, kept>>

(* set_usb_pd_msg_priority and its three sisters. *)
SetSetting(s, v) ==
    /\ Idle
    /\ Put(s, v)
    /\ UNCHANGED <<board, start, gpio, engine, switch, marks>>

(* set_vbus_en_status: a hold starts from the present position. *)
SetVbusEn(status) ==
    /\ Idle
    /\ Put(VbusEn, IF status = VBUS_HOLD /\ fram_capacity > 0
                   THEN IF gpio THEN VBUS_HOLD_ON ELSE VBUS_HOLD_OFF
                   ELSE status)
    /\ UNCHANGED <<board, start, gpio, engine, switch, marks>>

(* vbus_on and vbus_off, by a command of the host or both keys: a held     *)
(* switch takes its state along.                                           *)
NeverHolds(on) == FALSE                                          \* mutant
Holds(on) == /\ fram_capacity > 0
             /\ ram[VbusEn] = IF on THEN VBUS_HOLD_OFF ELSE VBUS_HOLD_ON

Switch(on) ==
    /\ Idle
    /\ gpio' = on
    /\ IF Holds(on)
       THEN /\ Put(VbusEn, IF on THEN VBUS_HOLD_ON ELSE VBUS_HOLD_OFF)
            /\ switch' = {gpio, on}
       ELSE UNCHANGED <<ram, todo, kept>> /\ switch' = {on}
    /\ UNCHANGED <<board, start, engine, marks>>

-----------------------------------------------------------------------------
(* trigger_hold_check compares the list with the stored one.               *)
NumIgnored(l) == \A i \in 1..Len(l) : fram[PdoCell(i)] = l[i]    \* mutant
Matches(l) == /\ fram[NumCell] = Len(l)
              /\ \A i \in 1..Len(l) : fram[PdoCell(i)] = l[i]

(* The 64 bytes after the list's end are of no consequence: 0 here.        *)
ListWrites(l) ==
    << <<NumCell, Len(l)>> >>
    \o [ i \in 1..Len(l) |-> <<PdoCell(i), l[i]>> ]

(* send_current_rdo stores the request it sends, unless it is told not to. *)
RdoWrites(r) == << <<RdoCell, r.pos>>, <<CopyCell, r.copy_of_pdo>> >>
Stored(writes) == IF chip = 0 THEN <<>> ELSE writes

EprAfter(l) ==
    IF l \in EprLists THEN "EPR_ON"
    ELSE IF l \in EprCapable /\ ram[SinkMode] = EPR_MODE /\ epr_status = "EPR_UNSUPPORTED"
         THEN "EPR_NOT_READY" ELSE epr_status

(* process_msg and auto_reply for list l: the stored request if the list   *)
(* is the stored one and the hold is on, else the first PDO; while EPR     *)
(* entry is pending nothing is compared or stored.                         *)
Compared(l) == fram_capacity > 0 /\ EprAfter(l) # "EPR_NOT_READY"

Restore(l) ==
    /\ Compared(l) /\ Matches(l) /\ ram[TriggerHold] = 1
    /\ rdo' = Request(fram[RdoCell], fram[CopyCell])
    /\ todo' = Stored(RdoWrites(rdo'))
    /\ held' = TRUE
    /\ checked' = TRUE
    /\ packed' = FALSE

Ask(l) ==
    /\ ~(Compared(l) /\ Matches(l) /\ ram[TriggerHold] = 1)
    /\ rdo' = Request(0, l[1])
    /\ todo' = IF EprAfter(l) = "EPR_NOT_READY" THEN <<>>
               ELSE Stored(IF Compared(l) THEN ListWrites(l) \o RdoWrites(rdo')
                                          ELSE RdoWrites(rdo'))
    /\ held' = FALSE
    /\ checked' = Compared(l)
    /\ packed' = FALSE

(* hid_forward_pd takes a request the host has packed as it is: of any     *)
(* position, of any PDO, of this list or another.  It is not stored.       *)
Forward ==
    /\ rdo' \in HostRequests
    /\ packed' = TRUE

(* With HID priority a waiting packet of the host is the answer, a request *)
(* or something else; with neither priority there is none.                 *)
HostAnswers ==
    /\ ram[Priority] # REPLY_PRIORITY
    /\ \/ UNCHANGED <<rdo, packed>>
       \/ ram[Priority] = HID_PRIORITY /\ Forward
    /\ held' = FALSE
    /\ checked' = FALSE
    /\ UNCHANGED todo

AutoReply(l) ==
    /\ ram[Priority] \in {HID_PRIORITY, REPLY_PRIORITY}
    /\ Restore(l) \/ Ask(l)

ListComes(l) ==
    /\ Idle
    /\ pdos' = l
    /\ epr_status' = EprAfter(l)
    /\ AutoReply(l) \/ HostAnswers
    /\ UNCHANGED <<board, start, ram, gpio, ghosts, stray>>

(* PS_RDY ends the pending phase; so may the refusal of the source, which  *)
(* has no handler.                                                         *)
PsRdy ==
    /\ Idle
    /\ epr_status = "EPR_NOT_READY"
    /\ epr_status' = "EPR_READY"
    /\ UNCHANGED <<board, start, ram, gpio, todo, pdos, rdo, ghosts, marks>>

(* select_and_send_rdo, by a command or a key: a slot in use of the list.  *)
Select(p) ==
    /\ Idle
    /\ pdos[p] # 0
    /\ rdo' = Request(p - 1, pdos[p])
    /\ todo' = Stored(RdoWrites(rdo'))
    /\ held' = FALSE
    /\ packed' = FALSE
    /\ stray' = (stray \/ ~checked)
    /\ UNCHANGED <<board, start, ram, gpio, pdos, epr_status, ghosts, checked>>

(* A step, a setting or the PPS keep-alive sends the present request again *)
(* with other values or the same; the keep-alive also without a list.      *)
Resend ==
    /\ Idle
    /\ pdos # <<>> \/ rdo # NoRequest
    /\ todo' = Stored(RdoWrites(rdo))
    /\ stray' = (stray \/ ~checked \/ packed)
    /\ UNCHANGED <<board, start, ram, gpio, engine, ghosts, held, checked, packed>>

(* A request packed by the host, when no list is to be answered; also      *)
(* before the first list.                                                  *)
HostRequest ==
    /\ Idle
    /\ Forward
    /\ held' = FALSE
    /\ UNCHANGED <<board, start, ram, gpio, todo, pdos, epr_status, ghosts, checked, stray>>

(* usb_pd_event_save_connect_change. *)
ConnectChange ==
    /\ Idle
    /\ pdos' = <<>> /\ epr_status' = "EPR_UNSUPPORTED" /\ rdo' = NoRequest
    /\ held' = FALSE /\ checked' = FALSE /\ packed' = FALSE
    /\ UNCHANGED <<board, start, ram, gpio, todo, ghosts, stray>>

-----------------------------------------------------------------------------
(* fram_write of the next word. *)
Store ==
    /\ pc = "run" /\ todo # <<>>
    /\ LET c == todo[1][1]
           v == todo[1][2]
       IN  /\ fram' = [fram EXCEPT ![c] = v]
           /\ kept' = [s \in Names |-> IF s = c /\ v \in kept[s] THEN {v} ELSE kept[s]]
           /\ switch' = IF c = VbusEn THEN {gpio} ELSE switch
           /\ stray' = IF c = CopyCell /\ checked /\ ~held /\ ~packed THEN FALSE ELSE stray
    /\ todo' = Tail(todo)
    /\ UNCHANGED <<chip, start, ram, gpio, engine, held, checked, packed>>

(* The cable is pulled, or SYS_CMD_MCU_REBOOT: the RAM and the pins are    *)
(* reset, and main starts with the probe.                                  *)
PowerFail ==
    /\ pc' = "mark" /\ backup' = 0 /\ point' = 0 /\ fram_capacity' = 0
    /\ ram' = Defaults
    /\ gpio' = FALSE
    /\ todo' = <<>>
    /\ pdos' = <<>> /\ epr_status' = "EPR_UNSUPPORTED" /\ rdo' = NoRequest
    /\ held' = FALSE /\ checked' = FALSE /\ packed' = FALSE
    /\ stray' = (stray \/ \E i \in 1..Len(todo) : todo[i][1] \in HoldCells)
    /\ UNCHANGED <<board, ghosts>>

Next ==
    \/ ProbeMark \/ ProbePoint \/ ProbeRestore \/ StatusInit
    \/ \E s \in Plain : \E v \in Commanded[s] : SetSetting(s, v)
    \/ \E status \in {VBUS_ALWAYS_OFF, VBUS_ALWAYS_ON, VBUS_HOLD} : SetVbusEn(status)
    \/ \E on \in BOOLEAN : Switch(on)
    \/ \E l \in Lists : ListComes(l)
    \/ PsRdy
    \/ \E p \in 1..Len(pdos) : Select(p)
    \/ Resend
    \/ HostRequest
    \/ ConnectChange
    \/ Store
    \/ PowerFail

Spec == Init /\ [][Next]_vars
-----------------------------------------------------------------------------
TypeOK ==
    /\ chip \in ChipSizes
    /\ fram \in [Cells -> Nat]
    /\ pc \in {"mark", "points", "restore", "init", "run"}
    /\ backup \in Nat /\ point \in Nat /\ fram_capacity \in Nat
    /\ ram \in [Names -> Nat]
    /\ gpio \in BOOLEAN
    /\ todo \in Seq(Cells \X Nat)
    /\ pdos \in Lists \union {<<>>}
    /\ epr_status \in {"EPR_UNSUPPORTED", "EPR_NOT_READY", "EPR_READY", "EPR_ON"}
    /\ rdo \in [pos : Nat, copy_of_pdo : Nat]
    /\ kept \in [Names -> SUBSET Nat] /\ switch \in SUBSET BOOLEAN
    /\ held \in BOOLEAN /\ checked \in BOOLEAN /\ packed \in BOOLEAN /\ stray \in BOOLEAN

(* The capacity the probe reports is the board's, however many starts      *)
(* before this one were cut short and left their marks in byte 0.          *)
CapacityRight == pc \in {"init", "run"} => fram_capacity = chip

(* A start finds every setting as it was last commanded, or, if the power  *)
(* failed during the command, as it was before: no probe, list or request  *)
(* written meanwhile touches one, and none is lost with the RAM.           *)
SettingsSurvive ==
    [][pc = "init" /\ pc' = "run" /\ chip > 0 => \A s \in Names : ram'[s] \in kept[s]]_vars

(* A start in a hold mode leaves the VBUS switch where it was when the     *)
(* power failed; where it was just before, if it failed while the switch   *)
(* was being thrown.                                                       *)
SwitchRestored ==
    [][pc = "init" /\ pc' = "run" /\ chip > 0 /\ ram'[VbusEn] \in {VBUS_HOLD_OFF, VBUS_HOLD_ON}
       => gpio' \in switch]_vars

(* The request the trigger hold restores is for a PDO of the list at hand. *)
(* It may not be (stray) from the day the board is new, or the power fails *)
(* between the writes of a list and its request, or a request is stored    *)
(* for a list that never was (one met while EPR entry is pending, or that  *)
(* a packet of the host answered), or one is stored that the host packed   *)
(* itself; until a list and a first request of the sink's own are stored   *)
(* whole.                                                                  *)
Fits(r) == r.pos < Len(pdos) /\ pdos[r.pos + 1] = r.copy_of_pdo

HeldRequestFits == held /\ ~stray => Fits(rdo)
=============================================================================
