--------------------------- MODULE RdoRequest ---------------------------
(***************************************************************************)
(* What the sink asks for: the request current_rdo, the list current_pdo   *)
(* it refers to, the command queue and the key mode machine, all of        *)
(* src/src/usb_pd/event.c.  Every change of the request is sent at once    *)
(* (send_current_rdo), so the request is also the last message.            *)
(*                                                                         *)
(* A supply is a record of what its PDO says, in mV, mA and cW; an empty   *)
(* slot of an EPR list is Empty.  Positions count from 0 as in the code.   *)
(* A list may go unanswered, or be answered by a packet of the host: the   *)
(* old request stays, until the sink selects from the new list.  What a    *)
(* set or a step does to the values of such a request, through the union   *)
(* of PDO_t, is left out, and so are requests the host packs itself and    *)
(* requests restored from FRAM.                                            *)
(***************************************************************************)
EXTENDS Integers, Sequences

CONSTANTS
    Lists,          \* lists of supplies a source may send
    HostCommands,   \* commands the host may give
    CmdSlots        \* commands the queue holds: CMD_QUEUE_SIZE - 1

Types == {"FPDO", "BPDO", "VPDO", "PPS_PDO", "EPR_AVS_PDO", "SPR_AVS_PDO"}

(* min, max: volts (equal for FPDO); current, current20: its limit and that *)
(* above 15 V; pdp: its power.  A field a type lacks is 0.                 *)
Words == { n \in Nat : n < 65536 }
Supplies == [type : Types, min : Words, max : Words,
             current : Words, current20 : Words, pdp : Words]
Empty == [type |-> "FPDO", min |-> 0, max |-> 0, current |-> 0, current20 |-> 0, pdp |-> 0]

CmdTypes == {"SELECT_PDO", "NEXT_PDO", "PREV_PDO", "SET_VOLTAGE", "SET_CURRENT", "SET_POWER",
             "ADJUST_VOLTAGE", "ADJUST_CURRENT", "ADJUST_POWER"}
Commands == [type : CmdTypes, value : Int]

ASSUME ListAssumption ==
    \A l \in Lists : /\ l \in Seq(Supplies) /\ Len(l) \in 1..15
                     /\ l[1] # Empty /\ l[1].type = "FPDO"

(* The units of parse_pdo_from_raw; and a source whose ranges are not      *)
(* empty and whose SPR AVS supply gives no more current above 15 V.        *)
ASSUME SupplyAssumption ==
    \A l \in Lists : \A i \in 1..Len(l) :
        /\ l[i].min <= l[i].max
        /\ l[i].type \in {"PPS_PDO", "EPR_AVS_PDO"} => l[i].min % 100 = 0
        /\ l[i].type = "SPR_AVS_PDO" => l[i].current20 <= l[i].current

(* An EPR AVS supply starts at 15 V, and its power has eight bits of 1 W.  *)
ASSUME AvsAssumption ==
    \A l \in Lists : \A i \in 1..Len(l) :
        l[i].type = "EPR_AVS_PDO" => l[i].min >= 15000 /\ l[i].pdp <= 25500

ASSUME CommandAssumption == HostCommands \subseteq Commands /\ CmdSlots \in Nat \ {0}

VARIABLES
    pdos,           \* current_pdo[0 .. num_pdos - 1]
    rdo,            \* current_rdo
    cmd_queue, key_mode, modify_field,
    answered        \* history: the request was made for the present list

vars == <<pdos, rdo, cmd_queue, key_mode, modify_field, answered>>

Fields   == {"voltage", "current", "power"}
KeyModes == {"SELECT_PDO", "SELECT_FIELD", "MODIFY_VALUE"}
NoEvent   == <<"NONE", "NONE">>
KeyEvents == {NoEvent} \union
    ({"LEFT", "RIGHT"} \X {"CLICK", "DOUBLE_CLICK", "LONG_PRESS", "LONG_HOLD", "LONG_RELEASE"})

U16(n)   == n % 65536
Int16(n) == ((n + 32768) % 65536) - 32768
Least(m, n) == IF m < n THEN m ELSE n
Clamp(v, low, high) == LET w == IF v < low THEN low ELSE v IN IF w > high THEN high ELSE w

-----------------------------------------------------------------------------
(* The supply a request stands for, and what it may ask of it:             *)
(* get_value_bounds.                                                       *)
Supply(l, r) == l[r.pos + 1]

AmpsAt(power, volts) == IF volts > 0 THEN U16((power * 10000) \div volts) ELSE 0

CurrentMax(s, r) ==
    CASE r.type = "EPR_AVS_PDO" -> AmpsAt(s.pdp, r.voltage)
      [] r.type = "SPR_AVS_PDO" /\ r.voltage > 15000 -> s.current20
      [] OTHER -> s.current

Bounds(s, r, field) ==
    CASE field = "voltage" /\ r.type = "SPR_AVS_PDO" -> <<9000, 20000>>
      [] field = "voltage" /\ r.type # "SPR_AVS_PDO" -> <<s.min, s.max>>
      [] field = "current" -> <<0, CurrentMax(s, r)>>
      [] field = "power"   -> <<0, s.pdp>>

(* clamp_spr_avs_current and clamp_epr_avs_pdp, after `field` has changed. *)
NoClamp(s, r, field) == r                                        \* mutant
ClampSprAvs(s, r, field) ==
    IF r.type = "SPR_AVS_PDO" /\ field = "voltage"
    THEN [r EXCEPT !.current = Least(@, CurrentMax(s, r))] ELSE r

FullPower(s, r, field) ==                                        \* mutant
    IF r.type = "EPR_AVS_PDO" /\ field = "voltage"
    THEN [r EXCEPT !.current = AmpsAt(s.pdp, r.voltage)] ELSE r
ClampEprAvs(s, r, field) ==
    IF r.type = "EPR_AVS_PDO" /\ (r.voltage * r.current) \div 1000 > s.pdp * 10
    THEN IF field = "voltage"
         THEN [r EXCEPT !.current = AmpsAt(s.pdp, r.voltage)]
         ELSE [r EXCEPT !.voltage = (U16((s.pdp * 10000) \div r.current) \div 100) * 100]
    ELSE r

(* USB_PD_CMD_SET_x and apply_step. *)
SetField(s, r, field, v) ==
    LET b == Bounds(s, r, field)
        q == [r EXCEPT ![field] = Clamp(v, b[1], b[2])]
    IN  ClampEprAvs(s, ClampSprAvs(s, q, field), field)

-----------------------------------------------------------------------------
(* select_and_send_rdo. *)
Selected(l, p) ==
    LET s == l[p + 1]
        volts == IF s.type = "SPR_AVS_PDO" THEN 9000 ELSE s.min
    IN  [ pos |-> p, type |-> s.type, copy_of_pdo |-> s, voltage |-> volts,
          current |-> CASE s.type = "BPDO" -> 0
                        [] s.type = "EPR_AVS_PDO" ->
                             IF volts > 0 THEN Least(5000, AmpsAt(s.pdp, volts)) ELSE 5000
                        [] OTHER -> s.current,
          power |-> IF s.type \in {"BPDO", "EPR_AVS_PDO"} THEN s.pdp ELSE 0 ]

(* find_valid_pdo_pos: the next slot in use in a direction, round the list. *)
AnySlot(s) == TRUE                                               \* mutant
InUse(s)   == s # Empty
FindValid(l, p, direction) ==
    LET At(i) == (p + i * direction) % Len(l)
        found == { i \in 1..Len(l) : InUse(l[At(i) + 1]) }
    IN  IF found = {} THEN p ELSE At(CHOOSE i \in found : \A j \in found : i <= j)

(* GET_PDO_POS of the uint8_t value, and the test of the position.         *)
NamedPos(v)      == (v - 1) % 256
Selectable(l, p) == p < Len(l) /\ InUse(l[p + 1])

FieldOf(c) == CASE c \in {"SET_VOLTAGE", "ADJUST_VOLTAGE"} -> "voltage"
                [] c \in {"SET_CURRENT", "ADJUST_CURRENT"} -> "current"
                [] c \in {"SET_POWER", "ADJUST_POWER"} -> "power"
                [] OTHER -> "none"

FitsType(field, type) ==
    CASE type \in {"FPDO", "VPDO"} -> field = "current"
      [] type = "BPDO" -> field = "power"
      [] OTHER -> field \in {"voltage", "current"}

(* The commands that make a request for list l anew.                       *)
Selecting(l, c) == \/ c.type \in {"NEXT_PDO", "PREV_PDO"}
                   \/ c.type = "SELECT_PDO" /\ Selectable(l, NamedPos(c.value))

(* cmd_execute_immediate: the request after command c. *)
Executed(l, r, c) ==
    LET field == FieldOf(c.type)
        s     == Supply(l, r)
    IN  CASE field # "none" /\ ~FitsType(field, r.type) -> r
          [] field # "none" /\ FitsType(field, r.type) ->
               SetField(s, r, field,
                        IF c.type \in {"SET_VOLTAGE", "SET_CURRENT", "SET_POWER"} THEN c.value
                        ELSE r[field] + Int16(c.value))
          [] c.type = "SELECT_PDO" ->
               IF Selectable(l, NamedPos(c.value)) THEN Selected(l, NamedPos(c.value)) ELSE r
          [] c.type = "NEXT_PDO" -> Selected(l, FindValid(l, r.pos, 1))
          [] c.type = "PREV_PDO" -> Selected(l, FindValid(l, r.pos, -1))

-----------------------------------------------------------------------------
(* key_forward_pd: a key's event becomes a change of mode or a command.    *)
HasTwoFields(type) == type \in {"PPS_PDO", "EPR_AVS_PDO", "SPR_AVS_PDO"}

(* get_step_values: the small step, of which the big one is ten. *)
MinStep(type, field) ==
    CASE type \in {"FPDO", "VPDO"} -> 10
      [] type = "BPDO" -> 25
      [] HasTwoFields(type) /\ field # "voltage" -> 50
      [] type = "PPS_PDO" /\ field = "voltage" -> 20
      [] OTHER -> 100

Cmd(type, value) == <<[type |-> type, value |-> value]>>

(* The commands event e gives in the present mode: none or one. *)
Sign(e) == IF e[1] = "LEFT" THEN -1 ELSE 1

KeyCommands(e) ==
    CASE pdos # <<>> /\ key_mode = "SELECT_PDO" /\ e = <<"LEFT", "CLICK">>  -> Cmd("PREV_PDO", 0)
      [] pdos # <<>> /\ key_mode = "SELECT_PDO" /\ e = <<"RIGHT", "CLICK">> -> Cmd("NEXT_PDO", 0)
      [] /\ pdos # <<>> /\ key_mode = "MODIFY_VALUE"
         /\ e \in {"LEFT", "RIGHT"} \X {"CLICK", "LONG_PRESS", "LONG_HOLD"} ->
           Cmd(CASE modify_field = "voltage" -> "ADJUST_VOLTAGE"
                 [] modify_field = "power"   -> "ADJUST_POWER"
                 [] OTHER -> "ADJUST_CURRENT",
               Sign(e) * MinStep(rdo.type, modify_field)
                       * IF e[2] = "CLICK" THEN 1 ELSE 10)
      [] OTHER -> <<>>

(* The mode and the field after it. *)
Turn(mode, field) == key_mode' = mode /\ modify_field' = field

KeyMode(e) ==
    CASE pdos # <<>> /\ key_mode = "SELECT_PDO" /\ e = <<"RIGHT", "DOUBLE_CLICK">> ->
           IF HasTwoFields(rdo.type) THEN Turn("SELECT_FIELD", "voltage")
           ELSE Turn("MODIFY_VALUE", IF rdo.type = "BPDO" THEN "power" ELSE "current")
      [] pdos # <<>> /\ key_mode = "SELECT_FIELD" /\ e = <<"LEFT", "CLICK">> ->
           Turn("SELECT_FIELD", "voltage")
      [] pdos # <<>> /\ key_mode = "SELECT_FIELD" /\ e = <<"RIGHT", "CLICK">> ->
           Turn("SELECT_FIELD", "current")
      [] pdos # <<>> /\ key_mode = "SELECT_FIELD" /\ e = <<"RIGHT", "DOUBLE_CLICK">> ->
           Turn("MODIFY_VALUE", modify_field)
      [] pdos # <<>> /\ key_mode # "SELECT_PDO" /\ e = <<"LEFT", "DOUBLE_CLICK">> ->
           IF key_mode = "MODIFY_VALUE" /\ HasTwoFields(rdo.type)
           THEN Turn("SELECT_FIELD", modify_field) ELSE Turn("SELECT_PDO", "none")
      [] OTHER -> Turn(key_mode, modify_field)

-----------------------------------------------------------------------------
NoRequest == [pos |-> 0, type |-> "FPDO", copy_of_pdo |-> Empty,
              voltage |-> 0, current |-> 0, power |-> 0]

Init ==
    /\ pdos = <<>> /\ rdo = NoRequest
    /\ cmd_queue = <<>>
    /\ key_mode = "SELECT_PDO" /\ modify_field = "none"
    /\ answered = FALSE

(* cmd_queue_push refuses what the queue cannot hold. *)
Pushed(queue, cmds) == IF Len(queue) < CmdSlots THEN queue \o cmds ELSE queue

(* usb_pd_cmd_execute, called by cmd_forward_pd. *)
HostCommand(c) ==
    /\ cmd_queue' = Pushed(cmd_queue, <<c>>)
    /\ UNCHANGED <<pdos, rdo, key_mode, modify_field, answered>>

(* parse_pdos of a whole list, and the request auto_reply makes for it. *)
ParsePdos(l) == pdos' = l /\ Turn("SELECT_PDO", "none")
AutoReply(l) == rdo' = Selected(l, 0) /\ answered' = TRUE

(* A whole list has come.  With HID priority a pending packet of the host  *)
(* goes out instead of the automatic reply, and with no valid priority     *)
(* nothing does: the old request stays.                                    *)
NewList(l) ==
    /\ ParsePdos(l)
    /\ AutoReply(l) \/ (UNCHANGED rdo /\ answered' = FALSE)
    /\ UNCHANGED cmd_queue

(* usb_pd_event_save_connect_change. *)
ConnectChange ==
    /\ pdos' = <<>> /\ rdo' = NoRequest
    /\ cmd_queue' = <<>>
    /\ Turn("SELECT_PDO", "none")
    /\ answered' = FALSE

(* The end of a waiting pass: at most one event of the keys, then at most  *)
(* one command, which does nothing without a list.                         *)
process_next(e) ==
    LET queue == Pushed(cmd_queue, KeyCommands(e))
        fits  == queue # <<>> /\ pdos # <<>> /\ (answered \/ Selecting(pdos, Head(queue)))
    IN  /\ KeyMode(e)
        /\ cmd_queue' = IF queue = <<>> THEN queue ELSE Tail(queue)
        /\ rdo' = IF fits THEN Executed(pdos, rdo, Head(queue)) ELSE rdo
        /\ answered' = (answered \/ fits)
        /\ UNCHANGED pdos

Next == \/ \E c \in HostCommands : HostCommand(c)
        \/ \E l \in Lists : NewList(l)
        \/ ConnectChange
        \/ \E e \in KeyEvents : process_next(e)

Spec == Init /\ [][Next]_vars

-----------------------------------------------------------------------------
(* What the message says (build_rdo_msg), by its two bit fields, and what  *)
(* the other side reads from it (the same decoding as parse_rdo_from_raw). *)
Message(r) ==
    CASE r.type \in {"FPDO", "VPDO"} -> [high |-> r.current \div 10, low |-> r.current \div 10]
      [] r.type = "BPDO"    -> [high |-> r.power \div 25, low |-> r.power \div 25]
      [] r.type = "PPS_PDO" -> [high |-> r.voltage \div 20, low |-> r.current \div 50]
      [] OTHER              -> [high |-> r.voltage \div 25, low |-> r.current \div 50]

VoltsRead(s, m) ==
    CASE s.type \in {"FPDO", "VPDO", "BPDO"} -> s.min
      [] s.type = "PPS_PDO" -> (m.high % 4096) * 20
      [] OTHER              -> (m.high % 4096) * 25

AmpsRead(s, m) ==
    CASE s.type \in {"FPDO", "VPDO"} -> (m.high % 1024) * 10
      [] s.type = "BPDO" -> 0
      [] OTHER -> (m.low % 128) * 50

PowerRead(s, m) == IF s.type = "BPDO" THEN (m.high % 1024) * 25 ELSE 0

(* What a supply grants, by its own PDO, with `over` microwatts.           *)
Grants(s, volts, amps, power, over) ==
    CASE s.type = "EPR_AVS_PDO" ->
           volts \in s.min..s.max /\ volts * amps <= s.pdp * 10000 + over
      [] s.type = "SPR_AVS_PDO" ->
           /\ volts >= 9000 /\ volts <= 20000
           /\ amps <= IF volts > 15000 THEN s.current20 ELSE s.current
      [] OTHER -> volts \in s.min..s.max /\ amps <= s.current /\ power <= s.pdp

(* However keys and host commands mix, and whatever was queued for a list  *)
(* that has been replaced, a request made for the present list names a     *)
(* slot in use of it, with its type and its PDO (lines 533-620,            *)
(* cmd_execute_immediate).                                                 *)
RequestNamed ==
    answered => /\ pdos # <<>> /\ rdo.pos \in 0..Len(pdos) - 1
                /\ LET s == Supply(pdos, rdo)
                   IN  s # Empty /\ rdo.copy_of_pdo = s /\ rdo.type = s.type

(* And it asks for what that supply grants, by the values the other side   *)
(* reads, and by those the sink keeps but for the milliwatt that line 743  *)
(* cuts off before it compares (lines 533-780, and 52-77).                 *)
RequestGranted ==
    /\ RequestNamed
    /\ answered =>
          LET s == Supply(pdos, rdo)
              m == Message(rdo)
          IN  /\ Grants(s, rdo.voltage, rdo.current, rdo.power, 999)
              /\ Grants(s, VoltsRead(s, m), AmpsRead(s, m), PowerRead(s, m), 0)

(* A current that overdraws the supply by less than that milliwatt.        *)
Overdraws(l, r) ==
    r.type = "EPR_AVS_PDO" /\ r.voltage * r.current > Supply(l, r).pdp * 10000

StepMovesOneWay ==
    (answered /\ cmd_queue # <<>> /\ cmd_queue' = Tail(cmd_queue) /\ UNCHANGED pdos) =>
      LET c == Head(cmd_queue)
          f == FieldOf(c.type)
      IN  (/\ c.type \in {"ADJUST_VOLTAGE", "ADJUST_CURRENT", "ADJUST_POWER"}
           /\ Int16(c.value) = c.value) =>
            /\ c.value >= 0 => \/ rdo'[f] >= rdo[f]
                               \/ /\ f = "current" /\ Overdraws(pdos, rdo)
                                  /\ rdo'[f] = rdo[f] - 1
            /\ c.value <= 0 => rdo'[f] <= rdo[f]
            /\ \A g \in Fields \ {f} : rdo'[g] <= rdo[g]

(* Of a request made for the present list, a step up never asks for less   *)
(* of what it names, a step down never for more, and neither raises        *)
(* anything else (apply_step and its clamps).  Excepted are steps beyond   *)
(* the int16_t to which line 887 cuts them, and a step up of a current     *)
(* that overdraws: it takes a milliampere off it.                          *)
AdjustMovesOneWay == [][StepMovesOneWay]_vars

(* The comment of line 756, "the voltage must be aligned to 100 mV (the    *)
(* lowest two bits of an AVS RDO are zero)".  The code aligns only where   *)
(* it clamps.                                                              *)
AvsAligned == rdo.type \in {"EPR_AVS_PDO", "SPR_AVS_PDO"} => rdo.voltage % 100 = 0
=============================================================================
