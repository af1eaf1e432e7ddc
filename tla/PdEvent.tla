----------------------------- MODULE PdEvent -----------------------------
(***************************************************************************)
(* The sink's message engine, src/src/usb_pd/event.c, and the interrupt    *)
(* that feeds it.  usb_pd_event_process_next runs once per main-loop pass  *)
(* and acts on event_status: it acknowledges a received frame, processes   *)
(* and answers it in the next pass, and otherwise emits what is due.  The  *)
(* receive interrupt writes current_data and event_status at any moment;   *)
(* there is one slot and no lock.                                          *)
(*                                                                         *)
(* A frame is a record: where it came from, what it says, the capability   *)
(* list it carries and the chunk of that list.  Time is the number of      *)
(* thresholds that have passed since last_timestamp_ms.                    *)
(***************************************************************************)
EXTENDS Integers

CONSTANTS
    SprLists,       \* lists a Source_Capabilities message may carry
    EprLists,       \* lists an EPR_Source_Capabilities message may carry
    NoList,         \* the cleared list
    EprCapable,     \* SPR lists whose first PDO has the EPR bit
    PpsLists,       \* lists that offer a PPS PDO
    Kinds,          \* messages without a list the partner sends
    Signals,        \* what else arrives: a cable's frame, a reset
    FrameGap,       \* passes that begin between two events of the PHY
    CmdSlots,       \* commands cmd_queue holds: CMD_QUEUE_SIZE - 1
    HidDepth,       \* packets hid_rx_buf_pd holds
    BurstCap,       \* bound of the history variable burst
    LateCap         \* bound of the history variable late

Lists == SprLists \union EprLists

ASSUME ListAssumption ==
    /\ SprLists \intersect EprLists = {}
    /\ NoList \notin Lists
    /\ EprCapable \subseteq SprLists
    /\ PpsLists \subseteq Lists
ASSUME KindAssumption ==
    /\ Kinds \subseteq {"GoodCRC", "PS_RDY", "Soft_Reset", "Get_Sink_Cap", "Extended",
                       "Other"}
    /\ Signals \subseteq {"SOP1", "HARD_RESET"}
ASSUME BoundAssumption ==
    /\ FrameGap \in Nat /\ CmdSlots \in Nat /\ HidDepth \in Nat
    /\ BurstCap \in Nat /\ LateCap \in Nat

VARIABLES
    event_status,        \* what the next pass does
    current_data,        \* the frame in the slot
    current_msg_header,  \* the frame whose header was parsed last
    last_ext_data,       \* the chunks of an extended message, by number
    current_pdo,         \* the two parts of the parsed list, num_pdos with it
    rdo_type,            \* current_rdo.type: "PPS" or anything else
    epr_status,
    keep_alive_status,
    elapsed,             \* since last_timestamp_ms: 1 after 375 ms, 2 after 8 s
    cmd_queue,           \* number of queued commands
    hid_pd,              \* number of queued PD packets of the host
    usb_pd_sink_mode, usb_pd_msg_priority,   \* settings, status.c
    pc,                  \* where the main loop stands
    quiet,               \* passes left before another frame can end
    sourceList,          \* the EPR list whose chunks the source is sending
    acked, burst, late   \* history, see the properties

engine == <<event_status, current_data, current_msg_header, last_ext_data,
            current_pdo, rdo_type, epr_status, keep_alive_status, elapsed>>
queues == <<cmd_queue, hid_pd>>
config == <<usb_pd_sink_mode, usb_pd_msg_priority>>
ghosts == <<acked, burst, late>>
vars   == <<engine, queues, config, pc, quiet, sourceList, ghosts>>

-----------------------------------------------------------------------------
Frame(sop, kind, list, chunk) ==
    [sop |-> sop, kind |-> kind, list |-> list, chunk |-> chunk]

NoFrame == Frame("none", "none", NoList, 0)

(* usb_pd_event_save_rx tells SOP frames from those of the cable and from   *)
(* the two reset signals, which carry no message.                           *)
Frames ==
    { Frame("SOP", k, NoList, 0) : k \in Kinds }
    \union { Frame("SOP", "Source_Capabilities", l, 0) : l \in SprLists }
    \union { Frame("SOP", "EPR_Source_Capabilities", l, c) : l \in EprLists, c \in 0..1 }
    \union { Frame(s, "none", NoList, 0) : s \in Signals }

IsCaps(m)    == m.kind = "Source_Capabilities"
IsEprCaps(m) == m.kind = "EPR_Source_Capabilities"

(* Also an answer to the keep-alive is an extended message, of one chunk.  *)
IsExtended(m) == IsEprCaps(m) \/ m.kind = "Extended"

(* data_size / 26 = chunked_num: an EPR list needs two chunks. *)
LastChunkEarly(m) == m.chunk <= 1             \* mutant
LastChunk(m) == m.chunk = 1

NoPdos == [part \in 0..1 |-> NoList]

EprStatuses == {"EPR_UNSUPPORTED", "EPR_NOT_READY", "EPR_READY", "EPR_WAITING", "EPR_ON"}
EprRank(s) == CASE s = "EPR_UNSUPPORTED" -> 0
                [] s = "EPR_NOT_READY"   -> 1
                [] s = "EPR_READY"       -> 2
                [] s = "EPR_WAITING"     -> 3
                [] s = "EPR_ON"          -> 4

(* Types the RDO can take from a parsed list: a cleared entry is an FPDO.  *)
RdoTypes(pdos) == {"FPDO"} \union
    IF \E part \in 0..1 : pdos[part] \in PpsLists THEN {"PPS"} ELSE {}

Capped(n, bound) == IF n < bound THEN n + 1 ELSE bound

-----------------------------------------------------------------------------
Init ==
    /\ event_status = "PD_WAITING"
    /\ current_data = NoFrame
    /\ current_msg_header = NoFrame
    /\ last_ext_data = NoPdos
    /\ current_pdo = NoPdos
    /\ rdo_type = "FPDO"
    /\ epr_status = "EPR_UNSUPPORTED"
    /\ keep_alive_status = "KEEP_ALIVE_NONE"
    /\ elapsed = 0
    /\ cmd_queue = 0
    /\ hid_pd = 0
    /\ usb_pd_sink_mode \in {"SPR_MODE", "EPR_MODE"}
    /\ usb_pd_msg_priority \in {"REPLY_PRIORITY", "HID_PRIORITY"}
    /\ pc = "idle"
    /\ quiet = 0
    /\ sourceList = NoList
    /\ acked = FALSE
    /\ burst = 0
    /\ late = 0

(* usb_pd_phy_send_data: the loop spins until the frame is out, the        *)
(* receiver is off meanwhile, and the partner's answer takes its time.     *)
Transmit ==
    /\ quiet' = FrameGap
    /\ burst' = IF event_status = "PD_GOODCRC" THEN Capped(burst, BurstCap) ELSE burst

(* last_timestamp_ms = millis() *)
Restamp == elapsed' = 0 /\ late' = 0

(* send_current_rdo, for an RDO of type t. *)
SendRdo(t) == rdo_type' = t /\ Restamp /\ Transmit

-----------------------------------------------------------------------------
(* USBPD_IRQHandler, usb_pd_event_save_rx: a frame has ended.  The source  *)
(* sends chunk 1 only of the list whose chunk 0 it sent last, and no other *)
(* extended message between the two.                                       *)
RxEnd(m) ==
    /\ quiet = 0
    /\ IsEprCaps(m) /\ m.chunk = 1 => m.list = sourceList
    /\ current_data' = m
    /\ event_status' = "PD_GOODCRC"
    /\ quiet' = FrameGap
    /\ burst' = 0
    /\ sourceList' = IF IsExtended(m) THEN m.list ELSE sourceList
    /\ UNCHANGED <<current_msg_header, last_ext_data, current_pdo, rdo_type,
                   epr_status, keep_alive_status, elapsed, queues, config, pc,
                   acked, late>>

(* A keep-alive is overdue 375 ms or 8 s after the time stamp. *)
Overdue(e) == \/ keep_alive_status = "KEEP_ALIVE_EPR" /\ e >= 1
              \/ keep_alive_status = "KEEP_ALIVE_PPS" /\ e = 2

(* usb_pd_event_process_next: the pass dispatches on event_status.         *)
BeginPass ==
    /\ pc \in {"idle", "resume"}
    /\ pc' = CASE event_status = "PD_GOODCRC" -> "parse"
               [] event_status = "PD_REPLY"   -> "process"
               [] event_status = "PD_WAITING" -> "wait_epr"
    /\ quiet' = IF quiet > 0 THEN quiet - 1 ELSE 0
    /\ elapsed' \in {elapsed, Capped(elapsed, 2)}
    /\ late' = IF Overdue(elapsed') THEN Capped(late, LateCap) ELSE 0
    /\ UNCHANGED <<event_status, current_data, current_msg_header, last_ext_data,
                   current_pdo, rdo_type, epr_status, keep_alive_status, queues,
                   config, sourceList, acked, burst>>

(* The end of the pass, lines 1200-1207, which an ignored frame skips.     *)
KeepOnlyEprCheck ==                                             \* mutant
    IF keep_alive_status = "KEEP_ALIVE_EPR" /\ epr_status # "EPR_ON"
    THEN "KEEP_ALIVE_NONE" ELSE keep_alive_status
KeepAliveChecked ==
    IF \/ rdo_type' # "PPS" /\ keep_alive_status # "KEEP_ALIVE_EPR"
       \/ keep_alive_status = "KEEP_ALIVE_EPR" /\ epr_status # "EPR_ON"
    THEN "KEEP_ALIVE_NONE" ELSE keep_alive_status

EndPass == pc' = "idle" /\ keep_alive_status' = KeepAliveChecked

-----------------------------------------------------------------------------
(* PD_GOODCRC, lines 1097-1118.  The reset branch of lines 1109-1113 has   *)
(* no action: a reset signal is not SOP and leaves by line 1104.           *)
OnlyGoodCRCs(m) == m.kind = "GoodCRC"                            \* mutant
Ignored(m) == m.sop # "SOP" \/ m.kind = "GoodCRC"

(* Lines 1106 and 1140: the slot is free again. *)
Hold    == UNCHANGED event_status                               \* mutant
Release == event_status' = "PD_WAITING"

ParseFrame ==
    /\ pc = "parse"
    /\ current_msg_header' = current_data
    /\ pc' = IF Ignored(current_data) THEN "ignore" ELSE "goodcrc"
    /\ UNCHANGED <<event_status, current_data, last_ext_data, current_pdo, rdo_type,
                   epr_status, keep_alive_status, elapsed, queues, config, quiet,
                   sourceList, ghosts>>

IgnoreFrame ==
    /\ pc = "ignore"
    /\ Release
    /\ pc' = "idle"
    /\ burst' = 0
    /\ UNCHANGED <<current_data, current_msg_header, last_ext_data, current_pdo,
                   rdo_type, epr_status, keep_alive_status, elapsed, queues, config,
                   quiet, sourceList, acked, late>>

SendGoodCRC ==
    /\ pc = "goodcrc"
    /\ event_status' = "PD_REPLY"
    /\ UNCHANGED rdo_type
    /\ EndPass
    /\ quiet' = FrameGap
    /\ burst' = 0
    /\ acked' = TRUE
    /\ UNCHANGED <<current_data, current_msg_header, last_ext_data, current_pdo,
                   epr_status, elapsed, queues, config, sourceList, late>>

-----------------------------------------------------------------------------
(* PD_REPLY: process_msg.  Chunk 0 of any extended message clears what is  *)
(* left of another.                                                        *)
ClearEachChunk ==                                                \* mutant
    IF IsExtended(current_msg_header)
    THEN [NoPdos EXCEPT ![current_msg_header.chunk] = current_data.list]
    ELSE last_ext_data
SaveChunk ==
    IF IsExtended(current_msg_header)
    THEN IF current_msg_header.chunk = 0
         THEN [NoPdos EXCEPT ![0] = current_data.list]
         ELSE [last_ext_data EXCEPT ![1] = current_data.list]
    ELSE last_ext_data

(* parse_pdos: the objects come from current_data or the saved chunks.     *)
ParsedList ==
    IF IsCaps(current_msg_header) THEN [NoPdos EXCEPT ![0] = current_data.list]
    ELSE IF IsEprCaps(current_msg_header) /\ LastChunk(current_msg_header) THEN SaveChunk
    ELSE current_pdo

(* The EPR bit is honoured once per connection, lines 210-217.             *)
AlwaysEntersEpr == /\ IsCaps(current_msg_header)               \* mutant
                   /\ current_data.list \in EprCapable
                   /\ usb_pd_sink_mode = "EPR_MODE"
EntersEpr == /\ IsCaps(current_msg_header)
             /\ current_data.list \in EprCapable
             /\ usb_pd_sink_mode = "EPR_MODE"
             /\ epr_status = "EPR_UNSUPPORTED"

EprAfter ==
    IF EntersEpr THEN "EPR_NOT_READY"
    ELSE IF IsEprCaps(current_msg_header) /\ LastChunk(current_msg_header) THEN "EPR_ON"
    ELSE IF current_msg_header.kind = "PS_RDY" /\ epr_status = "EPR_NOT_READY"
         THEN "EPR_READY"
    ELSE epr_status

KeepAliveOnPsRdy ==
    IF epr_status = "EPR_ON" THEN "KEEP_ALIVE_EPR"
    ELSE IF rdo_type = "PPS" /\ keep_alive_status # "KEEP_ALIVE_EPR" THEN "KEEP_ALIVE_PPS"
    ELSE keep_alive_status

ProcessMsg ==
    /\ pc = "process"
    /\ last_ext_data' = SaveChunk
    /\ current_pdo' = ParsedList
    /\ epr_status' = EprAfter
    /\ keep_alive_status' = IF current_msg_header.kind = "PS_RDY"
                            THEN KeepAliveOnPsRdy ELSE keep_alive_status
    /\ acked' = FALSE
    /\ pc' = "reply"
    /\ UNCHANGED <<event_status, current_data, current_msg_header, rdo_type, elapsed,
                   queues, config, quiet, sourceList, burst, late>>

-----------------------------------------------------------------------------
(* hid_forward_pd: the packet leaves the queue; if it is a request its RDO *)
(* becomes the current one, without a new time stamp, of whatever type the *)
(* host gives it; unless its SOP code is unknown it is transmitted.        *)
ForwardHid ==
    /\ hid_pd' = hid_pd - 1
    /\ rdo_type' \in {"FPDO", "PPS"}
    /\ Transmit \/ UNCHANGED <<quiet, burst>>
    /\ UNCHANGED <<elapsed, late>>

(* auto_reply, by the parsed header.  A list with a chunk to come is       *)
(* answered by asking for it, any other by the default RDO or by the one   *)
(* the trigger hold kept in FRAM, whatever its type; while EPR entry is    *)
(* pending the hold is not consulted.                                      *)
AutoReply ==
    /\ \/ /\ IsEprCaps(current_msg_header) /\ ~LastChunk(current_msg_header)
          /\ Transmit
          /\ UNCHANGED <<rdo_type, elapsed, late>>
       \/ /\ \/ IsCaps(current_msg_header)
             \/ IsEprCaps(current_msg_header) /\ LastChunk(current_msg_header)
          /\ \E t \in {"FPDO"} \union
                IF epr_status = "EPR_NOT_READY" THEN {} ELSE {"PPS"} : SendRdo(t)
       \/ /\ current_msg_header.kind \in {"Soft_Reset", "Get_Sink_Cap"}
          /\ Transmit
          /\ UNCHANGED <<rdo_type, elapsed, late>>
       \/ /\ current_msg_header.kind \in {"PS_RDY", "Extended", "Other", "GoodCRC", "none"}
          /\ UNCHANGED <<rdo_type, elapsed, late, quiet, burst>>
    /\ UNCHANGED hid_pd

Reply ==
    /\ pc = "reply"
    /\ IF usb_pd_msg_priority = "HID_PRIORITY" /\ hid_pd > 0 THEN ForwardHid ELSE AutoReply
    /\ pc' = "replied"
    /\ UNCHANGED <<event_status, current_data, current_msg_header, last_ext_data,
                   current_pdo, epr_status, keep_alive_status, cmd_queue, config,
                   sourceList, acked>>

Replied ==
    /\ pc = "replied"
    /\ Release
    /\ UNCHANGED rdo_type
    /\ EndPass
    /\ UNCHANGED <<current_data, current_msg_header, last_ext_data, current_pdo,
                   epr_status, elapsed, queues, config, quiet, sourceList, ghosts>>

-----------------------------------------------------------------------------
(* PD_WAITING, in the order of lines 1145-1196. *)
EprRequestByHost == epr_status = "EPR_READY"                     \* mutant
                    /\ usb_pd_msg_priority = "REPLY_PRIORITY"
EprRequestDue    == epr_status = "EPR_READY"

WaitEpr ==
    /\ pc = "wait_epr"
    /\ IF EprRequestDue
       THEN epr_status' = "EPR_WAITING" /\ Transmit
       ELSE UNCHANGED <<epr_status, quiet, burst>>
    /\ pc' = "wait_keep"
    /\ UNCHANGED <<event_status, current_data, current_msg_header, last_ext_data,
                   current_pdo, rdo_type, keep_alive_status, elapsed, queues, config,
                   sourceList, acked, late>>

KeepAliveLate == keep_alive_status # "KEEP_ALIVE_NONE" /\ elapsed = 2   \* mutant
KeepAliveDue  == \/ keep_alive_status = "KEEP_ALIVE_EPR" /\ elapsed >= 1
                 \/ keep_alive_status = "KEEP_ALIVE_PPS" /\ elapsed = 2

WaitKeepAlive ==
    /\ pc = "wait_keep"
    /\ IF KeepAliveDue
       THEN SendRdo(rdo_type)
       ELSE UNCHANGED <<rdo_type, elapsed, late, quiet, burst>>
    /\ pc' = "wait_hid"
    /\ UNCHANGED <<event_status, current_data, current_msg_header, last_ext_data,
                   current_pdo, epr_status, keep_alive_status, queues, config,
                   sourceList, acked>>

WaitHid ==
    /\ pc = "wait_hid"
    /\ IF hid_pd > 0 THEN ForwardHid
       ELSE UNCHANGED <<hid_pd, rdo_type, elapsed, late, quiet, burst>>
    /\ pc' = "wait_key"
    /\ UNCHANGED <<event_status, current_data, current_msg_header, last_ext_data,
                   current_pdo, epr_status, keep_alive_status, cmd_queue, config,
                   sourceList, acked>>

(* key_forward_pd: a key event may become a command; a full queue drops it *)
(* and an empty list drops the key.                                        *)
PushAlways == cmd_queue' = cmd_queue + 1                         \* mutant
PushCmd == cmd_queue' = Capped(cmd_queue, CmdSlots)

WaitKey ==
    /\ pc = "wait_key"
    /\ (PushCmd /\ current_pdo # NoPdos) \/ UNCHANGED cmd_queue
    /\ pc' = "wait_cmd"
    /\ UNCHANGED <<engine, hid_pd, config, quiet, sourceList, ghosts>>

(* cmd_queue_pop and cmd_execute_immediate: nothing without a list or for  *)
(* a field the RDO does not have, else a new request.                      *)
PeekCmd == UNCHANGED cmd_queue                                   \* mutant
PopCmd  == cmd_queue' = cmd_queue - 1

ExecuteCmd ==
    /\ PopCmd
    /\ \/ current_pdo # NoPdos /\ \E t \in {rdo_type} \union RdoTypes(current_pdo) : SendRdo(t)
       \/ UNCHANGED <<rdo_type, elapsed, late, quiet, burst>>

NoCmd == UNCHANGED <<cmd_queue, rdo_type, elapsed, late, quiet, burst>>

DrainCmds ==                                                    \* mutant
    /\ pc = "wait_cmd"
    /\ IF cmd_queue > 0 THEN ExecuteCmd /\ UNCHANGED <<pc, keep_alive_status>>
                        ELSE NoCmd /\ EndPass
    /\ UNCHANGED <<event_status, current_data, current_msg_header, last_ext_data,
                   current_pdo, epr_status, hid_pd, config, sourceList, acked>>

WaitCmd ==
    /\ pc = "wait_cmd"
    /\ IF cmd_queue > 0 THEN ExecuteCmd ELSE NoCmd
    /\ EndPass
    /\ UNCHANGED <<event_status, current_data, current_msg_header, last_ext_data,
                   current_pdo, epr_status, hid_pd, config, sourceList, acked>>

-----------------------------------------------------------------------------
(* usb_pd_event_save_connect_change, then hid_rx_buf_clear_pd (sink.c 43). *)
(* The partner is another one or none, so its old frames do not follow.    *)
ForgetEprOnly  == epr_status' = "EPR_UNSUPPORTED" /\ UNCHANGED keep_alive_status  \* mutant
ForgetContract == /\ epr_status' = "EPR_UNSUPPORTED"
                  /\ keep_alive_status' = "KEEP_ALIVE_NONE"

Forget ==
    /\ event_status' = "PD_WAITING"
    /\ current_data' = NoFrame
    /\ current_msg_header' = NoFrame
    /\ last_ext_data' = NoPdos
    /\ current_pdo' = NoPdos
    /\ rdo_type' = "FPDO"
    /\ ForgetContract
    /\ cmd_queue' = 0
    /\ hid_pd' = 0
    /\ sourceList' = NoList
    /\ acked' = FALSE
    /\ burst' = 0

ConnectChange ==
    /\ pc \in {"idle", "resume"}
    /\ Forget
    /\ UNCHANGED <<elapsed, config, pc, quiet, late>>

(* Power is lost or SYS_CMD_MCU_REBOOT: only the settings survive, if there *)
(* is an FRAM, or they are the defaults again.                             *)
Restart ==
    /\ Forget
    /\ elapsed' = 0
    /\ late' = 0
    /\ quiet' = 0
    /\ pc' = "idle"
    /\ \/ UNCHANGED config
       \/ usb_pd_sink_mode' = "EPR_MODE" /\ usb_pd_msg_priority' = "REPLY_PRIORITY"

(* The USB interrupt queues a packet of the host; cmd_process_next hands   *)
(* commands to the engine and changes the priority.                        *)
HidPacket ==
    /\ hid_pd < HidDepth
    /\ hid_pd' = hid_pd + 1
    /\ UNCHANGED <<engine, cmd_queue, config, pc, quiet, sourceList, ghosts>>

HostCommand ==
    /\ pc = "idle"
    /\ PushCmd
    /\ UNCHANGED <<engine, hid_pd, config, pc, quiet, sourceList, ghosts>>

SetPriority ==
    /\ pc = "idle"
    /\ usb_pd_msg_priority' \in {"REPLY_PRIORITY", "HID_PRIORITY"}
    /\ UNCHANGED <<engine, queues, usb_pd_sink_mode, pc, quiet, sourceList, ghosts>>

(* SYS_CMD_SET_SINK_MODE_* waits 10 ms and then sends a hard reset;        *)
(* SYS_CMD_USB_PD_REBOOT sends one and waits 200 ms or more.  Frames go on *)
(* ending while the loop waits.  The loop takes one command per turn, so a *)
(* pass of the engine follows.                                             *)
SetSinkMode ==
    /\ pc = "idle"
    /\ usb_pd_sink_mode' \in {"SPR_MODE", "EPR_MODE"}
    /\ pc' = "delay10"
    /\ UNCHANGED <<engine, queues, usb_pd_msg_priority, quiet, sourceList, ghosts>>

PdReboot ==
    /\ pc = "idle"
    /\ Transmit
    /\ pc' = "delay200"
    /\ UNCHANGED <<engine, queues, config, sourceList, acked, late>>

DelayPasses ==
    /\ pc \in {"delay10", "delay200"}
    /\ quiet' = 0
    /\ UNCHANGED <<engine, queues, config, pc, sourceList, ghosts>>

EndDelay10 ==
    /\ pc = "delay10"
    /\ Transmit
    /\ pc' = "resume"
    /\ UNCHANGED <<engine, queues, config, sourceList, acked, late>>

EndDelay200 ==
    /\ pc = "delay200"
    /\ pc' = "resume"
    /\ UNCHANGED <<engine, queues, config, quiet, sourceList, ghosts>>

-----------------------------------------------------------------------------
Pass == \/ BeginPass \/ ParseFrame \/ IgnoreFrame \/ SendGoodCRC
        \/ ProcessMsg \/ Reply \/ Replied
        \/ WaitEpr \/ WaitKeepAlive \/ WaitHid \/ WaitKey \/ WaitCmd

Next == \/ Pass
        \/ \E m \in Frames : RxEnd(m)
        \/ ConnectChange \/ Restart
        \/ HidPacket \/ HostCommand \/ SetPriority

Spec     == Init /\ [][Next]_vars
FairSpec == Spec /\ WF_vars(Pass)

(* With a host that also issues the commands that block the loop. *)
Blocking == SetSinkMode \/ PdReboot \/ DelayPasses \/ EndDelay10 \/ EndDelay200
HostSpec == Init /\ [][Next \/ Blocking]_vars

-----------------------------------------------------------------------------
Pcs == {"idle", "parse", "ignore", "goodcrc", "process", "reply", "replied",
        "wait_epr", "wait_keep", "wait_hid", "wait_key", "wait_cmd",
        "delay10", "delay200", "resume"}

TypeOK ==
    /\ event_status \in {"PD_GOODCRC", "PD_REPLY", "PD_WAITING"}
    /\ current_data \in Frames \union {NoFrame}
    /\ current_msg_header \in Frames \union {NoFrame}
    /\ last_ext_data \in [0..1 -> Lists \union {NoList}]
    /\ current_pdo \in [0..1 -> Lists \union {NoList}]
    /\ rdo_type \in {"FPDO", "PPS"}
    /\ epr_status \in EprStatuses
    /\ keep_alive_status \in {"KEEP_ALIVE_NONE", "KEEP_ALIVE_PPS", "KEEP_ALIVE_EPR"}
    /\ elapsed \in 0..2
    /\ cmd_queue \in 0..CmdSlots
    /\ hid_pd \in 0..HidDepth
    /\ usb_pd_sink_mode \in {"SPR_MODE", "EPR_MODE"}
    /\ usb_pd_msg_priority \in {"REPLY_PRIORITY", "HID_PRIORITY"}
    /\ pc \in Pcs
    /\ quiet \in 0..FrameGap
    /\ sourceList \in EprLists \union {NoList}
    /\ acked \in BOOLEAN
    /\ burst \in 0..BurstCap
    /\ late \in 0..LateCap

(* A frame the sink has acknowledged reaches process_msg as it came: until *)
(* then it is still in the slot, under its own header, and next in line;   *)
(* and only a message for this port is acknowledged.                       *)
(* The engine relies on this without a lock (lines 1054-1069, 1117, 1122). *)
AckedFrameKept ==
    acked => /\ event_status = "PD_REPLY"
             /\ current_data = current_msg_header
             /\ current_data.sop = "SOP" /\ current_data.kind # "GoodCRC"

(* The list the sink requests from is one list of the source, whole: no    *)
(* part of another, no chunk missing (process_msg, parse_pdos).            *)
ListWhole ==
    \/ current_pdo = NoPdos
    \/ current_pdo[0] \in SprLists /\ current_pdo[1] = NoList
    \/ current_pdo[0] \in EprLists /\ current_pdo[1] = current_pdo[0]

(* Between passes a keep-alive is armed only for a contract of its kind:   *)
(* EPR once the EPR list came, PPS while the request is a PPS one          *)
(* (lines 326-338 and 1200-1207).                                          *)
KeepAliveConsistent ==
    pc = "idle" =>
        /\ keep_alive_status = "KEEP_ALIVE_EPR" => epr_status = "EPR_ON"
        /\ keep_alive_status = "KEEP_ALIVE_PPS" => rdo_type = "PPS"

(* An overdue keep-alive is sent in the pass that finds it overdue or one  *)
(* of the two after it, whatever traffic there is (lines 1160-1180).       *)
KeepAlivePrompt == late <= 3

(* No more than four transmissions go out between the end of a frame and   *)
(* its GoodCRC, the most one waiting pass may make: EPR_Mode, keep-alive,  *)
(* a host packet and one command (lines 1145-1196).                        *)
AckDelayBounded == burst <= 4

(* EPR entry goes one way, one stage at a time or straight to EPR_ON when  *)
(* the EPR list comes; only a lost connection or power takes it back, and  *)
(* takes the list and the keep-alive with it (lines 210-217, 304, 328).    *)
EprOneWay ==
    [][ \/ EprRank(epr_status') \in {EprRank(epr_status), EprRank(epr_status) + 1, 4}
        \/ /\ epr_status' = "EPR_UNSUPPORTED"
           /\ keep_alive_status' = "KEEP_ALIVE_NONE"
           /\ current_pdo' = NoPdos /\ rdo_type' = "FPDO" ]_vars

(* Every frame gets its turn, however many follow, and the engine always   *)
(* comes back to waiting (lines 1095-1142).                                *)
FrameHandled == event_status # "PD_WAITING" ~> event_status = "PD_WAITING"

(* A contract with an EPR source leads to the EPR_Mode request unless the  *)
(* connection ends (lines 328-331 and 1145-1158).                          *)
EprModeRequested == epr_status = "EPR_READY" ~> epr_status # "EPR_READY"

(* A full command queue drains (lines 1192-1196). *)
CommandsDrain == cmd_queue = CmdSlots ~> cmd_queue < CmdSlots

(* The branch of lines 1109-1113, and the comment of phy.h line 7 that the *)
(* receive callback includes the reset interrupts: handling a hard reset   *)
(* resets the engine.  The code never takes that branch.                   *)
HardResetClears ==
    [][ (pc = "ignore" /\ current_msg_header.sop = "HARD_RESET" /\ pc' = "idle") =>
            epr_status' = "EPR_UNSUPPORTED" /\ keep_alive_status' = "KEEP_ALIVE_NONE" ]_vars
=============================================================================
