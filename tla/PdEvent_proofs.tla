-------------------------- MODULE PdEvent_proofs --------------------------
(***************************************************************************)
(* Theorems about PdEvent for every set of lists, every queue depth and    *)
(* every set of messages the partner sends.                                *)
(***************************************************************************)
EXTENDS PdEvent, TLAPS

SlotFrames == Frames \union {NoFrame}
Slots      == Lists \union {NoList}

(* What a frame in the slot carries. *)
LEMMA FrameParts ==
    ASSUME NEW m \in SlotFrames
    PROVE  /\ m.list \in Slots
           /\ m.chunk \in 0..1
           /\ IsCaps(m) => m.list \in SprLists
           /\ IsEprCaps(m) => m.list \in EprLists
           /\ IsExtended(m) => m.list \in EprLists \union {NoList} /\ m.sop = "SOP"
           /\ IsExtended(m) /\ ~IsEprCaps(m) => m.chunk = 0
  BY KindAssumption DEF SlotFrames, Frames, NoFrame, Frame, Slots, Lists, IsCaps, IsEprCaps,
                        IsExtended

LEMMA CappedType ==
    ASSUME NEW b \in Nat, NEW n \in 0..b
    PROVE  Capped(n, b) \in 0..b
  BY DEF Capped

(* Only the interrupt fills the slot and only process_msg saves chunks; the *)
(* variables of every action stay in their types (event.c throughout).      *)
THEOREM TypeCorrect == HostSpec => []TypeOK
<1>n. /\ FrameGap \in Nat /\ CmdSlots \in Nat /\ HidDepth \in Nat
      /\ BurstCap \in Nat /\ LateCap \in Nat
  BY BoundAssumption DEF BoundAssumption
<1> USE <1>n
<1>1. Init => TypeOK
  <2> SUFFICES ASSUME Init PROVE TypeOK
    OBVIOUS
  <2>1. acked \in BOOLEAN
    BY Zenon DEF Init
  <2> QED
    BY <2>1 DEF Init, TypeOK, NoPdos, EprStatuses, Pcs
<1>2. TypeOK /\ [Next \/ Blocking]_vars => TypeOK'
  <2> SUFFICES ASSUME TypeOK, [Next \/ Blocking]_vars PROVE TypeOK'
    OBVIOUS
  <2>t. /\ current_data \in SlotFrames /\ current_msg_header \in SlotFrames
        /\ elapsed \in 0..2 /\ quiet \in 0..FrameGap /\ burst \in 0..BurstCap
        /\ late \in 0..LateCap /\ cmd_queue \in 0..CmdSlots /\ hid_pd \in 0..HidDepth
    BY DEF TypeOK, SlotFrames
  <2>c. /\ Capped(burst, BurstCap) \in 0..BurstCap
        /\ Capped(late, LateCap) \in 0..LateCap
        /\ Capped(elapsed, 2) \in 0..2
        /\ Capped(cmd_queue, CmdSlots) \in 0..CmdSlots
    BY <2>t, CappedType
  <2>r. RdoTypes(current_pdo) \subseteq {"FPDO", "PPS"}
    BY DEF RdoTypes
  <2>x. Transmit => quiet' \in 0..FrameGap /\ burst' \in 0..BurstCap
    BY <2>t, <2>c DEF Transmit
  <2>s. Restamp => elapsed' \in 0..2 /\ late' \in 0..LateCap
    BY DEF Restamp
  <2>k. EndPass => pc' \in Pcs /\ keep_alive_status' \in
                     {"KEEP_ALIVE_NONE", "KEEP_ALIVE_PPS", "KEEP_ALIVE_EPR"}
    BY DEF EndPass, KeepAliveChecked, TypeOK, Pcs
  <2>1. ASSUME NEW m \in Frames, RxEnd(m) PROVE TypeOK'
    <3>1. IsExtended(m) => m.list \in EprLists \union {NoList}
      BY FrameParts DEF SlotFrames
    <3>2. acked' \in BOOLEAN
      BY <2>1, Zenon DEF RxEnd, TypeOK
    <3> QED
      BY <2>1, <3>1, <3>2 DEF RxEnd, TypeOK, queues, config
  <2>2. CASE BeginPass
    BY <2>2, <2>t, <2>c DEF BeginPass, TypeOK, queues, config, Pcs
  <2>3. CASE ParseFrame
    BY <2>3 DEF ParseFrame, TypeOK, queues, config, ghosts, Pcs
  <2>4. CASE IgnoreFrame
    BY <2>4 DEF IgnoreFrame, Release, TypeOK, queues, config, Pcs
  <2>5. CASE SendGoodCRC
    BY <2>5, <2>k DEF SendGoodCRC, TypeOK, queues, config
  <2>6. CASE ProcessMsg
    <3>1. current_data.list \in Slots
      BY <2>t, FrameParts
    <3>2. SaveChunk \in [0..1 -> Slots]
      BY <3>1 DEF SaveChunk, TypeOK, NoPdos, Slots
    <3>3. ParsedList \in [0..1 -> Slots]
      BY <3>1, <3>2 DEF ParsedList, TypeOK, NoPdos, Slots
    <3>4. EprAfter \in EprStatuses
      BY DEF EprAfter, TypeOK, EprStatuses
    <3>5. KeepAliveOnPsRdy \in {"KEEP_ALIVE_NONE", "KEEP_ALIVE_PPS", "KEEP_ALIVE_EPR"}
      BY DEF KeepAliveOnPsRdy, TypeOK
    <3> QED
      BY <2>6, <3>2, <3>3, <3>4, <3>5
      DEF ProcessMsg, TypeOK, queues, config, Pcs, Slots
  <2>f. ASSUME ForwardHid, hid_pd > 0
        PROVE  /\ hid_pd' \in 0..HidDepth /\ rdo_type' \in {"FPDO", "PPS"}
               /\ quiet' \in 0..FrameGap /\ burst' \in 0..BurstCap
               /\ UNCHANGED <<elapsed, late>>
    BY <2>f, <2>t, <2>x, <2>r DEF ForwardHid, TypeOK
  <2>d. ASSUME NEW t \in {"FPDO", "PPS"}, SendRdo(t)
        PROVE  /\ rdo_type' \in {"FPDO", "PPS"} /\ elapsed' \in 0..2 /\ late' \in 0..LateCap
               /\ quiet' \in 0..FrameGap /\ burst' \in 0..BurstCap
    BY <2>d, <2>x, <2>s DEF SendRdo
  <2>7. CASE Reply
    <3>1. ASSUME AutoReply
          PROVE  /\ rdo_type' \in {"FPDO", "PPS"} /\ elapsed' \in 0..2 /\ late' \in 0..LateCap
                 /\ quiet' \in 0..FrameGap /\ burst' \in 0..BurstCap
                 /\ hid_pd' = hid_pd
      BY <3>1, <2>t, <2>x, <2>d, <2>r DEF AutoReply, TypeOK
    <3>2. \/ ForwardHid /\ hid_pd > 0
          \/ AutoReply
      BY <2>7 DEF Reply
    <3> QED
      BY <2>7, <3>1, <3>2, <2>f DEF Reply, TypeOK, config, Pcs
  <2>8. CASE Replied
    BY <2>8, <2>k DEF Replied, Release, TypeOK, queues, config, ghosts
  <2>9. CASE WaitEpr
    BY <2>9, <2>x DEF WaitEpr, TypeOK, queues, config, Pcs, EprStatuses
  <2>10. CASE WaitKeepAlive
    BY <2>10, <2>d DEF WaitKeepAlive, TypeOK, queues, config, Pcs
  <2>11. CASE WaitHid
    <3>1. \/ ForwardHid /\ hid_pd > 0
          \/ UNCHANGED <<hid_pd, rdo_type, elapsed, late, quiet, burst>>
      BY <2>11, <2>t DEF WaitHid
    <3> QED
      BY <2>11, <3>1, <2>f DEF WaitHid, TypeOK, config, Pcs
  <2>12. CASE WaitKey
    BY <2>12, <2>c DEF WaitKey, PushCmd, TypeOK, engine, config, ghosts, Pcs
  <2>13. CASE WaitCmd
    <3>1. \/ ExecuteCmd /\ cmd_queue > 0
          \/ NoCmd
      BY <2>13, <2>t DEF WaitCmd
    <3>2. /\ cmd_queue' \in 0..CmdSlots
          /\ rdo_type' \in {"FPDO", "PPS"} /\ elapsed' \in 0..2 /\ late' \in 0..LateCap
          /\ quiet' \in 0..FrameGap /\ burst' \in 0..BurstCap
      BY <3>1, <2>t, <2>d, <2>r DEF ExecuteCmd, PopCmd, NoCmd, TypeOK
    <3> QED
      BY <2>13, <2>k, <3>2 DEF WaitCmd, TypeOK, config
  <2>o. ASSUME Forget
        PROVE  /\ event_status' = "PD_WAITING"
               /\ current_data' = NoFrame /\ current_msg_header' = NoFrame
               /\ last_ext_data' = NoPdos /\ current_pdo' = NoPdos
               /\ rdo_type' = "FPDO" /\ epr_status' = "EPR_UNSUPPORTED"
               /\ keep_alive_status' = "KEEP_ALIVE_NONE"
               /\ cmd_queue' = 0 /\ hid_pd' = 0
               /\ sourceList' = NoList /\ acked' = FALSE /\ burst' = 0
    BY <2>o DEF Forget, ForgetContract
  <2>14. CASE ConnectChange
    BY <2>14, <2>o DEF ConnectChange, TypeOK, config, NoPdos, EprStatuses
  <2>15. CASE Restart
    BY <2>15, <2>o DEF Restart, TypeOK, config, NoPdos, EprStatuses, Pcs
  <2>16. CASE HidPacket
    BY <2>16, <2>t DEF HidPacket, TypeOK, engine, config, ghosts
  <2>17. CASE HostCommand
    BY <2>17, <2>c DEF HostCommand, PushCmd, TypeOK, engine, config, ghosts
  <2>18. CASE SetPriority
    BY <2>18 DEF SetPriority, TypeOK, engine, queues, ghosts
  <2>19. CASE SetSinkMode
    BY <2>19 DEF SetSinkMode, TypeOK, engine, queues, ghosts, Pcs
  <2>20. CASE PdReboot
    BY <2>20, <2>x DEF PdReboot, TypeOK, engine, queues, config, Pcs
  <2>21. CASE DelayPasses
    BY <2>21 DEF DelayPasses, TypeOK, engine, queues, config, ghosts
  <2>22. CASE EndDelay10
    BY <2>22, <2>x DEF EndDelay10, TypeOK, engine, queues, config, Pcs
  <2>23. CASE EndDelay200
    BY <2>23 DEF EndDelay200, TypeOK, engine, queues, config, ghosts, Pcs
  <2>24. CASE UNCHANGED vars
    BY <2>24 DEF vars, engine, queues, config, ghosts, TypeOK
  <2> QED
    BY <2>1, <2>2, <2>3, <2>4, <2>5, <2>6, <2>7, <2>8, <2>9, <2>10, <2>11, <2>12, <2>13,
       <2>14, <2>15, <2>16, <2>17, <2>18, <2>19, <2>20, <2>21, <2>22, <2>23, <2>24
    DEF Next, Blocking, Pass
<1>3. QED
  BY <1>1, <1>2, PTL DEF HostSpec
-----------------------------------------------------------------------------
(***************************************************************************)
(* EPR entry and the keep-alive need no assumption about timing.           *)
(***************************************************************************)

(* EPR entry is one way, and forgetting it forgets the contract (lines     *)
(* 210-217, 304, 328, 1156 and 1072-1089).                                 *)
THEOREM EprEntryOneWay == HostSpec => EprOneWay
<1>r. /\ EprRank("EPR_UNSUPPORTED") = 0 /\ EprRank("EPR_NOT_READY") = 1
      /\ EprRank("EPR_READY") = 2 /\ EprRank("EPR_WAITING") = 3
      /\ EprRank("EPR_ON") = 4
  BY DEF EprRank
<1> DEFINE Step ==
      \/ EprRank(epr_status') \in {EprRank(epr_status), EprRank(epr_status) + 1, 4}
      \/ /\ epr_status' = "EPR_UNSUPPORTED"
         /\ keep_alive_status' = "KEEP_ALIVE_NONE"
         /\ current_pdo' = NoPdos /\ rdo_type' = "FPDO"
<1>1. TypeOK /\ [Next \/ Blocking]_vars => [Step]_vars
  <2> SUFFICES ASSUME TypeOK, Next \/ Blocking PROVE Step
    OBVIOUS
  <2>1. UNCHANGED epr_status => Step
    OBVIOUS
  <2>2. CASE ProcessMsg
    <3>1. \/ EprAfter \in {epr_status, "EPR_ON"}
          \/ epr_status = "EPR_UNSUPPORTED" /\ EprAfter = "EPR_NOT_READY"
          \/ epr_status = "EPR_NOT_READY" /\ EprAfter = "EPR_READY"
      BY DEF EprAfter, EntersEpr
    <3> QED
      BY <2>2, <3>1, <1>r DEF ProcessMsg
  <2>3. CASE WaitEpr
    BY <2>3, <1>r DEF WaitEpr, EprRequestDue
  <2>4. CASE ConnectChange \/ Restart
    BY <2>4 DEF ConnectChange, Restart, Forget, ForgetContract
  <2>5. ProcessMsg \/ WaitEpr \/ ConnectChange \/ Restart \/ UNCHANGED epr_status
    BY DEF Next, Blocking, Pass, RxEnd, BeginPass, ParseFrame, IgnoreFrame, SendGoodCRC, Reply,
           Replied, WaitKeepAlive, WaitHid, WaitKey, WaitCmd, HidPacket, HostCommand,
           SetPriority, SetSinkMode, PdReboot, DelayPasses, EndDelay10, EndDelay200, engine
  <2> QED
    BY <2>1, <2>2, <2>3, <2>4, <2>5
<1>2. QED
  BY <1>1, TypeCorrect, PTL DEF HostSpec, EprOneWay

(* Within a pass a forwarded packet or a command may replace a PPS request  *)
(* while its keep-alive is still armed; the end of the pass mends it.       *)
KeepAliveInv ==
    /\ keep_alive_status = "KEEP_ALIVE_EPR" => epr_status = "EPR_ON"
    /\ pc \notin {"replied", "wait_key", "wait_cmd"} =>
         (keep_alive_status = "KEEP_ALIVE_PPS" => rdo_type = "PPS")

(* The keep-alive armed between passes is the one of the contract in force *)
(* (lines 326-338 and 1200-1207).                                          *)
THEOREM KeepAliveMatchesContract == HostSpec => []KeepAliveConsistent
<1>1. Init => KeepAliveInv
  BY DEF Init, KeepAliveInv
<1>2. TypeOK /\ KeepAliveInv /\ [Next \/ Blocking]_vars => KeepAliveInv'
  <2> SUFFICES ASSUME TypeOK, KeepAliveInv, [Next \/ Blocking]_vars PROVE KeepAliveInv'
    OBVIOUS
  <2>1. CASE ProcessMsg
    BY <2>1 DEF ProcessMsg, EprAfter, EntersEpr, KeepAliveOnPsRdy, KeepAliveInv
  <2>2. CASE SendGoodCRC \/ Replied \/ WaitCmd
    <3>1. EndPass /\ UNCHANGED epr_status
      BY <2>2 DEF SendGoodCRC, Replied, WaitCmd
    <3> QED
      BY <3>1 DEF EndPass, KeepAliveChecked, KeepAliveInv
  <2>3. CASE WaitEpr
    BY <2>3 DEF WaitEpr, EprRequestDue, KeepAliveInv
  <2>4. CASE ConnectChange \/ Restart
    BY <2>4 DEF ConnectChange, Restart, Forget, ForgetContract, KeepAliveInv
  <2>5. CASE Reply \/ WaitHid
    BY <2>5 DEF Reply, WaitHid, KeepAliveInv
  <2>6. CASE WaitKeepAlive
    BY <2>6 DEF WaitKeepAlive, SendRdo, KeepAliveInv
  <2>7. CASE BeginPass \/ ParseFrame \/ IgnoreFrame \/ WaitKey
    BY <2>7 DEF BeginPass, ParseFrame, IgnoreFrame, WaitKey, engine, KeepAliveInv
  <2>8. CASE SetSinkMode \/ PdReboot \/ DelayPasses \/ EndDelay10 \/ EndDelay200
    BY <2>8 DEF SetSinkMode, PdReboot, DelayPasses, EndDelay10, EndDelay200, engine,
                KeepAliveInv
  <2>9. CASE (\E m \in Frames : RxEnd(m)) \/ HidPacket \/ HostCommand \/ SetPriority
    BY <2>9 DEF RxEnd, HidPacket, HostCommand, SetPriority, engine, KeepAliveInv
  <2>10. CASE UNCHANGED vars
    BY <2>10 DEF vars, engine, KeepAliveInv
  <2> QED
    BY <2>1, <2>2, <2>3, <2>4, <2>5, <2>6, <2>7, <2>8, <2>9, <2>10 DEF Next, Blocking, Pass
<1>3. KeepAliveInv => KeepAliveConsistent
  BY DEF KeepAliveInv, KeepAliveConsistent
<1>4. QED
  BY <1>1, <1>2, <1>3, TypeCorrect, PTL DEF HostSpec
-----------------------------------------------------------------------------
(***************************************************************************)
(* The slot has no lock.  What protects it is time: a frame or a           *)
(* transmission is followed by a pass boundary and one more pass before    *)
(* another frame can end, and the host does not block the loop (Spec).     *)
(***************************************************************************)
Prompt == FrameGap >= 2

LEMMA PromptTypes == Spec => []TypeOK
<1>1. [Next]_vars => [Next \/ Blocking]_vars
  OBVIOUS
<1>2. QED
  BY <1>1, TypeCorrect, PTL DEF Spec, HostSpec

Waits == {"wait_epr", "wait_keep", "wait_hid", "wait_key", "wait_cmd"}

(* By program counter: what the slot holds and how long it is safe.        *)
SlotInv ==
    /\ pc \notin {"delay10", "delay200", "resume"}
    /\ pc = "idle" /\ event_status # "PD_WAITING" => quiet = FrameGap
    /\ pc \in Waits => /\ event_status # "PD_REPLY"
                       /\ event_status = "PD_GOODCRC" => quiet = FrameGap
    /\ pc \in {"parse", "ignore", "goodcrc"} => event_status = "PD_GOODCRC" /\ quiet >= 1
    /\ pc \in {"ignore", "goodcrc"} => current_msg_header = current_data
    /\ pc = "ignore" => Ignored(current_data)
    /\ pc = "goodcrc" => ~Ignored(current_data)
    /\ pc \in {"process", "reply", "replied"} => event_status = "PD_REPLY" /\ quiet >= 1
    /\ pc \in {"process", "reply"} => current_msg_header = current_data
    /\ pc = "process" => ~Ignored(current_data)
    /\ pc = "idle" /\ event_status = "PD_REPLY" =>
         current_msg_header = current_data /\ ~Ignored(current_data)
    /\ acked => event_status = "PD_REPLY" /\ pc \in {"idle", "process"}

LEMMA SlotStep ==
    ASSUME Prompt, TypeOK, SlotInv, [Next]_vars
    PROVE  SlotInv'
<1> USE DEF Prompt
<1>n. FrameGap \in Nat /\ FrameGap >= 2 /\ quiet \in 0..FrameGap
  BY BoundAssumption DEF BoundAssumption, TypeOK
<1>1. ASSUME NEW m \in Frames, RxEnd(m) PROVE SlotInv'
  BY <1>1, <1>n DEF RxEnd, SlotInv, Waits
<1>2. CASE BeginPass
  BY <1>2, <1>n DEF BeginPass, SlotInv, Waits, TypeOK
<1>3. CASE ParseFrame
  BY <1>3 DEF ParseFrame, ghosts, SlotInv, Waits
<1>4. CASE IgnoreFrame
  BY <1>4 DEF IgnoreFrame, Release, SlotInv, Waits
<1>5. CASE SendGoodCRC
  BY <1>5 DEF SendGoodCRC, EndPass, SlotInv, Waits
<1>6. CASE ProcessMsg
  BY <1>6 DEF ProcessMsg, SlotInv, Waits
<1>t. Transmit \/ UNCHANGED <<quiet, burst>> =>
        /\ quiet' \in {quiet, FrameGap}
        /\ quiet >= 1 => quiet' >= 1
        /\ quiet = FrameGap => quiet' = FrameGap
  BY <1>n DEF Transmit
<1>7. CASE Reply
  <2>1. Transmit \/ UNCHANGED <<quiet, burst>>
    <3>1. ForwardHid => Transmit \/ UNCHANGED <<quiet, burst>>
      BY DEF ForwardHid
    <3>2. AutoReply => Transmit \/ UNCHANGED <<quiet, burst>>
      BY Zenon DEF AutoReply, SendRdo
    <3> QED
      BY <1>7, <3>1, <3>2 DEF Reply
  <2> QED
    BY <1>7, <2>1, <1>t DEF Reply, SlotInv, Waits
<1>8. CASE Replied
  BY <1>8 DEF Replied, Release, EndPass, ghosts, SlotInv, Waits
<1>9. CASE WaitEpr
  <2>1. Transmit \/ UNCHANGED <<quiet, burst>>
    BY <1>9 DEF WaitEpr
  <2> QED
    BY <1>9, <2>1, <1>t DEF WaitEpr, SlotInv, Waits
<1>10. CASE WaitKeepAlive
  <2>1. Transmit \/ UNCHANGED <<quiet, burst>>
    BY <1>10 DEF WaitKeepAlive, SendRdo
  <2> QED
    BY <1>10, <2>1, <1>t DEF WaitKeepAlive, SlotInv, Waits
<1>11. CASE WaitHid
  <2>1. Transmit \/ UNCHANGED <<quiet, burst>>
    BY <1>11 DEF WaitHid, ForwardHid
  <2> QED
    BY <1>11, <2>1, <1>t DEF WaitHid, SlotInv, Waits
<1>12. CASE WaitKey
  BY <1>12 DEF WaitKey, engine, ghosts, SlotInv, Waits
<1>13. CASE WaitCmd
  <2>1. Transmit \/ UNCHANGED <<quiet, burst>>
    <3>1. ExecuteCmd => Transmit \/ UNCHANGED <<quiet, burst>>
      BY Zenon DEF ExecuteCmd, SendRdo
    <3>2. NoCmd => UNCHANGED <<quiet, burst>>
      BY DEF NoCmd
    <3>3. ExecuteCmd \/ NoCmd
      BY <1>13 DEF WaitCmd
    <3> QED
      BY <3>1, <3>2, <3>3
  <2> QED
    BY <1>13, <2>1, <1>t DEF WaitCmd, EndPass, SlotInv, Waits, TypeOK
<1>14. CASE ConnectChange \/ Restart
  BY <1>14 DEF ConnectChange, Restart, Forget, SlotInv, Waits
<1>15. CASE HidPacket \/ HostCommand \/ SetPriority
  BY <1>15 DEF HidPacket, HostCommand, SetPriority, engine, ghosts, SlotInv, Waits
<1>16. CASE UNCHANGED vars
  BY <1>16 DEF vars, engine, ghosts, SlotInv, Waits
<1> QED
  BY <1>1, <1>2, <1>3, <1>4, <1>5, <1>6, <1>7, <1>8, <1>9, <1>10, <1>11, <1>12, <1>13,
     <1>14, <1>15, <1>16 DEF Next, Pass

(* With prompt passes no acknowledged frame is lost, replaced or mixed with *)
(* another before process_msg has seen it (lines 1054-1069, 1117, 1122).   *)
THEOREM AckedFramesReachProcessing ==
    ASSUME Prompt
    PROVE  Spec => []AckedFrameKept
<1>1. Init => SlotInv
  BY DEF Init, SlotInv, Waits
<1>2. TypeOK /\ SlotInv /\ [Next]_vars => SlotInv'
  BY SlotStep
<1>3. SlotInv => AckedFrameKept
  BY DEF SlotInv, AckedFrameKept, Ignored
<1>4. QED
  BY <1>1, <1>2, <1>3, PromptTypes, PTL DEF Spec

(* A chunk 0 is in the slot and not yet processed. *)
Unprocessed == \/ event_status = "PD_GOODCRC"
               \/ pc = "process"
               \/ event_status = "PD_REPLY" /\ pc = "idle"
ChunkZeroIn == /\ IsExtended(current_data) /\ current_data.chunk = 0
               /\ current_data.list = sourceList
               /\ Unprocessed

(* Chunk 0 of the list the source is sending is saved or about to be, and   *)
(* chunk 1 only ever meets chunk 0 of its own list.                        *)
ChunkInv ==
    /\ last_ext_data[0] = sourceList \/ ChunkZeroIn
    /\ IsExtended(current_data) /\ Unprocessed => current_data.list = sourceList
    /\ IsEprCaps(current_data) /\ current_data.chunk = 1 /\ Unprocessed =>
         last_ext_data[0] = current_data.list

LEMMA ChunkStep ==
    ASSUME Prompt, TypeOK, SlotInv, ChunkInv, [Next]_vars
    PROVE  ChunkInv'
<1>f. /\ current_data \in SlotFrames
      /\ last_ext_data \in [0..1 -> Slots]
  BY DEF TypeOK, SlotFrames, Slots
<1>n. FrameGap \in Nat /\ FrameGap >= 2
  BY BoundAssumption DEF BoundAssumption, Prompt
<1>1. ASSUME NEW m \in Frames, RxEnd(m) PROVE ChunkInv'
  <2>1. last_ext_data[0] = sourceList
    BY <1>1, <1>n DEF RxEnd, SlotInv, Waits, TypeOK, Pcs, ChunkInv, ChunkZeroIn, Unprocessed
  <2>2. CASE IsExtended(m) /\ m.chunk = 0
    BY <1>1, <2>2 DEF RxEnd, ChunkInv, ChunkZeroIn, Unprocessed, IsExtended
  <2>3. CASE IsEprCaps(m) /\ m.chunk = 1
    BY <1>1, <2>1, <2>3 DEF RxEnd, ChunkInv, ChunkZeroIn, Unprocessed, IsExtended
  <2>4. CASE ~IsExtended(m)
    BY <1>1, <2>1, <2>4 DEF RxEnd, ChunkInv, ChunkZeroIn, Unprocessed, IsExtended
  <2>5. /\ IsExtended(m) => m.chunk \in 0..1
        /\ IsExtended(m) /\ ~IsEprCaps(m) => m.chunk = 0
    BY FrameParts DEF SlotFrames
  <2> QED
    BY <2>2, <2>3, <2>4, <2>5
<1>2. CASE BeginPass
  BY <1>2 DEF BeginPass, SlotInv, TypeOK, ChunkInv, ChunkZeroIn, Unprocessed
<1>3. CASE ParseFrame \/ SendGoodCRC \/ Replied
  BY <1>3 DEF ParseFrame, SendGoodCRC, Replied, Release, EndPass, SlotInv, ChunkInv,
              ChunkZeroIn, Unprocessed
<1>4. CASE IgnoreFrame
  <2>1. Ignored(current_data)
    BY <1>4 DEF IgnoreFrame, SlotInv
  <2>2. ~IsExtended(current_data)
    BY <2>1, <1>f, FrameParts DEF Ignored, IsExtended, IsEprCaps
  <2> QED
    BY <1>4, <2>2 DEF IgnoreFrame, Release, ChunkInv, ChunkZeroIn, IsExtended
<1>5. CASE ProcessMsg
  <2>1. current_msg_header = current_data /\ ~Unprocessed'
    BY <1>5 DEF ProcessMsg, SlotInv, Unprocessed
  <2>2. UNCHANGED <<current_data, sourceList>> /\ last_ext_data' = SaveChunk
    BY <1>5 DEF ProcessMsg
  <2>3. last_ext_data'[0] = sourceList
    <3>1. CASE ChunkZeroIn
      BY <2>1, <2>2, <3>1 DEF SaveChunk, NoPdos, ChunkZeroIn
    <3>2. CASE ~ChunkZeroIn /\ IsExtended(current_data) /\ current_data.chunk = 0
      BY <1>5, <3>2 DEF ProcessMsg, ChunkInv, ChunkZeroIn, Unprocessed
    <3>3. CASE ~ChunkZeroIn /\ ~(IsExtended(current_data) /\ current_data.chunk = 0)
      BY <2>1, <2>2, <3>3, <1>f DEF SaveChunk, ChunkInv
    <3> QED
      BY <3>1, <3>2, <3>3
  <2> QED
    BY <2>1, <2>2, <2>3 DEF ChunkInv
<1>6. CASE Reply
  BY <1>6 DEF Reply, SlotInv, ChunkInv, ChunkZeroIn, Unprocessed
<1>7. CASE WaitEpr \/ WaitKeepAlive \/ WaitHid \/ WaitKey
  BY <1>7 DEF WaitEpr, WaitKeepAlive, WaitHid, WaitKey, engine, SlotInv, ChunkInv,
              ChunkZeroIn, Unprocessed
<1>8. CASE WaitCmd
  BY <1>8 DEF WaitCmd, EndPass, SlotInv, Waits, ChunkInv, ChunkZeroIn, Unprocessed
<1>9. CASE ConnectChange \/ Restart
  BY <1>9 DEF ConnectChange, Restart, Forget, ChunkInv, NoFrame, Frame, IsExtended, IsEprCaps,
              NoPdos
<1>10. CASE HidPacket \/ HostCommand \/ SetPriority
  BY <1>10 DEF HidPacket, HostCommand, SetPriority, engine, ChunkInv, ChunkZeroIn, Unprocessed
<1>11. CASE UNCHANGED vars
  BY <1>11 DEF vars, engine, ChunkInv, ChunkZeroIn, Unprocessed
<1> QED
  BY <1>1, <1>2, <1>3, <1>4, <1>5, <1>6, <1>7, <1>8, <1>9, <1>10, <1>11 DEF Next, Pass

(* With prompt passes and a source that sends the chunks of one list at a  *)
(* time, the sink never works from a list put together from two            *)
(* (process_msg, parse_pdos).                                              *)
THEOREM ListsStayWhole ==
    ASSUME Prompt
    PROVE  Spec => []ListWhole
<1>1. Init => SlotInv /\ ChunkInv /\ ListWhole
  BY DEF Init, SlotInv, Waits, ChunkInv, ListWhole, NoFrame, Frame, IsExtended,
         IsEprCaps, NoPdos
<1>2. TypeOK /\ SlotInv /\ [Next]_vars => SlotInv'
  BY SlotStep
<1>3. TypeOK /\ SlotInv /\ ChunkInv /\ [Next]_vars => ChunkInv'
  BY ChunkStep
<1>4. TypeOK /\ SlotInv /\ ChunkInv /\ ListWhole /\ [Next]_vars => ListWhole'
  <2> SUFFICES ASSUME TypeOK, SlotInv, ChunkInv, ListWhole, [Next]_vars PROVE ListWhole'
    OBVIOUS
  <2>1. CASE ProcessMsg
    <3>1. current_msg_header = current_data /\ current_data \in SlotFrames
          /\ last_ext_data \in [0..1 -> Slots]
      BY <2>1 DEF ProcessMsg, SlotInv, TypeOK, SlotFrames, Slots
    <3>2. current_pdo' = ParsedList
      BY <2>1 DEF ProcessMsg
    <3>3. CASE IsCaps(current_data)
      <4>1. current_pdo' = [NoPdos EXCEPT ![0] = current_data.list]
        BY <3>1, <3>2, <3>3 DEF ParsedList
      <4> QED
        BY <4>1, <3>1, <3>3, FrameParts DEF NoPdos, ListWhole
    <3>4. CASE ~IsCaps(current_data) /\ IsEprCaps(current_data) /\ LastChunk(current_data)
      <4>1. current_data.chunk = 1 /\ current_data.list \in EprLists
        BY <3>1, <3>4, FrameParts DEF LastChunk
      <4>2. last_ext_data[0] = current_data.list
        BY <2>1, <3>4, <4>1 DEF ProcessMsg, ChunkInv, Unprocessed
      <4>3. current_pdo' = [last_ext_data EXCEPT ![1] = current_data.list]
        BY <3>1, <3>2, <3>4, <4>1 DEF ParsedList, SaveChunk, IsExtended
      <4>4. current_pdo'[0] = current_data.list /\ current_pdo'[1] = current_data.list
        BY <3>1, <4>2, <4>3
      <4> QED
        BY <4>1, <4>4 DEF ListWhole
    <3>5. CASE ~IsCaps(current_data) /\ ~(IsEprCaps(current_data) /\ LastChunk(current_data))
      BY <3>1, <3>2, <3>5 DEF ParsedList, ListWhole
    <3> QED
      BY <3>3, <3>4, <3>5
  <2>2. CASE ConnectChange \/ Restart
    BY <2>2 DEF ConnectChange, Restart, Forget, ListWhole
  <2>3. ProcessMsg \/ ConnectChange \/ Restart \/ UNCHANGED current_pdo
    BY DEF Next, Pass, RxEnd, BeginPass, ParseFrame, IgnoreFrame, SendGoodCRC, Reply,
           Replied, WaitEpr, WaitKeepAlive, WaitHid, WaitKey, WaitCmd, HidPacket,
           HostCommand, SetPriority, engine, vars
  <2> QED
    BY <2>1, <2>2, <2>3 DEF ListWhole
<1>5. QED
  BY <1>1, <1>2, <1>3, <1>4, PromptTypes, PTL DEF Spec

-----------------------------------------------------------------------------
(* How far a pass has come says what it may still transmit, and how long a *)
(* keep-alive has been overdue.                                            *)
BurstInv ==
    /\ event_status # "PD_GOODCRC" => burst = 0
    /\ pc \in {"wait_epr", "process", "reply", "replied"} => burst = 0
    /\ pc = "wait_keep" => burst <= 1
    /\ pc = "wait_hid" => burst <= 2
    /\ pc \in {"wait_key", "wait_cmd"} => burst <= 3
    /\ burst <= 4

LateInv ==
    /\ pc = "idle" /\ event_status = "PD_GOODCRC" => late = 0
    /\ pc \in {"parse", "ignore", "goodcrc"} => late <= 1
    /\ pc = "idle" /\ event_status = "PD_REPLY" => late <= 1
    /\ pc \in {"process", "reply", "replied"} => late <= 2
    /\ pc = "idle" /\ event_status = "PD_WAITING" => late <= 2 /\ (late > 0 => quiet >= 1)
    /\ pc \in {"wait_epr", "wait_keep"} => late <= 3 /\ (late > 0 => Overdue(elapsed))
    /\ pc \in {"wait_hid", "wait_key", "wait_cmd"} => late = 0

LEMMA CappedBy ==
    ASSUME NEW b \in Nat, NEW n \in 0..b
    PROVE  Capped(n, b) \in Nat /\ Capped(n, b) <= n + 1
  BY DEF Capped

LEMMA BurstStep ==
    ASSUME Prompt, TypeOK, SlotInv, BurstInv, [Next]_vars
    PROVE  BurstInv'
<1>n. BurstCap \in Nat /\ burst \in 0..BurstCap
  BY BoundAssumption DEF BoundAssumption, TypeOK
<1>t. Transmit \/ UNCHANGED <<quiet, burst>> =>
        /\ burst' \in Nat /\ burst' <= burst + 1
        /\ event_status # "PD_GOODCRC" => burst' = burst
  <2>1. Capped(burst, BurstCap) \in Nat /\ Capped(burst, BurstCap) <= burst + 1
    BY <1>n, CappedBy
  <2>2. CASE Transmit
    BY <1>n, <2>1, <2>2 DEF Transmit
  <2>3. CASE UNCHANGED <<quiet, burst>>
    BY <1>n, <2>3
  <2> QED
    BY <2>2, <2>3
<1>1. CASE \E m \in Frames : RxEnd(m)
  BY <1>1 DEF RxEnd, BurstInv
<1>2. CASE BeginPass
  BY <1>2 DEF BeginPass, SlotInv, BurstInv, TypeOK
<1>3. CASE ParseFrame \/ IgnoreFrame \/ SendGoodCRC
  BY <1>3 DEF ParseFrame, IgnoreFrame, Release, SendGoodCRC, EndPass, ghosts, BurstInv
<1>4. CASE ProcessMsg \/ Replied
  BY <1>4 DEF ProcessMsg, Replied, Release, EndPass, ghosts, SlotInv, BurstInv
<1>5. CASE Reply
  <2>1. Transmit \/ UNCHANGED <<quiet, burst>>
    <3>1. ForwardHid => Transmit \/ UNCHANGED <<quiet, burst>>
      BY DEF ForwardHid
    <3>2. AutoReply => Transmit \/ UNCHANGED <<quiet, burst>>
      BY Zenon DEF AutoReply, SendRdo
    <3> QED
      BY <1>5, <3>1, <3>2 DEF Reply
  <2>2. event_status = "PD_REPLY" /\ event_status' = event_status /\ pc' = "replied"
    BY <1>5 DEF Reply, SlotInv
  <2> QED
    BY <2>1, <2>2, <1>t DEF BurstInv
<1>6. CASE WaitEpr
  <2>1. Transmit \/ UNCHANGED <<quiet, burst>>
    BY <1>6 DEF WaitEpr
  <2> QED
    BY <1>6, <1>n, <2>1, <1>t DEF WaitEpr, BurstInv
<1>7. CASE WaitKeepAlive
  <2>1. Transmit \/ UNCHANGED <<quiet, burst>>
    BY <1>7 DEF WaitKeepAlive, SendRdo
  <2> QED
    BY <1>7, <1>n, <2>1, <1>t DEF WaitKeepAlive, BurstInv
<1>8. CASE WaitHid
  <2>1. Transmit \/ UNCHANGED <<quiet, burst>>
    BY <1>8 DEF WaitHid, ForwardHid
  <2> QED
    BY <1>8, <1>n, <2>1, <1>t DEF WaitHid, BurstInv
<1>9. CASE WaitKey
  BY <1>9 DEF WaitKey, engine, ghosts, BurstInv
<1>10. CASE WaitCmd
  <2>1. Transmit \/ UNCHANGED <<quiet, burst>>
    <3>1. ExecuteCmd => Transmit \/ UNCHANGED <<quiet, burst>>
      BY Zenon DEF ExecuteCmd, SendRdo
    <3>2. NoCmd => UNCHANGED <<quiet, burst>>
      BY DEF NoCmd
    <3>3. ExecuteCmd \/ NoCmd
      BY <1>10 DEF WaitCmd
    <3> QED
      BY <3>1, <3>2, <3>3
  <2> QED
    BY <1>10, <1>n, <2>1, <1>t DEF WaitCmd, EndPass, BurstInv
<1>11. CASE ConnectChange \/ Restart
  BY <1>11 DEF ConnectChange, Restart, Forget, BurstInv
<1>12. CASE HidPacket \/ HostCommand \/ SetPriority \/ UNCHANGED vars
  BY <1>12 DEF HidPacket, HostCommand, SetPriority, vars, engine, ghosts, BurstInv
<1> QED
  BY <1>1, <1>2, <1>3, <1>4, <1>5, <1>6, <1>7, <1>8, <1>9, <1>10, <1>11, <1>12
     DEF Next, Pass

(* With prompt passes at most the four transmissions of one waiting pass   *)
(* come between the end of a frame and its GoodCRC (lines 1145-1196).      *)
THEOREM GoodCRCDelayed ==
    ASSUME Prompt
    PROVE  Spec => []AckDelayBounded
<1>1. Init => SlotInv /\ BurstInv
  BY DEF Init, SlotInv, Waits, BurstInv
<1>2. TypeOK /\ SlotInv /\ BurstInv /\ [Next]_vars => SlotInv' /\ BurstInv'
  BY SlotStep, BurstStep
<1>3. BurstInv => AckDelayBounded
  BY DEF BurstInv, AckDelayBounded
<1>4. QED
  BY <1>1, <1>2, <1>3, PromptTypes, PTL DEF Spec

LEMMA LateStep ==
    ASSUME Prompt, TypeOK, SlotInv, LateInv, [Next]_vars
    PROVE  LateInv'
<1>n. /\ LateCap \in Nat /\ late \in 0..LateCap
      /\ FrameGap \in Nat /\ FrameGap >= 2 /\ quiet \in 0..FrameGap
      /\ elapsed \in 0..2
  BY BoundAssumption DEF BoundAssumption, TypeOK, Prompt
<1>1. CASE \E m \in Frames : RxEnd(m)
  <2>1. pc \notin {"parse", "ignore", "goodcrc", "process", "reply", "replied"}
    BY <1>1 DEF RxEnd, SlotInv
  <2>2. pc = "idle" => late = 0
    BY <1>1, <1>n DEF RxEnd, SlotInv, LateInv, TypeOK
  <2>3. UNCHANGED <<pc, late, elapsed, keep_alive_status>> /\ event_status' = "PD_GOODCRC"
    BY <1>1 DEF RxEnd
  <2> QED
    BY <2>1, <2>2, <2>3 DEF LateInv, Overdue
<1>2. CASE BeginPass
  <2>1. late' \in Nat /\ late' <= late + 1 /\ (late' > 0 => Overdue(elapsed)')
    BY <1>2, <1>n, CappedBy DEF BeginPass, Overdue
  <2>2. pc = "idle"
    BY <1>2 DEF BeginPass, SlotInv
  <2> QED
    BY <1>2, <1>n, <2>1, <2>2 DEF BeginPass, LateInv, TypeOK
<1>3. CASE ParseFrame
  BY <1>3 DEF ParseFrame, ghosts, LateInv
<1>4. CASE IgnoreFrame
  BY <1>4, <1>n DEF IgnoreFrame, Release, SlotInv, LateInv
<1>5. CASE SendGoodCRC
  BY <1>5 DEF SendGoodCRC, EndPass, LateInv
<1>6. CASE ProcessMsg
  BY <1>6 DEF ProcessMsg, LateInv
<1>7. CASE Reply
  <2>1. late' \in {0, late}
    <3>1. ForwardHid => late' = late
      BY DEF ForwardHid
    <3>2. AutoReply => late' \in {0, late}
      BY Zenon DEF AutoReply, SendRdo, Restamp
    <3> QED
      BY <1>7, <3>1, <3>2 DEF Reply
  <2> QED
    BY <1>7, <1>n, <2>1 DEF Reply, LateInv
<1>8. CASE Replied
  BY <1>8 DEF Replied, Release, EndPass, ghosts, SlotInv, LateInv
<1>9. CASE WaitEpr
  BY <1>9 DEF WaitEpr, LateInv, Overdue
<1>10. CASE WaitKeepAlive
  <2>1. late' = 0
    <3>1. CASE KeepAliveDue
      BY <1>10, <3>1 DEF WaitKeepAlive, SendRdo, Restamp
    <3>2. CASE ~KeepAliveDue
      BY <1>10, <1>n, <3>2 DEF WaitKeepAlive, KeepAliveDue, LateInv, Overdue
    <3> QED
      BY <3>1, <3>2
  <2> QED
    BY <1>10, <2>1 DEF WaitKeepAlive, LateInv
<1>11. CASE WaitHid
  BY <1>11 DEF WaitHid, ForwardHid, LateInv
<1>12. CASE WaitKey
  BY <1>12 DEF WaitKey, engine, ghosts, LateInv
<1>13. CASE WaitCmd
  <2>1. late = 0
    BY <1>13 DEF WaitCmd, LateInv
  <2>2. late' = 0
    <3>1. ExecuteCmd => late' \in {0, late}
      BY Zenon DEF ExecuteCmd, SendRdo, Restamp
    <3>2. NoCmd => late' = late
      BY DEF NoCmd
    <3> QED
      BY <1>13, <2>1, <3>1, <3>2 DEF WaitCmd
  <2> QED
    BY <1>13, <2>2 DEF WaitCmd, EndPass, LateInv
<1>14. CASE ConnectChange
  <2>1. pc = "idle" /\ pc' = "idle" /\ event_status' = "PD_WAITING"
        /\ UNCHANGED <<late, quiet>>
    BY <1>14 DEF ConnectChange, Forget, SlotInv
  <2>2. late <= 2 /\ (late > 0 => quiet >= 1)
    BY <1>n, <2>1 DEF LateInv, SlotInv, TypeOK
  <2> QED
    BY <2>1, <2>2 DEF LateInv
<1>15. CASE Restart
  BY <1>15 DEF Restart, Forget, LateInv
<1>16. CASE HidPacket \/ HostCommand \/ SetPriority \/ UNCHANGED vars
  BY <1>16 DEF HidPacket, HostCommand, SetPriority, vars, engine, ghosts, LateInv, Overdue
<1> QED
  BY <1>1, <1>2, <1>3, <1>4, <1>5, <1>6, <1>7, <1>8, <1>9, <1>10, <1>11, <1>12, <1>13,
     <1>14, <1>15, <1>16 DEF Next, Pass

(* With prompt passes a keep-alive that is overdue goes out in the pass    *)
(* that finds it so or one of the next two: a frame takes two passes and   *)
(* the next is a waiting one (lines 1160-1180).                            *)
THEOREM KeepAlivesArePrompt ==
    ASSUME Prompt
    PROVE  Spec => []KeepAlivePrompt
<1>1. Init => SlotInv /\ LateInv
  BY DEF Init, SlotInv, Waits, LateInv
<1>2. TypeOK /\ SlotInv /\ LateInv /\ [Next]_vars => SlotInv' /\ LateInv'
  BY SlotStep, LateStep
<1>3. TypeOK /\ SlotInv /\ LateInv => KeepAlivePrompt
  BY BoundAssumption DEF BoundAssumption, TypeOK, Pcs, SlotInv, LateInv, KeepAlivePrompt
<1>4. QED
  BY <1>1, <1>2, <1>3, PromptTypes, PTL DEF Spec
=============================================================================
