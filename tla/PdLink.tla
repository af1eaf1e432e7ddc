------------------------------- MODULE PdLink -------------------------------
(***************************************************************************)
(* The engine of PdEvent and a source that talks to it over a bus which    *)
(* loses frames.  The source repeats a message whose GoodCRC it missed,    *)
(* gives up with a Soft_Reset and a hard reset, advertises anew, refuses   *)
(* and leaves EPR mode; it discards a message that has the id of the one   *)
(* before.  The sink repeats nothing, counts its messages by msg_id, and   *)
(* takes every frame as new (last_msg_header is never read).               *)
(*                                                                         *)
(* The source's ids are kept as far as a GoodCRC shows them: whether the   *)
(* frame in the slot, and the one parsed last, is an attempt at the        *)
(* message the source is sending.  Packets of the host are left out.       *)
(***************************************************************************)
EXTENDS PdEvent

CONSTANTS
    MsgIds,         \* 8 in the code
    Retries,        \* times the source repeats a message
    UserPhases      \* phases during which a key or the host queues a command

ASSUME LinkAssumption == MsgIds \in Nat \ {0, 1} /\ Retries \in Nat

(* What this source sends is among what PdEvent takes from a partner.      *)
ASSUME SourceAssumption ==
    /\ {"GoodCRC", "PS_RDY", "Soft_Reset", "Extended", "Other"} \subseteq Kinds
    /\ "HARD_RESET" \in Signals

VARIABLES
    msg_id,
    slotNow, headerNow,  \* an attempt at the source's present message
    phase,          \* what the source is doing
    tries,          \* attempts at its message so far
    mode, offered,  \* "SPR" or "EPR", and the list it offers there
    owes,           \* it has a GoodCRC to send
    lastId,         \* id of the sink's last message, NoId after a reset
    missed,         \* messages of the sink it has missed since
    trouble         \* since the plug went in something was lost or refused

source == <<phase, tries, mode, offered, owes>>
ids    == <<msg_id, lastId, missed>>
link   == <<slotNow, headerNow, source, ids, trouble>>
all    == <<vars, link>>

NoId == MsgIds

Waiting == {"wait_request", "wait_chunk", "wait_accept"}
Sending == {"caps", "chunk1", "accept", "psrdy", "refuse", "keep", "epr_ack", "exit", "soft"}

LinkInit ==
    /\ Init /\ usb_pd_msg_priority = "REPLY_PRIORITY" /\ usb_pd_sink_mode = "EPR_MODE"
    /\ msg_id = MsgIds - 1
    /\ slotNow = FALSE /\ headerNow = FALSE
    /\ phase = "off" /\ tries = 0 /\ mode = "SPR" /\ offered = NoList /\ owes = FALSE
    /\ lastId = NoId /\ missed = 0
    /\ trouble = FALSE

-----------------------------------------------------------------------------
(* What the source goes on with. *)
Start(p) == phase' = p /\ tries' = 0 /\ slotNow' = FALSE /\ headerNow' = FALSE

Offer(m) ==
    /\ Start("caps")
    /\ mode' = m
    /\ offered' \in (IF m = "SPR" THEN SprLists ELSE EprLists)

Go(p) == Start(p) /\ UNCHANGED <<mode, offered>>

Stay == UNCHANGED <<slotNow, headerNow, phase, tries, mode, offered>>

(* A message that does not fit makes it start over with a Soft_Reset.      *)
Unexpected == Go("soft") /\ trouble' = TRUE

Disregard == Stay /\ trouble' = TRUE

Request ==
    IF phase \in {"wait_request", "ready"}
    THEN IF (epr_status = "EPR_ON") = (mode = "EPR")
         THEN \/ Go("accept") /\ UNCHANGED trouble
              \/ Go("refuse") /\ trouble' = TRUE
         ELSE Disregard
    ELSE Unexpected

EprMode ==
    IF phase = "ready" /\ mode = "SPR"
    THEN \/ Go("epr_ack") /\ UNCHANGED trouble
         \/ Go("refuse") /\ trouble' = TRUE
    ELSE Unexpected

KeepAlive ==
    IF phase = "ready" THEN Go("keep") /\ UNCHANGED trouble ELSE Unexpected

ChunkRequest ==
    IF phase = "wait_chunk" THEN Go("chunk1") /\ UNCHANGED trouble ELSE Disregard

AcceptReset ==
    IF phase = "wait_accept" THEN Offer(mode) /\ UNCHANGED trouble ELSE Disregard

-----------------------------------------------------------------------------
(* The sink sends a message of its own: NEXT_MESSAGE_ID, for every header  *)
(* but the one of a GoodCRC.                                               *)
SameId == msg_id                                                 \* mutant
NextId == (msg_id + 1) % MsgIds

Deaf == phase = "off" \/ tries > 0

Miss ==
    /\ missed' = Capped(missed, MsgIds - 1)
    /\ trouble' = TRUE
    /\ Stay
    /\ UNCHANGED <<owes, lastId>>

Discard ==
    /\ lastId = msg_id'
    /\ owes' = TRUE
    /\ missed' = 0
    /\ Disregard
    /\ UNCHANGED lastId

Take(Heard) ==
    /\ lastId # msg_id'
    /\ owes' = TRUE
    /\ missed' = 0
    /\ Heard
    /\ lastId' = IF phase' = "soft" THEN NoId ELSE msg_id'

Say(Heard) ==
    /\ msg_id' = NextId
    /\ Miss \/ (~Deaf /\ (Discard \/ Take(Heard)))

Silent == UNCHANGED link

-----------------------------------------------------------------------------
(* A pass of the engine. *)
Parse == ParseFrame /\ headerNow' = slotNow
         /\ UNCHANGED <<slotNow, source, ids, trouble>>

(* The source hears the GoodCRC of its present message. *)
AfterAck ==
    CASE phase = "caps"    -> Go(IF mode = "SPR" THEN "wait_request" ELSE "wait_chunk")
      [] phase = "chunk1"  -> Go("wait_request")
      [] phase = "accept"  -> Go("psrdy")
      [] phase = "epr_ack" -> Offer("EPR")
      [] phase = "exit"    -> Offer("SPR")
      [] phase = "soft"    -> Go("wait_accept")
      [] OTHER             -> Go("ready")

Acknowledge ==
    /\ SendGoodCRC
    /\ \/ headerNow /\ tries > 0 /\ AfterAck
       \/ Stay
    /\ UNCHANGED <<owes, ids, trouble>>

AnswerList == /\ \/ IsCaps(current_msg_header)
                 \/ IsEprCaps(current_msg_header) /\ LastChunk(current_msg_header)
              /\ Say(Request)

NoNextChunk == IsEprCaps(current_msg_header) /\ ~LastChunk(current_msg_header)  \* mutant
               /\ Silent
AnswerChunk == IsEprCaps(current_msg_header) /\ ~LastChunk(current_msg_header)
               /\ Say(ChunkRequest)

AnswerReset == current_msg_header.kind = "Soft_Reset" /\ Say(AcceptReset)

Answer ==
    /\ Reply
    /\ \/ AnswerList \/ AnswerChunk \/ AnswerReset
       \/ /\ current_msg_header.kind \notin {"Source_Capabilities",
                                             "EPR_Source_Capabilities", "Soft_Reset"}
          /\ Silent

EnterEpr == WaitEpr /\ IF EprRequestDue THEN Say(EprMode) ELSE Silent

SendKeepAlive ==
    /\ WaitKeepAlive
    /\ IF ~KeepAliveDue THEN Silent
       ELSE IF keep_alive_status = "KEEP_ALIVE_EPR" THEN Say(KeepAlive) ELSE Say(Request)

(* A command that changes the request has stamped the time. *)
Execute ==
    /\ WaitCmd
    /\ \/ cmd_queue > 0 /\ current_pdo # NoPdos /\ elapsed' = 0 /\ Say(Request)
       \/ (cmd_queue = 0 \/ <<rdo_type', elapsed', quiet'>> = <<rdo_type, elapsed, quiet>>)
          /\ Silent

LinkPass ==
    \/ (BeginPass \/ IgnoreFrame \/ ProcessMsg \/ Replied \/ WaitHid) /\ Silent
    \/ WaitKey /\ (phase \in UserPhases \/ UNCHANGED cmd_queue) /\ Silent
    \/ Parse \/ Acknowledge \/ Answer \/ EnterEpr \/ SendKeepAlive \/ Execute

-----------------------------------------------------------------------------
(* The host: a command for the engine, and those that block the loop and   *)
(* send a hard reset, which takes the source's power away until the sink   *)
(* has seen it go.  Bounds: it sends these while the source is at rest and  *)
(* nothing is wrong, and sets the mode the sink is in, EPR_MODE; it and    *)
(* the keys queue other commands in UserPhases.                            *)
HardReset ==
    \/ phase # "off" /\ Go("off") /\ trouble' = TRUE /\ owes' = FALSE /\ UNCHANGED ids
    \/ Silent

Quietly == phase = "ready" /\ ~trouble

Host ==
    \/ phase \in UserPhases /\ HostCommand /\ Silent
    \/ Quietly /\ UNCHANGED usb_pd_sink_mode /\ SetSinkMode /\ Silent
    \/ Quietly /\ PdReboot /\ HardReset
    \/ EndDelay10 /\ HardReset
    \/ (DelayPasses \/ EndDelay200) /\ Silent

(* The plug goes in, or the power comes back. *)
Attach ==
    /\ phase = "off"
    /\ ConnectChange \/ Restart
    /\ Offer("SPR")
    /\ owes' = FALSE
    /\ msg_id' = MsgIds - 1 /\ lastId' = NoId /\ missed' = 0
    /\ trouble' = FALSE

-----------------------------------------------------------------------------
(* The source: its message, once more if need be, and what it does when    *)
(* nobody answers.                                                         *)
Message ==
    CASE phase = "caps" /\ mode = "SPR" -> Frame("SOP", "Source_Capabilities", offered, 0)
      [] phase = "caps" /\ mode = "EPR" -> Frame("SOP", "EPR_Source_Capabilities", offered, 0)
      [] phase = "chunk1" -> Frame("SOP", "EPR_Source_Capabilities", offered, 1)
      [] phase = "psrdy"  -> Frame("SOP", "PS_RDY", NoList, 0)
      [] phase = "soft"   -> Frame("SOP", "Soft_Reset", NoList, 0)
      [] phase = "keep"   -> Frame("SOP", "Extended", NoList, 0)
      [] OTHER            -> Frame("SOP", "Other", NoList, 0)

SourceSends ==
    /\ phase \in Sending /\ tries <= Retries
    /\ tries' = tries + 1
    /\ \/ ~owes /\ RxEnd(Message) /\ slotNow' = TRUE
       \/ UNCHANGED <<vars, slotNow>>
    /\ UNCHANGED <<headerNow, phase, mode, offered, owes, ids, trouble>>

SourceGoodCRC ==
    /\ owes
    /\ owes' = FALSE
    /\ \/ RxEnd(Frame("SOP", "GoodCRC", NoList, 0)) /\ slotNow' = FALSE
       \/ UNCHANGED <<vars, slotNow>>
    /\ UNCHANGED <<headerNow, phase, tries, mode, offered, ids, trouble>>

(* No GoodCRC for the last attempt, or no answer in time: a Soft_Reset, or *)
(* a hard reset, of which the sink sees the signal and later the power go. *)
GiveUp ==
    /\ tries > Retries
    /\ Go(IF phase = "soft" THEN "off" ELSE "soft")
    /\ trouble' = TRUE
    /\ lastId' = NoId /\ missed' = 0
    /\ UNCHANGED <<vars, owes, msg_id>>

TimeOut ==
    /\ phase \in Waiting
    /\ Go("off")
    /\ trouble' = TRUE
    /\ owes' = FALSE
    /\ RxEnd(Frame("HARD_RESET", "none", NoList, 0)) \/ UNCHANGED vars
    /\ UNCHANGED ids

(* On its own account it advertises anew, or leaves EPR mode. *)
Advertise ==
    /\ phase = "ready"
    /\ Offer(mode)
    /\ UNCHANGED <<vars, owes, ids, trouble>>

LeaveEpr ==
    /\ phase = "ready" /\ mode = "EPR"
    /\ Go("exit")
    /\ trouble' = TRUE
    /\ UNCHANGED <<vars, owes, ids>>

Source == SourceSends \/ SourceGoodCRC \/ GiveUp

LinkNext == LinkPass \/ Host \/ Attach \/ Source \/ TimeOut \/ Advertise \/ LeaveEpr

LinkSpec == LinkInit /\ [][LinkNext]_all /\ WF_all(LinkPass) /\ WF_all(Source)
-----------------------------------------------------------------------------
(* The source never takes a new message of the sink for a repetition of    *)
(* the one before, also after a Soft_Reset, which the sink accepts without *)
(* resetting its counter (line 435): unless it has missed all the ids      *)
(* between.                                                                *)
NextIsNew == phase # "off" /\ lastId = NextId => missed = MsgIds - 1

(* A request the source takes was made from the very list it offers, each  *)
(* time, however often either repeated itself or started over.             *)
RequestForPresentList ==
    [][phase # "accept" /\ phase' = "accept" =>
        /\ current_pdo[0] = offered
        /\ current_pdo[1] = IF mode = "EPR" THEN offered ELSE NoList]_all

(* EPR_WAITING has no timeout, and needs none as long as nothing is lost   *)
(* or refused: the EPR list comes (lines 1145-1158, 296-305).              *)
EprReached ==
    epr_status = "EPR_WAITING" /\ ~trouble ~> epr_status = "EPR_ON" \/ trouble
=============================================================================
