---------------------------- MODULE PdLink_proofs ----------------------------
(***************************************************************************)
(* Theorems about PdLink, for any lists, any number of ids and of retries, *)
(* and any pace of the bus: the sink's message ids, the composition as an  *)
(* engine of PdEvent with a partner, and the list of a request.            *)
(***************************************************************************)
EXTENDS PdLink, PdEvent_proofs, TLAPS

(* The sink's counter is as far ahead of the id the source has seen last   *)
(* as the source has missed messages since.                                *)
IdInv ==
    /\ msg_id \in 0..MsgIds - 1 /\ lastId \in 0..MsgIds /\ missed \in 0..MsgIds - 1
    /\ lastId # NoId /\ missed < MsgIds - 1 => msg_id = (lastId + missed) % MsgIds

LEMMA NextIds ==
    ASSUME NEW n \in 0..MsgIds - 1, NEW m \in 0..MsgIds - 1
    PROVE  /\ n % MsgIds = n
           /\ (n + m) % MsgIds = IF n + m < MsgIds THEN n + m ELSE n + m - MsgIds
           /\ (n + 1) % MsgIds = IF n + 1 < MsgIds THEN n + 1 ELSE 0
<1>1. MsgIds \in Nat /\ MsgIds >= 2
  BY LinkAssumption DEF LinkAssumption
<1>2. ASSUME NEW k \in 0..MsgIds - 1 PROVE k % MsgIds = k
  BY <1>1
<1>3. ASSUME NEW k \in MsgIds..2 * MsgIds - 1 PROVE k % MsgIds = k - MsgIds
  BY <1>1
<1> QED
  BY <1>1, <1>2, <1>3

(* What an action does to the ids: nothing, a message is missed, a message *)
(* is the last now, or the source forgets the last.                        *)
IdStep ==
    \/ UNCHANGED ids
    \/ msg_id' = NextId /\ missed' = Capped(missed, MsgIds - 1) /\ UNCHANGED lastId
    \/ msg_id' = NextId /\ missed' = 0 /\ lastId' \in {msg_id', NoId}
    \/ msg_id' \in {msg_id, MsgIds - 1} /\ missed' = 0 /\ lastId' = NoId

LEMMA SayStep ==
    ASSUME NEW ACTION Heard, Say(Heard) PROVE IdStep
BY DEF Say, Miss, Discard, Take, IdStep

LEMMA NextStep == [LinkNext]_all => IdStep
<1> SUFFICES ASSUME [LinkNext]_all PROVE IdStep
  OBVIOUS
<1>1. CASE LinkPass
  <2>1. CASE AnswerList \/ AnswerChunk \/ AnswerReset
    BY <2>1, SayStep DEF AnswerList, AnswerChunk, AnswerReset
  <2>2. CASE Answer
    BY <2>1, <2>2 DEF Answer, Silent, link, IdStep
  <2>3. CASE EnterEpr
    BY <2>3, SayStep DEF EnterEpr, Silent, link, IdStep
  <2>4. CASE SendKeepAlive
    BY <2>4, SayStep DEF SendKeepAlive, Silent, link, IdStep
  <2>5. CASE Execute
    BY <2>5, SayStep DEF Execute, Silent, link, IdStep
  <2>6. CASE Acknowledge
    BY <2>6 DEF Acknowledge, IdStep
  <2>7. CASE Parse
    BY <2>7 DEF Parse, IdStep
  <2> QED
    BY <1>1, <2>2, <2>3, <2>4, <2>5, <2>6, <2>7 DEF LinkPass, Silent, link, IdStep
<1>2. CASE Host
  BY <1>2 DEF Host, HardReset, Silent, link, IdStep
<1>3. CASE Attach
  BY <1>3 DEF Attach, IdStep
<1>4. CASE Source
  BY <1>4 DEF Source, SourceSends, SourceGoodCRC, GiveUp, IdStep
<1>5. CASE TimeOut \/ Advertise \/ LeaveEpr
  BY <1>5 DEF TimeOut, Advertise, LeaveEpr, IdStep
<1>6. CASE UNCHANGED all
  BY <1>6 DEF all, link, IdStep
<1> QED
  BY <1>1, <1>2, <1>3, <1>4, <1>5, <1>6 DEF LinkNext

(* The sink counts its own messages, whatever becomes of them: the source  *)
(* never takes a new one for a repetition, unless it has missed MsgIds - 1 *)
(* in a row (NEXT_MESSAGE_ID, and a Soft_Reset that leaves msg_id alone,   *)
(* event.c 435).                                                           *)
THEOREM MessagesAreNew == LinkSpec => []NextIsNew
<1>1. MsgIds \in Nat /\ MsgIds >= 2
  BY LinkAssumption DEF LinkAssumption
<1>2. LinkInit => IdInv
  BY <1>1 DEF LinkInit, IdInv, NoId
<1>3. IdInv /\ IdStep => IdInv'
  <2> SUFFICES ASSUME IdInv, IdStep PROVE IdInv'
    OBVIOUS
  <2>1. NextId \in 0..MsgIds - 1 /\ NextId = IF msg_id + 1 < MsgIds THEN msg_id + 1 ELSE 0
    <3>1. msg_id \in 0..MsgIds - 1
      BY DEF IdInv
    <3>2. (msg_id + 1) % MsgIds = IF msg_id + 1 < MsgIds THEN msg_id + 1 ELSE 0
      BY <3>1, NextIds
    <3> QED
      BY <1>1, <3>1, <3>2 DEF NextId
  <2>2. CASE UNCHANGED ids
    BY <2>2 DEF ids, IdInv, NoId
  <2>3. CASE msg_id' = NextId /\ missed' = Capped(missed, MsgIds - 1) /\ UNCHANGED lastId
    <3>1. CASE lastId # NoId /\ missed' < MsgIds - 1
      <4>1. missed' = missed + 1 /\ lastId \in 0..MsgIds - 1 /\ missed < MsgIds - 1
        BY <1>1, <2>3, <3>1 DEF IdInv, NoId, Capped
      <4>2. msg_id = IF lastId + missed < MsgIds THEN lastId + missed
                     ELSE lastId + missed - MsgIds
        BY <3>1, <4>1, NextIds DEF IdInv
      <4>3. (lastId + missed') % MsgIds =
               IF lastId + missed' < MsgIds THEN lastId + missed' ELSE lastId + missed' - MsgIds
        <5>1. missed' \in 0..MsgIds - 1
          BY <1>1, <3>1, <4>1 DEF IdInv
        <5> QED
          BY <4>1, <5>1, NextIds
      <4>4. msg_id' = (lastId + missed') % MsgIds
        BY <1>1, <2>1, <2>3, <4>1, <4>2, <4>3 DEF IdInv
      <4> QED
        BY <1>1, <2>1, <2>3, <3>1, <4>1, <4>4 DEF IdInv, NoId
    <3>2. CASE ~(lastId # NoId /\ missed' < MsgIds - 1)
      BY <1>1, <2>1, <2>3, <3>2 DEF IdInv, NoId, Capped
    <3> QED
      BY <3>1, <3>2
  <2>4. CASE msg_id' = NextId /\ missed' = 0 /\ lastId' \in {msg_id', NoId}
    BY <1>1, <2>1, <2>4, NextIds DEF IdInv, NoId
  <2>5. CASE msg_id' \in {msg_id, MsgIds - 1} /\ missed' = 0 /\ lastId' = NoId
    BY <1>1, <2>5 DEF IdInv, NoId
  <2> QED
    BY <2>2, <2>3, <2>4, <2>5 DEF IdStep
<1>4. IdInv => NextIsNew
  <2> SUFFICES ASSUME IdInv, lastId = NextId, missed < MsgIds - 1 PROVE FALSE
    BY <1>1 DEF IdInv, NextIsNew
  <2>1. NextId = IF msg_id + 1 < MsgIds THEN msg_id + 1 ELSE 0
    BY <1>1, NextIds DEF IdInv, NextId
  <2>2. lastId \in 0..MsgIds - 1
    BY <1>1, <2>1 DEF IdInv
  <2>3. msg_id = IF lastId + missed < MsgIds THEN lastId + missed ELSE lastId + missed - MsgIds
    BY <1>1, <2>2, NextIds DEF IdInv, NoId
  <2> QED
    BY <1>1, <2>1, <2>2, <2>3 DEF IdInv
<1> QED
  BY <1>2, <1>3, <1>4, NextStep, PTL DEF LinkSpec
-----------------------------------------------------------------------------
(***************************************************************************)
(* The source of PdLink does nothing the partner of PdEvent could not do.  *)
(***************************************************************************)

(* A list the source offers is one of its mode; an attempt is at a message *)
(* it is sending.                                                          *)
SourceInv ==
    /\ mode \in {"SPR", "EPR"}
    /\ phase # "off" => offered \in IF mode = "SPR" THEN SprLists ELSE EprLists
    /\ phase \in {"wait_chunk", "chunk1"} => mode = "EPR"
    /\ tries \in Nat /\ (tries > 0 => phase \in Sending)

LEMMA OfferInv == ASSUME NEW m \in {"SPR", "EPR"}, Offer(m) PROVE SourceInv'
BY DEF Offer, Start, SourceInv

(* Where the source goes from where it is, if it is not a new offer.       *)
Moved ==
    /\ UNCHANGED <<mode, offered>>
    /\ \/ UNCHANGED <<phase, tries>>
       \/ UNCHANGED phase /\ phase \in Sending /\ tries' = tries + 1
       \/ /\ phase' # "off" => phase # "off"
          /\ phase' = "chunk1" => phase = "wait_chunk"
          /\ phase' = "wait_chunk" => mode = "EPR"
          /\ tries' = 0

LEMMA MovedInv == ASSUME SourceInv, Moved PROVE SourceInv'
BY DEF SourceInv, Moved

LEMMA SaySource ==
    ASSUME SourceInv, NEW ACTION Heard, Say(Heard),
           phase # "off" /\ Heard => Moved \/ SourceInv'
    PROVE  Moved \/ SourceInv'
BY DEF Say, Deaf, Miss, Discard, Take, Disregard, Stay, Moved

LEMMA AnswersMove ==
    ASSUME SourceInv, phase # "off"
    PROVE  /\ Request => Moved
           /\ EprMode => Moved
           /\ KeepAlive => Moved
           /\ ChunkRequest => Moved
           /\ AcceptReset => Moved \/ SourceInv'
<1> USE DEF Go, Start, Unexpected, Disregard, Stay, Moved
<1>1. Request => Moved
  BY DEF Request, SourceInv
<1>2. EprMode => Moved
  BY DEF EprMode, SourceInv
<1>3. KeepAlive => Moved
  BY DEF KeepAlive, SourceInv
<1>4. ChunkRequest => Moved
  BY DEF ChunkRequest, SourceInv
<1>5. AcceptReset => Moved \/ SourceInv'
  BY OfferInv DEF AcceptReset, SourceInv
<1> QED
  BY <1>1, <1>2, <1>3, <1>4, <1>5

LEMMA SourceStep == SourceInv /\ [LinkNext]_all => SourceInv'
<1> SUFFICES ASSUME SourceInv, [LinkNext]_all PROVE SourceInv'
  OBVIOUS
<1>1. SUFFICES Moved \/ SourceInv'
  BY MovedInv
<1>s. UNCHANGED <<phase, tries, mode, offered>> => Moved
  BY DEF Moved
<1>2. CASE Answer \/ EnterEpr \/ SendKeepAlive \/ Execute
  <2>1. \/ Silent \/ Say(Request) \/ Say(ChunkRequest) \/ Say(AcceptReset)
        \/ Say(EprMode) \/ Say(KeepAlive)
    BY <1>2 DEF Answer, AnswerList, AnswerChunk, AnswerReset, EnterEpr, SendKeepAlive, Execute
  <2>2. Silent => Moved
    BY <1>s DEF Silent, link, source
  <2> QED
    BY <2>1, <2>2, SaySource, AnswersMove
<1>3. CASE Acknowledge
  <2>1. CASE AfterAck /\ phase \in Sending
    <3>1. CASE phase = "epr_ack" \/ phase = "exit"
      BY <2>1, <3>1, OfferInv DEF AfterAck
    <3>2. CASE phase \notin {"epr_ack", "exit"}
      BY <2>1, <3>2 DEF AfterAck, Go, Start, Moved, SourceInv, Sending
    <3> QED
      BY <3>1, <3>2
  <2> QED
    BY <1>3, <2>1, <1>s DEF Acknowledge, Stay, SourceInv
<1>4. CASE LinkPass
  BY <1>2, <1>3, <1>4, <1>s DEF LinkPass, Parse, Silent, link, source
<1>5. CASE Host
  BY <1>5, <1>s DEF Host, HardReset, Go, Start, Moved, Silent, link, source
<1>6. CASE Attach \/ Advertise
  BY <1>6, OfferInv DEF Attach, Advertise, SourceInv
<1>7. CASE Source
  <2>1. Retries \in Nat
    BY LinkAssumption DEF LinkAssumption
  <2> QED
    BY <1>7, <1>s, <2>1 DEF Source, SourceSends, SourceGoodCRC, GiveUp, Go, Start, Moved,
                            SourceInv, Sending
<1>8. CASE TimeOut \/ LeaveEpr
  BY <1>8 DEF TimeOut, LeaveEpr, Go, Start, Moved
<1>9. CASE UNCHANGED all
  BY <1>9, <1>s DEF all, link, source
<1> QED
  BY <1>4, <1>5, <1>6, <1>7, <1>8, <1>9 DEF LinkNext

LEMMA SourceHolds == LinkSpec => []SourceInv
<1>1. LinkInit => SourceInv
  BY DEF LinkInit, SourceInv
<1> QED
  BY <1>1, SourceStep, PTL DEF LinkSpec

LEMMA MessageIsFrame == SourceInv /\ phase \in Sending => Message \in Frames
<1> SUFFICES ASSUME SourceInv, phase \in Sending PROVE Message \in Frames
  OBVIOUS
<1> QED
  BY SourceAssumption DEF SourceAssumption, SourceInv, Sending, Message, Frames

(* The engine in the composition is the engine of PdEvent, and the source   *)
(* on its lossy bus one of the partners allowed there: what holds of every *)
(* behaviour of HostSpec holds of the composition.                         *)
THEOREM LinkIsEngine == LinkSpec => HostSpec
<1>1. LinkInit => Init
  BY DEF LinkInit
<1>2. SourceInv /\ [LinkNext]_all => [Next \/ Blocking]_vars
  <2> SUFFICES ASSUME SourceInv, [LinkNext]_all PROVE [Next \/ Blocking]_vars
    OBVIOUS
  <2>1. CASE LinkPass
    BY <2>1 DEF LinkPass, Parse, Acknowledge, Answer, EnterEpr, SendKeepAlive, Execute,
                Next, Pass
  <2>2. CASE Host
    BY <2>2 DEF Host, Next, Blocking
  <2>3. CASE Attach
    BY <2>3 DEF Attach, Next
  <2>4. CASE SourceSends
    BY <2>4, MessageIsFrame DEF SourceSends, Next
  <2>5. CASE SourceGoodCRC
    <3>1. Frame("SOP", "GoodCRC", NoList, 0) \in Frames
      BY SourceAssumption DEF SourceAssumption, Frames
    <3> QED
      BY <2>5, <3>1 DEF SourceGoodCRC, Next
  <2>6. CASE TimeOut
    <3>1. Frame("HARD_RESET", "none", NoList, 0) \in Frames
      BY SourceAssumption DEF SourceAssumption, Frames
    <3> QED
      BY <2>6, <3>1 DEF TimeOut, Next
  <2>7. CASE GiveUp \/ Advertise \/ LeaveEpr
    BY <2>7 DEF GiveUp, Advertise, LeaveEpr
  <2>8. CASE UNCHANGED all
    BY <2>8 DEF all
  <2> QED
    BY <2>1, <2>2, <2>3, <2>4, <2>5, <2>6, <2>7, <2>8 DEF LinkNext, Source
<1> QED
  BY <1>1, <1>2, SourceHolds, PTL DEF LinkSpec, HostSpec
-----------------------------------------------------------------------------
(***************************************************************************)
(* The list a request is made from.                                        *)
(***************************************************************************)
LEMMA LinkTypes == LinkSpec => []TypeOK
BY LinkIsEngine, TypeCorrect, PTL

(* What the engine has still to process: the frame in the slot until its   *)
(* header is parsed, and from then on the header.                          *)
Coming ==
    { m \in {current_data} : event_status = "PD_GOODCRC" \/ pc = "parse" }
    \union
    { m \in {current_msg_header} :
        \/ pc \in {"goodcrc", "process"}
        \/ event_status = "PD_REPLY" /\ pc \notin {"reply", "replied"} }

(* m has been acknowledged and is processed next, and nothing can take its *)
(* place: the source waits for the answer.                                 *)
Untouched(m) ==
    /\ event_status = "PD_REPLY" /\ pc \in {"idle", "process"}
    /\ current_msg_header = m /\ current_data = m
    /\ ~owes

Caps       == Frame("SOP", "Source_Capabilities", offered, 0)
EprCaps(c) == Frame("SOP", "EPR_Source_Capabilities", offered, c)

(* The first chunk of the list offered is saved, and no other comes.       *)
ChunkKept ==
    /\ last_ext_data[0] = offered
    /\ \A m \in Coming : IsExtended(m) => m.chunk # 0

Matched ==
    /\ current_pdo[0] = offered
    /\ current_pdo[1] = IF mode = "EPR" THEN offered ELSE NoList

(* The list offered is parsed, and no other comes.                         *)
Listless(m) == ~IsCaps(m) /\ ~(IsEprCaps(m) /\ LastChunk(m))
ListParsed == Matched /\ \A m \in Coming : Listless(m)

ListAcked ==
    \/ mode = "SPR" /\ Untouched(Caps)
    \/ mode = "EPR" /\ Untouched(EprCaps(1)) /\ last_ext_data[0] = offered

Contract == {"accept", "psrdy", "refuse", "keep", "ready", "epr_ack", "exit"}

(* An attempt the source counts as one at its present message is in the    *)
(* slot, and its header is the one parsed last.                            *)
AttemptInv ==
    /\ headerNow => slotNow /\ current_msg_header = Message
    /\ slotNow => phase \in Sending /\ tries > 0 /\ ~owes /\ current_data = Message

ListInv ==
    /\ phase = "wait_chunk" => Untouched(EprCaps(0)) \/ ChunkKept
    /\ phase = "chunk1" => ChunkKept
    /\ phase = "wait_request" => ListAcked \/ ListParsed
    /\ phase \in Contract => ListParsed

Afresh == slotNow' = FALSE /\ headerNow' = FALSE

LEMMA AnswersAfresh ==
    /\ Request \/ EprMode \/ KeepAlive \/ ChunkRequest \/ AcceptReset => Stay \/ Afresh
    /\ AfterAck => Afresh
<1> USE DEF Go, Start, Offer, Afresh
<1>1. Request \/ EprMode => Stay \/ Afresh
  BY DEF Request, EprMode, Unexpected, Disregard
<1>2. KeepAlive \/ ChunkRequest \/ AcceptReset => Stay \/ Afresh
  BY DEF KeepAlive, ChunkRequest, AcceptReset, Unexpected, Disregard
<1>3. AfterAck => Afresh
  BY DEF AfterAck
<1> QED
  BY <1>1, <1>2, <1>3

LEMMA AfreshAttempt == Afresh => AttemptInv'
BY DEF Afresh, AttemptInv

LEMMA SayAttempt ==
    ASSUME AttemptInv, SourceInv, UNCHANGED <<current_msg_header, current_data>>,
           NEW ACTION Heard, Say(Heard), Heard => Stay \/ Afresh
    PROVE  AttemptInv'
<1>1. CASE Miss
  BY <1>1 DEF Miss, Stay, AttemptInv, Message
<1>2. CASE ~Deaf /\ (Discard \/ Take(Heard))
  <2>1. ~slotNow /\ ~headerNow
    BY <1>2 DEF Deaf, AttemptInv, SourceInv
  <2>2. Stay \/ Afresh
    BY <1>2 DEF Discard, Disregard, Take
  <2> QED
    BY <2>1, <2>2, AfreshAttempt DEF Stay, AttemptInv
<1> QED
  BY <1>1, <1>2 DEF Say

LEMMA AttemptStep ==
    ASSUME AttemptInv, SourceInv, TypeOK, [LinkNext]_all
    PROVE  AttemptInv'
<1>1. CASE Answer \/ EnterEpr \/ SendKeepAlive \/ Execute
  <2>1. \/ Silent \/ Say(Request) \/ Say(ChunkRequest) \/ Say(AcceptReset)
        \/ Say(EprMode) \/ Say(KeepAlive)
    BY <1>1 DEF Answer, AnswerList, AnswerChunk, AnswerReset, EnterEpr, SendKeepAlive, Execute
  <2>2. UNCHANGED <<current_msg_header, current_data>>
    BY <1>1 DEF Answer, EnterEpr, SendKeepAlive, Execute, Reply, WaitEpr, WaitKeepAlive, WaitCmd
  <2>3. CASE Silent
    BY <2>2, <2>3 DEF Silent, link, source, AttemptInv, Message
  <2> QED
    BY <2>1, <2>2, <2>3, SayAttempt, AnswersAfresh
<1>2. CASE Parse
  BY <1>2 DEF Parse, ParseFrame, source, AttemptInv, Message
<1>3. CASE Acknowledge
  <2>1. CASE Stay
    BY <1>3, <2>1 DEF Acknowledge, SendGoodCRC, Stay, AttemptInv, Message
  <2> QED
    BY <1>3, <2>1, AnswersAfresh, AfreshAttempt DEF Acknowledge
<1>4. CASE Silent /\ UNCHANGED <<current_msg_header, current_data>>
  BY <1>4 DEF Silent, link, source, AttemptInv, Message
<1>5. CASE LinkPass
  BY <1>1, <1>2, <1>3, <1>4, <1>5 DEF LinkPass, BeginPass, IgnoreFrame, ProcessMsg, Replied,
     WaitHid, WaitKey, engine
<1>6. CASE Host
  BY <1>4, <1>6, AfreshAttempt DEF Host, HardReset, Go, Start, Afresh, HostCommand,
     SetSinkMode, PdReboot, EndDelay10, EndDelay200, DelayPasses, engine
<1>7. CASE Attach
  BY <1>7, AfreshAttempt DEF Attach, Offer, Start, Afresh
<1>8. CASE SourceSends
  <2>1. CASE ~owes /\ RxEnd(Message) /\ slotNow' = TRUE
    BY <1>8, <2>1 DEF SourceSends, RxEnd, TypeOK, SourceInv, AttemptInv, Message
  <2>2. CASE UNCHANGED <<vars, slotNow>>
    BY <1>8, <2>2 DEF SourceSends, vars, engine, SourceInv, AttemptInv, Message
  <2> QED
    BY <1>8, <2>1, <2>2 DEF SourceSends
<1>9. CASE SourceGoodCRC
  BY <1>9, AfreshAttempt DEF SourceGoodCRC, AttemptInv
<1>10. CASE GiveUp \/ TimeOut \/ Advertise \/ LeaveEpr
  BY <1>10, AfreshAttempt DEF GiveUp, TimeOut, Advertise, LeaveEpr, Offer, Go, Start, Afresh
<1>11. CASE UNCHANGED all
  BY <1>11 DEF all, vars, engine, link, source, AttemptInv, Message
<1> QED
  BY <1>5, <1>6, <1>7, <1>8, <1>9, <1>10, <1>11 DEF LinkNext, Source

LEMMA AttemptHolds == LinkSpec => []AttemptInv
<1>1. LinkInit => AttemptInv
  BY DEF LinkInit, AttemptInv
<1> QED
  BY <1>1, AttemptStep, SourceHolds, LinkTypes, PTL DEF LinkSpec

(* No step of the sink adds to what is coming. *)
LEMMA ComingStep ==
    ASSUME TypeOK, LinkPass \/ Host \/ Attach
    PROVE  Coming' \subseteq Coming
<1>1. CASE LinkPass
  <2>1. CASE BeginPass
    BY <2>1 DEF BeginPass, Coming, TypeOK
  <2>2. CASE ParseFrame \/ IgnoreFrame \/ SendGoodCRC \/ ProcessMsg \/ Reply \/ Replied
    BY <2>2 DEF ParseFrame, IgnoreFrame, Release, SendGoodCRC, ProcessMsg, Reply, Replied,
                EndPass, Coming
  <2>3. CASE WaitEpr \/ WaitKeepAlive \/ WaitHid \/ WaitKey \/ WaitCmd
    BY <2>3 DEF WaitEpr, WaitKeepAlive, WaitHid, WaitKey, WaitCmd, EndPass, engine, Coming
  <2> QED
    BY <1>1, <2>1, <2>2, <2>3 DEF LinkPass, Parse, Acknowledge, Answer, EnterEpr,
       SendKeepAlive, Execute
<1>2. CASE Host
  BY <1>2 DEF Host, HostCommand, SetSinkMode, PdReboot, EndDelay10, EndDelay200, DelayPasses,
     engine, Coming
<1>3. CASE Attach
  BY <1>3 DEF Attach, ConnectChange, Restart, Forget, Coming
<1> QED
  BY <1>1, <1>2, <1>3

(* What the sink keeps of a list changes only when it processes a message, *)
(* and as long as only messages without a list come, not even then.        *)
LEMMA ListStep ==
    ASSUME [LinkNext]_all, ~ProcessMsg, phase # "off"
    PROVE  UNCHANGED <<current_pdo, last_ext_data>>
BY DEF LinkNext, LinkPass, Parse, Acknowledge, Answer, EnterEpr, SendKeepAlive, Execute,
       BeginPass, ParseFrame, IgnoreFrame, SendGoodCRC, Reply, Replied, WaitEpr, WaitKeepAlive,
       WaitHid, WaitKey, WaitCmd, Host, HostCommand, SetSinkMode, PdReboot, EndDelay10,
       EndDelay200, DelayPasses, Attach, Source, SourceSends, SourceGoodCRC, GiveUp, TimeOut,
       Advertise, LeaveEpr, RxEnd, engine, vars, all

(* The source goes on from one contract to the next, or starts over.       *)
Proceeds ==
    \/ phase' \in {"off", "soft", "caps", "wait_accept"}
    \/ /\ UNCHANGED <<mode, offered>>
       /\ phase' = "wait_chunk" => phase = "wait_chunk"
       /\ phase' = "chunk1" => phase \in {"chunk1", "wait_chunk"}
       /\ phase' = "wait_request" => phase = "wait_request"
       /\ phase' \in Contract => phase \in Contract \union {"wait_request"}

LEMMA Proceed ==
    ASSUME ListInv, Proceeds, Coming' \subseteq Coming,
           phase' # "off" => UNCHANGED <<current_pdo, last_ext_data>>,
           \/ pc \notin {"idle", "process"}
           \/ phase \notin {"wait_chunk", "wait_request"}
           \/ /\ UNCHANGED <<phase, event_status, current_msg_header, current_data, owes>>
              /\ pc' \in {"idle", "process"}
    PROVE  ListInv'
<1>1. CASE phase' \in {"off", "soft", "caps", "wait_accept"}
  BY <1>1 DEF ListInv, Contract
<1>2. CASE phase' \notin {"off", "soft", "caps", "wait_accept"}
  <2>1. UNCHANGED <<mode, offered, current_pdo, last_ext_data>>
    BY <1>2 DEF Proceeds
  <2>2. /\ ChunkKept => ChunkKept'
        /\ ListParsed => ListParsed'
    BY <2>1 DEF ChunkKept, ListParsed, Matched, Listless
  <2>3. CASE UNCHANGED <<phase, event_status, current_msg_header, current_data, owes>>
             /\ pc' \in {"idle", "process"}
    <3>1. /\ Untouched(EprCaps(0)) => Untouched(EprCaps(0))'
          /\ ListAcked => ListAcked'
      BY <2>1, <2>3 DEF Untouched, ListAcked, Caps, EprCaps
    <3> QED
      BY <2>2, <2>3, <3>1 DEF ListInv
  <2>4. CASE pc \notin {"idle", "process"} \/ phase \notin {"wait_chunk", "wait_request"}
    <3>1. /\ phase = "wait_chunk" => ChunkKept
          /\ phase = "wait_request" => ListParsed
      BY <2>4 DEF ListInv, Untouched, ListAcked
    <3> QED
      BY <1>2, <2>2, <3>1 DEF ListInv, Proceeds
  <2> QED
    BY <2>3, <2>4
<1> QED
  BY <1>1, <1>2

LEMMA AnswersProceed ==
    /\ Request \/ EprMode \/ KeepAlive \/ ChunkRequest \/ AcceptReset => Proceeds
    /\ Stay => Proceeds
<1> USE DEF Go, Start, Offer, Stay, Unexpected, Disregard, Proceeds, Contract
<1>1. Request => Proceeds
  BY DEF Request
<1>2. EprMode => Proceeds
  BY DEF EprMode
<1>3. KeepAlive => Proceeds
  BY DEF KeepAlive
<1>4. ChunkRequest => Proceeds
  BY DEF ChunkRequest
<1>5. AcceptReset => Proceeds
  BY DEF AcceptReset
<1>6. Stay => Proceeds
  OBVIOUS
<1> QED
  BY <1>1, <1>2, <1>3, <1>4, <1>5, <1>6

LEMMA SayProceeds ==
    ASSUME NEW ACTION Heard, Say(Heard), Heard => Proceeds
    PROVE  Proceeds
BY AnswersProceed DEF Say, Miss, Discard, Take, Disregard

(* A reception while the source waits is a GoodCRC it owed; otherwise it is *)
(* a message of the phase it is in.                                        *)
LEMMA ReceiveList ==
    ASSUME TypeOK, AttemptInv, ListInv, SourceSends \/ SourceGoodCRC
    PROVE  ListInv'
<1>1. UNCHANGED <<phase, mode, offered, current_pdo, last_ext_data, pc, current_msg_header>>
  BY DEF SourceSends, SourceGoodCRC, RxEnd, vars, engine
<1>2. CASE UNCHANGED vars /\ UNCHANGED owes
  <2>1. Coming' = Coming
    BY <1>2 DEF vars, engine, Coming
  <2> QED
    BY <1>1, <1>2, <2>1 DEF vars, engine, ListInv, Untouched, ListAcked, ListParsed, ChunkKept,
       Matched, Listless, Caps, EprCaps
<1>3. CASE UNCHANGED vars /\ SourceGoodCRC
  <2>1. Coming' = Coming
    BY <1>3 DEF vars, engine, Coming
  <2>2. owes
    BY <1>3 DEF SourceGoodCRC
  <2> QED
    BY <1>1, <1>3, <2>1, <2>2 DEF vars, engine, ListInv, Untouched, ListAcked, ListParsed,
       ChunkKept, Matched, Listless
<1>4. ASSUME NEW m, RxEnd(m),
             phase = "chunk1" => (IsExtended(m) => m.chunk # 0),
             phase \in Contract => Listless(m),
             phase \in {"wait_chunk", "wait_request"} => owes /\ ~IsExtended(m) /\ Listless(m)
      PROVE  ListInv'
  <2>1. Coming' \subseteq Coming \union {m}
    BY <1>4 DEF RxEnd, Coming
  <2>2. phase \in {"wait_chunk", "chunk1"} => (ChunkKept => ChunkKept')
    BY <1>1, <1>4, <2>1 DEF ChunkKept
  <2>3. phase \in Contract \union {"wait_request"} => (ListParsed => ListParsed')
    BY <1>1, <1>4, <2>1 DEF ListParsed, Matched, Listless
  <2> QED
    BY <1>1, <1>4, <2>2, <2>3 DEF ListInv, Untouched, ListAcked
<1>5. CASE SourceSends /\ RxEnd(Message)
  <2>1. phase \in Sending
    BY <1>5 DEF SourceSends
  <2> QED
    BY <1>4, <1>5, <2>1 DEF Sending, Message, Frame, IsExtended, IsEprCaps, IsCaps, Listless,
       Contract
<1>6. CASE SourceGoodCRC /\ RxEnd(Frame("SOP", "GoodCRC", NoList, 0))
  <2>1. owes
    BY <1>6 DEF SourceGoodCRC
  <2> QED
    BY <1>4, <1>6, <2>1 DEF Frame, IsExtended, IsEprCaps, IsCaps, Listless
<1> QED
  BY <1>2, <1>3, <1>5, <1>6 DEF SourceSends, SourceGoodCRC

(* The GoodCRC of a list is sent with the list in the slot and its header  *)
(* parsed.                                                                 *)
LEMMA AckList ==
    ASSUME TypeOK, SourceInv, AttemptInv, ListInv, Acknowledge
    PROVE  ListInv'
<1>1. /\ pc = "goodcrc" /\ pc' = "idle" /\ event_status' = "PD_REPLY"
      /\ UNCHANGED <<current_data, current_msg_header, last_ext_data, current_pdo, owes>>
  BY DEF Acknowledge, SendGoodCRC, EndPass
<1>2. Coming' \subseteq Coming
  BY <1>1 DEF Coming
<1>3. CASE Stay
  <2>1. Proceeds
    BY <1>3, AnswersProceed
  <2> QED
    BY <1>1, <1>2, <2>1, Proceed
<1>4. CASE AfterAck /\ headerNow
  <2>1. phase \in Sending /\ ~owes /\ current_data = Message /\ current_msg_header = Message
    BY <1>4 DEF AttemptInv
  <2>2. CASE phase = "caps" /\ mode = "SPR"
    <3>1. phase' = "wait_request" /\ UNCHANGED <<mode, offered>>
      BY <1>4, <2>2 DEF AfterAck, Go, Start
    <3>2. ListAcked'
      BY <1>1, <2>1, <2>2, <3>1 DEF ListAcked, Untouched, Caps, Message
    <3> QED
      BY <3>1, <3>2 DEF ListInv, Contract
  <2>3. CASE phase = "caps" /\ mode = "EPR"
    <3>1. phase' = "wait_chunk" /\ UNCHANGED <<mode, offered>>
      BY <1>4, <2>3 DEF AfterAck, Go, Start
    <3>2. Untouched(EprCaps(0))'
      BY <1>1, <2>1, <2>3, <3>1 DEF Untouched, EprCaps, Message
    <3> QED
      BY <3>1, <3>2 DEF ListInv, Contract
  <2>4. CASE phase = "chunk1"
    <3>1. phase' = "wait_request" /\ UNCHANGED <<mode, offered>>
      BY <1>4, <2>4 DEF AfterAck, Go, Start
    <3>2. mode = "EPR" /\ last_ext_data[0] = offered
      BY <2>4 DEF SourceInv, ListInv, ChunkKept
    <3>3. ListAcked'
      BY <1>1, <2>1, <2>4, <3>1, <3>2 DEF ListAcked, Untouched, EprCaps, Message
    <3> QED
      BY <3>1, <3>3 DEF ListInv, Contract
  <2>5. CASE phase \notin {"caps", "chunk1"}
    <3>1. Proceeds
      BY <1>4, <2>1, <2>5 DEF AfterAck, Go, Start, Offer, Sending, Proceeds, Contract
    <3> QED
      BY <1>1, <1>2, <3>1, Proceed
  <2> QED
    BY <2>2, <2>3, <2>4, <2>5 DEF SourceInv
<1> QED
  BY <1>3, <1>4 DEF Acknowledge

(* The engine processes the list it has acknowledged last.                 *)
LEMMA ProcessList ==
    ASSUME TypeOK, SourceInv, ListInv, ProcessMsg, Silent
    PROVE  ListInv'
<1> DEFINE m == current_msg_header
<1>1. /\ pc = "process" /\ pc' = "reply"
      /\ current_pdo' = ParsedList /\ last_ext_data' = SaveChunk
      /\ UNCHANGED <<event_status, current_data, current_msg_header>>
      /\ UNCHANGED <<phase, mode, offered, owes>>
  BY DEF ProcessMsg, Silent, link, source
<1>2. Coming' \subseteq Coming /\ m \in Coming
  BY <1>1 DEF Coming
<1>3. /\ DOMAIN last_ext_data = 0..1 /\ DOMAIN NoPdos = 0..1
      /\ m \in SlotFrames
  BY DEF TypeOK, NoPdos, SlotFrames
<1>4. ListParsed => ListParsed'
  BY <1>1, <1>2 DEF ListParsed, Listless, Matched, ParsedList
<1>5. ChunkKept => ChunkKept'
  <2>1. ASSUME ChunkKept PROVE SaveChunk[0] = offered
    BY <1>2, <1>3, <2>1 DEF ChunkKept, SaveChunk
  <2> QED
    BY <1>1, <1>2, <2>1 DEF ChunkKept
<1>6. CASE phase = "wait_chunk" /\ Untouched(EprCaps(0))
  <2>1. SaveChunk[0] = offered
    BY <1>3, <1>6 DEF Untouched, EprCaps, Frame, SaveChunk, IsExtended, IsEprCaps
  <2>2. Coming' = {}
    BY <1>1, <1>6 DEF Untouched, Coming
  <2> QED
    BY <1>1, <1>6, <2>1, <2>2 DEF ListInv, ChunkKept, Contract
<1>7. CASE phase = "wait_request" /\ ListAcked
  <2>1. Coming' = {}
    BY <1>1, <1>7 DEF ListAcked, Untouched, Coming
  <2>2. CASE mode = "SPR"
    <3>1. m = Caps /\ current_data = Caps
      BY <1>7, <2>2 DEF ListAcked, Untouched
    <3>2. ParsedList = [NoPdos EXCEPT ![0] = offered]
      BY <3>1 DEF Caps, Frame, ParsedList, IsCaps
    <3>3. Matched'
      BY <1>1, <1>3, <2>2, <3>2 DEF Matched, NoPdos
    <3> QED
      BY <1>1, <1>7, <2>1, <3>3 DEF ListInv, ListParsed, Contract
  <2>3. CASE mode = "EPR"
    <3>1. m = EprCaps(1) /\ current_data = EprCaps(1) /\ last_ext_data[0] = offered
      BY <1>7, <2>3 DEF ListAcked, Untouched
    <3>2. ParsedList = [last_ext_data EXCEPT ![1] = offered]
      BY <3>1 DEF EprCaps, Frame, ParsedList, SaveChunk, IsCaps, IsEprCaps, IsExtended,
                  LastChunk
    <3>3. Matched'
      BY <1>1, <1>3, <2>3, <3>1, <3>2 DEF Matched
    <3> QED
      BY <1>1, <1>7, <2>1, <3>3 DEF ListInv, ListParsed, Contract
  <2> QED
    BY <2>2, <2>3 DEF SourceInv
<1> QED
  BY <1>1, <1>4, <1>5, <1>6, <1>7 DEF ListInv

LEMMA ListInvStep ==
    ASSUME TypeOK, SourceInv, AttemptInv, ListInv, [LinkNext]_all
    PROVE  ListInv'
<1>1. CASE Acknowledge
  BY <1>1, AckList
<1>2. CASE ProcessMsg /\ Silent
  BY <1>2, ProcessList
<1>3. CASE SourceSends \/ SourceGoodCRC
  BY <1>3, ReceiveList
<1>n. ~ProcessMsg /\ phase # "off" => UNCHANGED <<current_pdo, last_ext_data>>
  BY ListStep
<1>s. Silent => Proceeds
  BY AnswersProceed DEF Silent, link, source, Stay
<1>4. CASE Answer \/ EnterEpr \/ SendKeepAlive \/ Execute
  <2>1. \/ Silent \/ Say(Request) \/ Say(ChunkRequest) \/ Say(AcceptReset)
        \/ Say(EprMode) \/ Say(KeepAlive)
    BY <1>4 DEF Answer, AnswerList, AnswerChunk, AnswerReset, EnterEpr, SendKeepAlive, Execute
  <2>2. Proceeds
    BY <2>1, <1>s, SayProceeds, AnswersProceed
  <2>3. /\ pc \in {"reply", "wait_epr", "wait_keep", "wait_cmd"}
        /\ UNCHANGED <<current_pdo, last_ext_data>>
    BY <1>4 DEF Answer, EnterEpr, SendKeepAlive, Execute, Reply, WaitEpr, WaitKeepAlive, WaitCmd
  <2>4. Coming' \subseteq Coming
    BY <1>4, ComingStep DEF LinkPass
  <2> QED
    BY <2>2, <2>3, <2>4, Proceed
<1>5. CASE BeginPass /\ Silent
  <2>1. Coming' \subseteq Coming /\ (event_status = "PD_REPLY" => pc' = "process")
    BY <1>5, ComingStep DEF LinkPass, BeginPass, TypeOK
  <2>2. UNCHANGED <<phase, mode, offered, owes, current_pdo, last_ext_data, current_data,
                    current_msg_header, event_status>>
    BY <1>5 DEF BeginPass, Silent, link, source
  <2> QED
    BY <2>1, <2>2 DEF ListInv, Untouched, ListAcked, ListParsed, ChunkKept, Matched, Listless,
       Caps, EprCaps
<1>6. CASE LinkPass /\ (IgnoreFrame \/ Replied \/ WaitHid \/ WaitKey) /\ Silent
  <2>1. pc \notin {"idle", "process"} /\ UNCHANGED <<current_pdo, last_ext_data>>
    BY <1>6 DEF IgnoreFrame, Replied, WaitHid, WaitKey, engine
  <2> QED
    BY <1>6, <1>s, <2>1, ComingStep, Proceed
<1>7. CASE Parse
  <2>1. pc = "parse" /\ UNCHANGED <<current_pdo, last_ext_data>>
    BY <1>7 DEF Parse, ParseFrame
  <2>2. Proceeds
    BY <1>7 DEF Parse, source, Proceeds
  <2> QED
    BY <1>7, <2>1, <2>2, ComingStep, Proceed DEF LinkPass
<1>8. CASE Host
  <2>1. UNCHANGED <<current_pdo, last_ext_data, event_status, current_data,
                    current_msg_header>>
    BY <1>8 DEF Host, HostCommand, SetSinkMode, PdReboot, DelayPasses, EndDelay10,
                EndDelay200, engine
  <2>2. Proceeds
    BY <1>8, <1>s DEF Host, HardReset, Go, Start, Proceeds
  <2>3. \/ pc \notin {"idle", "process"}
        \/ phase = "ready"
        \/ Silent /\ pc' = pc
    BY <1>8 DEF Host, HostCommand, Quietly, DelayPasses, EndDelay10, EndDelay200
  <2>4. CASE Silent /\ pc' = pc
    BY <2>1, <2>4 DEF Silent, link, source, ListInv, Untouched, ListAcked, ListParsed,
       ChunkKept, Matched, Listless, Caps, EprCaps, Coming
  <2> QED
    BY <1>8, <2>1, <2>2, <2>3, <2>4, ComingStep, Proceed
<1>9. CASE Attach \/ GiveUp \/ TimeOut \/ Advertise
  <2>1. phase' \in {"caps", "soft", "off"}
    BY <1>9 DEF Attach, GiveUp, TimeOut, Advertise, Offer, Go, Start
  <2> QED
    BY <2>1 DEF ListInv, Contract
<1>10. CASE LeaveEpr
  <2>1. phase = "ready" /\ Proceeds /\ UNCHANGED vars
    BY <1>10 DEF LeaveEpr, Go, Start, Proceeds, Contract
  <2>2. Coming' = Coming
    BY <2>1 DEF vars, engine, Coming
  <2> QED
    BY <2>1, <2>2, Proceed DEF vars, engine
<1>11. CASE UNCHANGED all
  BY <1>11 DEF all, vars, engine, link, source, ListInv, Untouched, ListAcked, ListParsed,
     ChunkKept, Matched, Listless, Caps, EprCaps, Coming
<1> QED
  BY <1>1, <1>2, <1>3, <1>4, <1>5, <1>6, <1>7, <1>8, <1>9, <1>10, <1>11
  DEF LinkNext, LinkPass, Source

(* A request is heard only once the sink has processed what it has         *)
(* acknowledged: nothing but a pass that answers or waits sends one.       *)
LEMMA Accepted ==
    ASSUME TypeOK, ListInv, [LinkNext]_all, phase # "accept", phase' = "accept"
    PROVE  Matched /\ UNCHANGED <<mode, offered>>
<1>1. ~AfterAck /\ ~Stay
  BY DEF AfterAck, Go, Start, Offer, Stay
<1>2. ~Acknowledge /\ ~Silent
  BY <1>1 DEF Acknowledge, Silent, link, source
<1>3. Answer \/ EnterEpr \/ SendKeepAlive \/ Execute
  BY <1>2 DEF LinkNext, LinkPass, Parse, Host, HardReset, Attach, Source, SourceSends,
     SourceGoodCRC, GiveUp, TimeOut, Advertise, LeaveEpr, Offer, Go, Start, all, link, source
<1>4. \/ Say(Request) \/ Say(ChunkRequest) \/ Say(AcceptReset) \/ Say(EprMode)
      \/ Say(KeepAlive)
  BY <1>2, <1>3 DEF Answer, AnswerList, AnswerChunk, AnswerReset, EnterEpr, SendKeepAlive, Execute
<1>5. Request
  BY <1>1, <1>4 DEF Say, Miss, Discard, Disregard, Take, ChunkRequest, AcceptReset, EprMode,
     KeepAlive, Unexpected, Offer, Go, Start
<1>6. phase \in {"wait_request", "ready"} /\ UNCHANGED <<mode, offered>>
  BY <1>1, <1>5 DEF Request, Unexpected, Disregard, Go, Start
<1>7. pc \notin {"idle", "process"}
  BY <1>3 DEF Answer, EnterEpr, SendKeepAlive, Execute, Reply, WaitEpr, WaitKeepAlive, WaitCmd
<1> QED
  BY <1>6, <1>7 DEF ListInv, ListAcked, Untouched, ListParsed, Contract

(* Whatever is lost, repeated, refused or advertised anew, and however the  *)
(* host's blocking commands cut in: a request the source takes was made    *)
(* from the list it offers.  No timing is assumed (RxEnd, process_msg,     *)
(* parse_pdos, auto_reply).                                                *)
THEOREM RequestsMatchOffer == LinkSpec => RequestForPresentList
<1>1. LinkInit => ListInv
  BY DEF LinkInit, ListInv, Contract
<1>2. LinkSpec => []ListInv
  BY <1>1, ListInvStep, LinkTypes, SourceHolds, AttemptHolds, PTL DEF LinkSpec
<1>3. TypeOK /\ ListInv /\ [LinkNext]_all =>
        [phase # "accept" /\ phase' = "accept" =>
           /\ current_pdo[0] = offered
           /\ current_pdo[1] = IF mode = "EPR" THEN offered ELSE NoList]_all
  BY Accepted DEF Matched
<1> QED
  BY <1>2, <1>3, LinkTypes, PTL DEF LinkSpec, RequestForPresentList
=============================================================================
