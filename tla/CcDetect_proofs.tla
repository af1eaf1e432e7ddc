------------------------ MODULE CcDetect_proofs ------------------------
(***************************************************************************)
(* Theorems about CcDetect.  The counter of ccdet.c is compared with the   *)
(* ghosts: with `stable`, how long a plug has rested, and with `streak`,   *)
(* how long the samples have contradicted the state.                       *)
(***************************************************************************)
EXTENDS CcDetect, TLAPS

-----------------------------------------------------------------------------
LEMMA CountType ==
    ASSUME connection_count \in 0..(CountRange - 1)
    PROVE  /\ NextCount \in 0..(CountRange - 1)
           /\ connection_count < CountRange - 1 => NextCount = connection_count + 1
           /\ connection_count = CountRange - 1 => NextCount = 0
BY CountAssumption DEF NextCount

LEMMA CappedType ==
    ASSUME NEW n \in 0..Settle
    PROVE  /\ Capped(n) \in 0..Settle
           /\ n < Settle => Capped(n) = n + 1
           /\ n = Settle => Capped(n) = n
BY DEF Capped, Settle

LEMMA ChooseType ==
    ASSUME NEW mv1, NEW mv2
    PROVE  ChooseChannel(mv1, mv2) \in Channels
BY DEF ChooseChannel, Channels

(* Resting pins read as attached, and the channel chosen from them is the  *)
(* side of the plug.                                                       *)
LEMMA RestingPins ==
    ASSUME ~bouncing, plug \in Channels, NEW pins \in PinsOf(plug)
    PROVE  /\ ReadsAttached(CcVoltage(pins[1]), CcVoltage(pins[2]))
           /\ ChooseChannel(CcVoltage(pins[1]), CcVoltage(pins[2])) = plug
<1> DEFINE a == CcVoltage(pins[1])
           b == CcVoltage(pins[2])
<1>1. CASE plug = "CC1"
  <2>1. pins[1] \in 2..6 /\ pins[2] \in {0, 1, 7}
    BY <1>1 DEF PinsOf, RpLevel, OtherLevel
  <2>2. a \in 450..1230 /\ b \in {0, 220, 2200}
    BY <2>1 DEF CcVoltage, Ladder
  <2> QED BY <1>1, <2>2 DEF ReadsAttached, ChooseChannel, InRpRange, Unused
<1>2. CASE plug = "CC2"
  <2>1. pins[2] \in 2..6 /\ pins[1] \in {0, 1, 7}
    BY <1>2 DEF PinsOf, RpLevel, OtherLevel
  <2>2. b \in 450..1230 /\ a \in {0, 220, 2200}
    BY <2>1 DEF CcVoltage, Ladder
  <2> QED BY <1>2, <2>2 DEF ReadsAttached, ChooseChannel, InRpRange, Unused
<1> QED BY <1>1, <1>2 DEF Channels

-----------------------------------------------------------------------------
(* What a pass does, by what its sample says. *)
Agrees   == connection_count' = 0 /\ Agree /\ UNCHANGED <<active_cc_channel, attachedBouncing>>
Differs  == connection_count' = NextCount /\ Differ
            /\ UNCHANGED <<active_cc_channel, attachedBouncing>>
Detaches == connection_count' = NextCount /\ Switch
            /\ active_cc_channel' = "NONE" /\ UNCHANGED attachedBouncing
Attaches == connection_count' = NextCount /\ Switch
            /\ active_cc_channel' \in Channels /\ attachedBouncing' = bouncing

LEMMA ConnectedCases ==
    ASSUME DetectConnected
    PROVE  \/ Agrees /\ (bouncing \/ plug # "out")
           \/ Differs /\ ~(NextCount >= 2) /\ (bouncing \/ plug = "out")
           \/ Detaches /\ NextCount >= 2 /\ (bouncing \/ plug = "out")
<1>1. PICK vbus \in VbusOf(plug) :
         IF vbus > 2500
         THEN /\ connection_count' = 0
              /\ Agree
              /\ UNCHANGED active_cc_channel
         ELSE /\ connection_count' = NextCount
              /\ IF DetachAt(NextCount)
                 THEN active_cc_channel' = "NONE" /\ Switch
                 ELSE UNCHANGED active_cc_channel /\ Differ
  BY DEF DetectConnected
<1>2. /\ vbus \in Nat
      /\ vbus > 2500 => bouncing \/ plug # "out"
      /\ ~(vbus > 2500) => bouncing \/ plug = "out"
  BY VbusAssumption DEF VbusOf
<1>3. UNCHANGED attachedBouncing
  BY DEF DetectConnected
<1>4. CASE vbus > 2500
  <2>1. Agrees
    BY <1>1, <1>3, <1>4 DEF Agrees
  <2> QED BY <2>1, <1>2, <1>4
<1>5. CASE ~(vbus > 2500) /\ NextCount >= 2
  <2>1. Detaches
    BY <1>1, <1>3, <1>5 DEF Detaches, DetachAt
  <2> QED BY <2>1, <1>2, <1>5
<1>6. CASE ~(vbus > 2500) /\ ~(NextCount >= 2)
  <2>1. Differs
    BY <1>1, <1>3, <1>6 DEF Differs, DetachAt
  <2> QED BY <2>1, <1>2, <1>6
<1> QED BY <1>4, <1>5, <1>6

LEMMA NoneCases ==
    ASSUME DetectNone
    PROVE  \/ Agrees /\ (bouncing \/ plug \notin Channels)
           \/ Differs /\ ~(NextCount >= 3) /\ (bouncing \/ plug # "out")
           \/ /\ Attaches /\ NextCount >= 3 /\ (bouncing \/ plug # "out")
              /\ ~bouncing /\ plug \in Channels => active_cc_channel' = plug
<1>1. PICK vbus \in VbusOf(plug), one \in PinsOf(plug), two \in PinsOf(plug) :
         IF vbus > 3000 /\ ReadsAttached(CcVoltage(one[1]), CcVoltage(one[2]))
         THEN /\ connection_count' = NextCount
              /\ IF NextCount >= 3
                 THEN /\ active_cc_channel' =
                           ChooseChannel(CcVoltage(two[1]), CcVoltage(two[2]))
                      /\ attachedBouncing' = bouncing
                      /\ Switch
                 ELSE /\ UNCHANGED <<active_cc_channel, attachedBouncing>>
                      /\ Differ
         ELSE /\ connection_count' = 0
              /\ Agree
              /\ UNCHANGED <<active_cc_channel, attachedBouncing>>
  BY DEF DetectNone
<1>2. /\ vbus > 3000 => bouncing \/ plug # "out"
      /\ ~(vbus > 3000) => bouncing \/ plug = "out"
  BY VbusAssumption DEF VbusOf
<1>3. "out" \notin Channels
  BY DEF Channels
<1>4. ~bouncing /\ plug \in Channels =>
         /\ ReadsAttached(CcVoltage(one[1]), CcVoltage(one[2]))
         /\ ChooseChannel(CcVoltage(two[1]), CcVoltage(two[2])) = plug
  BY RestingPins
<1>5. ChooseChannel(CcVoltage(two[1]), CcVoltage(two[2])) \in Channels
  BY ChooseType
<1>6. CASE ~(vbus > 3000 /\ ReadsAttached(CcVoltage(one[1]), CcVoltage(one[2])))
  <2>1. Agrees
    BY <1>1, <1>6 DEF Agrees
  <2>2. bouncing \/ plug \notin Channels
    BY <1>2, <1>3, <1>4, <1>6
  <2> QED BY <2>1, <2>2
<1>7. CASE /\ (vbus > 3000 /\ ReadsAttached(CcVoltage(one[1]), CcVoltage(one[2])))
          /\ ~(NextCount >= 3)
  <2>1. Differs
    BY <1>1, <1>7 DEF Differs
  <2> QED BY <2>1, <1>2, <1>7
<1>8. CASE /\ (vbus > 3000 /\ ReadsAttached(CcVoltage(one[1]), CcVoltage(one[2])))
          /\ NextCount >= 3
  <2>1. Attaches
    BY <1>1, <1>5, <1>8 DEF Attaches
  <2>2. ~bouncing /\ plug \in Channels => active_cc_channel' = plug
    BY <1>1, <1>4, <1>8
  <2> QED BY <2>1, <2>2, <1>2, <1>8
<1> QED BY <1>6, <1>7, <1>8

-----------------------------------------------------------------------------
(* The ghosts and the counter keep their types (the static variables of    *)
(* ccdet.c, lines 7 and 42).                                               *)
LEMMA TypeStep == TypeOK /\ [Next]_vars => TypeOK'
<1> SUFFICES ASSUME TypeOK, [Next]_vars PROVE TypeOK'
  OBVIOUS
<1>g. /\ settled \in BOOLEAN /\ bouncing \in BOOLEAN /\ attachedBouncing \in BOOLEAN
      /\ stable \in 0..Settle /\ streak \in 0..Settle
      /\ connection_count \in 0..(CountRange - 1)
  BY DEF TypeOK
<1>h. /\ Capped(streak) \in 0..Settle /\ Capped(stable) \in 0..Settle /\ 0 \in 0..Settle
      /\ NextCount \in 0..(CountRange - 1) /\ 0 \in 0..(CountRange - 1)
  BY <1>g, CappedType, CountType, CountAssumption DEF Settle
<1>r. Rested => stable' \in 0..Settle
  BY <1>h DEF Rested
<1>s. Agree \/ Differ \/ Switch => settled' \in BOOLEAN /\ streak' \in 0..Settle
  BY <1>g, <1>h, Zenon DEF Agree, Differ, Switch
<1>u. Agrees \/ Differs \/ Detaches \/ Attaches =>
         /\ active_cc_channel' \in {"NONE"} \union Channels
         /\ connection_count' \in 0..(CountRange - 1)
         /\ attachedBouncing' \in BOOLEAN
         /\ settled' \in BOOLEAN
         /\ streak' \in 0..Settle
  BY <1>g, <1>h, <1>s, Zenon DEF Agrees, Differs, Detaches, Attaches, TypeOK
<1>1. CASE DetectConnected
  <2>1. UNCHANGED <<plug, bouncing>> /\ Rested
    BY <1>1 DEF DetectConnected
  <2> QED BY <2>1, <1>1, <1>r, <1>u, ConnectedCases DEF TypeOK
<1>2. CASE DetectNone
  <2>1. UNCHANGED <<plug, bouncing>> /\ Rested
    BY <1>2 DEF DetectNone
  <2> QED BY <2>1, <1>2, <1>r, <1>u, NoneCases DEF TypeOK
<1>3. CASE StartBounce
  BY <1>3 DEF TypeOK, StartBounce, Settle
<1>4. CASE EndBounce
  <2>1. plug' \in {"out"} \union Channels /\ bouncing' \in BOOLEAN
    BY <1>4, Zenon DEF TypeOK, EndBounce
  <2> QED BY <1>4, <2>1 DEF TypeOK, EndBounce, Settle
<1>5. CASE UNCHANGED vars
  BY <1>5 DEF TypeOK, vars
<1> QED BY <1>1, <1>2, <1>3, <1>4, <1>5 DEF Next

-----------------------------------------------------------------------------
(* How far the counter has come when the plug has rested for `stable`      *)
(* passes.  After the first of them it is anything: bouncing may leave it  *)
(* at the limit of its width, and the next pass wraps it.                  *)
WithdrawalCount ==
    (plug = "out" /\ ~bouncing /\ active_cc_channel # "NONE") =>
        \/ stable = 0
        \/ stable = 1 /\ connection_count <= 1
        \/ stable = 2 /\ connection_count = 1

AttachCount ==
    (plug # "out" /\ ~bouncing /\ active_cc_channel = "NONE") =>
        \/ stable = 0
        \/ stable <= 3 /\ connection_count >= stable - 1 /\ connection_count <= 2

(* A connected channel is that of the plug, or dates from a bounce, or its *)
(* plug has just gone.                                                     *)
ChannelOfPlug ==
    active_cc_channel # "NONE" =>
        \/ attachedBouncing
        \/ active_cc_channel = plug
        \/ plug = "out" /\ ~bouncing

(* Once a pass has agreed with the state, the counter is the length of the *)
(* run of contradictions, and short of the one that changes the state.     *)
SettledCount ==
    settled =>
        /\ connection_count = streak
        /\ active_cc_channel = "NONE" => connection_count <= 2
        /\ active_cc_channel # "NONE" => connection_count <= 1

IInv == TypeOK /\ WithdrawalCount /\ AttachCount /\ ChannelOfPlug /\ SettledCount

-----------------------------------------------------------------------------
LEMMA RestedFacts ==
    ASSUME TypeOK, Rested
    PROVE  /\ bouncing => stable' = 0
           /\ ~bouncing /\ stable < Settle => stable' = stable + 1
           /\ ~bouncing /\ stable = Settle => stable' = Settle
<1> stable \in 0..Settle
  BY DEF TypeOK
<1> QED BY CappedType DEF Rested

LEMMA CountFacts ==
    ASSUME TypeOK
    PROVE  /\ connection_count \in Nat /\ NextCount \in Nat
           /\ connection_count <= 6 => NextCount = connection_count + 1
<1> connection_count \in 0..(CountRange - 1)
  BY DEF TypeOK
<1> QED BY CountType, CountAssumption

(* A pass of the state machine keeps the four bounds on the counter.       *)
LEMMA ConnectedPreserves == IInv /\ DetectConnected =>
    WithdrawalCount' /\ AttachCount' /\ ChannelOfPlug' /\ SettledCount'
<1> SUFFICES ASSUME IInv, DetectConnected
             PROVE  WithdrawalCount' /\ AttachCount' /\ ChannelOfPlug' /\ SettledCount'
  OBVIOUS
<1>1. TypeOK /\ WithdrawalCount /\ ChannelOfPlug /\ SettledCount
  BY DEF IInv
<1>2. active_cc_channel # "NONE" /\ Rested /\ UNCHANGED <<plug, bouncing>>
  BY DEF DetectConnected
<1>3. streak \in 0..Settle /\ stable \in 0..Settle
  BY <1>1 DEF TypeOK
<1>4. CASE Agrees /\ (bouncing \/ plug # "out")
  BY <1>1, <1>2, <1>4 DEF Agrees, Agree, WithdrawalCount, AttachCount, ChannelOfPlug, SettledCount
<1>5. CASE Differs /\ ~(NextCount >= 2) /\ (bouncing \/ plug = "out")
  <2>1. WithdrawalCount'
    BY <1>1, <1>2, <1>3, <1>5, RestedFacts, CountFacts
       DEF Differs, WithdrawalCount, Settle
  <2>2. AttachCount' /\ ChannelOfPlug'
    BY <1>1, <1>2, <1>5 DEF Differs, AttachCount, ChannelOfPlug
  <2>3. SettledCount'
    BY <1>1, <1>2, <1>3, <1>5, CountFacts, CappedType DEF Differs, Differ, SettledCount, Settle
  <2> QED BY <2>1, <2>2, <2>3
<1>6. CASE Detaches /\ NextCount >= 2 /\ (bouncing \/ plug = "out")
  BY <1>2, <1>6 DEF Detaches, Switch, WithdrawalCount, AttachCount, ChannelOfPlug, SettledCount
<1> QED BY <1>4, <1>5, <1>6, ConnectedCases

LEMMA NonePreserves == IInv /\ DetectNone =>
    WithdrawalCount' /\ AttachCount' /\ ChannelOfPlug' /\ SettledCount'
<1> SUFFICES ASSUME IInv, DetectNone
             PROVE  WithdrawalCount' /\ AttachCount' /\ ChannelOfPlug' /\ SettledCount'
  OBVIOUS
<1>1. TypeOK /\ AttachCount /\ SettledCount
  BY DEF IInv
<1>2. active_cc_channel = "NONE" /\ Rested /\ UNCHANGED <<plug, bouncing>>
  BY DEF DetectNone
<1>3. /\ streak \in 0..Settle /\ stable \in 0..Settle
      /\ plug \in {"out"} \union Channels /\ "NONE" \notin Channels
  BY <1>1 DEF TypeOK, Channels
<1>4. CASE Agrees /\ (bouncing \/ plug \notin Channels)
  BY <1>2, <1>3, <1>4 DEF Agrees, Agree, WithdrawalCount, AttachCount, ChannelOfPlug, SettledCount
<1>5. CASE Differs /\ ~(NextCount >= 3) /\ (bouncing \/ plug # "out")
  <2>1. AttachCount'
    BY <1>1, <1>2, <1>3, <1>5, RestedFacts, CountFacts DEF Differs, AttachCount, Settle
  <2>2. WithdrawalCount' /\ ChannelOfPlug'
    BY <1>2, <1>5 DEF Differs, WithdrawalCount, ChannelOfPlug
  <2>3. SettledCount'
    BY <1>1, <1>2, <1>3, <1>5, CountFacts, CappedType DEF Differs, Differ, SettledCount, Settle
  <2> QED BY <2>1, <2>2, <2>3
<1>6. CASE /\ Attaches /\ NextCount >= 3 /\ (bouncing \/ plug # "out")
           /\ ~bouncing /\ plug \in Channels => active_cc_channel' = plug
  <2>1. active_cc_channel' # "NONE" /\ settled' = FALSE
    BY <1>3, <1>6 DEF Attaches, Switch
  <2>2. AttachCount' /\ SettledCount'
    BY <2>1 DEF AttachCount, SettledCount
  <2>3. WithdrawalCount'
    BY <1>2, <1>6 DEF WithdrawalCount
  <2>4. ChannelOfPlug'
    <3>1. bouncing => attachedBouncing'
      BY <1>6 DEF Attaches
    <3>2. ~bouncing => active_cc_channel' = plug'
      BY <1>2, <1>3, <1>6
    <3> QED BY <3>1, <3>2 DEF ChannelOfPlug
  <2> QED BY <2>2, <2>3, <2>4
<1> QED BY <1>4, <1>5, <1>6, NoneCases

LEMMA InvStep == IInv /\ [Next]_vars => IInv'
<1> SUFFICES ASSUME IInv, [Next]_vars PROVE IInv'
  OBVIOUS
<1>1. TypeOK'
  BY TypeStep DEF IInv
<1>2. CASE DetectConnected
  BY <1>1, <1>2, ConnectedPreserves DEF IInv
<1>3. CASE DetectNone
  BY <1>1, <1>3, NonePreserves DEF IInv
<1>4. CASE StartBounce
  <2>1. ChannelOfPlug'
    <3>1. /\ active_cc_channel' = active_cc_channel /\ plug' = plug
          /\ attachedBouncing' = attachedBouncing /\ ~bouncing
          /\ plug = "out" => stable >= 3
      BY <1>4, Zenon DEF StartBounce, DetachIn
    <3>2. plug = "out" => active_cc_channel = "NONE"
      BY <3>1 DEF IInv, TypeOK, WithdrawalCount, Settle
    <3> QED BY <3>1, <3>2 DEF IInv, ChannelOfPlug
  <2>2. WithdrawalCount' /\ AttachCount' /\ SettledCount'
    BY <1>4 DEF StartBounce, IInv, WithdrawalCount, AttachCount, SettledCount
  <2> QED BY <1>1, <2>1, <2>2 DEF IInv
<1>5. CASE EndBounce
  <2>1. ChannelOfPlug'
    <3>1. /\ active_cc_channel' = active_cc_channel
          /\ attachedBouncing => attachedBouncing'
          /\ bouncing /\ ~bouncing'
      BY <1>5, Zenon DEF EndBounce
    <3>2. plug # "out" => plug' \in {"out", plug}
      BY <1>5 DEF EndBounce
    <3>3. ChannelOfPlug /\ active_cc_channel # "out"
      BY DEF IInv, TypeOK, Channels
    <3> QED BY <3>1, <3>2, <3>3 DEF ChannelOfPlug
  <2>2. WithdrawalCount' /\ AttachCount' /\ SettledCount'
    BY <1>5 DEF EndBounce, IInv, WithdrawalCount, AttachCount, SettledCount
  <2> QED BY <1>1, <2>1, <2>2 DEF IInv
<1>6. CASE UNCHANGED vars
  BY <1>6, <1>1 DEF vars, IInv, WithdrawalCount, AttachCount, ChannelOfPlug, SettledCount
<1> QED BY <1>2, <1>3, <1>4, <1>5, <1>6 DEF Next

(* The initial state has nothing attached and no plug.                     *)
LEMMA InvInit == Init => IInv
<1> SUFFICES ASSUME Init PROVE IInv
  OBVIOUS
<1>1. TypeOK
  <2>1. bouncing \in BOOLEAN /\ attachedBouncing \in BOOLEAN /\ settled \in BOOLEAN
    BY Zenon DEF Init
  <2> QED BY <2>1, CountAssumption DEF Init, TypeOK, Settle
<1> QED
  BY <1>1 DEF Init, IInv, WithdrawalCount, AttachCount, ChannelOfPlug, SettledCount

(* The four bounds hold in every reachable state, for every set of VBUS    *)
(* samples and every width of the counter of line 42.                      *)
THEOREM InductiveInvariant == Spec => []IInv
BY InvInit, InvStep, PTL DEF Spec

(* Every variable keeps its type: the counter stays within its width and   *)
(* the channel is one of the three the PHY knows (lines 7 and 42).         *)
THEOREM TypeCorrect == Spec => []TypeOK
BY InductiveInvariant, PTL DEF IInv

(* A source that is gone for three resting passes is no longer treated as  *)
(* attached (lines 53-64), whatever the counter held when it went.         *)
THEOREM WithdrawalIsSeen == Spec => []WithdrawalSeen
<1>1. IInv => WithdrawalSeen
  BY DEF IInv, WithdrawalCount, WithdrawalSeen, DetachIn
<1> QED BY <1>1, InductiveInvariant, PTL

(* A source that has rested for four passes is listened to on the side of  *)
(* its Rp, unless it was attached while bouncing (lines 66-105).           *)
THEOREM OrientationIsRight == Spec => []OrientationRight
<1>1. IInv => OrientationRight
  BY DEF IInv, TypeOK, AttachCount, ChannelOfPlug, OrientationRight, AttachIn
<1> QED BY <1>1, InductiveInvariant, PTL

(* A settled state changes only after a full run of contradicting samples  *)
(* (the counter tests of lines 60 and 84).                                 *)
THEOREM DebounceHolds == Spec => DebouncedOnceSettled
<1> DEFINE Full ==
      settled =>
        /\ (active_cc_channel = "NONE" /\ active_cc_channel' # "NONE") => streak >= 2
        /\ (active_cc_channel # "NONE" /\ active_cc_channel' = "NONE") => streak >= 1
<1>1. IInv /\ [Next]_vars => [Full]_vars
  <2> SUFFICES ASSUME IInv, Next PROVE Full
    OBVIOUS
  <2>0. /\ SettledCount /\ TypeOK /\ connection_count \in Nat
        /\ connection_count <= 6 => NextCount = connection_count + 1
    BY CountFacts DEF IInv
  <2>1. CASE DetectConnected
    <3>1. active_cc_channel # "NONE"
      BY <2>1 DEF DetectConnected
    <3>2. active_cc_channel' = "NONE" => NextCount >= 2
      BY <2>1, <3>1, ConnectedCases DEF Agrees, Differs
    <3> QED BY <2>0, <3>1, <3>2 DEF SettledCount
  <2>2. CASE DetectNone
    <3>1. active_cc_channel = "NONE"
      BY <2>2 DEF DetectNone
    <3>2. active_cc_channel' # "NONE" => NextCount >= 3
      BY <2>2, <3>1, NoneCases DEF Agrees, Differs
    <3> QED BY <2>0, <3>1, <3>2 DEF SettledCount
  <2>3. CASE StartBounce \/ EndBounce
    BY <2>3 DEF StartBounce, EndBounce
  <2> QED BY <2>1, <2>2, <2>3 DEF Next
<1> QED BY <1>1, InductiveInvariant, PTL DEF Spec, DebouncedOnceSettled
=============================================================================
