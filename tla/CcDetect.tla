---------------------------- MODULE CcDetect ----------------------------
(***************************************************************************)
(* Attach and detach detection of the sink, src/src/usb_pd/ccdet.c.  Once  *)
(* per main-loop pass usb_pd_ccdet_auto_detect samples VBUS and, while     *)
(* nothing is attached, the two CC pins, and debounces the samples with    *)
(* one counter shared by both directions.                                  *)
(*                                                                         *)
(* The environment is the receptacle: a plug is out, or in with its Rp on  *)
(* CC1 or on CC2, and its contacts may bounce while it moves, during which *)
(* every sample is possible.  A plug whose source has removed VBUS samples *)
(* as one that is out, and "out" stands for it too.                        *)
(***************************************************************************)
EXTENDS Integers, Sequences

CONSTANTS
    VbusSamples,    \* millivolt values adc_get_vbus_in_mv may return
    CountRange      \* values of the uint16_t connection_count: 2^16 in the code

ASSUME VbusAssumption  == VbusSamples \subseteq Nat
ASSUME CountAssumption == CountRange \in Nat /\ CountRange >= 8

VARIABLES
    active_cc_channel,   \* channel the PHY listens on, or "NONE"
    connection_count,    \* consecutive contradicting samples (static local)
    plug,                \* where the plug is: "out", "CC1" or "CC2"
    bouncing,            \* contacts are moving: samples are arbitrary
    stable,              \* passes since the contacts came to rest, up to Settle
    attachedBouncing,    \* the last attach happened while bouncing
    settled,             \* some pass agreed with the state since it changed
    streak               \* contradicting passes since the state changed or agreed

vars == <<active_cc_channel, connection_count, plug, bouncing, stable,
          attachedBouncing, settled, streak>>

Channels  == {"CC1", "CC2"}
AttachIn  == 4      \* passes within which a resting plug is attached
DetachIn  == 3      \* passes within which its absence is noticed
Settle    == 4      \* bound of the ghost counters

-----------------------------------------------------------------------------
(* usb_pd_phy_get_cc_voltage: a pin passes the first `level` comparators of *)
(* the ladder; level 7 stands for a pin the GPIO reads as high.             *)
Levels     == 0..7
Ladder     == <<0, 220, 450, 550, 660, 950, 1230, 2200>>
CcVoltage(level) == Ladder[level + 1]

InRpRange(mv) == mv >= 450 /\ mv <= 1230
Unused(mv)    == mv >= 2200 \/ mv <= 220

(* Lines 74-75: one pin sees an Rp and the other is open, grounded or Ra.  *)
ReadsAttached(mv1, mv2) ==
    \/ InRpRange(mv1) /\ Unused(mv2)
    \/ InRpRange(mv2) /\ Unused(mv1)

(* Lines 91-102, evaluated on a second reading of the pins. *)
ChooseHigher(mv1, mv2) == IF mv1 > mv2 THEN "CC1" ELSE "CC2"  \* mutant
ChooseChannel(mv1, mv2) ==
    CASE InRpRange(mv1) /\ mv2 = 2200 -> "CC1"
      [] InRpRange(mv2) /\ mv1 = 2200 -> "CC2"
      [] OTHER -> IF mv1 > mv2 THEN "CC1" ELSE "CC2"

-----------------------------------------------------------------------------
(* What the samples of one pass may be. *)
VbusOf(p) == { v \in VbusSamples : \/ bouncing
                                   \/ p = "out" /\ v <= 2500
                                   \/ p # "out" /\ v > 3000 }

RpLevel    == 2..6
OtherLevel == {0, 1, 7}
PinsOf(p) == { pins \in Levels \X Levels :
                 \/ bouncing \/ p = "out"
                 \/ p = "CC1" /\ pins[1] \in RpLevel /\ pins[2] \in OtherLevel
                 \/ p = "CC2" /\ pins[2] \in RpLevel /\ pins[1] \in OtherLevel }

Capped(n) == IF n < Settle THEN n + 1 ELSE Settle

Rested == stable' = IF bouncing THEN 0 ELSE Capped(stable)

(* A pass whose sample agrees with the current state, or contradicts it    *)
(* without effect, or contradicts it and changes the state.                *)
Agree  == settled' = TRUE /\ streak' = 0
Differ == settled' = settled /\ streak' = Capped(streak)
Switch == settled' = FALSE /\ streak' = 0

-----------------------------------------------------------------------------
Init ==
    /\ active_cc_channel = "NONE"
    /\ connection_count = 0
    /\ plug = "out"
    /\ bouncing = FALSE
    /\ stable = Settle
    /\ attachedBouncing = FALSE
    /\ settled = TRUE
    /\ streak = 0

NoWrap    == connection_count + 1                    \* mutant of NextCount
NextCount == (connection_count + 1) % CountRange

LateDetach(n)  == n > 2                              \* mutants of DetachAt
HastyDetach(n) == n >= 1
DetachAt(n)    == n >= 2

(* Case PD_CC1 / PD_CC2, lines 53-64: VBUS alone decides. *)
DetectConnected ==
    /\ active_cc_channel # "NONE"
    /\ Rested
    /\ \E vbus \in VbusOf(plug) :
         IF vbus > 2500
         THEN /\ connection_count' = 0
              /\ Agree
              /\ UNCHANGED active_cc_channel
         ELSE /\ connection_count' = NextCount
              /\ IF DetachAt(NextCount)
                 THEN active_cc_channel' = "NONE" /\ Switch
                 ELSE UNCHANGED active_cc_channel /\ Differ
    /\ UNCHANGED <<plug, bouncing, attachedBouncing>>

(* Case PD_CC_NONE, lines 66-105: VBUS gates a first reading of the pins;  *)
(* the third match in a row reads them again to choose the channel.        *)
DetectNone ==
    /\ active_cc_channel = "NONE"
    /\ Rested
    /\ \E vbus \in VbusOf(plug), first \in PinsOf(plug), second \in PinsOf(plug) :
         IF vbus > 3000 /\ ReadsAttached(CcVoltage(first[1]), CcVoltage(first[2]))
         THEN /\ connection_count' = NextCount
              /\ IF NextCount >= 3
                 THEN /\ active_cc_channel' =
                           ChooseChannel(CcVoltage(second[1]), CcVoltage(second[2]))
                      /\ attachedBouncing' = bouncing
                      /\ Switch
                 ELSE /\ UNCHANGED <<active_cc_channel, attachedBouncing>>
                      /\ Differ
         ELSE /\ connection_count' = 0
              /\ Agree
              /\ UNCHANGED <<active_cc_channel, attachedBouncing>>
    /\ UNCHANGED <<plug, bouncing>>

(* The contacts start to move: a plug stays out for at least DetachIn      *)
(* passes (a few milliseconds) before a hand can put it back.              *)
StartBounce ==
    /\ ~bouncing
    /\ plug = "out" => stable >= DetachIn
    /\ bouncing' = TRUE
    /\ stable' = 0
    /\ UNCHANGED <<active_cc_channel, connection_count, plug, attachedBouncing,
                   settled, streak>>

(* They come to rest: a plug going in may take either orientation, a plug  *)
(* that was in is back as it was or out.                                   *)
EndBounce ==
    /\ bouncing
    /\ bouncing' = FALSE
    /\ plug' \in IF plug = "out" THEN {"out"} \union Channels ELSE {"out", plug}
    /\ stable' = 0
    /\ UNCHANGED <<active_cc_channel, connection_count, attachedBouncing,
                   settled, streak>>

Next == DetectConnected \/ DetectNone \/ StartBounce \/ EndBounce

Spec == Init /\ [][Next]_vars

-----------------------------------------------------------------------------
TypeOK ==
    /\ active_cc_channel \in {"NONE"} \union Channels
    /\ connection_count \in 0..(CountRange - 1)
    /\ plug \in {"out"} \union Channels
    /\ bouncing \in BOOLEAN
    /\ stable \in 0..Settle
    /\ attachedBouncing \in BOOLEAN
    /\ settled \in BOOLEAN
    /\ streak \in 0..Settle

(* A plug that has rested in the receptacle for AttachIn passes is the one *)
(* the PHY listens to, on the side that carries its Rp, unless the attach  *)
(* itself fell into the bouncing (auto_detect, lines 66-105).  The bound   *)
(* is 4 and not 3 because a counter carried over a state change may wrap.  *)
OrientationRight ==
    (plug # "out" /\ ~bouncing /\ stable >= AttachIn) =>
        \/ active_cc_channel = plug
        \/ active_cc_channel # "NONE" /\ attachedBouncing

(* A plug gone for DetachIn passes is never still treated as attached, so  *)
(* that the engine is reset before a new source can talk (lines 53-64).    *)
WithdrawalSeen ==
    (plug = "out" /\ ~bouncing /\ stable >= DetachIn) => active_cc_channel = "NONE"

(* Once some sample has agreed with the state, changing it takes a full    *)
(* run of contradicting samples: this one and two before it to attach, one *)
(* before it to detach (the counter tests of lines 60 and 84).             *)
DebouncedOnceSettled ==
    [][ settled =>
          /\ (active_cc_channel = "NONE" /\ active_cc_channel' # "NONE") => streak >= 2
          /\ (active_cc_channel # "NONE" /\ active_cc_channel' = "NONE") => streak >= 1
      ]_vars
=============================================================================
