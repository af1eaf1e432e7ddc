----------------------------- MODULE Keypad -----------------------------
(***************************************************************************)
(* The two keys of the device, src/src/control/keypad.c.  keypad_scan      *)
(* samples both pins once per main-loop turn, runs one state machine for   *)
(* each key and, before that, looks for both keys pressed together, which  *)
(* switches VBUS.  The pins bounce: every sample is possible.              *)
(*                                                                         *)
(* A time stamp is kept as its age, which stops at LongPress, the longest  *)
(* interval anything is compared with; the distance of the two press times *)
(* is kept beside them.  What a scan pushes into the event ring is `event`. *)
(***************************************************************************)
EXTENDS Integers

CONSTANTS
    Debounce,       \* KEY_DEBOUNCE_MS: 20
    BothPress,      \* KEY_BOTH_PRESS_MS: 100
    DoubleClick,    \* KEY_DOUBLE_CLICK_MS: 150
    LongHold,       \* KEY_LONG_HOLD_MS: 200
    LongPress       \* KEY_LONG_PRESS_MS: 500

ASSUME IntervalAssumption ==
    /\ {Debounce, BothPress, DoubleClick, LongHold, LongPress} \subseteq Nat \ {0}
    /\ \A i \in {Debounce, BothPress, DoubleClick, LongHold} : i < LongPress

VARIABLES
    fsm,                \* fsm_left and fsm_right
    apart,              \* distance of their press times, up to BothPress + 1
    both_press_fired,
    event,              \* what the last step pushed for each key
    fired,              \* the last step called the both-press callback
    pressed,            \* the sample of the last scan
    down, firm, presses, held, open, rested     \* history, see Observe

history == <<pressed, down, firm, presses, held, open, rested>>
vars    == <<fsm, apart, both_press_fired, event, fired, history>>

Keys   == {"left", "right"}
Events == {"NONE", "CLICK", "DOUBLE_CLICK", "LONG_PRESS", "LONG_HOLD", "LONG_RELEASE"}
States == {"IDLE", "DEBOUNCE", "PRESSED", "WAIT_RELEASE", "WAIT_2ND_CLICK", "DEBOUNCE_2ND"}

Silence  == [k \in Keys |-> "NONE"]
Capped(n, bound) == IF n < bound THEN n + 1 ELSE bound
Least(m, n)      == IF m < n THEN m ELSE n

-----------------------------------------------------------------------------
(* key_fsm_update: what becomes of the machine f when its pin reads p, and *)
(* the event this pushes.                                                  *)
Settled(f)       == f.press >= 0                                 \* mutants
ClickOnTime(f)   == f.release = DoubleClick
KeepsLongFlag(f) == [f EXCEPT !.state = "WAIT_RELEASE"]

Debounced(f)   == f.press >= Debounce
ClickDue(f)    == f.release >= DoubleClick
AfterDouble(f) == [f EXCEPT !.state = "WAIT_RELEASE", !.is_long_press = FALSE]

NextFsm(f, p) ==
    CASE f.state = "IDLE" /\ p -> [f EXCEPT !.state = "DEBOUNCE", !.press = 0]
      [] f.state = "DEBOUNCE" /\ ~p -> [f EXCEPT !.state = "IDLE"]
      [] f.state = "DEBOUNCE" /\ p /\ Debounced(f) -> [f EXCEPT !.state = "PRESSED"]
      [] f.state = "PRESSED" /\ ~p -> [f EXCEPT !.state = "WAIT_2ND_CLICK", !.release = 0]
      [] f.state = "PRESSED" /\ p /\ f.press >= LongPress ->
            [f EXCEPT !.state = "WAIT_RELEASE", !.is_long_press = TRUE, !.hold = 0]
      [] f.state = "WAIT_RELEASE" /\ ~p -> [f EXCEPT !.state = "IDLE", !.is_long_press = FALSE]
      [] f.state = "WAIT_RELEASE" /\ p /\ f.is_long_press /\ f.hold >= LongHold ->
            [f EXCEPT !.hold = 0]
      [] f.state = "WAIT_2ND_CLICK" /\ p -> [f EXCEPT !.state = "DEBOUNCE_2ND", !.press = 0]
      [] f.state = "WAIT_2ND_CLICK" /\ ~p /\ ClickDue(f) -> [f EXCEPT !.state = "IDLE"]
      [] f.state = "DEBOUNCE_2ND" /\ ~p -> [f EXCEPT !.state = "WAIT_2ND_CLICK"]
      [] f.state = "DEBOUNCE_2ND" /\ p /\ Debounced(f) -> AfterDouble(f)
      [] OTHER -> f

Pushes(f, p) ==
    CASE f.state = "PRESSED" /\ p /\ f.press >= LongPress -> "LONG_PRESS"
      [] f.state = "WAIT_RELEASE" /\ ~p /\ f.is_long_press -> "LONG_RELEASE"
      [] f.state = "WAIT_RELEASE" /\ p /\ f.is_long_press /\ f.hold >= LongHold -> "LONG_HOLD"
      [] f.state = "WAIT_2ND_CLICK" /\ ~p /\ ClickDue(f) -> "CLICK"
      [] f.state = "DEBOUNCE_2ND" /\ p /\ Debounced(f) -> "DOUBLE_CLICK"
      [] OTHER -> "NONE"

-----------------------------------------------------------------------------
Init ==
    /\ fsm = [k \in Keys |-> [state |-> "IDLE", press |-> 0, release |-> 0, hold |-> 0,
                              is_long_press |-> FALSE]]
    /\ apart = 0
    /\ both_press_fired = FALSE
    /\ event = Silence
    /\ fired = FALSE
    /\ pressed = [k \in Keys |-> FALSE]
    /\ down = [k \in Keys |-> 0]
    /\ firm = [k \in Keys |-> FALSE]
    /\ presses = [k \in Keys |-> 0]
    /\ held = [k \in Keys |-> FALSE]
    /\ open = [k \in Keys |-> FALSE]
    /\ rested = TRUE

(* Lines 257-273: both keys pressed, stable, within the window, once.      *)
Stable(f) == \/ f.state \in {"PRESSED", "WAIT_RELEASE", "WAIT_2ND_CLICK", "DEBOUNCE_2ND"}
             \/ f.state = "DEBOUNCE" /\ Debounced(f)

IsBothPress(p) == /\ \A k \in Keys : p[k] /\ Stable(fsm[k])
                  /\ ~both_press_fired
                  /\ apart <= BothPress

(* Lines 290-297: it can happen again when both keys are up.               *)
RearmedByOne(p) == both_press_fired /\ \A k \in Keys : p[k]      \* mutant
StillFired(p)   == both_press_fired /\ \E k \in Keys : p[k]

(* Lines 300-320: a key held since a both-press is silent until it is up.  *)
NeverMuted(f, p) == FALSE                                        \* mutant
Muted(f, p) == StillFired(p) /\ f.state = "WAIT_RELEASE"

-----------------------------------------------------------------------------
(* History of a step.  down: how long a key has read as pressed; firm: this *)
(* press has been counted; presses: presses of at least Debounce since the *)
(* key's last gesture; held: down since a both-press; open: down since its *)
(* long press was reported; rested: a scan has read both keys up since the *)
(* last both-press.                                                        *)
Gestures   == {"CLICK", "DOUBLE_CLICK", "LONG_PRESS"}
Remaining(k) == IF event[k] \in Gestures THEN 0 ELSE presses[k]
Counts(k, p) == p[k] /\ pressed[k] /\ down[k] >= Debounce /\ ~firm[k] /\ ~held[k]

Observe(p) ==
    /\ pressed' = p
    /\ down' = [k \in Keys |-> IF p[k] /\ pressed[k] THEN down[k] ELSE 0]
    /\ firm' = [k \in Keys |-> p[k] /\ pressed[k] /\ (firm[k] \/ Counts(k, p))]
    /\ presses' = [k \in Keys |-> IF fired' THEN 0
                                  ELSE IF Counts(k, p) THEN Capped(Remaining(k), 3)
                                  ELSE Remaining(k)]
    /\ held' = [k \in Keys |-> p[k] /\ (held[k] \/ fired')]
    /\ open' = [k \in Keys |-> p[k] /\ (open[k] \/ event'[k] = "LONG_PRESS")]
    /\ rested' = (~fired' /\ (rested \/ \A k \in Keys : ~p[k]))

(* millis() advances. *)
Tick ==
    /\ fsm' = [k \in Keys |->
                 [fsm[k] EXCEPT !.press = Capped(@, LongPress),
                                !.release = Capped(@, LongPress),
                                !.hold = Capped(@, LongPress)]]
    /\ down' = [k \in Keys |-> IF pressed[k] THEN Capped(down[k], Debounce) ELSE 0]
    /\ presses' = [k \in Keys |-> Remaining(k)]
    /\ event' = Silence
    /\ fired' = FALSE
    /\ UNCHANGED <<apart, both_press_fired, pressed, firm, held, open, rested>>

(* keypad_scan, left by the return of line 286. *)
ScanBoth(p) ==
    /\ IsBothPress(p)
    /\ fired' = TRUE
    /\ both_press_fired' = TRUE
    /\ fsm' = [k \in Keys |-> [fsm[k] EXCEPT !.state = "WAIT_RELEASE"]]
    /\ event' = Silence
    /\ UNCHANGED apart
    /\ Observe(p)

(* keypad_scan, with the machine of each key. *)
Distance(f) == LET d == f["left"].press - f["right"].press
               IN  IF d >= 0 THEN d ELSE -d

ScanKeys(p) ==
    /\ ~IsBothPress(p)
    /\ fired' = FALSE
    /\ both_press_fired' = StillFired(p)
    /\ fsm' = [k \in Keys |-> IF ~Muted(fsm[k], p) THEN NextFsm(fsm[k], p[k])
                              ELSE IF p[k] THEN fsm[k]
                              ELSE [fsm[k] EXCEPT !.state = "IDLE"]]
    /\ event' = [k \in Keys |-> IF Muted(fsm[k], p) THEN "NONE" ELSE Pushes(fsm[k], p[k])]
    /\ apart' = IF \E k \in Keys : fsm'[k].press # fsm[k].press
                THEN Least(Distance(fsm'), BothPress + 1) ELSE apart
    /\ Observe(p)

keypad_scan(p) == ScanBoth(p) \/ ScanKeys(p)

Next == Tick \/ \E p \in [Keys -> BOOLEAN] : keypad_scan(p)

Spec == Init /\ [][Next]_vars
             /\ WF_vars(Tick) /\ WF_vars(\E p \in [Keys -> BOOLEAN] : keypad_scan(p))

-----------------------------------------------------------------------------
Fsms == [state : States, press : 0..LongPress, release : 0..LongPress,
         hold : 0..LongPress, is_long_press : BOOLEAN]

TypeOK ==
    /\ fsm \in [Keys -> Fsms]
    /\ apart \in 0..(BothPress + 1)
    /\ both_press_fired \in BOOLEAN
    /\ event \in [Keys -> Events]
    /\ fired \in BOOLEAN
    /\ pressed \in [Keys -> BOOLEAN]
    /\ down \in [Keys -> 0..Debounce]
    /\ firm \in [Keys -> BOOLEAN]
    /\ presses \in [Keys -> 0..3]
    /\ held \in [Keys -> BOOLEAN]
    /\ open \in [Keys -> BOOLEAN]
    /\ rested \in BOOLEAN

(* What a key reports is what the finger did: a click or a long press is   *)
(* one press longer than the bouncing, a double click two, and no press is *)
(* reported twice or lost in the next gesture (lines 136-217).             *)
GestureCountsPresses ==
    \A k \in Keys : /\ event[k] \in {"CLICK", "LONG_PRESS"} => presses[k] = 1
                    /\ event[k] = "DOUBLE_CLICK" => presses[k] = 2
                    /\ presses[k] <= 2

(* A hold signal comes only while the key is still down from the long press *)
(* it continues, also when a both-press comes between (lines 173-189).     *)
HoldInLongPress == \A k \in Keys : event[k] = "LONG_HOLD" => open[k]

(* Once both keys have switched VBUS, a key still down from then reports   *)
(* no gesture and no hold (lines 283-285 and 300-320).                     *)
BothPressSilences ==
    [][ \A k \in Keys : held[k] /\ pressed'[k] => event'[k] = "NONE" ]_vars

(* A both-press switches VBUS once, until a scan reads both keys up: keys   *)
(* that are lifted in turn do not switch it again (lines 292-296; the      *)
(* comment of line 292 says one key is enough, the code asks for both).    *)
BothPressOnce == [][ fired' => rested ]_vars

(* A press longer than the bouncing is reported again and again, however   *)
(* late the scan that finds it due, unless the samples never stop changing *)
(* (lines 150-203).                                                        *)
PressReported ==
    \A k \in Keys : []<>(presses[k] = 0) \/ []<><<pressed' # pressed>>_vars
=============================================================================
