---------------------------- MODULE Keypad_proofs ----------------------------
(***************************************************************************)
(* Theorems about Keypad for all intervals: whatever the bouncing, the     *)
(* time between two scans and the order of the two fingers.                *)
(***************************************************************************)
EXTENDS Keypad, TLAPS

(* After a both-press both machines wait for the release and may not fire  *)
(* again, until both keys have been up; outside one, a machine whose long-press flag is set in           *)
(* WAIT_RELEASE has reported the press that is still down.                 *)
BothInv ==
    /\ \A k \in Keys : held[k] => both_press_fired /\ fsm[k].state = "WAIT_RELEASE"
    /\ \A k \in Keys : held[k] => pressed[k]
    /\ ~both_press_fired => rested

LongInv ==
    \A k \in Keys :
        /\ fsm[k].state = "WAIT_RELEASE" /\ fsm[k].is_long_press /\ ~both_press_fired => open[k]
        /\ event[k] = "LONG_HOLD" => open[k]

(* What the presses counted so far say of the state a machine is in: a     *)
(* press is counted by the scan that leaves a debouncing state.            *)
Age(f) == Least(f.press, Debounce)

CountInv(k) ==
    /\ event[k] \in {"CLICK", "LONG_PRESS"} => presses[k] = 1
    /\ event[k] = "DOUBLE_CLICK" => presses[k] = 2
    /\ presses[k] <= 2
    /\ fsm[k].state \in {"IDLE", "DEBOUNCE", "WAIT_RELEASE"} => Remaining(k) = 0
    /\ fsm[k].state \in {"PRESSED", "WAIT_2ND_CLICK", "DEBOUNCE_2ND"} => Remaining(k) = 1

PinInv(k) ==
    /\ pressed[k] <=> fsm[k].state \in {"DEBOUNCE", "PRESSED", "WAIT_RELEASE", "DEBOUNCE_2ND"}
    /\ fsm[k].state \in {"DEBOUNCE", "DEBOUNCE_2ND"} => ~firm[k] /\ down[k] = Age(fsm[k])
    /\ fsm[k].state \in {"PRESSED", "WAIT_RELEASE"} => firm[k] \/ held[k]

PressInv == \A k \in Keys : CountInv(k) /\ PinInv(k)

KeyInv == TypeOK /\ BothInv /\ LongInv /\ PressInv

-----------------------------------------------------------------------------
LEMMA Intervals ==
    /\ Debounce \in Nat \ {0} /\ BothPress \in Nat \ {0} /\ DoubleClick \in Nat \ {0}
    /\ LongHold \in Nat \ {0} /\ LongPress \in Nat \ {0}
    /\ Debounce < LongPress
BY IntervalAssumption DEF IntervalAssumption

(* key_fsm_update, state by state. *)
LEMMA FsmSteps ==
    ASSUME NEW f \in Fsms, NEW p \in BOOLEAN
    PROVE  LET g == NextFsm(f, p)
               e == Pushes(f, p)
           IN  /\ g \in Fsms /\ e \in Events
               /\ f.state = "IDLE" =>
                     /\ e = "NONE" /\ (~p => g = f)
                     /\ p => g.state = "DEBOUNCE" /\ g.press = 0
               /\ f.state = "DEBOUNCE" =>
                     /\ e = "NONE" /\ g.press = f.press
                     /\ g.state = IF ~p THEN "IDLE"
                                  ELSE IF Debounced(f) THEN "PRESSED" ELSE "DEBOUNCE"
               /\ f.state = "PRESSED" =>
                     /\ e = (IF p /\ f.press >= LongPress THEN "LONG_PRESS" ELSE "NONE")
                     /\ g.state = IF ~p THEN "WAIT_2ND_CLICK"
                                  ELSE IF f.press >= LongPress THEN "WAIT_RELEASE" ELSE "PRESSED"
               /\ f.state = "WAIT_RELEASE" =>
                     /\ e \in {"NONE", "LONG_HOLD", "LONG_RELEASE"}
                     /\ e = "LONG_HOLD" => f.is_long_press /\ p
                     /\ g.state = IF p THEN "WAIT_RELEASE" ELSE "IDLE"
                     /\ p => g.is_long_press = f.is_long_press
               /\ f.state = "WAIT_2ND_CLICK" =>
                     /\ e \in {"NONE", "CLICK"} /\ (e = "CLICK" => g.state = "IDLE")
                     /\ p => e = "NONE" /\ g.state = "DEBOUNCE_2ND" /\ g.press = 0
                     /\ ~p /\ e = "NONE" => g.state = "WAIT_2ND_CLICK"
               /\ f.state = "DEBOUNCE_2ND" =>
                     /\ e = (IF p /\ Debounced(f) THEN "DOUBLE_CLICK" ELSE "NONE")
                     /\ g.press = f.press
                     /\ g.state = "WAIT_RELEASE" => ~g.is_long_press
                     /\ g.state = IF ~p THEN "WAIT_2ND_CLICK"
                                  ELSE IF Debounced(f) THEN "WAIT_RELEASE" ELSE "DEBOUNCE_2ND"
               /\ f.state \in States
<1> USE Intervals
<1>0. /\ f.state \in States /\ f.press \in 0..LongPress /\ f.release \in 0..LongPress
      /\ f.hold \in 0..LongPress /\ f.is_long_press \in BOOLEAN
      /\ f = [state |-> f.state, press |-> f.press, release |-> f.release, hold |-> f.hold,
              is_long_press |-> f.is_long_press]
  BY DEF Fsms
<1>z. 0 \in 0..LongPress
  OBVIOUS
<1>1. CASE f.state = "IDLE"
  <2>1. Pushes(f, p) = "NONE" /\ NextFsm(f, p) = IF p THEN [f EXCEPT !.state = "DEBOUNCE", !.press = 0] ELSE f
    BY <1>1 DEF NextFsm, Pushes
  <2> QED
    BY <1>0, <1>z, <1>1, <2>1 DEF Fsms, States, Events
<1>2. CASE f.state = "DEBOUNCE"
  <2>1. /\ Pushes(f, p) = "NONE"
        /\ NextFsm(f, p) = IF ~p THEN [f EXCEPT !.state = "IDLE"]
                           ELSE IF Debounced(f) THEN [f EXCEPT !.state = "PRESSED"] ELSE f
    BY <1>2 DEF NextFsm, Pushes
  <2> QED
    BY <1>0, <1>2, <2>1 DEF Fsms, States, Events
<1>3. CASE f.state = "PRESSED"
  <2>1. /\ Pushes(f, p) = IF p /\ f.press >= LongPress THEN "LONG_PRESS" ELSE "NONE"
        /\ NextFsm(f, p) = IF ~p THEN [f EXCEPT !.state = "WAIT_2ND_CLICK", !.release = 0]
                           ELSE IF f.press >= LongPress
                           THEN [f EXCEPT !.state = "WAIT_RELEASE", !.is_long_press = TRUE,
                                          !.hold = 0]
                           ELSE f
    BY <1>3 DEF NextFsm, Pushes
  <2> QED
    BY <1>0, <1>z, <1>3, <2>1 DEF Fsms, States, Events
<1>4. CASE f.state = "WAIT_RELEASE"
  <2>1. /\ Pushes(f, p) = IF ~p THEN IF f.is_long_press THEN "LONG_RELEASE" ELSE "NONE"
                          ELSE IF f.is_long_press /\ f.hold >= LongHold THEN "LONG_HOLD"
                          ELSE "NONE"
        /\ NextFsm(f, p) = IF ~p THEN [f EXCEPT !.state = "IDLE", !.is_long_press = FALSE]
                           ELSE IF f.is_long_press /\ f.hold >= LongHold
                           THEN [f EXCEPT !.hold = 0] ELSE f
    BY <1>4 DEF NextFsm, Pushes
  <2> QED
    BY <1>0, <1>z, <1>4, <2>1 DEF Fsms, States, Events
<1>5. CASE f.state = "WAIT_2ND_CLICK"
  <2>1. /\ Pushes(f, p) = IF ~p /\ ClickDue(f) THEN "CLICK" ELSE "NONE"
        /\ NextFsm(f, p) = IF p THEN [f EXCEPT !.state = "DEBOUNCE_2ND", !.press = 0]
                           ELSE IF ClickDue(f) THEN [f EXCEPT !.state = "IDLE"] ELSE f
    BY <1>5 DEF NextFsm, Pushes
  <2> QED
    BY <1>0, <1>z, <1>5, <2>1 DEF Fsms, States, Events
<1>6. CASE f.state = "DEBOUNCE_2ND"
  <2>1. /\ Pushes(f, p) = IF p /\ Debounced(f) THEN "DOUBLE_CLICK" ELSE "NONE"
        /\ NextFsm(f, p) = IF ~p THEN [f EXCEPT !.state = "WAIT_2ND_CLICK"]
                           ELSE IF Debounced(f) THEN AfterDouble(f) ELSE f
    BY <1>6 DEF NextFsm, Pushes
  <2> QED
    BY <1>0, <1>6, <2>1 DEF Fsms, States, Events, AfterDouble
<1> QED
  BY <1>0, <1>1, <1>2, <1>3, <1>4, <1>5, <1>6 DEF States
-----------------------------------------------------------------------------
LEMMA TypeStep == TypeOK /\ [Next]_vars => TypeOK'
<1> USE Intervals
<1> SUFFICES ASSUME TypeOK, [Next]_vars PROVE TypeOK'
  OBVIOUS
<1>1. CASE Tick
  <2>1. ASSUME NEW k \in Keys
        PROVE  [fsm[k] EXCEPT !.press = Capped(@, LongPress), !.release = Capped(@, LongPress),
                              !.hold = Capped(@, LongPress)] \in Fsms
    <3>1. fsm[k] \in Fsms
      BY DEF TypeOK
    <3>2. \A n \in 0..LongPress : Capped(n, LongPress) \in 0..LongPress
      BY DEF Capped
    <3> QED
      BY <3>1, <3>2 DEF Fsms
  <2>2. fsm' \in [Keys -> Fsms]
    BY <1>1, <2>1 DEF Tick
  <2>3. down' \in [Keys -> 0..Debounce] /\ presses' \in [Keys -> 0..3]
    <3>1. /\ \A n \in 0..Debounce : Capped(n, Debounce) \in 0..Debounce
          /\ 0 \in 0..Debounce
      BY DEF Capped
    <3>2. \A k \in Keys : Remaining(k) \in 0..3
      BY DEF TypeOK, Remaining
    <3> QED
      BY <1>1, <3>1, <3>2 DEF Tick, TypeOK
  <2> QED
    BY <1>1, <2>2, <2>3 DEF Tick, TypeOK, Silence, Events
<1>2. ASSUME NEW p \in [Keys -> BOOLEAN], keypad_scan(p) PROVE TypeOK'
  <2>1. /\ pressed' \in [Keys -> BOOLEAN] /\ down' \in [Keys -> 0..Debounce]
        /\ firm' \in [Keys -> BOOLEAN] /\ presses' \in [Keys -> 0..3]
    <3>1. Observe(p)
      BY <1>2 DEF keypad_scan, ScanBoth, ScanKeys
    <3>2. \A n \in 0..3 : Capped(n, 3) \in 0..3
      BY DEF Capped
    <3>3. \A k \in Keys : Remaining(k) \in 0..3
      BY DEF TypeOK, Remaining
    <3>4. \A k \in Keys : Counts(k, p) \in BOOLEAN
      BY DEF Counts, TypeOK
    <3>5. 0 \in 0..Debounce
      OBVIOUS
    <3>6. /\ pressed' = p
          /\ down' = [k \in Keys |-> IF p[k] /\ pressed[k] THEN down[k] ELSE 0]
          /\ firm' = [k \in Keys |-> p[k] /\ pressed[k] /\ (firm[k] \/ Counts(k, p))]
          /\ presses' = [k \in Keys |-> IF fired' THEN 0
                                  ELSE IF Counts(k, p) THEN Capped(Remaining(k), 3)
                                  ELSE Remaining(k)]
      BY <3>1 DEF Observe
    <3>7. down' \in [Keys -> 0..Debounce]
      BY <3>5, <3>6 DEF TypeOK
    <3>8. presses' \in [Keys -> 0..3]
      BY <3>2, <3>3, <3>6
    <3>9. firm' \in [Keys -> BOOLEAN]
      BY <3>6
    <3> QED
      BY <3>6, <3>7, <3>8, <3>9
  <2>2. fired' \in BOOLEAN /\ both_press_fired' \in BOOLEAN /\ event' \in [Keys -> Events]
    <3>1. CASE ScanBoth(p)
      BY <3>1 DEF ScanBoth, Silence, Events
    <3>2. CASE ScanKeys(p)
      <4>1. ASSUME NEW k \in Keys PROVE Pushes(fsm[k], p[k]) \in Events
        <5>1. fsm[k] \in Fsms /\ p[k] \in BOOLEAN
          BY DEF TypeOK
        <5> QED
          BY <5>1, FsmSteps
      <4>2. "NONE" \in Events
        BY DEF Events
      <4>3. event' \in [Keys -> Events]
        BY <3>2, <4>1, <4>2 DEF ScanKeys
      <4>4. StillFired(p) \in BOOLEAN
        BY DEF StillFired, TypeOK
      <4> QED
        BY <3>2, <4>3, <4>4 DEF ScanKeys
    <3> QED
      BY <1>2, <3>1, <3>2 DEF keypad_scan
  <2>3. held' \in [Keys -> BOOLEAN] /\ open' \in [Keys -> BOOLEAN] /\ rested' \in BOOLEAN
    BY <1>2, <2>2 DEF keypad_scan, ScanBoth, ScanKeys, Observe, TypeOK
  <2>4. fsm' \in [Keys -> Fsms]
    <3>1. \A f \in Fsms : /\ [f EXCEPT !.state = "WAIT_RELEASE"] \in Fsms
                          /\ [f EXCEPT !.state = "IDLE"] \in Fsms
      BY DEF Fsms, States
    <3>2. CASE ScanBoth(p)
      BY <3>1, <3>2 DEF ScanBoth, TypeOK
    <3>3. CASE ScanKeys(p)
      BY <3>1, <3>3, FsmSteps DEF ScanKeys, TypeOK
    <3> QED
      BY <1>2, <3>2, <3>3 DEF keypad_scan
  <2>5. apart' \in 0..(BothPress + 1)
    <3>1. CASE ScanBoth(p)
      BY <3>1 DEF ScanBoth, TypeOK
    <3>2. CASE ScanKeys(p)
      <4>1. fsm'["left"].press \in Nat /\ fsm'["right"].press \in Nat
        BY <2>4 DEF Keys, Fsms
      <4>2. Distance(fsm') \in Nat
        BY <4>1 DEF Distance
      <4> QED
        BY <3>2, <4>2 DEF ScanKeys, Least, TypeOK
    <3> QED
      BY <1>2, <3>1, <3>2 DEF keypad_scan
  <2> QED
    BY <2>1, <2>2, <2>3, <2>4, <2>5 DEF TypeOK
<1>3. CASE UNCHANGED vars
  BY <1>3 DEF vars, history, TypeOK
<1> QED
  BY <1>1, <1>2, <1>3 DEF Next

(* What a scan does to one key.                                            *)
LEMMA ScanCases ==
    ASSUME NEW p \in [Keys -> BOOLEAN], NEW k \in Keys, TypeOK, ScanKeys(p)
    PROVE  /\ both_press_fired' = StillFired(p) /\ ~fired'
           /\ pressed'[k] = p[k]
           /\ \/ /\ Muted(fsm[k], p)
                 /\ event'[k] = "NONE"
                 /\ fsm'[k].state = IF p[k] THEN fsm[k].state ELSE "IDLE"
                 /\ fsm'[k].is_long_press = fsm[k].is_long_press
                 /\ fsm'[k].press = fsm[k].press
              \/ /\ ~Muted(fsm[k], p)
                 /\ event'[k] = Pushes(fsm[k], p[k])
                 /\ fsm'[k] = NextFsm(fsm[k], p[k])
<1>1. fsm[k] \in Fsms
  BY DEF TypeOK
<1>2. /\ both_press_fired' = StillFired(p) /\ ~fired' /\ pressed'[k] = p[k]
      /\ fsm'[k] = IF ~Muted(fsm[k], p) THEN NextFsm(fsm[k], p[k])
                   ELSE IF p[k] THEN fsm[k] ELSE [fsm[k] EXCEPT !.state = "IDLE"]
      /\ event'[k] = IF Muted(fsm[k], p) THEN "NONE" ELSE Pushes(fsm[k], p[k])
  BY DEF ScanKeys, Observe
<1>3. CASE Muted(fsm[k], p) /\ ~p[k]
  <2>1. fsm'[k] = [fsm[k] EXCEPT !.state = "IDLE"]
    BY <1>2, <1>3
  <2> QED
    BY <1>1, <1>2, <1>3, <2>1 DEF Fsms
<1> QED
  BY <1>2, <1>3

(* What becomes of the history of one key in a scan.                       *)
LEMMA Observed ==
    ASSUME NEW p \in [Keys -> BOOLEAN], NEW k \in Keys, Observe(p)
    PROVE  /\ pressed'[k] = p[k]
           /\ down'[k] = IF p[k] /\ pressed[k] THEN down[k] ELSE 0
           /\ firm'[k] <=> p[k] /\ pressed[k] /\ (firm[k] \/ Counts(k, p))
           /\ presses'[k] = IF fired' THEN 0
                            ELSE IF Counts(k, p) THEN Capped(Remaining(k), 3)
                            ELSE Remaining(k)
           /\ held'[k] <=> p[k] /\ (held[k] \/ fired')
           /\ open'[k] <=> p[k] /\ (open[k] \/ event'[k] = "LONG_PRESS")
  BY DEF Observe

LEMMA BothStep == TypeOK /\ BothInv /\ [Next]_vars => BothInv'
<1> SUFFICES ASSUME TypeOK, BothInv, [Next]_vars PROVE BothInv'
  OBVIOUS
<1>r. ~both_press_fired' => rested'
  <2>1. ASSUME NEW p \in [Keys -> BOOLEAN], ScanKeys(p) PROVE ~both_press_fired' => rested'
    <3>1. both_press_fired' = StillFired(p) /\ ~fired' /\ Observe(p)
      BY <2>1 DEF ScanKeys
    <3>2. rested' = (rested \/ \A k \in Keys : ~p[k])
      BY <3>1 DEF Observe
    <3> QED
      BY <3>1, <3>2 DEF StillFired, BothInv
  <2>2. ASSUME NEW p \in [Keys -> BOOLEAN], ScanBoth(p) PROVE both_press_fired'
    BY <2>2 DEF ScanBoth
  <2>3. CASE Tick \/ UNCHANGED vars
    BY <2>3 DEF Tick, vars, history, BothInv
  <2> QED
    BY <2>1, <2>2, <2>3 DEF Next, keypad_scan
<1> SUFFICES ASSUME NEW k \in Keys
             PROVE  /\ held'[k] => both_press_fired' /\ fsm'[k].state = "WAIT_RELEASE"
                    /\ held'[k] => pressed'[k]
  BY <1>r DEF BothInv
<1>0. fsm[k] \in Fsms
  BY DEF TypeOK
<1>1. CASE Tick
  <2>1. fsm'[k].state = fsm[k].state
    BY <1>0, <1>1 DEF Tick, Fsms
  <2> QED
    BY <1>1, <2>1 DEF Tick, BothInv
<1>2. ASSUME NEW p \in [Keys -> BOOLEAN], ScanBoth(p)
      PROVE  /\ held'[k] => both_press_fired' /\ fsm'[k].state = "WAIT_RELEASE"
             /\ held'[k] => pressed'[k]
  <2>1. both_press_fired' /\ fsm'[k] = [fsm[k] EXCEPT !.state = "WAIT_RELEASE"] /\ Observe(p)
    BY <1>2 DEF ScanBoth
  <2>2. fsm'[k].state = "WAIT_RELEASE"
    BY <1>0, <2>1 DEF Fsms
  <2> QED
    BY <2>1, <2>2, Observed
<1>3. ASSUME NEW p \in [Keys -> BOOLEAN], ScanKeys(p)
      PROVE  /\ held'[k] => both_press_fired' /\ fsm'[k].state = "WAIT_RELEASE"
             /\ held'[k] => pressed'[k]
  <2>1. Observe(p)
    BY <1>3 DEF ScanKeys
  <2>2. held'[k] => p[k] /\ held[k]
    BY <1>3, <2>1, Observed DEF ScanKeys
  <2>3. held'[k] => Muted(fsm[k], p)
    BY <2>2 DEF Muted, StillFired, BothInv
  <2> QED
    BY <1>3, <2>1, <2>2, <2>3, Observed, ScanCases DEF BothInv, Muted
<1>4. CASE UNCHANGED vars
  BY <1>4 DEF vars, history, BothInv
<1> QED
  BY <1>1, <1>2, <1>3, <1>4 DEF Next, keypad_scan

LEMMA LongStep == TypeOK /\ LongInv /\ [Next]_vars => LongInv'
<1> SUFFICES ASSUME TypeOK, LongInv, [Next]_vars, NEW k \in Keys
             PROVE  /\ fsm'[k].state = "WAIT_RELEASE" /\ fsm'[k].is_long_press
                          /\ ~both_press_fired' => open'[k]
                    /\ event'[k] = "LONG_HOLD" => open'[k]
  BY DEF LongInv
<1>0. fsm[k] \in Fsms /\ both_press_fired \in BOOLEAN
  BY DEF TypeOK
<1>1. CASE Tick
  <2>1. fsm'[k].state = fsm[k].state /\ fsm'[k].is_long_press = fsm[k].is_long_press
    BY <1>0, <1>1 DEF Tick, Fsms
  <2> QED
    BY <1>1, <2>1 DEF Tick, LongInv, Silence
<1>2. ASSUME NEW p \in [Keys -> BOOLEAN], ScanBoth(p)
      PROVE  both_press_fired' /\ event'[k] = "NONE"
  BY <1>2 DEF ScanBoth, Silence
<1>3. ASSUME NEW p \in [Keys -> BOOLEAN], ScanKeys(p)
      PROVE  /\ fsm'[k].state = "WAIT_RELEASE" /\ fsm'[k].is_long_press
                   /\ ~both_press_fired' => open'[k]
             /\ event'[k] = "LONG_HOLD" => open'[k]
  <2>1. open'[k] <=> p[k] /\ (open[k] \/ event'[k] = "LONG_PRESS")
    BY <1>3, Observed DEF ScanKeys
  <2>2. both_press_fired' = StillFired(p) /\ (StillFired(p) <=> both_press_fired /\ \E j \in Keys : p[j])
    BY <1>3, ScanCases DEF StillFired
  <2>3. CASE Muted(fsm[k], p)
    <3>1. both_press_fired' /\ event'[k] = "NONE"
      BY <1>3, <2>2, <2>3, ScanCases DEF Muted
    <3> QED
      BY <3>1
  <2>4. CASE ~Muted(fsm[k], p)
    <3>1. event'[k] = Pushes(fsm[k], p[k]) /\ fsm'[k] = NextFsm(fsm[k], p[k])
      BY <1>3, <2>4, ScanCases
    <3>2. fsm[k].state \in States /\ p[k] \in BOOLEAN
      BY <1>0 DEF Fsms
    <3>3. CASE fsm[k].state = "WAIT_RELEASE"
      <4>1. p[k] => ~both_press_fired
        BY <2>2, <2>4, <3>3 DEF Muted
      <4>2. /\ event'[k] = "LONG_HOLD" => fsm[k].is_long_press /\ p[k]
            /\ fsm'[k].state = IF p[k] THEN "WAIT_RELEASE" ELSE "IDLE"
            /\ p[k] => fsm'[k].is_long_press = fsm[k].is_long_press
        BY <1>0, <3>1, <3>2, <3>3, FsmSteps
      <4> QED
        BY <2>1, <3>3, <4>1, <4>2 DEF LongInv
    <3>4. CASE fsm[k].state = "PRESSED"
      <4>1. /\ event'[k] = (IF p[k] /\ fsm[k].press >= LongPress THEN "LONG_PRESS" ELSE "NONE")
            /\ fsm'[k].state = IF ~p[k] THEN "WAIT_2ND_CLICK"
                               ELSE IF fsm[k].press >= LongPress THEN "WAIT_RELEASE"
                               ELSE "PRESSED"
        BY <1>0, <3>1, <3>2, <3>4, FsmSteps
      <4> QED
        BY <2>1, <4>1
    <3>5. CASE fsm[k].state \notin {"WAIT_RELEASE", "PRESSED"}
      <4>1. /\ event'[k] # "LONG_HOLD"
            /\ fsm'[k].state = "WAIT_RELEASE" => ~fsm'[k].is_long_press
        BY <1>0, <3>1, <3>2, <3>5, FsmSteps DEF States
      <4> QED
        BY <4>1
    <3> QED
      BY <3>3, <3>4, <3>5
  <2> QED
    BY <2>3, <2>4
<1>4. CASE UNCHANGED vars
  BY <1>4 DEF vars, history, LongInv
<1> QED
  BY <1>1, <1>2, <1>3, <1>4 DEF Next, keypad_scan

(* The scan that leaves a debouncing state counts the press, and only it.  *)
LEMMA CountsWhen ==
    ASSUME NEW p \in [Keys -> BOOLEAN], NEW k \in Keys, TypeOK, BothInv, PinInv(k)
    PROVE  Counts(k, p) <=> /\ p[k] /\ fsm[k].state \in {"DEBOUNCE", "DEBOUNCE_2ND"}
                            /\ Debounced(fsm[k])
<1> USE Intervals
<1>1. fsm[k].state \in States /\ fsm[k].press \in Nat
  BY DEF TypeOK, Fsms
<1>2. CASE fsm[k].state \in {"DEBOUNCE", "DEBOUNCE_2ND"}
  <2>1. ~firm[k] /\ ~held[k] /\ pressed[k] /\ down[k] = Age(fsm[k])
    BY <1>2 DEF PinInv, BothInv
  <2>2. Age(fsm[k]) >= Debounce <=> Debounced(fsm[k])
    BY <1>1 DEF Age, Least, Debounced
  <2> QED
    BY <1>2, <2>1, <2>2 DEF Counts
<1>3. CASE fsm[k].state \notin {"DEBOUNCE", "DEBOUNCE_2ND"}
  BY <1>1, <1>3 DEF Counts, PinInv, States
<1> QED
  BY <1>2, <1>3

LEMMA PressStep == TypeOK /\ BothInv /\ PressInv /\ [Next]_vars => PressInv'
<1> USE Intervals
<1> SUFFICES ASSUME TypeOK, BothInv, PressInv, [Next]_vars, NEW k \in Keys
             PROVE  CountInv(k)' /\ PinInv(k)'
  BY DEF PressInv
<1>0. /\ fsm[k] \in Fsms /\ fsm[k].state \in States /\ fsm[k].press \in 0..LongPress
      /\ presses[k] \in 0..3 /\ CountInv(k) /\ PinInv(k)
  BY DEF TypeOK, Fsms, PressInv
<1>1. CASE Tick
  <2>1. fsm'[k].state = fsm[k].state /\ fsm'[k].press = Capped(fsm[k].press, LongPress)
    BY <1>0, <1>1 DEF Tick, Fsms
  <2>2. event'[k] = "NONE" /\ presses'[k] = Remaining(k) /\ pressed' = pressed
        /\ firm' = firm /\ held' = held
    BY <1>1 DEF Tick, Silence
  <2>3. Remaining(k)' = presses'[k]
    BY <2>2 DEF Remaining, Gestures
  <2>4. CountInv(k)'
    BY <1>0, <2>1, <2>2, <2>3 DEF CountInv, States, Remaining
  <2>5. fsm[k].state \in {"DEBOUNCE", "DEBOUNCE_2ND"} => down'[k] = Age(fsm'[k])
    <3>1. fsm[k].state \in {"DEBOUNCE", "DEBOUNCE_2ND"} =>
             down[k] = Age(fsm[k]) /\ down'[k] = Capped(down[k], Debounce)
      BY <1>0, <1>1 DEF Tick, PinInv
    <3> QED
      BY <1>0, <2>1, <3>1 DEF Age, Least, Capped
  <2>6. PinInv(k)'
    BY <1>0, <2>1, <2>2, <2>5 DEF PinInv
  <2> QED
    BY <2>4, <2>6
<1>2. ASSUME NEW p \in [Keys -> BOOLEAN], ScanBoth(p)
      PROVE  CountInv(k)' /\ PinInv(k)'
  <2>1. /\ fsm'[k] = [fsm[k] EXCEPT !.state = "WAIT_RELEASE"] /\ event'[k] = "NONE"
        /\ Observe(p) /\ fired' /\ p[k]
    BY <1>2 DEF ScanBoth, Silence, IsBothPress
  <2>2. fsm'[k].state = "WAIT_RELEASE"
    BY <1>0, <2>1 DEF Fsms
  <2>3. pressed'[k] /\ held'[k] /\ presses'[k] = 0
    BY <2>1, Observed
  <2> QED
    BY <2>1, <2>2, <2>3 DEF CountInv, PinInv, Remaining
<1>3. ASSUME NEW p \in [Keys -> BOOLEAN], ScanKeys(p)
      PROVE  CountInv(k)' /\ PinInv(k)'
  <2>1. /\ pressed'[k] = p[k] /\ p[k] \in BOOLEAN
        /\ down'[k] = IF p[k] /\ pressed[k] THEN down[k] ELSE 0
        /\ firm'[k] <=> p[k] /\ pressed[k] /\ (firm[k] \/ Counts(k, p))
        /\ presses'[k] = IF Counts(k, p) THEN Capped(Remaining(k), 3) ELSE Remaining(k)
        /\ held'[k] <=> p[k] /\ held[k]
    BY <1>3, Observed DEF ScanKeys
  <2>2. Counts(k, p) <=> /\ p[k] /\ fsm[k].state \in {"DEBOUNCE", "DEBOUNCE_2ND"}
                         /\ Debounced(fsm[k])
    BY <1>0, CountsWhen
  <2>3. CASE Muted(fsm[k], p)
    <3>1. /\ event'[k] = "NONE" /\ fsm[k].state = "WAIT_RELEASE"
          /\ fsm'[k].state = IF p[k] THEN "WAIT_RELEASE" ELSE "IDLE"
      BY <1>3, <2>3, ScanCases DEF Muted
    <3>2. presses'[k] = 0
      BY <1>0, <2>1, <2>2, <3>1 DEF CountInv
    <3>3. CountInv(k)'
      BY <3>1, <3>2 DEF CountInv, Remaining
    <3> QED
      BY <1>0, <2>1, <3>1, <3>3 DEF PinInv
  <2>4. CASE ~Muted(fsm[k], p)
    <3>0. event'[k] = Pushes(fsm[k], p[k]) /\ fsm'[k] = NextFsm(fsm[k], p[k])
      BY <1>3, <2>4, ScanCases
    <3>1. CASE fsm[k].state = "IDLE"
      <4>1. event'[k] = "NONE" /\ (~p[k] => fsm'[k] = fsm[k])
            /\ (p[k] => fsm'[k].state = "DEBOUNCE" /\ fsm'[k].press = 0)
        BY <1>0, <2>1, <3>0, <3>1, FsmSteps
      <4>2. presses'[k] = 0 /\ ~pressed[k]
        BY <1>0, <2>1, <2>2, <3>1 DEF CountInv, PinInv
      <4>3. CountInv(k)'
        BY <3>1, <4>1, <4>2 DEF CountInv, Remaining
      <4> QED
        BY <2>1, <3>1, <4>1, <4>2, <4>3 DEF PinInv, Age, Least
    <3>2. CASE fsm[k].state = "DEBOUNCE"
      <4>1. event'[k] = "NONE" /\ fsm'[k].press = fsm[k].press
            /\ fsm'[k].state = IF ~p[k] THEN "IDLE"
                               ELSE IF Debounced(fsm[k]) THEN "PRESSED" ELSE "DEBOUNCE"
        BY <1>0, <2>1, <3>0, <3>2, FsmSteps
      <4>2. /\ Remaining(k) = 0 /\ pressed[k] /\ ~firm[k] /\ down[k] = Age(fsm[k])
        BY <1>0, <3>2 DEF CountInv, PinInv
      <4>3. presses'[k] = IF p[k] /\ Debounced(fsm[k]) THEN 1 ELSE 0
        BY <2>1, <2>2, <3>2, <4>2 DEF Capped
      <4>4. CountInv(k)'
        BY <4>1, <4>3 DEF CountInv, Remaining, Gestures
      <4> QED
        BY <2>1, <2>2, <3>2, <4>1, <4>2, <4>4 DEF PinInv, Age
    <3>3. CASE fsm[k].state = "PRESSED"
      <4>1. /\ event'[k] = (IF p[k] /\ fsm[k].press >= LongPress THEN "LONG_PRESS" ELSE "NONE")
            /\ fsm'[k].state = IF ~p[k] THEN "WAIT_2ND_CLICK"
                               ELSE IF fsm[k].press >= LongPress THEN "WAIT_RELEASE"
                               ELSE "PRESSED"
        BY <1>0, <2>1, <3>0, <3>3, FsmSteps
      <4>2. presses'[k] = 1 /\ pressed[k] /\ (firm[k] \/ held[k])
        BY <1>0, <2>1, <2>2, <3>3 DEF CountInv, PinInv
      <4>3. CountInv(k)'
        BY <4>1, <4>2 DEF CountInv, Remaining, Gestures
      <4> QED
        BY <2>1, <4>1, <4>2, <4>3 DEF PinInv
    <3>4. CASE fsm[k].state = "WAIT_RELEASE"
      <4>1. /\ event'[k] \in {"NONE", "LONG_HOLD", "LONG_RELEASE"}
            /\ fsm'[k].state = IF p[k] THEN "WAIT_RELEASE" ELSE "IDLE"
        BY <1>0, <2>1, <3>0, <3>4, FsmSteps
      <4>2. presses'[k] = 0 /\ pressed[k] /\ (firm[k] \/ held[k])
        BY <1>0, <2>1, <2>2, <3>4 DEF CountInv, PinInv
      <4>3. CountInv(k)'
        BY <4>1, <4>2 DEF CountInv, Remaining
      <4> QED
        BY <2>1, <4>1, <4>2, <4>3 DEF PinInv
    <3>5. CASE fsm[k].state = "WAIT_2ND_CLICK"
      <4>1. /\ event'[k] \in {"NONE", "CLICK"} /\ (event'[k] = "CLICK" => fsm'[k].state = "IDLE")
            /\ p[k] => event'[k] = "NONE" /\ fsm'[k].state = "DEBOUNCE_2ND"
                       /\ fsm'[k].press = 0
            /\ ~p[k] /\ event'[k] = "NONE" => fsm'[k].state = "WAIT_2ND_CLICK"
        BY <1>0, <2>1, <3>0, <3>5, FsmSteps
      <4>2. presses'[k] = 1 /\ ~pressed[k]
        BY <1>0, <2>1, <2>2, <3>5 DEF CountInv, PinInv
      <4>3. CountInv(k)'
        BY <2>1, <4>1, <4>2 DEF CountInv, Remaining, Gestures
      <4> QED
        BY <2>1, <4>1, <4>2, <4>3 DEF PinInv, Age, Least
    <3>6. CASE fsm[k].state = "DEBOUNCE_2ND"
      <4>1. /\ event'[k] = (IF p[k] /\ Debounced(fsm[k]) THEN "DOUBLE_CLICK" ELSE "NONE")
            /\ fsm'[k].press = fsm[k].press
            /\ fsm'[k].state = IF ~p[k] THEN "WAIT_2ND_CLICK"
                               ELSE IF Debounced(fsm[k]) THEN "WAIT_RELEASE"
                               ELSE "DEBOUNCE_2ND"
        BY <1>0, <2>1, <3>0, <3>6, FsmSteps
      <4>2. Remaining(k) = 1 /\ pressed[k] /\ ~firm[k] /\ down[k] = Age(fsm[k])
        BY <1>0, <3>6 DEF CountInv, PinInv
      <4>3. presses'[k] = IF p[k] /\ Debounced(fsm[k]) THEN 2 ELSE 1
        BY <2>1, <2>2, <3>6, <4>2 DEF Capped
      <4>4. CountInv(k)'
        BY <4>1, <4>3 DEF CountInv, Remaining, Gestures
      <4> QED
        BY <2>1, <2>2, <3>6, <4>1, <4>2, <4>4 DEF PinInv, Age
    <3> QED
      BY <1>0, <3>1, <3>2, <3>3, <3>4, <3>5, <3>6 DEF States
  <2> QED
    BY <2>3, <2>4
<1>4. CASE UNCHANGED vars
  BY <1>0, <1>4 DEF vars, history, CountInv, PinInv, Remaining, Age
<1> QED
  BY <1>1, <1>2, <1>3, <1>4 DEF Next, keypad_scan

-----------------------------------------------------------------------------
LEMMA KeyInvHolds == Spec => []KeyInv
<1> USE Intervals
<1>1. Init => KeyInv
  <2> SUFFICES ASSUME Init PROVE KeyInv
    OBVIOUS
  <2>1. TypeOK
    <3>1. [state |-> "IDLE", press |-> 0, release |-> 0, hold |-> 0, is_long_press |-> FALSE]
             \in Fsms
      BY DEF Fsms, States
    <3>2. fsm \in [Keys -> Fsms]
      BY <3>1 DEF Init
    <3>3. /\ apart \in 0..(BothPress + 1) /\ event \in [Keys -> Events]
          /\ down \in [Keys -> 0..Debounce] /\ presses \in [Keys -> 0..3]
      BY DEF Init, Events, Silence
    <3> QED
      BY <3>2, <3>3, Zenon DEF Init, TypeOK
  <2>2. \A k \in Keys : fsm[k].state = "IDLE" /\ event[k] = "NONE" /\ presses[k] = 0
                        /\ ~pressed[k] /\ ~held[k]
    BY DEF Init, Silence
  <2>3. rested
    BY DEF Init
  <2> QED
    BY <2>1, <2>2, <2>3 DEF KeyInv, BothInv, LongInv, PressInv, CountInv, PinInv, Remaining
<1>2. KeyInv /\ [Next]_vars => KeyInv'
  BY TypeStep, BothStep, LongStep, PressStep DEF KeyInv
<1> QED
  BY <1>1, <1>2, PTL DEF Spec

(* The machines, ages and events keep their types for all intervals.       *)
THEOREM TypeCorrect == Spec => []TypeOK
<1>1. KeyInv => TypeOK
  BY DEF KeyInv
<1> QED
  BY <1>1, KeyInvHolds, PTL

(* key_fsm_update reports a click or a long press for one press longer     *)
(* than the bouncing and a double click for two, and carries no press over *)
(* to the next gesture.                                                    *)
THEOREM GesturesCount == Spec => []GestureCountsPresses
<1>1. KeyInv => GestureCountsPresses
  BY DEF KeyInv, PressInv, CountInv, GestureCountsPresses
<1> QED
  BY <1>1, KeyInvHolds, PTL

(* KEY_EVENT_LONG_HOLD only while the key is down from the long press it   *)
(* continues: a flag is_long_press left over by a both-press is never      *)
(* taken for one.                                                          *)
THEOREM HoldsAreInPresses == Spec => []HoldInLongPress
<1>1. KeyInv => HoldInLongPress
  BY DEF KeyInv, LongInv, HoldInLongPress
<1> QED
  BY <1>1, KeyInvHolds, PTL

(* A key still down from a both-press reports neither gesture nor hold.    *)
THEOREM BothPressIsSilent == Spec => BothPressSilences
<1>1. KeyInv /\ [Next]_vars
        => [\A k \in Keys : held[k] /\ pressed'[k] => event'[k] = "NONE"]_vars
  <2> SUFFICES ASSUME KeyInv, Next, NEW k \in Keys, held[k], pressed'[k]
               PROVE  event'[k] = "NONE"
    BY DEF vars
  <2>1. CASE Tick
    BY <2>1 DEF Tick, Silence
  <2>2. ASSUME NEW p \in [Keys -> BOOLEAN], ScanBoth(p) PROVE event'[k] = "NONE"
    BY <2>2 DEF ScanBoth, Silence
  <2>3. ASSUME NEW p \in [Keys -> BOOLEAN], ScanKeys(p) PROVE event'[k] = "NONE"
    <3>1. TypeOK /\ pressed'[k] = p[k]
      BY <2>3, ScanCases DEF KeyInv
    <3>2. Muted(fsm[k], p)
      BY <3>1 DEF KeyInv, BothInv, Muted, StillFired
    <3> QED
      BY <2>3, <3>1, <3>2, ScanCases
  <2> QED
    BY <2>1, <2>2, <2>3 DEF Next, keypad_scan
<1> QED
  BY <1>1, KeyInvHolds, PTL DEF Spec, BothPressSilences

(* s_both_press_callback is called once, until a scan reads both keys up.  *)
THEOREM BothPressFiresOnce == Spec => BothPressOnce
<1>1. KeyInv /\ [Next]_vars => [fired' => rested]_vars
  <2> SUFFICES ASSUME KeyInv, Next, fired' PROVE rested
    BY DEF vars
  <2>1. \E p \in [Keys -> BOOLEAN] : ScanBoth(p)
    BY DEF Next, Tick, keypad_scan, ScanKeys
  <2>2. ~both_press_fired
    BY <2>1 DEF ScanBoth, IsBothPress
  <2> QED
    BY <2>2 DEF KeyInv, BothInv
<1> QED
  BY <1>1, KeyInvHolds, PTL DEF Spec, BothPressOnce
=============================================================================
