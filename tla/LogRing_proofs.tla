-------------------------- MODULE LogRing_proofs --------------------------
(***************************************************************************)
(* Theorems about LogRing for every size of the ring and any number of     *)
(* entries, with both writers.  All of them hold until the log is          *)
(* disturbed; the run LogRace shows what happens then.                     *)
(***************************************************************************)
EXTENDS LogRing, FiniteSetTheorems, TLAPS

(* What the main loop may count on while it saves or reports an entry.     *)
(* When an overflow has moved the tail on, the entry reported is the one   *)
(* the next save will overwrite.                                           *)
LoopInv ==
    /\ pc = "counter" => entry = log_counter + 1
    /\ pc \in Saving \ {"counter"} => entry = log_counter
    /\ pc \in {"count", "count_store", "tail", "tail_store"} => Full
    /\ pc \in {"address", "first", "second", "head", "head_store"} => ~Full
    /\ pc \in {"first", "second"} => at = head
    /\ pc = "count_store" => next = overflow_count + 1
    /\ pc = "tail_store" => next = Inc(tail)
    /\ pc = "head_store" => next = Inc(head)
    /\ pc = "pop_store" => next = Inc(tail) \/ (next = tail /\ at # tail)
    /\ pc \in Reporting => head # tail
    /\ pc \in Reporting => at = tail \/ (at = head /\ interrupted)

(* The endpoint's memory is written only while the host may not read it.   *)
EndpointInv ==
    /\ armed => configured /\ (custom_state = "BUSY" \/ pc = "busy")
    /\ pc \in {"arm", "busy"} => configured
    /\ pc = "arm" => ~armed

(* Whatever is whole stays whole.                                          *)
WholeInv ==
    /\ \A i \in Slots : (i = head /\ pc = "second") \/ log[i][1] = log[i][2]
    /\ pc \in {"second", "head", "head_store"} => log[head][1] = entry
    /\ pc \in Reporting \ {"read_first"} => report[1] = log[at][1]
    /\ pc \in {"send", "arm"} => report[1] = report[2]
    /\ pc = "arm" => ram[1] = report[1]
    /\ armed => ram[1] = ram[2]
    /\ host[1] = host[2]

(* The ring holds the entries in order, newer than what was handed over.   *)
Last == IF armed THEN ram[1] ELSE host[1]

OrderInv ==
    /\ \A i \in Slots : log[i][1] <= log_counter
    /\ Last <= log_counter
    /\ \A c \in sent : c <= Last
    /\ pc \in Saving \ {"counter"} => Last < log_counter
    /\ pc \in Saving \ {"counter"} =>
          \A i \in Slots : InRing(i) => log[i][1] < log_counter
    /\ \A i, j \in Slots :
          InRing(i) /\ InRing(j) /\ Pos(i) < Pos(j) => log[i][1] < log[j][1]
    /\ \A i \in Slots : InRing(i) /\ ~(pc \in Handed /\ i = at) => log[i][1] > Last
    /\ pc \in Reading => log[at][1] > Last
    /\ pc \in Reading => \A i \in Slots : InRing(i) /\ i # at => log[i][1] > log[at][1]
    /\ pc \in Handed => log[at][1] \in sent
    /\ armed => ram[1] > host[1]

(* The entry being saved is not in the ring yet, and has not vanished.     *)
Gone == IF pc \in Saving \ {"counter"} THEN Vanished \ {entry} ELSE Vanished

(* An overflow the loop has counted before it moves the tail, and one of   *)
(* an entry that was already handed over, leave the counter one ahead.     *)
LossInv ==
    /\ Cardinality(Gone) <= overflow_count
    /\ pc \in {"tail", "tail_store"} => Cardinality(Gone) < overflow_count
    /\ pc \in Handed /\ at # tail => Cardinality(Gone) < overflow_count

CleanInv == LoopInv /\ EndpointInv /\ WholeInv /\ OrderInv /\ LossInv
LogInv   == TypeOK /\ (disturbed \/ CleanInv)
-----------------------------------------------------------------------------
(* The ring: LOG_RING_INC, log_buf_push and log_buf_pop.                   *)
LEMMA IncCases ==
    ASSUME NEW x \in Slots
    PROVE  /\ Inc(x) = IF x + 1 = Size THEN 0 ELSE x + 1
           /\ Inc(x) \in Slots /\ Inc(x) # x
<1>1. Size \in Nat /\ Size >= 2
  BY SizeAssumption DEF SizeAssumption
<1>2. CASE x + 1 < Size
  <2>1. (x + 1) % Size = x + 1
    BY <1>1, <1>2 DEF Slots
  <2> QED
    BY <1>1, <1>2, <2>1 DEF Inc, Slots
<1>3. CASE x + 1 = Size
  <2>1. (x + 1) % Size = 0
    BY <1>1, <1>3 DEF Slots
  <2> QED
    BY <1>1, <1>3, <2>1 DEF Inc, Slots
<1> QED
  BY <1>1, <1>2, <1>3 DEF Slots

(* A push takes the slot at the head in; into a full ring it drops the     *)
(* oldest entry.                                                           *)
LEMMA Pushed ==
    ASSUME head \in Slots, tail \in Slots, head' = Inc(head),
           tail' = IF Full THEN Inc(tail) ELSE tail
    PROVE  /\ head' \in Slots /\ tail' \in Slots /\ head' # tail'
           /\ Count \in Nat
           /\ Count' = IF Full THEN Count ELSE Count + 1
           /\ Full => head # tail
           /\ \A i \in Slots : i = head => Pos(i)' = Count' - 1
           /\ \A i \in Slots :
                 InRing(i)' => i = head \/ (InRing(i) /\ (Full => i # tail))
           /\ \A i \in Slots : InRing(i)' /\ i # head =>
                 Pos(i)' = IF Full THEN Pos(i) - 1 ELSE Pos(i)
           /\ \A i \in Slots : Pos(i) \in Nat /\ Pos(i)' \in Nat
<1>1. Size \in Nat /\ Size >= 2
  BY SizeAssumption DEF SizeAssumption
<1>2. /\ Inc(head) = IF head + 1 = Size THEN 0 ELSE head + 1
      /\ Inc(tail) = IF tail + 1 = Size THEN 0 ELSE tail + 1
  BY IncCases
<1>3. /\ Full <=> (IF head + 1 = Size THEN 0 ELSE head + 1) = tail
      /\ tail' = IF Full THEN (IF tail + 1 = Size THEN 0 ELSE tail + 1) ELSE tail
      /\ head' = IF head + 1 = Size THEN 0 ELSE head + 1
  BY <1>2 DEF Full
<1>4. CASE Full
  <2>1. Count \in Nat /\ Count' = Count
    BY <1>1, <1>3, <1>4 DEF Count, Pos, Slots
  <2>2. ASSUME NEW i \in Slots
        PROVE  /\ Pos(i) \in Nat /\ Pos(i)' \in Nat
               /\ i = head => Pos(i)' = Count' - 1
               /\ InRing(i)' => i = head \/ (InRing(i) /\ i # tail)
               /\ InRing(i)' /\ i # head => Pos(i)' = Pos(i) - 1
    BY <1>1, <1>3, <1>4, <2>2 DEF Count, Pos, InRing, Slots
  <2>3. head' \in Slots /\ tail' \in Slots /\ head' # tail' /\ head # tail
    BY <1>1, <1>3, <1>4 DEF Slots
  <2> QED
    BY <1>4, <2>1, <2>2, <2>3
<1>5. CASE ~Full
  <2>1. Count \in Nat /\ Count' = Count + 1
    BY <1>1, <1>3, <1>5 DEF Count, Pos, Slots
  <2>2. ASSUME NEW i \in Slots
        PROVE  /\ Pos(i) \in Nat /\ Pos(i)' \in Nat
               /\ i = head => Pos(i)' = Count' - 1
               /\ InRing(i)' => i = head \/ InRing(i)
               /\ InRing(i)' /\ i # head => Pos(i)' = Pos(i)
    BY <1>1, <1>3, <1>5, <2>2 DEF Count, Pos, InRing, Slots
  <2>3. head' \in Slots /\ tail' \in Slots /\ head' # tail'
    BY <1>1, <1>3, <1>5 DEF Slots
  <2> QED
    BY <1>5, <2>1, <2>2, <2>3
<1> QED
  BY <1>4, <1>5

(* A pop takes the slot at the tail out.                                   *)
LEMMA Popped ==
    ASSUME head \in Slots, tail \in Slots, head # tail, head' = head, tail' = Inc(tail)
    PROVE  /\ tail' \in Slots
           /\ Count \in Nat /\ Count' = Count - 1
           /\ Inc(head) = tail => Inc(head) # tail'
           /\ \A i \in Slots : InRing(i)' => InRing(i) /\ i # tail
           /\ \A i \in Slots : InRing(i)' => Pos(i)' = Pos(i) - 1
           /\ \A i \in Slots : Pos(i) \in Nat /\ Pos(i)' \in Nat
<1>1. Size \in Nat /\ Size >= 2
  BY SizeAssumption DEF SizeAssumption
<1>2. /\ Inc(head) = IF head + 1 = Size THEN 0 ELSE head + 1
      /\ Inc(tail) = IF tail + 1 = Size THEN 0 ELSE tail + 1
  BY IncCases
<1> QED
  BY <1>1, <1>2 DEF Count, Pos, InRing, Slots

(* What a push and a pop leave in the ring.                                *)
LEMMA PushKeeps ==
    ASSUME head \in Slots, tail \in Slots, head' = Inc(head),
           tail' = IF Full THEN Inc(tail) ELSE tail
    PROVE  /\ \A i \in Slots : i = head => InRing(i)'
           /\ \A i \in Slots : InRing(i) /\ ~(Full /\ i = tail) => InRing(i)'
<1>1. /\ Inc(head) = IF head + 1 = Size THEN 0 ELSE head + 1
      /\ Inc(tail) = IF tail + 1 = Size THEN 0 ELSE tail + 1
  BY IncCases
<1>2. CASE Full
  <2>1. head' = tail /\ tail' = (IF tail + 1 = Size THEN 0 ELSE tail + 1) /\ head # tail
    BY <1>1, <1>2, SizeAssumption DEF SizeAssumption, Full, Slots
  <2>2. (IF head + 1 = Size THEN 0 ELSE head + 1) = tail
    BY <1>1, <1>2 DEF Full
  <2> QED
    BY <1>2, <2>1, <2>2, SizeAssumption DEF SizeAssumption, Count, Pos, InRing, Slots
<1>3. CASE ~Full
  <2>1. /\ head' = (IF head + 1 = Size THEN 0 ELSE head + 1) /\ tail' = tail
        /\ (IF head + 1 = Size THEN 0 ELSE head + 1) # tail
    BY <1>1, <1>3 DEF Full
  <2> QED
    BY <2>1, SizeAssumption DEF SizeAssumption, Count, Pos, InRing, Slots
<1> QED
  BY <1>2, <1>3

LEMMA PopKeeps ==
    ASSUME head \in Slots, tail \in Slots, head # tail, head' = head, tail' = Inc(tail)
    PROVE  \A i \in Slots : InRing(i) /\ i # tail => InRing(i)'
<1>1. Inc(tail) = IF tail + 1 = Size THEN 0 ELSE tail + 1
  BY IncCases
<1> QED
  BY <1>1, SizeAssumption DEF SizeAssumption, Count, Pos, InRing, Slots

(* Saving half of an entry leaves the other half and the other slots.      *)
LEMMA HalfSaved ==
    ASSUME log \in [Slots -> Counters \X Counters], at \in Slots, entry \in Counters,
           NEW half \in {1, 2}, log' = [log EXCEPT ![at][half] = entry]
    PROVE  /\ log' \in [Slots -> Counters \X Counters]
           /\ log'[at][half] = entry
           /\ log'[at][3 - half] = log[at][3 - half]
           /\ \A i \in Slots : i # at => log'[i] = log[i]
<1>1. log[at] \in Counters \X Counters
  OBVIOUS
<1>2. log' = [log EXCEPT ![at] = [log[at] EXCEPT ![half] = entry]]
  OBVIOUS
<1>3. CASE half = 1
  <2>1. [log[at] EXCEPT ![1] = entry] = <<entry, log[at][2]>>
    BY <1>1
  <2> QED
    BY <1>1, <1>2, <1>3, <2>1
<1>4. CASE half = 2
  <2>1. [log[at] EXCEPT ![2] = entry] = <<log[at][1], entry>>
    BY <1>1
  <2> QED
    BY <1>1, <1>2, <1>4, <2>1
<1> QED
  BY <1>3, <1>4

(* The facts about types every proof of a step starts from.                *)
LEMMA StateFacts ==
    ASSUME TypeOK
    PROVE  /\ Size \in Nat /\ Size >= 2 /\ MaxCount \in Nat
           /\ head \in Slots /\ tail \in Slots /\ at \in Slots
           /\ Inc(head) \in Slots /\ Inc(tail) \in Slots
           /\ Inc(head) # head /\ Inc(tail) # tail
           /\ Count \in Nat
           /\ log_counter \in Nat /\ overflow_count \in Nat /\ entry \in Nat
           /\ log \in [Slots -> Counters \X Counters] /\ entry \in Counters
           /\ \A i \in Slots : /\ log[i] = <<log[i][1], log[i][2]>>
                                /\ log[i][1] \in Nat /\ log[i][2] \in Nat
           /\ report = <<report[1], report[2]>> /\ ram = <<ram[1], ram[2]>>
           /\ host = <<host[1], host[2]>>
           /\ report[1] \in Nat /\ ram[1] \in Nat /\ host[1] \in Nat
<1>1. Size \in Nat /\ Size >= 2 /\ MaxCount \in Nat
  BY SizeAssumption DEF SizeAssumption
<1>2. head \in Slots /\ tail \in Slots /\ at \in Slots
  BY DEF TypeOK
<1>3. Count \in Nat
  BY <1>1, <1>2 DEF Count, Slots
<1>4. ASSUME NEW e \in Counters \X Counters
      PROVE  e = <<e[1], e[2]>> /\ e[1] \in Nat /\ e[2] \in Nat
  BY <1>1 DEF Counters
<1>5. /\ log \in [Slots -> Counters \X Counters]
      /\ \A i \in Slots : log[i] \in Counters \X Counters
  BY DEF TypeOK
<1>6. report \in Counters \X Counters /\ ram \in Counters \X Counters
      /\ host \in Counters \X Counters
  BY DEF TypeOK
<1>7. /\ entry \in Counters
      /\ log_counter \in Nat /\ overflow_count \in Nat /\ entry \in Nat
  BY <1>1 DEF TypeOK, Counters
<1> QED
  BY <1>1, <1>2, <1>3, <1>4, <1>5, <1>6, <1>7, IncCases

LEMMA TypeStep ==
    ASSUME TypeOK, [Next]_vars PROVE TypeOK'
<1>f. /\ Inc(head) \in Slots /\ Inc(tail) \in Slots /\ MaxCount \in Nat
      /\ log_counter \in Nat /\ overflow_count \in Nat
      /\ \A i \in Slots : log[i] \in Counters \X Counters
      /\ entry \in Counters /\ at \in Slots
      /\ log \in [Slots -> Counters \X Counters]
  BY StateFacts DEF TypeOK
<1>g. \A x \in Slots : x \in Nat
  BY SizeAssumption DEF SizeAssumption, Slots
<1>1. CASE IsrSave
  <2>1. log_counter + 1 \in Counters
    BY <1>f, <1>1 DEF IsrSave, Counters
  <2> QED
    BY <1>f, <1>1, <2>1 DEF IsrSave, Overflow, TypeOK, Saving, Reading, Handed, Reporting, local, usb
<1>2. CASE SaveBegin
  <2>1. log_counter + 1 \in Counters
    BY <1>f, <1>2 DEF SaveBegin, Counters
  <2> QED
    BY <1>f, <1>2, <2>1 DEF SaveBegin, TypeOK, Go, Saving, Reading, Handed, Reporting,
       buffer, usb, history
<1>3. CASE SaveCounter
  BY <1>f, <1>g, <1>3 DEF SaveCounter, TypeOK, Go, Finish, Saving, Reading, Handed,
     Reporting, buffer, local, usb, history
<1>4. CASE SaveCheck
  BY <1>f, <1>g, <1>4 DEF SaveCheck, TypeOK, Go, Finish, Saving, Reading, Handed,
     Reporting, buffer, local, usb, history
<1>5. CASE Load("count", "count_store", overflow_count + 1)
  BY <1>f, <1>g, <1>5 DEF Load, TypeOK, Go, Finish, Saving, Reading, Handed,
     Reporting, buffer, local, usb, history
<1>6. CASE SaveCount
  BY <1>f, <1>g, <1>6 DEF SaveCount, TypeOK, Go, Finish, Saving, Reading, Handed,
     Reporting, buffer, local, usb, history
<1>7. CASE Load("tail", "tail_store", Inc(tail))
  BY <1>f, <1>g, <1>7 DEF Load, TypeOK, Go, Finish, Saving, Reading, Handed,
     Reporting, buffer, local, usb, history
<1>8. CASE SaveTail
  BY <1>f, <1>g, <1>8 DEF SaveTail, TypeOK, Go, Finish, Saving, Reading, Handed,
     Reporting, buffer, local, usb, history
<1>9. CASE SaveAddress
  BY <1>f, <1>g, <1>9 DEF SaveAddress, TypeOK, Go, Finish, Saving, Reading, Handed,
     Reporting, buffer, local, usb, history
<1>10. CASE SaveHalf(1, "first", "second")
  BY <1>f, <1>10, HalfSaved
     DEF SaveHalf, TypeOK, Go, Saving, Reading, Handed, Reporting, local, usb, history
<1>11. CASE SaveHalf(2, "second", "head")
  BY <1>f, <1>11, HalfSaved
     DEF SaveHalf, TypeOK, Go, Saving, Reading, Handed, Reporting, local, usb, history
<1>12. CASE Load("head", "head_store", Inc(head))
  BY <1>f, <1>g, <1>12 DEF Load, TypeOK, Go, Finish, Saving, Reading, Handed,
     Reporting, buffer, local, usb, history
<1>13. CASE SaveHead
  BY <1>f, <1>g, <1>13 DEF SaveHead, TypeOK, Go, Finish, Saving, Reading, Handed,
     Reporting, buffer, local, usb, history
<1>14. CASE Peek
  BY <1>f, <1>g, <1>14 DEF Peek, Oldest, TypeOK, Go, Finish, Saving, Reading, Handed,
     Reporting, buffer, local, usb, history
<1>15. CASE ReadHalf(1, "read_first", "read_second")
  BY <1>f, <1>g, <1>15 DEF ReadHalf, TypeOK, Go, Finish, Saving, Reading, Handed,
     Reporting, buffer, local, usb, history
<1>16. CASE ReadHalf(2, "read_second", "send")
  BY <1>f, <1>g, <1>16 DEF ReadHalf, TypeOK, Go, Finish, Saving, Reading, Handed,
     Reporting, buffer, local, usb, history
<1>17. CASE SendFails
  BY <1>f, <1>g, <1>17 DEF SendFails, TypeOK, Go, Finish, Saving, Reading, Handed,
     Reporting, buffer, local, usb, history
<1>18. CASE SendWrite
  BY <1>f, <1>g, <1>18 DEF SendWrite, TypeOK, Go, Finish, Saving, Reading, Handed,
     Reporting, buffer, local, usb, history
<1>19. CASE SendArm
  <2>1. report[1] \in Counters /\ report[2] \in Counters /\ ram \in Counters \X Counters
    BY DEF TypeOK
  <2>2. ram' \in Counters \X Counters /\ sent' \subseteq Counters
    BY <1>19, <2>1 DEF SendArm, TypeOK
  <2> QED
    BY <1>19, <2>2 DEF SendArm, TypeOK, Go, Saving, Reading, Handed, Reporting, buffer,
       local, history
<1>20. CASE SendBusy
  BY <1>f, <1>g, <1>20 DEF SendBusy, TypeOK, Go, Finish, Saving, Reading, Handed,
     Reporting, buffer, local, usb, history
<1>21. CASE Load("pop", "pop_store", IF HasData THEN Inc(tail) ELSE tail)
  BY <1>f, <1>g, <1>21 DEF Load, TypeOK, Go, Finish, Saving, Reading, Handed,
     Reporting, buffer, local, usb, history
<1>22. CASE PopStore
  BY <1>f, <1>g, <1>22 DEF PopStore, TypeOK, Go, Finish, Saving, Reading, Handed,
     Reporting, buffer, local, usb, history
<1>23. CASE Configured
  BY <1>f, <1>g, <1>23 DEF Configured, TypeOK, Go, Finish, Saving, Reading, Handed,
     Reporting, buffer, local, usb, history
<1>24. CASE InComplete
  BY <1>f, <1>g, <1>24 DEF InComplete, TypeOK, Go, Finish, Saving, Reading, Handed,
     Reporting, buffer, local, usb, history
<1>25. CASE UNCHANGED vars
  BY <1>f, <1>g, <1>25 DEF vars, TypeOK, Go, Finish, Saving, Reading, Handed,
     Reporting, buffer, local, usb, history
<1> QED
  BY <1>1, <1>2, <1>3, <1>4, <1>5, <1>6, <1>7, <1>8, <1>9, <1>10, <1>11, <1>12, <1>13,
     <1>14, <1>15, <1>16, <1>17, <1>18, <1>19, <1>20, <1>21, <1>22, <1>23, <1>24,
     <1>25 DEF Next, Save, Report

(* Once disturbed, always disturbed; and a save of the interrupt that does *)
(* not disturb the log comes while the loop is idle, or first in a report. *)
LEMMA Undisturbed ==
    ASSUME TypeOK, [Next]_vars, ~disturbed'
    PROVE  ~disturbed /\ (IsrSave => pc \notin Saving /\ (pc \in Reporting => ~interrupted))
<1>b. disturbed \in BOOLEAN
  BY DEF TypeOK
<1>1. CASE IsrSave
  BY <1>b, <1>1 DEF IsrSave, Go, Finish, history, local
<1>2. CASE SaveBegin
  BY <1>1, <1>2 DEF SaveBegin, Go, Finish, history, local
<1>3. CASE SaveCounter
  BY <1>1, <1>3 DEF SaveCounter, Go, Finish, history, local
<1>4. CASE SaveCheck
  BY <1>1, <1>4 DEF SaveCheck, Go, Finish, history, local
<1>5. CASE Load("count", "count_store", overflow_count + 1)
  BY <1>1, <1>5 DEF Load, Go, Finish, history, local
<1>6. CASE SaveCount
  BY <1>1, <1>6 DEF SaveCount, Go, Finish, history, local
<1>7. CASE Load("tail", "tail_store", Inc(tail))
  BY <1>1, <1>7 DEF Load, Go, Finish, history, local
<1>8. CASE SaveTail
  BY <1>1, <1>8 DEF SaveTail, Go, Finish, history, local
<1>9. CASE SaveAddress
  BY <1>1, <1>9 DEF SaveAddress, Go, Finish, history, local
<1>10. CASE SaveHalf(1, "first", "second")
  BY <1>1, <1>10 DEF SaveHalf, Go, Finish, history, local
<1>11. CASE SaveHalf(2, "second", "head")
  BY <1>1, <1>11 DEF SaveHalf, Go, Finish, history, local
<1>12. CASE Load("head", "head_store", Inc(head))
  BY <1>1, <1>12 DEF Load, Go, Finish, history, local
<1>13. CASE SaveHead
  BY <1>1, <1>13 DEF SaveHead, Go, Finish, history, local
<1>14. CASE Peek
  BY <1>1, <1>14 DEF Peek, Oldest, Go, Finish, history, local
<1>15. CASE ReadHalf(1, "read_first", "read_second")
  BY <1>1, <1>15 DEF ReadHalf, Go, Finish, history, local
<1>16. CASE ReadHalf(2, "read_second", "send")
  BY <1>1, <1>16 DEF ReadHalf, Go, Finish, history, local
<1>17. CASE SendFails
  BY <1>1, <1>17 DEF SendFails, Go, Finish, history, local
<1>18. CASE SendWrite
  BY <1>1, <1>18 DEF SendWrite, Go, Finish, history, local
<1>19. CASE SendArm
  BY <1>1, <1>19 DEF SendArm, Go, Finish, history, local
<1>20. CASE SendBusy
  BY <1>1, <1>20 DEF SendBusy, Go, Finish, history, local
<1>21. CASE Load("pop", "pop_store", IF HasData THEN Inc(tail) ELSE tail)
  BY <1>1, <1>21 DEF Load, Go, Finish, history, local
<1>22. CASE PopStore
  BY <1>1, <1>22 DEF PopStore, Go, Finish, history, local
<1>23. CASE Configured
  BY <1>1, <1>23 DEF Configured, Go, Finish, history, local
<1>24. CASE InComplete
  BY <1>1, <1>24 DEF InComplete, Go, Finish, history, local
<1>25. CASE UNCHANGED vars
  BY <1>1, <1>25 DEF vars, Go, Finish, history, local
<1> QED
  BY <1>b, <1>1, <1>2, <1>3, <1>4, <1>5, <1>6, <1>7, <1>8, <1>9, <1>10, <1>11, <1>12, <1>13,
     <1>14, <1>15, <1>16, <1>17, <1>18, <1>19, <1>20, <1>21, <1>22, <1>23, <1>24,
     <1>25 DEF Next, Save, Report

LEMMA LoopStep ==
    ASSUME TypeOK, LoopInv, [Next]_vars, ~disturbed' PROVE LoopInv'
<1>f. /\ head \in Slots /\ tail \in Slots /\ at \in Slots
      /\ Inc(head) \in Slots /\ Inc(tail) \in Slots
      /\ Inc(head) # head /\ Inc(tail) # tail
      /\ log_counter \in Nat /\ overflow_count \in Nat
  BY StateFacts
<1>i. IsrSave => pc \notin Saving /\ (pc \in Reporting => ~interrupted)
  BY Undisturbed
<1>1. CASE IsrSave
  <2>1. pc \notin Saving /\ (pc \in Reporting => ~interrupted) /\ UNCHANGED <<pc, at, next>>
    BY <1>i, <1>1 DEF IsrSave, local
  <2>2. head' \in Slots /\ tail' \in Slots /\ head' # tail' /\ head' = Inc(head)
        /\ tail' = IF Full THEN Inc(tail) ELSE tail
    BY <1>f, <1>1, Pushed DEF IsrSave
  <2>3. pc \in Reporting => at = tail /\ interrupted'
    BY <2>1, <1>1 DEF IsrSave, LoopInv, Reporting, Reading, Handed
  <2>4. pc \in Reporting => at = tail' \/ at = head'
    BY <2>2, <2>3 DEF Full
  <2>5. pc = "pop_store" => next = Inc(tail') \/ (next = tail' /\ at # tail')
    BY <1>f, <2>1, <2>2, <2>3 DEF LoopInv, Reporting, Handed
  <2>6. pc = "pop_store" => (next = Inc(tail) \/ (next = tail /\ at # tail))'
    BY <2>1, <2>5 DEF Inc
  <2> QED
    BY <2>1, <2>2, <2>3, <2>4, <2>6 DEF LoopInv, Saving, Reading, Handed, Reporting
<1>2. CASE SaveBegin
  BY <1>f, <1>2 DEF SaveBegin, LoopInv, Go, Finish, Full, HasData, Inc, Saving,
     Reading, Handed, Reporting, buffer, local, usb, history
<1>3. CASE SaveCounter
  BY <1>f, <1>3 DEF SaveCounter, LoopInv, Go, Finish, Full, HasData, Inc, Saving,
     Reading, Handed, Reporting, buffer, local, usb, history
<1>4. CASE SaveCheck
  BY <1>f, <1>4 DEF SaveCheck, LoopInv, Go, Finish, Full, HasData, Inc, Saving,
     Reading, Handed, Reporting, buffer, local, usb, history
<1>5. CASE Load("count", "count_store", overflow_count + 1)
  BY <1>f, <1>5 DEF Load, LoopInv, Go, Finish, Full, HasData, Inc, Saving, Reading,
     Handed, Reporting, buffer, local, usb, history
<1>6. CASE SaveCount
  BY <1>f, <1>6 DEF SaveCount, LoopInv, Go, Finish, Full, HasData, Inc, Saving,
     Reading, Handed, Reporting, buffer, local, usb, history
<1>7. CASE Load("tail", "tail_store", Inc(tail))
  BY <1>f, <1>7 DEF Load, LoopInv, Go, Finish, Full, HasData, Inc, Saving, Reading,
     Handed, Reporting, buffer, local, usb, history
<1>8. CASE SaveTail
  <2>1. tail' = Inc(tail) /\ head' = head /\ pc = "tail_store" /\ pc' = "address" /\ Full
        /\ UNCHANGED <<entry, log_counter>>
    BY <1>8 DEF SaveTail, LoopInv, Go, local
  <2>2. Inc(head) # tail'
    BY <1>f, <2>1, IncCases DEF Full
  <2>3. ~Full'
    BY <2>1, <2>2 DEF Full, Inc
  <2> QED
    BY <2>1, <2>3 DEF LoopInv, Saving, Reading, Handed, Reporting
<1>9. CASE SaveAddress
  BY <1>f, <1>9 DEF SaveAddress, LoopInv, Go, Finish, Full, HasData, Inc, Saving,
     Reading, Handed, Reporting, buffer, local, usb, history
<1>10. CASE SaveHalf(1, "first", "second")
  BY <1>f, <1>10 DEF SaveHalf, LoopInv, Go, Finish, Full, HasData, Inc, Saving,
     Reading, Handed, Reporting, buffer, local, usb, history
<1>11. CASE SaveHalf(2, "second", "head")
  BY <1>f, <1>11 DEF SaveHalf, LoopInv, Go, Finish, Full, HasData, Inc, Saving,
     Reading, Handed, Reporting, buffer, local, usb, history
<1>12. CASE Load("head", "head_store", Inc(head))
  BY <1>f, <1>12 DEF Load, LoopInv, Go, Finish, Full, HasData, Inc, Saving, Reading,
     Handed, Reporting, buffer, local, usb, history
<1>13. CASE SaveHead
  BY <1>f, <1>13 DEF SaveHead, LoopInv, Go, Finish, Full, HasData, Inc, Saving,
     Reading, Handed, Reporting, buffer, local, usb, history
<1>14. CASE Peek
  BY <1>f, <1>14 DEF Peek, Oldest, LoopInv, Go, Finish, Full, HasData, Inc, Saving,
     Reading, Handed, Reporting, buffer, local, usb, history
<1>15. CASE ReadHalf(1, "read_first", "read_second")
  BY <1>f, <1>15 DEF ReadHalf, LoopInv, Go, Finish, Full, HasData, Inc, Saving,
     Reading, Handed, Reporting, buffer, local, usb, history
<1>16. CASE ReadHalf(2, "read_second", "send")
  BY <1>f, <1>16 DEF ReadHalf, LoopInv, Go, Finish, Full, HasData, Inc, Saving,
     Reading, Handed, Reporting, buffer, local, usb, history
<1>17. CASE SendFails
  BY <1>f, <1>17 DEF SendFails, LoopInv, Go, Finish, Full, HasData, Inc, Saving,
     Reading, Handed, Reporting, buffer, local, usb, history
<1>18. CASE SendWrite
  BY <1>f, <1>18 DEF SendWrite, LoopInv, Go, Finish, Full, HasData, Inc, Saving,
     Reading, Handed, Reporting, buffer, local, usb, history
<1>19. CASE SendArm
  BY <1>f, <1>19 DEF SendArm, LoopInv, Go, Finish, Full, HasData, Inc, Saving,
     Reading, Handed, Reporting, buffer, local, usb, history
<1>20. CASE SendBusy
  BY <1>f, <1>20 DEF SendBusy, LoopInv, Go, Finish, Full, HasData, Inc, Saving,
     Reading, Handed, Reporting, buffer, local, usb, history
<1>21. CASE Load("pop", "pop_store", IF HasData THEN Inc(tail) ELSE tail)
  BY <1>f, <1>21 DEF Load, LoopInv, Go, Finish, Full, HasData, Inc, Saving, Reading,
     Handed, Reporting, buffer, local, usb, history
<1>22. CASE PopStore
  BY <1>f, <1>22 DEF PopStore, LoopInv, Go, Finish, Full, HasData, Inc, Saving,
     Reading, Handed, Reporting, buffer, local, usb, history
<1>23. CASE Configured
  BY <1>f, <1>23 DEF Configured, LoopInv, Go, Finish, Full, HasData, Inc, Saving,
     Reading, Handed, Reporting, buffer, local, usb, history
<1>24. CASE InComplete
  BY <1>f, <1>24 DEF InComplete, LoopInv, Go, Finish, Full, HasData, Inc, Saving,
     Reading, Handed, Reporting, buffer, local, usb, history
<1>25. CASE UNCHANGED vars
  BY <1>f, <1>25 DEF vars, LoopInv, Go, Finish, Full, HasData, Inc, Saving, Reading,
     Handed, Reporting, buffer, local, usb, history
<1> QED
  BY <1>1, <1>2, <1>3, <1>4, <1>5, <1>6, <1>7, <1>8, <1>9, <1>10, <1>11, <1>12, <1>13,
     <1>14, <1>15, <1>16, <1>17, <1>18, <1>19, <1>20, <1>21, <1>22, <1>23, <1>24,
     <1>25 DEF Next, Save, Report

LEMMA EndpointStep ==
    ASSUME TypeOK, EndpointInv, [Next]_vars PROVE EndpointInv'
<1>1. CASE IsrSave
  BY <1>1 DEF IsrSave, EndpointInv, Go, Finish, MaySend, local, usb
<1>2. CASE SaveBegin
  BY <1>2 DEF SaveBegin, EndpointInv, Go, Finish, MaySend, local, usb
<1>3. CASE SaveCounter
  BY <1>3 DEF SaveCounter, EndpointInv, Go, Finish, MaySend, local, usb
<1>4. CASE SaveCheck
  BY <1>4 DEF SaveCheck, EndpointInv, Go, Finish, MaySend, local, usb
<1>5. CASE Load("count", "count_store", overflow_count + 1)
  BY <1>5 DEF Load, EndpointInv, Go, Finish, MaySend, local, usb
<1>6. CASE SaveCount
  BY <1>6 DEF SaveCount, EndpointInv, Go, Finish, MaySend, local, usb
<1>7. CASE Load("tail", "tail_store", Inc(tail))
  BY <1>7 DEF Load, EndpointInv, Go, Finish, MaySend, local, usb
<1>8. CASE SaveTail
  BY <1>8 DEF SaveTail, EndpointInv, Go, Finish, MaySend, local, usb
<1>9. CASE SaveAddress
  BY <1>9 DEF SaveAddress, EndpointInv, Go, Finish, MaySend, local, usb
<1>10. CASE SaveHalf(1, "first", "second")
  BY <1>10 DEF SaveHalf, EndpointInv, Go, Finish, MaySend, local, usb
<1>11. CASE SaveHalf(2, "second", "head")
  BY <1>11 DEF SaveHalf, EndpointInv, Go, Finish, MaySend, local, usb
<1>12. CASE Load("head", "head_store", Inc(head))
  BY <1>12 DEF Load, EndpointInv, Go, Finish, MaySend, local, usb
<1>13. CASE SaveHead
  BY <1>13 DEF SaveHead, EndpointInv, Go, Finish, MaySend, local, usb
<1>14. CASE Peek
  BY <1>14 DEF Peek, Oldest, EndpointInv, Go, Finish, MaySend, local, usb
<1>15. CASE ReadHalf(1, "read_first", "read_second")
  BY <1>15 DEF ReadHalf, EndpointInv, Go, Finish, MaySend, local, usb
<1>16. CASE ReadHalf(2, "read_second", "send")
  BY <1>16 DEF ReadHalf, EndpointInv, Go, Finish, MaySend, local, usb
<1>17. CASE SendFails
  BY <1>17 DEF SendFails, EndpointInv, Go, Finish, MaySend, local, usb
<1>18. CASE SendWrite
  BY <1>18 DEF SendWrite, EndpointInv, Go, Finish, MaySend, local, usb
<1>19. CASE SendArm
  BY <1>19 DEF SendArm, EndpointInv, Go, Finish, MaySend, local, usb
<1>20. CASE SendBusy
  BY <1>20 DEF SendBusy, EndpointInv, Go, Finish, MaySend, local, usb
<1>21. CASE Load("pop", "pop_store", IF HasData THEN Inc(tail) ELSE tail)
  BY <1>21 DEF Load, EndpointInv, Go, Finish, MaySend, local, usb
<1>22. CASE PopStore
  BY <1>22 DEF PopStore, EndpointInv, Go, Finish, MaySend, local, usb
<1>23. CASE Configured
  BY <1>23 DEF Configured, EndpointInv, Go, Finish, MaySend, local, usb
<1>24. CASE InComplete
  BY <1>24 DEF InComplete, EndpointInv, Go, Finish, MaySend, local, usb
<1>25. CASE UNCHANGED vars
  BY <1>25 DEF vars, EndpointInv, Go, Finish, MaySend, local, usb
<1> QED
  BY <1>1, <1>2, <1>3, <1>4, <1>5, <1>6, <1>7, <1>8, <1>9, <1>10, <1>11, <1>12, <1>13,
     <1>14, <1>15, <1>16, <1>17, <1>18, <1>19, <1>20, <1>21, <1>22, <1>23, <1>24,
     <1>25 DEF Next, Save, Report

LEMMA WholeStep ==
    ASSUME TypeOK, LoopInv, EndpointInv, WholeInv, [Next]_vars, ~disturbed' PROVE WholeInv'
<1>f. /\ head \in Slots /\ tail \in Slots /\ at \in Slots
      /\ \A i \in Slots : log[i] = <<log[i][1], log[i][2]>>
      /\ report = <<report[1], report[2]>> /\ ram = <<ram[1], ram[2]>>
      /\ log \in [Slots -> Counters \X Counters] /\ entry \in Counters
  BY StateFacts
<1>1. CASE IsrSave
  <2>1. pc \notin Saving /\ (pc \in Reporting => at = tail /\ head # tail)
    BY <1>1, Undisturbed DEF LoopInv, Reporting, Reading, Handed
  <2>2. /\ log'[head] = <<log_counter + 1, log_counter + 1>>
        /\ \A i \in Slots : i # head => log'[i] = log[i]
        /\ UNCHANGED <<pc, entry, at, report, ram, armed, host>>
    BY <1>f, <1>1 DEF IsrSave, local, usb
  <2> QED
    BY <1>f, <2>1, <2>2 DEF WholeInv, Saving, Reading, Handed, Reporting
<1>2. CASE SaveBegin
  BY <1>f, <1>2 DEF SaveBegin, WholeInv, LoopInv, EndpointInv, Go, Finish, MaySend,
     Saving, Reading, Handed, Reporting, buffer, local, usb, history
<1>3. CASE SaveCounter
  BY <1>f, <1>3 DEF SaveCounter, WholeInv, LoopInv, EndpointInv, Go, Finish, MaySend,
     Saving, Reading, Handed, Reporting, buffer, local, usb, history
<1>4. CASE SaveCheck
  BY <1>f, <1>4 DEF SaveCheck, WholeInv, LoopInv, EndpointInv, Go, Finish, MaySend,
     Saving, Reading, Handed, Reporting, buffer, local, usb, history
<1>5. CASE Load("count", "count_store", overflow_count + 1)
  BY <1>f, <1>5 DEF Load, WholeInv, LoopInv, EndpointInv, Go, Finish, MaySend, Saving,
     Reading, Handed, Reporting, buffer, local, usb, history
<1>6. CASE SaveCount
  BY <1>f, <1>6 DEF SaveCount, WholeInv, LoopInv, EndpointInv, Go, Finish, MaySend,
     Saving, Reading, Handed, Reporting, buffer, local, usb, history
<1>7. CASE Load("tail", "tail_store", Inc(tail))
  BY <1>f, <1>7 DEF Load, WholeInv, LoopInv, EndpointInv, Go, Finish, MaySend, Saving,
     Reading, Handed, Reporting, buffer, local, usb, history
<1>8. CASE SaveTail
  BY <1>f, <1>8 DEF SaveTail, WholeInv, LoopInv, EndpointInv, Go, Finish, MaySend,
     Saving, Reading, Handed, Reporting, buffer, local, usb, history
<1>9. CASE SaveAddress
  BY <1>f, <1>9 DEF SaveAddress, WholeInv, LoopInv, EndpointInv, Go, Finish, MaySend,
     Saving, Reading, Handed, Reporting, buffer, local, usb, history
<1>10. CASE SaveHalf(1, "first", "second")
  <2>1. /\ log'[at][1] = entry /\ log'[at][2] = log[at][2]
        /\ \A i \in Slots : i # at => log'[i] = log[i]
    BY <1>f, <1>10, HalfSaved, 3 - 1 = 2 DEF SaveHalf
  <2> QED
    BY <1>f, <1>10, <2>1 DEF SaveHalf, Go, WholeInv, LoopInv, Reporting, Reading, Handed,
       local, usb
<1>11. CASE SaveHalf(2, "second", "head")
  <2>1. /\ log'[at][2] = entry /\ log'[at][1] = log[at][1]
        /\ \A i \in Slots : i # at => log'[i] = log[i]
    BY <1>f, <1>11, HalfSaved, 3 - 2 = 1 DEF SaveHalf
  <2> QED
    BY <1>f, <1>11, <2>1 DEF SaveHalf, Go, WholeInv, LoopInv, Reporting, Reading, Handed,
       local, usb
<1>12. CASE Load("head", "head_store", Inc(head))
  BY <1>f, <1>12 DEF Load, WholeInv, LoopInv, EndpointInv, Go, Finish, MaySend,
     Saving, Reading, Handed, Reporting, buffer, local, usb, history
<1>13. CASE SaveHead
  BY <1>f, <1>13 DEF SaveHead, WholeInv, LoopInv, EndpointInv, Go, Finish, MaySend,
     Saving, Reading, Handed, Reporting, buffer, local, usb, history
<1>14. CASE Peek
  BY <1>f, <1>14 DEF Peek, Oldest, WholeInv, LoopInv, EndpointInv, Go, Finish,
     MaySend, Saving, Reading, Handed, Reporting, buffer, local, usb, history
<1>15. CASE ReadHalf(1, "read_first", "read_second")
  BY <1>f, <1>15 DEF ReadHalf, WholeInv, LoopInv, EndpointInv, Go, Finish, MaySend,
     Saving, Reading, Handed, Reporting, buffer, local, usb, history
<1>16. CASE ReadHalf(2, "read_second", "send")
  BY <1>f, <1>16 DEF ReadHalf, WholeInv, LoopInv, EndpointInv, Go, Finish, MaySend,
     Saving, Reading, Handed, Reporting, buffer, local, usb, history
<1>17. CASE SendFails
  BY <1>f, <1>17 DEF SendFails, WholeInv, LoopInv, EndpointInv, Go, Finish, MaySend,
     Saving, Reading, Handed, Reporting, buffer, local, usb, history
<1>18. CASE SendWrite
  BY <1>f, <1>18 DEF SendWrite, WholeInv, LoopInv, EndpointInv, Go, Finish, MaySend,
     Saving, Reading, Handed, Reporting, buffer, local, usb, history
<1>19. CASE SendArm
  BY <1>f, <1>19 DEF SendArm, WholeInv, LoopInv, EndpointInv, Go, Finish, MaySend,
     Saving, Reading, Handed, Reporting, buffer, local, usb, history
<1>20. CASE SendBusy
  BY <1>f, <1>20 DEF SendBusy, WholeInv, LoopInv, EndpointInv, Go, Finish, MaySend,
     Saving, Reading, Handed, Reporting, buffer, local, usb, history
<1>21. CASE Load("pop", "pop_store", IF HasData THEN Inc(tail) ELSE tail)
  BY <1>f, <1>21 DEF Load, WholeInv, LoopInv, EndpointInv, Go, Finish, MaySend,
     Saving, Reading, Handed, Reporting, buffer, local, usb, history
<1>22. CASE PopStore
  BY <1>f, <1>22 DEF PopStore, WholeInv, LoopInv, EndpointInv, Go, Finish, MaySend,
     Saving, Reading, Handed, Reporting, buffer, local, usb, history
<1>23. CASE Configured
  BY <1>f, <1>23 DEF Configured, WholeInv, LoopInv, EndpointInv, Go, Finish, MaySend,
     Saving, Reading, Handed, Reporting, buffer, local, usb, history
<1>24. CASE InComplete
  BY <1>f, <1>24 DEF InComplete, WholeInv, LoopInv, EndpointInv, Go, Finish, MaySend,
     Saving, Reading, Handed, Reporting, buffer, local, usb, history
<1>25. CASE UNCHANGED vars
  BY <1>f, <1>25 DEF vars, WholeInv, LoopInv, EndpointInv, Go, Finish, MaySend,
     Saving, Reading, Handed, Reporting, buffer, local, usb, history
<1> QED
  BY <1>1, <1>2, <1>3, <1>4, <1>5, <1>6, <1>7, <1>8, <1>9, <1>10, <1>11, <1>12, <1>13,
     <1>14, <1>15, <1>16, <1>17, <1>18, <1>19, <1>20, <1>21, <1>22, <1>23, <1>24,
     <1>25 DEF Next, Save, Report

LEMMA OrderStep ==
    ASSUME TypeOK, LoopInv, EndpointInv, WholeInv, OrderInv, [Next]_vars, ~disturbed'
    PROVE  OrderInv'
<1>f. /\ head \in Slots /\ tail \in Slots /\ at \in Slots
      /\ log_counter \in Nat
      /\ \A i \in Slots : log[i] = <<log[i][1], log[i][2]>> /\ log[i][1] \in Nat
      /\ report = <<report[1], report[2]>> /\ ram = <<ram[1], ram[2]>>
      /\ report[1] \in Nat /\ ram[1] \in Nat /\ host[1] \in Nat
      /\ Inc(tail) # tail
      /\ log \in [Slots -> Counters \X Counters] /\ entry \in Counters
  BY StateFacts
<1>g. \A i \in Slots : Pos(i) \in Nat
  <2>1. tail \in Slots
    BY <1>f
  <2> QED
    BY <2>1, SizeAssumption DEF SizeAssumption, Pos, Slots
<1>c. Count \in Nat
  BY StateFacts
<1>l. Last \in Nat /\ Last <= log_counter
  BY <1>f DEF Last, OrderInv
<1>s. sent \subseteq Nat
  BY DEF TypeOK, Counters
<1>h. ~InRing(head)
  BY <1>f, SizeAssumption DEF SizeAssumption, InRing, Pos, Count, Slots
<1>1. CASE IsrSave
  <2>1. /\ pc \notin Saving /\ (pc \in Reporting => at = tail /\ head # tail)
        /\ UNCHANGED <<pc, at, armed, ram, host, sent>>
    BY <1>1, Undisturbed DEF IsrSave, local, usb, LoopInv, Reporting, Reading, Handed
  <2>2. /\ tail' = IF Full THEN Inc(tail) ELSE tail
        /\ \A i \in Slots :
              InRing(i)' => i = head \/ (InRing(i) /\ (Full => i # tail))
        /\ \A i \in Slots : i = head => Pos(i)' = Count' - 1
        /\ \A i \in Slots : InRing(i)' /\ i # head =>
              Pos(i)' = IF Full THEN Pos(i) - 1 ELSE Pos(i)
        /\ \A i \in Slots : InRing(i)' => Pos(i)' < Count' /\ Pos(i)' \in Nat
        /\ Count' \in Nat
    BY <1>f, <1>1, <1>c, Pushed DEF IsrSave, InRing
  <2>3. /\ log_counter' = log_counter + 1
        /\ log'[head][1] = log_counter + 1
        /\ \A i \in Slots : i # head => log'[i] = log[i]
    BY <1>f, <1>1 DEF IsrSave
  <2>4. Last' = Last
    BY <2>1 DEF Last
  <2>5. \A i, j \in Slots :
          InRing(i)' /\ InRing(j)' /\ Pos(i)' < Pos(j)' => log'[i][1] < log'[j][1]
    <3> SUFFICES ASSUME NEW i \in Slots, NEW j \in Slots, InRing(i)', InRing(j)',
                        Pos(i)' < Pos(j)'
                 PROVE  log'[i][1] < log'[j][1]
      OBVIOUS
    <3>1. i # head
      BY <2>2, <1>f
    <3>2. CASE j = head
      BY <3>1, <3>2, <2>3, <1>f DEF OrderInv
    <3>3. CASE j # head
      <4>1. InRing(i) /\ InRing(j) /\ Pos(i) < Pos(j)
        BY <3>1, <3>3, <2>2, <1>g
      <4> QED
        BY <3>1, <3>3, <4>1, <2>3 DEF OrderInv
    <3> QED
      BY <3>2, <3>3
  <2>6. \A i \in Slots : log'[i][1] <= log_counter'
    BY <1>f, <2>3 DEF OrderInv
  <2>7. ASSUME NEW i \in Slots, InRing(i)', i # head
        PROVE  InRing(i) /\ log'[i][1] = log[i][1]
    BY <2>2, <2>3, <2>7
  <2>8. pc \in Reporting => at # head /\ log'[at] = log[at]
    BY <2>1, <2>3, <1>f
  <2>9. Last < log'[head][1] /\ log[at][1] < log'[head][1]
    BY <1>f, <1>l, <2>3 DEF OrderInv
  <2>10. \A i \in Slots : InRing(i)' /\ ~(pc \in Handed /\ i = at) => log'[i][1] > Last
    BY <2>7, <2>9 DEF OrderInv
  <2>11. pc \in Reading => \A i \in Slots : InRing(i)' /\ i # at => log'[i][1] > log[at][1]
    BY <2>7, <2>9 DEF OrderInv
  <2>12. Last <= log_counter'
    BY <1>l, <1>f, <2>3
  <2> QED
    BY <2>1, <2>4, <2>5, <2>6, <2>8, <2>10, <2>11, <2>12 DEF OrderInv, Reporting
<1>2. CASE SaveBegin
  BY <1>f, <1>g, <1>c, <1>2 DEF SaveBegin, OrderInv, LoopInv, EndpointInv, Go, Finish,
     Last, Pos, InRing, Count, MaySend, HasData, Saving, Reading, Handed, Reporting,
     buffer, local, usb, history
<1>3. CASE SaveCounter
  <2>1. log_counter' = log_counter + 1
    BY <1>3 DEF SaveCounter, Go, LoopInv
  <2>2. /\ \A i \in Slots : (InRing(i)' <=> InRing(i)) /\ Pos(i)' = Pos(i)
        /\ Last' = Last
    BY <1>3 DEF SaveCounter, InRing, Pos, Count, Last, buffer, usb
  <2>3. \A i \in Slots : log[i][1] < log_counter + 1
    BY <1>f DEF OrderInv
  <2> QED
    BY <1>3, <1>f, <1>l, <2>1, <2>2, <2>3 DEF SaveCounter, Go, OrderInv, Saving, Reading, Handed,
       buffer, local, usb
<1>4. CASE SaveCheck
  BY <1>f, <1>g, <1>c, <1>4 DEF SaveCheck, OrderInv, LoopInv, EndpointInv, Go, Finish,
     Last, Pos, InRing, Count, MaySend, HasData, Saving, Reading, Handed, Reporting,
     buffer, local, usb, history
<1>5. CASE Load("count", "count_store", overflow_count + 1)
  BY <1>f, <1>g, <1>c, <1>5 DEF Load, OrderInv, LoopInv, EndpointInv, Go, Finish,
     Last, Pos, InRing, Count, MaySend, HasData, Saving, Reading, Handed, Reporting,
     buffer, local, usb, history
<1>6. CASE SaveCount
  BY <1>f, <1>g, <1>c, <1>6 DEF SaveCount, OrderInv, LoopInv, EndpointInv, Go, Finish,
     Last, Pos, InRing, Count, MaySend, HasData, Saving, Reading, Handed, Reporting,
     buffer, local, usb, history
<1>7. CASE Load("tail", "tail_store", Inc(tail))
  BY <1>f, <1>g, <1>c, <1>7 DEF Load, OrderInv, LoopInv, EndpointInv, Go, Finish,
     Last, Pos, InRing, Count, MaySend, HasData, Saving, Reading, Handed, Reporting,
     buffer, local, usb, history
<1>8. CASE SaveTail
  <2>1. head # tail /\ head' = head /\ tail' = Inc(tail)
    BY <1>f, <1>8, StateFacts DEF SaveTail, Go, LoopInv, Full
  <2>2. /\ \A i \in Slots : InRing(i)' => InRing(i)
        /\ \A i, j \in Slots : InRing(i)' /\ InRing(j)' /\ Pos(i)' < Pos(j)' => Pos(i) < Pos(j)
    BY <1>f, <1>g, <2>1, Popped
  <2> QED
    BY <1>8, <2>2 DEF SaveTail, Go, OrderInv, Last, Saving, Reading, Handed, local, usb
<1>9. CASE SaveAddress
  BY <1>f, <1>g, <1>c, <1>9 DEF SaveAddress, OrderInv, LoopInv, EndpointInv, Go,
     Finish, Last, Pos, InRing, Count, MaySend, HasData, Saving, Reading, Handed,
     Reporting, buffer, local, usb, history
<1>10. CASE SaveHalf(1, "first", "second")
  <2>1. /\ pc \in {"first", "second"} /\ pc' \in {"second", "head"} /\ at = head
        /\ UNCHANGED <<head, tail, at, log_counter, armed, ram, host, sent>>
    BY <1>10 DEF SaveHalf, Go, LoopInv, local, usb
  <2>2. \A i \in Slots : i # head => log'[i] = log[i]
    BY <1>f, <1>10, <2>1, HalfSaved DEF SaveHalf
  <2>3. log'[head][1] \in {log[head][1], entry} /\ entry = log_counter
    BY <1>f, <1>10, <2>1, HalfSaved, 3 - 1 = 2, 3 - 2 = 1 DEF SaveHalf, LoopInv, Saving
  <2>4. \A i \in Slots : (InRing(i)' <=> InRing(i)) /\ Pos(i)' = Pos(i)
    BY <2>1 DEF InRing, Pos, Count
  <2> QED
    BY <1>f, <1>h, <2>1, <2>2, <2>3, <2>4 DEF OrderInv, Last, Saving, Reading, Handed
<1>11. CASE SaveHalf(2, "second", "head")
  <2>1. /\ pc \in {"first", "second"} /\ pc' \in {"second", "head"} /\ at = head
        /\ UNCHANGED <<head, tail, at, log_counter, armed, ram, host, sent>>
    BY <1>11 DEF SaveHalf, Go, LoopInv, local, usb
  <2>2. \A i \in Slots : i # head => log'[i] = log[i]
    BY <1>f, <1>11, <2>1, HalfSaved DEF SaveHalf
  <2>3. log'[head][1] \in {log[head][1], entry} /\ entry = log_counter
    BY <1>f, <1>11, <2>1, HalfSaved, 3 - 1 = 2, 3 - 2 = 1 DEF SaveHalf, LoopInv, Saving
  <2>4. \A i \in Slots : (InRing(i)' <=> InRing(i)) /\ Pos(i)' = Pos(i)
    BY <2>1 DEF InRing, Pos, Count
  <2> QED
    BY <1>f, <1>h, <2>1, <2>2, <2>3, <2>4 DEF OrderInv, Last, Saving, Reading, Handed
<1>12. CASE Load("head", "head_store", Inc(head))
  BY <1>f, <1>g, <1>c, <1>12 DEF Load, OrderInv, LoopInv, EndpointInv, Go, Finish,
     Last, Pos, InRing, Count, MaySend, HasData, Saving, Reading, Handed, Reporting,
     buffer, local, usb, history
<1>13. CASE SaveHead
  <2>1. /\ \A i \in Slots : InRing(i)' => i = head \/ InRing(i)
        /\ \A i \in Slots : i = head => Pos(i)' = Count' - 1
        /\ \A i \in Slots : InRing(i)' /\ i # head => Pos(i)' = Pos(i)
        /\ \A i \in Slots : InRing(i)' => Pos(i)' < Count' /\ Pos(i)' \in Nat
        /\ Count' \in Nat
    BY <1>f, <1>13, <1>c, Pushed DEF SaveHead, Finish, Go, LoopInv, InRing
  <2>2. /\ log[head][1] = log_counter /\ pc = "head_store" /\ pc' = "idle"
        /\ UNCHANGED <<log, log_counter, at, armed, ram, host, sent>>
    BY <1>13 DEF SaveHead, Finish, Go, WholeInv, LoopInv, Saving, local, usb
  <2>3. \A i \in Slots : InRing(i) => log[i][1] < log_counter /\ log[i][1] > Last
    BY <2>2 DEF OrderInv, Saving, Handed
  <2>4. Last < log_counter
    BY <2>2 DEF OrderInv, Saving
  <2>5. \A i, j \in Slots :
          InRing(i)' /\ InRing(j)' /\ Pos(i)' < Pos(j)' => log[i][1] < log[j][1]
    <3> SUFFICES ASSUME NEW i \in Slots, NEW j \in Slots, InRing(i)', InRing(j)',
                        Pos(i)' < Pos(j)'
                 PROVE  log[i][1] < log[j][1]
      OBVIOUS
    <3>1. i # head /\ InRing(i)
      BY <2>1, <1>f
    <3>2. CASE j = head
      BY <3>1, <3>2, <2>2, <2>3
    <3>3. CASE j # head
      BY <3>1, <3>3, <2>1 DEF OrderInv
    <3> QED
      BY <3>2, <3>3
  <2>6. \A i \in Slots : InRing(i)' => log[i][1] > Last
    BY <2>1, <2>2, <2>3, <2>4
  <2>7. Last' = Last
    BY <2>2 DEF Last
  <2>8. \A i \in Slots : log[i][1] <= log_counter
    BY DEF OrderInv
  <2>9. Last <= log_counter /\ (\A c \in sent : c <= Last) /\ (armed => ram[1] > host[1])
    BY DEF OrderInv
  <2>10. \A i, j \in Slots :
           InRing(i)' /\ InRing(j)' /\ Pos(i)' < Pos(j)' => log'[i][1] < log'[j][1]
    BY <2>2, <2>5
  <2>11. \A i \in Slots : InRing(i)' => log'[i][1] > Last'
    BY <2>2, <2>6, <2>7
  <2>12. /\ \A i \in Slots : log'[i][1] <= log_counter'
         /\ Last' <= log_counter' /\ (\A c \in sent' : c <= Last')
         /\ armed' => ram'[1] > host'[1]
    BY <2>2, <2>7, <2>8, <2>9
  <2>13. pc' \notin Saving /\ pc' \notin Reading /\ pc' \notin Handed
    BY <2>2 DEF Saving, Reading, Handed
  <2> QED
    BY <2>10, <2>11, <2>12, <2>13 DEF OrderInv
<1>14. CASE Peek
  <2>1. at' = tail /\ pc = "idle" /\ pc' = "read_first"
        /\ UNCHANGED <<log, head, tail, log_counter, armed, ram, host, sent>>
    BY <1>14 DEF Peek, Go, Oldest, buffer, usb
  <2>2. InRing(tail) /\ \A i \in Slots : i # tail => Pos(tail) < Pos(i)
    <3>1. head \in Slots /\ tail \in Slots /\ head # tail
      BY <1>f, <1>14 DEF Peek, HasData
    <3> QED
      BY <3>1, SizeAssumption DEF SizeAssumption, InRing, Pos, Count, Slots
  <2>3. \A i \in Slots : (InRing(i)' <=> InRing(i)) /\ Pos(i)' = Pos(i)
    BY <2>1 DEF InRing, Pos, Count
  <2> QED
    BY <1>f, <2>1, <2>2, <2>3 DEF OrderInv, Last, Saving, Reading, Handed
<1>15. CASE ReadHalf(1, "read_first", "read_second")
  BY <1>f, <1>g, <1>c, <1>15 DEF ReadHalf, OrderInv, LoopInv, EndpointInv, Go, Finish,
     Last, Pos, InRing, Count, MaySend, HasData, Saving, Reading, Handed, Reporting,
     buffer, local, usb, history
<1>16. CASE ReadHalf(2, "read_second", "send")
  BY <1>f, <1>g, <1>c, <1>16 DEF ReadHalf, OrderInv, LoopInv, EndpointInv, Go, Finish,
     Last, Pos, InRing, Count, MaySend, HasData, Saving, Reading, Handed, Reporting,
     buffer, local, usb, history
<1>17. CASE SendFails
  BY <1>f, <1>g, <1>c, <1>17 DEF SendFails, OrderInv, LoopInv, EndpointInv, Go,
     Finish, Last, Pos, InRing, Count, MaySend, HasData, Saving, Reading, Handed,
     Reporting, buffer, local, usb, history
<1>18. CASE SendWrite
  BY <1>f, <1>g, <1>c, <1>18 DEF SendWrite, OrderInv, LoopInv, EndpointInv, Go,
     Finish, Last, Pos, InRing, Count, MaySend, HasData, Saving, Reading, Handed,
     Reporting, buffer, local, usb, history
<1>19. CASE SendArm
  <2>1. /\ pc = "arm" /\ pc' = "busy" /\ UNCHANGED <<buffer, log_counter, at, host>>
        /\ armed' /\ ram'[1] = ram[1] /\ sent' = sent \union {report[1]} /\ ~armed
    BY <1>19, <1>f DEF SendArm, Go, EndpointInv, local
  <2>2. ram[1] = log[at][1] /\ report[1] = log[at][1]
    BY <2>1 DEF WholeInv, Reporting, Reading
  <2>3. Last' = log[at][1] /\ log[at][1] > Last /\ Last = host[1]
    BY <2>1, <2>2 DEF Last, OrderInv, Reading
  <2>4. \A i \in Slots : (InRing(i)' <=> InRing(i)) /\ Pos(i)' = Pos(i)
    BY <2>1 DEF InRing, Pos, Count, buffer
  <2>5. \A i \in Slots : InRing(i) /\ i # at => log[i][1] > log[at][1]
    BY <2>1 DEF OrderInv, Reading
  <2>6. \A c \in sent' : c <= log[at][1]
    BY <1>f, <1>l, <1>s, <2>1, <2>2, <2>3 DEF OrderInv
  <2> QED
    BY <1>f, <2>1, <2>2, <2>3, <2>4, <2>5, <2>6
       DEF OrderInv, Saving, Reading, Handed, buffer
<1>20. CASE SendBusy
  BY <1>f, <1>g, <1>c, <1>20 DEF SendBusy, OrderInv, LoopInv, EndpointInv, Go, Finish,
     Last, Pos, InRing, Count, MaySend, HasData, Saving, Reading, Handed, Reporting,
     buffer, local, usb, history
<1>21. CASE Load("pop", "pop_store", IF HasData THEN Inc(tail) ELSE tail)
  BY <1>f, <1>g, <1>c, <1>21 DEF Load, OrderInv, LoopInv, EndpointInv, Go, Finish,
     Last, Pos, InRing, Count, MaySend, HasData, Saving, Reading, Handed, Reporting,
     buffer, local, usb, history
<1>22. CASE PopStore
  <2>1. /\ UNCHANGED <<log, log_counter, at, armed, ram, host, sent>>
        /\ pc = "pop_store" /\ pc' = "idle" /\ head' = head /\ tail' = next
    BY <1>22 DEF PopStore, Finish, Go, local, usb
  <2>2. /\ \A i \in Slots : InRing(i)' => InRing(i) /\ log[i][1] > Last
        /\ \A i, j \in Slots : InRing(i)' /\ InRing(j)' /\ Pos(i)' < Pos(j)' => Pos(i) < Pos(j)
    <3>1. CASE next = tail
      <4>1. at = head
        BY <1>f, <2>1, <3>1 DEF LoopInv, Reporting, Handed
      <4> QED
        BY <1>h, <2>1, <3>1, <4>1 DEF InRing, Pos, Count, OrderInv
    <3>2. CASE next # tail
      <4>1. tail' = Inc(tail) /\ head # tail /\ (at = tail \/ at = head)
        BY <2>1, <3>2 DEF LoopInv, Reporting, Handed
      <4> QED
        BY <1>f, <1>g, <1>h, <2>1, <4>1, Popped DEF OrderInv
    <3> QED
      BY <3>1, <3>2
  <2> QED
    BY <2>1, <2>2 DEF OrderInv, Last, Saving, Reading, Handed
<1>23. CASE Configured
  BY <1>f, <1>g, <1>c, <1>23 DEF Configured, OrderInv, LoopInv, EndpointInv, Go,
     Finish, Last, Pos, InRing, Count, MaySend, HasData, Saving, Reading, Handed,
     Reporting, buffer, local, usb, history
<1>24. CASE InComplete
  BY <1>f, <1>g, <1>c, <1>24 DEF InComplete, OrderInv, LoopInv, EndpointInv, Go,
     Finish, Last, Pos, InRing, Count, MaySend, HasData, Saving, Reading, Handed,
     Reporting, buffer, local, usb, history
<1>25. CASE UNCHANGED vars
  BY <1>f, <1>g, <1>c, <1>25 DEF vars, OrderInv, LoopInv, EndpointInv, Go, Finish,
     Last, Pos, InRing, Count, MaySend, HasData, Saving, Reading, Handed, Reporting,
     buffer, local, usb, history
<1> QED
  BY <1>1, <1>2, <1>3, <1>4, <1>5, <1>6, <1>7, <1>8, <1>9, <1>10, <1>11, <1>12, <1>13,
     <1>14, <1>15, <1>16, <1>17, <1>18, <1>19, <1>20, <1>21, <1>22, <1>23, <1>24,
     <1>25 DEF Next, Save, Report

(* A set that takes in at most one more element has at most one more.      *)
LEMMA OneMore ==
    ASSUME NEW S, IsFiniteSet(S), NEW T, NEW x, T \subseteq S \union {x}
    PROVE  /\ Cardinality(S) \in Nat /\ Cardinality(T) \in Nat
           /\ Cardinality(T) <= Cardinality(S) + 1
           /\ T \subseteq S => Cardinality(T) <= Cardinality(S)
           /\ T \subseteq S /\ x \in S /\ x \notin T => Cardinality(T) < Cardinality(S)
<1>1. /\ IsFiniteSet(S \union {x})
      /\ Cardinality(S \union {x}) = IF x \in S THEN Cardinality(S) ELSE Cardinality(S) + 1
  BY FS_AddElement
<1>2. IsFiniteSet(T) /\ Cardinality(T) <= Cardinality(S \union {x})
  BY <1>1, FS_Subset
<1>3. Cardinality(S) \in Nat /\ Cardinality(T) \in Nat
  BY <1>2, FS_CardinalityType
<1>4. T \subseteq S =>
        Cardinality(T) <= Cardinality(S) /\ (Cardinality(S) = Cardinality(T) => S = T)
  BY FS_Subset
<1> QED
  BY <1>1, <1>2, <1>3, <1>4

LEMMA GoneIsFinite ==
    ASSUME TypeOK PROVE IsFiniteSet(Gone)
<1>1. log_counter \in Int
  BY StateFacts
<1>2. IsFiniteSet(1..log_counter)
  BY <1>1, FS_Interval
<1>3. Gone \subseteq 1..log_counter
  BY DEF Gone, Vanished
<1> QED
  BY <1>2, <1>3, FS_Subset

LEMMA LossStep ==
    ASSUME TypeOK, LoopInv, EndpointInv, WholeInv, OrderInv, LossInv, [Next]_vars,
           ~disturbed'
    PROVE  LossInv'
<1>f. /\ head \in Slots /\ tail \in Slots /\ at \in Slots
      /\ log_counter \in Nat /\ overflow_count \in Nat
      /\ log \in [Slots -> Counters \X Counters]
      /\ \A i \in Slots : log[i][1] \in Nat
      /\ Inc(tail) # tail
  BY StateFacts
<1>h. ~InRing(head)
  BY <1>f, SizeAssumption DEF SizeAssumption, InRing, Pos, Count, Slots
<1>e. UNCHANGED <<log, head, tail, log_counter, sent>> => Vanished' = Vanished
  BY DEF Vanished, InRing, Pos, Count
<1>n. Cardinality(Gone) \in Nat
  BY GoneIsFinite, OneMore
<1>o. Gone' \subseteq Gone => Cardinality(Gone') \in Nat /\ Cardinality(Gone') <= Cardinality(Gone)
  BY GoneIsFinite, OneMore
<1>m. Gone' \subseteq Gone \union {log[tail][1]} =>
         Cardinality(Gone') \in Nat /\ Cardinality(Gone') <= Cardinality(Gone) + 1
  BY GoneIsFinite, OneMore
<1>1. CASE IsrSave
  <2>1. /\ pc \notin Saving /\ (pc \in Reporting => at = tail)
        /\ UNCHANGED <<pc, at, sent>>
    BY <1>1, Undisturbed DEF IsrSave, local, usb, LoopInv, Reporting, Reading, Handed
  <2>2. /\ tail' = IF Full THEN Inc(tail) ELSE tail
        /\ \A i \in Slots : InRing(i) /\ ~(Full /\ i = tail) => InRing(i)'
        /\ \A i \in Slots : i = head => InRing(i)'
    BY <1>f, <1>1, Pushed, PushKeeps DEF IsrSave
  <2>3. /\ log_counter' = log_counter + 1
        /\ log'[head][1] = log_counter + 1
        /\ \A i \in Slots : i # head => log'[i] = log[i]
        /\ overflow_count' = IF Full THEN overflow_count + 1 ELSE overflow_count
    BY <1>f, <1>1 DEF IsrSave, Overflow
  <2>4. ASSUME NEW c \in Vanished', c \notin Vanished PROVE Full /\ c = log[tail][1]
    <3> c \in 1..log_counter' /\ c \notin sent
        /\ \A i \in Slots : InRing(i)' => log'[i][1] # c
      BY <2>1, <2>4 DEF Vanished
    <3>1. c \in 1..log_counter /\ c \notin sent
      BY <1>f, <2>2, <2>3
    <3>2. PICK i \in Slots : InRing(i) /\ log[i][1] = c
      BY <2>4, <3>1 DEF Vanished
    <3>3. ~InRing(i)'
      BY <1>h, <2>3, <2>4, <3>2 DEF Vanished
    <3> QED
      BY <2>2, <3>2, <3>3
  <2>5. Gone' = Vanished' /\ Gone = Vanished
    BY <2>1 DEF Gone
  <2>6. CASE ~Full
    <3>1. Gone' \subseteq Gone
      BY <2>4, <2>5, <2>6
    <3> QED
      BY <1>f, <1>n, <1>o, <2>1, <2>2, <2>3, <2>6, <3>1 DEF LossInv, Saving, Reporting, Handed
  <2>7. CASE Full /\ pc \in Handed
    <3>1. log[tail][1] \in sent'
      BY <2>1, <2>7 DEF OrderInv, Reporting
    <3>2. Gone' \subseteq Gone
      BY <2>4, <2>5, <3>1 DEF Vanished
    <3> QED
      BY <1>f, <1>n, <1>o, <2>1, <2>3, <2>7, <3>2 DEF LossInv, Saving, Reporting, Handed
  <2>8. CASE Full /\ pc \notin Handed
    <3>1. Gone' \subseteq Gone \union {log[tail][1]}
      BY <2>4, <2>5
    <3> QED
      BY <1>f, <1>n, <1>m, <2>1, <2>3, <2>8, <3>1 DEF LossInv, Saving
  <2> QED
    BY <2>6, <2>7, <2>8
<1>2. CASE SaveBegin
  BY <1>f, <1>e, <1>n, <1>o, <1>2 DEF SaveBegin, LossInv, LoopInv, Gone, Go, Finish,
     Saving, Reading, Handed, Reporting, buffer, local, usb, history
<1>3. CASE SaveCounter
  <2>1. /\ pc = "counter" /\ pc' = "check" /\ log_counter' = log_counter + 1
        /\ entry' = log_counter + 1
        /\ UNCHANGED <<log, head, tail, sent, overflow_count>>
    BY <1>3 DEF SaveCounter, Go, LoopInv, buffer, local, usb
  <2>2. Vanished' \subseteq Vanished \union {log_counter + 1}
    BY <1>f, <2>1 DEF Vanished, InRing, Pos, Count
  <2>3. Gone' \subseteq Gone
    BY <2>1, <2>2 DEF Gone, Saving
  <2> QED
    BY <1>f, <1>n, <1>o, <2>1, <2>3 DEF LossInv, Handed
<1>4. CASE SaveCheck
  BY <1>f, <1>e, <1>n, <1>o, <1>4 DEF SaveCheck, LossInv, LoopInv, Gone, Go, Finish,
     Saving, Reading, Handed, Reporting, buffer, local, usb, history
<1>5. CASE Load("count", "count_store", overflow_count + 1)
  BY <1>f, <1>e, <1>n, <1>o, <1>5 DEF Load, LossInv, LoopInv, Gone, Go, Finish,
     Saving, Reading, Handed, Reporting, buffer, local, usb, history
<1>6. CASE SaveCount
  BY <1>f, <1>e, <1>n, <1>o, <1>6 DEF SaveCount, LossInv, LoopInv, Gone, Go, Finish,
     Saving, Reading, Handed, Reporting, buffer, local, usb, history
<1>7. CASE Load("tail", "tail_store", Inc(tail))
  BY <1>f, <1>e, <1>n, <1>o, <1>7 DEF Load, LossInv, LoopInv, Gone, Go, Finish,
     Saving, Reading, Handed, Reporting, buffer, local, usb, history
<1>8. CASE SaveTail
  <2>1. /\ pc = "tail_store" /\ pc' = "address" /\ head # tail
        /\ head' = head /\ tail' = Inc(tail)
        /\ UNCHANGED <<log, log_counter, sent, overflow_count, entry>>
    BY <1>f, <1>8, StateFacts DEF SaveTail, Go, LoopInv, Full, local, usb
  <2>2. Gone' \subseteq Gone \union {log[tail][1]}
    BY <1>f, <2>1, PopKeeps DEF Gone, Saving, Vanished
  <2> QED
    BY <1>f, <1>n, <1>m, <2>1, <2>2 DEF LossInv, Handed
<1>9. CASE SaveAddress
  BY <1>f, <1>e, <1>n, <1>o, <1>9 DEF SaveAddress, LossInv, LoopInv, Gone, Go, Finish,
     Saving, Reading, Handed, Reporting, buffer, local, usb, history
<1>10. CASE SaveHalf(1, "first", "second")
  <2>1. /\ pc \in {"first", "second"} /\ pc' \in {"second", "head"} /\ at = head
        /\ UNCHANGED <<head, tail, log_counter, sent, overflow_count, entry>>
    BY <1>10 DEF SaveHalf, Go, LoopInv, local, usb
  <2>2. \A i \in Slots : i # head => log'[i] = log[i]
    BY <1>f, <1>10, <2>1, HalfSaved DEF SaveHalf, TypeOK
  <2>3. Vanished' = Vanished
    BY <1>h, <2>1, <2>2 DEF Vanished, InRing, Pos, Count
  <2> QED
    BY <1>f, <1>n, <1>o, <2>1, <2>3 DEF LossInv, Gone, Saving, Handed
<1>11. CASE SaveHalf(2, "second", "head")
  <2>1. /\ pc \in {"first", "second"} /\ pc' \in {"second", "head"} /\ at = head
        /\ UNCHANGED <<head, tail, log_counter, sent, overflow_count, entry>>
    BY <1>11 DEF SaveHalf, Go, LoopInv, local, usb
  <2>2. \A i \in Slots : i # head => log'[i] = log[i]
    BY <1>f, <1>11, <2>1, HalfSaved DEF SaveHalf, TypeOK
  <2>3. Vanished' = Vanished
    BY <1>h, <2>1, <2>2 DEF Vanished, InRing, Pos, Count
  <2> QED
    BY <1>f, <1>n, <1>o, <2>1, <2>3 DEF LossInv, Gone, Saving, Handed
<1>12. CASE Load("head", "head_store", Inc(head))
  BY <1>f, <1>e, <1>n, <1>o, <1>12 DEF Load, LossInv, LoopInv, Gone, Go, Finish,
     Saving, Reading, Handed, Reporting, buffer, local, usb, history
<1>13. CASE SaveHead
  <2>1. /\ pc = "head_store" /\ pc' = "idle" /\ head' = Inc(head) /\ ~Full
        /\ log[head][1] = entry
        /\ UNCHANGED <<log, tail, log_counter, sent, overflow_count>>
    BY <1>13 DEF SaveHead, Finish, Go, LoopInv, WholeInv, local, usb
  <2>2. (\A i \in Slots : i = head => InRing(i)') /\ \A i \in Slots : InRing(i) => InRing(i)'
    BY <1>f, <2>1, PushKeeps
  <2>3. ASSUME NEW c \in Vanished' PROVE c \in Vanished /\ c # entry
    <3>1. c \in 1..log_counter /\ c \notin sent
          /\ \A i \in Slots : InRing(i)' => log[i][1] # c
      BY <2>1, <2>3 DEF Vanished
    <3> QED
      BY <1>f, <2>1, <2>2, <3>1 DEF Vanished
  <2>4. Gone' \subseteq Gone
    BY <2>1, <2>3 DEF Gone, Saving
  <2> QED
    BY <1>f, <1>n, <1>o, <2>1, <2>4 DEF LossInv, Handed
<1>14. CASE Peek
  BY <1>f, <1>e, <1>n, <1>o, <1>14 DEF Peek, Oldest, LossInv, LoopInv, Gone, Go,
     Finish, Saving, Reading, Handed, Reporting, buffer, local, usb, history
<1>15. CASE ReadHalf(1, "read_first", "read_second")
  BY <1>f, <1>e, <1>n, <1>o, <1>15 DEF ReadHalf, LossInv, LoopInv, Gone, Go, Finish,
     Saving, Reading, Handed, Reporting, buffer, local, usb, history
<1>16. CASE ReadHalf(2, "read_second", "send")
  BY <1>f, <1>e, <1>n, <1>o, <1>16 DEF ReadHalf, LossInv, LoopInv, Gone, Go, Finish,
     Saving, Reading, Handed, Reporting, buffer, local, usb, history
<1>17. CASE SendFails
  BY <1>f, <1>e, <1>n, <1>o, <1>17 DEF SendFails, LossInv, LoopInv, Gone, Go, Finish,
     Saving, Reading, Handed, Reporting, buffer, local, usb, history
<1>18. CASE SendWrite
  BY <1>f, <1>e, <1>n, <1>o, <1>18 DEF SendWrite, LossInv, LoopInv, Gone, Go, Finish,
     Saving, Reading, Handed, Reporting, buffer, local, usb, history
<1>19. CASE SendArm
  <2>1. /\ pc = "arm" /\ pc' = "busy" /\ ~armed
        /\ UNCHANGED <<log, head, tail, log_counter, overflow_count, at>>
        /\ sent' = sent \union {log[at][1]}
    BY <1>19 DEF SendArm, Go, EndpointInv, WholeInv, Reporting, Reading, buffer, local
  <2>2. Vanished' = Vanished \ {log[at][1]}
    BY <2>1 DEF Vanished, InRing, Pos, Count
  <2>3. Gone' = Vanished' /\ Gone = Vanished
    BY <2>1 DEF Gone, Saving
  <2>4. CASE at = tail
    BY <1>f, <1>n, <1>o, <2>1, <2>2, <2>3, <2>4 DEF LossInv, Handed
  <2>5. CASE at # tail
    <3>1. at = head /\ Last \in Nat /\ log[at][1] > Last /\ log[at][1] <= log_counter
      BY <1>f, <2>1, <2>5, StateFacts DEF LoopInv, Reporting, Reading, OrderInv, Last
    <3>2. log[at][1] \notin sent
      BY <1>f, <3>1 DEF OrderInv
    <3>3. \A i \in Slots : InRing(i) => log[i][1] # log[at][1]
      BY <1>f, <1>h, <2>1, <3>1 DEF OrderInv, Reading
    <3>4. log[at][1] \in Vanished
      BY <1>f, <3>1, <3>2, <3>3 DEF Vanished
    <3>5. Cardinality(Gone') \in Nat /\ Cardinality(Gone') < Cardinality(Gone)
      BY <2>2, <2>3, <3>4, GoneIsFinite, OneMore
    <3> QED
      BY <1>f, <1>n, <2>1, <3>5 DEF LossInv
  <2> QED
    BY <2>4, <2>5
<1>20. CASE SendBusy
  BY <1>f, <1>e, <1>n, <1>o, <1>20 DEF SendBusy, LossInv, LoopInv, Gone, Go, Finish,
     Saving, Reading, Handed, Reporting, buffer, local, usb, history
<1>21. CASE Load("pop", "pop_store", IF HasData THEN Inc(tail) ELSE tail)
  BY <1>f, <1>e, <1>n, <1>o, <1>21 DEF Load, LossInv, LoopInv, Gone, Go, Finish,
     Saving, Reading, Handed, Reporting, buffer, local, usb, history
<1>22. CASE PopStore
  <2>1. /\ pc = "pop_store" /\ pc' = "idle" /\ head' = head /\ tail' = next
        /\ UNCHANGED <<log, log_counter, sent, overflow_count, at>>
    BY <1>22 DEF PopStore, Finish, Go, local, usb
  <2>2. Gone' = Vanished' /\ Gone = Vanished
    BY <2>1 DEF Gone, Saving
  <2>3. CASE next = tail
    BY <1>e, <1>f, <1>n, <1>o, <2>1, <2>2, <2>3 DEF LossInv, Handed
  <2>4. CASE next # tail
    <3>1. tail' = Inc(tail) /\ head # tail
      BY <2>1, <2>4 DEF LoopInv, Reporting, Handed
    <3>2. Vanished' \subseteq Vanished \union {log[tail][1]}
      BY <1>f, <2>1, <3>1, PopKeeps DEF Vanished
    <3>3. CASE at = tail
      <4>1. log[tail][1] \in sent'
        BY <2>1, <3>3 DEF OrderInv, Handed
      <4>2. Gone' \subseteq Gone
        BY <2>2, <3>2, <4>1 DEF Vanished
      <4> QED
        BY <1>f, <1>n, <1>o, <2>1, <4>2 DEF LossInv, Handed
    <3>4. CASE at # tail
      BY <1>f, <1>n, <1>m, <2>1, <2>2, <3>2, <3>4 DEF LossInv, Handed
    <3> QED
      BY <3>3, <3>4
  <2> QED
    BY <2>3, <2>4
<1>23. CASE Configured
  BY <1>f, <1>e, <1>n, <1>o, <1>23 DEF Configured, LossInv, LoopInv, Gone, Go, Finish,
     Saving, Reading, Handed, Reporting, buffer, local, usb, history
<1>24. CASE InComplete
  BY <1>f, <1>e, <1>n, <1>o, <1>24 DEF InComplete, LossInv, LoopInv, Gone, Go, Finish,
     Saving, Reading, Handed, Reporting, buffer, local, usb, history
<1>25. CASE UNCHANGED vars
  BY <1>f, <1>e, <1>n, <1>o, <1>25 DEF vars, LossInv, LoopInv, Gone, Go, Finish,
     Saving, Reading, Handed, Reporting, buffer, local, usb, history
<1> QED
  BY <1>1, <1>2, <1>3, <1>4, <1>5, <1>6, <1>7, <1>8, <1>9, <1>10, <1>11, <1>12, <1>13,
     <1>14, <1>15, <1>16, <1>17, <1>18, <1>19, <1>20, <1>21, <1>22, <1>23, <1>24,
     <1>25 DEF Next, Save, Report

-----------------------------------------------------------------------------
LEMMA InitLogInv ==
    ASSUME Init PROVE LogInv
<1>1. Size \in Nat /\ Size >= 2 /\ MaxCount \in Nat
  BY SizeAssumption DEF SizeAssumption
<1>2. 0 \in Slots /\ 0 \in Counters /\ log \in [Slots -> Counters \X Counters]
  BY <1>1 DEF Init, Slots, Counters
<1>3. TypeOK
  BY <1>2 DEF Init, TypeOK
<1>4. \A i \in Slots : log[i][1] = 0 /\ log[i][2] = 0
  BY DEF Init
<1>5. Count = 0 /\ \A i \in Slots : ~InRing(i)
  BY <1>1 DEF Init, Count, InRing, Pos, Slots
<1>6. LoopInv /\ EndpointInv
  BY <1>1 DEF Init, LoopInv, EndpointInv, Saving, Reading, Handed, Reporting
<1>7. WholeInv
  BY <1>4 DEF Init, WholeInv, Reading, Handed, Reporting
<1>8. OrderInv
  BY <1>4, <1>5 DEF Init, OrderInv, Last, Saving, Reading, Handed
<1>9. LossInv
  <2>1. Gone = {}
    BY DEF Init, Gone, Vanished, Saving
  <2>2. Cardinality(Gone) = 0
    BY <2>1, FS_EmptySet
  <2> QED
    BY <2>2 DEF Init, LossInv, Handed
<1> QED
  BY <1>3, <1>6, <1>7, <1>8, <1>9 DEF LogInv, CleanInv

LEMMA LogInvStep ==
    ASSUME LogInv, [Next]_vars PROVE LogInv'
<1>1. TypeOK'
  BY TypeStep DEF LogInv
<1>2. CASE disturbed'
  BY <1>1, <1>2 DEF LogInv
<1>3. CASE ~disturbed'
  <2>1. TypeOK /\ LoopInv /\ EndpointInv /\ WholeInv /\ OrderInv /\ LossInv
    BY <1>3, Undisturbed DEF LogInv, CleanInv
  <2>2. LoopInv' /\ EndpointInv'
    BY <1>3, <2>1, LoopStep, EndpointStep
  <2>3. WholeInv' /\ OrderInv' /\ LossInv'
    BY <1>3, <2>1, WholeStep, OrderStep, LossStep
  <2> QED
    BY <1>1, <2>2, <2>3 DEF LogInv, CleanInv
<1> QED
  BY <1>2, <1>3

LEMMA LogInvHolds == Spec => []LogInv
<1>1. Init => LogInv
  BY InitLogInv
<1>2. LogInv /\ [Next]_vars => LogInv'
  BY LogInvStep
<1> QED
  BY <1>1, <1>2, PTL DEF Spec

(* A report the host reads is one entry, never halves of two, until the    *)
(* log is disturbed: the slot peeked at (log_buf_peek) may be dropped by   *)
(* the interrupt, but it is not written again before the report is made,   *)
(* and the endpoint's memory is not written while the host may read it     *)
(* (custom_state, hid.c 336).                                              *)
THEOREM ReportsAreWhole == Spec => []ReportWhole
<1>1. LogInv => ReportWhole
  BY DEF LogInv, CleanInv, WholeInv, ReportWhole
<1> QED
  BY <1>1, LogInvHolds, PTL

(* Between two operations of the loop no more entries saved by log_save_*  *)
(* are neither sent nor in the ring than overflow_count says, until the    *)
(* log is disturbed, although the pop of the loop and an overflow in the   *)
(* interrupt both move the tail (log_buf_push, log_buf_pop).               *)
THEOREM LossesAreCounted == Spec => []LossesCounted
<1>1. LogInv => LossesCounted
  BY DEF LogInv, CleanInv, LossInv, Gone, Saving, LossesCounted
<1> QED
  BY <1>1, LogInvHolds, PTL

(* The host reads the entries in the order of log_counter and none twice,  *)
(* until the log is disturbed (log_process_next).                          *)
THEOREM ReadInOrder == Spec => SentInOrder
<1>1. LogInv /\ [Next]_vars => [armed /\ ~armed' /\ ~disturbed => host'[1] > host[1]]_vars
  <2> SUFFICES ASSUME LogInv, Next, armed, ~armed', ~disturbed PROVE host'[1] > host[1]
    BY DEF vars
  <2>1. InComplete
    BY DEF Next, Save, Report, IsrSave, SaveBegin, SaveCounter, SaveCheck, Load, SaveCount,
       SaveTail, SaveAddress, SaveHalf, SaveHead, Peek, ReadHalf, SendFails, SendWrite,
       SendArm, SendBusy, PopStore, Configured, usb
  <2> QED
    BY <2>1 DEF InComplete, LogInv, CleanInv, OrderInv
<1> QED
  BY <1>1, LogInvHolds, PTL DEF Spec, SentInOrder
=============================================================================
