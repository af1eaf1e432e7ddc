----------------------------- MODULE LogRing -----------------------------
(***************************************************************************)
(* The log of src/src/log/logger.c: a ring that overwrites its oldest      *)
(* entry when full, and the way of a report through hid_send_report of     *)
(* src/src/usb/hid.c to the host.  The PD interrupt saves the frames it    *)
(* receives and sends, the main loop saves system events and, once per     *)
(* pass, reports the oldest entry; the USB interrupt says when the host    *)
(* has read a report.  Interrupts may come between any two steps of the    *)
(* main loop: a condition, a load, a store and half of a copy are a step.  *)
(* An entry is its counter twice, so that a torn one shows.                *)
(***************************************************************************)
EXTENDS Integers, FiniteSets

CONSTANTS
    Size,           \* LOG_BUFFER_SIZE: 16 in the code
    MaxCount        \* bound on the entries saved

ASSUME SizeAssumption ==
    /\ Size \in Nat /\ Size >= 2
    /\ MaxCount \in Nat

VARIABLES
    log, head, tail, overflow_count,    \* log_buffer
    log_counter,
    pc,             \* where the main loop stands
    entry,          \* the counter of the entry it is saving
    at, report,     \* the slot it copies to or from and the report it makes
    next,           \* the value it has loaded, incremented and not yet stored
    custom_state,   \* "IDLE" or "BUSY"
    configured,     \* the host has configured the device: ep_enable
    ram, armed,     \* the endpoint's memory, and whether the host may read it
    host,           \* what the host has read last
    sent,           \* history: the entries handed to the endpoint
    interrupted,    \* history: an entry was saved since the loop left "idle"
    disturbed,      \* history: two were in one report, or one in another's save
    early           \* history: a report was over before BUSY was stored

buffer  == <<log, head, tail, overflow_count>>
local   == <<entry, at, report, next>>
usb     == <<custom_state, configured, ram, armed, host, sent, early>>
history == <<interrupted, disturbed>>
vars    == <<buffer, log_counter, pc, local, usb, history>>

Slots    == 0..(Size - 1)
Counters == 0..MaxCount

Saving    == {"counter", "check", "count", "count_store", "tail", "tail_store",
              "address", "first", "second", "head", "head_store"}
Reading   == {"read_first", "read_second", "send", "arm"}
Handed    == {"busy", "pop", "pop_store"}
Reporting == Reading \union Handed

-----------------------------------------------------------------------------
Inc(x)     == (x + 1) % Size
Full       == Inc(head) = tail
HasData    == head # tail
Count      == IF head >= tail THEN head - tail ELSE Size - tail + head

(* A slot's place in the ring, counted from the oldest entry. *)
Pos(i)     == IF i >= tail THEN i - tail ELSE Size - tail + i
InRing(i)  == Pos(i) < Count

Init ==
    /\ log = [i \in Slots |-> <<0, 0>>]
    /\ head = 0 /\ tail = 0 /\ overflow_count = 0
    /\ log_counter = 0
    /\ pc = "idle"
    /\ entry = 0 /\ at = 0 /\ report = <<0, 0>> /\ next = 0
    /\ custom_state = "IDLE"
    /\ configured = FALSE
    /\ ram = <<0, 0>> /\ armed = FALSE /\ host = <<0, 0>>
    /\ sent = {}
    /\ interrupted = FALSE /\ disturbed = FALSE /\ early = FALSE

(* log_save_usb_pd_rx and log_save_usb_pd_tx in the interrupt: one step    *)
(* for the loop.                                                           *)
Uncounted == UNCHANGED overflow_count                            \* mutant
Overflow  == overflow_count' = IF Full THEN overflow_count + 1 ELSE overflow_count

IsrSave ==
    /\ log_counter < MaxCount
    /\ log_counter' = log_counter + 1
    /\ Overflow
    /\ tail' = IF Full THEN Inc(tail) ELSE tail
    /\ log' = [log EXCEPT ![head] = <<log_counter', log_counter'>>]
    /\ head' = Inc(head)
    /\ interrupted' = (pc # "idle")
    /\ disturbed' = (disturbed \/ pc \in Saving \/ (pc \in Reporting /\ interrupted))
    /\ UNCHANGED <<pc, local, usb>>

-----------------------------------------------------------------------------
(* The main loop goes from one step to the next. *)
Go(from, to) == pc = from /\ pc' = to
Finish(from) == Go(from, "idle") /\ interrupted' = FALSE /\ UNCHANGED disturbed

(* It loads a variable and increments what it has loaded. *)
Load(from, to, value) ==
    /\ Go(from, to)
    /\ next' = value
    /\ UNCHANGED <<buffer, log_counter, entry, at, report, usb, history>>

(* log_save_sys: ++log_counter, then log_buf_push. *)
SaveBegin ==
    /\ Go("idle", "counter")
    /\ log_counter < MaxCount
    /\ entry' = log_counter + 1
    /\ UNCHANGED <<buffer, log_counter, at, report, next, usb, history>>

SaveCounter ==
    /\ Go("counter", "check")
    /\ log_counter' = entry
    /\ UNCHANGED <<buffer, local, usb, history>>

SaveCheck ==
    /\ Go("check", IF Full THEN "count" ELSE "address")
    /\ UNCHANGED <<buffer, log_counter, local, usb, history>>

SaveCount ==
    /\ Go("count_store", "tail")
    /\ overflow_count' = next
    /\ UNCHANGED <<log, head, tail, log_counter, local, usb, history>>

SaveTail ==
    /\ Go("tail_store", "address")
    /\ tail' = next
    /\ UNCHANGED <<log, head, overflow_count, log_counter, local, usb, history>>

SaveAddress ==
    /\ Go("address", "first")
    /\ at' = head
    /\ UNCHANGED <<buffer, log_counter, entry, report, next, usb, history>>

SaveHalf(half, from, to) ==
    /\ Go(from, to)
    /\ log' = [log EXCEPT ![at][half] = entry]
    /\ UNCHANGED <<head, tail, overflow_count, log_counter, local, usb, history>>

SaveHead ==
    /\ Finish("head_store")
    /\ head' = next
    /\ UNCHANGED <<log, tail, overflow_count, log_counter, local, usb>>

-----------------------------------------------------------------------------
(* log_process_next: peek, format the report, send it, pop. *)
PeekNewest == (head + Size - 1) % Size                           \* mutant
Oldest     == tail

Peek ==
    /\ Go("idle", "read_first")
    /\ HasData
    /\ at' = Oldest
    /\ UNCHANGED <<buffer, log_counter, entry, report, next, usb, history>>

ReadHalf(half, from, to) ==
    /\ Go(from, to)
    /\ report' = [report EXCEPT ![half] = log[at][half]]
    /\ UNCHANGED <<buffer, log_counter, entry, at, next, usb, history>>

(* hid_send_report: the endpoint is still busy or not enabled, and the     *)
(* entry stays; or the report is written to the endpoint's memory, the     *)
(* host may read it, and the state is set.                                 *)
AnyState == TRUE                                                \* mutant
MaySend  == custom_state = "IDLE"

DropReport ==                                                   \* mutant
    /\ Go("send", "pop")
    /\ ~(MaySend /\ configured)
    /\ UNCHANGED <<buffer, log_counter, local, usb, history>>
SendFails ==
    /\ Finish("send")
    /\ ~(MaySend /\ configured)
    /\ UNCHANGED <<buffer, log_counter, local, usb>>

SendWrite ==
    /\ Go("send", "arm")
    /\ MaySend /\ configured
    /\ ram' = [ram EXCEPT ![1] = report[1]]
    /\ UNCHANGED <<buffer, log_counter, local, custom_state, configured, armed, host,
                   sent, early, history>>

SendArm ==
    /\ Go("arm", "busy")
    /\ ram' = [ram EXCEPT ![2] = report[2]]
    /\ armed' = TRUE
    /\ sent' = sent \union {report[1]}
    /\ UNCHANGED <<buffer, log_counter, local, custom_state, configured, host, early,
                   history>>

SendBusy ==
    /\ Go("busy", "pop")
    /\ custom_state' = "BUSY"
    /\ UNCHANGED <<buffer, log_counter, local, configured, ram, armed, host, sent, early,
                   history>>

(* log_buf_pop: the tail that was loaded is stored.                        *)
PopStore ==
    /\ Finish("pop_store")
    /\ tail' = next
    /\ UNCHANGED <<log, head, overflow_count, log_counter, local, usb>>

-----------------------------------------------------------------------------
(* The USB interrupt: the host has configured the device, once in a run;   *)
(* it has read a report, perhaps before the loop has stored BUSY, if other *)
(* interrupts have kept it from that.                                      *)
Configured ==
    /\ ~configured
    /\ configured' = TRUE
    /\ custom_state' = "IDLE"
    /\ UNCHANGED <<buffer, log_counter, pc, local, ram, armed, host, sent, early, history>>

InComplete ==
    /\ armed
    /\ host' = ram
    /\ armed' = FALSE
    /\ custom_state' = "IDLE"
    /\ early' = (early \/ pc = "busy")
    /\ UNCHANGED <<buffer, log_counter, pc, local, configured, ram, sent, history>>

-----------------------------------------------------------------------------
Save == \/ SaveCounter
        \/ SaveCheck
        \/ Load("count", "count_store", overflow_count + 1) \/ SaveCount
        \/ Load("tail", "tail_store", Inc(tail)) \/ SaveTail
        \/ SaveAddress
        \/ SaveHalf(1, "first", "second") \/ SaveHalf(2, "second", "head")
        \/ Load("head", "head_store", Inc(head)) \/ SaveHead

Report == \/ Peek
          \/ ReadHalf(1, "read_first", "read_second")
          \/ ReadHalf(2, "read_second", "send")
          \/ SendFails \/ SendWrite \/ SendArm \/ SendBusy
          \/ Load("pop", "pop_store", IF HasData THEN Inc(tail) ELSE tail)
          \/ PopStore

Next == IsrSave \/ SaveBegin \/ Save \/ Report \/ Configured \/ InComplete

Spec == Init /\ [][Next]_vars

(* The loop goes round, and the host polls the endpoint.                   *)
FairSpec == Spec /\ WF_vars(Save \/ Report) /\ WF_vars(InComplete)

-----------------------------------------------------------------------------
TypeOK ==
    /\ log \in [Slots -> Counters \X Counters]
    /\ head \in Slots /\ tail \in Slots /\ overflow_count \in Nat
    /\ log_counter \in Counters
    /\ pc \in {"idle"} \union Saving \union Reporting
    /\ entry \in Counters /\ at \in Slots /\ report \in Counters \X Counters
    /\ next \in Nat /\ (pc \in {"tail_store", "head_store", "pop_store"} => next \in Slots)
    /\ custom_state \in {"IDLE", "BUSY"}
    /\ configured \in BOOLEAN
    /\ ram \in Counters \X Counters /\ armed \in BOOLEAN /\ host \in Counters \X Counters
    /\ sent \subseteq Counters
    /\ interrupted \in BOOLEAN /\ disturbed \in BOOLEAN /\ early \in BOOLEAN

(* Until the interrupt disturbs a save of the loop, or saves twice within  *)
(* one report, what the host reads is one entry, although the interrupt    *)
(* may overwrite the oldest entry while the loop formats it (lines 49-62   *)
(* and 207-244) and the host may poll while the loop writes the endpoint   *)
(* (hid.c 336).                                                            *)
ReportWhole == ~disturbed => host[1] = host[2]

(* Until then the host reads the entries in the order they were saved,     *)
(* none twice, even when an overflow moves the tail under the pop (lines   *)
(* 66-76).                                                                 *)
SentInOrder == [][armed /\ ~armed' /\ ~disturbed => host'[1] > host[1]]_vars

(* Until then no more entries have vanished, neither sent nor still in the *)
(* ring, than overflow_count says.  Which ones it does not say: an entry   *)
(* that is overwritten while it is being sent is counted, and the pop then *)
(* takes out its successor instead (lines 73 and 266-269).                 *)
Vanished == { c \in 1..log_counter :
                 c \notin sent /\ \A i \in Slots : InRing(i) => log[i][1] # c }

LossesCounted == pc = "idle" /\ ~disturbed => Cardinality(Vanished) <= overflow_count

(* Lines 50-55: a save into a full ring costs it its oldest entry, and no  *)
(* other, so that no save leaves the ring empty.                           *)
NeverEmptied == [][head' # head => HasData']_vars

(* Once it has configured the device the host gets everything there is to  *)
(* read, up to the newest entry, and a report that was refused is sent     *)
(* again (lines 262-273), unless the log was disturbed, or a report was    *)
(* over before BUSY was stored (hid.c 349), which then stays for ever.     *)
HostCatchesUp == configured ~> host[1] = log_counter \/ disturbed \/ early
=============================================================================
