------------------------------- MODULE GpioStore -------------------------------
(***************************************************************************)
(* The message store for a host that sleeps (PS/at/at_wiota_gpio_report.c).*)
(* A received message goes into a ring, the oldest making room, and a      *)
(* pulse on a pin tells the host, which asks for the messages with         *)
(* AT+STOREDATA.  Ring, pin and timer have no lock: the thread that        *)
(* receives and the AT server may interrupt each other, depending on their *)
(* priorities, and either may interrupt the timer thread.                  *)
(***************************************************************************)
EXTENDS Integers, Sequences, FiniteSets

CONSTANTS
    Size,               \* WIOTA_DATA_NUM
    Pins,               \* pins that may carry the pulse
    StaticPin,          \* the one that static memory holds at start
    Widths,             \* the widths that AT+PULSEWIDTH is given
    MaxMessages,        \* bound: messages received
    MaxCommands         \* bound: AT+MODE and AT+PULSEWIDTH commands

ASSUME StoreAssumption ==
    /\ {Size, MaxMessages, MaxCommands} \subseteq Nat /\ Size > 0
    /\ StaticPin \in Pins /\ Widths \subseteq Nat

VARIABLES
    interrupts, \* whether the two threads interrupt each other
    slots,      \* wiota_save_data: a message, or none
    index,      \* wiota_save_index
    mode,       \* wiota_gpio_mode: "uart" or "gpio"
    arriving,   \* the message wiota_data_insert has not stored yet, or none
    report,     \* where wiota_gpio_report_state is, "idle" when nowhere
    next, max,  \* the slot wiota_data_show looks at, and where it ends,
                \* both counted past the end of the ring
    at,         \* where the AT server is in its command
    shown,      \* history: the messages printed
    received,   \* history: how many messages have been received
    pin,        \* uc_wiota_get_store_pin
    timer,      \* wiota_gpio_timer: "null", "idle" or "active"
    callback,   \* "due": the timer has run off, wiota_gpio_timer_cb is to come
    high,       \* the pins that are high
    over,       \* the pin has gone low and the host has not asked since
    astray,     \* history: AT+PULSEWIDTH has come between a pulse and its end
    announced,  \* history: a message since the last showing found the pin
                \* high or raises it; "taken" when that came to nothing
    commands    \* history: AT+MODE and AT+PULSEWIDTH commands

ring == <<slots, index>>
reader == <<next, max, at>>
pulse == <<pin, timer, callback, high>>
history == <<shown, received, commands>>
host == <<over, astray, announced>>
settings == <<interrupts, mode>>
vars == <<settings, ring, arriving, report, reader, pulse, host, history>>

Slots == 0 .. Size - 1

\* Messages are numbered in the order they are received.
Messages == 1 .. MaxMessages
none == 0

TypeOK ==
    /\ interrupts \in {"yes", "no"}
    /\ slots \in [Slots -> Messages \cup {none}]
    /\ index \in -1 .. Size - 1
    /\ mode \in {"uart", "gpio"}
    /\ arriving \in Messages \cup {none}
    /\ next \in 0 .. max /\ max \in 0 .. 2 * Size
    /\ report \in {"idle", "null", "state", "raise", "start"}
    /\ at \in {"idle", "print", "clear", "create", "stop", "delete"}
    /\ shown \in Seq(Messages)
    /\ received \in 0 .. MaxMessages
    /\ pin \in Pins /\ high \subseteq Pins
    /\ timer \in {"null", "idle", "active"} /\ callback \in {"none", "due"}
    /\ {over, astray} \subseteq {"yes", "no"}
    /\ announced \in {"yes", "no", "taken"}
    /\ commands \in 0 .. MaxCommands

\* The store is switched on by AT+MODE; at start the mode is "uart", and the
\* timer is null when the pin or the width in static memory is out of range.
Init ==
    /\ interrupts \in {"yes", "no"}
    /\ slots = [s \in Slots |-> none] /\ index = -1
    /\ mode = "uart"
    /\ arriving = none /\ report = "idle"
    /\ next = 0 /\ max = 0 /\ at = "idle"
    /\ shown = <<>> /\ received = 0
    /\ pin = StaticPin /\ timer \in {"null", "idle"} /\ callback = "none" /\ high = {}
    /\ over = "no" /\ astray = "no" /\ announced = "no"
    /\ commands = 0

-----------------------------------------------------------------------------
(* The timer thread.  The soft timer runs once: it is no longer active     *)
(* before wiota_gpio_timer_cb lowers the pin, and whoever has the higher   *)
(* priority may run in between.                                            *)

TimerExpires ==
    /\ timer = "active" /\ callback = "none"
    /\ timer' = "idle"
    /\ callback' = "due"
    /\ UNCHANGED <<ring, settings, arriving, report, reader, pin, high, host, history>>

\* The host sees the pin go low, if it was high.
PulseOver ==
    /\ callback = "due"
    /\ callback' = "none"
    /\ high' = high \ {pin}
    /\ over' = IF pin \in high THEN "yes" ELSE over
    /\ UNCHANGED <<ring, settings, arriving, report, reader, pin, timer, astray, announced,
                   history>>

-----------------------------------------------------------------------------
(* The thread that receives.                                               *)

WriterRuns == at = "idle" \/ interrupts = "yes"

Receive ==
    /\ WriterRuns /\ arriving = none /\ report = "idle"
    /\ received < MaxMessages
    /\ received' = received + 1

ShowAtOnce ==
    /\ Receive
    /\ mode = "uart"
    /\ shown' = Append(shown, received')
    /\ UNCHANGED <<ring, settings, arriving, report, reader, pulse, host, commands>>

(* Mutant of Following: the test of the end compares the old index.        *)
FollowingLate(i) == IF i >= Size THEN 0 ELSE i + 1

Following(i) == IF i + 1 >= Size THEN 0 ELSE i + 1

BeginInsert ==
    /\ Receive
    /\ mode = "gpio"
    /\ arriving' = received'
    /\ index' = Following(index)
    /\ UNCHANGED <<slots, settings, report, reader, pulse, host, shown, commands>>

\* Frees what the slot holds, copies the message.  wiota_data_show may have
\* set index to -1 meanwhile, and -1 % 5 is -1: the code then frees and
\* overwrites what lies in front of the array.  That is not followed.
StoreMessage ==
    /\ WriterRuns /\ arriving # none
    /\ index \in Slots
    /\ slots' = [slots EXCEPT ![index] = arriving]
    /\ arriving' = none
    /\ report' = "null"
    /\ UNCHANGED <<index, settings, reader, pulse, host, history>>

\* wiota_gpio_report_state reads wiota_gpio_timer anew each time.
Reports(place) == WriterRuns /\ report = place

\* The timer that is found may be the one AT+PULSEWIDTH is about to delete.
FindTimer ==
    /\ Reports("null")
    /\ report' = IF timer = "null" THEN "idle" ELSE "state"
    /\ astray' = IF timer # "null" /\ at \in {"stop", "delete"} THEN "yes" ELSE astray
    /\ UNCHANGED <<ring, settings, arriving, reader, pulse, over, announced, history>>

(* Mutant of FindState: only the first message of the ring is announced.   *)
FindFirst ==
    /\ Reports("state") /\ timer # "null"
    /\ report' = IF timer = "idle" /\ index = 0 THEN "raise" ELSE "idle"
    /\ announced' = IF timer = "idle" \/ pin \in high THEN "yes" ELSE announced
    /\ UNCHANGED <<ring, settings, arriving, reader, pulse, over, astray, history>>

\* A deleted timer fails an assertion, and the thread stays there.
FindState ==
    /\ Reports("state") /\ timer # "null"
    /\ report' = IF timer = "idle" THEN "raise" ELSE "idle"
    /\ announced' = IF timer = "idle" \/ pin \in high THEN "yes" ELSE announced
    /\ UNCHANGED <<ring, settings, arriving, reader, pulse, over, astray, history>>

RaisePin ==
    /\ Reports("raise")
    /\ report' = "start"
    /\ high' = high \cup {pin}
    /\ UNCHANGED <<ring, settings, arriving, reader, pin, timer, callback, host, history>>

StartTimer ==
    /\ Reports("start") /\ timer # "null"
    /\ report' = "idle"
    /\ timer' = "active"
    /\ UNCHANGED <<ring, settings, arriving, reader, pin, callback, high, host, history>>

(* Mutant of Report: the timer is started first, and the pin raised after. *)
ReportSwapped ==
    \/ FindTimer \/ FindState
    \/ /\ Reports("raise") /\ timer # "null"
       /\ report' = "start"
       /\ timer' = "active"
       /\ UNCHANGED <<ring, settings, arriving, reader, pin, callback, high, host, history>>
    \/ /\ Reports("start")
       /\ report' = "idle"
       /\ high' = high \cup {pin}
       /\ UNCHANGED <<ring, settings, arriving, reader, pin, timer, callback, host, history>>

Report == FindTimer \/ FindState \/ RaisePin \/ StartTimer

-----------------------------------------------------------------------------
(* The AT server.                                                          *)

AtRuns == (arriving = none /\ report = "idle") \/ interrupts = "yes"

(* Mutant of Oldest: the newest message first.                            *)
FromNewest == index % Size

\* wiota_save_index + 1, or 0 when that is past the end.
Oldest == (index + 1) % Size

\* Returns at once when nothing has been stored.
BeginShow ==
    /\ AtRuns /\ at = "idle"
    /\ over' = "no"
    /\ IF index = -1
       THEN UNCHANGED reader
       ELSE at' = "print" /\ next' = Oldest /\ max' = Oldest + Size
    /\ UNCHANGED <<ring, settings, arriving, report, pulse, astray, announced, history>>

Looked == slots[next % Size]

\* at_send_data copies the message to the UART, which takes long.
PrintMessage ==
    /\ AtRuns /\ at = "print"
    /\ at' = "clear"
    /\ shown' = IF Looked # none THEN Append(shown, Looked) ELSE shown
    /\ UNCHANGED <<ring, settings, arriving, report, next, max, pulse, host, received,
                   commands>>

Last == next + 1 >= max

(* Mutant of ClearSlot: the pointer to the freed message stays.            *)
KeepSlot ==
    /\ AtRuns /\ at = "clear"
    /\ UNCHANGED slots

\* Frees what the slot holds by now.
ClearSlot ==
    /\ AtRuns /\ at = "clear"
    /\ slots' = [slots EXCEPT ![next % Size] = none]

ShowNext ==
    /\ ClearSlot
    /\ ~Last
    /\ at' = "print"
    /\ next' = next + 1
    /\ UNCHANGED <<index, max, settings, arriving, report, pulse, host, history>>

EndShow ==
    /\ ClearSlot
    /\ Last
    /\ at' = "idle" /\ next' = 0 /\ max' = 0
    /\ index' = -1
    /\ announced' = "no"
    /\ UNCHANGED <<settings, arriving, report, pulse, over, astray, history>>

Command ==
    /\ AtRuns /\ at = "idle"
    /\ commands < MaxCommands
    /\ commands' = commands + 1

SetMode(m) ==
    /\ Command
    /\ mode' = m
    /\ UNCHANGED <<interrupts, ring, arriving, report, reader, pulse, host, shown, received>>

Pulsing == timer = "active" \/ callback = "due" \/ report # "idle"

\* A width of 0 deletes the timer; the pin is left as it is.
PulseSetup(p, width) ==
    /\ Command
    /\ pin' = p
    /\ at' = IF width = 0 THEN "stop" ELSE "create"
    /\ IF width = 0 \/ p # pin
       THEN /\ astray' = IF Pulsing THEN "yes" ELSE astray
            /\ announced' = IF announced = "yes" /\ over = "no" THEN "taken" ELSE announced
       ELSE UNCHANGED <<astray, announced>>
    /\ UNCHANGED <<ring, settings, arriving, report, next, max, timer, callback, high, over,
                   shown, received>>

SetupStep == UNCHANGED <<ring, settings, arriving, report, next, max, pin, callback, high,
                         host, history>>

\* There may be no memory for a timer.
CreateTimer ==
    /\ AtRuns /\ at = "create"
    /\ timer' \in IF timer = "null" THEN {"null", "idle"} ELSE {timer}
    /\ at' = "idle"
    /\ SetupStep

StopTimer ==
    /\ AtRuns /\ at = "stop"
    /\ timer' = IF timer = "active" THEN "idle" ELSE timer
    /\ at' = IF timer = "null" THEN "idle" ELSE "delete"
    /\ SetupStep

\* A callback that is due comes all the same.  Between the deletion and the
\* assignment of NULL the deleted timer fails the assertion as NULL does.
DeleteTimer ==
    /\ AtRuns /\ at = "delete"
    /\ timer' = "null"
    /\ at' = "idle"
    /\ SetupStep

-----------------------------------------------------------------------------
Writer == ShowAtOnce \/ BeginInsert \/ StoreMessage \/ Report

Showing == PrintMessage \/ ShowNext \/ EndShow

Setup == CreateTimer \/ StopTimer \/ DeleteTimer

AtServer ==
    \/ BeginShow \/ Showing \/ Setup
    \/ \E m \in {"uart", "gpio"} : SetMode(m)
    \/ \E p \in Pins, width \in Widths : PulseSetup(p, width)

Next == TimerExpires \/ PulseOver \/ Writer \/ AtServer

Spec == Init /\ [][Next]_vars

\* The timer runs off, the threads go on, and a host that has seen the pin go
\* low asks; it may also ask at any other time.
FairSpec ==
    /\ Spec
    /\ WF_vars(TimerExpires)
    /\ WF_vars(PulseOver)
    /\ WF_vars(StoreMessage)
    /\ WF_vars(Report)
    /\ WF_vars(Setup)
    /\ WF_vars(over = "yes" /\ BeginShow)
    /\ WF_vars(Showing)

-----------------------------------------------------------------------------
(* Properties.                                                             *)

(* The messages in the ring that have not been printed, oldest first: the  *)
(* last one is in the slot of index, or in the one before it while another *)
(* message arrives there.                                                  *)
Newest == IF arriving = none THEN index ELSE index - 1

Waiting(s) == slots[s] # none /\ ~(at = "clear" /\ s = next % Size)

Log ==
    LET count == Cardinality({s \in Slots : Waiting(s)})
    IN  [k \in 1 .. count |-> slots[(Newest + k - count) % Size]]

Uninterrupted(value) == IF interrupts = "no" THEN value ELSE <<>>

Stored ==
    INSTANCE MessageLog
    WITH log <- Uninterrupted(Log), shown <- Uninterrupted(shown)

(* Without interruptions the ring is a log of the last Size messages: the  *)
(* host gets them in the order they came, whatever wraps around, is        *)
(* overwritten, or is read in between (wiota_data_insert, wiota_data_show).*)
RingIsLog == Stored!Spec

(* However insertion and printing interrupt each other, a message is not   *)
(* printed twice: the slot that was printed is cleared or holds another.   *)
NotTwice ==
    [][\A k \in 1 .. Len(shown) : shown' = shown \/ shown'[Len(shown')] # shown[k]]_shown

(* Only the pin of now is high, and somebody is there to lower it: the     *)
(* running timer, the callback that is due, or the thread that is about to *)
(* start the timer (wiota_gpio_report_state, wiota_gpio_timer_cb).  This   *)
(* holds whatever the three threads do to each other, except that          *)
(* AT+PULSEWIDTH must not meet a pulse with another pin or a width of 0.   *)
PulseEnds ==
    astray = "no" =>
        /\ high \subseteq {pin}
        /\ high # {} =>
              timer = "active" \/ callback = "due" \/ (report = "start" /\ timer # "null")

(* A message that is stored while the pin is high starts no pulse of its   *)
(* own: it is nevertheless read, by a host that asks whenever it has seen  *)
(* the pin go low, unless AT+PULSEWIDTH takes the pulse away.              *)
StoredIsRead ==
    interrupts = "no" /\ announced = "yes" ~> Log = <<>> \/ announced = "taken"

===============================================================================
