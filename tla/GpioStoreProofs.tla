--------------------------- MODULE GpioStoreProofs ---------------------------
(***************************************************************************)
(* Proofs about GpioStore, for a ring of any size, any pins and widths and *)
(* any number of messages and commands.                                    *)
(*                                                                         *)
(* However the threads interrupt each other, everything stays in range,    *)
(* a pin that is high has somebody to lower it as long as AT+PULSEWIDTH    *)
(* has not met a pulse, and no message is printed twice.  The last rests   *)
(* on the fact that a message is in one place only: it is arriving, it is  *)
(* in one slot, or it has been printed; only the slot that AT+STOREDATA    *)
(* has printed and not yet cleared may hold a message that is also         *)
(* printed.                                                                *)
(*                                                                         *)
(* When the receiving thread and the AT server do not interrupt each       *)
(* other (the timer thread may be interrupted), the ring implements        *)
(* MessageLog:                                                             *)
(* the messages that wait are in the slots from the newest one backwards,  *)
(* without a gap, and the reader stands before the oldest of them.  And no *)
(* announcement is lost.                                                   *)
(***************************************************************************)
EXTENDS GpioStore, FiniteSetTheorems, FunctionTheorems, SequenceTheorems, TLAPS

LEMMA SizeType == Size \in Nat /\ Size > 0
BY StoreAssumption

LEMMA InRing ==
    ASSUME NEW n \in Int
    PROVE  n % Size \in Slots
BY SizeType DEF Slots

-----------------------------------------------------------------------------
(* Types.  The reader is never past the end of its round.                  *)

Shows == at \in {"print", "clear"}

TypeInv == TypeOK /\ (Shows => next < max)

LEMMA BoundsType == MaxMessages \in Nat /\ MaxCommands \in Nat
BY StoreAssumption

LEMMA RoundOfShow ==
    ASSUME TypeOK, BeginShow
    PROVE  /\ next' \in 0 .. max' /\ max' \in 0 .. 2 * Size
           /\ at' = "idle" \/ (at' = "print" /\ next' < max')
<1>1. Oldest \in Slots
  BY InRing DEF TypeOK, Oldest
<1>2. Oldest \in Nat /\ Oldest < Size
  BY <1>1, SizeType DEF Slots
<1>3. CASE index = -1
  BY <1>3 DEF BeginShow, reader, TypeOK
<1>4. CASE index # -1
  BY <1>2, <1>4, SizeType DEF BeginShow
<1> QED BY <1>3, <1>4

LEMMA SlotCleared ==
    ASSUME TypeInv, ClearSlot
    PROVE  /\ slots' \in [Slots -> Messages \cup {none}]
           /\ next \in Nat /\ max \in 0 .. 2 * Size /\ next < max
           /\ ~Last => next + 1 \in 0 .. max /\ next + 1 < max
<1>1. at = "clear" /\ slots' = [slots EXCEPT ![next % Size] = none]
  BY DEF ClearSlot
<1>2. next \in Nat /\ max \in 0 .. 2 * Size /\ next < max
  BY <1>1, SizeType DEF Shows, TypeInv, TypeOK
<1>3. next % Size \in Slots
  BY <1>2, InRing
<1>4. slots' \in [Slots -> Messages \cup {none}]
  BY <1>1, <1>3 DEF TypeInv, TypeOK
<1> QED BY <1>1, <1>2, <1>4, SizeType DEF Last

LEMMA ReceiveType ==
    ASSUME TypeOK, Receive
    PROVE  received' \in 0 .. MaxMessages /\ received' \in Messages
BY BoundsType DEF TypeOK, Receive, Messages

LEMMA ReportType ==
    ASSUME TypeInv, Report
    PROVE  TypeInv'
<1> USE DEF Reports, Shows, TypeInv, TypeOK, ring, settings, reader, pulse, host, history
<1>1. CASE FindTimer
  BY <1>1 DEF FindTimer
<1>2. CASE FindState
  BY <1>2 DEF FindState
<1>3. CASE RaisePin
  BY <1>3 DEF RaisePin
<1>4. CASE StartTimer
  BY <1>4 DEF StartTimer
<1> QED BY <1>1, <1>2, <1>3, <1>4 DEF Report

LEMMA WriterType ==
    ASSUME TypeInv, Writer
    PROVE  TypeInv'
<1>1. CASE ShowAtOnce
  <2>1. received' \in 0 .. MaxMessages /\ received' \in Messages
    BY <1>1, ReceiveType DEF ShowAtOnce, TypeInv
  <2>2. shown' \in Seq(Messages)
    BY <1>1, <2>1 DEF ShowAtOnce, TypeInv, TypeOK
  <2> QED BY <1>1, <2>1, <2>2
          DEF ShowAtOnce, Shows, TypeInv, TypeOK, ring, settings, reader, pulse, host
<1>2. CASE BeginInsert
  <2>1. received' \in 0 .. MaxMessages /\ received' \in Messages
    BY <1>2, ReceiveType DEF BeginInsert, TypeInv
  <2>2. index' \in -1 .. Size - 1
    BY <1>2, SizeType DEF BeginInsert, Following, TypeInv, TypeOK
  <2> QED BY <1>2, <2>1, <2>2
          DEF BeginInsert, Shows, TypeInv, TypeOK, settings, reader, pulse, host
<1>3. CASE StoreMessage
  <2>1. slots' \in [Slots -> Messages \cup {none}]
    BY <1>3 DEF StoreMessage, TypeInv, TypeOK
  <2> QED BY <1>3, <2>1
          DEF StoreMessage, Shows, TypeInv, TypeOK, settings, reader, pulse, host, history
<1> QED BY <1>1, <1>2, <1>3, ReportType DEF Writer

LEMMA ShowType ==
    ASSUME TypeInv, BeginShow \/ Showing
    PROVE  TypeInv'
<1> USE DEF Shows
<1>1. CASE BeginShow
  <2>1. /\ next' \in 0 .. max' /\ max' \in 0 .. 2 * Size
        /\ at' = "idle" \/ (at' = "print" /\ next' < max')
    BY <1>1, RoundOfShow DEF TypeInv
  <2> QED BY <1>1, <2>1 DEF BeginShow, TypeInv, TypeOK, ring, settings, pulse, history
<1>2. CASE PrintMessage
  <2>1. next % Size \in Slots
    BY InRing DEF TypeInv, TypeOK
  <2>2. shown' \in Seq(Messages)
    <3>1. Looked # none => Looked \in Messages
      BY <2>1 DEF Looked, TypeInv, TypeOK
    <3> QED BY <1>2, <3>1 DEF PrintMessage, TypeInv, TypeOK
  <2> QED BY <1>2, <2>2 DEF PrintMessage, TypeInv, TypeOK, ring, settings, pulse, host
<1>3. CASE ShowNext
  <2>1. ClearSlot /\ ~Last
    BY <1>3 DEF ShowNext
  <2> QED BY <1>3, <2>1, SlotCleared
          DEF ShowNext, TypeInv, TypeOK, settings, pulse, host, history
<1>4. CASE EndShow
  <2>1. ClearSlot
    BY <1>4 DEF EndShow
  <2> QED BY <1>4, <2>1, SlotCleared, SizeType
          DEF EndShow, TypeInv, TypeOK, settings, pulse, history
<1> QED BY <1>1, <1>2, <1>3, <1>4 DEF Showing

LEMMA SetupType ==
    ASSUME TypeInv, Setup
    PROVE  TypeInv'
<1> USE DEF SetupStep, Shows, TypeInv, TypeOK, ring, settings, host, history
<1>1. CASE CreateTimer
  BY <1>1 DEF CreateTimer
<1>2. CASE StopTimer
  BY <1>2 DEF StopTimer
<1>3. CASE DeleteTimer
  BY <1>3 DEF DeleteTimer
<1> QED BY <1>1, <1>2, <1>3 DEF Setup

LEMMA CommandType ==
    ASSUME TypeInv,
           \/ \E m \in {"uart", "gpio"} : SetMode(m)
           \/ \E p \in Pins, width \in Widths : PulseSetup(p, width)
    PROVE  TypeInv'
<1>1. ASSUME NEW m \in {"uart", "gpio"}, SetMode(m) PROVE TypeInv'
  BY <1>1, BoundsType DEF SetMode, Command, Shows, TypeInv, TypeOK, ring, reader, pulse, host
<1>2. ASSUME NEW p \in Pins, NEW width \in Widths, PulseSetup(p, width) PROVE TypeInv'
  <2>1. astray' \in {"yes", "no"} /\ announced' \in {"yes", "no", "taken"}
    BY <1>2 DEF PulseSetup, TypeInv, TypeOK
  <2>2. /\ pin' = p /\ at' \in {"create", "stop"}
        /\ commands < MaxCommands /\ commands' = commands + 1
        /\ UNCHANGED <<ring, settings, arriving, report, next, max, timer, callback, high,
                       over, shown, received>>
    BY <1>2 DEF PulseSetup, Command
  <2> QED BY <2>1, <2>2, BoundsType DEF Shows, TypeInv, TypeOK, ring, settings
<1> QED BY <1>1, <1>2

LEMMA TypeInvariance == Spec => []TypeInv
<1>1. Init => TypeInv
  BY SizeType, BoundsType, StoreAssumption DEF Init, Shows, TypeInv, TypeOK, none
<1>2. TypeInv /\ [Next]_vars => TypeInv'
  <2> SUFFICES ASSUME TypeInv, [Next]_vars PROVE TypeInv'
    OBVIOUS
  <2> USE DEF Shows, TypeInv, TypeOK, ring, settings, reader, pulse, host, history
  <2>1. CASE TimerExpires
    BY <2>1 DEF TimerExpires
  <2>2. CASE PulseOver
    BY <2>2 DEF PulseOver
  <2>3. CASE UNCHANGED vars
    BY <2>3 DEF vars
  <2> HIDE DEF Shows, TypeInv, TypeOK, ring, settings, reader, pulse, host, history
  <2> QED BY <2>1, <2>2, <2>3, WriterType, ShowType, SetupType, CommandType
          DEF Next, AtServer
<1> QED BY <1>1, <1>2, PTL DEF Spec

(* The reader never looks past its round of the ring, and the slot, the    *)
(* pin and the messages stay in range, whoever interrupts whom             *)
(* (wiota_data_insert, wiota_data_show, at_pulse_setup).                   *)
THEOREM TypeCorrect == Spec => []TypeOK
<1>1. TypeInv => TypeOK
  BY DEF TypeInv
<1> QED BY TypeInvariance, <1>1, PTL

-----------------------------------------------------------------------------
(* Pulses.                                                                 *)

\* While AT+PULSEWIDTH has met no pulse, a report that has found the timer
\* keeps it, and a timer that is being deleted does not run.
PulseKept ==
    astray = "no" =>
        /\ report \in {"state", "raise", "start"} =>
              timer # "null" /\ at \notin {"stop", "delete"}
        /\ at \in {"stop", "delete"} => timer # "active" /\ callback = "none"

PulseInv ==
    /\ PulseEnds /\ PulseKept
    /\ callback \in {"none", "due"}
    /\ arriving # none => report = "idle"

LEMMA PulseReport ==
    ASSUME PulseInv, Report
    PROVE  PulseInv'
<1> USE DEF PulseInv, PulseEnds, PulseKept, Reports, reader, pulse, host
<1>1. CASE FindTimer
  BY <1>1 DEF FindTimer
<1>2. CASE FindState
  BY <1>2 DEF FindState
<1>3. CASE RaisePin
  BY <1>3 DEF RaisePin
<1>4. CASE StartTimer
  BY <1>4 DEF StartTimer
<1> QED BY <1>1, <1>2, <1>3, <1>4 DEF Report

LEMMA PulseCommand ==
    ASSUME PulseInv, Setup \/ \E p \in Pins, width \in Widths : PulseSetup(p, width)
    PROVE  PulseInv'
<1> USE DEF PulseInv, PulseEnds, PulseKept, host
<1>1. CASE CreateTimer
  BY <1>1 DEF CreateTimer, SetupStep
<1>2. CASE StopTimer
  BY <1>2 DEF StopTimer, SetupStep
<1>3. CASE DeleteTimer
  BY <1>3 DEF DeleteTimer, SetupStep
<1>4. ASSUME NEW p \in Pins, NEW width \in Widths, PulseSetup(p, width) PROVE PulseInv'
  <2>1. CASE width = 0 \/ p # pin
    <3>1. CASE Pulsing
      BY <1>4, <2>1, <3>1 DEF PulseSetup
    <3>2. CASE ~Pulsing
      BY <1>4, <2>1, <3>2 DEF PulseSetup, Pulsing
    <3> QED BY <3>1, <3>2
  <2>2. CASE width # 0 /\ p = pin
    BY <1>4, <2>2 DEF PulseSetup
  <2> QED BY <2>1, <2>2
<1> QED BY <1>1, <1>2, <1>3, <1>4 DEF Setup

(* A pin that is high is the pin of now and has somebody to lower it:      *)
(* whatever the timer thread, the thread that receives and the AT server   *)
(* do to each other between any two of their steps, unless AT+PULSEWIDTH   *)
(* changes the pin or deletes the timer during a pulse                     *)
(* (wiota_gpio_report_state, wiota_gpio_timer_cb, at_pulse_setup).         *)
THEOREM PulseAlwaysEnds == Spec => []PulseEnds
<1>1. Init => PulseInv
  BY DEF Init, PulseInv, PulseEnds, PulseKept, none
<1>2. PulseInv /\ [Next]_vars => PulseInv'
  <2> SUFFICES ASSUME PulseInv, [Next]_vars PROVE PulseInv'
    OBVIOUS
  <2>1. ASSUME UNCHANGED <<pulse, report, astray>>,
               at' = at \/ at' \notin {"stop", "delete"},
               arriving' = arriving \/ report = "idle"
        PROVE  PulseInv'
    BY <2>1 DEF PulseInv, PulseEnds, PulseKept, pulse
  <2>2. CASE TimerExpires
    BY <2>2 DEF TimerExpires, PulseInv, PulseEnds, PulseKept, reader, host
  <2>3. CASE PulseOver
    BY <2>3 DEF PulseOver, PulseInv, PulseEnds, PulseKept, reader
  <2>4. CASE StoreMessage
    BY <2>4 DEF StoreMessage, PulseInv, PulseEnds, PulseKept, reader, pulse, host
  <2>5. CASE ShowAtOnce \/ BeginInsert
    BY <2>1, <2>5 DEF ShowAtOnce, BeginInsert, Receive, host, reader
  <2>6. CASE BeginShow \/ Showing
    BY <2>1, <2>6 DEF BeginShow, Showing, PrintMessage, ShowNext, EndShow, host, reader
  <2>7. ASSUME NEW m \in {"uart", "gpio"}, SetMode(m) PROVE PulseInv'
    BY <2>1, <2>7 DEF SetMode, host, reader
  <2>8. CASE UNCHANGED vars
    BY <2>1, <2>8 DEF vars, host, reader
  <2> QED BY <2>2, <2>3, <2>4, <2>5, <2>6, <2>7, <2>8, PulseReport, PulseCommand
          DEF Next, Writer, AtServer
<1>3. PulseInv => PulseEnds
  BY DEF PulseInv
<1> QED BY <1>1, <1>2, <1>3, PTL DEF Spec

------------------------------------------------------------------------------
(* Messages.                                                               *)

MessageType ==
    /\ slots \in [Slots -> Nat] /\ shown \in Seq(Nat)
    /\ received \in Nat /\ arriving \in Nat
    /\ next \in Nat /\ index \in Int

NotYet(n) == \A k \in 1 .. Len(shown) : shown[k] # n

OnePlace ==
    /\ arriving <= received
    /\ \A k \in 1 .. Len(shown) : shown[k] # none /\ shown[k] <= received
    /\ \A s \in Slots : slots[s] <= received
    /\ arriving # none => NotYet(arriving) /\ \A s \in Slots : slots[s] # arriving
    /\ \A s, t \in Slots : slots[s] = slots[t] /\ s # t => slots[s] = none
    /\ \A s \in Slots : NotYet(slots[s]) \/ (at = "clear" /\ s = next % Size)

IInv == MessageType /\ OnePlace

LEMMA InitIInv == Init => IInv
BY SizeType DEF Init, IInv, MessageType, OnePlace, NotYet, none, Slots

\* Steps that touch neither messages nor the place of the reader.
LEMMA OtherSteps ==
    ASSUME IInv, UNCHANGED <<slots, shown, received, arriving, next, index>>,
           at' = at \/ (at # "clear" /\ at' # "clear")
    PROVE  IInv'
BY DEF IInv, MessageType, OnePlace, NotYet

LEMMA PrintedLater ==
    ASSUME NEW q \in Seq(Nat), NEW m \in Nat
    PROVE  /\ Append(q, m) \in Seq(Nat)
           /\ Len(q) \in Nat
           /\ Len(Append(q, m)) = Len(q) + 1
           /\ \A k \in 1 .. Len(q) + 1 : Append(q, m)[k] = IF k = Len(q) + 1 THEN m ELSE q[k]
OBVIOUS

LEMMA ShowAtOnceStep ==
    ASSUME IInv, ShowAtOnce
    PROVE  IInv'
<1>1. /\ received' = received + 1 /\ shown' = Append(shown, received + 1)
      /\ arriving = none
      /\ UNCHANGED <<slots, arriving, next, at, index>>
  BY DEF ShowAtOnce, Receive, ring, reader
<1>2. MessageType'
  BY <1>1, PrintedLater DEF IInv, MessageType
<1>3. OnePlace'
  BY <1>1, PrintedLater DEF IInv, MessageType, OnePlace, NotYet, none
<1> QED BY <1>2, <1>3 DEF IInv

LEMMA BeginInsertStep ==
    ASSUME IInv, BeginInsert
    PROVE  IInv'
<1>1. /\ received' = received + 1 /\ arriving' = received + 1
      /\ UNCHANGED <<slots, shown, next, at>>
  BY DEF BeginInsert, Receive, reader
<1>2. index' \in Int
  BY DEF BeginInsert, Following, IInv, MessageType
<1>3. MessageType'
  BY <1>1, <1>2 DEF IInv, MessageType
<1>4. OnePlace'
  BY <1>1 DEF IInv, MessageType, OnePlace, NotYet, none
<1> QED BY <1>3, <1>4 DEF IInv

LEMMA StoreMessageStep ==
    ASSUME IInv, StoreMessage
    PROVE  IInv'
<1>1. /\ arriving # none /\ arriving' = none /\ index \in Slots
      /\ slots' = [slots EXCEPT ![index] = arriving]
      /\ UNCHANGED <<shown, received, next, at, index>>
  BY DEF StoreMessage, reader, history
<1> QED BY <1>1 DEF IInv, MessageType, OnePlace, NotYet, none

LEMMA PrintMessageStep ==
    ASSUME IInv, PrintMessage
    PROVE  IInv'
<1>1. /\ at = "print" /\ at' = "clear"
      /\ UNCHANGED <<slots, received, arriving, next, index>>
  BY DEF PrintMessage, ring
<1>2. next % Size \in Slots
  BY InRing DEF IInv, MessageType
<1>3. Looked \in Nat
  BY <1>2 DEF Looked, IInv, MessageType
<1>4. CASE Looked = none
  BY <1>1, <1>4 DEF PrintMessage, IInv, MessageType, OnePlace, NotYet
<1>5. CASE Looked # none
  <2>1. shown' = Append(shown, Looked)
    BY <1>5 DEF PrintMessage
  <2>2. MessageType'
    BY <1>1, <1>3, <2>1, PrintedLater DEF IInv, MessageType
  <2>3. OnePlace'
    BY <1>1, <1>2, <1>3, <1>5, <2>1, PrintedLater
    DEF IInv, MessageType, OnePlace, NotYet, Looked
  <2> QED BY <2>2, <2>3 DEF IInv
<1> QED BY <1>4, <1>5

LEMMA ClearSlotStep ==
    ASSUME IInv, ClearSlot, UNCHANGED <<shown, received, arriving>>,
           index' \in Int, next' \in Nat, at' # "clear"
    PROVE  IInv'
<1>1. next % Size \in Slots
  BY InRing DEF IInv, MessageType
<1>2. at = "clear" /\ slots' = [slots EXCEPT ![next % Size] = none]
  BY DEF ClearSlot
<1>3. MessageType'
  BY <1>1, <1>2 DEF IInv, MessageType, none
<1>4. OnePlace'
  BY <1>1, <1>2 DEF IInv, MessageType, OnePlace, NotYet, none
<1> QED BY <1>3, <1>4 DEF IInv

LEMMA BeginShowStep ==
    ASSUME IInv, BeginShow
    PROVE  IInv'
<1>1. at = "idle" /\ UNCHANGED <<slots, shown, received, arriving, index>>
  BY DEF BeginShow, ring, history
<1>2. next' \in Nat /\ at' # "clear"
  BY InRing, SizeType DEF BeginShow, Oldest, IInv, MessageType, Slots, reader
<1> QED BY <1>1, <1>2 DEF IInv, MessageType, OnePlace, NotYet

LEMMA Invariance == Spec => []IInv
<1>1. IInv /\ [Next]_vars => IInv'
  <2> SUFFICES ASSUME IInv, [Next]_vars PROVE IInv'
    OBVIOUS
  <2> USE DEF ring, reader, history
  <2>1. CASE TimerExpires \/ PulseOver
    BY <2>1, OtherSteps DEF TimerExpires, PulseOver
  <2>2. CASE Writer
    <3>1. CASE Report
      BY <3>1, OtherSteps DEF Report, FindTimer, FindState, RaisePin, StartTimer
    <3> QED BY <2>2, <3>1, ShowAtOnceStep, BeginInsertStep, StoreMessageStep DEF Writer
  <2>3. CASE BeginShow
    BY <2>3, BeginShowStep
  <2>4. CASE PrintMessage
    BY <2>4, PrintMessageStep
  <2>5. CASE ShowNext
    BY <2>5, ClearSlotStep DEF ShowNext, IInv, MessageType
  <2>6. CASE EndShow
    BY <2>6, ClearSlotStep DEF EndShow
  <2>7. CASE Setup
    BY <2>7, OtherSteps DEF Setup, CreateTimer, StopTimer, DeleteTimer, SetupStep
  <2>8. ASSUME NEW m \in {"uart", "gpio"}, SetMode(m) PROVE IInv'
    BY <2>8, OtherSteps DEF SetMode, Command
  <2>9. ASSUME NEW p \in Pins, NEW width \in Widths, PulseSetup(p, width) PROVE IInv'
    BY <2>9, OtherSteps DEF PulseSetup, Command
  <2>10. CASE UNCHANGED vars
    BY <2>10, OtherSteps DEF vars
  <2> QED BY <2>1, <2>2, <2>3, <2>4, <2>5, <2>6, <2>7, <2>8, <2>9, <2>10
          DEF Next, AtServer, Showing
<1> QED BY InitIInv, <1>1, PTL DEF Spec

(* No message is printed twice, whatever overtakes what                    *)
(* (wiota_data_insert, wiota_data_show).                                   *)
THEOREM PrintedOnce == Spec => NotTwice
<1> DEFINE New == \A k \in 1 .. Len(shown) : shown' = shown \/ shown'[Len(shown')] # shown[k]
<1>1. IInv /\ [Next]_vars => [New]_shown
  <2> SUFFICES ASSUME IInv, Next, shown' # shown,
                      NEW k \in 1 .. Len(shown)
               PROVE  shown'[Len(shown')] # shown[k]
    BY DEF vars, history
  <2>1. shown \in Seq(Nat) /\ received \in Nat /\ shown[k] <= received /\ shown[k] \in Nat
    BY DEF IInv, MessageType, OnePlace
  <2>2. CASE ShowAtOnce
    <3>1. shown' = Append(shown, received + 1)
      BY <2>2 DEF ShowAtOnce, Receive
    <3>2. shown'[Len(shown')] = received + 1
      BY <2>1, <3>1
    <3> QED BY <2>1, <3>2
  <2>3. CASE PrintMessage
    <3>1. next % Size \in Slots
      BY InRing DEF IInv, MessageType
    <3>2. shown' = Append(shown, Looked) /\ Looked \in Nat
      BY <2>3, <3>1 DEF PrintMessage, Looked, IInv, MessageType
    <3>3. shown'[Len(shown')] = Looked
      BY <2>1, <3>2
    <3>4. NotYet(Looked)
      BY <2>3, <3>1 DEF PrintMessage, Looked, IInv, OnePlace
    <3> QED BY <3>3, <3>4 DEF NotYet
  <2>4. ShowAtOnce \/ PrintMessage
    BY DEF Next, Writer, AtServer, Showing, Setup, Report, TimerExpires, PulseOver,
           BeginInsert, StoreMessage, FindTimer, FindState, RaisePin, StartTimer, BeginShow,
           ShowNext, EndShow, SetMode, PulseSetup, CreateTimer, StopTimer, DeleteTimer,
           SetupStep, history
  <2> QED BY <2>2, <2>3, <2>4
<1> QED BY Invariance, <1>1, PTL DEF Spec, NotTwice

-----------------------------------------------------------------------------
(* The refinement.  Without interruptions the messages that wait are those *)
(* in the slots from the newest one backwards, without a gap, and the      *)
(* reader is in front of the oldest of them.                               *)

\* The slot that is j slots behind the newest one.
Back(j) == (Newest - j) % Size

Contiguous(n) == \A j \in Slots : Waiting(Back(j)) <=> j < n

Round ==
    /\ arriving = none /\ index \in Slots
    /\ next >= Oldest /\ max = Oldest + Size

RingInv ==
    interrupts = "no" =>
        /\ Shows => Round
        /\ arriving # none => index \in Slots
        /\ \E n \in 0 .. Size :
              /\ Contiguous(n)
              /\ at = "print" => n <= max - next
              /\ at = "clear" => n < max - next

LEMMA ModOnce ==
    ASSUME NEW a \in -Size .. 2 * Size - 1
    PROVE  a % Size = IF a < 0 THEN a + Size ELSE IF a < Size THEN a ELSE a - Size
<1>1. Size \in Nat /\ Size > 0 /\ a \in Int
  BY SizeType
<1> DEFINE q == a \div Size
           r == a % Size
<1>2. q \in Int /\ r \in 0 .. Size - 1 /\ a = Size * q + r
  BY <1>1
<1> HIDE DEF q, r
<1>3. q >= -1
  <2>1. SUFFICES ASSUME q <= -2 PROVE FALSE
    BY <1>2
  <2>2. Size * q <= Size * (-2)
    BY <1>1, <1>2, <2>1
  <2> QED BY <1>1, <1>2, <2>2
<1>4. q <= 1
  <2>1. SUFFICES ASSUME q >= 2 PROVE FALSE
    BY <1>2
  <2>2. Size * q >= Size * 2
    BY <1>1, <1>2, <2>1
  <2> QED BY <1>1, <1>2, <2>2
<1>5. q = -1 \/ q = 0 \/ q = 1
  BY <1>2, <1>3, <1>4
<1>6. r = IF a < 0 THEN a + Size ELSE IF a < Size THEN a ELSE a - Size
  BY <1>1, <1>2, <1>5
<1> QED BY <1>6 DEF r

LEMMA SlotsType ==
    ASSUME NEW s
    PROVE  s \in Slots <=> s \in Nat /\ s < Size
BY SizeType DEF Slots

\* One slot behind the other, around the ring.
LEMMA BackSlot ==
    ASSUME Newest \in -1 .. Size - 1, NEW j \in Slots
    PROVE  /\ Back(j) = IF j <= Newest THEN Newest - j ELSE Newest - j + Size
           /\ Back(j) \in Slots
<1>1. Newest - j \in -Size .. 2 * Size - 1
  BY SlotsType, SizeType
<1> QED BY <1>1, ModOnce, SlotsType, SizeType DEF Back

LEMMA BackOnto ==
    ASSUME Newest \in -1 .. Size - 1, NEW s \in Slots
    PROVE  \E j \in Slots : Back(j) = s
<1> DEFINE j == IF s <= Newest THEN Newest - s ELSE Newest - s + Size
<1>1. j \in Slots
  BY SlotsType, SizeType
<1>2. Back(j) = s
  BY <1>1, BackSlot, SlotsType, SizeType
<1> QED BY <1>1, <1>2

LEMMA BackOne ==
    ASSUME Newest \in -1 .. Size - 1, NEW i \in Slots, NEW j \in Slots, Back(i) = Back(j)
    PROVE  i = j
BY BackSlot, SlotsType, SizeType

\* As many messages wait as there are slots in front of the gap.
LEMMA WaitingCount ==
    ASSUME Newest \in -1 .. Size - 1, NEW n \in 0 .. Size, Contiguous(n)
    PROVE  Cardinality({s \in Slots : Waiting(s)}) = n
<1> DEFINE S == {s \in Slots : Waiting(s)}
           T == 0 .. n - 1
           F == [j \in T |-> Back(j)]
<1>1. T \subseteq Slots
  BY SlotsType, SizeType
<1>2. F \in [T -> S]
  BY <1>1, BackSlot, SlotsType DEF Contiguous
<1>3. \A i, j \in T : F[i] = F[j] => i = j
  BY <1>1, BackOne
<1>4. \A s \in S : \E j \in T : F[j] = s
  <2> SUFFICES ASSUME NEW s \in S PROVE \E j \in T : F[j] = s
    OBVIOUS
  <2>1. PICK j \in Slots : Back(j) = s
    BY BackOnto
  <2>2. j \in T
    BY <2>1, SlotsType DEF Contiguous
  <2> QED BY <2>1, <2>2
<1> HIDE DEF S, T, F
<1>5. ExistsBijection(T, S)
  BY <1>2, <1>3, <1>4, Fun_IsBij, Fun_ExistsBij
<1>6. IsFiniteSet(T) /\ Cardinality(T) = n
  BY FS_Interval, SizeType DEF T
<1>7. Cardinality(S) = n
  BY <1>5, <1>6, FS_Bijection
<1> QED BY <1>7 DEF S

\* The log, read off the ring.
LEMMA LogIs ==
    ASSUME Newest \in -1 .. Size - 1, NEW n \in 0 .. Size, Contiguous(n)
    PROVE  Log = [k \in 1 .. n |-> slots[Back(n - k)]]
<1>1. \A k \in 1 .. n : Newest + k - n = Newest - (n - k)
  BY SizeType
<1>2. Log = [k \in 1 .. n |-> slots[(Newest + k - n) % Size]]
  BY WaitingCount DEF Log
<1> QED BY <1>1, <1>2 DEF Back

\* The same for the state after a step.
LogShape ==
    Newest \in -1 .. Size - 1 =>
        /\ \A i, j \in Slots : Back(i) = Back(j) => i = j
        /\ \A j \in Slots :
              /\ Back(j) = IF j <= Newest THEN Newest - j ELSE Newest - j + Size
              /\ Back(j) \in Slots
        /\ \A n \in 0 .. Size :
              Contiguous(n) => Log = [k \in 1 .. n |-> slots[Back(n - k)]]

LEMMA LogShapeHolds == LogShape
BY BackOne, BackSlot, LogIs DEF LogShape

LEMMA LogShapeNext == LogShape'
BY LogShapeHolds, PTL

LEMMA NewestType ==
    ASSUME TypeInv, RingInv, interrupts = "no"
    PROVE  Newest \in -1 .. Size - 1
BY SlotsType, SizeType DEF RingInv, TypeInv, TypeOK, Newest

\* Steps that change nothing in the ring, or only who works on it.
LEMMA SameLog ==
    ASSUME TypeInv, RingInv, interrupts = "no", Newest' \in -1 .. Size - 1,
           \A j \in Slots : Back(j)' = Back(j) /\ Waiting(Back(j))' = Waiting(Back(j)),
           \A j \in Slots : Waiting(Back(j)) => slots'[Back(j)] = slots[Back(j)],
           NEW n \in 0 .. Size, Contiguous(n)
    PROVE  Contiguous(n)' /\ Log' = Log
<1>1. Contiguous(n)'
  BY DEF Contiguous
<1>2. Log = [k \in 1 .. n |-> slots[Back(n - k)]]
  BY NewestType, LogShapeHolds DEF LogShape
<1>3. Log' = [k \in 1 .. n |-> slots[Back(n - k)]]'
  BY <1>1, LogShapeNext DEF LogShape
<1>4. ASSUME NEW k \in 1 .. n PROVE slots'[Back(n - k)'] = slots[Back(n - k)]
  BY SlotsType, SizeType DEF Contiguous
<1> QED BY <1>1, <1>2, <1>3, <1>4

\* Steps of the refinement.
Refines == RingInv' /\ [Stored!Next]_<<Uninterrupted(Log), Uninterrupted(shown)>>

LEMMA StutterRefines ==
    ASSUME RingInv', interrupts' = interrupts, Log' = Log, shown' = shown
    PROVE  Refines
BY DEF Refines, Uninterrupted

\* Nothing in the ring changes, nor who works on it.
LEMMA QuietRing ==
    ASSUME RingInv, UNCHANGED <<interrupts, slots, index, arriving, next, max>>,
           at' = at \/ (~Shows /\ ~Shows')
    PROVE  RingInv' /\ Log' = Log
<1> USE DEF Shows
<1>1. /\ Newest' = Newest
      /\ \A s : Waiting(s)' = Waiting(s)
      /\ \A j : Back(j)' = Back(j)
  BY DEF Newest, Waiting, Back
<1>2. RingInv'
  BY <1>1 DEF RingInv, Round, Oldest, Contiguous
<1>3. Log' = Log
  BY <1>1 DEF Log
<1> QED BY <1>2, <1>3

LEMMA ShowAtOnceRefines ==
    ASSUME TypeInv, RingInv, interrupts = "no", ShowAtOnce
    PROVE  Refines
<1>1. /\ shown' = Append(shown, received') /\ received' \in Messages
      /\ UNCHANGED <<interrupts, slots, index, arriving, next, max, at>>
  BY ReceiveType DEF ShowAtOnce, TypeInv, ring, settings, reader
<1>2. RingInv' /\ Log' = Log
  BY <1>1, QuietRing
<1>3. Stored!ShowAtOnce(received')
  BY <1>1, <1>2 DEF Stored!ShowAtOnce, Uninterrupted
<1> QED BY <1>1, <1>2, <1>3 DEF Refines, Stored!Next

LEMMA BeginInsertRefines ==
    ASSUME TypeInv, RingInv, interrupts = "no", BeginInsert
    PROVE  Refines
<1>1. /\ at = "idle" /\ arriving = none /\ arriving' # none
      /\ index' = Following(index)
      /\ UNCHANGED <<interrupts, slots, shown, next, max, at>>
  BY ReceiveType
  DEF BeginInsert, Receive, WriterRuns, settings, reader, Messages, none, TypeInv
<1>2. index' \in Slots /\ Newest' \in -1 .. Size - 1 /\ Newest \in -1 .. Size - 1
  BY <1>1, SlotsType, SizeType DEF Following, Newest, TypeInv, TypeOK
<1>3. ASSUME NEW j \in Slots PROVE Back(j)' = Back(j)
  <2>1. Newest' = IF Newest + 1 = Size THEN -1 ELSE Newest
    BY <1>1, SizeType DEF Following, Newest, TypeInv, TypeOK
  <2>2. /\ Back(j) = IF j <= Newest THEN Newest - j ELSE Newest - j + Size
        /\ Back(j)' = IF j <= Newest' THEN Newest' - j ELSE Newest' - j + Size
    BY <1>2, LogShapeHolds, LogShapeNext DEF LogShape
  <2> QED BY <1>2, <2>1, <2>2, SlotsType, SizeType
<1>4. \A s : Waiting(s)' = Waiting(s)
  BY <1>1 DEF Waiting
<1>5. PICK n \in 0 .. Size : Contiguous(n)
  BY DEF RingInv
<1>6. Contiguous(n)' /\ Log' = Log
  BY <1>1, <1>2, <1>3, <1>4, <1>5, SameLog
<1>7. RingInv'
  BY <1>1, <1>2, <1>6 DEF RingInv, Shows
<1> QED BY <1>1, <1>6, <1>7, StutterRefines

\* Kept of MessageLog, as an operator without variables.
LastOnes(s) == IF Len(s) > Size THEN Tail(s) ELSE s

\* One more message, and the oldest one goes when there is no room.
LEMMA LastOnesKept ==
    ASSUME NEW S, NEW s \in Seq(S), NEW e \in S, Len(s) <= Size,
           NEW t, t = LastOnes(Append(s, e))
    PROVE  /\ t \in Seq(S)
           /\ Len(t) = IF Len(s) = Size THEN Size ELSE Len(s) + 1
           /\ \A k \in 1 .. Len(t) :
                 t[k] = IF k = Len(t) THEN e ELSE s[k + Len(s) + 1 - Len(t)]
<1> DEFINE a == Append(s, e)
           m == IF Len(s) = Size THEN Size ELSE Len(s) + 1
<1>1. /\ a \in Seq(S) /\ a # <<>> /\ Len(a) = Len(s) + 1 /\ Len(s) \in Nat
      /\ \A k \in 1 .. Len(s) + 1 : a[k] = IF k = Len(s) + 1 THEN e ELSE s[k]
  BY AppendProperties, LenProperties
<1> HIDE DEF a
<1> SUFFICES /\ t \in Seq(S) /\ Len(t) = m
             /\ \A k \in 1 .. m : t[k] = IF k = m THEN e ELSE s[k + Len(s) + 1 - m]
  BY DEF a
<1>2. CASE Len(s) = Size
  <2>1. m = Size /\ t = Tail(a)
    BY <1>1, <1>2, SizeType DEF LastOnes
  <2>2. /\ Tail(a) \in Seq(S) /\ Len(Tail(a)) = Size
        /\ \A k \in 1 .. Size : Tail(a)[k] = a[k + 1]
    BY <1>1, <1>2, HeadTailProperties, SizeType
  <2>3. \A k \in 1 .. m : /\ k + 1 \in 1 .. Len(s) + 1 /\ (k + 1 = Len(s) + 1 <=> k = m)
                         /\ k + Len(s) + 1 - m = k + 1
    BY <1>2, <2>1, SizeType
  <2> QED BY <1>1, <2>1, <2>2, <2>3
<1>3. CASE Len(s) < Size
  <2>1. m = Len(s) + 1 /\ t = a
    BY <1>1, <1>3, SizeType DEF LastOnes
  <2>2. \A k \in 1 .. m : k + Len(s) + 1 - m = k
    BY <1>1, <2>1
  <2> QED BY <1>1, <2>1, <2>2
<1>4. Len(s) = Size \/ Len(s) < Size
  BY <1>1, SizeType
<1> QED BY <1>2, <1>3, <1>4

LEMMA StoreMessageRefines ==
    ASSUME TypeInv, RingInv, interrupts = "no", StoreMessage
    PROVE  Refines
<1>1. /\ at = "idle" /\ arriving \in Messages /\ arriving # none /\ arriving' = none
      /\ index \in Slots /\ slots' = [slots EXCEPT ![index] = arriving]
      /\ UNCHANGED <<interrupts, shown, index, next, max, at>>
  BY DEF StoreMessage, WriterRuns, settings, reader, history, RingInv, TypeInv, TypeOK
<1>2. /\ Newest = index - 1 /\ Newest' = index
      /\ Newest \in -1 .. Size - 1 /\ Newest' \in -1 .. Size - 1
  BY <1>1, SlotsType, SizeType DEF Newest
<1>3. \A s \in Slots : Waiting(s) = (slots[s] # none) /\ Waiting(s)' = (slots'[s] # none)
  BY <1>1 DEF Waiting
<1>4. PICK n \in 0 .. Size : Contiguous(n)
  BY DEF RingInv
<1>5. /\ \A j \in Slots : Back(j) \in Slots /\ Back(j)' \in Slots
      /\ \A i, j \in Slots : Back(i) = Back(j) => i = j
      /\ Log = [k \in 1 .. n |-> slots[Back(n - k)]]
  BY <1>2, <1>4, LogShapeHolds, LogShapeNext DEF LogShape
<1>6. 0 \in Slots /\ Back(0)' = index /\ Size - 1 \in Slots /\ Back(Size - 1) = index
  BY <1>1, <1>2, LogShapeHolds, LogShapeNext, SlotsType, SizeType DEF LogShape
<1>7. ASSUME NEW j \in Slots, j # 0
      PROVE  j - 1 \in Slots /\ Back(j)' = Back(j - 1) /\ Back(j - 1) # index
  <2>1. j - 1 \in Slots /\ j - 1 # Size - 1
    BY <1>7, SlotsType, SizeType
  <2>2. /\ Back(j - 1) = IF j - 1 <= Newest THEN Newest - (j - 1) ELSE Newest - (j - 1) + Size
        /\ Back(j)' = IF j <= Newest' THEN Newest' - j ELSE Newest' - j + Size
    BY <1>2, <2>1, LogShapeHolds, LogShapeNext DEF LogShape
  <2>3. Back(j)' = Back(j - 1)
    BY <1>1, <1>2, <2>2, SlotsType, SizeType
  <2> QED BY <1>5, <1>6, <2>1, <2>3
<1>8. /\ slots'[Back(0)'] = arriving
      /\ \A j \in Slots : j # 0 => slots'[Back(j)'] = slots[Back(j - 1)]
  BY <1>1, <1>5, <1>6, <1>7 DEF TypeInv, TypeOK
<1> DEFINE m == IF n = Size THEN Size ELSE n + 1
<1>9. m \in 0 .. Size /\ Contiguous(m)'
  <2>1. m \in 0 .. Size
    BY SizeType
  <2>2. ASSUME NEW j \in Slots PROVE Waiting(Back(j))' <=> j < m
    <3>1. Waiting(Back(j))' <=> slots'[Back(j)'] # none
      BY <1>1, <1>5 DEF Waiting
    <3>2. CASE j = 0
      BY <1>1, <1>8, <3>1, <3>2, SizeType
    <3>3. CASE j # 0
      <4>1. j \in Nat /\ j < Size /\ j - 1 \in Slots
        BY <1>7, <3>3, SlotsType
      <4>2. Waiting(Back(j))' <=> slots[Back(j - 1)] # none
        BY <1>8, <3>1, <3>3
      <4>3. slots[Back(j - 1)] # none <=> j - 1 < n
        BY <1>3, <1>4, <1>5, <4>1 DEF Contiguous
      <4> QED BY <4>1, <4>2, <4>3, SizeType
    <3> QED BY <3>2, <3>3
  <2> QED BY <2>1, <2>2 DEF Contiguous
<1>10. RingInv'
  BY <1>1, <1>9 DEF RingInv, Shows
<1>11. Log' = [k \in 1 .. m |-> slots'[Back(m - k)']]
  BY <1>2, <1>9, LogShapeNext DEF LogShape
<1>12. Log' = LastOnes(Append(Log, arriving))
  <2>1. /\ Log \in Seq(Messages \cup {none}) /\ Len(Log) = n
        /\ \A k \in 1 .. n : Log[k] = slots[Back(n - k)] /\ n - k \in Slots
    <3>1. \A k \in 1 .. n : n - k \in Slots
      BY SlotsType, SizeType
    <3>2. \A k \in 1 .. n : slots[Back(n - k)] \in Messages \cup {none}
      BY <1>5, <3>1 DEF TypeInv, TypeOK
    <3> QED BY <1>5, <3>1, <3>2
  <2>2. /\ Log' \in Seq(Messages \cup {none}) /\ Len(Log') = m
        /\ \A k \in 1 .. m : Log'[k] = IF k = m THEN arriving ELSE slots[Back(m - k - 1)]
    <3>1. ASSUME NEW k \in 1 .. m
          PROVE  /\ m - k \in Slots
                 /\ slots'[Back(m - k)'] = IF k = m THEN arriving ELSE slots[Back(m - k - 1)]
      <4>1. m - k \in Slots /\ (m - k = 0 <=> k = m)
        BY <1>9, SlotsType, SizeType
      <4> QED BY <1>8, <4>1
    <3>2. \A k \in 1 .. m : slots'[Back(m - k)'] \in Messages \cup {none}
      BY <1>1, <1>5, <3>1 DEF TypeInv, TypeOK
    <3> HIDE DEF m
    <3>3. m \in Nat
      BY <1>9, SizeType
    <3>4. Log' \in Seq(Messages \cup {none}) /\ Len(Log') = m
      BY <1>11, <3>2, <3>3
    <3>5. \A k \in 1 .. m : Log'[k] = slots'[Back(m - k)']
      BY <1>11
    <3> QED BY <3>1, <3>4, <3>5
  <2> DEFINE K == LastOnes(Append(Log, arriving))
  <2>3. /\ K \in Seq(Messages \cup {none})
        /\ Len(K) = IF Len(Log) = Size THEN Size ELSE Len(Log) + 1
        /\ \A k \in 1 .. Len(K) :
              K[k] = IF k = Len(K) THEN arriving ELSE Log[k + Len(Log) + 1 - Len(K)]
    <3>1. Log \in Seq(Messages \cup {none}) /\ arriving \in Messages \cup {none} /\ Len(Log) <= Size
      BY <1>1, <2>1, SizeType
    <3>2. K = LastOnes(Append(Log, arriving))
      OBVIOUS
    <3> DEFINE S == Messages \cup {none}
               log == Log
    <3>3. log \in Seq(S) /\ arriving \in S /\ Len(log) <= Size /\ K = LastOnes(Append(log, arriving))
      BY <3>1, <3>2
    <3> HIDE DEF K, m, S, log
    <3>4. /\ K \in Seq(S)
          /\ Len(K) = IF Len(log) = Size THEN Size ELSE Len(log) + 1
          /\ \A k \in 1 .. Len(K) :
                K[k] = IF k = Len(K) THEN arriving ELSE log[k + Len(log) + 1 - Len(K)]
      BY <3>3, LastOnesKept
    <3> QED BY <3>4 DEF S, log
  <2>4. Len(K) = m
    BY <2>1, <2>3
  <2> HIDE DEF m, K
  <2>5. ASSUME NEW k \in 1 .. m PROVE Log'[k] = K[k]
    <3>1. CASE k = m
      BY <2>2, <2>3, <2>4, <3>1
    <3>2. CASE k # m
      <4>1. k + n + 1 - m \in 1 .. n /\ n - (k + n + 1 - m) = m - k - 1
        BY <1>9, <3>2, SizeType DEF m
      <4>2. K[k] = Log[k + n + 1 - m]
        BY <2>1, <2>3, <2>4, <3>2
      <4>3. Log[k + n + 1 - m] = slots[Back(m - k - 1)]
        BY <2>1, <4>1
      <4> QED BY <2>2, <3>2, <4>2, <4>3
    <3> QED BY <3>1, <3>2
  <2>6. Log' = K
    BY <2>2, <2>3, <2>4, <2>5, SeqEqual
  <2> QED BY <2>6 DEF K
<1>13. Stored!Store(arriving)
  BY <1>1, <1>12 DEF Stored!Store, Stored!Kept, LastOnes, Uninterrupted
<1> QED BY <1>1, <1>10, <1>13 DEF Refines, Stored!Next

\* The reader.  AT+STOREDATA starts behind the newest slot, at the oldest.
LEMMA BeginShowRefines ==
    ASSUME TypeInv, RingInv, interrupts = "no", BeginShow
    PROVE  Refines
<1>1. /\ at = "idle" /\ arriving = none /\ arriving' = none
      /\ IF index = -1 THEN at' = "idle"
                       ELSE at' = "print" /\ next' = Oldest /\ max' = Oldest + Size
      /\ UNCHANGED <<interrupts, slots, index, shown>>
  BY DEF BeginShow, AtRuns, ring, settings, history, reader
<1>2. /\ Newest' = Newest
      /\ \A s : Waiting(s)' = Waiting(s)
      /\ \A j : Back(j)' = Back(j)
  BY <1>1 DEF Newest, Waiting, Back
<1>3. Log' = Log
  BY <1>1, <1>2 DEF Log
<1>4. PICK n \in 0 .. Size : Contiguous(n)
  BY DEF RingInv
<1>5. Contiguous(n)'
  BY <1>2, <1>4 DEF Contiguous
<1>6. Oldest \in Nat /\ Oldest' = Oldest
  <2>1. Oldest \in Slots
    BY InRing DEF Oldest, TypeInv, TypeOK
  <2>2. Oldest' = Oldest
    BY <1>1 DEF Oldest
  <2> QED BY <2>1, <2>2, SlotsType
<1>7. Shows' => Round' /\ max' - next' = Size
  BY <1>1, <1>6, SlotsType, SizeType DEF Shows, Round, TypeInv, TypeOK
<1>8. RingInv'
  BY <1>1, <1>5, <1>7, SizeType DEF Shows, RingInv
<1> QED BY <1>1, <1>3, <1>8, StutterRefines

\* The slot at which the reader looks, counted from the newest one.
LEMMA LookedAt ==
    ASSUME TypeInv, RingInv, interrupts = "no", Shows
    PROVE  /\ next \in Nat /\ max - next - 1 \in Slots
           /\ Back(max - next - 1) = next % Size /\ next % Size \in Slots
           /\ Newest = index /\ Newest \in -1 .. Size - 1
<1>1. /\ arriving = none /\ index \in Slots /\ next >= Oldest /\ max = Oldest + Size
      /\ next \in Nat /\ max \in Nat /\ next < max
  BY SizeType DEF RingInv, Round, TypeInv, TypeOK
<1>2. Newest = index /\ Newest \in -1 .. Size - 1
  BY <1>1, SlotsType, SizeType DEF Newest
<1>3. Oldest = IF index + 1 < Size THEN index + 1 ELSE 0
  BY <1>1, ModOnce, SlotsType, SizeType DEF Oldest
<1>4. next % Size = IF next < Size THEN next ELSE next - Size
  BY <1>1, <1>3, ModOnce, SlotsType, SizeType
<1> DEFINE j == max - next - 1
<1>5. j \in Slots
  BY <1>1, <1>3, SlotsType, SizeType
<1>6. Back(j) = IF j <= index THEN index - j ELSE index - j + Size
  BY <1>2, <1>5, LogShapeHolds DEF LogShape
<1>7. next % Size = IF j <= index THEN index - j ELSE index - j + Size
  <2>1. index \in Nat /\ index < Size
    BY <1>1, SlotsType
  <2>2. CASE index + 1 < Size
    BY <1>1, <1>3, <1>4, <2>1, <2>2, SizeType
  <2>3. CASE index + 1 = Size
    BY <1>1, <1>3, <1>4, <2>1, <2>3, SizeType
  <2> QED BY <2>1, <2>2, <2>3, SizeType
<1> QED BY <1>1, <1>2, <1>5, <1>6, <1>7, InRing

LEMMA PrintMessageRefines ==
    ASSUME TypeInv, RingInv, interrupts = "no", PrintMessage
    PROVE  Refines
<1> USE DEF Shows
<1>1. /\ at = "print" /\ at' = "clear"
      /\ shown' = IF Looked # none THEN Append(shown, Looked) ELSE shown
      /\ UNCHANGED <<interrupts, slots, index, arriving, next, max>>
  BY DEF PrintMessage, ring, settings
<1> DEFINE last == max - next - 1
<1>2. /\ last \in Slots /\ Back(last) = next % Size /\ next % Size \in Slots
      /\ Newest \in -1 .. Size - 1 /\ max \in Int /\ next \in Int
  BY <1>1, LookedAt, SizeType DEF TypeInv, TypeOK
<1>3. /\ Newest' = Newest /\ Round' = Round
      /\ \A j : Back(j)' = Back(j)
      /\ \A s : Waiting(s) = (slots[s] # none)
      /\ \A s : Waiting(s)' = (slots[s] # none /\ s # next % Size)
  BY <1>1 DEF Newest, Round, Oldest, Back, Waiting
<1>4. PICK n \in 0 .. Size : Contiguous(n) /\ n <= max - next
  BY <1>1 DEF RingInv
<1>5. /\ \A i, j \in Slots : Back(i) = Back(j) => i = j
      /\ Log = [k \in 1 .. n |-> slots[Back(n - k)]]
  BY <1>2, <1>4, LogShapeHolds DEF LogShape
<1>6. CASE Looked = none
  <2>1. ~Waiting(Back(last))
    BY <1>2, <1>3, <1>6 DEF Looked
  <2>2. n <= last
    BY <1>2, <1>4, <2>1, SlotsType DEF Contiguous
  <2>3. \A j \in Slots : Waiting(Back(j))' = Waiting(Back(j))
    BY <1>2, <1>3, <2>1
  <2>4. Contiguous(n)' /\ Log' = Log
    BY <1>1, <1>2, <1>3, <1>4, <2>3, SameLog
  <2>5. RingInv'
    BY <1>1, <1>2, <1>3, <2>2, <2>4 DEF RingInv
  <2> QED BY <1>1, <1>6, <2>4, <2>5, StutterRefines
<1>7. CASE Looked # none
  <2>1. Waiting(Back(last))
    BY <1>2, <1>3, <1>7 DEF Looked
  <2>2. n = last + 1
    BY <1>2, <1>4, <2>1, SlotsType DEF Contiguous
  <2>3. n - 1 \in Slots /\ n - 1 \in 0 .. Size /\ Back(n - 1) = next % Size
    BY <1>2, <2>2, SlotsType, SizeType
  <2>4. Contiguous(n - 1)'
    <3>1. ASSUME NEW j \in Slots PROVE Waiting(Back(j))' <=> j < n - 1
      <4>1. Waiting(Back(j))' <=> j < n /\ j # n - 1
        BY <1>3, <1>4, <1>5, <2>3 DEF Contiguous
      <4> QED BY <4>1, SlotsType
    <3> QED BY <3>1 DEF Contiguous
  <2>5. RingInv'
    BY <1>1, <1>2, <1>3, <2>2, <2>3, <2>4 DEF RingInv
  <2>6. Log' = [k \in 1 .. n - 1 |-> slots[Back(n - 1 - k)]]
    <3>1. Log' = [k \in 1 .. n - 1 |-> slots'[Back(n - 1 - k)']]
      BY <1>2, <1>3, <2>3, <2>4, LogShapeNext DEF LogShape
    <3> QED BY <1>1, <1>3, <3>1
  <2>7. Log # <<>> /\ Head(Log) = Looked /\ Tail(Log) = Log'
    <3>1. \A j \in Slots : slots[Back(j)] \in Messages \cup {none}
      BY <1>2, BackSlot DEF TypeInv, TypeOK
    <3>2. n \in Nat /\ n > 0
      BY <2>3, SlotsType
    <3>3. \A k \in 1 .. n : slots[Back(n - k)] \in Messages \cup {none}
      <4>1. \A k \in 1 .. n : n - k \in Slots
        BY <2>3, <3>2, SlotsType, SizeType
      <4> QED BY <3>1, <4>1
    <3>4. \A k \in 1 .. n - 1 : slots[Back(n - 1 - k)] \in Messages \cup {none}
      <4>1. \A k \in 1 .. n - 1 : n - 1 - k \in Slots
        BY <2>3, <3>2, SlotsType, SizeType
      <4> QED BY <3>1, <4>1
    <3>5. /\ Log \in Seq(Messages \cup {none}) /\ Len(Log) = n
          /\ \A k \in 1 .. n : Log[k] = slots[Back(n - k)]
      BY <1>5, <3>2, <3>3
    <3>6. /\ Log' \in Seq(Messages \cup {none}) /\ Len(Log') = n - 1
          /\ \A k \in 1 .. n - 1 : Log'[k] = slots[Back(n - 1 - k)]
      BY <2>6, <3>2, <3>4
    <3>7. Log # <<>> /\ Head(Log) = Looked
      BY <2>3, <3>2, <3>5 DEF Looked
    <3>8. /\ Tail(Log) \in Seq(Messages \cup {none}) /\ Len(Tail(Log)) = n - 1
          /\ \A k \in 1 .. n - 1 : Tail(Log)[k] = Log[k + 1]
      BY <3>2, <3>5, <3>7, HeadTailProperties
    <3>9. ASSUME NEW k \in 1 .. n - 1 PROVE Tail(Log)[k] = Log'[k]
      <4>1. k + 1 \in 1 .. n /\ n - (k + 1) = n - 1 - k
        BY <3>2
      <4> QED BY <3>5, <3>6, <3>8, <4>1
    <3> QED BY <3>6, <3>7, <3>8, <3>9, SeqEqual
  <2>8. Stored!ShowOldest
    BY <1>1, <1>7, <2>7 DEF Stored!ShowOldest, Uninterrupted
  <2> QED BY <2>5, <2>8 DEF Refines, Stored!Next
<1> QED BY <1>6, <1>7

LEMMA ClearSlotKeepsLog ==
    ASSUME TypeInv, RingInv, interrupts = "no", ClearSlot,
           interrupts' = interrupts, arriving' = arriving, at' # "clear",
           NEW n \in 0 .. Size, Contiguous(n), n < max - next
    PROVE  /\ \A s \in Slots : Waiting(s)' = Waiting(s)
           /\ index' = index => Contiguous(n)' /\ Log' = Log
<1> USE DEF Shows
<1>1. at = "clear" /\ slots' = [slots EXCEPT ![next % Size] = none]
  BY DEF ClearSlot
<1>2. /\ max - next - 1 \in Slots /\ Back(max - next - 1) = next % Size /\ next % Size \in Slots
      /\ Newest \in -1 .. Size - 1 /\ max \in Int /\ next \in Int
  BY <1>1, LookedAt, SizeType DEF TypeInv, TypeOK
<1>3. \A s \in Slots : Waiting(s)' = Waiting(s)
  BY <1>1, <1>2 DEF Waiting, TypeInv, TypeOK
<1>4. ASSUME index' = index PROVE Contiguous(n)' /\ Log' = Log
  <2>1. Newest' = Newest /\ \A j : Back(j)' = Back(j)
    BY <1>4 DEF Newest, Back
  <2>2. \A j \in Slots : Back(j) \in Slots
    BY <1>2, LogShapeHolds DEF LogShape
  <2>3. \A j \in Slots : Waiting(Back(j)) => slots'[Back(j)] = slots[Back(j)]
    BY <1>1, <1>2, <2>2 DEF Waiting, TypeInv, TypeOK
  <2> QED BY <1>2, <1>3, <2>1, <2>2, <2>3, SameLog
<1> QED BY <1>3, <1>4

LEMMA ShowNextRefines ==
    ASSUME TypeInv, RingInv, interrupts = "no", ShowNext
    PROVE  Refines
<1> USE DEF Shows
<1>1. /\ ClearSlot /\ at = "clear" /\ at' = "print" /\ next' = next + 1 /\ max' = max
      /\ UNCHANGED <<interrupts, index, arriving, shown>>
  BY DEF ShowNext, ClearSlot, settings, history
<1>2. PICK n \in 0 .. Size : Contiguous(n) /\ n < max - next
  BY <1>1 DEF RingInv
<1>3. Contiguous(n)' /\ Log' = Log
  BY <1>1, <1>2, ClearSlotKeepsLog
<1>4. Round' /\ n <= max' - next'
  BY <1>1, <1>2, LookedAt, SlotsType, SizeType, InRing
  DEF RingInv, Round, Oldest, TypeInv, TypeOK
<1>5. RingInv'
  BY <1>1, <1>3, <1>4 DEF RingInv
<1> QED BY <1>1, <1>3, <1>5, StutterRefines

\* At the end of its round the reader has emptied the ring.
LEMMA RoundEmpties ==
    ASSUME TypeInv, RingInv, interrupts = "no", EndShow
    PROVE  Contiguous(0) /\ \A s \in Slots : ~Waiting(s)
<1> USE DEF Shows
<1>1. ClearSlot /\ Last /\ at = "clear"
  BY DEF EndShow, ClearSlot
<1>2. PICK n \in 0 .. Size : Contiguous(n) /\ n < max - next
  BY <1>1 DEF RingInv
<1>3. n = 0 /\ Newest \in -1 .. Size - 1
  BY <1>1, <1>2, LookedAt, SizeType DEF Last, RingInv, Round, TypeInv, TypeOK
<1> QED BY <1>2, <1>3, BackOnto, SlotsType DEF Contiguous

LEMMA EndShowRefines ==
    ASSUME TypeInv, RingInv, interrupts = "no", EndShow
    PROVE  Refines
<1> USE DEF Shows
<1>1. /\ ClearSlot /\ Last /\ at = "clear" /\ at' = "idle" /\ index' = -1
      /\ UNCHANGED <<interrupts, arriving, shown>>
  BY DEF EndShow, ClearSlot, settings, history
<1>2. PICK n \in 0 .. Size : Contiguous(n) /\ n < max - next
  BY <1>1 DEF RingInv
<1>3. Contiguous(0) /\ arriving = none /\ Newest \in -1 .. Size - 1
  BY <1>1, LookedAt, RoundEmpties DEF RingInv, Round, TypeInv, TypeOK
<1>4. \A s \in Slots : ~Waiting(s)
  BY RoundEmpties
<1>5. Newest' = -1 /\ -1 \in -1 .. Size - 1
  BY <1>1, <1>3, SizeType DEF Newest
<1>6. Contiguous(0)'
  <2>1. \A s \in Slots : ~Waiting(s)'
    BY <1>1, <1>2, <1>4, ClearSlotKeepsLog
  <2>2. \A j \in Slots : Back(j)' \in Slots
    BY <1>5, LogShapeNext DEF LogShape
  <2> QED BY <2>1, <2>2, SlotsType DEF Contiguous
<1>7. Log = <<>> /\ Log' = <<>>
  <2>1. Log = [k \in 1 .. 0 |-> slots[Back(0 - k)]]
    BY <1>3, SizeType, LogShapeHolds DEF LogShape
  <2>2. Log' = [k \in 1 .. 0 |-> slots[Back(0 - k)]]'
    BY <1>5, <1>6, SizeType, LogShapeNext DEF LogShape
  <2> QED BY <2>1, <2>2
<1>8. RingInv'
  BY <1>1, <1>3, <1>6, SizeType DEF RingInv
<1> QED BY <1>1, <1>7, <1>8, StutterRefines

LEMMA InterruptsKept == [Next]_vars => interrupts' = interrupts
BY DEF Next, TimerExpires, PulseOver, Writer, ShowAtOnce, BeginInsert, StoreMessage, Report,
       FindTimer, FindState, RaisePin, StartTimer, AtServer, BeginShow, Showing, PrintMessage,
       ShowNext, EndShow, SetMode, PulseSetup, Setup, CreateTimer, StopTimer, DeleteTimer,
       SetupStep, settings, vars

LEMMA StepRefines ==
    ASSUME TypeInv, RingInv, [Next]_vars
    PROVE  Refines
<1>1. CASE interrupts # "no"
  BY <1>1, InterruptsKept DEF Refines, RingInv, Uninterrupted
<1>2. CASE interrupts = "no"
  <2>1. ASSUME UNCHANGED <<interrupts, slots, index, arriving, next, max, shown>>,
               at' = at \/ (~Shows /\ ~Shows')
        PROVE  Refines
    BY <2>1, QuietRing, StutterRefines
  <2>2. CASE TimerExpires \/ PulseOver
    BY <2>1, <2>2 DEF TimerExpires, PulseOver, ring, settings, reader, history
  <2>3. CASE Report
    BY <2>1, <2>3
    DEF Report, FindTimer, FindState, RaisePin, StartTimer, ring, settings, reader, history
  <2>4. CASE Writer
    BY <1>2, <2>3, <2>4, ShowAtOnceRefines, BeginInsertRefines, StoreMessageRefines
    DEF Writer
  <2>5. CASE BeginShow
    BY <1>2, <2>5, BeginShowRefines
  <2>6. CASE Showing
    BY <1>2, <2>6, PrintMessageRefines, ShowNextRefines, EndShowRefines DEF Showing
  <2>7. CASE Setup
    <3>1. ~Shows /\ ~Shows'
      BY <2>7 DEF Setup, CreateTimer, StopTimer, DeleteTimer, Shows
    <3> QED BY <2>1, <2>7, <3>1
            DEF Setup, CreateTimer, StopTimer, DeleteTimer, SetupStep, ring, settings, history
  <2>8. ASSUME NEW m \in {"uart", "gpio"}, SetMode(m) PROVE Refines
    BY <2>1, <2>8 DEF SetMode, ring, reader
  <2>9. ASSUME NEW p \in Pins, NEW width \in Widths, PulseSetup(p, width) PROVE Refines
    <3>1. ~Shows /\ ~Shows'
      BY <2>9 DEF PulseSetup, Command, Shows
    <3> QED BY <2>1, <2>9, <3>1 DEF PulseSetup, ring, settings
  <2>10. CASE UNCHANGED vars
    BY <2>1, <2>10 DEF vars, ring, settings, reader, history
  <2> QED BY <2>2, <2>4, <2>5, <2>6, <2>7, <2>8, <2>9, <2>10 DEF Next, AtServer
<1> QED BY <1>1, <1>2

LEMMA RingStartsEmpty == Init => RingInv /\ Stored!Init
<1> SUFFICES ASSUME Init PROVE RingInv /\ Stored!Init
  OBVIOUS
<1>1. /\ Newest = -1 /\ Newest \in -1 .. Size - 1
      /\ \A s \in Slots : ~Waiting(s)
  BY SizeType DEF Init, Newest, Waiting
<1>2. 0 \in 0 .. Size /\ Contiguous(0)
  BY <1>1, LogShapeHolds, SlotsType, SizeType DEF LogShape, Contiguous
<1>3. Log = [k \in 1 .. 0 |-> slots[Back(0 - k)]]
  BY <1>1, <1>2, LogShapeHolds DEF LogShape
<1>4. Log = <<>>
  BY <1>3
<1>5. RingInv
  BY <1>2 DEF Init, Shows, RingInv
<1> QED BY <1>4, <1>5 DEF Init, Stored!Init, Uninterrupted

(* When neither thread interrupts the other, the host is handed the last   *)
(* Size messages, oldest first and each once, though the ring wraps        *)
(* around, overwrites and is read while messages keep coming               *)
(* (wiota_data_insert, wiota_data_show).                                   *)
THEOREM RingImplementsLog == Spec => RingIsLog
<1>1. TypeInv /\ RingInv /\ [Next]_vars =>
        RingInv' /\ [Stored!Next]_<<Uninterrupted(Log), Uninterrupted(shown)>>
  BY StepRefines DEF Refines
<1> QED
  BY TypeInvariance, RingStartsEmpty, <1>1, PTL DEF Spec, RingIsLog, Stored!Spec

-----------------------------------------------------------------------------
(* What StoredIsRead rests on beside fairness: the announcement of a       *)
(* message is not lost.                                                    *)

\* The thread that receives and the AT server are not both at work.
AloneInv ==
    /\ arriving # none => at = "idle" /\ report = "idle"
    /\ report # "idle" => at = "idle" /\ index # -1
    /\ report \in {"state", "raise", "start"} => timer # "null"

\* The host will learn of the message: its pin has gone low, or will, or the
\* ring is being shown.
Told ==
    \/ over = "yes"
    \/ pin \in high /\ (timer = "active" \/ callback = "due")
    \/ report = "raise" /\ timer # "null"
    \/ report = "start" /\ timer # "null" /\ pin \in high
    \/ Shows

AnnouncedInv ==
    announced = "yes" =>
        /\ index # -1 /\ Told
        /\ at \in {"stop", "delete"} => over = "yes"

PendingInv == interrupts = "no" => AloneInv /\ AnnouncedInv

LEMMA PendingReport ==
    ASSUME TypeInv, PendingInv, Report
    PROVE  PendingInv'
<1> USE DEF PendingInv, AloneInv, AnnouncedInv, Told, Reports, WriterRuns, Shows,
            ring, settings, reader, pulse, host
<1>1. CASE FindTimer
  BY <1>1 DEF FindTimer
<1>2. CASE FindState
  BY <1>2 DEF FindState, TypeInv, TypeOK
<1>3. CASE RaisePin
  BY <1>3 DEF RaisePin
<1>4. CASE StartTimer
  BY <1>4 DEF StartTimer
<1> QED BY <1>1, <1>2, <1>3, <1>4 DEF Report

LEMMA PendingWriter ==
    ASSUME TypeInv, PendingInv, Writer
    PROVE  PendingInv'
<1> USE DEF PendingInv, AloneInv, AnnouncedInv, Told, Shows
<1>1. CASE ShowAtOnce
  BY <1>1 DEF ShowAtOnce, Receive, ring, settings, reader, pulse, host
<1>2. CASE BeginInsert
  <2>1. index' # -1
    BY <1>2 DEF BeginInsert, Following, TypeInv, TypeOK
  <2> QED BY <1>2, <2>1 DEF BeginInsert, Receive, WriterRuns, settings, reader, host, pulse
<1>3. CASE StoreMessage
  <2>1. index # -1
    BY <1>3, SlotsType DEF StoreMessage
  <2> QED BY <1>3, <2>1 DEF StoreMessage, WriterRuns, settings, reader, pulse, host
<1> QED BY <1>1, <1>2, <1>3, PendingReport DEF Writer

LEMMA PendingReader ==
    ASSUME PendingInv, BeginShow \/ Showing
    PROVE  PendingInv'
<1> USE DEF PendingInv, AloneInv, AnnouncedInv, Told, Shows, AtRuns
<1>1. CASE BeginShow
  BY <1>1 DEF BeginShow, ring, settings, pulse, reader
<1>2. CASE PrintMessage
  BY <1>2 DEF PrintMessage, ring, settings, pulse, host
<1>3. CASE ShowNext
  BY <1>3 DEF ShowNext, ClearSlot, settings, pulse, host
<1>4. CASE EndShow
  BY <1>4 DEF EndShow, ClearSlot, settings, pulse
<1> QED BY <1>1, <1>2, <1>3, <1>4 DEF Showing

\* The AT server takes a pulse away only when it marks the message.
LEMMA PendingCommand ==
    ASSUME TypeInv, PendingInv,
           \/ Setup
           \/ \E m \in {"uart", "gpio"} : SetMode(m)
           \/ \E p \in Pins, width \in Widths : PulseSetup(p, width)
    PROVE  PendingInv'
<1> USE DEF PendingInv, AloneInv, AnnouncedInv, Told, Shows, AtRuns
<1>1. CASE CreateTimer
  BY <1>1 DEF CreateTimer, SetupStep, ring, settings, host
<1>2. CASE StopTimer
  BY <1>2 DEF StopTimer, SetupStep, ring, settings, host
<1>3. CASE DeleteTimer
  BY <1>3 DEF DeleteTimer, SetupStep, ring, settings, host
<1>4. ASSUME NEW m \in {"uart", "gpio"}, SetMode(m) PROVE PendingInv'
  BY <1>4 DEF SetMode, Command, ring, reader, pulse, host
<1>5. ASSUME NEW p \in Pins, NEW width \in Widths, PulseSetup(p, width) PROVE PendingInv'
  <2>1. /\ UNCHANGED <<interrupts, index, arriving, report, timer, callback, high, over>>
        /\ at = "idle" /\ pin' = p
        /\ at' = IF width = 0 THEN "stop" ELSE "create"
        /\ interrupts = "no" => arriving = none /\ report = "idle"
    BY <1>5 DEF PulseSetup, Command, ring, settings
  <2>2. CASE width = 0 \/ p # pin
    <3>1. announced' = "yes" => announced = "yes" /\ over = "yes"
      BY <1>5, <2>2 DEF PulseSetup, TypeInv, TypeOK
    <3> QED BY <2>1, <3>1
  <2>3. CASE width # 0 /\ p = pin
    BY <1>5, <2>1, <2>3 DEF PulseSetup
  <2> QED BY <2>2, <2>3
<1> QED BY <1>1, <1>2, <1>3, <1>4, <1>5 DEF Setup

LEMMA PendingTimer ==
    ASSUME TypeInv, PendingInv, TimerExpires \/ PulseOver \/ UNCHANGED vars
    PROVE  PendingInv'
<1> USE DEF PendingInv, AloneInv, AnnouncedInv, Told, Shows, ring, settings, reader
<1>1. CASE TimerExpires
  BY <1>1 DEF TimerExpires, host
<1>2. CASE PulseOver
  BY <1>2 DEF PulseOver, TypeInv, TypeOK
<1>3. CASE UNCHANGED vars
  BY <1>3 DEF vars, pulse, host
<1> QED BY <1>1, <1>2, <1>3

LEMMA PendingInvariance == Spec => [](TypeInv /\ PendingInv)
<1>1. Init => PendingInv
  BY DEF Init, PendingInv, AloneInv, AnnouncedInv
<1>2. TypeInv /\ PendingInv /\ [Next]_vars => PendingInv'
  BY PendingWriter, PendingReader, PendingCommand, PendingTimer DEF Next, AtServer
<1> QED BY TypeInvariance, <1>1, <1>2, PTL DEF Spec

NeverForgotten == interrupts = "no" /\ announced = "yes" => Told

(* While a message is announced, its pin has gone low and the host has not *)
(* asked yet, or the pin will go low, or the ring is being shown: no       *)
(* interleaving of insertions, pulses, a timer that runs off under a       *)
(* report, and commands loses the announcement; AT+PULSEWIDTH may take it  *)
(* away (wiota_gpio_report_state, wiota_gpio_timer_cb, wiota_data_show).   *)
THEOREM AnnouncementKept == Spec => []NeverForgotten
<1>1. PendingInv => NeverForgotten
  BY DEF PendingInv, AnnouncedInv, NeverForgotten
<1> QED BY <1>1, PendingInvariance, PTL

==============================================================================
