------------------------------- MODULE TimeSlot -------------------------------
(***************************************************************************)
(* Sending in time-slot mode.  uc_wiota_gateway_wait_send_time_slot waits  *)
(* for a semaphore that the frame-number callback of the protocol stack    *)
(* releases in the frame of the terminal's slot.  The AT server and the    *)
(* handler of the gateway queue may wait at the same time; they share the  *)
(* flag is_waiting_ts and the semaphore.  Answers of the gateway change    *)
(* the slot while a thread waits for it, and the end of the service        *)
(* deletes the semaphore.                                                  *)
(*                                                                         *)
(* Time passes frame by frame.  A frame is longer than a hundred           *)
(* milliseconds: the steps that threads are ready to take, and the report  *)
(* of the frame, belong to the frame, and only blocked threads see it end. *)
(***************************************************************************)
EXTENDS Integers, FiniteSets

CONSTANTS
    Senders,      \* the threads that send
    Server,       \* the AT server among them, which starts and ends the service
    Pof,          \* frames of one period, gw_info.pof
    Slots,        \* the slots that the terminal may get or choose
    WokenUp,      \* whether the terminal was woken from sleep or by paging
    EveryFrame,   \* whether every frame is reported
    Calm          \* whether the slot changes at most once during a wait

ASSUME SlotAssumption ==
    /\ Server \in Senders
    /\ Pof \in Nat \ {0}
    /\ Slots \subseteq 0 .. (Pof - 1)
    /\ {WokenUp, EveryFrame, Calm} \subseteq BOOLEAN

VARIABLES
    fn,              \* the number of the frame within the period
    report,          \* whether the callback for this frame is still to come
    valid,           \* history: the slots of the terminal in this frame
    normal,          \* uc_gateway_state is GATEWAY_NORMAL
    ts_fn,           \* the slot of the registered terminal, gw_info.ts_fn
    auth_ts_fn,      \* the slot for the authentication
    service,         \* "up", "ending" or "down"
    is_send_sleep,   \* the flag of AT+GATEWAYSAS
    is_waiting_ts,   \* the flag that asks the callback for a release
    tokens,          \* the value of fn_refresh_sem
    place,           \* where each sender is, see Places
    left,            \* the frames before the wait of a sender times out
    shared,          \* history: another sender, or an end, disturbed a wait
    moved            \* history: the slot changed during a wait

air == <<fn, report>>
state == <<normal, ts_fn, auth_ts_fn>>
wait == <<is_waiting_ts, tokens, place, left>>
history == <<shared, moved>>
vars == <<air, valid, state, service, is_send_sleep, wait, history>>

(* "armed": the flag is set; "taking": in rt_sem_take; "send": about to    *)
(* hand the data to the stack; "radio": blocked in uc_wiota_send_data.     *)
Places == {"idle", "armed", "taking", "woken", "timedout", "send", "radio"}

Waiting == {"armed", "taking", "woken", "timedout"}

(* Mutant: one period. *)
OnePeriod == Pof

(* wait_timeout: (pof * 2 + 2) frames *)
Timeout == Pof * 2 + 2

TypeOK ==
    /\ fn \in 0 .. (Pof - 1)
    /\ {report, normal, is_send_sleep, is_waiting_ts} \subseteq BOOLEAN
    /\ valid \subseteq Slots
    /\ {ts_fn, auth_ts_fn} \subseteq Slots
    /\ service \in {"up", "ending", "down"}
    /\ tokens \in Nat
    /\ place \in [Senders -> Places]
    /\ left \in [Senders -> 0 .. Timeout]
    /\ shared \in [Senders -> BOOLEAN]
    /\ moved \in [Senders -> BOOLEAN]

(* After the first start. *)
Init ==
    /\ fn \in 0 .. (Pof - 1)
    /\ report = FALSE
    /\ ts_fn \in Slots
    /\ auth_ts_fn \in Slots
    /\ valid = {auth_ts_fn}
    /\ normal = FALSE
    /\ service = "up"
    /\ is_send_sleep = FALSE
    /\ is_waiting_ts = FALSE
    /\ tokens = 0
    /\ place = [s \in Senders |-> "idle"]
    /\ left = [s \in Senders |-> 0]
    /\ shared = [s \in Senders |-> FALSE]
    /\ moved = [s \in Senders |-> FALSE]

Slot == IF normal THEN ts_fn ELSE auth_ts_fn

-----------------------------------------------------------------------------
(* uc_wiota_gateway_wait_send_time_slot.  The AT server sends nothing when *)
(* the flag of the connection is off; the handler may still answer.        *)

SendsAtOnce == (WokenUp /\ is_send_sleep) \/ service = "down"

Begins(s) == place[s] = "idle" /\ (s = Server => service = "up")

Move(s, to) == place' = [place EXCEPT ![s] = to]

Elsewhere == UNCHANGED <<air, valid, state, service, is_send_sleep>>

NoWait(s) ==
    /\ Begins(s)
    /\ SendsAtOnce
    /\ Move(s, "radio")
    /\ UNCHANGED <<is_waiting_ts, tokens, left, history>> /\ Elsewhere

Others(s) == {o \in Senders \ {s} : place[o] \in Waiting}

Arm(s) ==
    /\ Begins(s)
    /\ ~SendsAtOnce
    /\ Move(s, "armed")
    /\ is_waiting_ts' = TRUE
    /\ shared' = [o \in Senders |->
                     IF o = s THEN Others(s) # {} \/ service # "up"
                     ELSE shared[o] \/ o \in Others(s)]
    /\ UNCHANGED <<tokens, left, moved>> /\ Elsewhere

(* The code has no defined step without the semaphore. *)
Take(s) ==
    /\ place[s] = "armed"
    /\ service # "down"
    /\ IF tokens > 0
       THEN Move(s, "woken") /\ tokens' = tokens - 1 /\ UNCHANGED left
       ELSE Move(s, "taking") /\ left' = [left EXCEPT ![s] = Timeout] /\ UNCHANGED tokens
    /\ UNCHANGED <<is_waiting_ts, history>> /\ Elsewhere

TimesOut(s) ==
    /\ place[s] = "taking"
    /\ left[s] = 0
    /\ Move(s, "timedout")
    /\ UNCHANGED <<is_waiting_ts, tokens, left, history>> /\ Elsewhere

(* The flag is cleared whoever else waits; after a timeout, or the         *)
(* deletion of the semaphore, nothing is sent.                             *)
Disarm(s) ==
    /\ \/ place[s] = "woken" /\ Move(s, "send")
       \/ place[s] = "timedout" /\ Move(s, "idle")
    /\ is_waiting_ts' = FALSE
    /\ left' = [left EXCEPT ![s] = 0]
    /\ shared' = [shared EXCEPT ![s] = FALSE]
    /\ moved' = [moved EXCEPT ![s] = FALSE]
    /\ UNCHANGED tokens /\ Elsewhere

Send(s) ==
    /\ place[s] = "send"
    /\ Move(s, "radio")
    /\ UNCHANGED <<is_waiting_ts, tokens, left, history>> /\ Elsewhere

SendReturns(s) ==
    /\ place[s] = "radio"
    /\ Move(s, "idle")
    /\ UNCHANGED <<is_waiting_ts, tokens, left, history>> /\ Elsewhere

-----------------------------------------------------------------------------
(* The callback with type UC_RECV_FN_CHANGE.  rt_sem_release hands the     *)
(* token to a thread that waits, if there is one.                          *)

(* Mutant: the flag is not looked at. *)
AlwaysDue == service = "up" /\ fn = Slot

Due == service = "up" /\ is_waiting_ts /\ fn = Slot

FnChange ==
    /\ report
    /\ report' = FALSE
    /\ \/ /\ ~Due
          /\ UNCHANGED <<tokens, place>>
       \/ /\ Due
          /\ \E s \in Senders : place[s] = "taking" /\ Move(s, "woken")
          /\ UNCHANGED tokens
       \/ /\ Due
          /\ \A s \in Senders : place[s] # "taking"
          /\ tokens' = tokens + 1
          /\ UNCHANGED place
    /\ UNCHANGED <<fn, valid, state, service, is_send_sleep, is_waiting_ts, left,
                   history>>

(* Mutant: the frame number is not reduced to the period. *)
FrameNumber == fn + 1

CurTsFn == (fn + 1) % Pof

NextFrame ==
    /\ ~report
    /\ \A s \in Senders :
          \/ place[s] \in {"idle", "radio"}
          \/ place[s] = "taking" /\ left[s] > 0
    /\ fn' = CurTsFn
    /\ report' \in {service # "down", service # "down" /\ EveryFrame}
    /\ valid' = {Slot}
    /\ left' = [s \in Senders |-> IF place[s] = "taking" THEN left[s] - 1 ELSE left[s]]
    /\ UNCHANGED <<state, service, is_send_sleep, is_waiting_ts, tokens, place, history>>

-----------------------------------------------------------------------------
(* The slot of the terminal changes.  A thread that does not wait itself   *)
(* does it: the handler, or the AT server inside start.                    *)

SlotIsNew ==
    /\ valid' = valid \cup {Slot'}
    /\ moved' = [s \in Senders |->
                    moved[s] \/ (place[s] \in Waiting /\ Slot' # Slot)]

MayMove ==
    /\ \E s \in Senders : place[s] = "idle"
    /\ Calm => \A s \in Senders : place[s] \in Waiting => ~moved[s]

(* uc_wiota_gateway_auth_res_msg *)
AuthSucceeds ==
    /\ MayMove
    /\ ~normal
    /\ normal' = TRUE
    /\ ts_fn' \in Slots
    /\ UNCHANGED <<air, auth_ts_fn, service, is_send_sleep, wait, shared>>
    /\ SlotIsNew

(* The same, or the network is lost. *)
AuthFails ==
    /\ MayMove
    /\ normal' = FALSE
    /\ UNCHANGED <<air, ts_fn, auth_ts_fn, service, is_send_sleep, wait, shared>>
    /\ SlotIsNew

(* uc_wiota_gateway_calc_auth_time_slot_fn, before a request is sent *)
CalcAuthTsFn ==
    /\ MayMove
    /\ auth_ts_fn' \in Slots
    /\ UNCHANGED <<air, normal, ts_fn, service, is_send_sleep, wait, shared>>
    /\ SlotIsNew

-----------------------------------------------------------------------------
(* Commands of the AT server *)

(* AT+GATEWAYSAS *)
SetSendSleep ==
    /\ place[Server] = "idle"
    /\ is_send_sleep' \in BOOLEAN
    /\ UNCHANGED <<air, valid, state, service, wait, history>>

Disturbed == [s \in Senders |-> shared[s] \/ place[s] \in Waiting]

(* uc_gateway_clean_data: first the callback is removed ... *)
EndBegins ==
    /\ place[Server] = "idle"
    /\ service = "up"
    /\ service' = "ending"
    /\ shared' = Disturbed
    /\ UNCHANGED <<air, valid, state, is_send_sleep, wait, moved>>

(* ... and, when the handler has left or 800 ms are over, the semaphore is *)
(* deleted, which ends the waits for it with an error.                     *)
EndDeletes ==
    /\ service = "ending"
    /\ service' = "down"
    /\ tokens' = 0
    /\ place' = [s \in Senders |-> IF place[s] = "taking" THEN "timedout" ELSE place[s]]
    /\ normal' = FALSE
    /\ UNCHANGED <<air, ts_fn, auth_ts_fn, is_send_sleep, is_waiting_ts, left, shared>>
    /\ SlotIsNew

(* uc_wiota_gateway_start, with or without authentication.  gateway_mode   *)
(* is cleared; a handler of the time before may still be on its way.       *)
StartAgain ==
    /\ place[Server] = "idle"
    /\ service = "down"
    /\ service' = "up"
    /\ is_waiting_ts' = FALSE
    /\ is_send_sleep' = FALSE
    /\ normal' \in BOOLEAN
    /\ auth_ts_fn' \in Slots
    /\ UNCHANGED <<air, ts_fn, tokens, place, left, shared>>
    /\ SlotIsNew

-----------------------------------------------------------------------------
Sender(s) ==
    \/ NoWait(s) \/ Arm(s) \/ Take(s) \/ TimesOut(s) \/ Disarm(s) \/ Send(s)
    \/ SendReturns(s)

SlotChange == AuthSucceeds \/ AuthFails \/ CalcAuthTsFn

Command == SetSendSleep \/ EndBegins \/ EndDeletes \/ StartAgain

Next ==
    \/ \E s \in Senders : Sender(s)
    \/ FnChange \/ NextFrame \/ SlotChange \/ Command

Spec == Init /\ [][Next]_vars

-----------------------------------------------------------------------------
(* A sender that has waited sends in a slot that the terminal has in this  *)
(* frame: no token is left by a wait that ended otherwise, nor carried     *)
(* over a change of the slot, an end or a new start.                       *)
SentInSlot == \A s \in Senders : place[s] = "send" => fn \in valid

(* A wait times out only when another sender waited at the same time and   *)
(* cleared the flag, or the service ended: a sender on its own gets a      *)
(* slot, also when its slot changes once while it waits.                   *)
LoneSenderServed == \A s \in Senders : place[s] = "timedout" => shared[s]

===============================================================================
