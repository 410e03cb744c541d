---------------------------- MODULE TimeSlotProofs ----------------------------
(***************************************************************************)
(* Proofs about TimeSlot, for any senders, any period and any slots, when  *)
(* every frame is reported and the slot changes at most once during a      *)
(* wait.                                                                   *)
(***************************************************************************)
EXTENDS TimeSlot, TLAPS

(* How many frames ago the slot was reported.                              *)
Since ==
    IF fn = Slot THEN IF report THEN Pof ELSE 0
    ELSE IF fn > Slot THEN fn - Slot ELSE fn + Pof - Slot

(* What a change of the slot may have cost a sender that waits.            *)
Lag(s) == IF moved[s] THEN Pof ELSE 0

InTime(s) == place[s] = "taking" /\ left[s] >= Timeout - Since - Lag(s)

(* The flag has been set after the last report of the slot, by a sender    *)
(* that still waits, and for less than a period; or it has just had its    *)
(* effect.                                                                 *)
FlagInv ==
    service = "up" /\ is_waiting_ts =>
        \E r \in Senders :
            place[r] = "armed" \/ InTime(r) \/ (place[r] = "woken" /\ ~report)

(* A token is taken in the frame in which it was released.                 *)
TokenInv ==
    tokens > 0 =>
        /\ tokens = 1 /\ fn \in valid /\ ~report
        /\ \E r \in Senders : place[r] = "armed"

WakeInv ==
    /\ Slot \in valid
    /\ \A s \in Senders : place[s] \in {"woken", "send"} => fn \in valid /\ ~report

IInv == TypeOK /\ FlagInv /\ TokenInv /\ WakeInv

(* A sender whose wait nobody has disturbed has its flag.                  *)
LoneInv ==
    \A s \in Senders :
        /\ place[s] \in Waiting /\ ~shared[s] => Others(s) = {} /\ service = "up"
        /\ place[s] \in {"armed", "taking"} /\ ~shared[s] => is_waiting_ts
        /\ place[s] = "timedout" => shared[s]

-----------------------------------------------------------------------------
(* Arithmetic of frames.                                                   *)

LEMMA Numbers == Pof \in Nat /\ Pof > 0 /\ Timeout \in Nat /\ Timeout = 2 * Pof + 2
  BY SlotAssumption DEF Timeout

LEMMA FramesAgo ==
    ASSUME NEW f \in 0 .. (Pof - 1), NEW t \in 0 .. (Pof - 1), f # t
    PROVE  (IF f > t THEN f - t ELSE f + Pof - t) \in 0 .. Pof
  BY Numbers

LEMMA SinceType ==
    ASSUME TypeOK
    PROVE  Slot \in Slots /\ Slot \in 0 .. (Pof - 1) /\ Since \in 0 .. Pof
<1>1. Slot \in Slots /\ Slot \in 0 .. (Pof - 1)
  BY SlotAssumption DEF TypeOK, Slot
<1> QED BY <1>1, Numbers DEF TypeOK, Since

LEMMA NextFrameNumber ==
    ASSUME fn \in 0 .. (Pof - 1)
    PROVE  CurTsFn = IF fn = Pof - 1 THEN 0 ELSE fn + 1
<1>1. Pof \in Nat /\ Pof > 0 /\ fn \in Nat /\ fn <= Pof - 1
  BY Numbers
<1>2. CASE fn = Pof - 1
  <2>1. fn + 1 = Pof /\ Pof % Pof = 0
    BY <1>1, <1>2
  <2> QED BY <1>2, <2>1 DEF CurTsFn
<1>3. CASE fn # Pof - 1
  <2>1. fn + 1 \in 0 .. (Pof - 1)
    BY <1>1, <1>3
  <2>2. (fn + 1) % Pof = fn + 1
    BY <1>1, <2>1
  <2> QED BY <1>3, <2>2 DEF CurTsFn
<1> QED BY <1>2, <1>3

\* Every frame counts, when every frame is reported.
LEMMA SinceNext ==
    ASSUME EveryFrame, TypeOK, NextFrame, service = "up"
    PROVE  Slot' = Slot /\ Since' = Since + 1
<1>1. fn \in 0 .. (Pof - 1) /\ ~report /\ report' = TRUE /\ fn' = CurTsFn
  BY DEF TypeOK, NextFrame
<1>2. Slot' = Slot /\ Slot \in 0 .. (Pof - 1)
  BY SinceType DEF Slot, NextFrame, state
<1>3. fn' = IF fn = Pof - 1 THEN 0 ELSE fn + 1
  BY <1>1, NextFrameNumber
<1> QED BY <1>1, <1>2, <1>3, Numbers DEF Since

-----------------------------------------------------------------------------
LEMMA SlotType ==
    ASSUME TypeOK, SlotIsNew, normal' \in BOOLEAN, ts_fn' \in Slots, auth_ts_fn' \in Slots
    PROVE  valid' \subseteq Slots /\ moved' \in [Senders -> BOOLEAN]
<1>1. Slot' \in Slots
  BY DEF Slot
<1> QED BY <1>1 DEF SlotIsNew, TypeOK

LEMMA TypeStep == TypeOK /\ [Next]_vars => TypeOK'
<1> SUFFICES ASSUME TypeOK, [Next]_vars PROVE TypeOK'
    OBVIOUS
<1>0. EveryFrame \in BOOLEAN
  BY SlotAssumption
<1> USE DEF TypeOK, Places, Move, air, state, wait, history, Elsewhere
<1>1. ASSUME NEW s \in Senders, Sender(s) PROVE TypeOK'
  <2>1. CASE Arm(s)
    <3>1. shared' \in [Senders -> BOOLEAN]
      BY <2>1 DEF Arm
    <3>2. place' \in [Senders -> Places] /\ is_waiting_ts' = TRUE
      BY <2>1 DEF Arm
    <3>3. UNCHANGED <<fn, report, valid, normal, ts_fn, auth_ts_fn, service,
                      is_send_sleep, tokens, left, moved>>
      BY <2>1 DEF Arm
    <3> QED BY <3>1, <3>2, <3>3
  <2>2. CASE Take(s)
    BY <2>2, Numbers DEF Take
  <2>3. CASE NoWait(s) \/ TimesOut(s)
    BY <2>3 DEF NoWait, TimesOut
  <2>4. CASE Disarm(s)
    <3>1. place' \in [Senders -> Places]
      BY <2>4 DEF Disarm
    <3>2. shared' \in [Senders -> BOOLEAN] /\ moved' \in [Senders -> BOOLEAN]
      BY <2>4 DEF Disarm
    <3>3. left' \in [Senders -> 0 .. Timeout]
      BY <2>4, Numbers DEF Disarm
    <3>4. UNCHANGED <<fn, report, valid, normal, ts_fn, auth_ts_fn, service,
                      is_send_sleep, tokens>> /\ is_waiting_ts' = FALSE
      BY <2>4 DEF Disarm
    <3> QED BY <3>1, <3>2, <3>3, <3>4
  <2>5. CASE Send(s) \/ SendReturns(s)
    BY <2>5 DEF Send, SendReturns
  <2> QED BY <1>1, <2>1, <2>2, <2>3, <2>4, <2>5 DEF Sender
<1>2. CASE FnChange
  <2>1. /\ UNCHANGED <<fn, valid, state, service, is_send_sleep, is_waiting_ts, left, history>>
        /\ report' = FALSE
    BY <1>2 DEF FnChange
  <2>2. tokens' \in Nat
    BY <1>2 DEF FnChange
  <2>3. place' \in [Senders -> Places]
    BY <1>2 DEF FnChange
  <2> QED BY <2>1, <2>2, <2>3
<1>3. CASE NextFrame
  <2>1. fn' \in 0 .. (Pof - 1)
    <3>1. fn' = IF fn = Pof - 1 THEN 0 ELSE fn + 1
      BY <1>3, NextFrameNumber DEF NextFrame
    <3> QED BY <3>1, Numbers
  <2>2. report' \in BOOLEAN
    <3>1. report' = (service # "down") \/ report' = (service # "down" /\ EveryFrame)
      BY <1>3, Zenon DEF NextFrame
    <3> QED BY <3>1, <1>0
  <2>3. left' \in [Senders -> 0 .. Timeout]
    <3>1. left' = [s \in Senders |-> IF place[s] = "taking" THEN left[s] - 1 ELSE left[s]]
      BY <1>3 DEF NextFrame
    <3>2. ASSUME NEW s \in Senders, place[s] = "taking" PROVE left[s] > 0
      BY <1>3, <3>2 DEF NextFrame
    <3> QED BY <3>1, <3>2, Numbers
  <2>4. valid' \subseteq Slots
    BY <1>3, SinceType DEF NextFrame
  <2>5. UNCHANGED <<state, service, is_send_sleep, is_waiting_ts, tokens, place, history>>
    BY <1>3 DEF NextFrame
  <2> QED BY <2>1, <2>2, <2>3, <2>4, <2>5
<1>4. CASE SlotChange
  <2>1. UNCHANGED <<air, service, is_send_sleep, wait, shared>> /\ SlotIsNew
    BY <1>4 DEF SlotChange, AuthSucceeds, AuthFails, CalcAuthTsFn
  <2>2. normal' \in BOOLEAN /\ ts_fn' \in Slots /\ auth_ts_fn' \in Slots
    BY <1>4 DEF SlotChange, AuthSucceeds, AuthFails, CalcAuthTsFn
  <2>3. valid' \subseteq Slots /\ moved' \in [Senders -> BOOLEAN]
    BY <2>1, <2>2, SlotType
  <2> QED BY <2>1, <2>2, <2>3
<1>5. CASE SetSendSleep \/ EndBegins
  BY <1>5 DEF SetSendSleep, EndBegins, Disturbed
<1>6. CASE EndDeletes
  <2>1. normal' \in BOOLEAN /\ ts_fn' \in Slots /\ auth_ts_fn' \in Slots /\ SlotIsNew
    BY <1>6 DEF EndDeletes
  <2>2. valid' \subseteq Slots /\ moved' \in [Senders -> BOOLEAN]
    BY <2>1, SlotType
  <2>3. place' \in [Senders -> Places]
    BY <1>6 DEF EndDeletes
  <2> QED BY <1>6, <2>1, <2>2, <2>3 DEF EndDeletes
<1>7. CASE StartAgain
  <2>1. normal' \in BOOLEAN /\ ts_fn' \in Slots /\ auth_ts_fn' \in Slots /\ SlotIsNew
    BY <1>7 DEF StartAgain
  <2>2. valid' \subseteq Slots /\ moved' \in [Senders -> BOOLEAN]
    BY <2>1, SlotType
  <2> QED BY <1>7, <2>1, <2>2 DEF StartAgain
<1>8. CASE UNCHANGED vars
  BY <1>8 DEF vars
<1> QED BY <1>1, <1>2, <1>3, <1>4, <1>5, <1>6, <1>7, <1>8 DEF Next, Command

LEMMA InitType == Init => TypeOK
<1> SUFFICES ASSUME Init PROVE TypeOK
    OBVIOUS
<1>1. left = [s \in Senders |-> 0] /\ 0 \in 0 .. Timeout
  BY Numbers DEF Init
<1>2. left \in [Senders -> 0 .. Timeout]
  BY <1>1
<1>3. place \in [Senders -> Places] /\ shared \in [Senders -> BOOLEAN] /\ moved \in [Senders -> BOOLEAN]
  BY DEF Init, Places
<1>4. tokens \in Nat /\ valid \subseteq Slots
  BY DEF Init
<1> QED BY <1>2, <1>3, <1>4 DEF Init, TypeOK

(* No variable leaves its range.                                           *)
THEOREM TypeCorrect == Spec => []TypeOK
  BY InitType, TypeStep, PTL DEF Spec

-----------------------------------------------------------------------------
\* What an action of a sender leaves alone.
LEMMA SenderKeeps ==
    ASSUME NEW s \in Senders, TypeOK, Sender(s)
    PROVE  /\ UNCHANGED <<fn, report, valid, service>> /\ Slot' = Slot /\ Since' = Since
           /\ \A r \in Senders \ {s} :
                 place'[r] = place[r] /\ left'[r] = left[r] /\ moved'[r] = moved[r]
<1>1. UNCHANGED <<fn, report, valid, service, normal, ts_fn, auth_ts_fn>>
  BY DEF Sender, NoWait, Arm, Take, TimesOut, Disarm, Send, SendReturns, Elsewhere, air, state
<1>2. Slot' = Slot
  BY <1>1 DEF Slot
<1>3. \A r \in Senders \ {s} :
          place'[r] = place[r] /\ left'[r] = left[r] /\ moved'[r] = moved[r]
  BY DEF Sender, NoWait, Arm, Take, TimesOut, Disarm, Send, SendReturns, Move, history, TypeOK
<1> QED BY <1>1, <1>2, <1>3 DEF Since

LEMMA SenderFlag ==
    ASSUME NEW s \in Senders, IInv, Sender(s)
    PROVE  FlagInv'
<1> SUFFICES ASSUME service = "up", is_waiting_ts' PROVE FlagInv'
    BY SenderKeeps DEF FlagInv, IInv
<1> USE SenderKeeps DEF IInv, TypeOK, Move
<1>1. CASE Arm(s)
  <2>1. place'[s] = "armed"
    BY <1>1 DEF Arm
  <2> QED BY <2>1 DEF FlagInv
<1>2. CASE ~Arm(s)
  <2>1. is_waiting_ts /\ ~Disarm(s)
    BY <1>2 DEF Sender, NoWait, Take, TimesOut, Disarm, Send, SendReturns
  <2>2. PICK r \in Senders :
            place[r] = "armed" \/ InTime(r) \/ (place[r] = "woken" /\ ~report)
    BY <2>1 DEF FlagInv
  <2>3. CASE r # s
    <3>1. place'[r] = place[r] /\ (InTime(r) => InTime(r)')
      BY <2>3 DEF InTime, Lag
    <3> QED BY <2>2, <3>1 DEF FlagInv
  <2>4. CASE r = s /\ Take(s) /\ tokens > 0
    <3>1. place'[s] = "woken" /\ ~report
      BY <2>4 DEF Take, TokenInv
    <3> QED BY <3>1 DEF FlagInv
  <2>5. CASE r = s /\ Take(s) /\ ~(tokens > 0)
    <3>1. place'[s] = "taking" /\ left'[s] = Timeout /\ moved' = moved
      BY <2>5 DEF Take, history
    <3>2. Lag(s)' >= 0 /\ Lag(s)' \in Int
      BY <3>1, Numbers DEF Lag
    <3>3. InTime(s)'
      BY <3>1, <3>2, SinceType, Numbers DEF InTime
    <3> QED BY <3>3 DEF FlagInv
  <2>6. CASE r = s /\ ~Take(s)
    <3>1. TimesOut(s)
      BY <1>2, <2>1, <2>2, <2>6 DEF Sender, NoWait, Begins, Send, SendReturns, InTime
    <3>2. left[s] = 0 /\ left[s] >= Timeout - Since - Lag(s)
      BY <2>2, <2>6, <3>1 DEF TimesOut, InTime
    <3>3. Lag(s) \in 0 .. Pof
      BY Numbers DEF Lag
    <3> QED BY <3>2, <3>3, SinceType, Numbers
  <2> QED BY <2>3, <2>4, <2>5, <2>6
<1> QED BY <1>1, <1>2

LEMMA SenderToken ==
    ASSUME NEW s \in Senders, IInv, Sender(s)
    PROVE  TokenInv'
<1> SUFFICES ASSUME tokens' > 0 PROVE TokenInv'
    BY DEF TokenInv
<1> USE SenderKeeps DEF IInv, TypeOK, Move
<1>1. CASE Take(s)
  <2>1. tokens > 0
    BY <1>1 DEF Take
  <2> QED BY <1>1, <2>1 DEF Take, TokenInv
<1>2. CASE ~Take(s)
  <2>1. tokens' = tokens
    BY <1>2 DEF Sender, NoWait, Arm, TimesOut, Disarm, Send, SendReturns
  <2>2. PICK r \in Senders : place[r] = "armed"
    BY <2>1 DEF TokenInv
  <2>3. place'[r] = "armed"
    BY <1>2, <2>2 DEF Sender, NoWait, Begins, Arm, TimesOut, Disarm, Send, SendReturns
  <2> QED BY <2>1, <2>3 DEF TokenInv
<1> QED BY <1>1, <1>2

LEMMA SenderWake ==
    ASSUME NEW s \in Senders, IInv, Sender(s)
    PROVE  WakeInv'
<1> USE SenderKeeps DEF IInv, TypeOK, Move
<1>1. ASSUME place'[s] \in {"woken", "send"} PROVE fn \in valid /\ ~report
  <2>1. CASE Take(s)
    BY <1>1, <2>1 DEF Take, TokenInv
  <2>2. CASE Disarm(s)
    BY <1>1, <2>2 DEF Disarm, WakeInv
  <2> QED BY <1>1, <2>1, <2>2 DEF Sender, NoWait, Arm, TimesOut, Send, SendReturns
<1> QED BY <1>1 DEF WakeInv

-----------------------------------------------------------------------------
LEMMA FnChangeInv ==
    ASSUME IInv, FnChange
    PROVE  FlagInv' /\ TokenInv' /\ WakeInv'
<1>1. /\ report /\ report' = FALSE /\ Slot' = Slot
      /\ UNCHANGED <<fn, valid, service, is_waiting_ts, left, moved>>
  BY DEF FnChange, state, history, Slot
<1>2. tokens = 0 /\ \A r \in Senders : place[r] \notin {"woken", "send"}
  BY <1>1 DEF IInv, TypeOK, TokenInv, WakeInv
<1> USE <1>1 DEF IInv, TypeOK, Move
<1>3. CASE ~Due
  <2>1. UNCHANGED <<tokens, place>>
    BY <1>3 DEF FnChange
  <2>2. ASSUME is_waiting_ts, service = "up" PROVE Since' = Since
    BY <1>3, <2>2 DEF Due, Since
  <2>3. FlagInv'
    <3>1. ASSUME is_waiting_ts, service = "up" PROVE \A r \in Senders : InTime(r)' = InTime(r)
      BY <2>1, <2>2, <3>1 DEF InTime, Lag
    <3> QED BY <2>1, <3>1 DEF FlagInv
  <2> QED BY <1>2, <2>1, <2>3 DEF TokenInv, WakeInv
<1>4. ASSUME Due, NEW s \in Senders, place[s] = "taking", Move(s, "woken"), UNCHANGED tokens
      PROVE  FlagInv' /\ TokenInv' /\ WakeInv'
  <2>1. place'[s] = "woken" /\ \A r \in Senders \ {s} : place'[r] = place[r]
    BY <1>4
  <2> QED BY <1>2, <1>4, <2>1 DEF FlagInv, TokenInv, WakeInv, Due
<1>5. CASE /\ Due
           /\ \A s \in Senders : place[s] # "taking"
           /\ tokens' = tokens + 1 /\ UNCHANGED place
  <2>1. PICK r \in Senders : place[r] = "armed"
    BY <1>2, <1>5 DEF FlagInv, InTime, Due
  <2>2. tokens' = 1
    BY <1>2, <1>5
  <2>3. place'[r] = "armed" /\ fn' \in valid'
    BY <1>5, <2>1 DEF Due, WakeInv
  <2>4. FlagInv' /\ TokenInv'
    BY <2>2, <2>3 DEF FlagInv, TokenInv
  <2>5. WakeInv'
    BY <1>2, <1>5 DEF WakeInv
  <2> QED BY <2>4, <2>5
<1>6. \/ ~Due
      \/ Due /\ \E s \in Senders : place[s] = "taking" /\ Move(s, "woken") /\ UNCHANGED tokens
      \/ /\ Due
         /\ \A s \in Senders : place[s] # "taking"
         /\ tokens' = tokens + 1 /\ UNCHANGED place
  BY DEF FnChange
<1> QED BY <1>3, <1>4, <1>5, <1>6

LEMMA NextFrameInv ==
    ASSUME EveryFrame, IInv, NextFrame
    PROVE  FlagInv' /\ TokenInv' /\ WakeInv'
<1>1. UNCHANGED <<service, is_waiting_ts, tokens, place, moved>>
  BY DEF NextFrame, history
<1>2. \A s \in Senders : place[s] \in {"idle", "radio", "taking"}
  BY DEF NextFrame
<1>3. left' = [s \in Senders |-> IF place[s] = "taking" THEN left[s] - 1 ELSE left[s]]
  BY DEF NextFrame
<1>4. tokens = 0
  BY <1>2 DEF IInv, TypeOK, TokenInv
<1>5. Slot' \in valid'
  BY DEF NextFrame, state, Slot
<1>6. ASSUME service = "up", is_waiting_ts
      PROVE  \E r \in Senders : InTime(r)'
  <2>1. PICK r \in Senders : place[r] = "taking" /\ left[r] >= Timeout - Since - Lag(r)
    BY <1>2, <1>6 DEF IInv, FlagInv, InTime
  <2>2. left'[r] = left[r] - 1 /\ left[r] \in Int
    BY <1>3, <2>1 DEF IInv, TypeOK
  <2>3. Since \in Int /\ Timeout \in Int /\ Lag(r) \in Int /\ Lag(r)' = Lag(r)
    BY <1>1, SinceType, Numbers DEF IInv, Lag
  <2>4. Since' = Since + 1
    BY <1>6, SinceNext DEF IInv
  <2>5. left'[r] >= Timeout - Since' - Lag(r)'
    BY <2>1, <2>2, <2>3, <2>4
  <2> QED BY <1>1, <2>1, <2>5 DEF InTime
<1>7. FlagInv'
  BY <1>1, <1>6 DEF FlagInv
<1> QED BY <1>1, <1>2, <1>4, <1>5, <1>7 DEF TokenInv, WakeInv

-----------------------------------------------------------------------------
\* A new slot: what was in a slot of this frame still is.
LEMMA SlotMoves ==
    ASSUME IInv, SlotIsNew, UNCHANGED <<fn, report>>,
           \A s \in Senders : place'[s] \in {"woken", "send"} => place'[s] = place[s]
    PROVE  WakeInv' /\ valid \subseteq valid'
<1>1. valid' = valid \cup {Slot'}
  BY DEF SlotIsNew
<1> QED BY <1>1 DEF IInv, WakeInv

LEMMA SlotChangeInv ==
    ASSUME Calm, IInv, TypeOK', SlotChange
    PROVE  FlagInv' /\ TokenInv' /\ WakeInv'
<1>1. /\ UNCHANGED <<fn, report, service, is_waiting_ts, tokens, place, left>> /\ SlotIsNew
      /\ \A s \in Senders : place[s] \in Waiting => ~moved[s]
  BY DEF SlotChange, AuthSucceeds, AuthFails, CalcAuthTsFn, MayMove, air, wait
<1>2. WakeInv' /\ valid \subseteq valid'
  BY <1>1, SlotMoves
<1>3. ASSUME NEW r \in Senders, InTime(r) PROVE InTime(r)'
  <2>1. place[r] = "taking" /\ left[r] >= Timeout - Since /\ left[r] \in Int
    BY <1>1, <1>3, Numbers, SinceType DEF InTime, Lag, Waiting, IInv, TypeOK
  <2>2. moved'[r] = (Slot' # Slot)
    BY <1>1, <2>1 DEF SlotIsNew, Waiting
  <2>3. CASE Slot' = Slot
    <3>1. Since' = Since /\ Lag(r)' = 0
      BY <1>1, <2>2, <2>3 DEF Since, Lag
    <3> QED BY <1>1, <2>1, <3>1, SinceType, Numbers DEF InTime, IInv
  <2>4. CASE Slot' # Slot
    <3>1. Lag(r)' = Pof
      BY <2>2, <2>4 DEF Lag
    <3>2. Since \in 0 .. Pof
      BY SinceType DEF IInv
    <3>3. Since' \in 0 .. Pof
      <4>1. Slot' \in 0 .. (Pof - 1)
        BY SlotAssumption DEF TypeOK, Slot
      <4>2. fn' \in 0 .. (Pof - 1)
        BY DEF TypeOK
      <4>3. CASE fn' = Slot'
        <5>1. Since' = Pof \/ Since' = 0
          BY <4>3 DEF Since
        <5> QED BY <5>1, Numbers
      <4>4. CASE fn' # Slot'
        <5>1. Since' = IF fn' > Slot' THEN fn' - Slot' ELSE fn' + Pof - Slot'
          BY <4>4 DEF Since
        <5>2. (IF fn' > Slot' THEN fn' - Slot' ELSE fn' + Pof - Slot') \in 0 .. Pof
          BY <4>1, <4>2, <4>4, FramesAgo
        <5> QED BY <5>1, <5>2
      <4> QED BY <4>3, <4>4
    <3>4. left[r] >= Timeout - Since' - Pof
      BY <2>1, <3>2, <3>3, Numbers
    <3> QED BY <1>1, <2>1, <3>1, <3>4 DEF InTime
  <2> QED BY <2>3, <2>4
<1>4. FlagInv'
  BY <1>1, <1>3 DEF FlagInv, IInv
<1>5. TokenInv'
  BY <1>1, <1>2 DEF TokenInv, IInv
<1> QED BY <1>2, <1>4, <1>5

LEMMA CommandInv ==
    ASSUME IInv, Command \/ UNCHANGED vars
    PROVE  FlagInv' /\ TokenInv' /\ WakeInv'
<1>1. CASE SetSendSleep \/ EndBegins \/ UNCHANGED vars
  <2>1. UNCHANGED <<fn, report, valid, normal, ts_fn, auth_ts_fn, is_waiting_ts, tokens, place, left, moved>>
    BY <1>1 DEF SetSendSleep, EndBegins, vars, air, state, wait, history
  <2>2. Slot' = Slot /\ Since' = Since
    BY <2>1 DEF Slot, Since
  <2>3. service' = "up" => service = "up"
    BY <1>1 DEF SetSendSleep, EndBegins, vars
  <2>4. \A r \in Senders : InTime(r)' = InTime(r)
    BY <2>1, <2>2 DEF InTime, Lag
  <2>5. FlagInv'
    BY <2>1, <2>3, <2>4 DEF FlagInv, IInv
  <2> QED BY <2>1, <2>2, <2>5 DEF IInv, TokenInv, WakeInv
<1>2. CASE EndDeletes
  <2>1. /\ service' = "down" /\ tokens' = 0 /\ SlotIsNew /\ UNCHANGED <<fn, report>>
        /\ \A s \in Senders : place'[s] \in {"woken", "send"} => place'[s] = place[s]
    BY <1>2 DEF EndDeletes, air
  <2>2. WakeInv'
    BY <2>1, SlotMoves
  <2> QED BY <2>1, <2>2 DEF FlagInv, TokenInv
<1>3. CASE StartAgain
  <2>1. /\ is_waiting_ts' = FALSE /\ SlotIsNew
        /\ UNCHANGED <<fn, report, tokens, place>>
    BY <1>3 DEF StartAgain, air
  <2>2. WakeInv' /\ valid \subseteq valid'
    BY <2>1, SlotMoves
  <2> QED BY <2>1, <2>2 DEF FlagInv, TokenInv, IInv
<1> QED BY <1>1, <1>2, <1>3 DEF Command

LEMMA InvStep == EveryFrame /\ Calm /\ IInv /\ [Next]_vars => IInv'
<1> SUFFICES ASSUME EveryFrame, Calm, IInv, [Next]_vars
             PROVE  FlagInv' /\ TokenInv' /\ WakeInv'
    BY TypeStep DEF IInv
<1>1. ASSUME NEW s \in Senders, Sender(s) PROVE FlagInv' /\ TokenInv' /\ WakeInv'
  BY <1>1, SenderFlag, SenderToken, SenderWake
<1>2. TypeOK'
  BY TypeStep DEF IInv
<1> QED BY <1>1, <1>2, FnChangeInv, NextFrameInv, SlotChangeInv, CommandInv DEF Next

LEMMA InitInv == Init => IInv
<1>1. Init => FlagInv /\ TokenInv /\ WakeInv
  BY DEF Init, FlagInv, TokenInv, WakeInv, Slot
<1> QED BY <1>1, InitType DEF IInv

(* A sender that has waited hands its data over in a slot, whichever       *)
(* sender the token was meant for: a wait never leaves a token behind.     *)
THEOREM AlwaysInSlot ==
    ASSUME EveryFrame, Calm
    PROVE  Spec => []SentInSlot
<1>1. IInv => SentInSlot
  BY DEF IInv, WakeInv, SentInSlot
<1>2. Init => IInv
  BY InitInv
<1>3. IInv /\ [Next]_vars => IInv'
  BY InvStep
<1> QED BY <1>1, <1>2, <1>3, PTL DEF Spec

-----------------------------------------------------------------------------
LEMMA LoneSender ==
    ASSUME NEW s \in Senders, IInv, LoneInv, Sender(s)
    PROVE  LoneInv'
<1> SUFFICES ASSUME NEW r \in Senders
             PROVE  /\ place'[r] \in Waiting /\ ~shared'[r] => Others(r)' = {} /\ service = "up"
                    /\ place'[r] \in {"armed", "taking"} /\ ~shared'[r] => is_waiting_ts'
                    /\ place'[r] = "timedout" => shared'[r]
    BY SenderKeeps DEF LoneInv, IInv
<1> USE SenderKeeps DEF IInv, TypeOK, Move, Waiting
<1>1. CASE Arm(s)
  <2>1. shared' = [o \in Senders |->
                      IF o = s THEN Others(s) # {} \/ service # "up"
                      ELSE shared[o] \/ o \in Others(s)]
    BY <1>1 DEF Arm
  <2>2. CASE r = s
    <3>1. /\ shared'[s] = (Others(s) # {} \/ service # "up")
          /\ is_waiting_ts' /\ place'[s] = "armed"
      BY <1>1, <2>1 DEF Arm
    <3>2. Others(s)' = Others(s)
      BY DEF Others
    <3> QED BY <2>2, <3>1, <3>2
  <2>3. CASE r # s
    <3>1. shared'[r] = (shared[r] \/ r \in Others(s)) /\ place'[r] = place[r] /\ is_waiting_ts'
      BY <1>1, <2>1, <2>3 DEF Arm
    <3>2. place[r] \in Waiting => shared'[r]
      BY <2>3, <3>1 DEF Others
    <3> QED BY <3>1, <3>2
  <2> QED BY <2>2, <2>3
<1>2. CASE Disarm(s)
  <2>1. /\ place[s] \in Waiting /\ place'[s] \notin Waiting
        /\ \A o \in Senders \ {s} : place'[o] = place[o] /\ shared'[o] = shared[o]
    BY <1>2 DEF Disarm
  <2>2. CASE r = s
    BY <2>1, <2>2
  <2>3. CASE r # s
    <3>1. place'[r] = place[r] /\ shared'[r] = shared[r]
      BY <2>1, <2>3
    <3>2. place[r] \in Waiting => s \in Others(r)
      BY <2>1, <2>3 DEF Others
    <3> QED BY <3>1, <3>2 DEF LoneInv
  <2> QED BY <2>2, <2>3
<1>3. CASE ~Arm(s) /\ ~Disarm(s)
  <2>1. shared' = shared /\ is_waiting_ts' = is_waiting_ts
    BY <1>3 DEF Sender, NoWait, Take, TimesOut, Send, SendReturns, history
  <2>2. /\ place'[s] \in Waiting => place[s] \in Waiting
        /\ place'[s] \in {"armed", "taking"} => place[s] \in {"armed", "taking"}
    BY <1>3 DEF Sender, NoWait, Take, TimesOut, Send, SendReturns
  <2>3. /\ Others(r)' \subseteq Others(r)
        /\ place'[r] \in Waiting => place[r] \in Waiting
        /\ place'[r] \in {"armed", "taking"} => place[r] \in {"armed", "taking"}
    BY <2>2 DEF Others
  <2>4. place'[r] \in Waiting /\ ~shared'[r] => Others(r)' = {} /\ service = "up"
    BY <2>1, <2>3 DEF LoneInv
  <2>5. place'[r] \in {"armed", "taking"} /\ ~shared'[r] => is_waiting_ts'
    BY <2>1, <2>3 DEF LoneInv
  <2>6. ASSUME place'[r] = "timedout" PROVE shared[r]
    <3>1. CASE place[r] = "timedout"
      BY <3>1 DEF LoneInv
    <3>2. CASE place[r] # "timedout"
      <4>1. r = s /\ TimesOut(s)
        BY <2>6, <3>2, <1>3 DEF Sender, NoWait, Take, Send, SendReturns
      <4>2. place[s] = "taking" /\ left[s] = 0
        BY <4>1 DEF TimesOut
      <4>3. SUFFICES ASSUME ~shared[s] PROVE FALSE
        BY <4>1
      <4>4. is_waiting_ts /\ Others(s) = {} /\ service = "up"
        BY <4>2, <4>3 DEF LoneInv
      <4>5. PICK o \in Senders :
                place[o] = "armed" \/ InTime(o) \/ (place[o] = "woken" /\ ~report)
        BY <4>4 DEF FlagInv
      <4>6. o = s
        BY <4>4, <4>5 DEF Others, InTime
      <4>7. 0 >= Timeout - Since - Lag(s) /\ Lag(s) \in 0 .. Pof
        BY <4>2, <4>5, <4>6, Numbers DEF InTime, Lag
      <4> QED BY <4>7, SinceType, Numbers
    <3> QED BY <3>1, <3>2
  <2> QED BY <2>1, <2>4, <2>5, <2>6
<1> QED BY <1>1, <1>2, <1>3

\* Who is disturbed by the end of the service is marked first.
LEMMA LoneCommand ==
    ASSUME TypeOK, LoneInv, Command
    PROVE  LoneInv'
<1>1. CASE SetSendSleep
  BY <1>1 DEF SetSendSleep, LoneInv, Others, wait, history
<1>2. CASE EndBegins
  <2>1. UNCHANGED <<place, is_waiting_ts>>
    BY <1>2 DEF EndBegins, wait
  <2>2. \A s \in Senders : shared'[s] = (shared[s] \/ place[s] \in Waiting)
    BY <1>2 DEF EndBegins, Disturbed
  <2> QED BY <2>1, <2>2 DEF LoneInv, Waiting
<1>3. CASE EndDeletes
  <2>1. shared' = shared /\ service = "ending"
    BY <1>3 DEF EndDeletes
  <2>2. \A s \in Senders : place'[s] = IF place[s] = "taking" THEN "timedout" ELSE place[s]
    BY <1>3 DEF EndDeletes
  <2>3. \A s \in Senders : place[s] \in Waiting => shared[s]
    BY <2>1 DEF LoneInv
  <2> QED BY <2>1, <2>2, <2>3 DEF LoneInv, Waiting
<1>4. CASE StartAgain
  <2>1. UNCHANGED <<place, shared>> /\ service = "down"
    BY <1>4 DEF StartAgain
  <2>2. \A s \in Senders : place[s] \in Waiting => shared[s]
    BY <2>1 DEF LoneInv
  <2> QED BY <2>1, <2>2 DEF LoneInv, Waiting
<1> QED BY <1>1, <1>2, <1>3, <1>4 DEF Command

LEMMA LoneStep == IInv /\ LoneInv /\ [Next]_vars => LoneInv'
<1> SUFFICES ASSUME IInv, LoneInv, [Next]_vars PROVE LoneInv'
    OBVIOUS
<1>1. ASSUME NEW s \in Senders, Sender(s) PROVE LoneInv'
  BY <1>1, LoneSender
<1>2. CASE FnChange
  <2>1. UNCHANGED <<service, is_waiting_ts, shared>>
    BY <1>2 DEF FnChange, history
  <2>2. \A o \in Senders :
            /\ place'[o] \in Waiting <=> place[o] \in Waiting
            /\ place'[o] \in {"armed", "taking"} => place[o] \in {"armed", "taking"}
            /\ place'[o] = "timedout" => place[o] = "timedout"
    BY <1>2 DEF FnChange, Move, Waiting, IInv, TypeOK
  <2>3. \A o \in Senders : Others(o)' = Others(o)
    BY <2>2 DEF Others
  <2> QED BY <2>1, <2>2, <2>3 DEF LoneInv
<1>3. CASE NextFrame \/ SlotChange \/ UNCHANGED vars
  <2>1. UNCHANGED <<service, is_waiting_ts, shared, place>>
    BY <1>3 DEF NextFrame, SlotChange, AuthSucceeds, AuthFails, CalcAuthTsFn, vars, wait, history
  <2> QED BY <2>1 DEF LoneInv, Others
<1> QED BY <1>1, <1>2, <1>3, LoneCommand DEF Next, IInv

(* The wait of two periods and two frames is enough for a sender that      *)
(* nobody disturbs, also when its slot changes meanwhile: it does not time *)
(* out.                                                                    *)
THEOREM LoneAlwaysServed ==
    ASSUME EveryFrame, Calm
    PROVE  Spec => []LoneSenderServed
<1>1. LoneInv => LoneSenderServed
  BY DEF LoneInv, LoneSenderServed
<1>2. Init => IInv /\ LoneInv
  BY InitInv DEF Init, LoneInv, Waiting
<1>3. IInv /\ [Next]_vars => IInv'
  BY InvStep
<1>4. IInv /\ LoneInv /\ [Next]_vars => LoneInv'
  BY LoneStep
<1> QED BY <1>1, <1>2, <1>3, <1>4, PTL DEF Spec

===============================================================================
