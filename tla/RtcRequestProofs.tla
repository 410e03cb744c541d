--------------------------- MODULE RtcRequestProofs ---------------------------
(***************************************************************************)
(* Proofs about RtcRequest, for any number of answers under way.           *)
(***************************************************************************)
EXTENDS RtcRequest, TLAPS

(* Removed callbacks stay removed until the next registration, and the     *)
(* handler is outside the response when a request has just been sent.      *)
SetupInv ==
    /\ at \in {"idle", "sending", "sent"} => cb = "none"
    /\ at = "sent" => hpc = "idle"
    /\ at \in {"sent", "registered", "taking"} => sent = "yes"
    /\ at = "sending" => sent = "no"

(* What stands for an answer to the AT server, a handler past the callback *)
(* or a token, was preceded by the callback.                               *)
GivenInv ==
    /\ at \in {"registered", "taking"} /\ hpc \in {"called", "release"} => given = "yes"
    /\ at = "taking" /\ tokens > 0 => given = "yes"
    /\ at \in {"over", "idle"} /\ sent = "yes" /\ result = 0 => given = "yes"

IInv == TypeOK /\ SetupInv /\ GivenInv

(* With automatic connection the handler is inside the response only while *)
(* the AT server waits for it, or when it has been overtaken.              *)
AutoInv ==
    auto = "on" /\ overtaken = "no" /\ hpc # "idle" => at = "taking" /\ tokens = 0

-----------------------------------------------------------------------------
(* The initial state, of no request. *)
LEMMA InitIInv == Init => IInv
  BY RequestAssumption DEF Init, IInv, TypeOK, SetupInv, GivenInv, Formats, AtPlaces,
     HandlerPlaces

(* The types are kept by every step. *)
LEMMA TypeStep == TypeOK /\ [Next]_vars => TypeOK'
<1> SUFFICES ASSUME TypeOK, [Next]_vars
             PROVE  TypeOK'
    OBVIOUS
<1>0. UNCHANGED auto
  BY DEF Next, vars
<1> USE <1>0, RequestAssumption DEF TypeOK, Formats, AtPlaces, HandlerPlaces, request, signal,
        response
<1>1. CASE AtServer
  BY <1>1 DEF AtServer, NotConnected, Request, Sent, SendFails, Register, CreateSem, Taken,
     TakeTimesOut, Unregister
<1>2. CASE Handler
  BY <1>2 DEF Handler, Response, CallBack, TestSem, ReleaseSem
<1>3. CASE AnswerLost
  BY <1>3 DEF AnswerLost
<1>4. CASE UNCHANGED vars
  BY <1>4 DEF vars
<1> QED
  BY <1>1, <1>2, <1>3, <1>4 DEF Next

(* The invariant is kept by every step. *)
LEMMA Step == IInv /\ [Next]_vars => IInv'
<1> SUFFICES ASSUME IInv, [Next]_vars
             PROVE  SetupInv' /\ GivenInv'
  BY TypeStep DEF IInv
<1> USE DEF IInv, SetupInv, GivenInv, request, signal, response
<1>1. CASE NotConnected \/ Request \/ SendFails
  BY <1>1 DEF NotConnected, Request, SendFails
<1>2. CASE Sent
  BY <1>2 DEF Sent
<1>3. CASE Register \/ CreateSem
  BY <1>3 DEF Register, CreateSem
<1>4. CASE Taken
  BY <1>4 DEF Taken
<1>5. CASE TakeTimesOut \/ Unregister
  BY <1>5 DEF TakeTimesOut, Unregister
<1>6. CASE Response
  BY <1>6 DEF Response
<1>7. CASE CallBack \/ TestSem
  BY <1>7 DEF CallBack, TestSem
<1>8. CASE ReleaseSem
  BY <1>8 DEF ReleaseSem
<1>9. CASE AnswerLost \/ UNCHANGED vars
  BY <1>9 DEF AnswerLost, vars
<1> QED
  BY <1>1, <1>2, <1>3, <1>4, <1>5, <1>6, <1>7, <1>8, <1>9 DEF Next, AtServer, Handler

(* get_rtc works on values of the right kind. *)
THEOREM TypeCorrect == Spec => []TypeOK
<1>1. Init => TypeOK
  BY InitIInv DEF IInv
<1> QED
  BY <1>1, TypeStep, PTL DEF Spec

(* A time was printed for every request that was sent and succeeded,       *)
(* whatever the order of answers, timeouts and requests.                   *)
THEOREM TimeGivenAlways == Spec => []TimeGiven
<1>1. IInv => TimeGiven
  BY DEF IInv, GivenInv, TimeGiven
<1> QED
  BY <1>1, InitIInv, Step, PTL DEF Spec

-----------------------------------------------------------------------------
(* The handler of automatic connection keeps its place. *)
LEMMA AutoStep ==
  ASSUME IInv, AutoInv, [Next]_vars
  PROVE  AutoInv'
<1>0. UNCHANGED auto
  BY DEF Next, vars
<1> USE <1>0 DEF AutoInv, IInv, SetupInv, request, signal, response
<1>1. CASE AtServer
  BY <1>1 DEF AtServer, NotConnected, Request, Sent, SendFails, Register, CreateSem, Taken,
     TakeTimesOut, Unregister
<1>2. CASE Handler
  BY <1>2 DEF Handler, Response, CallBack, TestSem, ReleaseSem, HandlerMayRun, AtBlocks
<1>3. CASE AnswerLost \/ UNCHANGED vars
  BY <1>3 DEF AnswerLost, vars
<1> QED
  BY <1>1, <1>2, <1>3 DEF Next

(* With automatic connection no time is printed outside a command, unless  *)
(* the timeout fell into the response.                                     *)
THEOREM TimeInside == Spec => TimeInsideCommand
<1> DEFINE Both == IInv /\ AutoInv
<1>1. Init => Both
  BY InitIInv DEF Init, AutoInv
<1>2. Both /\ [Next]_vars => Both'
  BY Step, AutoStep
<1>3. Both /\ [Next]_vars =>
        [auto = "on" /\ overtaken = "no" /\ hpc = "call" /\ hpc' = "called" => at # "idle"]_vars
  BY DEF AutoInv
<1> QED
  BY <1>1, <1>2, <1>3, PTL DEF Spec, TimeInsideCommand

===============================================================================
