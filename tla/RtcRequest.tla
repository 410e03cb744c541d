------------------------------ MODULE RtcRequest ------------------------------
(***************************************************************************)
(* AT+GATEWAYRTC: uc_wiota_gateway_get_rtc asks the gateway for the time   *)
(* and waits for the answer, which the handler of the gateway queue passes *)
(* to a callback before it releases a semaphore.  The AT server sets up    *)
(* and removes callback and semaphore, without a lock, around the wait.    *)
(* An answer does not name its request: one that is late is taken for the  *)
(* answer to the next request.                                             *)
(***************************************************************************)
EXTENDS Integers

CONSTANTS
    MaxAnswers      \* bound: answers under way at the same time

ASSUME RequestAssumption == MaxAnswers \in Nat

VARIABLES
    auto,     \* automatic connection: the handler has a lower priority
    at,       \* where the AT server is in get_rtc
    sent,     \* whether the request in progress, or the last one, was sent
    result,   \* what the last uc_wiota_gateway_get_rtc returned
    cb,       \* uc_wiota_gateway_rtc and rtc_fmt: "none" or a format
    sem,      \* rtc_sem: "null" or "live"
    tokens,   \* the value of the semaphore
    hpc,      \* where the handler is in the response
    answers,  \* how many answers are under way
    given,    \* history: whether the callback ran since the request was sent
    overtaken \* history: whether the request timed out inside a response

request == <<sent, result>>
signal == <<cb, sem, tokens>>
response == <<hpc, answers, given, overtaken>>
vars == <<auto, at, request, signal, response>>

(* 0xff is the mark for "no request", and also a number a user may type.   *)
Formats == {"seconds", "text", "0xff"}

AtPlaces == {"idle", "sending", "sent", "registered", "taking", "over"}

(* "call": the two tests are passed; "called": the callback has run;       *)
(* "release": rtc_sem was not null.                                        *)
HandlerPlaces == {"idle", "call", "called", "release"}

TypeOK ==
    /\ auto \in {"on", "off"}
    /\ at \in AtPlaces
    /\ sent \in {"yes", "no"}
    /\ result \in 0 .. 2
    /\ cb \in Formats \cup {"none"}
    /\ sem \in {"null", "live"}
    /\ tokens \in Nat
    /\ hpc \in HandlerPlaces
    /\ answers \in 0 .. MaxAnswers
    /\ given \in {"yes", "no"}
    /\ overtaken \in {"yes", "no"}

Init ==
    /\ auto \in {"on", "off"}
    /\ at = "idle" /\ sent = "no" /\ result = 1
    /\ cb = "none" /\ sem = "null" /\ tokens = 0
    /\ hpc = "idle" /\ answers = 0 /\ given = "no" /\ overtaken = "no"

-----------------------------------------------------------------------------
(* The AT server, in uc_wiota_gateway_get_rtc. *)

NotConnected ==
    /\ at = "idle"
    /\ result' = 1
    /\ sent' = "no"
    /\ UNCHANGED <<at, signal, response>>

Request ==
    /\ at = "idle"
    /\ at' = "sending"
    /\ sent' = "no"
    /\ UNCHANGED <<result, signal, response>>

(* While the AT server waited for the radio, a handler inside a response   *)
(* got to its end.                                                         *)
Sent ==
    /\ at = "sending"
    /\ hpc = "idle"
    /\ answers < MaxAnswers
    /\ at' = "sent"
    /\ answers' = answers + 1
    /\ sent' = "yes"
    /\ given' = "no"
    /\ overtaken' = "no"
    /\ UNCHANGED <<result, signal, hpc>>

(* ret keeps its 0. *)
SendFails ==
    /\ at = "sending"
    /\ at' = "over"
    /\ result' = 0
    /\ UNCHANGED <<sent, signal, response>>

Register ==
    /\ at = "sent"
    /\ at' = "registered"
    /\ cb' \in Formats
    /\ UNCHANGED <<request, sem, tokens, response>>

(* Mutant: one semaphore for all requests, which keeps its value. *)
ReuseSem ==
    /\ at = "registered"
    /\ at' = "taking"
    /\ sem' = "live"
    /\ UNCHANGED <<request, cb, tokens, response>>

CreateSem ==
    /\ at = "registered"
    /\ at' = "taking"
    /\ sem' = "live"
    /\ tokens' = 0
    /\ UNCHANGED <<request, cb, response>>

(* Mutant: the semaphore is taken without a look at its value. *)
TakenAnyway ==
    /\ at = "taking"
    /\ at' = "over"
    /\ tokens' = tokens - 1
    /\ result' = 0
    /\ UNCHANGED <<sent, cb, sem, response>>

Taken ==
    /\ at = "taking"
    /\ tokens > 0
    /\ at' = "over"
    /\ tokens' = tokens - 1
    /\ result' = 0
    /\ UNCHANGED <<sent, cb, sem, response>>

TakeTimesOut ==
    /\ at = "taking"
    /\ tokens = 0
    /\ at' = "over"
    /\ result' = 2
    /\ overtaken' = IF hpc = "idle" THEN "no" ELSE "yes"
    /\ UNCHANGED <<sent, signal, hpc, answers, given>>

(* Mutant: the callback stays registered. *)
DeleteSem ==
    /\ at = "over"
    /\ at' = "idle"
    /\ sem' = "null"
    /\ UNCHANGED <<request, cb, tokens, response>>

Unregister ==
    /\ at = "over"
    /\ at' = "idle"
    /\ cb' = "none"
    /\ sem' = "null"
    /\ UNCHANGED <<request, tokens, response>>

-----------------------------------------------------------------------------
(* The handler, in uc_wiota_gateway_recv_rtc_res_msg.  With automatic      *)
(* connection it runs only while the AT server blocks: for a command, in   *)
(* the send, or for the semaphore.                                         *)

AtBlocks ==
    \/ at \in {"idle", "sending"}
    \/ at = "taking" /\ tokens = 0

HandlerMayRun == auto = "on" => AtBlocks

Response ==
    /\ hpc = "idle"
    /\ HandlerMayRun
    /\ answers > 0
    /\ answers' = answers - 1
    /\ hpc' = IF cb \in {"none", "0xff"} THEN "idle" ELSE "call"
    /\ UNCHANGED <<at, request, signal, given, overtaken>>

AnswerLost ==
    /\ answers > 0
    /\ answers' = answers - 1
    /\ UNCHANGED <<at, request, signal, hpc, given, overtaken>>

(* The pointer that was tested is called, whatever has happened to cb. *)
CallBack ==
    /\ hpc = "call"
    /\ HandlerMayRun
    /\ hpc' = "called"
    /\ given' = "yes"
    /\ UNCHANGED <<at, request, signal, answers, overtaken>>

TestSem ==
    /\ hpc = "called"
    /\ HandlerMayRun
    /\ hpc' = IF sem = "null" THEN "idle" ELSE "release"
    /\ UNCHANGED <<at, request, signal, answers, given, overtaken>>

(* Releasing a semaphore that has been deleted is undefined; the model has *)
(* no step there.                                                          *)
ReleaseSem ==
    /\ hpc = "release"
    /\ HandlerMayRun
    /\ sem = "live"
    /\ hpc' = "idle"
    /\ tokens' = tokens + 1
    /\ UNCHANGED <<at, request, cb, sem, answers, given, overtaken>>

-----------------------------------------------------------------------------
AtServer ==
    \/ NotConnected \/ Request \/ Sent \/ SendFails \/ Register \/ CreateSem
    \/ Taken \/ TakeTimesOut \/ Unregister

Handler == Response \/ CallBack \/ TestSem \/ ReleaseSem

Next == (AtServer \/ Handler \/ AnswerLost) /\ UNCHANGED auto

Spec == Init /\ [][Next]_vars

-----------------------------------------------------------------------------
(* A request that was sent and is reported as successful has had its time  *)
(* printed: no token of an earlier answer, and no answer that was only     *)
(* half handled when an earlier request timed out, makes get_rtc return 0. *)
TimeGiven == at = "idle" /\ sent = "yes" /\ result = 0 => given = "yes"

(* With automatic connection the time is printed only between a command    *)
(* and its result: an answer that comes after the timeout prints nothing,  *)
(* unless the timeout fell into the response itself.  (Then, as with a     *)
(* handler of the same priority, the pointer that has been tested is       *)
(* called after get_rtc has removed it.)                                   *)
TimeInsideCommand ==
    [][auto = "on" /\ overtaken = "no" /\ hpc = "call" /\ hpc' = "called" => at # "idle"]_vars

===============================================================================
