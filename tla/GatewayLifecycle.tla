--------------------------- MODULE GatewayLifecycle ---------------------------
(***************************************************************************)
(* Starting and ending the gateway service of                              *)
(* PS/app/src/uc_wiota_gateway_api.c.  The AT server calls                 *)
(* uc_wiota_gateway_start and uc_wiota_gateway_end; a handler, that is a   *)
(* thread inside uc_wiota_gateway_api_handle, empties the message queue;   *)
(* the protocol stack and the soft timer fill it.  They share              *)
(* gateway_mode and two globals without a lock.                            *)
(*                                                                         *)
(* Without automatic connection every start creates a handler thread with  *)
(* the priority of the AT server, so the two interleave freely.  With it   *)
(* the one handler is the auto manager of PS/at/at_wiota_auto_manager.c,   *)
(* which has a lower priority and runs only while the AT server blocks.    *)
(***************************************************************************)
EXTENDS Integers, Sequences

CONSTANTS
    AutoConnect,    \* uc_wiota_get_auto_connect_flag()
    Tasks,          \* bound: gateway threads alive at the same time
    Manager,        \* the thread of the auto manager
    QueueSlots,     \* what the message queue holds (4)
    AuthAttempts,   \* re_auth_count (3)
    MaxLost,        \* timeouts without status that are tolerated (11)
    OutOfMemory     \* whether creating a queue, timer or thread may fail

Handlers == IF AutoConnect THEN {Manager} ELSE Tasks

ASSUME HandlerAssumption ==
    /\ AutoConnect \in BOOLEAN
    /\ OutOfMemory \in BOOLEAN
    /\ Manager \notin Tasks

ASSUME BoundAssumption ==
    /\ QueueSlots \in Nat
    /\ AuthAttempts \in Nat \ {0}
    /\ MaxLost \in Nat

VARIABLES
    gm,        \* the fields of gateway_mode that the threads share, GmRecord
    queue,     \* the messages in gateway_mq
    flag,      \* wiota_gw_connect_flag
    gstate,    \* uc_gateway_state
    callback,  \* who receives a normal message: "gw", "at" or "none"
    at,        \* where the AT server is, see AtPlaces
    count,     \* re_auth_count of the start in progress
    result,    \* what the last uc_wiota_gateway_start returned
    exitSent,  \* whether the queue took the EXIT of the end in progress
    refused,   \* whether a full queue has ever refused an EXIT
    hpc, lost, \* where each handler is, and its lost_count
    radio      \* uc_wiota_get_state()

vars == <<gm, queue, flag, gstate, callback, at, count, result, exitSent, refused,
          hpc, lost, radio>>

exitMarks == <<exitSent, refused>>

atLocals == <<count, result, exitMarks>>

(* gateway_mq points to a queue, to nothing, or to freed memory. *)
GmRecord ==
    [gateway_mode : {"on", "off"}, gateway_mq : {"null", "live", "dangling"},
     gateway_task_run : {"on", "off"}, exit_flag : {"on", "off"},
     allow_run_flag : {"on", "off"}, ota_timer : {"on", "off"}]

Messages == {"DL_RECV", "MISS_DATA_REQ", "EXIT"}

Flags == {"NO_CONNECT", "ATTEMPT_CONNECT", "CONNECT_FAIL", "CONNECT_SUCESS",
          "DISCONNECT"}

GatewayStates == {"DEFAULT", "NORMAL", "FAILED", "END"}

Results == {"OK", "NO_CONNECT", "NO_KEY", "QUEUE_FAIL", "MISSTIMER_FAIL",
            "TASK_FAIL", "AUTH_FAIL", "OTHER_FAIL"}

(* "auth": about to try; "response": auth() waits for the queue;           *)
(* "connect": it succeeded; "direct": a start without authentication;      *)
(* "returning": the delay after start; "posted": after send_exit;          *)
(* "delay": its 800 ms; "poll": wait_exit; "release": the rest of end.     *)
AtPlaces == {"idle", "auth", "response", "connect", "direct", "returning",
             "posted", "delay", "poll", "release"}

Ending == {"posted", "delay", "poll", "release"}

(* "away" and "strategy" are the manager's, "created" is a thread that has *)
(* not reached its first statement, "jump" is on its way to the boot       *)
(* loader, "tail" is the end of the function.                              *)
HandlerPlaces == {"none", "away", "strategy", "created", "loop", "recv",
                  "busy", "jump", "tail"}

Inside == {"loop", "recv", "busy", "jump"}

Alive == Inside \cup {"created", "tail"}

TypeOK ==
    /\ gm \in GmRecord
    /\ queue \in Seq(Messages)
    /\ Len(queue) <= QueueSlots
    /\ flag \in Flags
    /\ gstate \in GatewayStates
    /\ callback \in {"gw", "at", "none"}
    /\ at \in AtPlaces
    /\ count \in 0 .. AuthAttempts
    /\ result \in Results
    /\ exitSent \in {"yes", "no"}
    /\ refused \in {"yes", "no"}
    /\ hpc \in [Handlers -> HandlerPlaces]
    /\ lost \in [Handlers -> 0 .. (MaxLost + 1)]
    /\ radio \in {"sync", "null", "lost"}

Zeroed ==
    [gateway_mode |-> "off", gateway_mq |-> "null", gateway_task_run |-> "off",
     exit_flag |-> "off", allow_run_flag |-> "off", ota_timer |-> "off"]

Init ==
    /\ gm = Zeroed
    /\ queue = <<>>
    /\ flag = "NO_CONNECT"
    /\ gstate = "DEFAULT"
    /\ callback = "at"
    /\ at = "idle"
    /\ count = 0
    /\ result = "OK"
    /\ exitSent = "no"
    /\ refused = "no"
    /\ hpc = [h \in Handlers |-> "none"]
    /\ lost = [h \in Handlers |-> 0]
    /\ radio = "null"

-----------------------------------------------------------------------------
(* The message queue.  rt_mq_detach wakes who waits in rt_mq_recv with an  *)
(* error, so such a thread goes on with its loop.                          *)

(* Mutant: one message too many. *)
HasRoomForOneMore == Len(queue) <= QueueSlots

HasRoom == Len(queue) < QueueSlots

Woken == [h \in Handlers |-> IF hpc[h] = "recv" THEN "loop" ELSE hpc[h]]

(* The code goes wrong where it uses the pointer to a deleted queue; the   *)
(* model has no step there.                                                *)
Usable == gm.gateway_mq # "dangling"

-----------------------------------------------------------------------------
(* uc_wiota_gateway_start, called by at_wiota_gateway_api_init. *)

StartRefused ==
    /\ at = "idle"
    /\ \/ flag # "NO_CONNECT" /\ result' = "OTHER_FAIL"
       \/ flag = "NO_CONNECT" /\ radio # "sync" /\ result' = "NO_CONNECT"
       \/ flag = "NO_CONNECT" /\ result' = "NO_KEY"
    /\ at' = "returning"
    /\ UNCHANGED <<gm, queue, flag, gstate, callback, count, exitMarks, hpc,
                   lost, radio>>

(* rt_memset of gateway_mode, then gateway_mode and, later, gateway_mq. *)
Cleared(mq) == [Zeroed EXCEPT !.gateway_mode = "on", !.gateway_mq = mq]

(* is_force_active = 0 wants a synchronised terminal; an application may   *)
(* set it, so a start may go on without one.                               *)
MayStart == at = "idle" /\ flag = "NO_CONNECT"

StartNoQueue ==
    /\ OutOfMemory
    /\ MayStart
    /\ gm' = Cleared("null")
    /\ result' = "QUEUE_FAIL"
    /\ at' = "returning"
    /\ UNCHANGED <<queue, flag, gstate, callback, count, exitMarks, hpc, lost,
                   radio>>

(* The queue, the callback, and with authentication the first attempt. *)
StartBegins ==
    /\ MayStart
    /\ gm' = Cleared("live")
    /\ queue' = <<>>
    /\ callback' = "gw"
    /\ flag' = "ATTEMPT_CONNECT"
    /\ count' = AuthAttempts
    /\ at' \in {"auth", "direct"}
    /\ UNCHANGED <<gstate, result, exitMarks, hpc, lost, radio>>

(* The loop over re_auth_count around uc_wiota_gateway_auth. *)
AuthNoSync ==
    /\ at = "auth"
    /\ radio # "sync"
    /\ result' = "AUTH_FAIL"
    /\ at' = "returning"
    /\ UNCHANGED <<gm, queue, flag, gstate, callback, count, exitMarks, hpc,
                   lost, radio>>

AuthSend ==
    /\ at = "auth"
    /\ radio = "sync"
    /\ count' = count - 1
    /\ at' = "response"
    /\ UNCHANGED <<gm, queue, flag, gstate, callback, result, exitMarks, hpc,
                   lost, radio>>

(* uc_wiota_gateway_auth returned: 0 ends the loop, which then fails when  *)
(* re_auth_count is 0, whatever the outcome of the attempt.                *)
AfterAuth(ok) ==
    IF count = 0
    THEN at' = "returning" /\ result' = "AUTH_FAIL"
    ELSE at' = (IF ok THEN "connect" ELSE "auth") /\ UNCHANGED result

(* A message arrives: an answer of the gateway, or another message, after  *)
(* which auth goes on waiting until its time is up.                        *)
AuthAnswer ==
    /\ at = "response"
    /\ queue # <<>>
    /\ queue' = Tail(queue)
    /\ \E answer \in {"NORMAL", "FAILED", gstate} :
         /\ gstate' = answer
         /\ AfterAuth(answer = "NORMAL")
    /\ UNCHANGED <<gm, flag, callback, count, exitMarks, hpc, lost, radio>>

AuthOther ==
    /\ at = "response"
    /\ queue # <<>>
    /\ queue' = Tail(queue)
    /\ \/ UNCHANGED <<at, result>>
       \/ AfterAuth(gstate = "NORMAL")
    /\ UNCHANGED <<gm, flag, gstate, callback, count, exitMarks, hpc, lost,
                   radio>>

(* The request was not sent, nothing came, or it could not be decoded. *)
AuthFails ==
    /\ at = "response"
    /\ queue' \in {queue} \cup (IF queue = <<>> THEN {} ELSE {Tail(queue)})
    /\ AfterAuth(FALSE)
    /\ UNCHANGED <<gm, flag, gstate, callback, count, exitMarks, hpc, lost,
                   radio>>

(* The timer, then the handler: a new thread, or the manager. *)
Connect ==
    /\ at \in {"connect", "direct"}
    /\ flag' = "CONNECT_SUCESS"
    /\ gm' = [gm EXCEPT !.ota_timer = "on",
                        !.allow_run_flag = IF AutoConnect THEN "on" ELSE @]
    /\ \/ AutoConnect /\ UNCHANGED hpc
       \/ /\ ~AutoConnect
          /\ \E h \in Handlers : hpc[h] = "none"
                                 /\ hpc' = [hpc EXCEPT ![h] = "created"]
    /\ gstate' = IF at = "direct" THEN "NORMAL" ELSE gstate
    /\ result' = "OK"
    /\ at' = "returning"
    /\ UNCHANGED <<queue, callback, count, exitMarks, lost, radio>>

(* The timer or the thread cannot be created: the queue is deleted and     *)
(* gateway_mq is left as it is.                                            *)
ConnectFails ==
    /\ OutOfMemory
    /\ at \in {"connect", "direct"}
    /\ flag' = "CONNECT_SUCESS"
    /\ gm' = [gm EXCEPT !.gateway_mq = "dangling"]
    /\ queue' = <<>>
    /\ hpc' = Woken
    /\ result' \in {"MISSTIMER_FAIL"} \cup
                   (IF AutoConnect THEN {} ELSE {"TASK_FAIL"})
    /\ at' = "returning"
    /\ UNCHANGED <<gstate, callback, count, exitMarks, lost, radio>>

(* While the AT server sleeps, a handler that is ready to run, and a few   *)
(* instructions from its next wait, gets that far.                         *)
HandlersRan ==
    \A h \in Handlers :
        /\ hpc[h] \notin {"created", "loop"}
        /\ hpc[h] = "recv" => queue = <<>>

(* The AT command sleeps two ticks after every start. *)
StartReturns ==
    /\ at = "returning"
    /\ HandlersRan
    /\ at' = "idle"
    /\ UNCHANGED <<gm, queue, flag, gstate, callback, atLocals, hpc, lost,
                   radio>>

-----------------------------------------------------------------------------
(* uc_wiota_gateway_end, called by at_wiota_gateway_api_deinit.  A call    *)
(* that finds NO_CONNECT does nothing.                                     *)

(* uc_wiota_gateway_send_exit with g as gateway_mode.  When the queue is   *)
(* full a running task is told by gateway_task_run instead; no queue at    *)
(* all counts as a success.                                                *)
SendExit(g) ==
    \/ /\ g.gateway_mq = "live" /\ HasRoom
       /\ queue' = Append(queue, "EXIT")
       /\ exitSent' = "yes" /\ refused' = refused
       /\ gm' = g
       /\ at' = "posted"
    \/ /\ g.gateway_mq = "live" /\ ~HasRoom
       /\ queue' = queue
       /\ exitSent' = "no" /\ refused' = "yes"
       /\ gm' = [g EXCEPT !.gateway_task_run = "off"]
       /\ at' = IF g.gateway_task_run = "on" THEN "delay" ELSE "posted"
    \/ /\ g.gateway_mq = "null"
       /\ queue' = queue
       /\ exitSent' = "no" /\ refused' = refused
       /\ gm' = g
       /\ at' = "posted"

(* Callback and allow_run_flag off, NO_CONNECT, and send_exit. *)
EndBegins ==
    /\ at = "idle"
    /\ flag # "NO_CONNECT"
    /\ Usable
    /\ callback' = "none"
    /\ flag' = "NO_CONNECT"
    /\ SendExit([gm EXCEPT !.allow_run_flag = "off"])
    /\ UNCHANGED <<gstate, count, result, hpc, lost, radio>>

DelayOver ==
    /\ at = "delay"
    /\ HandlersRan
    /\ at' = "posted"
    /\ UNCHANGED <<gm, queue, flag, gstate, callback, atLocals, hpc, lost,
                   radio>>

(* uc_wiota_gateway_wait_exit *)
WaitExit ==
    /\ at = "posted"
    /\ at' = IF gm.gateway_task_run = "on" THEN "poll" ELSE "release"
    /\ UNCHANGED <<gm, queue, flag, gstate, callback, atLocals, hpc, lost,
                   radio>>

ExitSeen ==
    /\ at = "poll"
    /\ gm.exit_flag = "on"
    /\ at' = "release"
    /\ UNCHANGED <<gm, queue, flag, gstate, callback, atLocals, hpc, lost,
                   radio>>

(* The rest of uc_gateway_clean_data: timer, gateway_mode and queue. *)
Released(g) ==
    [g EXCEPT !.ota_timer = "off", !.gateway_mode = "off",
              !.gateway_mq = "null"]

Release ==
    /\ at = "release"
    /\ gm' = Released(gm)
    /\ queue' = <<>>
    /\ hpc' = Woken
    /\ callback' = "at"
    /\ gstate' = "END"
    /\ at' = "idle"
    /\ UNCHANGED <<flag, atLocals, lost, radio>>

-----------------------------------------------------------------------------
(* uc_wiota_gateway_api_handle. *)

(* The manager runs only while the AT server blocks. *)
MayRun(h) ==
    h = Manager => at \in {"idle", "response", "returning", "delay", "poll"}

Move(h, place) == hpc' = [hpc EXCEPT ![h] = place]

(* Mutant: exit_flag stays as the previous pass left it. *)
EnterKeepsExit(h) ==
    /\ hpc[h] = "created"
    /\ MayRun(h)
    /\ gm' = [gm EXCEPT !.gateway_task_run = "on"]
    /\ lost' = [lost EXCEPT ![h] = 0]
    /\ Move(h, "loop")
    /\ UNCHANGED <<queue, flag, gstate, callback, at, atLocals, radio>>

(* The first statements. *)
Enter(h) ==
    /\ hpc[h] = "created"
    /\ MayRun(h)
    /\ gm' = [gm EXCEPT !.exit_flag = "off", !.gateway_task_run = "on"]
    /\ lost' = [lost EXCEPT ![h] = 0]
    /\ Move(h, "loop")
    /\ UNCHANGED <<queue, flag, gstate, callback, at, atLocals, radio>>

(* Mutant: only gateway_task_run ends the loop. *)
GoesOnAnyway == gm.gateway_task_run = "on"

(* The conditions of the loop; a handler that passes waits in rt_mq_recv. *)
GoesOn ==
    /\ gm.gateway_task_run = "on"
    /\ gm.gateway_mode = "on"
    /\ gm.gateway_mq # "null"

Loop(h) ==
    /\ hpc[h] = "loop"
    /\ MayRun(h)
    /\ GoesOn => Usable
    /\ Move(h, IF GoesOn THEN "recv" ELSE "tail")
    /\ UNCHANGED <<gm, queue, flag, gstate, callback, at, atLocals, lost,
                   radio>>

RecvExit(h) ==
    /\ hpc[h] = "recv"
    /\ MayRun(h)
    /\ queue # <<>>
    /\ Head(queue) = "EXIT"
    /\ queue' = Tail(queue)
    /\ gm' = [gm EXCEPT !.exit_flag = "on"]
    /\ Move(h, "none")
    /\ UNCHANGED <<flag, gstate, callback, at, atLocals, lost, radio>>

RecvMessage(h) ==
    /\ hpc[h] = "recv"
    /\ MayRun(h)
    /\ queue # <<>>
    /\ Head(queue) # "EXIT"
    /\ queue' = Tail(queue)
    /\ Move(h, "busy")
    /\ UNCHANGED <<gm, flag, gstate, callback, at, atLocals, lost, radio>>

(* The message is handled, with its sends and delays; the answer to an     *)
(* authentication request sets the state here too.                         *)
Handled(h) ==
    /\ hpc[h] = "busy"
    /\ MayRun(h)
    /\ gstate' \in {gstate, "NORMAL", "FAILED"}
    /\ Move(h, "loop")
    /\ UNCHANGED <<gm, queue, flag, callback, at, atLocals, lost, radio>>

(* The message completes an upgrade of the device: 100 ms later the boot   *)
(* loader takes over, and the new program begins.                          *)
ImageComplete(h) ==
    /\ hpc[h] = "busy"
    /\ MayRun(h)
    /\ flag' = "DISCONNECT"
    /\ Move(h, "jump")
    /\ UNCHANGED <<gm, queue, gstate, callback, at, atLocals, lost, radio>>

Jump(h) ==
    /\ hpc[h] = "jump"
    /\ MayRun(h)
    /\ gm' = Zeroed
    /\ queue' = <<>>
    /\ flag' = "NO_CONNECT"
    /\ gstate' = "DEFAULT"
    /\ callback' = "at"
    /\ at' = "idle"
    /\ hpc' = [k \in Handlers |-> "none"]
    /\ radio' = "null"
    /\ UNCHANGED <<atLocals, lost>>

(* rt_mq_recv timed out: wiota_state_judge. *)
LostCount(h) ==
    CASE radio = "null" -> lost[h] + 1
      [] radio = "lost" -> lost[h]
      [] radio = "sync" -> 0

Reports(h) == radio = "lost" \/ LostCount(h) > MaxLost

Timeout(h) ==
    /\ hpc[h] = "recv"
    /\ MayRun(h)
    /\ queue = <<>>
    /\ lost' = [lost EXCEPT ![h] = LostCount(h)]
    /\ \/ Reports(h) /\ gstate' = "FAILED" /\ Move(h, "tail")
       \/ ~Reports(h) /\ UNCHANGED gstate /\ Move(h, "loop")
       \/ \* automatic connection and a bad success rate
          /\ ~Reports(h) /\ gm.allow_run_flag = "on"
          /\ UNCHANGED gstate /\ Move(h, "tail")
    /\ UNCHANGED <<gm, queue, flag, callback, at, atLocals, radio>>

(* Mutant: the function returns from the loop. *)
LeaveSilently(h) ==
    /\ hpc[h] = "tail"
    /\ MayRun(h)
    /\ Move(h, "none")
    /\ UNCHANGED <<gm, queue, flag, gstate, callback, at, atLocals, lost,
                   radio>>

(* The last statements. *)
Leave(h) ==
    /\ hpc[h] = "tail"
    /\ MayRun(h)
    /\ flag' = "CONNECT_FAIL"
    /\ gm' = [gm EXCEPT !.exit_flag = "on"]
    /\ Move(h, "none")
    /\ UNCHANGED <<queue, gstate, callback, at, atLocals, lost, radio>>

-----------------------------------------------------------------------------
(* The auto manager around the handler.  "none": the EXIT state that       *)
(* follows the handler; "away": INIT, SCAN and RUN; "strategy": the loop   *)
(* of at_wiota_manager_startegy.                                           *)

ManagerExits ==
    /\ hpc[Manager] = "none"
    /\ MayRun(Manager)
    /\ radio' = "null"
    /\ Move(Manager, "away")
    /\ UNCHANGED <<gm, queue, flag, gstate, callback, at, atLocals, lost>>

(* at_wiota_manager_run registers the callback of the AT server. *)
ManagerConnects ==
    /\ hpc[Manager] = "away"
    /\ MayRun(Manager)
    /\ callback' = "at"
    /\ radio' = "sync"
    /\ Move(Manager, "strategy")
    /\ UNCHANGED <<gm, queue, flag, gstate, at, atLocals, lost>>

StrategyHandles ==
    /\ hpc[Manager] = "strategy"
    /\ MayRun(Manager)
    /\ gm.allow_run_flag = "on"
    /\ Move(Manager, "created")
    /\ UNCHANGED <<gm, queue, flag, gstate, callback, at, atLocals, lost,
                   radio>>

(* Synchronisation lost, or a bad success rate. *)
StrategyLost ==
    /\ hpc[Manager] = "strategy"
    /\ MayRun(Manager)
    /\ gm.allow_run_flag = "off"
    /\ Move(Manager, "none")
    /\ UNCHANGED <<gm, queue, flag, gstate, callback, at, atLocals, lost,
                   radio>>

-----------------------------------------------------------------------------
(* The threads that fill the queue, and the radio.  A message for which    *)
(* there is no room is dropped.                                            *)

Posts(msg) ==
    /\ gm.gateway_mq = "live"
    /\ HasRoom
    /\ queue' = Append(queue, msg)
    /\ UNCHANGED <<gm, flag, gstate, callback, at, atLocals, hpc, lost, radio>>

Receive == callback = "gw" /\ Posts("DL_RECV")

TimerFires ==
    /\ gm.ota_timer = "on"
    /\ flag = "CONNECT_SUCESS"
    /\ Posts("MISS_DATA_REQ")

RadioChanges ==
    /\ radio' \in {"sync", "null", "lost"} \ {radio}
    /\ UNCHANGED <<gm, queue, flag, gstate, callback, at, atLocals, hpc, lost>>

-----------------------------------------------------------------------------
Start ==
    \/ StartRefused \/ StartNoQueue \/ StartBegins
    \/ AuthNoSync \/ AuthSend \/ AuthAnswer \/ AuthOther \/ AuthFails
    \/ Connect \/ ConnectFails \/ StartReturns

(* What follows the call of uc_wiota_gateway_end. *)
EndContinues == DelayOver \/ WaitExit \/ ExitSeen \/ Release

Handle(h) ==
    \/ Enter(h) \/ Loop(h) \/ RecvExit(h) \/ RecvMessage(h) \/ Handled(h)
    \/ ImageComplete(h) \/ Jump(h) \/ Timeout(h) \/ Leave(h)

Manage ==
    /\ AutoConnect
    /\ ManagerExits \/ ManagerConnects \/ StrategyHandles \/ StrategyLost

Environment == Receive \/ TimerFires \/ RadioChanges

Next ==
    \/ Start \/ EndBegins \/ EndContinues
    \/ \E h \in Handlers : Handle(h)
    \/ Manage \/ Environment

Spec == Init /\ [][Next]_vars

(* Delays and polls come to an end, and a ready thread is scheduled: each  *)
(* handler waits a bounded time for the queue and for its sends.  Nobody   *)
(* has to call start or end, and nothing has to arrive.                    *)
FairSpec ==
    /\ Spec
    /\ WF_vars(EndContinues)
    /\ \A h \in Handlers : WF_vars(Handle(h))

-----------------------------------------------------------------------------
(* Properties *)

(* When wiota_gw_connect_flag says that the gateway is connected, and so   *)
(* lets data be sent, a handler serves the queue or is about to: a new     *)
(* thread, or the manager, which enters while allow_run_flag is set.  A    *)
(* handler that gives up says so in the flag, even when an end, a new      *)
(* start and a handler of an earlier start come in between.  Start breaks  *)
(* this itself when memory runs out after it has deleted the queue.        *)
ConnectedServed ==
    flag = "CONNECT_SUCESS" /\ Usable =>
        \/ \E h \in Handlers : hpc[h] \in Alive
        \/ gm.allow_run_flag = "on"

(* uc_wiota_gateway_end does not poll exit_flag for ever once the queue    *)
(* has taken its EXIT: the handler reads it or gives up before, and no     *)
(* later handler resets exit_flag under the poll.                          *)
EndReturns == (at = "poll" /\ exitSent = "yes") ~> (at # "poll")

(* After an end every handler leaves, also one that was busy while the end *)
(* gave up waiting for it, unless a new start sets gateway_mode again.     *)
HandlersLeave ==
    (gm.gateway_mode = "off") ~>
        (gm.gateway_mode = "on" \/ \A h \in Handlers : hpc[h] \notin Inside)

(* With automatic connection, and as long as no EXIT found the queue full, *)
(* uc_wiota_gateway_end deletes the queue only when the manager is not in  *)
(* uc_wiota_gateway_api_handle, also when exit_flag and gateway_task_run   *)
(* are left over from an earlier pass through that function.               *)
ReleaseWaits ==
    at = "release" /\ refused = "no" =>
        \A h \in Handlers : hpc[h] \notin Inside

(* A start that follows an end is not refused with OTHER_FAIL, which the   *)
(* demo application (gateway_mode_entry) marks as not existing.  Violated: *)
(* a handler that leaves while or after end runs sets CONNECT_FAIL on top  *)
(* of the NO_CONNECT of end.                                               *)
RestartPossible ==
    at = "idle" /\ gm.gateway_mode = "off" => flag = "NO_CONNECT"

(* A start that returns AUTH_FAIL has not authenticated the terminal:      *)
(* uc_wiota_gateway_auth returns 0 for "success" and start should report   *)
(* it.  Violated: the success of the last attempt is taken for a failure.  *)
AuthReported ==
    at = "returning" /\ result = "AUTH_FAIL" => gstate # "NORMAL"
=============================================================================
