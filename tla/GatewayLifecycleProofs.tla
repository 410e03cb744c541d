----------------------- MODULE GatewayLifecycleProofs -----------------------
(***************************************************************************)
(* The invariants of GatewayLifecycle for any number of gateway threads,   *)
(* any queue length and any limits, with and without automatic connection: *)
(* a reported connection is served, an end waits for the manager, its poll *)
(* is answered, and what it leaves behind only leaves.                     *)
(***************************************************************************)
EXTENDS GatewayLifecycle, TLAPS

(* The EXIT that stops a handler is in the queue only while an end runs. *)
ExitInv == \A i \in 1 .. Len(queue) : queue[i] = "EXIT" => at \in Ending

(* An end in progress has withdrawn CONNECT_SUCESS, and only a start that  *)
(* is about to return sets it.                                             *)
FlagInv == flag = "CONNECT_SUCESS" => at \notin Ending

(* There is an attempt left when the loop over re_auth_count goes on. *)
CountInv == at = "auth" => count # 0

(* A handler that counted too many timeouts is on its way out. *)
LostInv == \A h \in Handlers : hpc[h] \in Inside => lost[h] <= MaxLost

IInv == TypeOK /\ ExitInv /\ FlagInv /\ CountInv /\ LostInv /\ ConnectedServed

-----------------------------------------------------------------------------
(* Taking a message from the queue, and adding one that is not EXIT, or    *)
(* one while an end runs.                                                  *)
LEMMA TakeMessage ==
    ASSUME queue \in Seq(Messages), Len(queue) <= QueueSlots, queue # <<>>,
           QueueSlots \in Nat
    PROVE  /\ Tail(queue) \in Seq(Messages)
           /\ Len(Tail(queue)) <= QueueSlots
           /\ \A i \in 1 .. Len(Tail(queue)) :
                 i + 1 \in 1 .. Len(queue) /\ Tail(queue)[i] = queue[i + 1]
           /\ Head(queue) = queue[1]
           /\ 1 \in 1 .. Len(queue)
OBVIOUS

LEMMA AddMessage ==
    ASSUME queue \in Seq(Messages), HasRoom, QueueSlots \in Nat,
           NEW msg \in Messages
    PROVE  /\ Append(queue, msg) \in Seq(Messages)
           /\ Len(Append(queue, msg)) <= QueueSlots
           /\ \A i \in 1 .. Len(Append(queue, msg)) :
                 \/ i \in 1 .. Len(queue) /\ Append(queue, msg)[i] = queue[i]
                 \/ Append(queue, msg)[i] = msg
BY DEF HasRoom

LEMMA EmptyQueue ==
    ASSUME QueueSlots \in Nat
    PROVE  << >> \in Seq(Messages) /\ Len(<< >>) <= QueueSlots
           /\ 1 .. Len(<< >>) = {}
OBVIOUS

(* A place for one handler, and the wake-up of all who wait for the queue. *)
LEMMA MoveType ==
    ASSUME hpc \in [Handlers -> HandlerPlaces], NEW h \in Handlers,
           NEW p \in HandlerPlaces, Move(h, p)
    PROVE  /\ hpc' \in [Handlers -> HandlerPlaces]
           /\ hpc'[h] = p
           /\ \A k \in Handlers \ {h} : hpc'[k] = hpc[k]
BY DEF Move

LEMMA WokenType ==
    ASSUME hpc \in [Handlers -> HandlerPlaces], hpc' = Woken
    PROVE  /\ hpc' \in [Handlers -> HandlerPlaces]
           /\ \A h \in Handlers : hpc'[h] \in Inside <=> hpc[h] \in Inside
           /\ \A h \in Handlers : hpc'[h] \in Alive <=> hpc[h] \in Alive
BY DEF Woken, HandlerPlaces, Inside, Alive

(* The fields of gateway_mode keep their types. *)
LEMMA ClearedType ==
    ASSUME NEW mq \in {"null", "live", "dangling"}
    PROVE  Cleared(mq) \in GmRecord
BY DEF Cleared, Zeroed, GmRecord

-----------------------------------------------------------------------------
(* uc_wiota_gateway_start *)
LEMMA StartStep ==
    ASSUME IInv, Start
    PROVE  IInv'
<1> USE BoundAssumption, HandlerAssumption
<1> USE DEF IInv, exitMarks, atLocals
<1>1. CASE StartRefused
  BY <1>1 DEF StartRefused, TypeOK, ExitInv, FlagInv, CountInv, LostInv,
     ConnectedServed, Results, AtPlaces, Ending, Usable
<1>2. CASE StartNoQueue
  <2>1. gm' \in GmRecord /\ gm'.gateway_mq = "null"
    BY <1>2, ClearedType DEF StartNoQueue, Cleared, Zeroed
  <2> QED
    BY <1>2, <2>1 DEF StartNoQueue, MayStart, TypeOK, ExitInv, FlagInv,
       CountInv, LostInv, ConnectedServed, Results, AtPlaces, Ending
<1>3. CASE StartBegins
  <2>1. gm' \in GmRecord
    BY <1>3, ClearedType DEF StartBegins
  <2> QED
    BY <1>3, <2>1, EmptyQueue DEF StartBegins, MayStart, TypeOK, ExitInv,
       FlagInv, CountInv, LostInv, ConnectedServed, Flags, AtPlaces, Ending
<1>4. CASE AuthNoSync
  BY <1>4 DEF AuthNoSync, TypeOK, ExitInv, FlagInv, CountInv, LostInv,
     ConnectedServed, Results, AtPlaces, Ending, Usable
<1>5. CASE AuthSend
  BY <1>5 DEF AuthSend, TypeOK, ExitInv, FlagInv, CountInv, LostInv,
     ConnectedServed, AtPlaces, Ending, Usable
<1>6. CASE AuthAnswer
  <2>1. PICK answer \in {"NORMAL", "FAILED", gstate} :
            gstate' = answer /\ AfterAuth(answer = "NORMAL")
    BY <1>6 DEF AuthAnswer
  <2>2. gstate' \in GatewayStates
    BY <2>1 DEF TypeOK, GatewayStates
  <2>3. at' \in {"returning", "connect", "auth"} /\ result' \in Results
        /\ (at' = "auth" => count # 0)
    BY <2>1 DEF AfterAuth, TypeOK, Results
  <2> QED
    BY <1>6, <2>2, <2>3, TakeMessage DEF AuthAnswer, TypeOK, ExitInv,
       FlagInv, CountInv, LostInv, ConnectedServed, AtPlaces, Ending, Usable
<1>7. CASE AuthOther
  <2>1. at' \in {"returning", "connect", "auth", "response"}
        /\ result' \in Results /\ (at' = "auth" => count # 0)
    BY <1>7 DEF AuthOther, AfterAuth, TypeOK, Results
  <2> QED
    BY <1>7, <2>1, TakeMessage DEF AuthOther, TypeOK, ExitInv,
       FlagInv, CountInv, LostInv, ConnectedServed, AtPlaces, Ending, Usable
<1>8. CASE AuthFails
  <2>1. at' \in {"returning", "auth"} /\ result' \in Results
        /\ (at' = "auth" => count # 0)
    BY <1>8 DEF AuthFails, AfterAuth, TypeOK, Results
  <2>2. queue' = queue \/ (queue # <<>> /\ queue' = Tail(queue))
    BY <1>8 DEF AuthFails
  <2>3. /\ queue' \in Seq(Messages) /\ Len(queue') <= QueueSlots
        /\ \A i \in 1 .. Len(queue') : queue'[i] # "EXIT"
    <3>1. \A i \in 1 .. Len(queue) : queue[i] # "EXIT"
      BY <1>8 DEF AuthFails, ExitInv, Ending
    <3> QED
      BY <2>2, <3>1, TakeMessage DEF TypeOK
  <2> QED
    BY <1>8, <2>1, <2>3 DEF AuthFails, TypeOK, ExitInv,
       FlagInv, CountInv, LostInv, ConnectedServed, AtPlaces, Ending, Usable
<1>9. CASE Connect
  <2>1. gm' \in GmRecord
        /\ (AutoConnect => gm'.allow_run_flag = "on")
    BY <1>9 DEF Connect, TypeOK, GmRecord
  <2>2. CASE AutoConnect
    <3>1. hpc' = hpc
      BY <1>9, <2>2 DEF Connect
    <3>2. gm'.allow_run_flag = "on"
      BY <2>1, <2>2
    <3> QED
      BY <1>9, <2>1, <3>1, <3>2 DEF Connect, TypeOK, ExitInv, FlagInv,
         CountInv, LostInv, ConnectedServed, Results, Flags, GatewayStates,
         AtPlaces, Ending
  <2>3. CASE ~AutoConnect
    <3>1. PICK h \in Handlers : hpc' = [hpc EXCEPT ![h] = "created"]
      BY <1>9, <2>3 DEF Connect
    <3>2. /\ hpc' \in [Handlers -> HandlerPlaces]
          /\ hpc'[h] \in Alive /\ hpc'[h] \notin Inside
          /\ \A k \in Handlers \ {h} : hpc'[k] = hpc[k]
      BY <3>1 DEF TypeOK, HandlerPlaces, Alive, Inside
    <3> QED
      BY <1>9, <2>1, <3>2 DEF Connect, TypeOK, ExitInv, FlagInv, CountInv,
         LostInv, ConnectedServed, Results, Flags, GatewayStates, AtPlaces,
         Ending
  <2> QED  BY <2>2, <2>3
<1>10. CASE ConnectFails
  <2>1. gm' \in GmRecord /\ gm'.gateway_mq = "dangling"
    BY <1>10 DEF ConnectFails, TypeOK, GmRecord
  <2> QED
    BY <1>10, <2>1, WokenType, EmptyQueue DEF ConnectFails, TypeOK, ExitInv,
       FlagInv, CountInv, LostInv, ConnectedServed, Usable, Results, Flags,
       AtPlaces, Ending
<1>11. CASE StartReturns
  BY <1>11 DEF StartReturns, TypeOK, ExitInv, FlagInv, CountInv,
     LostInv, ConnectedServed, AtPlaces, Ending, Usable
<1> QED
  BY <1>1, <1>2, <1>3, <1>4, <1>5, <1>6, <1>7, <1>8, <1>9, <1>10, <1>11
  DEF Start

-----------------------------------------------------------------------------
(* uc_wiota_gateway_end *)
LEMMA EndStep ==
    ASSUME IInv, EndBegins \/ EndContinues
    PROVE  IInv'
<1> USE BoundAssumption, HandlerAssumption
<1> USE DEF IInv, exitMarks, atLocals
<1>1. CASE EndBegins
  <2>1. gm' \in GmRecord
    BY <1>1 DEF EndBegins, SendExit, TypeOK, GmRecord
  <2>2. /\ at' \in {"posted", "delay"} /\ flag' = "NO_CONNECT"
        /\ exitSent' \in {"yes", "no"} /\ refused' \in {"yes", "no"}
        /\ callback' = "none"
        /\ UNCHANGED <<gstate, count, result, hpc, lost, radio>>
    BY <1>1 DEF EndBegins, SendExit, TypeOK
  <2>3. queue' = queue \/ (HasRoom /\ queue' = Append(queue, "EXIT"))
    BY <1>1 DEF EndBegins, SendExit
  <2>4. queue' \in Seq(Messages) /\ Len(queue') <= QueueSlots
    BY <2>3, AddMessage DEF TypeOK, Messages
  <2> QED
    BY <2>1, <2>2, <2>4 DEF TypeOK, ExitInv, FlagInv, CountInv, LostInv,
       ConnectedServed, Flags, AtPlaces, Ending
<1>2. CASE DelayOver
  BY <1>2 DEF DelayOver, TypeOK, ExitInv, FlagInv, CountInv, LostInv,
     ConnectedServed, AtPlaces, Ending, Usable
<1>3. CASE WaitExit
  BY <1>3 DEF WaitExit, TypeOK, ExitInv, FlagInv, CountInv, LostInv,
     ConnectedServed, AtPlaces, Ending, Usable
<1>4. CASE ExitSeen
  BY <1>4 DEF ExitSeen, TypeOK, ExitInv, FlagInv, CountInv, LostInv,
     ConnectedServed, AtPlaces, Ending, Usable
<1>5. CASE Release
  <2>1. gm' \in GmRecord
    BY <1>5 DEF Release, Released, TypeOK, GmRecord
  <2> QED
    BY <1>5, <2>1, WokenType, EmptyQueue DEF Release, TypeOK, ExitInv,
       FlagInv, CountInv, LostInv, ConnectedServed, GatewayStates, AtPlaces,
       Ending
<1> QED
  BY <1>1, <1>2, <1>3, <1>4, <1>5 DEF EndContinues

-----------------------------------------------------------------------------
(* uc_wiota_gateway_api_handle *)
LEMMA HandleStep ==
    ASSUME IInv, NEW h \in Handlers, Handle(h)
    PROVE  IInv'
<1> USE BoundAssumption
<1> USE DEF IInv, exitMarks, atLocals
<1>1. CASE Enter(h)
  <2>1. gm' \in GmRecord /\ gm'.gateway_mq = gm.gateway_mq
        /\ gm'.allow_run_flag = gm.allow_run_flag
    BY <1>1 DEF Enter, TypeOK, GmRecord
  <2>2. lost' \in [Handlers -> 0 .. (MaxLost + 1)] /\ lost'[h] = 0
        /\ \A k \in Handlers \ {h} : lost'[k] = lost[k]
    BY <1>1 DEF Enter, TypeOK
  <2>3. Move(h, "loop")
    BY <1>1 DEF Enter
  <2> QED
    BY <1>1, <2>1, <2>2, <2>3, MoveType DEF Enter, TypeOK, ExitInv, FlagInv,
       CountInv, LostInv, ConnectedServed, Usable, HandlerPlaces, Alive, Inside
<1>2. CASE Loop(h)
  <2>1. PICK p \in {"recv", "tail"} : Move(h, p)
    BY <1>2 DEF Loop
  <2>2. hpc[h] \in Inside /\ hpc[h] \in Alive /\ p \in Alive
        /\ p \in HandlerPlaces
    BY <1>2 DEF Loop, HandlerPlaces, Alive, Inside
  <2> QED
    BY <1>2, <2>1, <2>2, MoveType DEF Loop, TypeOK, ExitInv, FlagInv,
       CountInv, LostInv, ConnectedServed, Usable
<1>3. CASE RecvExit(h)
  <2>1. gm' \in GmRecord
    BY <1>3 DEF RecvExit, TypeOK, GmRecord
  <2>2. Move(h, "none") /\ "none" \in HandlerPlaces /\ "none" \notin Inside
    BY <1>3 DEF RecvExit, HandlerPlaces, Inside
  <2>3. at \in Ending
    BY <1>3, TakeMessage DEF RecvExit, TypeOK, ExitInv
  <2>4. queue' \in Seq(Messages) /\ Len(queue') <= QueueSlots
    BY <1>3, TakeMessage DEF RecvExit, TypeOK
  <2> QED
    BY <1>3, <2>1, <2>2, <2>3, <2>4, MoveType DEF RecvExit, TypeOK,
       ExitInv, FlagInv, CountInv, LostInv, ConnectedServed
<1>4. CASE RecvMessage(h)
  <2>1. Move(h, "busy") /\ "busy" \in HandlerPlaces /\ "busy" \in Alive
        /\ hpc[h] \in Inside
    BY <1>4 DEF RecvMessage, HandlerPlaces, Alive, Inside
  <2>2. queue' \in Seq(Messages) /\ Len(queue') <= QueueSlots
    BY <1>4, TakeMessage DEF RecvMessage, TypeOK
  <2>3. \A i \in 1 .. Len(queue') : queue'[i] = "EXIT" => at \in Ending
    <3>1. /\ queue \in Seq(Messages) /\ Len(queue) <= QueueSlots
          /\ queue # <<>> /\ queue' = Tail(queue)
      BY <1>4 DEF RecvMessage, TypeOK
    <3>2. \A i \in 1 .. Len(queue) : queue[i] = "EXIT" => at \in Ending
      BY DEF ExitInv
    <3> HIDE DEF IInv
    <3> QED
      BY <3>1, <3>2, TakeMessage
  <2> QED
    BY <1>4, <2>1, <2>2, <2>3, MoveType DEF RecvMessage, TypeOK, ExitInv,
       FlagInv, CountInv, LostInv, ConnectedServed, Usable
<1>5. CASE Handled(h)
  <2>1. Move(h, "loop") /\ "loop" \in HandlerPlaces /\ "loop" \in Alive
        /\ hpc[h] \in Inside
    BY <1>5 DEF Handled, HandlerPlaces, Alive, Inside
  <2>2. gstate' \in GatewayStates
    BY <1>5 DEF Handled, TypeOK, GatewayStates
  <2> QED
    BY <1>5, <2>1, <2>2, MoveType DEF Handled, TypeOK, ExitInv, FlagInv,
       CountInv, LostInv, ConnectedServed, Usable
<1>6. CASE Timeout(h)
  <2>1. lost[h] \in 0 .. MaxLost
    BY <1>6 DEF Timeout, TypeOK, LostInv, Inside
  <2>2. LostCount(h) \in 0 .. (MaxLost + 1)
        /\ (~Reports(h) => LostCount(h) <= MaxLost)
    BY <2>1 DEF LostCount, Reports, TypeOK
  <2>3. lost' \in [Handlers -> 0 .. (MaxLost + 1)]
        /\ lost'[h] = LostCount(h)
        /\ \A k \in Handlers \ {h} : lost'[k] = lost[k]
    BY <1>6, <2>2 DEF Timeout, TypeOK
  <2>4. PICK p \in {"tail", "loop"} :
            Move(h, p) /\ (p = "loop" => ~Reports(h))
    BY <1>6 DEF Timeout
  <2>5. p \in HandlerPlaces /\ p \in Alive /\ "tail" \notin Inside
    BY DEF HandlerPlaces, Alive, Inside
  <2>6. gstate' \in GatewayStates
    BY <1>6 DEF Timeout, TypeOK, GatewayStates
  <2> QED
    BY <1>6, <2>2, <2>3, <2>4, <2>5, <2>6, MoveType DEF Timeout, TypeOK,
       ExitInv, FlagInv, CountInv, LostInv, ConnectedServed, Usable
<1>7. CASE Leave(h)
  <2>1. gm' \in GmRecord
    BY <1>7 DEF Leave, TypeOK, GmRecord
  <2>2. Move(h, "none") /\ "none" \in HandlerPlaces /\ "none" \notin Inside
    BY <1>7 DEF Leave, HandlerPlaces, Inside
  <2> QED
    BY <1>7, <2>1, <2>2, MoveType DEF Leave, TypeOK, ExitInv, FlagInv,
       CountInv, LostInv, ConnectedServed, Flags
<1>8. CASE ImageComplete(h)
  <2>1. Move(h, "jump") /\ "jump" \in HandlerPlaces /\ "jump" \in Alive
        /\ hpc[h] \in Inside
    BY <1>8 DEF ImageComplete, HandlerPlaces, Alive, Inside
  <2> QED
    BY <1>8, <2>1, MoveType DEF ImageComplete, TypeOK, ExitInv, FlagInv, CountInv,
       LostInv, ConnectedServed, Flags
<1>9. CASE Jump(h)
  <2>1. gm' \in GmRecord
    BY <1>9 DEF Jump, Zeroed, GmRecord
  <2> QED
    BY <1>9, <2>1, EmptyQueue DEF Jump, TypeOK, ExitInv, FlagInv, CountInv,
       LostInv, ConnectedServed, Flags, GatewayStates, AtPlaces, Ending,
       HandlerPlaces, Inside
<1> QED
  BY <1>1, <1>2, <1>3, <1>4, <1>5, <1>6, <1>7, <1>8, <1>9 DEF Handle

-----------------------------------------------------------------------------
(* The auto manager around the handler; none of its places serves. *)
LEMMA ManageStep ==
    ASSUME IInv, Manage
    PROVE  IInv'
<1> USE DEF IInv, exitMarks, atLocals
<1>1. Manager \in Handlers
  BY DEF Manage, Handlers
<1>2. PICK p \in {"away", "strategy", "created", "none"} :
          /\ Move(Manager, p)
          /\ hpc[Manager] \notin Alive
          /\ callback' \in {"gw", "at", "none"}
          /\ radio' \in {"sync", "null", "lost"}
          /\ UNCHANGED <<gm, queue, flag, gstate, at, atLocals, lost>>
  BY DEF Manage, ManagerExits, ManagerConnects, StrategyHandles, StrategyLost,
     TypeOK, Alive, Inside
<1>3. p \in HandlerPlaces /\ p \notin Inside
  BY DEF HandlerPlaces, Inside
<1> QED
  BY <1>1, <1>2, <1>3, MoveType DEF TypeOK, ExitInv, FlagInv, CountInv,
     LostInv, ConnectedServed, Usable

(* The stack, the timer and the radio. *)
LEMMA EnvironmentStep ==
    ASSUME IInv, Environment
    PROVE  IInv'
<1> USE BoundAssumption
<1> USE DEF IInv, exitMarks, atLocals
<1>1. ASSUME NEW msg \in {"DL_RECV", "MISS_DATA_REQ"}, Posts(msg)
      PROVE  IInv'
  <2>1. msg \in Messages /\ msg # "EXIT" /\ HasRoom
        /\ queue' = Append(queue, msg)
    BY <1>1 DEF Posts, Messages
  <2> QED
    BY <1>1, <2>1, AddMessage DEF Posts, TypeOK, ExitInv, FlagInv, CountInv,
       LostInv, ConnectedServed, Usable
<1>2. CASE RadioChanges
  BY <1>2 DEF RadioChanges, TypeOK, ExitInv, FlagInv, CountInv, LostInv,
     ConnectedServed, Usable
<1> QED
  BY <1>1, <1>2 DEF Environment, Receive, TimerFires

-----------------------------------------------------------------------------
LEMMA InitInv ==
    ASSUME Init
    PROVE  IInv
<1> USE BoundAssumption
<1>1. gm \in GmRecord
  BY DEF Init, Zeroed, GmRecord
<1> QED
  BY <1>1, EmptyQueue DEF Init, IInv, TypeOK, ExitInv, FlagInv, CountInv,
     LostInv, ConnectedServed, Flags, GatewayStates, AtPlaces, Ending, Results,
     HandlerPlaces, Inside

(* The inductive invariant holds in every reachable state. *)
THEOREM Invariance == Spec => []IInv
<1>1. Init => IInv
  BY InitInv
<1>2. IInv /\ [Next]_vars => IInv'
  <2> SUFFICES ASSUME IInv, [Next]_vars
               PROVE  IInv'
    OBVIOUS
  <2>1. CASE Start
    BY <2>1, StartStep
  <2>2. CASE EndBegins \/ EndContinues
    BY <2>2, EndStep
  <2>3. CASE \E h \in Handlers : Handle(h)
    BY <2>3, HandleStep
  <2>4. CASE Manage
    BY <2>4, ManageStep
  <2>5. CASE Environment
    BY <2>5, EnvironmentStep
  <2>6. CASE UNCHANGED vars
    BY <2>6 DEF vars, IInv, TypeOK, ExitInv, FlagInv, CountInv, LostInv,
       ConnectedServed, Usable
  <2> QED
    BY <2>1, <2>2, <2>3, <2>4, <2>5, <2>6 DEF Next
<1> QED
  BY <1>1, <1>2, PTL DEF Spec

(* Types: no counter leaves its range, the queue never exceeds its slots.  *)
THEOREM TypeCorrect == Spec => []TypeOK
<1>1. IInv => TypeOK
  BY DEF IInv
<1> QED
  BY <1>1, Invariance, PTL

(* A connection that wiota_gw_connect_flag reports has a handler, for any  *)
(* number of threads that earlier starts have left behind.                 *)
THEOREM ConnectionIsServed == Spec => []ConnectedServed
<1>1. IInv => ConnectedServed
  BY DEF IInv
<1> QED
  BY <1>1, Invariance, PTL

-----------------------------------------------------------------------------
(* With automatic connection and no EXIT refused, the exit marks tell what *)
(* the manager does: inside the handler exit_flag is off and, but for a    *)
(* pass that a start has overtaken at its beginning, gateway_task_run is   *)
(* on.                                                                     *)

Armed == gm.gateway_task_run = "on" /\ gm.exit_flag = "off"

OvertakenPass ==
    /\ hpc[Manager] = "loop"
    /\ gm.gateway_task_run = "off"
    /\ at \notin Ending \cup {"idle"}

MarksInv == hpc[Manager] \in Inside => Armed \/ OvertakenPass

(* Between an end and the next start no handler gets past its conditions. *)
ClosedInv ==
    flag = "NO_CONNECT" /\ at \notin Ending =>
        /\ gm.gateway_mode = "off" \/ gm.gateway_mq = "null"
        /\ hpc[Manager] \notin {"recv", "busy", "jump"}

ReleaseInv == at = "release" => hpc[Manager] \notin Inside

AutoInv == refused = "no" => MarksInv /\ ClosedInv /\ ReleaseInv

LEMMA AutoHandlers ==
    ASSUME AutoConnect
    PROVE  /\ Handlers = {Manager}
           /\ Manager \in Handlers
           /\ TypeOK => gm \in GmRecord /\ hpc \in [Handlers -> HandlerPlaces]
BY DEF Handlers, TypeOK

LEMMA AutoStart ==
    ASSUME AutoConnect, TypeOK, AutoInv, Start
    PROVE  AutoInv'
<1> USE AutoHandlers
<1> USE DEF AutoInv, MarksInv, ClosedInv, ReleaseInv, Armed, OvertakenPass, Ending, exitMarks, atLocals
<1>1. CASE StartRefused
  BY <1>1 DEF StartRefused
<1>2. CASE StartNoQueue
  BY <1>2 DEF StartNoQueue, MayStart, Cleared, Zeroed, Inside
<1>3. CASE StartBegins
  BY <1>3 DEF StartBegins, MayStart, Cleared, Zeroed, Inside
<1>4. CASE AuthNoSync \/ AuthSend
  BY <1>4 DEF AuthNoSync, AuthSend
<1>5. CASE AuthAnswer
  BY <1>5 DEF AuthAnswer, AfterAuth
<1>6. CASE AuthOther
  BY <1>6 DEF AuthOther, AfterAuth
<1>7. CASE AuthFails
  BY <1>7 DEF AuthFails, AfterAuth
<1>8. CASE Connect
  BY <1>8 DEF Connect, GmRecord
<1>9. CASE ConnectFails
  BY <1>9, WokenType DEF ConnectFails, GmRecord, Woken, Inside
<1>10. CASE StartReturns
  BY <1>10 DEF StartReturns, HandlersRan
<1> QED
  BY <1>1, <1>2, <1>3, <1>4, <1>5, <1>6, <1>7, <1>8, <1>9, <1>10 DEF Start

LEMMA AutoEnd ==
    ASSUME AutoConnect, TypeOK, AutoInv, EndBegins \/ EndContinues
    PROVE  AutoInv'
<1> USE AutoHandlers
<1> USE DEF AutoInv, MarksInv, ClosedInv, ReleaseInv, Armed, OvertakenPass, Ending, exitMarks, atLocals
<1>1. CASE EndBegins
  <2> SUFFICES ASSUME refused' = "no" PROVE MarksInv' /\ ClosedInv' /\ ReleaseInv'
    OBVIOUS
  <2>1. /\ at = "idle" /\ at' = "posted" /\ hpc' = hpc /\ refused = "no"
        /\ gm' = [gm EXCEPT !.allow_run_flag = "off"]
    BY <1>1 DEF EndBegins, SendExit
  <2> QED BY <2>1 DEF GmRecord
<1>2. CASE DelayOver
  BY <1>2 DEF DelayOver
<1>3. CASE WaitExit
  BY <1>3 DEF WaitExit
<1>4. CASE ExitSeen
  BY <1>4 DEF ExitSeen
<1>5. CASE Release
  <2>1. hpc' = Woken /\ refused' = refused /\ at = "release" /\ at' = "idle"
        /\ gm'.gateway_mode = "off"
    BY <1>5 DEF Release, Released, GmRecord
  <2>2. refused = "no" => hpc'[Manager] \notin Inside
    BY <2>1, WokenType
  <2> QED BY <2>1, <2>2 DEF Inside
<1> QED BY <1>1, <1>2, <1>3, <1>4, <1>5 DEF EndContinues

LEMMA AutoHandle ==
    ASSUME AutoConnect, TypeOK, AutoInv, Handle(Manager)
    PROVE  AutoInv'
<1> USE AutoHandlers
<1> USE DEF AutoInv, MarksInv, ClosedInv, ReleaseInv, exitMarks, atLocals
<1>1. at # "release"
  BY DEF Handle, Enter, Loop, RecvExit, RecvMessage, Handled, ImageComplete, Jump, Timeout,
         Leave, MayRun
<1>2. CASE Enter(Manager)
  BY <1>1, <1>2, MoveType DEF Enter, Armed, GmRecord, HandlerPlaces
<1>3. CASE Loop(Manager)
  <2>1. CASE GoesOn
    BY <1>1, <1>3, <2>1, MoveType DEF Loop, GoesOn, Armed, OvertakenPass, HandlerPlaces, Inside
  <2>2. CASE ~GoesOn
    BY <1>1, <1>3, <2>2, MoveType DEF Loop, HandlerPlaces, Inside
  <2> QED BY <2>1, <2>2
<1>4. CASE RecvExit(Manager)
  BY <1>1, <1>4, MoveType DEF RecvExit, HandlerPlaces, Inside, GmRecord
<1>5. CASE RecvMessage(Manager)
  BY <1>1, <1>5, MoveType DEF RecvMessage, Armed, OvertakenPass, HandlerPlaces, Inside
<1>6. CASE Handled(Manager)
  BY <1>1, <1>6, MoveType DEF Handled, Armed, OvertakenPass, HandlerPlaces, Inside
<1>7. CASE ImageComplete(Manager)
  BY <1>1, <1>7, MoveType DEF ImageComplete, Armed, OvertakenPass, HandlerPlaces, Inside
<1>8. CASE Jump(Manager)
  BY <1>8 DEF Jump, Zeroed, Inside
<1>9. CASE Timeout(Manager)
  BY <1>1, <1>9, MoveType DEF Timeout, Armed, OvertakenPass, HandlerPlaces, Inside
<1>10. CASE Leave(Manager)
  BY <1>1, <1>10, MoveType DEF Leave, HandlerPlaces, Inside
<1> QED
  BY <1>2, <1>3, <1>4, <1>5, <1>6, <1>7, <1>8, <1>9, <1>10 DEF Handle

LEMMA AutoManage ==
    ASSUME AutoConnect, TypeOK, AutoInv, Manage
    PROVE  AutoInv'
<1>1. PICK p \in {"away", "strategy", "created", "none"} :
          Move(Manager, p) /\ UNCHANGED <<gm, flag, at, refused>>
  BY DEF Manage, ManagerExits, ManagerConnects, StrategyHandles, StrategyLost, atLocals, exitMarks
<1>2. hpc'[Manager] = p
  BY <1>1, AutoHandlers, MoveType DEF HandlerPlaces
<1> QED
  BY <1>1, <1>2 DEF AutoInv, MarksInv, ClosedInv, ReleaseInv, Inside

(* With automatic connection uc_wiota_gateway_end releases the queue only  *)
(* when the manager has left uc_wiota_gateway_api_handle, as long as no    *)
(* EXIT found the queue full.                                              *)
THEOREM ReleaseAlwaysWaits ==
    ASSUME AutoConnect
    PROVE  Spec => []ReleaseWaits
<1>1. Init => AutoInv
  BY AutoHandlers DEF Init, AutoInv, MarksInv, ClosedInv, ReleaseInv, Zeroed, Inside
<1>2. IInv /\ AutoInv /\ [Next]_vars => AutoInv'
  <2> SUFFICES ASSUME TypeOK, AutoInv, [Next]_vars PROVE AutoInv'
    BY DEF IInv
  <2>1. CASE Start
    BY <2>1, AutoStart
  <2>2. CASE EndBegins \/ EndContinues
    BY <2>2, AutoEnd
  <2>3. CASE \E h \in Handlers : Handle(h)
    BY <2>3, AutoHandle, AutoHandlers
  <2>4. CASE Manage
    BY <2>4, AutoManage
  <2>5. CASE Environment \/ UNCHANGED vars
    <3>1. UNCHANGED <<gm, flag, at, hpc, refused>>
      BY <2>5 DEF Environment, Receive, TimerFires, Posts, RadioChanges, vars, atLocals, exitMarks
    <3> QED BY <3>1 DEF AutoInv, MarksInv, ClosedInv, ReleaseInv, Armed, OvertakenPass
  <2> QED BY <2>1, <2>2, <2>3, <2>4, <2>5 DEF Next
<1>3. AutoInv => ReleaseWaits
  BY AutoHandlers DEF AutoInv, ReleaseInv, ReleaseWaits
<1> QED BY <1>1, <1>2, <1>3, Invariance, PTL DEF Spec

-----------------------------------------------------------------------------
(* How an end meets the handlers: what EndReturns and HandlersLeave rest   *)
(* on beside fairness.                                                     *)

ExitQueued == \E i \in 1 .. Len(queue) : queue[i] = "EXIT"

NoneCreated == \A h \in Handlers : hpc[h] # "created"

\* Who has cleared exit_flag, and nobody has set it since, is still there.
ClearedInv ==
    Armed => \E h \in Handlers : hpc[h] \in Inside \cup {"tail"}

\* A thread that is created in a start has entered before the next command.
EndingInv ==
    /\ at \in Ending => gm.allow_run_flag = "off"
    /\ at \in Ending \cup {"idle"} /\ ~AutoConnect => NoneCreated
    /\ at = "poll" => gm.gateway_task_run = "on"

\* An EXIT that has been read has set exit_flag, and nobody will clear it.
ReadInv ==
    at \in Ending /\ exitSent = "yes" =>
        \/ ExitQueued
        \/ at = "release"
        \/ gm.exit_flag = "on" /\ NoneCreated

\* What an end leaves behind, until the next start.
OffInv ==
    /\ gm.gateway_mode = "off" =>
          /\ gm.gateway_mq = "null" /\ gm.allow_run_flag = "off"
          /\ queue = <<>>
          /\ \A h \in Handlers : hpc[h] # "recv"
    /\ at \in {"auth", "response", "connect", "direct"} => gm.gateway_mode = "on"

MeetInv == ClearedInv /\ EndingInv /\ ReadInv /\ OffInv

LEMMA ExitStays ==
    ASSUME queue \in Seq(Messages), ExitQueued, queue # <<>>
    PROVE  /\ Head(queue) # "EXIT" /\ queue' = Tail(queue) => ExitQueued'
           /\ \A msg \in Messages : queue' = Append(queue, msg) => ExitQueued'
<1>1. PICK i \in 1 .. Len(queue) : queue[i] = "EXIT"
  BY DEF ExitQueued
<1>2. ASSUME Head(queue) # "EXIT", queue' = Tail(queue)
      PROVE  ExitQueued'
  <2>1. i - 1 \in 1 .. Len(queue') /\ queue'[i - 1] = queue[i]
    BY <1>1, <1>2
  <2> QED BY <1>1, <2>1 DEF ExitQueued
<1>3. ASSUME NEW msg \in Messages, queue' = Append(queue, msg)
      PROVE  ExitQueued'
  <2>1. i \in 1 .. Len(queue') /\ queue'[i] = queue[i]
    BY <1>1, <1>3
  <2> QED BY <1>1, <2>1 DEF ExitQueued
<1> QED BY <1>2, <1>3

LEMMA MeetStart ==
    ASSUME TypeOK, MeetInv, Start
    PROVE  MeetInv'
<1> USE DEF MeetInv, ClearedInv, EndingInv, ReadInv, OffInv, Armed, Ending, exitMarks, atLocals
<1>1. CASE StartRefused
  BY <1>1 DEF StartRefused
<1>2. CASE StartNoQueue
  BY <1>2 DEF StartNoQueue, MayStart, Cleared, Zeroed
<1>3. CASE StartBegins
  BY <1>3 DEF StartBegins, MayStart, Cleared, Zeroed
<1>4. CASE AuthNoSync \/ AuthSend
  BY <1>4 DEF AuthNoSync, AuthSend
<1>5. CASE AuthAnswer
  BY <1>5 DEF AuthAnswer, AfterAuth
<1>6. CASE AuthOther
  BY <1>6 DEF AuthOther, AfterAuth
<1>7. CASE AuthFails
  BY <1>7 DEF AuthFails, AfterAuth
<1>8. CASE Connect
  <2>1. /\ gm.gateway_mode = "on" /\ gm'.gateway_mode = "on" /\ at' = "returning"
        /\ Armed' <=> Armed
    BY <1>8 DEF Connect, TypeOK, GmRecord
  <2>2. \A h \in Handlers : hpc'[h] = hpc[h] \/ hpc[h] = "none"
    BY <1>8 DEF Connect, TypeOK
  <2> QED BY <2>1, <2>2 DEF Inside
<1>9. CASE ConnectFails
  <2>1. /\ gm.gateway_mode = "on" /\ gm'.gateway_mode = "on" /\ at' = "returning"
        /\ Armed' <=> Armed
    BY <1>9 DEF ConnectFails, TypeOK, GmRecord
  <2>2. \A h \in Handlers :
            hpc[h] \in Inside \cup {"tail"} => hpc'[h] \in Inside \cup {"tail"}
    BY <1>9 DEF ConnectFails, Woken, TypeOK, Inside
  <2> QED BY <2>1, <2>2
<1>10. CASE StartReturns
  BY <1>10 DEF StartReturns, HandlersRan, NoneCreated
<1> QED
  BY <1>1, <1>2, <1>3, <1>4, <1>5, <1>6, <1>7, <1>8, <1>9, <1>10 DEF Start

LEMMA MeetEnd ==
    ASSUME TypeOK, MeetInv, EndBegins \/ EndContinues, QueueSlots \in Nat
    PROVE  MeetInv'
<1> USE DEF MeetInv, ClearedInv, EndingInv, ReadInv, OffInv, Armed, Ending, exitMarks, atLocals
<1>1. CASE EndBegins
  <2>1. /\ at = "idle" /\ at' \in {"posted", "delay"} /\ hpc' = hpc
        /\ gm'.allow_run_flag = "off" /\ gm'.gateway_mode = gm.gateway_mode
        /\ gm'.gateway_mq = gm.gateway_mq /\ (Armed' => Armed)
    BY <1>1 DEF EndBegins, SendExit, TypeOK, GmRecord
  <2>2. exitSent' = "yes" => ExitQueued'
    <3>1. exitSent' = "yes" => queue' = Append(queue, "EXIT")
      BY <1>1 DEF EndBegins, SendExit
    <3>2. queue' = Append(queue, "EXIT") => Len(queue) + 1 \in 1 .. Len(queue')
                                          /\ queue'[Len(queue) + 1] = "EXIT"
      BY DEF TypeOK
    <3> QED BY <3>1, <3>2 DEF ExitQueued
  <2>3. gm.gateway_mode = "off" => queue' = queue
    BY <1>1 DEF EndBegins, SendExit, TypeOK, GmRecord
  <2> QED BY <2>1, <2>2, <2>3 DEF NoneCreated
<1>2. CASE DelayOver
  BY <1>2 DEF DelayOver, NoneCreated, ExitQueued
<1>3. CASE WaitExit
  BY <1>3 DEF WaitExit, NoneCreated, ExitQueued, TypeOK, GmRecord
<1>4. CASE ExitSeen
  BY <1>4 DEF ExitSeen, NoneCreated, ExitQueued
<1>5. CASE Release
  <2>1. /\ at = "release" /\ at' = "idle" /\ queue' = <<>>
        /\ gm'.gateway_mq = "null" /\ gm'.allow_run_flag = gm.allow_run_flag
        /\ (Armed' <=> Armed)
    BY <1>5 DEF Release, Released, TypeOK, GmRecord
  <2>2. \A h \in Handlers :
          /\ hpc[h] \in Inside \cup {"tail"} => hpc'[h] \in Inside \cup {"tail"}
          /\ hpc'[h] # "recv" /\ (hpc'[h] = "created" => hpc[h] = "created")
    BY <1>5 DEF Release, Woken, TypeOK, Inside
  <2> QED BY <2>1, <2>2 DEF NoneCreated
<1> QED BY <1>1, <1>2, <1>3, <1>4, <1>5 DEF EndContinues

\* A step of one handler that touches neither the exit marks nor the queue.
LEMMA MeetMove ==
    ASSUME TypeOK, MeetInv, NEW h \in Handlers, hpc[h] \in Inside,
           NEW p \in (Inside \cup {"tail"}) \ {"recv"}, Move(h, p),
           UNCHANGED <<gm, queue, at, exitSent>>
    PROVE  MeetInv'
<1>1. /\ hpc'[h] = p /\ p # "created" /\ p # "recv"
      /\ \A k \in Handlers \ {h} : hpc'[k] = hpc[k]
  BY MoveType DEF TypeOK, Inside, HandlerPlaces
<1> QED
  BY <1>1 DEF MeetInv, ClearedInv, EndingInv, ReadInv, OffInv, Armed, ExitQueued, NoneCreated

LEMMA MeetHandle ==
    ASSUME TypeOK, MeetInv, NEW h \in Handlers, Handle(h)
    PROVE  MeetInv'
<1> USE DEF exitMarks, atLocals
<1>1. CASE Enter(h)
  <2>1. /\ hpc[h] = "created" /\ hpc'[h] = "loop"
        /\ \A k \in Handlers \ {h} : hpc'[k] = hpc[k]
        /\ UNCHANGED <<queue, at, exitSent>>
    BY <1>1, MoveType DEF Enter, HandlerPlaces, TypeOK
  <2>2. /\ gm'.gateway_task_run = "on"
        /\ UNCHANGED <<gm.gateway_mode, gm.gateway_mq, gm.allow_run_flag>>
    BY <1>1 DEF Enter, TypeOK, GmRecord
  <2>3. ~NoneCreated /\ "loop" \in Inside
    BY <2>1 DEF NoneCreated, Inside
  <2> QED
    BY <2>1, <2>2, <2>3
    DEF MeetInv, ClearedInv, EndingInv, ReadInv, OffInv, ExitQueued, NoneCreated
<1>2. CASE Loop(h)
  <2>1. CASE ~GoesOn
    BY <1>2, <2>1, MeetMove DEF Loop, Inside
  <2>2. CASE GoesOn
    <3>1. /\ hpc'[h] = "recv" /\ \A k \in Handlers \ {h} : hpc'[k] = hpc[k]
          /\ UNCHANGED <<gm, queue, at, exitSent>> /\ gm.gateway_mq # "null"
      BY <1>2, <2>2, MoveType DEF Loop, GoesOn, HandlerPlaces, TypeOK
    <3>2. "recv" \in Inside
      BY DEF Inside
    <3> QED
      BY <3>1, <3>2
      DEF MeetInv, ClearedInv, EndingInv, ReadInv, OffInv, Armed, ExitQueued, NoneCreated
  <2> QED BY <2>1, <2>2
<1>3. CASE RecvExit(h)
  <2>1. /\ hpc[h] = "recv" /\ hpc'[h] = "none"
        /\ \A k \in Handlers \ {h} : hpc'[k] = hpc[k]
        /\ UNCHANGED <<at, exitSent>> /\ queue # <<>>
    BY <1>3, MoveType DEF RecvExit, HandlerPlaces, TypeOK
  <2>2. /\ gm'.exit_flag = "on"
        /\ UNCHANGED <<gm.gateway_mode, gm.gateway_mq, gm.allow_run_flag, gm.gateway_task_run>>
    BY <1>3 DEF RecvExit, TypeOK, GmRecord
  <2>3. at \in Ending => NoneCreated'
    <3>1. CASE AutoConnect
      BY <2>1, <3>1 DEF Handlers, NoneCreated
    <3>2. CASE ~AutoConnect
      BY <2>1, <3>2 DEF MeetInv, EndingInv, NoneCreated
    <3> QED BY <3>1, <3>2
  <2> QED
    BY <2>1, <2>2, <2>3
    DEF MeetInv, ClearedInv, EndingInv, ReadInv, OffInv, Armed, NoneCreated
<1>4. CASE RecvMessage(h)
  <2>1. /\ hpc[h] = "recv" /\ hpc'[h] = "busy"
        /\ \A k \in Handlers \ {h} : hpc'[k] = hpc[k]
        /\ UNCHANGED <<gm, at, exitSent>> /\ queue # <<>>
    BY <1>4, MoveType DEF RecvMessage, HandlerPlaces, TypeOK
  <2>2. ExitQueued => ExitQueued'
    BY <1>4, ExitStays DEF RecvMessage, TypeOK
  <2>3. "busy" \in Inside
    BY DEF Inside
  <2> QED
    BY <2>1, <2>2, <2>3
    DEF MeetInv, ClearedInv, EndingInv, ReadInv, OffInv, Armed, NoneCreated
<1>5. CASE Handled(h)
  BY <1>5, MeetMove DEF Handled, Inside
<1>6. CASE ImageComplete(h)
  BY <1>6, MeetMove DEF ImageComplete, Inside
<1>7. CASE Jump(h)
  BY <1>7
  DEF Jump, Zeroed, MeetInv, ClearedInv, EndingInv, ReadInv, OffInv, Armed, NoneCreated, Ending
<1>8. CASE Timeout(h)
  BY <1>8, MeetMove DEF Timeout, Inside
<1>9. CASE Leave(h)
  <2>1. /\ hpc[h] = "tail" /\ hpc'[h] = "none"
        /\ \A k \in Handlers \ {h} : hpc'[k] = hpc[k]
        /\ UNCHANGED <<queue, at, exitSent>>
    BY <1>9, MoveType DEF Leave, HandlerPlaces, TypeOK
  <2>2. /\ gm'.exit_flag = "on"
        /\ UNCHANGED <<gm.gateway_mode, gm.gateway_mq, gm.allow_run_flag, gm.gateway_task_run>>
    BY <1>9 DEF Leave, TypeOK, GmRecord
  <2> QED
    BY <2>1, <2>2
    DEF MeetInv, ClearedInv, EndingInv, ReadInv, OffInv, Armed, ExitQueued, NoneCreated
<1> QED
  BY <1>1, <1>2, <1>3, <1>4, <1>5, <1>6, <1>7, <1>8, <1>9 DEF Handle

\* The manager enters the handler only while allow_run_flag is on.
LEMMA ManagerPlaces ==
    ASSUME TypeOK, Manage
    PROVE  /\ Manager \in Handlers /\ AutoConnect
           /\ \A h \in Handlers \ {Manager} : hpc'[h] = hpc[h]
           /\ hpc[Manager] \in {"none", "away", "strategy"}
           /\ \/ hpc'[Manager] \in {"none", "away", "strategy"}
              \/ hpc'[Manager] = "created" /\ gm.allow_run_flag = "on"
           /\ UNCHANGED <<gm, queue, at, exitSent>>
<1> USE DEF exitMarks, atLocals
<1>1. Manager \in Handlers /\ AutoConnect
  BY DEF Manage, Handlers
<1>2. CASE ManagerExits
  BY <1>1, <1>2, MoveType DEF ManagerExits, TypeOK, HandlerPlaces
<1>3. CASE ManagerConnects
  BY <1>1, <1>3, MoveType DEF ManagerConnects, TypeOK, HandlerPlaces
<1>4. CASE StrategyHandles
  BY <1>1, <1>4, MoveType DEF StrategyHandles, TypeOK, HandlerPlaces
<1>5. CASE StrategyLost
  BY <1>1, <1>5, MoveType DEF StrategyLost, TypeOK, HandlerPlaces
<1> QED BY <1>2, <1>3, <1>4, <1>5 DEF Manage

LEMMA MeetManage ==
    ASSUME TypeOK, MeetInv, Manage
    PROVE  MeetInv'
<1>1. \A h \in Handlers :
        /\ hpc[h] \in Inside \cup {"tail"} => hpc'[h] = hpc[h]
        /\ hpc'[h] = "recv" => hpc[h] = "recv"
  BY ManagerPlaces DEF Inside
<1>2. gm.allow_run_flag = "off" /\ NoneCreated => NoneCreated'
  BY ManagerPlaces DEF NoneCreated
<1> QED
  BY <1>1, <1>2, ManagerPlaces
  DEF MeetInv, ClearedInv, EndingInv, ReadInv, OffInv, Armed, ExitQueued

LEMMA MeetEnvironment ==
    ASSUME TypeOK, MeetInv, Environment \/ UNCHANGED vars
    PROVE  MeetInv'
<1> USE DEF exitMarks, atLocals
<1>1. UNCHANGED <<gm, at, hpc, exitSent>>
  BY DEF Environment, Receive, TimerFires, Posts, RadioChanges, vars
<1>2. ExitQueued => ExitQueued'
  <2>1. CASE queue' = queue
    BY <2>1 DEF ExitQueued
  <2>2. ASSUME NEW msg \in Messages, queue' = Append(queue, msg)
        PROVE  ExitQueued => ExitQueued'
    BY <2>2, ExitStays DEF TypeOK, ExitQueued
  <2> QED BY <2>1, <2>2 DEF Environment, Receive, TimerFires, Posts, RadioChanges, vars, Messages
<1>3. gm.gateway_mode = "off" => queue' = queue
  BY DEF Environment, Receive, TimerFires, Posts, RadioChanges, vars, MeetInv, OffInv
<1> QED
  BY <1>1, <1>2, <1>3 DEF MeetInv, ClearedInv, EndingInv, ReadInv, OffInv, Armed, NoneCreated

LEMMA MeetInvariance == Spec => []MeetInv
<1>1. Init => MeetInv
  BY DEF Init, Zeroed, MeetInv, ClearedInv, EndingInv, ReadInv, OffInv, Armed, NoneCreated, Ending
<1>2. IInv /\ MeetInv /\ [Next]_vars => MeetInv'
  BY BoundAssumption, MeetStart, MeetEnd, MeetHandle, MeetManage, MeetEnvironment DEF IInv, Next
<1> QED BY <1>1, <1>2, Invariance, PTL DEF Spec

\* Who will set exit_flag, and what will make a handler read it.
PollAnswered ==
    at = "poll" /\ gm.exit_flag = "off" =>
        /\ \E h \in Handlers : hpc[h] \in Inside \cup {"tail"}
        /\ exitSent = "yes" => ExitQueued

(* uc_wiota_gateway_wait_exit never polls exit_flag when nobody is left to *)
(* set it, whatever earlier starts have left of threads and flags, and an  *)
(* EXIT that the queue took is not lost before exit_flag tells that it has *)
(* been read.                                                              *)
THEOREM PollIsAnswered == Spec => []PollAnswered
<1>1. MeetInv => PollAnswered
  BY DEF MeetInv, ClearedInv, EndingInv, ReadInv, Armed, Ending, PollAnswered
<1> QED BY <1>1, MeetInvariance, PTL

\* The steps of a handler before it has left, when its loop does not go on.
StepsLeft(place) ==
    CASE place = "recv" -> 4
      [] place \in {"created", "busy"} -> 3
      [] place = "loop" -> 2
      [] place \in {"jump", "tail"} -> 1
      [] OTHER -> 0

HandlersOnlyLeave ==
    [][gm.gateway_mode = "off" =>
          \A h \in Handlers :
              /\ StepsLeft(hpc'[h]) <= StepsLeft(hpc[h])
              /\ Handle(h) => StepsLeft(hpc'[h]) < StepsLeft(hpc[h])]_vars

(* Once an end has switched gateway_mode off, and until the next start, no *)
(* thread enters a handler or waits for the queue again, and each step of  *)
(* one that is still inside, also of one that was busy when the end gave   *)
(* up waiting for it, brings it nearer to the end of                       *)
(* uc_wiota_gateway_api_handle.                                            *)
THEOREM OffMeansLeaving == Spec => HandlersOnlyLeave
<1> DEFINE Nearer ==
        gm.gateway_mode = "off" =>
            \A h \in Handlers :
                /\ StepsLeft(hpc'[h]) <= StepsLeft(hpc[h])
                /\ Handle(h) => StepsLeft(hpc'[h]) < StepsLeft(hpc[h])
<1>1. \A place \in HandlerPlaces : StepsLeft(place) \in Nat
  BY DEF StepsLeft
<1>2. ASSUME TypeOK, OffInv, gm.gateway_mode = "off", NEW h \in Handlers, Handle(h)
      PROVE  /\ StepsLeft(hpc'[h]) < StepsLeft(hpc[h])
             /\ \A k \in Handlers : StepsLeft(hpc'[k]) <= StepsLeft(hpc[k])
  <2>1. CASE Jump(h)
    BY <2>1 DEF Jump, StepsLeft, TypeOK
  <2>2. PICK p \in HandlerPlaces : Move(h, p) \/ Jump(h)
    BY <1>2
    DEF Handle, Enter, Loop, RecvExit, RecvMessage, Handled, ImageComplete, Timeout, Leave,
        HandlerPlaces
  <2>3. CASE ~Jump(h)
    <3>1. StepsLeft(p) < StepsLeft(hpc[h])
      BY <1>2, <2>2, <2>3, MoveType
      DEF Handle, Enter, Loop, GoesOn, RecvExit, RecvMessage, Handled, ImageComplete, Timeout,
          Leave, TypeOK, OffInv, HandlerPlaces, StepsLeft
    <3>2. hpc'[h] = p /\ \A k \in Handlers \ {h} : hpc'[k] = hpc[k]
      BY <1>2, <2>2, <2>3, MoveType DEF TypeOK
    <3>3. \A k \in Handlers : hpc[k] \in HandlerPlaces
      BY <1>2 DEF TypeOK
    <3> QED BY <1>1, <3>1, <3>2, <3>3
  <2> QED BY <2>1, <2>3
<1>3. ASSUME TypeOK, OffInv, gm.gateway_mode = "off", [Next]_vars,
             ~\E h \in Handlers : Handle(h)
      PROVE  \A k \in Handlers : StepsLeft(hpc'[k]) <= StepsLeft(hpc[k])
  <2>1. ASSUME hpc' = hpc
        PROVE  \A k \in Handlers : StepsLeft(hpc'[k]) <= StepsLeft(hpc[k])
    BY <1>1, <1>3, <2>1 DEF TypeOK
  <2>2. CASE Start
    BY <1>3, <2>1, <2>2
    DEF Start, StartRefused, StartNoQueue, StartBegins, AuthNoSync, AuthSend, AuthAnswer,
        AuthOther, AuthFails, Connect, ConnectFails, StartReturns, OffInv
  <2>3. CASE EndBegins \/ EndContinues
    <3>1. hpc' = hpc \/ hpc' = Woken
      BY <2>3 DEF EndBegins, EndContinues, DelayOver, WaitExit, ExitSeen, Release
    <3>2. Woken = hpc
      BY <1>3 DEF Woken, OffInv, TypeOK
    <3> QED BY <2>1, <3>1, <3>2
  <2>4. CASE Manage
    BY <1>1, <1>3, <2>4, ManagerPlaces DEF StepsLeft, OffInv, TypeOK
  <2>5. CASE Environment \/ UNCHANGED vars
    BY <2>1, <2>5 DEF Environment, Receive, TimerFires, Posts, RadioChanges, vars
  <2> QED BY <1>3, <2>2, <2>3, <2>4, <2>5 DEF Next
<1>4. TypeOK /\ OffInv /\ [Next]_vars => Nearer
  BY <1>2, <1>3
<1>5. IInv /\ MeetInv => TypeOK /\ OffInv
  BY DEF IInv, MeetInv
<1> QED BY <1>4, <1>5, Invariance, MeetInvariance, PTL DEF Spec, HandlersOnlyLeave

=============================================================================
