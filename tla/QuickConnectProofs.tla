-------------------------- MODULE QuickConnectProofs --------------------------
(***************************************************************************)
(* Proofs about QuickConnect, for any frequencies, modes and networks, any *)
(* number of commands, and with connections by hand.                       *)
(***************************************************************************)
EXTENDS QuickConnect, TLAPS

(* A thread that has connected once after a stop is on its way back to the *)
(* poll, or there, and opens nothing as long as qc_auto_run is not set.    *)
LateInv ==
    /\ late \in {0, 1}
    /\ late = 1 => auto_run = 0 /\ pc \in {"wait", "check", "judge"}

LEMMA InitLate == Init => LateInv
  BY DEF Init, LateInv

(* The AT server sets qc_auto_run only together with a new count.          *)
LEMMA AtServerLate == LateInv /\ AtServer => LateInv'
<1> SUFFICES ASSUME LateInv, AtServer PROVE LateInv'
    OBVIOUS
<1>1. ASSUME NEW t \in Targets, Start(t) PROVE LateInv'
  BY <1>1 DEF LateInv, Start, local
<1>2. ASSUME NEW t \in Targets, Stop(t) PROVE LateInv'
  BY <1>2 DEF LateInv, Stop, local
<1>3. CASE StartEnds \/ StopEnds
  BY <1>3 DEF LateInv, StartEnds, StopEnds, local, shared, history
<1>4. CASE UserExit \/ UserInit \/ UserRun \/ UserConnect \/ \E f \in Freqs : Refused(f)
  BY <1>4 DEF LateInv, Refused, UserExit, UserInit, UserRun, UserConnect, local, shared
<1> QED
  BY <1>1, <1>2, <1>3, <1>4 DEF AtServer

(* The thread looks at qc_auto_run before it opens the stack, and counts   *)
(* when it connects.                                                       *)
LEMMA ThreadLate == LateInv /\ Thread => LateInv'
<1> SUFFICES ASSUME LateInv, Thread PROVE LateInv'
    OBVIOUS
<1> USE DEF LateInv, Goto, shared, history
<1>1. CASE Poll \/ Check \/ Judge
  BY <1>1 DEF Poll, Check, Opens, Judge
<1>2. CASE CloseExit \/ CloseMark \/ CloseLeave
  BY <1>2 DEF CloseExit, CloseMark, CloseLeave
<1>3. CASE \/ ScanInit \/ ScanClear \/ ScanReadFreq \/ ScanReadMode \/ ScanSetConfig
           \/ ScanRun \/ ScanMark \/ ScanEnter \/ ScanBegins \/ ScanFinds \/ ScanMisses
  BY <1>3 DEF ScanInit, ScanClear, ScanReadFreq, ScanReadMode, ScanSetConfig, ScanRun, ScanMark,
     ScanEnter, ScanBegins, ScanFinds, ScanMisses
<1>4. CASE \/ OpenInit \/ OpenEnter \/ OpenSetFreq \/ OpenRun \/ OpenMark
           \/ OpenRunning
  BY <1>4 DEF OpenInit, OpenEnter, OpenSetFreq, OpenRun, OpenMark, OpenRunning
<1>5. CASE OpenConnect
  BY <1>5 DEF OpenConnect
<1> QED
  BY <1>1, <1>2, <1>3, <1>4, <1>5 DEF Thread

LEMMA LateAlways == Spec => []LateInv
<1>1. LateInv /\ [Next]_vars => LateInv'
  <2> SUFFICES ASSUME LateInv, [Next]_vars PROVE LateInv'
      OBVIOUS
  <2>1. CASE AtServer
    BY <2>1, AtServerLate
  <2>2. CASE Thread
    BY <2>2, ThreadLate
  <2>3. CASE Synchronises \/ LosesNetwork
    BY <2>3 DEF LateInv, Synchronises, LosesNetwork, shared, local, history
  <2>4. CASE UNCHANGED vars
    BY <2>4 DEF LateInv, vars, shared, local, history
  <2> QED
    BY <2>1, <2>2, <2>3, <2>4 DEF Next
<1> QED
  BY InitLate, <1>1, PTL DEF Spec

(* After a stop the thread connects at most once more.                     *)
THEOREM ConnectsOnceAfterStop == Spec => []OnceAfterStop
<1>1. LateInv => OnceAfterStop
  BY DEF LateInv, OnceAfterStop
<1> QED
  BY LateAlways, <1>1, PTL

-----------------------------------------------------------------------------
(* Types. *)

LEMMA StackType ==
    ASSUME NEW s \in Stack
    PROVE  /\ Exited(s) \in Stack /\ Inited(s) \in Stack /\ Running(s) \in Stack
           /\ Connecting(s) \in Stack
           /\ s.config \in Targets
           /\ \A f \in Freqs : [Exited(s) EXCEPT !.config.freq = f] \in Stack
           /\ \A f \in Freqs : [s EXCEPT !.config.freq = f] \in Stack
  BY DEF Stack, Targets, Exited, Inited, Running, Connecting

LEMMA SetFreqType ==
    ASSUME ps \in Stack, NEW f \in Freqs, SetFreq(f)
    PROVE  ps' \in Stack
<1>1. (ps.crossed \/ ps.state # "exit") \in BOOLEAN
  BY DEF Stack
<1> QED BY <1>1 DEF SetFreq, Stack, Targets

LEMMA CommandCounted ==
    ASSUME AnyCommand, commands \in 0 .. MaxCommands
    PROVE  commands' \in 0 .. MaxCommands
  BY QuickAssumption DEF AnyCommand

LEMMA TypeAtServer == TypeOK /\ AtServer => TypeOK'
<1> SUFFICES ASSUME TypeOK, AtServer PROVE TypeOK'
    OBVIOUS
<1> USE DEF TypeOK, local, shared
<1>0. ps \in Stack
  OBVIOUS
<1>1. ASSUME NEW t \in Targets, Start(t) PROVE TypeOK'
  <2>1. t.freq \in Freqs
    BY DEF Targets
  <2>2. commands' \in 0 .. MaxCommands /\ byHand' \in BOOLEAN
    BY <1>1, CommandCounted DEF Start, Command
  <2>3. ps' \in Stack
    BY <1>0, <1>1, <2>1, StackType, SetFreqType DEF Start, CloseForUser
  <2> QED BY <1>1, <2>2, <2>3 DEF Start, CloseForUser, ClearBest
<1>2. ASSUME NEW t \in Targets, Stop(t) PROVE TypeOK'
  <2>1. t.freq \in Freqs
    BY DEF Targets
  <2>2. commands' \in 0 .. MaxCommands /\ byHand' \in BOOLEAN
    BY <1>2, CommandCounted DEF Stop, Command
  <2>3. ps' \in Stack
    BY <1>0, <1>2, <2>1, StackType, SetFreqType DEF Stop, CloseForUser
  <2> QED BY <1>2, <2>2, <2>3 DEF Stop, CloseForUser
<1>3. CASE StartEnds \/ StopEnds
  BY <1>3 DEF StartEnds, StopEnds, ClearBest, history
<1>4. CASE UserExit \/ UserInit \/ UserRun \/ UserConnect
  <2>1. commands' \in 0 .. MaxCommands /\ byHand' \in BOOLEAN
    BY <1>4, CommandCounted
       DEF UserExit, UserInit, UserRun, UserConnect, Command, CommandByHand
  <2>2. ps' \in Stack
    BY <1>0, <1>4, StackType DEF UserExit, UserInit, UserRun, UserConnect
  <2> QED BY <1>4, <2>1, <2>2 DEF UserExit, UserInit, UserRun, UserConnect
<1>5. ASSUME NEW f \in Freqs, Refused(f) PROVE TypeOK'
  <2>1. commands' \in 0 .. MaxCommands /\ byHand' \in BOOLEAN
    BY <1>5, CommandCounted DEF Refused, Command
  <2>2. ps' \in Stack
    BY <1>0, <1>5, SetFreqType DEF Refused
  <2> QED BY <1>5, <2>1, <2>2 DEF Refused
<1> QED BY <1>1, <1>2, <1>3, <1>4, <1>5 DEF AtServer

LEMMA TypeThread == TypeOK /\ Thread => TypeOK'
<1> SUFFICES ASSUME TypeOK, Thread PROVE TypeOK'
    OBVIOUS
<1> USE DEF TypeOK, shared, history, Goto, Places
<1>0. /\ ps \in Stack /\ cur \in Targets /\ copy \in Targets
      /\ best \in Freqs \cup {"0xff"} /\ ps.config \in Targets
  BY DEF Stack
<1>1. CASE Poll \/ Check \/ Judge
  <2>1. ps' \in Stack
    BY <1>0, <1>1 DEF Poll, Check, Judge, Stack
  <2> QED BY <1>1, <2>1 DEF Poll, Check, Judge, FlagFollows
<1>2. CASE CloseExit \/ CloseMark \/ CloseLeave
  BY <1>0, <1>2, StackType DEF CloseExit, CloseMark, CloseLeave
<1>3. CASE ScanInit \/ ScanClear \/ ScanRun \/ ScanMark \/ ScanEnter
  BY <1>0, <1>3, StackType DEF ScanInit, ScanClear, ClearBest, ScanRun, ScanMark, ScanEnter
<1>4. CASE ScanReadFreq \/ ScanReadMode \/ ScanSetConfig
  <2>1. ps' \in Stack
    BY <1>0, <1>4 DEF ScanReadFreq, ScanReadMode, ScanSetConfig, Stack
  <2>2. copy' \in Targets
    BY <1>0, <1>4 DEF ScanReadFreq, ScanReadMode, ScanSetConfig, Targets
  <2> QED BY <1>4, <2>1, <2>2 DEF ScanReadFreq, ScanReadMode, ScanSetConfig
<1>5. CASE ScanBegins \/ ScanFinds \/ ScanMisses
  <2>1. copy.freq \in Freqs
    BY <1>0 DEF Targets
  <2> QED BY <1>0, <1>5, <2>1 DEF ScanBegins, ScanFinds, ScanMisses
<1>6. CASE OpenInit \/ OpenEnter \/ OpenSetFreq
  <2>1. ps' \in Stack
    BY <1>0, <1>6, StackType DEF OpenInit, OpenEnter, OpenSetFreq
  <2> QED BY <1>6, <2>1 DEF OpenInit, OpenEnter, OpenSetFreq
<1>7. CASE OpenRun \/ OpenMark \/ OpenRunning \/ OpenConnect
  <2>1. ps' \in Stack
    BY <1>0, <1>7, StackType DEF OpenRun, OpenMark, OpenRunning, OpenConnect
  <2>2. CASE OpenRun \/ OpenMark \/ OpenRunning
    BY <2>1, <2>2 DEF OpenRun, OpenMark, OpenRunning
  <2>3. CASE OpenConnect
    BY <2>1, <2>3 DEF OpenConnect
  <2> QED BY <1>7, <2>2, <2>3
<1> QED BY <1>1, <1>2, <1>3, <1>4, <1>5, <1>6, <1>7 DEF Thread

LEMMA TypeStack == TypeOK /\ (Synchronises \/ LosesNetwork) => TypeOK'
<1> SUFFICES ASSUME TypeOK, Synchronises \/ LosesNetwork PROVE TypeOK'
    OBVIOUS
<1>1. ps \in Stack /\ losses \in 0 .. MaxLost /\ MaxLost \in Nat
  BY QuickAssumption DEF TypeOK
<1>2. ps' \in Stack /\ losses' \in 0 .. MaxLost
  BY <1>1 DEF Synchronises, LosesNetwork, Stack, history
<1> QED BY <1>2 DEF TypeOK, Synchronises, LosesNetwork, shared, local, history

(* No variable leaves its range, whatever is interrupted.                  *)
THEOREM TypeCorrect == Spec => []TypeOK
<1>1. Init => TypeOK
  <2> SUFFICES ASSUME Init PROVE TypeOK
    OBVIOUS
  <2>1. ps \in Stack
    BY DEF Init, Stack
  <2>2. commands \in 0 .. MaxCommands /\ losses \in 0 .. MaxLost
    BY QuickAssumption DEF Init
  <2>3. {seen, connect_flag} \subseteq BOOLEAN /\ byHand \in BOOLEAN
    BY DEF Init
  <2>4. pc \in Places
    BY DEF Init, Places
  <2> QED BY <2>1, <2>2, <2>3, <2>4 DEF Init, TypeOK
<1>2. TypeOK /\ [Next]_vars => TypeOK'
  <2>1. TypeOK /\ UNCHANGED vars => TypeOK'
    BY DEF TypeOK, vars, shared, local, history
  <2> QED BY <2>1, TypeAtServer, TypeThread, TypeStack DEF Next
<1> QED BY <1>1, <1>2, PTL DEF Spec

-----------------------------------------------------------------------------
(* The stack is closed where the thread relies on it.  Between two polls   *)
(* the record of the thread says so; where the thread has closed it, and   *)
(* until the thread opens it, nobody else does; and a start or a stop that *)
(* finds the record of the thread closes the stack behind its back.        *)

Open == ps.state # "exit"

ClosedInv ==
    ~byHand =>
        /\ pc \in {"wait", "check", "judge"} /\ Open => qc_state # "EXIT"
        /\ pc \in {"mark", "leave", "init", "open"} => ~Open
        /\ pc \in {"open3", "open4", "open5", "open6", "connect"} /\ Open =>
              qc_state # "EXIT"
        /\ pc \in {"wait", "check", "judge"} /\ Open /\ auto_run = 0 => late = 1

IInv == TypeOK /\ LateInv /\ ClosedInv

LEMMA StackState ==
    ASSUME NEW s \in Stack
    PROVE  /\ Exited(s).state = "exit"
           /\ s.state = "exit" => Running(s).state = "exit" /\ Connecting(s).state = "exit"
  BY DEF Stack, Exited, Running, Connecting

LEMMA SetFreqState ==
    ASSUME ps \in Stack, NEW f, SetFreq(f)
    PROVE  ps'.state = ps.state
  BY DEF Stack, SetFreq

LEMMA CloseState ==
    ASSUME ps \in Stack, NEW f, CloseForUser(f)
    PROVE  ps'.state = "exit" /\ qc_state' = "EXIT"
  BY DEF Stack, CloseForUser, Exited

LEMMA ClosedAtServer == IInv /\ AtServer => ClosedInv'
<1> SUFFICES ASSUME IInv, AtServer, ~byHand' PROVE ClosedInv'
    BY DEF ClosedInv
<1>0. ps \in Stack
  BY DEF IInv, TypeOK
<1> USE DEF IInv, ClosedInv, Open, local
<1>1. ASSUME NEW t \in Targets, Start(t) PROVE ClosedInv'
  <2>1. byHand = byHand'
    BY <1>1 DEF Start, Command
  <2>2. CASE qc_state # "EXIT"
    <3>1. ps'.state = "exit"
      BY <1>0, <1>1, <2>2, CloseState DEF Start
    <3> QED BY <1>1, <2>1, <3>1 DEF Start
  <2>3. CASE qc_state = "EXIT"
    <3>1. ps'.state = ps.state /\ UNCHANGED qc_state /\ auto_run' = 1
      BY <1>0, <1>1, <2>3, SetFreqState DEF Start
    <3> QED BY <1>1, <2>1, <3>1 DEF Start
  <2> QED BY <2>2, <2>3
<1>2. ASSUME NEW t \in Targets, Stop(t) PROVE ClosedInv'
  <2>1. byHand = byHand'
    BY <1>2 DEF Stop, Command
  <2>2. CASE qc_state # "EXIT"
    <3>1. ps'.state = "exit"
      BY <1>0, <1>2, <2>2, CloseState DEF Stop
    <3> QED BY <1>2, <2>1, <3>1 DEF Stop
  <2>3. CASE qc_state = "EXIT"
    <3>1. ps'.state = ps.state /\ UNCHANGED <<qc_state, late>>
      BY <1>0, <1>2, <2>3, SetFreqState DEF Stop
    <3> QED BY <1>2, <2>1, <2>3, <3>1 DEF Stop
  <2> QED BY <2>2, <2>3
<1>3. CASE StartEnds \/ StopEnds
  BY <1>3 DEF StartEnds, StopEnds, shared, history
<1>4. CASE UserExit
  <2>1. ps'.state = "exit"
    BY <1>0, <1>4, StackState DEF UserExit
  <2> QED BY <1>4, <2>1 DEF UserExit
<1>5. CASE UserInit \/ UserRun \/ UserConnect
  BY <1>5 DEF UserInit, UserRun, UserConnect, CommandByHand
<1>6. ASSUME NEW f \in Freqs, Refused(f) PROVE ClosedInv'
  <2>1. byHand = byHand' /\ ps'.state = ps.state
    BY <1>0, <1>6, SetFreqState DEF Refused, Command
  <2> QED BY <1>6, <2>1 DEF Refused, shared
<1> QED BY <1>1, <1>2, <1>3, <1>4, <1>5, <1>6 DEF AtServer

LEMMA ClosedThread == IInv /\ Thread => ClosedInv'
<1> SUFFICES ASSUME IInv, Thread, ~byHand, UNCHANGED byHand PROVE ClosedInv'
    BY DEF ClosedInv, Thread, Poll, Check, Judge, CloseExit, CloseMark, CloseLeave,
       ScanInit, ScanClear, ScanReadFreq, ScanReadMode, ScanSetConfig, ScanRun, ScanMark, ScanEnter,
       ScanBegins, ScanFinds, ScanMisses, OpenInit, OpenEnter, OpenSetFreq, OpenRun,
       OpenMark, OpenRunning, OpenConnect, history
<1>0. ps \in Stack /\ after \in {"init", "open"} /\ auto_run \in {0, 1}
  BY DEF IInv, TypeOK
<1> USE DEF IInv, ClosedInv, Open, shared, history, Goto
<1>1. CASE Poll \/ Check
  BY <1>1 DEF Poll, Check, Opens
<1>2. CASE Judge
  <2>1. ps'.state = ps.state
    BY <1>0, <1>2 DEF Judge, Stack
  <2> QED BY <1>2, <2>1 DEF Judge
<1>3. CASE CloseExit \/ CloseMark \/ CloseLeave
  BY <1>0, <1>3, StackState DEF CloseExit, CloseMark, CloseLeave
<1>4. CASE \/ ScanInit \/ ScanClear \/ ScanReadFreq \/ ScanReadMode \/ ScanSetConfig
           \/ ScanRun \/ ScanMark \/ ScanEnter \/ ScanBegins \/ ScanFinds \/ ScanMisses
  BY <1>4 DEF ScanInit, ScanClear, ScanReadFreq, ScanReadMode, ScanSetConfig, ScanRun, ScanMark,
     ScanEnter, ScanBegins, ScanFinds, ScanMisses
<1>5. CASE OpenInit \/ OpenEnter
  BY <1>5 DEF OpenInit, OpenEnter
<1>6. CASE OpenSetFreq \/ OpenRun \/ OpenMark \/ OpenRunning
  <2>1. Open' => Open
    BY <1>0, <1>6, StackState DEF OpenSetFreq, Stack, OpenRun, OpenMark, OpenRunning
  <2> QED BY <1>6, <2>1 DEF OpenSetFreq, OpenRun, OpenMark, OpenRunning
<1>7. CASE OpenConnect
  <2>1. Open' => Open
    BY <1>0, <1>7, StackState DEF OpenConnect
  <2>2. auto_run = 0 => late' = 1
    BY <1>7 DEF OpenConnect, LateInv
  <2> QED BY <1>7, <2>1, <2>2 DEF OpenConnect
<1> QED BY <1>1, <1>2, <1>3, <1>4, <1>5, <1>6, <1>7 DEF Thread

LEMMA Invariance == Spec => []IInv
<1>1. Init => ClosedInv
  BY DEF Init, ClosedInv, Open
<1>2. IInv /\ [Next]_vars => ClosedInv'
  <2>1. IInv /\ (Synchronises \/ LosesNetwork) => ClosedInv'
    <3> SUFFICES ASSUME IInv, Synchronises \/ LosesNetwork PROVE ClosedInv'
        OBVIOUS
    <3>1. ps \in Stack
      BY DEF IInv, TypeOK
    <3>2. ps'.state = ps.state
      BY <3>1 DEF Synchronises, LosesNetwork, Stack
    <3> QED
      BY <3>2 DEF IInv, ClosedInv, Open, Synchronises, LosesNetwork, shared, local, history
  <2>2. IInv /\ UNCHANGED vars => ClosedInv'
    BY DEF IInv, ClosedInv, Open, vars, shared, local, history
  <2> QED BY <2>1, <2>2, ClosedAtServer, ClosedThread DEF Next
<1> QED BY TypeCorrect, LateAlways, <1>1, <1>2, PTL DEF Spec, IInv

(* Without connections by hand the thread leaves the stack closed, once it *)
(* is back at its poll after a stop, or has made its one connection.       *)
THEOREM StopAlwaysCloses == Spec => []StopCloses
<1>1. IInv => StopCloses
  BY DEF IInv, ClosedInv, Open, StopCloses
<1> QED BY Invariance, <1>1, PTL

(* Without connections by hand the stack is initialised only when closed.  *)
THEOREM InitAlwaysClosed == Spec => InitOnlyClosed
<1> DEFINE Closed == pc' # pc /\ pc' \in {"init2", "open2"} /\ ~byHand => ps.state = "exit"
<1>1. IInv /\ [Next]_vars => [Closed]_vars
  <2> SUFFICES ASSUME IInv, Next, pc' # pc, pc' \in {"init2", "open2"}, ~byHand
               PROVE  ps.state = "exit"
    BY DEF vars, local
  <2>1. Thread
    BY DEF Next, AtServer, Start, Refused, StartEnds, Stop, StopEnds, UserExit, UserInit, UserRun,
       UserConnect, Synchronises, LosesNetwork, local
  <2>2. after \in {"init", "open"}
    BY DEF IInv, TypeOK
  <2>3. pc \in {"init", "open"}
    BY <2>1, <2>2 DEF Thread, Goto, Poll, Check, Judge, CloseExit, CloseMark, CloseLeave,
       ScanInit, ScanClear, ScanReadFreq, ScanReadMode, ScanSetConfig, ScanRun, ScanMark, ScanEnter,
       ScanBegins, ScanFinds, ScanMisses, OpenInit, OpenEnter, OpenSetFreq, OpenRun,
       OpenMark, OpenRunning, OpenConnect
  <2> QED BY <2>3 DEF IInv, ClosedInv, Open
<1> QED BY Invariance, <1>1, PTL DEF Spec, InitOnlyClosed

===============================================================================
