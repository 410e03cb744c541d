----------------------------- MODULE QuickConnect -----------------------------
(***************************************************************************)
(* Quick connect (applications/quick_connect/quick_connect.c): a thread of *)
(* the lowest priority polls the protocol stack once a second, and when    *)
(* there is no network and qc_auto_run is set, it scans for the network    *)
(* the user named, and connects.  The AT server starts and stops it, and   *)
(* interrupts it between any two statements; it does so without waiting    *)
(* for the thread, which looks at qc_auto_run once per poll.               *)
(***************************************************************************)
EXTENDS Integers, FiniteSets

CONSTANTS
    Freqs,          \* frequencies
    Modes,          \* e_qc_mode: the frame configurations
    Networks,       \* the pairs of frequency and mode that have a network
    MaxCommands,    \* bound: AT commands
    MaxLost         \* bound: networks lost

Targets == [freq : Freqs, mode : Modes]

ASSUME QuickAssumption ==
    /\ Networks \subseteq Targets
    /\ {MaxCommands, MaxLost} \subseteq Nat

VARIABLES
    ps,            \* the protocol stack, see Stack
    wiota_state,   \* the state that guards the AT commands
    qc_state,      \* qc_wiota_state
    auto_run,      \* qc_auto_run
    cur,           \* cur_freq and cur_mode
    best,          \* best_freq.freq_idx, "0xff" for none
    pc,            \* the next statement of the thread, see Places
    after,         \* where the thread goes on after it has closed the stack
    seen,          \* the local variable wiota_state: whether it was SYNC
    connect_flag,  \* the local variable connect_flag
    copy,          \* the local copy of a configuration or of a frequency
    at,            \* the AT server: "idle", or in the delay of a command
    commands,      \* history: commands given
    byHand,        \* history: whether AT+WIOTAINIT, RUN=1, CONNECT were used
    losses,        \* history: networks lost
    late           \* history: connects since auto_run was cleared

shared == <<wiota_state, qc_state, auto_run, cur, best>>
local == <<pc, after, seen, connect_flag, copy>>
history == <<commands, byHand, losses, late>>
vars == <<ps, shared, local, at, history>>

(* config is what the stack is set to; tuned: the thread has set power and *)
(* data rate.  crossed is history: since the thread last set the whole     *)
(* configuration a command has changed the frequency of the open stack.    *)
Stack == [state : {"exit", "init", "run"},
          link : {"down", "connecting", "sync", "lost"},
          config : Targets, tuned : BOOLEAN, crossed : BOOLEAN]

Places == {"wait", "check", "judge",
           "exit", "mark", "leave",
           "init", "init2", "read", "read2", "set", "run", "run2", "run3",
           "scan", "scanning",
           "open", "open2", "open3", "open4", "open5", "open6", "connect"}

TypeOK ==
    /\ ps \in Stack
    /\ wiota_state \in {"DEFAULT", "INIT", "RUN", "EXIT"}
    /\ qc_state \in {"INIT", "RUN", "EXIT"}
    /\ auto_run \in {0, 1}
    /\ cur \in Targets
    /\ best \in Freqs \cup {"0xff"}
    /\ pc \in Places
    /\ after \in {"init", "open"}
    /\ {seen, connect_flag} \subseteq BOOLEAN
    /\ copy \in Targets
    /\ at \in {"idle", "starting", "stopping"}
    /\ commands \in 0 .. MaxCommands
    /\ byHand \in BOOLEAN
    /\ losses \in 0 .. MaxLost
    /\ late \in Nat

Init ==
    /\ ps \in [state : {"exit"}, link : {"down"}, config : Targets,
              tuned : {FALSE}, crossed : {FALSE}]
    /\ wiota_state = "DEFAULT" /\ qc_state = "EXIT" /\ auto_run = 0
    /\ cur \in Targets
    /\ best \in Freqs
    /\ pc = "wait" /\ after = "init"
    /\ seen = FALSE /\ connect_flag = FALSE /\ copy = cur
    /\ at = "idle"
    /\ commands = 0 /\ byHand = FALSE /\ losses = 0 /\ late = 0

-----------------------------------------------------------------------------
(* The protocol stack.  A call that does not fit its state has no effect.  *)

Exited(s) == [s EXCEPT !.state = "exit", !.link = "down", !.tuned = FALSE]

Inited(s) == IF s.state = "exit" THEN [s EXCEPT !.state = "init"] ELSE s

Running(s) == IF s.state = "init" THEN [s EXCEPT !.state = "run"] ELSE s

Connecting(s) ==
    IF s.state = "run" /\ s.link = "down" THEN [s EXCEPT !.link = "connecting"] ELSE s

Synchronises ==
    /\ ps.link \in {"connecting", "lost"}
    /\ ps.config \in Networks
    /\ ps' = [ps EXCEPT !.link = "sync"]
    /\ UNCHANGED <<shared, local, at, history>>

LosesNetwork ==
    /\ ps.link = "sync"
    /\ losses < MaxLost
    /\ losses' = losses + 1
    /\ ps' = [ps EXCEPT !.link = "lost"]
    /\ UNCHANGED <<shared, local, at, commands, byHand, late>>

-----------------------------------------------------------------------------
(* The AT server.  A command runs without interruption up to its delay.    *)

AnyCommand == at = "idle" /\ commands < MaxCommands /\ commands' = commands + 1

Command == AnyCommand /\ UNCHANGED byHand

CommandByHand == AnyCommand /\ byHand' = TRUE

SetFreq(f) ==
    ps' = [ps EXCEPT !.config.freq = f, !.crossed = @ \/ ps.state # "exit"]

ClearBest == best' = "0xff"

CloseForUser(f) ==
    /\ ps' = [Exited(ps) EXCEPT !.config.freq = f]
    /\ wiota_state' = "EXIT"
    /\ qc_state' = "EXIT"

(* AT+WIOTAQC=1,<freq>,<mode> *)
Start(t) ==
    /\ Command
    /\ cur' = t
    /\ IF qc_state # "EXIT"
       THEN /\ CloseForUser(t.freq)
            /\ auto_run' = 0
            /\ at' = "starting"
            /\ UNCHANGED <<best, late>>
       ELSE /\ SetFreq(t.freq)
            /\ ClearBest
            /\ auto_run' = 1
            /\ late' = 0
            /\ UNCHANGED <<wiota_state, qc_state, at>>
    /\ UNCHANGED <<local, losses>>

(* A mode or a switch that is refused: the frequency has been set.         *)
Refused(f) ==
    /\ Command
    /\ SetFreq(f)
    /\ UNCHANGED <<shared, local, at, losses, late>>

StartEnds ==
    /\ at = "starting"
    /\ at' = "idle"
    /\ ClearBest
    /\ auto_run' = 1
    /\ late' = 0
    /\ UNCHANGED <<ps, wiota_state, qc_state, cur, local, commands, byHand, losses>>

(* Mutant: the stop leaves the stack to the thread. *)
StopThread(t) ==
    /\ Command
    /\ auto_run' = 0
    /\ SetFreq(t.freq)
    /\ UNCHANGED <<wiota_state, qc_state, cur, best, local, at, losses, late>>

(* AT+WIOTAQC=0,<freq>,<mode>: the frequency is set here, too. *)
Stop(t) ==
    /\ Command
    /\ auto_run' = 0
    /\ IF qc_state # "EXIT"
       THEN CloseForUser(t.freq) /\ at' = "stopping"
       ELSE SetFreq(t.freq) /\ UNCHANGED <<wiota_state, qc_state, at>>
    /\ UNCHANGED <<cur, best, local, losses, late>>

StopEnds ==
    /\ at = "stopping"
    /\ at' = "idle"
    /\ UNCHANGED <<ps, shared, local, history>>

(* AT+WIOTARUN=0 *)
UserExit ==
    /\ Command
    /\ wiota_state = "RUN"
    /\ ps' = Exited(ps)
    /\ auto_run' = 0
    /\ wiota_state' = "EXIT"
    /\ UNCHANGED <<qc_state, cur, best, local, at, losses, late>>

(* AT+WIOTAINIT *)
UserInit ==
    /\ CommandByHand
    /\ wiota_state \in {"DEFAULT", "EXIT"}
    /\ ps' = Inited(ps)
    /\ wiota_state' = "INIT"
    /\ UNCHANGED <<qc_state, auto_run, cur, best, local, at, losses, late>>

(* AT+WIOTARUN=1 *)
UserRun ==
    /\ CommandByHand
    /\ wiota_state = "INIT"
    /\ ps' = Running(ps)
    /\ wiota_state' = "RUN"
    /\ UNCHANGED <<qc_state, auto_run, cur, best, local, at, losses, late>>

(* AT+WIOTACONNECT=1 *)
UserConnect ==
    /\ CommandByHand
    /\ wiota_state = "RUN"
    /\ ps' = Connecting(ps)
    /\ UNCHANGED <<shared, local, at, losses, late>>

-----------------------------------------------------------------------------
(* quick_connect_task *)

Goto(place) == pc' = place

Poll ==
    /\ pc = "wait"
    /\ seen' = (ps.link = "sync")
    /\ Goto("check")
    /\ UNCHANGED <<ps, shared, after, connect_flag, copy, at, history>>

(* Mutant: the thread opens whenever there is no network. *)
AlwaysOpens == ~seen

Opens == ~seen /\ auto_run = 1

(* Mutant: the stack is not closed before it is opened again. *)
CheckOnly ==
    /\ pc = "check"
    /\ Goto(IF Opens THEN "init" ELSE "judge")
    /\ UNCHANGED <<ps, shared, after, seen, connect_flag, copy, at, history>>

Check ==
    /\ pc = "check"
    /\ after' = "init"
    /\ Goto(IF Opens THEN IF qc_state # "EXIT" THEN "exit" ELSE "init" ELSE "judge")
    /\ UNCHANGED <<ps, shared, seen, connect_flag, copy, at, history>>

(* Mutant: connect_flag is never reset. *)
FlagStays == connect_flag' = (seen \/ connect_flag)

FlagFollows == connect_flag' = seen

Judge ==
    /\ pc = "judge"
    /\ FlagFollows
    /\ ps' = IF seen /\ ~connect_flag /\ auto_run = 1
             THEN [ps EXCEPT !.tuned = TRUE]
             ELSE ps
    /\ Goto("wait")
    /\ UNCHANGED <<shared, after, seen, copy, at, history>>

(* The three statements that close the stack. *)
CloseExit ==
    /\ pc = "exit"
    /\ ps' = Exited(ps)
    /\ Goto("mark")
    /\ UNCHANGED <<shared, after, seen, connect_flag, copy, at, history>>

CloseMark ==
    /\ pc = "mark"
    /\ wiota_state' = "EXIT"
    /\ Goto("leave")
    /\ UNCHANGED <<ps, qc_state, auto_run, cur, best, after, seen, connect_flag,
                   copy, at, history>>

CloseLeave ==
    /\ pc = "leave"
    /\ qc_state' = "EXIT"
    /\ Goto(after)
    /\ UNCHANGED <<ps, wiota_state, auto_run, cur, best, after, seen, connect_flag,
                   copy, at, history>>

-----------------------------------------------------------------------------
(* quick_scan *)

ScanInit ==
    /\ pc = "init"
    /\ ps' = Inited(ps)
    /\ Goto("init2")
    /\ UNCHANGED <<shared, after, seen, connect_flag, copy, at, history>>

ScanClear ==
    /\ pc = "init2"
    /\ qc_state' = "INIT"
    /\ ClearBest
    /\ Goto("read")
    /\ UNCHANGED <<ps, wiota_state, auto_run, cur, after, seen, connect_flag, copy,
                   at, history>>

(* Mutant: the frame configuration of the mode is not written. *)
ModeNotRead ==
    /\ pc = "read2"
    /\ Goto("set")
    /\ UNCHANGED <<ps, shared, after, seen, connect_flag, copy, at, history>>

ScanReadFreq ==
    /\ pc = "read"
    /\ copy' = [ps.config EXCEPT !.freq = cur.freq]
    /\ Goto("read2")
    /\ UNCHANGED <<ps, shared, after, seen, connect_flag, at, history>>

(* cur_mode is read for each field of the configuration.  A start among    *)
(* these statements finds QC_INIT and closes the stack; what is read then  *)
(* is set on a closed stack.                                               *)
ScanReadMode ==
    /\ pc = "read2"
    /\ copy' = [copy EXCEPT !.mode = cur.mode]
    /\ Goto("set")
    /\ UNCHANGED <<ps, shared, after, seen, connect_flag, at, history>>

ScanSetConfig ==
    /\ pc = "set"
    /\ ps' = [ps EXCEPT !.config = copy, !.crossed = FALSE]
    /\ Goto("run")
    /\ UNCHANGED <<shared, after, seen, connect_flag, copy, at, history>>

ScanRun ==
    /\ pc = "run"
    /\ ps' = Running(ps)
    /\ Goto("run2")
    /\ UNCHANGED <<shared, after, seen, connect_flag, copy, at, history>>

ScanMark ==
    /\ pc = "run2"
    /\ wiota_state' = "RUN"
    /\ Goto("run3")
    /\ UNCHANGED <<ps, qc_state, auto_run, cur, best, after, seen, connect_flag,
                   copy, at, history>>

ScanEnter ==
    /\ pc = "run3"
    /\ qc_state' = "RUN"
    /\ Goto("scan")
    /\ UNCHANGED <<ps, wiota_state, auto_run, cur, best, after, seen, connect_flag,
                   copy, at, history>>

(* quick_freq_scan_op: the frequency comes from the configuration. *)
ScanBegins ==
    /\ pc = "scan"
    /\ copy' = ps.config
    /\ Goto("scanning")
    /\ UNCHANGED <<ps, shared, after, seen, connect_flag, at, history>>

Audible == ps.state = "run" /\ [ps.config EXCEPT !.freq = copy.freq] \in Networks

ScanFinds ==
    /\ pc = "scanning"
    /\ Audible
    /\ best' = copy.freq
    /\ after' = "open"
    /\ Goto("exit")
    /\ UNCHANGED <<ps, wiota_state, qc_state, auto_run, cur, seen, connect_flag, copy,
                   at, history>>

ScanMisses ==
    /\ pc = "scanning"
    /\ after' = "open"
    /\ Goto("exit")
    /\ UNCHANGED <<ps, shared, seen, connect_flag, copy, at, history>>

-----------------------------------------------------------------------------
(* quick_open_wiota after the scan *)

(* After a delay of 200 ms, in which a start or stop that has closed the   *)
(* stack before gets through its 100 ms.                                   *)
OpenInit ==
    /\ pc = "open"
    /\ at = "idle"
    /\ IF best # "0xff"
       THEN ps' = Inited(ps) /\ Goto("open2")
       ELSE Goto("judge") /\ UNCHANGED ps
    /\ UNCHANGED <<shared, after, seen, connect_flag, copy, at, history>>

OpenEnter ==
    /\ pc = "open2"
    /\ qc_state' = "INIT"
    /\ Goto("open3")
    /\ UNCHANGED <<ps, wiota_state, auto_run, cur, best, after, seen, connect_flag,
                   copy, at, history>>

(* Mutant: any frequency is set. *)
SetAnyFreq ==
    /\ pc = "open3"
    /\ ps' = [ps EXCEPT !.config.freq = best]
    /\ Goto("open4")
    /\ UNCHANGED <<shared, after, seen, connect_flag, copy, at, history>>

(* A frequency of 0xff, which a start may have written, is refused.        *)
OpenSetFreq ==
    /\ pc = "open3"
    /\ ps' = IF best # "0xff" THEN [ps EXCEPT !.config.freq = best] ELSE ps
    /\ Goto("open4")
    /\ UNCHANGED <<shared, after, seen, connect_flag, copy, at, history>>

OpenRun ==
    /\ pc = "open4"
    /\ ps' = Running(ps)
    /\ Goto("open5")
    /\ UNCHANGED <<shared, after, seen, connect_flag, copy, at, history>>

OpenMark ==
    /\ pc = "open5"
    /\ wiota_state' = "RUN"
    /\ Goto("open6")
    /\ UNCHANGED <<ps, qc_state, auto_run, cur, best, after, seen, connect_flag,
                   copy, at, history>>

OpenRunning ==
    /\ pc = "open6"
    /\ qc_state' = "RUN"
    /\ Goto("connect")
    /\ UNCHANGED <<ps, wiota_state, auto_run, cur, best, after, seen, connect_flag,
                   copy, at, history>>

OpenConnect ==
    /\ pc = "connect"
    /\ ps' = Connecting(ps)
    /\ late' = IF auto_run = 0 THEN late + 1 ELSE late
    /\ Goto("judge")
    /\ UNCHANGED <<shared, after, seen, connect_flag, copy, at, commands, byHand, losses>>

-----------------------------------------------------------------------------
AtServer ==
    \/ \E t \in Targets : Start(t) \/ Stop(t)
    \/ \E f \in Freqs : Refused(f)
    \/ StartEnds \/ StopEnds
    \/ UserExit \/ UserInit \/ UserRun \/ UserConnect

Thread ==
    \/ Poll \/ Check \/ Judge
    \/ CloseExit \/ CloseMark \/ CloseLeave
    \/ ScanInit \/ ScanClear \/ ScanReadFreq \/ ScanReadMode \/ ScanSetConfig
    \/ ScanRun \/ ScanMark \/ ScanEnter
    \/ ScanBegins \/ ScanFinds \/ ScanMisses
    \/ OpenInit \/ OpenEnter \/ OpenSetFreq \/ OpenRun \/ OpenMark
    \/ OpenRunning \/ OpenConnect

Next == AtServer \/ Thread \/ Synchronises \/ LosesNetwork

Spec == Init /\ [][Next]_vars

(* The thread runs when all others block, the delays of the AT server end, *)
(* the stack finds the network it is set to, and so does, in the end, a    *)
(* scan that is repeated.                                                  *)
FairSpec ==
    /\ Spec
    /\ WF_vars(Thread)
    /\ SF_vars(ScanFinds)
    /\ WF_vars(Synchronises)
    /\ WF_vars(StartEnds \/ StopEnds)

-----------------------------------------------------------------------------
(* From the moment qc_auto_run is cleared until it is set again the thread *)
(* connects at most once: what it had begun when the user stopped it.      *)
OnceAfterStop == late <= 1

(* Unless the stack is also opened by hand: when the thread is back at its *)
(* poll after a stop, it has either closed the stack or connected that one *)
(* time.                                                                   *)
StopCloses ==
    auto_run = 0 /\ at = "idle" /\ pc = "wait" /\ ~byHand =>
        ps.state = "exit" \/ late = 1

(* Unless the stack is also opened by hand, it is initialised only when it *)
(* is closed, whatever start or stop has interrupted.                      *)
InitOnlyClosed ==
    [][pc' # pc /\ pc' \in {"init2", "open2"} /\ ~byHand =>
           ps.state = "exit"]_vars

(* In the end the stack synchronises with a network that is there before   *)
(* the thread polls it again.                                              *)
InTime ==
    <>[][Poll => ~(ps.link = "connecting" /\ ps.config \in Networks)]_vars

(* The network the user asked for last is found and joined, when there is  *)
(* one and the stack is not opened by hand, whatever the thread was doing  *)
(* for an earlier start; unless a command has changed the frequency of an  *)
(* open stack without closing it.  A refused command does that, and a      *)
(* start between uc_wiota_init and QC_INIT, where it finds QC_EXIT: the    *)
(* thread may then join another network, and stays there.                  *)
Wanted == auto_run = 1 /\ cur \in Networks

Joins ==
    InTime /\ []~byHand /\ <>[](Wanted /\ ~ps.crossed) =>
        <>[](ps.link = "sync" /\ ps.config = cur)

(* A network that was joined gets its power and its data rate.             *)
Tuned ==
    InTime /\ []~byHand => []<>(auto_run = 1 /\ ps.link = "sync" => ps.tuned)

===============================================================================
