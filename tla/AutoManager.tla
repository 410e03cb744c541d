----------------------------- MODULE AutoManager -----------------------------
(***************************************************************************)
(* The auto manager of PS/at/at_wiota_auto_manager.c: it scans for         *)
(* networks, keeps those it has heard in a list ordered by signal          *)
(* strength, connects to one, serves it until it is lost, and begins anew. *)
(* The AT server, which interrupts it at any point, walks through the same *)
(* list when it starts the gateway.                                        *)
(***************************************************************************)
EXTENDS Integers, Sequences, FiniteSets

CONSTANTS
    Freqs,          \* the frequencies that may be heard
    Subsystems,     \* the entries of subsystemid_list
    Strategies,     \* the strategies that occur: the length of the static
                    \* frequency list times that of subsystemid_list
    Rssi,           \* the signal strengths that may be measured
    MaxFails        \* bound: continue_scan_fail is counted up to here

ASSUME ScanAssumption ==
    /\ IsFiniteSet(Subsystems) /\ Subsystems # {}
    /\ Strategies \subseteq Nat
    /\ Rssi \subseteq Int
    /\ MaxFails \in Nat \ {0}

VARIABLES
    process,    \* manager_state, and the steps of a scan
    list,       \* freq_list, from its head
    half,       \* whether the links of the newest node are incomplete
    current,    \* current_freq_node: 0 for null, or the place in the list
    fails,      \* continue_scan_fail
    strategy,   \* strategy, as the last scan has read it
    rest,       \* the subsystems that this scan has still to visit
    silent,     \* how many subsystems had no network to synchronise with
    found,      \* what the last scan_freq returned and is not yet listed
    heard,      \* where each frequency was last heard, since the list is emptied
    twice,      \* whether a frequency was heard twice since then
    config,     \* the subsystem and the frequency set in the stack
    stack       \* "exit", "init" or "run"

memory == <<list, half, current>>
scan == <<strategy, rest, silent, found>>
hearing == <<heard, twice>>
vars == <<process, memory, fails, scan, hearing, config, stack>>

Processes == {"SCAN", "visit", "add", "linked", "INIT", "RUN", "STRATEGY", "EXIT"}

Node == [subsystem : Subsystems, freq : Freqs, rssi : Rssi \cup {0}]

Results == UNION {[heardFreqs -> Rssi] : heardFreqs \in SUBSET Freqs}

TypeOK ==
    /\ process \in Processes
    /\ list \in Seq(Node)
    /\ half \in BOOLEAN
    /\ current \in 0 .. Len(list) + 1
    /\ fails \in 0 .. MaxFails
    /\ strategy \in Strategies
    /\ rest \subseteq Subsystems
    /\ silent \in 0 .. Cardinality(Subsystems)
    /\ found \in Results
    /\ DOMAIN heard \subseteq Freqs
    /\ heard \in [DOMAIN heard -> Subsystems]
    /\ twice \in {"yes", "no"}
    /\ config \in [subsystem : Subsystems, freq : Freqs]
    /\ stack \in {"exit", "init", "run"}

Nothing == [f \in {} |-> 0]

Init ==
    /\ process = "SCAN"
    /\ list = <<>> /\ half = FALSE /\ current = 0
    /\ fails = 0
    /\ strategy \in Strategies
    /\ rest = {} /\ silent = 0 /\ found = Nothing
    /\ heard = Nothing /\ twice = "no"
    /\ config \in [subsystem : Subsystems, freq : Freqs]
    /\ stack = "exit"

-----------------------------------------------------------------------------
(* The list. *)

ListForgotten == list' = <<>> /\ heard' = Nothing /\ twice' = "no"

(* Mutant: current_freq_node still points into the list. *)
FreeList == ListForgotten /\ UNCHANGED <<half, current>>

(* at_wiota_clean_freq_list *)
CleanFreqList == ListForgotten /\ current' = 0 /\ UNCHANGED half

Listed == {list[i].freq : i \in DOMAIN list}

(* Mutant: the comparison of the list of weakest first. *)
StrongerThan(rssi, i) ==
    /\ \A j \in 1 .. i - 1 : list[j].rssi <= rssi
    /\ i <= Len(list) => list[i].rssi > rssi

(* The place of the first node that is weaker, or the end. *)
PlaceFor(rssi, i) ==
    /\ \A j \in 1 .. i - 1 : list[j].rssi >= rssi
    /\ i <= Len(list) => list[i].rssi < rssi

InsertAt(node, i) ==
    [j \in 1 .. Len(list) + 1 |->
        IF j < i THEN list[j] ELSE IF j = i THEN node ELSE list[j - 1]]

(* A node that exists is updated where it is.  A new one is complete only  *)
(* after the last of the four assignments of rt_list_insert_before.        *)
AddFreqList(subsystem, freq, rssi) ==
    LET node == [subsystem |-> subsystem, freq |-> freq, rssi |-> rssi]
    IN  /\ heard' = [f \in DOMAIN heard \cup {freq} |->
                        IF f = freq THEN subsystem ELSE heard[f]]
        /\ \/ /\ freq \in Listed
              /\ list' = [i \in DOMAIN list |->
                             IF list[i].freq = freq THEN node ELSE list[i]]
              /\ process' = "add"
              /\ twice' = "yes"
              /\ UNCHANGED <<half, current>>
           \/ /\ freq \notin Listed
              /\ \E i \in 1 .. Len(list) + 1 :
                    PlaceFor(rssi, i) /\ list' = InsertAt(node, i)
              /\ half' = TRUE
              /\ process' = "linked"
              /\ UNCHANGED <<current, twice>>

(* At its bound the counter keeps alternating between odd and even. *)
Fail == fails' = IF fails < MaxFails THEN fails + 1 ELSE MaxFails - 1

-----------------------------------------------------------------------------
(* at_wiota_manager_scan, which reads both lists anew; AT commands change  *)
(* them.                                                                   *)

BeginScan ==
    /\ process = "SCAN"
    /\ stack' = "run"
    /\ CleanFreqList
    /\ process' = "visit"
    /\ strategy' \in Strategies
    /\ rest' = IF strategy' <= 1 THEN {config.subsystem} ELSE Subsystems
    /\ silent' = 0
    /\ UNCHANGED <<fails, found, config>>

(* Mutant: no exception for odd counts. *)
AfterThree == fails > 2

GivesUp == fails > 2 /\ fails % 2 = 0

(* Strategy 1: one static frequency, which is not listened for. *)
OnlyFreq ==
    /\ process = "visit"
    /\ strategy = 1
    /\ rest # {}
    /\ \E f \in Freqs : AddFreqList(config.subsystem, f, 0)
    /\ rest' = {}
    /\ silent' = IF GivesUp THEN 1 ELSE 0
    /\ Fail
    /\ UNCHANGED <<strategy, found, config, stack>>

ScanFreq ==
    /\ process = "visit"
    /\ strategy # 1
    /\ \E s \in rest, result \in Results :
          /\ found' = result
          /\ rest' = rest \ {s}
          /\ config' = [config EXCEPT !.subsystem = s]
          /\ silent' = IF DOMAIN result = {} THEN silent + 1 ELSE silent
    /\ process' = "add"
    /\ UNCHANGED <<memory, fails, strategy, hearing, stack>>

AddFound ==
    /\ process = "add"
    /\ \E f \in DOMAIN found :
          /\ AddFreqList(config.subsystem, f, found[f])
          /\ found' = [g \in DOMAIN found \ {f} |-> found[g]]
    /\ UNCHANGED <<fails, strategy, rest, silent, config, stack>>

LinkComplete ==
    /\ process = "linked"
    /\ half' = FALSE
    /\ process' = "add"
    /\ UNCHANGED <<list, current, fails, scan, hearing, config, stack>>

NextSubsystem ==
    /\ process = "add"
    /\ DOMAIN found = {}
    /\ rest # {}
    /\ process' = "visit"
    /\ UNCHANGED <<memory, fails, scan, hearing, config, stack>>

(* The scan has failed when no subsystem had a network; one that had none  *)
(* is enough to count as a failure of the next delay.                      *)
ScanFailed == silent = IF strategy <= 1 THEN 1 ELSE Cardinality(Subsystems)

ScanOver ==
    /\ process = "add"
    /\ DOMAIN found = {}
    /\ rest = {}
    /\ stack' = "exit"
    /\ IF strategy # 1 /\ silent > 0 THEN Fail ELSE UNCHANGED fails
    /\ process' = IF ScanFailed THEN "SCAN" ELSE "INIT"
    /\ UNCHANGED <<memory, scan, hearing, config>>

-----------------------------------------------------------------------------
(* at_wiota_manager_task after a scan *)

(* at_wiota_choose_freq: the node after the current one, or the first. *)
NoFreq ==
    /\ process = "INIT"
    /\ current >= Len(list)
    /\ process' = "SCAN"
    /\ current' = IF list = <<>> THEN current ELSE Len(list) + 1
    /\ UNCHANGED <<list, half, fails, scan, hearing, config, stack>>

(* Mutant: the subsystem of the last scan stays set. *)
KeepSubsystem ==
    /\ process = "INIT"
    /\ current < Len(list)
    /\ current' = current + 1
    /\ config' = [config EXCEPT !.freq = list[current + 1].freq]
    /\ stack' = "init"
    /\ process' = "RUN"
    /\ UNCHANGED <<list, half, fails, scan, hearing>>

ChooseFreq ==
    /\ process = "INIT"
    /\ current < Len(list)
    /\ current' = current + 1
    /\ config' = [subsystem |-> list[current + 1].subsystem,
                  freq |-> list[current + 1].freq]
    /\ stack' = "init"
    /\ process' = "RUN"
    /\ UNCHANGED <<list, half, fails, scan, hearing>>

ConnectFails ==
    /\ process = "RUN"
    /\ stack' = "run"
    /\ process' = "EXIT"
    /\ UNCHANGED <<memory, fails, scan, hearing, config>>

Connected ==
    /\ process = "RUN"
    /\ stack' = "run"
    /\ process' = "STRATEGY"
    /\ fails' = 0
    /\ UNCHANGED <<memory, scan, hearing, config>>

(* at_wiota_manager_startegy returns, with or without the gateway handler. *)
Lost ==
    /\ process = "STRATEGY"
    /\ process' = "EXIT"
    /\ UNCHANGED <<memory, fails, scan, hearing, config, stack>>

Exit ==
    /\ process = "EXIT"
    /\ stack' = "exit"
    /\ CleanFreqList
    /\ process' = "INIT"
    /\ UNCHANGED <<fails, scan, config>>

-----------------------------------------------------------------------------
Proceed ==
    \/ BeginScan \/ OnlyFreq \/ ScanFreq \/ AddFound \/ LinkComplete
    \/ NextSubsystem \/ ScanOver
    \/ NoFreq \/ ChooseFreq \/ ConnectFails \/ Connected \/ Exit

Next == Proceed \/ Lost

Spec == Init /\ [][Next]_vars

(* The manager is a thread whose waits all have a timeout; the network     *)
(* need never be lost.                                                     *)
FairSpec == Spec /\ WF_vars(Proceed)

-----------------------------------------------------------------------------
(* at_wiota_get_avail_freq_list walks through the list, called by the AT   *)
(* server between any two steps of the manager.                            *)
ReaderWalks == current # 0

(* The AT server never walks onto a node whose links are not yet set: the  *)
(* walk is taken only while a frequency is chosen, and none is inserted    *)
(* then.                                                                   *)
ReaderMeetsWholeNodes == ReaderWalks => ~half

(* The list is ordered by signal strength, so that the first node is the   *)
(* strongest network of the scan, unless a frequency was heard twice: it   *)
(* keeps its place with its new strength.                                  *)
StrongestFirst ==
    twice = "no" =>
        \A i \in 1 .. Len(list) - 1 : list[i].rssi >= list[i + 1].rssi

(* A single static frequency is in use, or is tried again and again,       *)
(* however often it has failed: the scan that gives up is followed by one  *)
(* that does not.                                                          *)
KeepsTrying == <>[](strategy = 1) => []<>(process \in {"RUN", "STRATEGY"})

(* The manager connects in the subsystem where it last heard the frequency *)
(* that it uses, and that was in its last scan.                            *)
ConnectsWhereHeard ==
    process \in {"RUN", "STRATEGY"} =>
        config.freq \in DOMAIN heard /\ config.subsystem = heard[config.freq]

===============================================================================
