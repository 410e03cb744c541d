-------------------------- MODULE AutoManagerProofs --------------------------
(***************************************************************************)
(* Proofs about AutoManager, for any frequencies, subsystems and signal    *)
(* strengths, and for all three strategies of the scan.                    *)
(***************************************************************************)
EXTENDS AutoManager, FiniteSetTheorems, TLAPS

(* Every subsystem that was silent is no longer to be visited.             *)
CountInv == silent + Cardinality(rest) <= Cardinality(Subsystems)

(* While a scan inserts, no frequency is chosen.                           *)
ScanInv ==
    /\ process \in {"visit", "add", "linked"} => current = 0
    /\ half => process = "linked"

(* The nodes are the frequencies that were heard, each with the subsystem  *)
(* it was last heard in.                                                   *)
HeardInv ==
    \A i \in 1 .. Len(list) :
        /\ list[i].freq \in DOMAIN heard
        /\ list[i].subsystem = heard[list[i].freq]

IInv ==
    /\ TypeOK /\ CountInv /\ ScanInv /\ HeardInv /\ StrongestFirst
    /\ ConnectsWhereHeard

-----------------------------------------------------------------------------
(* A node inserted at its place keeps a list of nodes a list of nodes.     *)
LEMMA InsertType ==
  ASSUME list \in Seq(Node), NEW node \in Node, NEW i \in 1 .. Len(list) + 1
  PROVE  /\ InsertAt(node, i) \in Seq(Node)
         /\ Len(InsertAt(node, i)) = Len(list) + 1
         /\ DOMAIN InsertAt(node, i) = 1 .. Len(list) + 1
         /\ \A j \in 1 .. Len(list) + 1 : InsertAt(node, i)[j] =
                IF j < i THEN list[j] ELSE IF j = i THEN node ELSE list[j - 1]
<1>1. Len(list) + 1 \in Nat
  OBVIOUS
<1>2. \A j \in 1 .. Len(list) + 1 :
        (IF j < i THEN list[j] ELSE IF j = i THEN node ELSE list[j - 1]) \in Node
  OBVIOUS
<1> QED
  BY <1>1, <1>2 DEF InsertAt

(* A node inserted at its place keeps the order of strengths.              *)
LEMMA InsertSorted ==
  ASSUME list \in Seq(Node), twice = "no", StrongestFirst,
         NEW node \in Node, NEW i \in 1 .. Len(list) + 1, PlaceFor(node.rssi, i)
  PROVE  \A j \in 1 .. Len(list) :
            InsertAt(node, i)[j].rssi >= InsertAt(node, i)[j + 1].rssi
<1> SUFFICES ASSUME NEW j \in 1 .. Len(list)
             PROVE  InsertAt(node, i)[j].rssi >= InsertAt(node, i)[j + 1].rssi
    OBVIOUS
<1> DEFINE new == InsertAt(node, i)
<1>1. /\ new[j] = IF j < i THEN list[j] ELSE IF j = i THEN node ELSE list[j - 1]
      /\ new[j + 1] = IF j + 1 < i THEN list[j + 1]
                      ELSE IF j + 1 = i THEN node ELSE list[j + 1 - 1]
  <2>1. j \in 1 .. Len(list) + 1 /\ j + 1 \in 1 .. Len(list) + 1
    OBVIOUS
  <2> HIDE DEF new
  <2> QED
    BY <2>1, InsertType DEF new
<1>2. /\ node.rssi \in Int
      /\ \A k \in 1 .. Len(list) : list[k].rssi \in Int
  <2>1. ASSUME NEW n \in Node PROVE n.rssi \in Int
    <3>1. n.rssi \in Rssi \cup {0}
      BY DEF Node
    <3>2. \A x \in Rssi \cup {0} : x \in Int
      BY ScanAssumption
    <3> QED
      BY <3>1, <3>2
  <2>2. \A k \in 1 .. Len(list) : list[k] \in Node
    OBVIOUS
  <2> QED
    BY <2>1, <2>2
<1> HIDE DEF new
<1>3. ASSUME j + 1 < i PROVE new[j].rssi >= new[j + 1].rssi
  BY <1>1, <1>3 DEF StrongestFirst
<1>4. ASSUME j + 1 = i PROVE new[j].rssi >= new[j + 1].rssi
  BY <1>1, <1>2, <1>4 DEF PlaceFor
<1>5. ASSUME j = i PROVE new[j].rssi >= new[j + 1].rssi
  BY <1>1, <1>2, <1>5 DEF PlaceFor
<1>6. ASSUME j > i PROVE new[j].rssi >= new[j + 1].rssi
  <2>1. j - 1 \in 1 .. Len(list) - 1
    BY <1>6
  <2>2. list[j - 1].rssi >= list[j - 1 + 1].rssi
    BY <2>1 DEF StrongestFirst
  <2> QED
    BY <1>1, <1>6, <2>2
<1> QED
  BY <1>3, <1>4, <1>5, <1>6 DEF new

-----------------------------------------------------------------------------
(* What a frequency that is added leaves behind: a list of nodes that were *)
(* heard, in order when the frequency was not listed.                      *)
LEMMA AddKeeps ==
  ASSUME TypeOK, HeardInv, StrongestFirst, ScanInv, process \in {"visit", "add"},
         NEW s \in Subsystems, NEW f \in Freqs, NEW r \in Rssi \cup {0},
         AddFreqList(s, f, r)
  PROVE  /\ list' \in Seq(Node)
         /\ DOMAIN heard' = DOMAIN heard \cup {f}
         /\ heard' \in [DOMAIN heard' -> Subsystems]
         /\ current' = 0
         /\ half' \in BOOLEAN
         /\ process' \in {"add", "linked"}
         /\ half' => process' = "linked"
         /\ HeardInv' /\ StrongestFirst' /\ twice' \in {"yes", "no"}
<1> DEFINE node == [subsystem |-> s, freq |-> f, rssi |-> r]
<1>1. node \in Node /\ node.subsystem = s /\ node.freq = f /\ node.rssi = r
  BY DEF Node
<1> HIDE DEF node
<1>2. /\ heard' = [g \in DOMAIN heard \cup {f} |-> IF g = f THEN s ELSE heard[g]]
      /\ DOMAIN heard' = DOMAIN heard \cup {f}
      /\ heard' \in [DOMAIN heard' -> Subsystems]
      /\ heard'[f] = s
      /\ \A g \in DOMAIN heard \ {f} : heard'[g] = heard[g]
  BY DEF AddFreqList, TypeOK
<1>3. current = 0 /\ half = FALSE
  BY DEF ScanInv, TypeOK
<1>4. list \in Seq(Node)
  BY DEF TypeOK
<1>5. CASE f \in Listed
  <2>1. /\ list' = [i \in DOMAIN list |-> IF list[i].freq = f THEN node ELSE list[i]]
        /\ process' = "add" /\ UNCHANGED <<half, current>>
    BY <1>5 DEF AddFreqList, node
  <2>2. \A i \in 1 .. Len(list) : list[i] \in Node
    BY <1>4
  <2>3. /\ list' \in Seq(Node) /\ Len(list') = Len(list)
        /\ \A i \in 1 .. Len(list) :
              list'[i] = IF list[i].freq = f THEN node ELSE list[i]
    BY <1>1, <1>4, <2>1, <2>2
  <2>4. HeardInv'
    <3> SUFFICES ASSUME NEW i \in 1 .. Len(list)
                 PROVE  /\ list'[i].freq \in DOMAIN heard'
                        /\ list'[i].subsystem = heard'[list'[i].freq]
      BY <2>3 DEF HeardInv
    <3>1. CASE list[i].freq = f
      BY <1>1, <1>2, <2>3, <3>1
    <3>2. CASE list[i].freq # f
      BY <1>2, <2>3, <3>2 DEF HeardInv
    <3> QED
      BY <3>1, <3>2
  <2>5. twice' = "yes" /\ StrongestFirst'
    BY <1>5 DEF AddFreqList, StrongestFirst
  <2> QED
    BY <1>2, <1>3, <2>1, <2>3, <2>4, <2>5
<1>6. CASE f \notin Listed
  <2>1. PICK i \in 1 .. Len(list) + 1 :
           PlaceFor(r, i) /\ list' = InsertAt(node, i)
    BY <1>6 DEF AddFreqList, node
  <2>2. /\ process' = "linked" /\ half' = TRUE /\ current' = 0
        /\ twice' = twice /\ twice \in {"yes", "no"}
    BY <1>3, <1>6 DEF AddFreqList, TypeOK
  <2>3. /\ list' \in Seq(Node) /\ Len(list') = Len(list) + 1
        /\ \A j \in 1 .. Len(list) + 1 : list'[j] =
               IF j < i THEN list[j] ELSE IF j = i THEN node ELSE list[j - 1]
    <3> DEFINE new == InsertAt(node, i)
    <3>1. /\ new \in Seq(Node) /\ Len(new) = Len(list) + 1
          /\ \A j \in 1 .. Len(list) + 1 : new[j] =
                 IF j < i THEN list[j] ELSE IF j = i THEN node ELSE list[j - 1]
      BY ONLY <1>1, <1>4, <2>1, InsertType, i \in 1 .. Len(list) + 1
    <3> HIDE DEF new
    <3> QED
      BY <2>1, <3>1 DEF new
  <2>4. HeardInv'
    <3> SUFFICES ASSUME NEW j \in 1 .. Len(list) + 1
                 PROVE  /\ list'[j].freq \in DOMAIN heard'
                        /\ list'[j].subsystem = heard'[list'[j].freq]
      BY <2>3 DEF HeardInv
    <3>1. CASE j = i
      BY <1>1, <1>2, <2>3, <3>1
    <3>2. ASSUME NEW k \in 1 .. Len(list), list'[j] = list[k]
          PROVE  /\ list'[j].freq \in DOMAIN heard'
                 /\ list'[j].subsystem = heard'[list'[j].freq]
      <4>1. list[k].freq # f
        BY <1>4, <1>6 DEF Listed
      <4> QED
        BY <1>2, <3>2, <4>1 DEF HeardInv
    <3>3. CASE j < i
      <4>1. j \in 1 .. Len(list) /\ list'[j] = list[j]
        BY <2>3, <3>3
      <4> QED
        BY <3>2, <4>1
    <3>4. CASE j > i
      <4>1. j - 1 \in 1 .. Len(list)
        BY <3>4
      <4>2. list'[j] = list[j - 1]
        BY <2>3, <3>4
      <4> QED
        BY <3>2, <4>1, <4>2
    <3> QED
      BY <3>1, <3>3, <3>4
  <2>5. ASSUME twice = "no" PROVE StrongestFirst'
    <3>1. \A j \in 1 .. Len(list) :
             InsertAt(node, i)[j].rssi >= InsertAt(node, i)[j + 1].rssi
      BY <1>1, <1>4, <2>1, <2>5, InsertSorted
    <3> QED
      BY <1>4, <2>1, <2>3, <3>1 DEF StrongestFirst
  <2>6. ASSUME twice = "yes" PROVE StrongestFirst'
    BY <2>2, <2>6 DEF StrongestFirst
  <2> QED
    BY <1>2, <2>2, <2>3, <2>4, <2>5, <2>6
<1> QED
  BY <1>5, <1>6

-----------------------------------------------------------------------------
(* The parts of the invariant that a step leaves alone when it does not    *)
(* touch the list.                                                         *)
LEMMA ListUntouched ==
  ASSUME HeardInv, StrongestFirst, UNCHANGED <<list, heard, twice>>
  PROVE  HeardInv' /\ StrongestFirst'
  BY DEF HeardInv, StrongestFirst

LEMMA ListEmptied ==
  ASSUME list' = <<>>, heard' = Nothing
  PROVE  /\ HeardInv' /\ StrongestFirst'
         /\ list' \in Seq(Node) /\ Len(list') = 0
         /\ DOMAIN heard' = {} /\ heard' \in [DOMAIN heard' -> Subsystems]
  BY DEF HeardInv, StrongestFirst, Nothing

LEMMA InitInv == Init => IInv
<1> SUFFICES ASSUME Init PROVE IInv
    OBVIOUS
<1>1. Cardinality(Subsystems) \in Nat
  BY ScanAssumption, FS_CardinalityType
<1>2. /\ list = <<>> /\ heard = Nothing /\ found = Nothing
      /\ DOMAIN Nothing = {}
      /\ list \in Seq(Node) /\ Len(list) = 0
  BY DEF Init, Nothing
<1>3. found \in Results
  <2>1. Nothing \in [{} -> Rssi]
    BY DEF Nothing
  <2> QED
    BY <1>2, <2>1 DEF Results
<1>4. TypeOK
  <2>1. Nothing \in [DOMAIN Nothing -> Subsystems]
    BY DEF Nothing
  <2>2. fails \in 0 .. MaxFails /\ silent \in 0 .. Cardinality(Subsystems)
    BY <1>1, ScanAssumption DEF Init
  <2>3. DOMAIN heard \subseteq Freqs /\ heard \in [DOMAIN heard -> Subsystems]
    BY <1>2, <2>1
  <2>4. /\ process \in Processes /\ half \in BOOLEAN
        /\ strategy \in Strategies /\ twice \in {"yes", "no"} /\ rest \subseteq Subsystems
        /\ config \in [subsystem : Subsystems, freq : Freqs]
        /\ stack \in {"exit", "init", "run"}
    BY DEF Init, Processes
  <2>5. list \in Seq(Node) /\ current \in 0 .. Len(list) + 1
    BY <1>2 DEF Init
  <2> QED
    BY <1>3, <2>2, <2>3, <2>4, <2>5 DEF TypeOK
<1>5. CountInv
  BY <1>1, FS_EmptySet DEF Init, CountInv
<1>6. ScanInv
  BY DEF Init, ScanInv
<1>7. HeardInv /\ StrongestFirst
  BY <1>2 DEF HeardInv, StrongestFirst
<1>8. ConnectsWhereHeard
  BY <1>2 DEF Init, ConnectsWhereHeard
<1> QED
  BY <1>4, <1>5, <1>6, <1>7, <1>8 DEF IInv

(* The steps of a scan that add a frequency. *)
LEMMA AddStep ==
  ASSUME IInv, OnlyFreq \/ AddFound
  PROVE  IInv'
<1> USE DEF IInv
<1>0. Cardinality(Subsystems) \in Nat /\ Cardinality(Subsystems) > 0
  BY ScanAssumption, FS_CardinalityType, FS_EmptySet
<1>1. CASE OnlyFreq
  <2>1. PICK f \in Freqs : AddFreqList(config.subsystem, f, 0)
    BY <1>1 DEF OnlyFreq
  <2>2. /\ process = "visit" /\ strategy = 1
        /\ rest' = {} /\ silent' \in {0, 1}
        /\ Fail /\ UNCHANGED <<strategy, found, config, stack>>
    BY <1>1 DEF OnlyFreq
  <2>4. config.subsystem \in Subsystems
    BY DEF TypeOK
  <2>5. /\ list' \in Seq(Node)
        /\ DOMAIN heard' = DOMAIN heard \cup {f}
        /\ heard' \in [DOMAIN heard' -> Subsystems]
        /\ current' = 0 /\ half' \in BOOLEAN
        /\ process' \in {"add", "linked"}
        /\ half' => process' = "linked"
        /\ HeardInv' /\ StrongestFirst' /\ twice' \in {"yes", "no"}
    BY <2>1, <2>2, <2>4, AddKeeps
  <2>6. fails' \in 0 .. MaxFails
    BY <2>2, ScanAssumption DEF Fail, TypeOK
  <2>7. TypeOK'
    BY <1>0, <2>2, <2>5, <2>6 DEF TypeOK, Processes
  <2>8. CountInv'
    BY <1>0, <2>2, FS_EmptySet DEF CountInv
  <2>9. ScanInv' /\ ConnectsWhereHeard'
    BY <2>2, <2>5 DEF ScanInv, ConnectsWhereHeard
  <2> QED
    BY <2>5, <2>7, <2>8, <2>9
<1>2. CASE AddFound
  <2>1. PICK f \in DOMAIN found :
           /\ AddFreqList(config.subsystem, f, found[f])
           /\ found' = [g \in DOMAIN found \ {f} |-> found[g]]
    BY <1>2 DEF AddFound
  <2>2. process = "add" /\ UNCHANGED <<fails, strategy, rest, silent, config, stack>>
    BY <1>2 DEF AddFound
  <2>3. PICK F \in SUBSET Freqs : found \in [F -> Rssi]
    BY DEF TypeOK, Results
  <2>4. f \in Freqs /\ found[f] \in Rssi \cup {0}
    BY <2>1, <2>3
  <2>6. config.subsystem \in Subsystems
    BY DEF TypeOK
  <2>7. /\ list' \in Seq(Node)
        /\ DOMAIN heard' = DOMAIN heard \cup {f}
        /\ heard' \in [DOMAIN heard' -> Subsystems]
        /\ current' = 0 /\ half' \in BOOLEAN
        /\ process' \in {"add", "linked"}
        /\ half' => process' = "linked"
        /\ HeardInv' /\ StrongestFirst' /\ twice' \in {"yes", "no"}
    BY <2>1, <2>2, <2>4, <2>6, AddKeeps
  <2>8. DOMAIN found' = DOMAIN found \ {f} /\ found' \in Results
    <3>1. found' \in [F \ {f} -> Rssi] /\ F \ {f} \in SUBSET Freqs
      BY <2>1, <2>3
    <3> QED
      BY <2>1, <3>1 DEF Results
  <2>9. TypeOK'
    BY <2>2, <2>4, <2>7, <2>8 DEF TypeOK, Processes
  <2>10. CountInv' /\ ScanInv' /\ ConnectsWhereHeard'
    BY <2>2, <2>7 DEF CountInv, ScanInv, ConnectsWhereHeard
  <2> QED
    BY <2>7, <2>9, <2>10
<1> QED
  BY <1>1, <1>2

(* The other steps of a scan. *)
LEMMA ScanStep ==
  ASSUME IInv, BeginScan \/ ScanFreq \/ LinkComplete \/ NextSubsystem \/ ScanOver
  PROVE  IInv'
<1> USE DEF IInv
<1>0. Cardinality(Subsystems) \in Nat /\ Cardinality(Subsystems) > 0
  BY ScanAssumption, FS_CardinalityType, FS_EmptySet
<1>f. fails' \in 0 .. MaxFails
  BY ScanAssumption DEF TypeOK, Fail, BeginScan, ScanFreq, LinkComplete,
     NextSubsystem, ScanOver
<1>1. CASE BeginScan
  <2>1. /\ list' = <<>> /\ heard' = Nothing /\ current' = 0 /\ half' = half
        /\ process = "SCAN" /\ process' = "visit" /\ silent' = 0
        /\ strategy' \in Strategies /\ twice' = "no"
        /\ rest' \in {{config.subsystem}, Subsystems}
        /\ UNCHANGED <<found, config>> /\ stack' = "run"
    BY <1>1 DEF BeginScan, CleanFreqList, ListForgotten
  <2>2. /\ HeardInv' /\ StrongestFirst'
        /\ list' \in Seq(Node) /\ Len(list') = 0
        /\ DOMAIN heard' = {} /\ heard' \in [DOMAIN heard' -> Subsystems]
    BY <2>1, ListEmptied
  <2>3. config.subsystem \in Subsystems
    BY DEF TypeOK
  <2>4. TypeOK'
    BY <1>0, <1>f, <2>1, <2>2, <2>3 DEF TypeOK, Processes
  <2>5. CountInv'
    <3>1. Cardinality({config.subsystem}) = 1
      BY FS_Singleton
    <3>2. CASE rest' = Subsystems
      BY <1>0, <2>1, <3>2 DEF CountInv
    <3>3. CASE rest' = {config.subsystem}
      BY <1>0, <2>1, <3>1, <3>3 DEF CountInv
    <3> QED
      BY <2>1, <3>2, <3>3
  <2>6. ScanInv' /\ ConnectsWhereHeard'
    BY <2>1, <2>2 DEF ScanInv, ConnectsWhereHeard
  <2> QED
    BY <2>2, <2>4, <2>5, <2>6
<1>2. CASE ScanFreq
  <2>1. PICK s \in rest, result \in Results :
           /\ found' = result
           /\ rest' = rest \ {s}
           /\ config' = [config EXCEPT !.subsystem = s]
           /\ silent' = IF DOMAIN result = {} THEN silent + 1 ELSE silent
    BY <1>2 DEF ScanFreq
  <2>2. /\ process = "visit" /\ process' = "add" /\ strategy # 1
        /\ UNCHANGED <<list, half, current, fails, strategy, heard, twice, stack>>
    BY <1>2 DEF ScanFreq, memory, hearing
  <2>3. /\ IsFiniteSet(rest) /\ Cardinality(rest) \in Nat
        /\ Cardinality(rest') = Cardinality(rest) - 1
        /\ Cardinality(rest') \in Nat
    <3>1. IsFiniteSet(rest)
      BY ScanAssumption, FS_Subset DEF TypeOK
    <3>2. IsFiniteSet(rest') /\ Cardinality(rest') = Cardinality(rest) - 1
      BY <2>1, <3>1, FS_RemoveElement
    <3> QED
      BY <3>1, <3>2, FS_CardinalityType
  <2>4. CountInv' /\ silent' \in 0 .. Cardinality(Subsystems)
    <3>1. silent \in Nat
      BY <1>0 DEF TypeOK
    <3> QED
      BY <1>0, <2>1, <2>3, <3>1 DEF CountInv
  <2>5. config' \in [subsystem : Subsystems, freq : Freqs]
    <3>1. s \in Subsystems
      BY <2>1 DEF TypeOK
    <3> QED
      BY <2>1, <3>1 DEF TypeOK
  <2>6. TypeOK'
    BY <1>f, <2>1, <2>2, <2>4, <2>5 DEF TypeOK, Processes
  <2>7. HeardInv' /\ StrongestFirst'
    BY <2>2, ListUntouched
  <2>8. ScanInv' /\ ConnectsWhereHeard'
    BY <2>1, <2>2 DEF ScanInv, ConnectsWhereHeard
  <2> QED
    BY <2>4, <2>6, <2>7, <2>8
<1>3. CASE LinkComplete
  <2>1. /\ process = "linked" /\ process' = "add" /\ half' = FALSE
        /\ UNCHANGED <<list, current, fails, strategy, rest, silent, found, heard, twice, config, stack>>
    BY <1>3 DEF LinkComplete, scan, hearing
  <2>2. HeardInv' /\ StrongestFirst'
    BY <2>1, ListUntouched
  <2>3. TypeOK' /\ CountInv'
    BY <2>1 DEF TypeOK, Processes, CountInv
  <2>4. ScanInv' /\ ConnectsWhereHeard'
    BY <2>1 DEF ScanInv, ConnectsWhereHeard
  <2> QED
    BY <2>2, <2>3, <2>4
<1>4. CASE NextSubsystem
  <2>1. /\ process = "add" /\ process' = "visit" /\ rest # {}
        /\ UNCHANGED <<list, half, current, fails, strategy, rest, silent, found, heard, twice,
                       config, stack>>
    BY <1>4 DEF NextSubsystem, memory, scan, hearing
  <2>2. HeardInv' /\ StrongestFirst'
    BY <2>1, ListUntouched
  <2>3. TypeOK' /\ CountInv'
    BY <2>1 DEF TypeOK, Processes, CountInv
  <2>4. ScanInv' /\ ConnectsWhereHeard'
    BY <2>1 DEF ScanInv, ConnectsWhereHeard
  <2> QED
    BY <2>2, <2>3, <2>4
<1>5. CASE ScanOver
  <2>1. /\ process = "add" /\ process' \in {"SCAN", "INIT"} /\ stack' = "exit"
        /\ UNCHANGED <<list, half, current, strategy, rest, silent, found, heard, twice, config>>
    BY <1>5 DEF ScanOver, memory, scan, hearing
  <2>2. HeardInv' /\ StrongestFirst'
    BY <2>1, ListUntouched
  <2>3. TypeOK' /\ CountInv'
    BY <1>f, <2>1 DEF TypeOK, Processes, CountInv
  <2>4. ScanInv' /\ ConnectsWhereHeard'
    BY <2>1 DEF ScanInv, ConnectsWhereHeard
  <2> QED
    BY <2>2, <2>3, <2>4
<1> QED
  BY <1>1, <1>2, <1>3, <1>4, <1>5

(* The connection. *)
LEMMA ConnectStep ==
  ASSUME IInv, NoFreq \/ ChooseFreq \/ ConnectFails \/ Connected \/ Lost
  PROVE  IInv'
<1> USE DEF IInv
<1>0. UNCHANGED <<list, half, strategy, rest, silent, found, heard, twice>> /\ fails' \in {fails, 0}
  BY DEF NoFreq, ChooseFreq, ConnectFails, Connected, Lost, memory, scan, hearing
<1>1. HeardInv' /\ StrongestFirst'
  BY <1>0, ListUntouched
<1>2. fails' \in 0 .. MaxFails
  BY <1>0, ScanAssumption DEF TypeOK
<1>3. Len(list) \in Nat
  BY DEF TypeOK
<1>4. CASE NoFreq
  <2>1. /\ process = "INIT" /\ process' = "SCAN"
        /\ current' \in {current, Len(list) + 1} /\ UNCHANGED <<config, stack>>
    BY <1>4 DEF NoFreq
  <2>2. TypeOK' /\ CountInv'
    BY <1>0, <1>2, <1>3, <2>1 DEF TypeOK, Processes, CountInv
  <2> QED
    BY <1>0, <1>1, <2>1, <2>2 DEF ScanInv, ConnectsWhereHeard
<1>5. CASE ChooseFreq
  <2>1. /\ process = "INIT" /\ process' = "RUN" /\ stack' = "init"
        /\ current < Len(list) /\ current' = current + 1
        /\ config' = [subsystem |-> list[current + 1].subsystem,
                      freq |-> list[current + 1].freq]
    BY <1>5 DEF ChooseFreq
  <2>2. current + 1 \in 1 .. Len(list) /\ current + 1 \in 0 .. Len(list) + 1
    BY <1>3, <2>1 DEF TypeOK
  <2>3. config' \in [subsystem : Subsystems, freq : Freqs]
    <3>1. list[current + 1] \in Node
      BY <2>2 DEF TypeOK
    <3> QED
      BY <2>1, <3>1 DEF Node
  <2>4. TypeOK' /\ CountInv'
    BY <1>0, <1>2, <2>1, <2>2, <2>3 DEF TypeOK, Processes, CountInv
  <2>5. ConnectsWhereHeard'
    BY <1>0, <2>1, <2>2 DEF HeardInv, ConnectsWhereHeard
  <2> QED
    BY <1>0, <1>1, <2>1, <2>4, <2>5 DEF ScanInv
<1>6. CASE ConnectFails \/ Connected \/ Lost
  <2>1. /\ process \in {"RUN", "STRATEGY"} /\ process' \in {"STRATEGY", "EXIT"}
        /\ stack' \in {stack, "run"} /\ UNCHANGED <<current, config>>
    BY <1>6 DEF ConnectFails, Connected, Lost, memory
  <2>2. TypeOK' /\ CountInv'
    BY <1>0, <1>2, <2>1 DEF TypeOK, Processes, CountInv
  <2> QED
    BY <1>0, <1>1, <2>1, <2>2 DEF ScanInv, ConnectsWhereHeard
<1> QED
  BY <1>4, <1>5, <1>6

LEMMA ExitStep ==
  ASSUME IInv, Exit
  PROVE  IInv'
<1> USE DEF IInv
<1>1. /\ list' = <<>> /\ heard' = Nothing /\ current' = 0 /\ half' = half
      /\ process = "EXIT" /\ process' = "INIT" /\ stack' = "exit"
      /\ twice' = "no"
      /\ UNCHANGED <<fails, strategy, rest, silent, found, config>>
  BY DEF Exit, CleanFreqList, ListForgotten, scan
<1>2. /\ HeardInv' /\ StrongestFirst'
      /\ list' \in Seq(Node) /\ Len(list') = 0
      /\ DOMAIN heard' = {} /\ heard' \in [DOMAIN heard' -> Subsystems]
  BY <1>1, ListEmptied
<1>3. TypeOK' /\ CountInv'
  BY <1>1, <1>2 DEF TypeOK, Processes, CountInv
<1>4. ScanInv' /\ ConnectsWhereHeard'
  BY <1>1, <1>2 DEF ScanInv, ConnectsWhereHeard
<1> QED
  BY <1>2, <1>3, <1>4

LEMMA StutterStep ==
  ASSUME IInv, UNCHANGED vars
  PROVE  IInv'
  BY DEF IInv, vars, memory, scan, hearing, TypeOK, CountInv, ScanInv, HeardInv,
     StrongestFirst, ConnectsWhereHeard

THEOREM Invariance == Spec => []IInv
<1>1. IInv /\ [Next]_vars => IInv'
  BY AddStep, ScanStep, ConnectStep, ExitStep, StutterStep DEF Next, Proceed
<1> QED
  BY InitInv, <1>1, PTL DEF Spec

-----------------------------------------------------------------------------
(* The types of all variables, and with them that the place of the current *)
(* frequency is in the list, and that no scan counts a subsystem twice.    *)
THEOREM TypeCorrect == Spec => []TypeOK
<1>1. IInv => TypeOK
  BY DEF IInv
<1> QED
  BY Invariance, <1>1, PTL

(* at_wiota_add_freq_list keeps the list in the order of signal strength,  *)
(* as long as no frequency is heard twice.                                 *)
THEOREM ListInOrder == Spec => []StrongestFirst
<1>1. IInv => StrongestFirst
  BY DEF IInv
<1> QED
  BY Invariance, <1>1, PTL

(* The AT server, in at_wiota_get_avail_freq_list, never meets a node that *)
(* the manager is about to link.                                           *)
THEOREM ReaderIsSafe == Spec => []ReaderMeetsWholeNodes
<1>1. IInv => ReaderMeetsWholeNodes
  BY DEF IInv, ScanInv, ReaderMeetsWholeNodes, ReaderWalks
<1> QED
  BY Invariance, <1>1, PTL

(* at_wiota_choose_freq sets the subsystem together with the frequency, so *)
(* that the manager connects where it last heard it.                       *)
THEOREM ConnectsThere == Spec => []ConnectsWhereHeard
<1>1. IInv => ConnectsWhereHeard
  BY DEF IInv
<1> QED
  BY Invariance, <1>1, PTL

===============================================================================
