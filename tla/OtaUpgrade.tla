------------------------------ MODULE OtaUpgrade ------------------------------
(***************************************************************************)
(* What the upgrade of the device itself promises, without radio, flash or *)
(* timers: the device takes part in one campaign at a time, only in one    *)
(* for the version it runs; it gathers the blocks of that campaign alone;  *)
(* and its program changes in one step, to the version of a campaign of    *)
(* which it has every block.  GatewayOta implements it.  The promise ends  *)
(* when the service is started anew under a request that is in progress.   *)
(***************************************************************************)
EXTENDS Integers, SequencesExt

CONSTANTS
    Images,        \* the campaigns, records as in GatewayOta
    FirstVersion   \* the version at the start

VARIABLES
    version,       \* the program that runs
    campaign,      \* the number of the campaign for this device, 0 for none
    received,      \* its blocks that have been received
    crossed        \* "yes" once a start has overtaken a request

(* The campaigns for the device itself. *)
Own == {i \in Images : i.dev = "iote"}

Blocks(i) == 0 .. (i.blocks - 1)

Init ==
    /\ version = FirstVersion
    /\ campaign = 0
    /\ received = {}
    /\ crossed = "no"

Accept(i) ==
    /\ IsPrefix(i.old, version)
    /\ campaign' = i.num
    /\ received' = {}
    /\ UNCHANGED version

Get(i, b) ==
    /\ campaign = i.num
    /\ received' = received \cup {b}
    /\ UNCHANGED <<version, campaign>>

Install(i) ==
    /\ campaign = i.num
    /\ Blocks(i) \subseteq received
    /\ version' = i.new
    /\ campaign' = 0
    /\ received' = {}

(* A restart, a failed check of the image, another device's campaign. *)
Drop ==
    /\ campaign' = 0
    /\ received' = {}
    /\ UNCHANGED version

Advance ==
    \/ Drop
    \/ \E i \in Own :
          \/ Accept(i) \/ Install(i)
          \/ \E b \in Blocks(i) : Get(i, b)

(* From here on the version, the campaign and its blocks may be anything.  *)
Overtake == crossed' = "yes"

Next == (Advance /\ UNCHANGED crossed) \/ Overtake

Spec == Init /\ [][Next]_<<version, campaign, received, crossed>>

===============================================================================
