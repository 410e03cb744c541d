-------------------------- MODULE GatewayOtaProofs --------------------------
(***************************************************************************)
(* Proofs about GatewayOta, for every set of campaigns, every flash layout *)
(* and every limit that satisfies the assumptions of that module: first    *)
(* its invariants, then that it implements OtaUpgrade.                     *)
(***************************************************************************)
EXTENDS GatewayOta, FiniteSetTheorems, TLAPS

(* The request the task holds while it sleeps: it fits, and its block is   *)
(* in the image.                                                           *)
Held(r) ==
    /\ r \in Requests
    /\ Fits(r.img)
    /\ r.blk < r.img.blocks

HeldInv ==
    /\ pc \in {"idle", "send"} => req = Nothing
    /\ pc \notin {"idle", "send"} => Held(req)

(* An image for this device was built for its version. *)
Holds(r) == Held(r) /\ (r.img.dev = "iote" => StrMatches(version, r.img.old))

ReqInv ==
    /\ pc \in {"idle", "send"} => req = Nothing
    /\ pc \notin {"idle", "send"} => Holds(req)

(* Before the campaign is in DOWNLOAD its number is already set.  The mask *)
(* of a campaign for this device is empty then: upgrade_num was 0.         *)
BeginInv ==
    pc \in {"erase", "init"} =>
        /\ gw.ota_state = "DEFAULT"
        /\ gw.upgrade_num = req.img.num
        /\ req.img.dev = "iote" => gw.mask_map = {}

BlockInv ==
    pc \in {"write", "verify"} =>
        gw.ota_state = "DOWNLOAD" /\ gw.upgrade_num = req.img.num

JumpInv ==
    /\ gw.ota_state = "PROGRAM" => pc = "jump"
    /\ pc = "jump" => req.img.dev = "iote" /\ Intact(req.img)

(* upgrade_num = 0 stands for "no campaign": nothing is left of a mask. *)
FreshMask ==
    gw.upgrade_num = 0 /\ gw.ota_state # "PROGRAM" => gw.mask_map = {}

(* A campaign in DOWNLOAD has a number, is not reported as complete, and   *)
(* its address, unless an AT command removed it, is that of its image.     *)
DownloadInv ==
    gw.ota_state = "DOWNLOAD" =>
        /\ gw.upgrade_num # 0
        /\ gw.ota_dl_state # 2
        /\ \A i \in Images :
              gw.upgrade_num = i.num /\ gw.bin_addr # 0 =>
                  gw.bin_addr = WriteAddr(i)

(* No task, no handler in progress. *)
LinkInv == link = "off" => pc = "idle"

TaskInv ==
    /\ LinkInv
    /\ ReqInv
    /\ BeginInv
    /\ BlockInv
    /\ JumpInv
    /\ FreshMask
    /\ DownloadInv
    /\ MaskBacked
    /\ NeverBroken
    /\ ReportedImageIntact

(* The inductive invariant.  Of a record that was zeroed under a handler   *)
(* only the types are left, and the request that the handler holds.        *)
IInv == TypeOK /\ HeldInv /\ (Uncrossed => TaskInv)

-----------------------------------------------------------------------------
(* Facts about the operators of GatewayOta. *)

(* What the provers need to know of an image. *)
LEMMA ImageFields ==
    ASSUME NEW i \in Images
    PROVE  /\ i.num \in Nat \ {0}
           /\ i.dev \in {"iote", "mcu"}
           /\ i.blocks \in Nat \ {0}
           /\ i.old \in Versions
           /\ i.new \in Versions
           /\ i.type \in Nat
           /\ WriteAddr(i) \in Nat \ {0}
  BY ImagesAssumption, LayoutAssumption DEF ImageRecord, WriteAddr

(* A block of an image that fits lies in the flash that is modelled. *)
LEMMA BlockInFlash ==
    ASSUME NEW i \in Images, Fits(i), NEW b \in Nat, b < i.blocks
    PROVE  WriteAddr(i) + b \in FlashBlocks
  BY ImageFields, LayoutAssumption DEF Fits, MaxSize, WriteAddr, FlashBlocks

LEMMA SentIsRequest ==
    ASSUME NEW r \in Sent
    PROVE  /\ r \in Requests
           /\ r.img \in Images
           /\ r.blk \in Nat
           /\ r.blk < r.img.blocks
  BY ImageFields DEF Sent, Requests

LEMMA RequestFields ==
    ASSUME NEW r \in Requests
    PROVE  r.img \in Images /\ r.blk \in Nat /\ r.good \in BOOLEAN
  BY DEF Requests

(* What arrives is a possible content of a block, and so is what the flash *)
(* makes of it.                                                            *)
LEMMA ProgrammedContent ==
    ASSUME NEW r \in Requests, NEW c \in Contents
    PROVE  /\ Programmed(c, Received(r)) \in Contents
           /\ Programmed(c, Received(r)) \in {BlockOf(r.img, r.blk), Garbage}
  BY RequestFields, ImageFields DEF Programmed, Received, BlockOf, Contents

(* strncpy leaves a version string in the buffer. *)
LEMMA StrCopiedVersion ==
    ASSUME NEW s \in Versions, NEW t \in Versions
    PROVE  StrCopied(s, t) \in Versions
  BY DEF StrCopied, Versions

(* The number of missing blocks, added up in a counter of limited width. *)
LEMMA MissCount ==
    ASSUME NEW n \in Nat, NEW k \in Nat, NEW S
    PROVE  (n + Cardinality((0 .. (k - 1)) \ S)) % CounterMod \in MissNums
  <1>1. IsFiniteSet(0 .. (k - 1))
    BY FS_Interval
  <1>2. IsFiniteSet((0 .. (k - 1)) \ S)
    BY <1>1, FS_Difference
  <1>3. Cardinality((0 .. (k - 1)) \ S) \in Nat
    BY <1>2, FS_CardinalityType
  <1> QED
    BY <1>3, LimitAssumption DEF MissNums

(* The values that the handlers assign to fields of small range. *)
LEMMA FieldValues ==
    /\ OtaStates = {"DEFAULT", "DOWNLOAD", "PROGRAM", "STOP"}
    /\ 0 \in DlStates /\ 1 \in DlStates /\ 2 \in DlStates
    /\ 0 \in DevTypes /\ 1 \in DevTypes
    /\ 0 \in MissNums
    /\ 0 \in InvalidReqs
  BY LimitAssumption DEF OtaStates, DlStates, DevTypes, MissNums, InvalidReqs

(* The RAM after memset has the right type. *)
LEMMA ZeroedType == Zeroed \in GwRecord
  BY FieldValues DEF Zeroed, GwRecord, Versions

(* So has the record in which one more block is marked as received. *)
LEMMA MarkedType ==
    ASSUME NEW g \in GwRecord, NEW m \in SUBSET Nat, NEW n \in Nat
    PROVE  [g EXCEPT !.mask_map = m, !.ota_recved_len = n] \in GwRecord
  BY DEF GwRecord

-----------------------------------------------------------------------------
(* The initial state satisfies the inductive invariant. *)
LEMMA InitInv == Init => IInv
  <1> SUFFICES ASSUME Init PROVE IInv
    OBVIOUS
  <1> USE DEF Init
  <1>1. TypeOK
    BY ZeroedType, LimitAssumption, ValueAssumption
       DEF TypeOK, Links, Contents
  <1>2. NeverBroken
    BY ValueAssumption DEF NeverBroken
  <1> QED
    BY <1>1, <1>2
       DEF IInv, HeldInv, TaskInv, LinkInv, ReqInv, BeginInv, BlockInv, JumpInv,
           FreshMask, DownloadInv, MaskBacked, ReportedImageIntact, Zeroed

(* Every step of the system leaves the variables in their types. *)
LEMMA TypeStep == IInv /\ [Next]_vars => TypeOK'
  <1> SUFFICES ASSUME IInv, [Next]_vars PROVE TypeOK'
    OBVIOUS
  <1>0. TypeOK /\ HeldInv
    BY DEF IInv
  <1> USE <1>0, LimitAssumption DEF TypeOK
  <1>1. ASSUME NEW r \in Sent, OtaReq(r) PROVE TypeOK'
    <2>1. r \in Requests /\ r.img \in Images /\ r.img.num \in Nat
      BY SentIsRequest, ImageFields
    <2>2. /\ DeviceNoted(r) \in GwRecord
          /\ Checked(r) \in GwRecord
      BY FieldValues DEF DeviceNoted, Checked, StateInRange, GwRecord
    <2>3. CASE OtaReqTooLarge(r)
      BY <2>2, <2>3 DEF OtaReqTooLarge, Arrives, Disturbance, Event
    <2>4. CASE OtaReqIgnored(r)
      BY <2>2, <2>4 DEF OtaReqIgnored, Arrives, Disturbance, Event
    <2>5. CASE OtaReqBegin(r)
      <3>1. gw' \in GwRecord
        BY <2>1, <2>2, <2>5 DEF OtaReqBegin, GwRecord
      <3> QED
        BY <2>1, <2>5, <3>1 DEF OtaReqBegin, ArrivesFirst, Event
    <2>6. CASE OtaReqSwitch(r)
      <3>1. ClearState(Checked(r)) \in GwRecord
        BY <2>2, FieldValues DEF ClearState, GwRecord
      <3>2. gw' \in GwRecord
        BY <2>1, <3>1, <2>6 DEF OtaReqSwitch, GwRecord
      <3> QED
        BY <2>1, <2>6, <3>2 DEF OtaReqSwitch, ArrivesFirst, Event, TimerStopped
    <2>7. CASE OtaReqBlock(r)
      BY <2>1, <2>2, <2>7
         DEF OtaReqBlock, Arrives, Disturbance, Event, TimerStopped, GoesToBlock
    <2> QED
      BY <1>1, <2>3, <2>4, <2>5, <2>6, <2>7 DEF OtaReq
  <1>2. CASE OtaStop
    <2>1. gw' \in GwRecord
      BY <1>2, FieldValues DEF OtaStop, GwRecord
    <2> QED
      BY <1>2, <2>1 DEF OtaStop, Disturbance, Event, TimerStopped
  <1>3. ASSUME NEW i \in Images, OtaEnd(i) PROVE TypeOK'
    <2> DEFINE num == (gw.miss_data_num + Cardinality(Missing)) % CounterMod
    <2>1. gw.miss_data_num \in Nat /\ gw.block_count \in Nat
      BY LimitAssumption DEF GwRecord, MissNums
    <2>2. num \in MissNums
      BY <2>1, MissCount DEF Missing
    <2>3. /\ [gw EXCEPT !.miss_data_num = num] \in GwRecord
          /\ [gw EXCEPT !.miss_data_num = num,
                        !.miss_data_invalid_req = 0] \in GwRecord
      BY <2>2, FieldValues DEF GwRecord
    <2>4. gw' \in GwRecord
      BY <1>3, <2>3 DEF OtaEnd
    <2> QED
      BY <1>3, <2>4 DEF OtaEnd, Disturbance, Event, TimerStarted
  <1>4. CASE EraseFlash
    <2>1. flash' \in [FlashBlocks -> Contents]
      BY <1>4 DEF EraseFlash, Contents
    <2> QED
      BY <1>4, <2>1 DEF EraseFlash
  <1>5. CASE StartDownload
    <2>1. Held(req)
      BY <1>5 DEF HeldInv, StartDownload
    <2>2. /\ req.img.blocks \in Nat
          /\ req.img.type \in Nat
          /\ WriteAddr(req.img) \in Nat
          /\ StrCopied(gw.new_version, req.img.new) \in Versions
      BY <2>1, RequestFields, ImageFields, StrCopiedVersion DEF Held, GwRecord
    <2>3. gw' \in GwRecord
      BY <1>5, <2>2, FieldValues DEF StartDownload, Begun, GwRecord
    <2> QED
      BY <1>5, <2>1, <2>3
         DEF StartDownload, GoesToBlock, TimerStopped, TimerStarted
  <1>6. CASE WriteBlock
    <2>1. Held(req)
      BY <1>6 DEF HeldInv, WriteBlock
    <2>2. req \in Requests /\ req.blk \in Nat
      BY <2>1, RequestFields DEF Held
    <2>3. WriteAddr(req.img) + req.blk \in FlashBlocks
      BY <2>1, RequestFields, BlockInFlash DEF Held
    <2>4. flash' \in [FlashBlocks -> Contents]
      BY <1>6, <2>2, <2>3, ProgrammedContent DEF WriteBlock
    <2>5. gw' \in GwRecord
      <3>1. /\ gw.mask_map \cup {req.blk} \in SUBSET Nat
            /\ gw.ota_recved_len + 1 \in Nat
        BY <2>2 DEF GwRecord
      <3> QED
        BY <1>6, <3>1, MarkedType DEF WriteBlock
    <2> QED
      BY <1>6, <2>4, <2>5 DEF WriteBlock, TimerStopped
  <1>7. CASE VerifyAccepts
    <2>1. req.img.blocks \in Nat
      BY <1>7, RequestFields, ImageFields DEF HeldInv, Held, VerifyAccepts
    <2>2. Complete(req) \in GwRecord
      BY <2>1, FieldValues DEF Complete, GwRecord
    <2>3. CASE req.img.dev = "iote"
      <3>1. gw' \in GwRecord
        BY <1>7, <2>2, <2>3, FieldValues DEF VerifyAccepts, GwRecord
      <3> QED
        BY <1>7, <2>3, <3>1 DEF VerifyAccepts, Links
    <2>4. CASE req.img.dev # "iote"
      <3>1. gw' = [Complete(req) EXCEPT !.ota_state = "DEFAULT",
                                        !.mask_map = {}]
        BY <1>7, <2>4 DEF VerifyAccepts
      <3>2. gw' \in GwRecord
        BY <2>2, <3>1, FieldValues DEF GwRecord
      <3> QED
        BY <1>7, <2>4, <3>2 DEF VerifyAccepts, Links
    <2> QED
      BY <2>3, <2>4
  <1>8. CASE VerifyRejects
    <2>1. gw' \in GwRecord
      BY <1>8, FieldValues DEF VerifyRejects, ClearState, GwRecord
    <2> QED
      BY <1>8, <2>1 DEF VerifyRejects, TimerStopped
  <1>9. CASE JumpProgram
    <2>1. version' \in Versions \cup {Broken}
      BY <1>9, RequestFields, ImageFields
         DEF JumpProgram, Installed, HeldInv, Held
    <2> QED
      BY <1>9, <2>1, ZeroedType DEF JumpProgram, RamCleared, Links
  <1>10. CASE TimerFires
    BY <1>10 DEF TimerFires
  <1>11. CASE MissRequest
    <2>1. gw' \in GwRecord
      <3>1. AsksAgain => gw.miss_data_invalid_req + 1 \in InvalidReqs
        BY DEF AsksAgain, GwRecord, InvalidReqs
      <3> QED
        BY <1>11, <3>1 DEF MissRequest, GwRecord
    <2> QED
      BY <1>11, <2>1 DEF MissRequest, TimerStopped
  <1>12. CASE MissRequestSent
    BY <1>12 DEF MissRequestSent, TimerStarted
  <1>13. CASE MissRequestFailed
    BY <1>13 DEF MissRequestFailed, TimerStarted, TimerStopped
  <1>14. CASE ClearOtaState
    <2>1. gw' \in GwRecord
      BY <1>14, FieldValues DEF ClearOtaState, GwRecord
    <2> QED
      BY <1>14, <2>1 DEF ClearOtaState, Disturbance, Event
  <1>15. CASE Start
    BY <1>15, ZeroedType DEF Start, Links
  <1>16. CASE NetworkLost \/ EndBegins \/ EndCompletes \/ EndReleases
                  \/ TaskLeaves
    BY <1>16
       DEF NetworkLost, EndBegins, EndCompletes, EndReleases, TaskLeaves,
           Disturbance, Event, Links, TimerStopped
  <1>17. CASE PowerFailure
    <2>1. flash' \in [FlashBlocks -> Contents]
      BY <1>17 DEF PowerFailure, CrashedFlash, Contents
    <2> QED
      BY <1>17, <2>1, ZeroedType
         DEF PowerFailure, RamCleared, Links, Disturbance, Event
  <1>18. CASE NullReport
    BY <1>18, ZeroedType DEF NullReport, RamCleared, Links
  <1>19. CASE UNCHANGED vars
    BY <1>19 DEF vars
  <1> QED
    BY <1>1, <1>2, <1>3, <1>4, <1>5, <1>6, <1>7, <1>8, <1>9, <1>10, <1>11,
       <1>12, <1>13, <1>14, <1>15, <1>16, <1>17, <1>18, <1>19
       DEF Next, TaskStep

-----------------------------------------------------------------------------
(* The fields of gateway_mode that the invariant speaks of. *)
Kept ==
    /\ gw'.ota_state = gw.ota_state
    /\ gw'.upgrade_num = gw.upgrade_num
    /\ gw'.mask_map = gw.mask_map
    /\ gw'.ota_dl_state = gw.ota_dl_state
    /\ gw'.bin_addr = gw.bin_addr
    /\ gw'.ota_recved_len = gw.ota_recved_len

(* A step that leaves these fields, the flash and the request alone        *)
(* preserves the invariant: the timer, the missing-data requests, the      *)
(* first half of end().                                                    *)
LEMMA FrameStep ==
    ASSUME TaskInv, Uncrossed, Kept, UNCHANGED <<req, flash, version>>,
           pc' = pc \/ (pc \in {"idle", "send"} /\ pc' \in {"idle", "send"}),
           LinkInv'
    PROVE  TaskInv'
  <1> USE DEF TaskInv, Kept
  <1>1. ReqInv' /\ BeginInv' /\ BlockInv' /\ NeverBroken' /\ FreshMask'
    BY DEF ReqInv, Holds, Held, BeginInv, BlockInv, NeverBroken, FreshMask
  <1>2. JumpInv'
    BY DEF JumpInv, Intact
  <1>3. DownloadInv'
    BY DEF DownloadInv
  <1>4. MaskBacked'
    BY DEF MaskBacked
  <1>5. ReportedImageIntact'
    BY DEF ReportedImageIntact, Intact
  <1> QED
    BY <1>1, <1>2, <1>3, <1>4, <1>5

(* So does a step that zeroes gateway_mode while no handler is active. *)
LEMMA ResetStep ==
    ASSUME gw' = Zeroed, pc' = "idle", req' = Nothing, NeverBroken'
    PROVE  TaskInv'
  BY DEF TaskInv, LinkInv, ReqInv, BeginInv, BlockInv, JumpInv, FreshMask,
         DownloadInv, MaskBacked, ReportedImageIntact, Zeroed

(* The request handler up to its first sleep. *)
LEMMA RequestStep ==
    ASSUME IInv, Uncrossed, NEW r \in Sent, OtaReq(r)
    PROVE  TaskInv'
  <1>0. TypeOK /\ TaskInv
    BY DEF IInv
  <1>1. /\ r \in Requests /\ r.img \in Images /\ r.blk \in Nat
        /\ r.blk < r.img.blocks
        /\ r.img.num \in Nat \ {0}
    BY SentIsRequest, ImageFields
  <1>2. gw \in GwRecord
    BY <1>0 DEF TypeOK
  <1>3. pc = "idle" /\ link \in {"on", "ending"} /\ req = Nothing
    BY <1>0 DEF OtaReq, OtaReqTooLarge, OtaReqIgnored, OtaReqBegin, OtaReqSwitch,
                OtaReqBlock, Arrives, ArrivesFirst, TaskTakes, TaskInv, ReqInv
  <1>4. UNCHANGED <<link, flash, version>>
    BY DEF OtaReq, OtaReqTooLarge, OtaReqIgnored, OtaReqBegin, OtaReqSwitch,
           OtaReqBlock
  <1>5. LinkInv'
    BY <1>3, <1>4 DEF LinkInv
  <1>6. /\ Checked(r).ota_state = StateInRange(r)
        /\ Checked(r).upgrade_num = gw.upgrade_num
        /\ Checked(r).mask_map = gw.mask_map
        /\ Checked(r).ota_dl_state = gw.ota_dl_state
        /\ Checked(r).bin_addr = gw.bin_addr
        /\ Checked(r).ota_recved_len = gw.ota_recved_len
        /\ Checked(r) \in GwRecord
    BY <1>2, FieldValues DEF Checked, DeviceNoted, StateInRange, GwRecord
  <1>7. CASE OtaReqTooLarge(r)
    <2>1. Kept
      BY <1>2, <1>7 DEF OtaReqTooLarge, DeviceNoted, Kept, GwRecord
    <2> QED
      BY <1>0, <1>5, <1>7, <2>1, FrameStep DEF OtaReqTooLarge
  <1>8. CASE OtaReqIgnored(r)
    <2>1. UNCHANGED <<pc, req>> /\ gw' = Checked(r)
      BY <1>8 DEF OtaReqIgnored
    <2>2. CASE gw.ota_state = StateInRange(r)
      BY <1>0, <1>4, <1>5, <1>6, <2>1, <2>2, FrameStep DEF Kept
    <2>3. CASE gw.ota_state = "STOP" /\ StateInRange(r) = "DEFAULT"
      BY <1>0, <1>3, <1>4, <1>5, <1>6, <2>1, <2>3
         DEF TaskInv, ReqInv, BeginInv, BlockInv, JumpInv, FreshMask,
             DownloadInv, MaskBacked, NeverBroken, ReportedImageIntact, Intact
    <2> QED
      BY <2>2, <2>3 DEF StateInRange
  <1>9. CASE OtaReqBegin(r) \/ OtaReqSwitch(r)
    <2>1. /\ pc' = "erase" /\ req' = r
          /\ Fits(r.img)
          /\ r.img.dev = "iote" => StrMatches(version, r.img.old)
      BY <1>9 DEF OtaReqBegin, OtaReqSwitch, MayBegin, Downloading,
                  ForThisDevice
    <2>2. /\ gw'.ota_state = "DEFAULT"
          /\ gw'.upgrade_num = r.img.num
          /\ gw'.ota_dl_state = gw.ota_dl_state
          /\ gw'.bin_addr = gw.bin_addr
          /\ gw'.ota_recved_len = gw.ota_recved_len
      <3>1. CASE OtaReqBegin(r)
        BY <1>6, <3>1 DEF OtaReqBegin, MayBegin, GwRecord
      <3>2. CASE OtaReqSwitch(r)
        BY <1>6, <3>2
           DEF OtaReqSwitch, Downloading, ClearState, StateInRange, GwRecord
      <3> QED
        BY <1>9, <3>1, <3>2
    <2>3. r.img.dev = "iote" => gw'.mask_map = {}
      <3>1. CASE OtaReqBegin(r)
        <4>1. gw'.mask_map = gw.mask_map
          BY <1>6, <3>1 DEF OtaReqBegin, GwRecord
        <4>2. gw.ota_state # "PROGRAM"
          BY <3>1 DEF OtaReqBegin, MayBegin, StateInRange
        <4>3. r.img.dev = "iote" => gw.upgrade_num = 0
          BY <3>1 DEF OtaReqBegin, MayBegin
        <4> QED
          BY <1>0, <4>1, <4>2, <4>3 DEF TaskInv, FreshMask
      <3>2. CASE OtaReqSwitch(r)
        BY <1>6, <3>2
           DEF OtaReqSwitch, Downloading, ClearState, StateInRange, GwRecord
      <3> QED
        BY <1>9, <3>1, <3>2
    <2>4. ReqInv' /\ BeginInv' /\ BlockInv' /\ JumpInv'
      BY <1>1, <1>4, <2>1, <2>2, <2>3
         DEF ReqInv, Holds, Held, BeginInv, BlockInv, JumpInv
    <2>5. FreshMask' /\ DownloadInv' /\ MaskBacked' /\ NeverBroken'
      BY <1>0, <1>1, <1>4, <2>2
         DEF TaskInv, FreshMask, DownloadInv, MaskBacked, NeverBroken
    <2>6. ReportedImageIntact'
      BY <1>0, <1>3, <1>4, <2>2 DEF TaskInv, ReportedImageIntact, Intact
    <2> QED
      BY <1>5, <2>4, <2>5, <2>6 DEF TaskInv
  <1>10. CASE OtaReqBlock(r)
    <2>1. /\ gw.ota_state = "DOWNLOAD" /\ gw.upgrade_num = r.img.num
          /\ Fits(r.img)
          /\ r.img.dev = "iote" => StrMatches(version, r.img.old)
      BY <1>10 DEF OtaReqBlock, Downloading, ForThisDevice
    <2>2. Kept
      BY <1>6, <1>10, <2>1 DEF OtaReqBlock, StateInRange, Kept
    <2>3. \/ pc' \in {"write", "verify"} /\ req' = r
          \/ pc' = "idle" /\ req' = Nothing
      BY <1>10 DEF OtaReqBlock, GoesToBlock
    <2>4. ReqInv' /\ BeginInv' /\ BlockInv'
      BY <1>1, <1>4, <2>1, <2>2, <2>3
         DEF Kept, ReqInv, Holds, Held, BeginInv, BlockInv
    <2>5. JumpInv' /\ FreshMask' /\ DownloadInv' /\ NeverBroken'
      BY <1>0, <1>4, <2>1, <2>2, <2>3
         DEF Kept, TaskInv, JumpInv, FreshMask, DownloadInv, NeverBroken
    <2>6. MaskBacked'
      BY <1>0, <1>4, <2>2 DEF Kept, TaskInv, MaskBacked
    <2>7. ReportedImageIntact'
      BY <1>0, <1>3, <1>4, <2>2
         DEF Kept, TaskInv, ReportedImageIntact, Intact
    <2> QED
      BY <1>5, <2>4, <2>5, <2>6, <2>7 DEF TaskInv
  <1> QED
    BY <1>7, <1>8, <1>9, <1>10 DEF OtaReq

(* The request handler after a sleep. *)
LEMMA HandlerStep ==
    ASSUME IInv, Uncrossed,
           EraseFlash \/ StartDownload \/ WriteBlock \/ VerifyAccepts
               \/ VerifyRejects \/ JumpProgram \/ NullReport
    PROVE  TaskInv'
  <1>0. TypeOK /\ TaskInv
    BY DEF IInv
  <1>1. gw \in GwRecord /\ flash \in [FlashBlocks -> Contents]
    BY <1>0 DEF TypeOK
  <1>2. Holds(req)
    BY <1>0 DEF TaskInv, ReqInv, EraseFlash, StartDownload, WriteBlock,
                VerifyAccepts, VerifyRejects, JumpProgram, NullReport
  <1>3. /\ req \in Requests /\ req.img \in Images /\ req.blk \in Nat
        /\ req.img.num \in Nat \ {0}
        /\ req.img.dev \in {"iote", "mcu"}
        /\ req.img.blocks \in Nat \ {0}
        /\ WriteAddr(req.img) \in Nat \ {0}
    BY <1>2, RequestFields, ImageFields DEF Holds, Held
  <1>4. \A i \in Images : i.num = req.img.num => i = req.img
    BY <1>3, ImagesAssumption
  <1>5. link # "off"
    BY <1>0 DEF TaskInv, LinkInv, EraseFlash, StartDownload, WriteBlock,
                VerifyAccepts, VerifyRejects, JumpProgram, NullReport
  <1>6. CASE EraseFlash
    <2>1. /\ pc = "erase" /\ pc' = "init"
          /\ UNCHANGED <<gw, link, req, version>>
      BY <1>6 DEF EraseFlash
    <2>2. ReqInv' /\ BeginInv' /\ BlockInv' /\ JumpInv' /\ FreshMask'
      BY <1>0, <1>2, <2>1
         DEF TaskInv, ReqInv, Holds, Held, BeginInv, BlockInv, JumpInv, FreshMask
    <2>3. DownloadInv' /\ MaskBacked' /\ NeverBroken' /\ ReportedImageIntact'
      BY <1>0, <2>1
         DEF TaskInv, BeginInv, DownloadInv, MaskBacked, NeverBroken,
             ReportedImageIntact
    <2> QED
      BY <1>5, <2>1, <2>2, <2>3 DEF TaskInv, LinkInv
  <1>7. CASE StartDownload
    <2>1. pc = "init" /\ UNCHANGED <<link, flash, version>>
      BY <1>7 DEF StartDownload
    <2>2. /\ gw'.ota_state = "DOWNLOAD"
          /\ gw'.upgrade_num = req.img.num
          /\ gw'.mask_map = gw.mask_map
          /\ gw'.ota_dl_state = 1
          /\ gw'.bin_addr = WriteAddr(req.img)
      BY <1>0, <1>1, <1>7
         DEF StartDownload, Begun, GwRecord, TaskInv, BeginInv
    <2>3. \/ pc' \in {"write", "verify"} /\ req' = req
          \/ pc' = "idle" /\ req' = Nothing
      BY <1>7 DEF StartDownload, GoesToBlock
    <2>4. ReqInv' /\ BeginInv' /\ BlockInv'
      BY <1>2, <2>1, <2>2, <2>3 DEF ReqInv, Holds, Held, BeginInv, BlockInv
    <2>5. JumpInv' /\ FreshMask' /\ NeverBroken' /\ ReportedImageIntact'
      BY <1>0, <1>3, <2>1, <2>2, <2>3
         DEF TaskInv, JumpInv, FreshMask, NeverBroken, ReportedImageIntact
    <2>6. DownloadInv'
      BY <1>3, <1>4, <2>2 DEF DownloadInv
    <2>7. MaskBacked'
      <3>1. req.img.dev = "iote" => gw'.mask_map = {}
        BY <1>0, <2>1, <2>2 DEF TaskInv, BeginInv
      <3> QED
        BY <1>4, <2>2, <3>1 DEF MaskBacked
    <2> QED
      BY <1>5, <2>1, <2>4, <2>5, <2>6, <2>7 DEF TaskInv, LinkInv
  <1>8. CASE WriteBlock
    <2>1. pc = "write" /\ UNCHANGED <<link, version>>
      BY <1>8 DEF WriteBlock
    <2>2. gw.ota_state = "DOWNLOAD" /\ gw.upgrade_num = req.img.num
      BY <1>0, <2>1 DEF TaskInv, BlockInv
    <2>3. /\ gw'.ota_state = gw.ota_state
          /\ gw'.upgrade_num = gw.upgrade_num
          /\ gw'.mask_map = gw.mask_map \cup {req.blk}
          /\ gw'.ota_dl_state = gw.ota_dl_state
          /\ gw'.bin_addr = gw.bin_addr
      BY <1>1, <1>8 DEF WriteBlock, GwRecord
    <2>4. \/ pc' = "verify" /\ req' = req
          \/ pc' = "idle" /\ req' = Nothing
      BY <1>8 DEF WriteBlock
    <2>5. ReqInv' /\ BeginInv' /\ BlockInv'
      BY <1>2, <2>1, <2>2, <2>3, <2>4 DEF ReqInv, Holds, Held, BeginInv, BlockInv
    <2>6. JumpInv' /\ FreshMask' /\ NeverBroken'
      BY <1>0, <1>3, <2>1, <2>2, <2>3, <2>4
         DEF TaskInv, JumpInv, FreshMask, NeverBroken
    <2>7. DownloadInv' /\ ReportedImageIntact'
      BY <1>0, <2>2, <2>3 DEF TaskInv, DownloadInv, ReportedImageIntact
    <2>8. MaskBacked'
      <3> SUFFICES ASSUME NEW i \in Images, i.dev = "iote",
                          gw'.upgrade_num = i.num,
                          NEW b \in gw'.mask_map, b < i.blocks
                   PROVE  flash'[WriteAddr(i) + b] \in {BlockOf(i, b), Garbage}
        BY DEF MaskBacked
      <3> DEFINE addr == WriteAddr(req.img) + req.blk
      <3>1. i = req.img
        BY <1>4, <2>2, <2>3
      <3>2. addr \in FlashBlocks
        BY <1>2, <1>3, BlockInFlash DEF Holds, Held
      <3>3. flash' = [flash EXCEPT ![addr] =
                                     Programmed(flash[addr], Received(req))]
        BY <1>8 DEF WriteBlock
      <3>4. CASE b = req.blk
        BY <1>1, <1>3, <3>1, <3>2, <3>3, <3>4, ProgrammedContent
      <3>5. CASE b # req.blk
        <4>1. b \in gw.mask_map /\ b \in Nat
          BY <1>1, <2>3, <3>5 DEF GwRecord
        <4>2. flash[WriteAddr(i) + b] \in {BlockOf(i, b), Garbage}
          BY <1>0, <2>2, <3>1, <4>1 DEF TaskInv, MaskBacked
        <4>3. WriteAddr(i) + b # addr
          BY <1>3, <3>1, <3>5, <4>1
        <4>4. flash'[WriteAddr(i) + b] = flash[WriteAddr(i) + b]
          <5>1. WriteAddr(i) + b \in FlashBlocks
            BY <1>2, <1>3, <3>1, <4>1, BlockInFlash DEF Holds, Held
          <5> QED
            BY <1>1, <3>3, <4>3, <5>1
        <4> QED
          BY <4>2, <4>4
      <3> QED
        BY <3>4, <3>5
    <2> QED
      BY <1>5, <2>1, <2>5, <2>6, <2>7, <2>8 DEF TaskInv, LinkInv
  <1>9. CASE VerifyAccepts
    <2>1. /\ pc = "verify" /\ Intact(req.img)
          /\ UNCHANGED <<flash, version>>
      BY <1>9 DEF VerifyAccepts, Md5Matches
    <2>2. /\ gw.ota_state = "DOWNLOAD" /\ gw.upgrade_num = req.img.num
          /\ gw.bin_addr # 0 => gw.bin_addr = WriteAddr(req.img)
      BY <1>0, <1>3, <2>1 DEF TaskInv, BlockInv, DownloadInv
    <2>3. /\ Complete(req) \in GwRecord
          /\ Complete(req).upgrade_num = 0
          /\ Complete(req).bin_addr = gw.bin_addr
          /\ Complete(req).ota_recved_len = req.img.blocks
      BY <1>1, <1>3, FieldValues DEF Complete, GwRecord
    <2>4. /\ gw'.upgrade_num = 0
          /\ gw'.bin_addr = gw.bin_addr
          /\ gw'.ota_recved_len = req.img.blocks
      BY <1>9, <2>3 DEF VerifyAccepts, GwRecord
    <2>5. ReportedImageIntact'
      <3>1. \A b \in 0 .. (req.img.blocks - 1) :
               flash'[WriteAddr(req.img) + b] = BlockOf(req.img, b)
        BY <2>1 DEF Intact
      <3> QED
        BY <1>3, <2>2, <2>4, <3>1 DEF ReportedImageIntact, Intact
    <2>6. NeverBroken'
      BY <1>0, <2>1 DEF TaskInv, NeverBroken
    <2>7. CASE req.img.dev = "iote"
      <3>1. /\ gw'.ota_state = "PROGRAM"
            /\ pc' = "jump" /\ req' = req /\ link' = "disconnect"
        BY <1>9, <2>3, <2>7 DEF VerifyAccepts, GwRecord
      <3>2. ReqInv' /\ JumpInv'
        BY <1>2, <2>1, <2>7, <3>1 DEF ReqInv, Holds, Held, JumpInv, Intact
      <3> QED
        BY <2>5, <2>6, <3>1, <3>2
           DEF TaskInv, LinkInv, BeginInv, BlockInv, FreshMask, DownloadInv,
               MaskBacked
    <2>8. CASE req.img.dev = "mcu"
      <3>1. /\ gw'.ota_state = "DEFAULT" /\ gw'.mask_map = {}
            /\ pc' = "idle" /\ req' = Nothing /\ link' = link
        BY <1>9, <2>3, <2>8 DEF VerifyAccepts, GwRecord
      <3> QED
        BY <2>5, <2>6, <3>1
           DEF TaskInv, LinkInv, ReqInv, BeginInv, BlockInv, JumpInv, FreshMask,
               DownloadInv, MaskBacked
    <2> QED
      BY <1>3, <2>7, <2>8
  <1>10. CASE VerifyRejects
    <2>1. /\ pc = "verify" /\ pc' = "idle" /\ req' = Nothing
          /\ UNCHANGED <<link, flash, version>>
      BY <1>10 DEF VerifyRejects
    <2>2. gw.ota_state = "DOWNLOAD"
      BY <1>0, <2>1 DEF TaskInv, BlockInv
    <2>3. /\ gw'.ota_state = "DEFAULT" /\ gw'.mask_map = {}
          /\ gw'.ota_dl_state = gw.ota_dl_state
      BY <1>1, <1>10, <2>2 DEF VerifyRejects, ClearState, GwRecord
    <2> QED
      BY <1>0, <2>1, <2>2, <2>3
         DEF TaskInv, LinkInv, ReqInv, BeginInv, BlockInv, JumpInv, FreshMask,
             DownloadInv, MaskBacked, NeverBroken, ReportedImageIntact
  <1>11. CASE JumpProgram
    <2>1. req.img.dev = "iote" /\ Intact(req.img)
      BY <1>0, <1>11 DEF JumpProgram, TaskInv, JumpInv
    <2>2. version' = req.img.new
      BY <1>2, <1>11, <2>1 DEF JumpProgram, Installed, Holds, Held
    <2>3. NeverBroken'
      BY <1>3, <2>2, ImageFields, ValueAssumption DEF NeverBroken
    <2> QED
      BY <1>11, <2>3, ResetStep DEF JumpProgram, RamCleared
  <1>12. CASE NullReport
    <2>1. NeverBroken'
      BY <1>0, <1>12 DEF NullReport, TaskInv, NeverBroken
    <2> QED
      BY <1>12, <2>1, ResetStep DEF NullReport, RamCleared
  <1> QED
    BY <1>6, <1>7, <1>8, <1>9, <1>10, <1>11, <1>12

(* The steps of the AT thread and of the user, and a power failure. *)
LEMMA OutsideStep ==
    ASSUME IInv, Uncrossed, Uncrossed',
           OtaStop \/ ClearOtaState \/ Start \/ NetworkLost \/ EndBegins
               \/ EndCompletes \/ EndReleases \/ TaskLeaves \/ PowerFailure
    PROVE  TaskInv'
  <1>0. TypeOK /\ TaskInv
    BY DEF IInv
  <1>1. gw \in GwRecord
    BY <1>0 DEF TypeOK
  <1>2. CASE OtaStop
    <2>1. /\ pc = "idle" /\ UNCHANGED <<link, pc, req, flash, version>>
      BY <1>2 DEF OtaStop, TaskTakes
    <2>2. /\ gw'.ota_state = "STOP"
          /\ gw'.upgrade_num = gw.upgrade_num
          /\ gw'.mask_map = gw.mask_map
          /\ gw'.ota_dl_state = gw.ota_dl_state
          /\ gw'.bin_addr = gw.bin_addr
          /\ gw'.ota_recved_len = gw.ota_recved_len
      BY <1>1, <1>2 DEF OtaStop, GwRecord
    <2>3. gw.ota_state # "PROGRAM"
      BY <1>0, <2>1 DEF TaskInv, JumpInv
    <2> QED
      BY <1>0, <2>1, <2>2, <2>3
         DEF TaskInv, LinkInv, ReqInv, BeginInv, BlockInv, JumpInv, FreshMask,
             DownloadInv, MaskBacked, NeverBroken, ReportedImageIntact, Intact
  <1>3. CASE ClearOtaState
    <2>1. UNCHANGED <<link, pc, req, flash, version>>
      BY <1>3 DEF ClearOtaState
    <2>2. /\ gw'.ota_state = gw.ota_state
          /\ gw'.upgrade_num = gw.upgrade_num
          /\ gw'.mask_map = gw.mask_map
          /\ gw'.ota_dl_state = 0
          /\ gw'.bin_addr = 0
      BY <1>1, <1>3 DEF ClearOtaState, GwRecord
    <2>3. LinkInv' /\ ReqInv' /\ BeginInv' /\ BlockInv' /\ NeverBroken'
      BY <1>0, <2>1, <2>2
         DEF TaskInv, LinkInv, ReqInv, Holds, Held, BeginInv, BlockInv, NeverBroken
    <2>4. JumpInv'
      BY <1>0, <2>1, <2>2 DEF TaskInv, JumpInv, Intact
    <2>5. FreshMask' /\ DownloadInv' /\ MaskBacked' /\ ReportedImageIntact'
      BY <1>0, <2>1, <2>2
         DEF TaskInv, FreshMask, DownloadInv, MaskBacked, ReportedImageIntact
    <2> QED
      BY <2>3, <2>4, <2>5 DEF TaskInv
  <1>4. CASE Start
    <2>1. link = "off"
      BY <1>4 DEF Start, Uncrossed
    <2>2. pc' = "idle" /\ req' = Nothing /\ NeverBroken'
      BY <1>0, <1>4, <2>1 DEF Start, TaskInv, LinkInv, ReqInv, NeverBroken
    <2> QED
      BY <1>4, <2>2, ResetStep DEF Start
  <1>5. CASE NetworkLost \/ EndBegins \/ EndCompletes \/ EndReleases
                \/ TaskLeaves
    <2>1. Kept /\ UNCHANGED <<pc, req, flash, version>>
      BY <1>5 DEF NetworkLost, EndBegins, EndCompletes, EndReleases, TaskLeaves,
                  Kept
    <2>2. LinkInv'
      BY <1>5 DEF NetworkLost, EndBegins, EndCompletes, EndReleases, TaskLeaves,
                  LinkInv
    <2> QED
      BY <1>0, <2>1, <2>2, FrameStep
  <1>6. CASE PowerFailure
    BY <1>0, <1>6, ResetStep
       DEF PowerFailure, RamCleared, TaskInv, NeverBroken
  <1> QED
    BY <1>2, <1>3, <1>4, <1>5, <1>6

(* The missing-data requests, the timer, and the end of a campaign. *)
LEMMA MissStep ==
    ASSUME IInv, Uncrossed,
           \/ \E i \in Images : OtaEnd(i)
           \/ TimerFires \/ MissRequest \/ MissRequestSent \/ MissRequestFailed
           \/ UNCHANGED vars
    PROVE  TaskInv'
  <1>0. TypeOK /\ TaskInv /\ gw \in GwRecord
    BY DEF IInv, TypeOK
  <1>1. Kept
    <2>1. CASE \E i \in Images : OtaEnd(i)
      BY <1>0, <2>1 DEF OtaEnd, Kept, GwRecord
    <2>2. CASE MissRequest
      BY <1>0, <2>2 DEF MissRequest, Kept, GwRecord
    <2> QED
      BY <2>1, <2>2
         DEF TimerFires, MissRequestSent, MissRequestFailed, vars, Kept
  <1>2. /\ UNCHANGED <<link, req, flash, version>>
        /\ pc' = pc \/ (pc \in {"idle", "send"} /\ pc' \in {"idle", "send"})
        /\ pc' # pc => link \in {"on", "ending"} \/ pc' = "idle"
    BY DEF OtaEnd, TimerFires, MissRequest, MissRequestSent, MissRequestFailed,
           TaskTakes, vars
  <1>3. LinkInv'
    BY <1>0, <1>2 DEF TaskInv, LinkInv
  <1> QED
    BY <1>0, <1>1, <1>2, <1>3, FrameStep

(* Whatever becomes of the record, a handler keeps the request it holds. *)
LEMMA HeldStep == IInv /\ [Next]_vars => HeldInv'
  <1> SUFFICES ASSUME HeldInv, [Next]_vars PROVE HeldInv'
    BY DEF IInv
  <1>1. ASSUME NEW r \in Sent, OtaReq(r) PROVE HeldInv'
    BY <1>1, SentIsRequest
       DEF OtaReq, OtaReqTooLarge, OtaReqIgnored, OtaReqBegin, OtaReqSwitch,
           OtaReqBlock, GoesToBlock, HeldInv, Held
  <1>2. CASE EraseFlash \/ StartDownload \/ WriteBlock
    BY <1>2 DEF EraseFlash, StartDownload, WriteBlock, GoesToBlock, HeldInv,
                Held
  <1>3. CASE VerifyAccepts \/ VerifyRejects
    BY <1>3 DEF VerifyAccepts, VerifyRejects, HeldInv, Held
  <1>4. CASE JumpProgram \/ NullReport \/ PowerFailure
    BY <1>4 DEF JumpProgram, NullReport, PowerFailure, RamCleared, HeldInv
  <1>5. CASE MissRequest \/ MissRequestSent \/ MissRequestFailed
    BY <1>5 DEF MissRequest, MissRequestSent, MissRequestFailed, TaskTakes,
                HeldInv
  <1>6. CASE \/ OtaStop \/ \E i \in Images : OtaEnd(i)
             \/ TimerFires \/ ClearOtaState \/ Start \/ NetworkLost
             \/ EndBegins \/ EndCompletes \/ EndReleases \/ TaskLeaves
             \/ UNCHANGED vars
    <2>1. UNCHANGED <<pc, req>>
      BY <1>6 DEF OtaStop, OtaEnd, TimerFires, ClearOtaState, Start,
                  NetworkLost, EndBegins, EndCompletes, EndReleases, TaskLeaves,
                  vars
    <2> QED
      BY <2>1 DEF HeldInv, Held
  <1> QED
    BY <1>1, <1>2, <1>3, <1>4, <1>5, <1>6 DEF Next, TaskStep

(* What has been overtaken once remains so. *)
LEMMA CrossedStays ==
    ASSUME [Next]_vars, Uncrossed'
    PROVE  Uncrossed
  BY DEF Next, TaskStep, OtaReq, OtaReqTooLarge, OtaReqIgnored, OtaReqBegin,
         OtaReqSwitch, OtaReqBlock, OtaStop, OtaEnd, EraseFlash, StartDownload,
         WriteBlock, VerifyAccepts, VerifyRejects, JumpProgram, NullReport,
         MissRequest, MissRequestSent, MissRequestFailed, TaskLeaves,
         TimerFires, ClearOtaState, Start, NetworkLost, EndBegins,
         EndCompletes, EndReleases, PowerFailure, Uncrossed, vars

-----------------------------------------------------------------------------
(* The invariant is inductive, and holds of every behaviour of the system. *)
THEOREM Invariance == Spec => []IInv
  <1>1. IInv /\ [Next]_vars => IInv'
    <2>1. ASSUME IInv, [Next]_vars, Uncrossed' PROVE TaskInv'
      BY <2>1, CrossedStays, RequestStep, HandlerStep, OutsideStep, MissStep
         DEF Next, TaskStep
    <2> QED
      BY <2>1, TypeStep, HeldStep DEF IInv
  <1> QED
    BY InitInv, <1>1, PTL DEF Spec

(* Every variable keeps its type, for every layout and limit. *)
THEOREM TypeCorrect == Spec => []TypeOK
  <1>1. IInv => TypeOK
    BY DEF IInv
  <1> QED
    BY Invariance, <1>1, PTL

(* A mask bit of a campaign for this device is backed by flash: no stop,   *)
(* AT command, restart or power failure, in any order, leaves a stale one, *)
(* nor does an end() that releases under a busy handler, before the start  *)
(* that overtakes the handler.                                             *)
THEOREM MaskIsBacked == Spec => []MaskBacked
  <1>1. IInv => MaskBacked
    BY DEF IInv, TaskInv, MaskBacked
  <1> QED
    BY Invariance, <1>1, PTL

(* The boot loader is never told to install an incomplete image, nor one   *)
(* that was built against another version.                                 *)
THEOREM ProgramNeverBroken == Spec => []NeverBroken
  <1>1. IInv => NeverBroken
    BY DEF IInv, TaskInv, NeverBroken
  <1> QED
    BY Invariance, <1>1, PTL

(* What AT+GATEWAYOTASTATE reports as downloaded is complete in flash. *)
THEOREM ReportIsIntact == Spec => []ReportedImageIntact
  <1>1. IInv => ReportedImageIntact
    BY DEF IInv, TaskInv, ReportedImageIntact
  <1> QED
    BY Invariance, <1>1, PTL

-----------------------------------------------------------------------------
(* GatewayOta implements OtaUpgrade.  The inductive invariant says what is *)
(* in flash at the jump; added to it is that the mask is complete by then. *)

(* block_count is that of the campaign in DOWNLOAD, and an image is not    *)
(* verified, nor handed over, before every block is marked.                *)
CompleteInv ==
    /\ gw.ota_state = "DOWNLOAD" =>
          \A i \in Images : gw.upgrade_num = i.num => gw.block_count = i.blocks
    /\ pc \in {"verify", "jump"} =>
          (req.img.dev = "iote" => (0 .. (req.img.blocks - 1)) \subseteq gw.mask_map)

-----------------------------------------------------------------------------
(* A step that leaves number, mask and blocks of the campaign alone.       *)
LEMMA CompleteKept ==
    ASSUME CompleteInv,
           gw'.ota_state = "DOWNLOAD" => gw.ota_state = "DOWNLOAD",
           UNCHANGED <<gw.upgrade_num, gw.mask_map, gw.block_count>>,
           pc' \in {"verify", "jump"} => pc' = pc /\ req' = req
    PROVE  CompleteInv'
  BY DEF CompleteInv

(* The request handler up to its first sleep, and a stop. *)
LEMMA CompleteRequest ==
    ASSUME IInv, Uncrossed, CompleteInv, NEW r \in Sent, OtaReq(r)
    PROVE  CompleteInv'
  <1>0. gw \in GwRecord /\ TaskInv /\ pc = "idle"
    BY DEF IInv, TypeOK, OtaReq, OtaReqTooLarge, OtaReqIgnored, OtaReqBegin,
           OtaReqSwitch, OtaReqBlock, Arrives, ArrivesFirst, TaskTakes
  <1>1. /\ Checked(r).ota_state = StateInRange(r)
        /\ Checked(r).upgrade_num = gw.upgrade_num
        /\ Checked(r).mask_map = gw.mask_map
        /\ Checked(r).block_count = gw.block_count
        /\ DeviceNoted(r).ota_state = gw.ota_state
        /\ DeviceNoted(r).upgrade_num = gw.upgrade_num
        /\ DeviceNoted(r).mask_map = gw.mask_map
        /\ DeviceNoted(r).block_count = gw.block_count
    BY <1>0 DEF Checked, DeviceNoted, StateInRange, GwRecord
  <1>2. CASE OtaReqTooLarge(r)
    BY <1>0, <1>1, <1>2, CompleteKept DEF OtaReqTooLarge
  <1>3. CASE OtaReqIgnored(r)
    BY <1>0, <1>1, <1>3, CompleteKept DEF OtaReqIgnored, StateInRange
  <1>4. CASE OtaReqBegin(r) \/ OtaReqSwitch(r)
    <2>1. pc' = "erase"
      BY <1>4 DEF OtaReqBegin, OtaReqSwitch
    <2>2. gw'.ota_state = "DEFAULT"
      <3>1. CASE OtaReqBegin(r)
        BY <1>0, <1>1, <3>1 DEF OtaReqBegin, MayBegin, Checked, DeviceNoted, GwRecord
      <3>2. CASE OtaReqSwitch(r)
        BY <1>0, <1>1, <3>2
           DEF OtaReqSwitch, ClearState, Checked, DeviceNoted, GwRecord
      <3> QED
        BY <1>4, <3>1, <3>2
    <2> QED
      BY <2>1, <2>2 DEF CompleteInv
  <1>5. CASE OtaReqBlock(r)
    <2>1. /\ gw' = Checked(r) /\ gw.ota_state = "DOWNLOAD"
          /\ gw.upgrade_num = r.img.num /\ r.img \in Images
      BY <1>5, SentIsRequest DEF OtaReqBlock, Downloading
    <2>2. /\ UNCHANGED <<gw.upgrade_num, gw.mask_map, gw.block_count>>
          /\ gw'.ota_state = "DOWNLOAD"
      BY <1>1, <2>1 DEF StateInRange
    <2>3. gw.block_count = r.img.blocks
      BY <2>1 DEF CompleteInv
    <2>4. pc' = "verify" =>
             req' = r /\ (0 .. (r.img.blocks - 1)) \subseteq gw'.mask_map
      BY <1>5, <2>2, <2>3 DEF OtaReqBlock, GoesToBlock, AllReceived
    <2>5. pc' # "jump"
      BY <1>5 DEF OtaReqBlock, GoesToBlock
    <2> QED
      BY <2>1, <2>2, <2>4, <2>5 DEF CompleteInv
  <1> QED
    BY <1>2, <1>3, <1>4, <1>5 DEF OtaReq

(* The request handler after a sleep. *)
LEMMA CompleteHandler ==
    ASSUME IInv, Uncrossed, CompleteInv,
           EraseFlash \/ StartDownload \/ WriteBlock \/ VerifyAccepts
               \/ VerifyRejects \/ JumpProgram \/ NullReport
    PROVE  CompleteInv'
  <1>0. gw \in GwRecord /\ TaskInv /\ Holds(req)
    BY DEF IInv, TypeOK, TaskInv, ReqInv, EraseFlash, StartDownload, WriteBlock,
           VerifyAccepts, VerifyRejects, JumpProgram, NullReport
  <1>1. req.img \in Images
    BY <1>0, RequestFields DEF Holds, Held
  <1>2. \A i \in Images : i.num = req.img.num => i = req.img
    BY <1>1, ImagesAssumption
  <1>3. CASE EraseFlash
    BY <1>0, <1>3, CompleteKept DEF EraseFlash
  <1>4. CASE StartDownload
    <2>1. /\ gw'.upgrade_num = req.img.num
          /\ gw'.block_count = req.img.blocks
      BY <1>0, <1>4 DEF StartDownload, Begun, GwRecord, TaskInv, BeginInv
    <2>2. pc' \in {"verify", "jump"} =>
             req' = req /\ (0 .. (req.img.blocks - 1)) \subseteq gw'.mask_map
      BY <1>4, <2>1 DEF StartDownload, GoesToBlock, AllReceived
    <2> QED
      BY <1>2, <2>1, <2>2 DEF CompleteInv
  <1>5. CASE WriteBlock
    <2>1. gw.ota_state = "DOWNLOAD" /\ gw.upgrade_num = req.img.num
      BY <1>0, <1>5 DEF WriteBlock, TaskInv, BlockInv
    <2>2. /\ gw'.ota_state = "DOWNLOAD"
          /\ gw'.upgrade_num = gw.upgrade_num
          /\ gw'.block_count = gw.block_count
      BY <1>0, <1>5, <2>1 DEF WriteBlock, GwRecord
    <2>3. gw.block_count = req.img.blocks
      BY <1>1, <2>1 DEF CompleteInv
    <2>4. pc' \in {"verify", "jump"} =>
             req' = req /\ (0 .. (req.img.blocks - 1)) \subseteq gw'.mask_map
      BY <1>5, <2>2, <2>3 DEF WriteBlock, AllReceived
    <2> QED
      BY <2>1, <2>2, <2>4 DEF CompleteInv
  <1>6. CASE VerifyAccepts
    <2>1. CASE req.img.dev = "iote"
      <3>1. /\ gw'.ota_state = "PROGRAM" /\ gw'.mask_map = gw.mask_map
            /\ pc = "verify" /\ req' = req
        BY <1>0, <1>6, <2>1 DEF VerifyAccepts, Complete, GwRecord
      <3> QED
        BY <2>1, <3>1 DEF CompleteInv
    <2>2. CASE req.img.dev # "iote"
      <3>1. gw'.ota_state = "DEFAULT" /\ pc' = "idle"
        BY <1>0, <1>6, <2>2 DEF VerifyAccepts, Complete, GwRecord
      <3> QED
        BY <3>1 DEF CompleteInv
    <2> QED
      BY <2>1, <2>2
  <1>7. CASE VerifyRejects
    <2>1. gw'.ota_state = "DEFAULT" /\ pc' = "idle"
      BY <1>0, <1>7 DEF VerifyRejects, ClearState, GwRecord
    <2> QED
      BY <2>1 DEF CompleteInv
  <1>8. CASE JumpProgram \/ NullReport
    BY <1>8 DEF JumpProgram, NullReport, RamCleared, Zeroed, CompleteInv
  <1> QED
    BY <1>3, <1>4, <1>5, <1>6, <1>7, <1>8

(* Everybody else. *)
LEMMA CompleteOutside ==
    ASSUME IInv, Uncrossed, Uncrossed', CompleteInv,
           \/ OtaStop \/ ClearOtaState \/ Start \/ NetworkLost \/ EndBegins
           \/ EndCompletes \/ EndReleases \/ TaskLeaves \/ PowerFailure
           \/ \E i \in Images : OtaEnd(i)
           \/ TimerFires \/ MissRequest \/ MissRequestSent \/ MissRequestFailed
           \/ UNCHANGED vars
    PROVE  CompleteInv'
  <1>0. gw \in GwRecord /\ TaskInv
    BY DEF IInv, TypeOK
  <1>1. CASE OtaStop
    BY <1>0, <1>1, CompleteKept DEF OtaStop, TaskTakes, GwRecord
  <1>2. CASE ClearOtaState
    BY <1>0, <1>2, CompleteKept DEF ClearOtaState, GwRecord
  <1>3. CASE Start
    BY <1>0, <1>3 DEF Start, Uncrossed, Zeroed, CompleteInv, TaskInv, LinkInv
  <1>4. CASE PowerFailure
    BY <1>4 DEF PowerFailure, RamCleared, Zeroed, CompleteInv
  <1>5. CASE \E i \in Images : OtaEnd(i)
    BY <1>0, <1>5, CompleteKept DEF OtaEnd, TaskTakes, GwRecord
  <1>6. CASE MissRequest
    BY <1>0, <1>6, CompleteKept DEF MissRequest, TaskTakes, GwRecord
  <1>7. CASE \/ NetworkLost \/ EndBegins \/ EndCompletes \/ EndReleases
             \/ TaskLeaves \/ TimerFires \/ MissRequestSent
             \/ MissRequestFailed \/ UNCHANGED vars
    BY <1>7, CompleteKept
       DEF NetworkLost, EndBegins, EndCompletes, EndReleases, TaskLeaves,
           TimerFires, MissRequestSent, MissRequestFailed, vars
  <1> QED
    BY <1>1, <1>2, <1>3, <1>4, <1>5, <1>6, <1>7

(* The strengthened invariant. *)
JInv == IInv /\ (Uncrossed => CompleteInv)

LEMMA CompleteAlways == Spec => []JInv
  <1>1. Init => (Uncrossed => CompleteInv)
    BY DEF Init, Zeroed, CompleteInv
  <1>2. JInv /\ [Next]_vars => (Uncrossed => CompleteInv)'
    BY CrossedStays, CompleteRequest, CompleteHandler, CompleteOutside
       DEF JInv, Next, TaskStep
  <1> QED
    BY Invariance, <1>1, <1>2, PTL DEF Spec, JInv

-----------------------------------------------------------------------------
(* The refinement.  First what a step of GatewayOta has to leave alone, or *)
(* to reset, to be a stutter or a Drop of OtaUpgrade.                      *)

Own(num) == \E i \in Images : i.dev = "iote" /\ i.num = num

ReceivedOwn == IF OwnCampaign = 0 THEN {} ELSE gw.mask_map

LEMMA NoCampaignIsNobodys == ~Own(0)
  BY ImageFields DEF Own

LEMMA Stutters ==
    ASSUME UNCHANGED <<version, gw.upgrade_num, gw.mask_map>>,
           pc' = pc \/ "jump" \notin {pc, pc'},
           pc = "jump" => UNCHANGED req, UNCHANGED crossed
    PROVE  UNCHANGED <<version, OwnCampaign, ReceivedOwn, crossed>>
  BY DEF OwnCampaign, ReceivedOwn

LEMMA Drops ==
    ASSUME UNCHANGED <<version, crossed>>, pc' # "jump",
           ~Own(gw'.upgrade_num)
    PROVE  Upgrade!Next
  BY DEF OwnCampaign, Own, Upgrade!Drop, Upgrade!Advance, Upgrade!Next

LEMMA Accepts ==
    ASSUME NEW i \in Images, i.dev = "iote", StrMatches(version, i.old),
           UNCHANGED <<version, crossed>>, pc' # "jump",
           gw'.upgrade_num = i.num, gw'.mask_map = {}
    PROVE  Upgrade!Next
  <1>1. i \in Upgrade!Own
    BY DEF Upgrade!Own
  <1>2. OwnCampaign' = i.num
    BY DEF OwnCampaign
  <1>3. Upgrade!Accept(i)
    BY <1>2 DEF Upgrade!Accept, Upgrade!IsPrefix, StrMatches, IsPrefix
  <1> QED
    BY <1>1, <1>3 DEF Upgrade!Next, Upgrade!Advance

Refines ==
    Upgrade!Next \/ UNCHANGED <<version, OwnCampaign, ReceivedOwn, crossed>>

LEMMA RequestRefines ==
    ASSUME IInv, Uncrossed, NEW r \in Sent, OtaReq(r)
    PROVE  Refines
  <1>0. /\ gw \in GwRecord /\ TaskInv /\ pc = "idle" /\ pc' # "jump"
        /\ UNCHANGED <<version, crossed>>
    BY DEF IInv, TypeOK, OtaReq, OtaReqTooLarge, OtaReqIgnored, OtaReqBegin,
           OtaReqSwitch, OtaReqBlock, Arrives, ArrivesFirst, TaskTakes, GoesToBlock
  <1>1. /\ Checked(r).upgrade_num = gw.upgrade_num
        /\ Checked(r).mask_map = gw.mask_map
        /\ DeviceNoted(r).upgrade_num = gw.upgrade_num
        /\ DeviceNoted(r).mask_map = gw.mask_map
        /\ Checked(r).ota_state = StateInRange(r)
        /\ Checked(r) \in GwRecord
    BY <1>0, FieldValues DEF Checked, DeviceNoted, StateInRange, GwRecord
  <1>2. r.img \in Images /\ r.img.num \in Nat \ {0} /\ r.img.dev \in {"iote", "mcu"}
    BY SentIsRequest, ImageFields
  <1>3. CASE OtaReqTooLarge(r) \/ OtaReqIgnored(r) \/ OtaReqBlock(r)
    <2>1. UNCHANGED <<gw.upgrade_num, gw.mask_map>>
      BY <1>1, <1>3 DEF OtaReqTooLarge, OtaReqIgnored, OtaReqBlock
    <2> QED
      BY <1>0, <2>1, Stutters DEF Refines
  <1>4. CASE OtaReqBegin(r) \/ OtaReqSwitch(r)
    <2>1. gw'.upgrade_num = r.img.num
      BY <1>0, <1>1, <1>4 DEF OtaReqBegin, OtaReqSwitch, ClearState, GwRecord
    <2>2. CASE r.img.dev = "iote"
      <3>1. StrMatches(version, r.img.old)
        BY <1>4, <2>2 DEF OtaReqBegin, OtaReqSwitch, MayBegin, Downloading,
                          ForThisDevice
      <3>2. gw'.mask_map = {}
        <4>1. CASE OtaReqBegin(r)
          <5>1. gw.ota_state # "PROGRAM" /\ gw.upgrade_num = 0
            BY <2>2, <4>1 DEF OtaReqBegin, MayBegin, StateInRange
          <5> QED
            BY <1>0, <1>1, <4>1, <5>1 DEF OtaReqBegin, TaskInv, FreshMask, GwRecord
        <4>2. CASE OtaReqSwitch(r)
          BY <1>0, <1>1, <4>2
             DEF OtaReqSwitch, Downloading, ClearState, StateInRange, GwRecord
        <4> QED
          BY <1>4, <4>1, <4>2
      <3> QED
        BY <1>0, <1>2, <2>1, <2>2, <3>1, <3>2, Accepts DEF Refines
    <2>3. CASE r.img.dev = "mcu"
      <3>1. ~Own(gw'.upgrade_num)
        BY <1>2, <2>1, <2>3, ImagesAssumption DEF Own
      <3> QED
        BY <1>0, <3>1, Drops DEF Refines
    <2> QED
      BY <1>2, <2>2, <2>3
  <1> QED
    BY <1>3, <1>4 DEF OtaReq

LEMMA HandlerRefines ==
    ASSUME IInv, Uncrossed, CompleteInv,
           EraseFlash \/ StartDownload \/ WriteBlock \/ VerifyAccepts
               \/ VerifyRejects \/ JumpProgram \/ NullReport
    PROVE  Refines
  <1>0. gw \in GwRecord /\ TaskInv /\ Holds(req) /\ UNCHANGED crossed
    BY DEF IInv, TypeOK, TaskInv, ReqInv, EraseFlash, StartDownload, WriteBlock,
           VerifyAccepts, VerifyRejects, JumpProgram, NullReport
  <1>1. /\ req.img \in Images /\ req.img.num \in Nat \ {0} /\ req.blk \in Nat
        /\ req.img.dev \in {"iote", "mcu"} /\ req.img.blocks \in Nat
        /\ req.blk < req.img.blocks
    BY <1>0, RequestFields, ImageFields DEF Holds, Held
  <1>2. /\ Own(req.img.num) <=> req.img.dev = "iote"
        /\ ~Own(0)
    BY <1>1, ImagesAssumption, NoCampaignIsNobodys DEF Own
  <1>3. CASE EraseFlash
    BY <1>0, <1>3, Stutters DEF EraseFlash, Refines
  <1>4. CASE StartDownload
    <2>1. UNCHANGED <<gw.upgrade_num, gw.mask_map>>
      BY <1>0, <1>4 DEF StartDownload, Begun, GwRecord
    <2> QED
      BY <1>0, <1>4, <2>1, Stutters DEF StartDownload, GoesToBlock, Refines
  <1>5. CASE WriteBlock
    <2>1. /\ gw.upgrade_num = req.img.num /\ gw'.upgrade_num = req.img.num
          /\ gw'.mask_map = gw.mask_map \cup {req.blk}
      BY <1>0, <1>5 DEF WriteBlock, TaskInv, BlockInv, GwRecord
    <2>2. UNCHANGED version /\ pc # "jump" /\ pc' # "jump"
      BY <1>5 DEF WriteBlock
    <2>3. CASE req.img.dev = "iote"
      <3>1. req.img \in Upgrade!Own /\ req.blk \in Upgrade!Blocks(req.img)
        BY <1>1, <2>3 DEF Upgrade!Own, Upgrade!Blocks
      <3>2. OwnCampaign = req.img.num /\ OwnCampaign' = req.img.num
        BY <1>1, <2>1, <2>2, <2>3 DEF OwnCampaign
      <3>3. Upgrade!Get(req.img, req.blk)
        BY <1>1, <2>1, <2>2, <3>2 DEF Upgrade!Get
      <3> QED
        BY <1>0, <3>1, <3>3 DEF Refines, Upgrade!Next, Upgrade!Advance
    <2>4. CASE req.img.dev = "mcu"
      BY <1>0, <1>2, <2>1, <2>2, <2>4, Drops DEF Refines
    <2> QED
      BY <1>1, <2>3, <2>4
  <1>6. CASE VerifyAccepts
    <2>1. pc = "verify" /\ gw.upgrade_num = req.img.num /\ UNCHANGED version
      BY <1>0, <1>6 DEF VerifyAccepts, TaskInv, BlockInv
    <2>2. CASE req.img.dev = "iote"
      <3>1. pc' = "jump" /\ req' = req /\ gw'.mask_map = gw.mask_map
        BY <1>0, <1>6, <2>2 DEF VerifyAccepts, Complete, GwRecord
      <3>2. OwnCampaign = req.img.num /\ OwnCampaign' = req.img.num
        BY <1>1, <2>1, <2>2, <3>1 DEF OwnCampaign
      <3> QED
        BY <1>0, <2>1, <3>1, <3>2 DEF Refines, ReceivedOwn
    <2>3. CASE req.img.dev = "mcu"
      <3>1. pc' = "idle" /\ gw'.upgrade_num = 0
        BY <1>0, <1>6, <2>3 DEF VerifyAccepts, Complete, GwRecord
      <3> QED
        BY <1>0, <1>2, <2>1, <3>1, Drops DEF Refines
    <2> QED
      BY <1>1, <2>2, <2>3
  <1>7. CASE VerifyRejects
    <2>1. /\ gw'.upgrade_num = 0 /\ pc' = "idle" /\ UNCHANGED version
      BY <1>0, <1>7 DEF VerifyRejects, ClearState, TaskInv, BlockInv, GwRecord
    <2> QED
      BY <1>0, <1>2, <2>1, Drops DEF Refines
  <1>8. CASE JumpProgram
    <2>1. /\ pc = "jump" /\ req.img.dev = "iote" /\ Intact(req.img)
          /\ (0 .. (req.img.blocks - 1)) \subseteq gw.mask_map
      BY <1>0, <1>8 DEF JumpProgram, TaskInv, JumpInv, CompleteInv
    <2>2. version' = req.img.new
      BY <1>0, <1>8, <2>1 DEF JumpProgram, Installed, Holds, Held
    <2>3. pc' = "idle" /\ gw'.upgrade_num = 0
      BY <1>8 DEF JumpProgram, RamCleared, Zeroed
    <2>4. OwnCampaign = req.img.num /\ OwnCampaign' = 0
      BY <1>1, <1>2, <2>1, <2>3 DEF OwnCampaign, Own
    <2>5. Upgrade!Install(req.img)
      BY <1>1, <2>1, <2>2, <2>4 DEF Upgrade!Install, Upgrade!Blocks
    <2>6. req.img \in Upgrade!Own
      BY <1>1, <2>1 DEF Upgrade!Own
    <2> QED
      BY <1>0, <2>5, <2>6 DEF Refines, Upgrade!Next, Upgrade!Advance
  <1>9. CASE NullReport
    <2>1. gw'.upgrade_num = 0 /\ pc' # "jump" /\ UNCHANGED version
      BY <1>9 DEF NullReport, RamCleared, Zeroed
    <2> QED
      BY <1>0, <1>2, <2>1, Drops DEF Refines
  <1> QED
    BY <1>3, <1>4, <1>5, <1>6, <1>7, <1>8, <1>9

LEMMA OutsideRefines ==
    ASSUME IInv, Uncrossed, Uncrossed',
           \/ OtaStop \/ ClearOtaState \/ Start \/ NetworkLost \/ EndBegins
           \/ EndCompletes \/ EndReleases \/ TaskLeaves \/ PowerFailure
           \/ \E i \in Images : OtaEnd(i)
           \/ TimerFires \/ MissRequest \/ MissRequestSent \/ MissRequestFailed
           \/ UNCHANGED vars
    PROVE  Refines
  <1>0. gw \in GwRecord /\ TaskInv
    BY DEF IInv, TypeOK
  <1>1. CASE Start \/ PowerFailure
    <2>1. /\ gw'.upgrade_num = 0 /\ pc' # "jump"
          /\ UNCHANGED <<version, crossed>>
      BY <1>0, <1>1
         DEF Start, PowerFailure, RamCleared, Zeroed, TaskInv, LinkInv, Uncrossed
    <2> QED
      BY <2>1, NoCampaignIsNobodys, Drops DEF Refines
  <1>2. CASE OtaStop
    BY <1>0, <1>2, Stutters DEF OtaStop, TaskTakes, GwRecord, Refines
  <1>3. CASE ClearOtaState
    BY <1>0, <1>3, Stutters DEF ClearOtaState, GwRecord, Refines
  <1>4. CASE \E i \in Images : OtaEnd(i)
    BY <1>0, <1>4, Stutters DEF OtaEnd, GwRecord, Refines
  <1>5. CASE MissRequest
    BY <1>0, <1>5, Stutters DEF MissRequest, TaskTakes, GwRecord, Refines
  <1>6. CASE \/ NetworkLost \/ EndBegins \/ EndCompletes \/ EndReleases
             \/ TaskLeaves \/ TimerFires \/ MissRequestSent
             \/ MissRequestFailed \/ UNCHANGED vars
    BY <1>6, Stutters
       DEF NetworkLost, EndBegins, EndCompletes, EndReleases, TaskLeaves,
           TimerFires, MissRequestSent, MissRequestFailed, vars, Refines
  <1> QED
    BY <1>1, <1>2, <1>3, <1>4, <1>5, <1>6

(* The start that overtakes a handler. *)
LEMMA OvertakeRefines ==
    ASSUME IInv, [Next]_vars, ~Uncrossed'
    PROVE  Upgrade!Next
  BY TypeStep DEF TypeOK, Uncrossed, Upgrade!Next, Upgrade!Overtake

(* Whatever the radio, the AT thread and power failures do, the terminal   *)
(* upgrades itself as OtaUpgrade says: from one version to the next of a   *)
(* campaign for it, all of whose blocks it has received, until a start     *)
(* overtakes a handler that end() has not waited for.                      *)
THEOREM UpgradeImplemented == Spec => UpgradesAsPromised
  <1>1. Init => Upgrade!Init
    BY NoCampaignIsNobodys DEF Init, Zeroed, Upgrade!Init, OwnCampaign, Own
  <1>2. JInv /\ [Next]_vars =>
            [Upgrade!Next]_<<version, OwnCampaign, ReceivedOwn, crossed>>
    <2>1. ASSUME JInv, [Next]_vars, Uncrossed' PROVE Refines
      BY <2>1, CrossedStays, RequestRefines, HandlerRefines, OutsideRefines
         DEF JInv, Next, TaskStep
    <2> QED
      BY <2>1, OvertakeRefines DEF JInv, Refines
  <1>3. JInv /\ [Next]_vars =>
            [Upgrade!Next]_<<version, OwnCampaign,
                             IF OwnCampaign = 0 THEN {} ELSE gw.mask_map,
                             crossed>>
    BY <1>2 DEF ReceivedOwn
  <1> QED
    BY CompleteAlways, <1>1, <1>3, PTL DEF Spec, UpgradesAsPromised, Upgrade!Spec

===============================================================================
