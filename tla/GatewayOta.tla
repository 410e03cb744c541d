----------------------------- MODULE GatewayOta -----------------------------
(***************************************************************************)
(* Over-the-air upgrade of a WIoTa terminal, as the gateway task of        *)
(* PS/app/src/uc_wiota_gateway_api.c runs it: the task handles one message *)
(* at a time and sleeps inside a handler (before a flash erase, a flash    *)
(* write, the md5 check, and the jump to the boot loader).  While it       *)
(* sleeps, the AT thread, the soft timer and a power failure may step in.  *)
(* The radio link may lose, repeat, reorder and corrupt what the gateway   *)
(* sends, so any packet of any campaign may be the next one to arrive.     *)
(***************************************************************************)
EXTENDS Integers, Sequences, FiniteSets, SequencesExt

CONSTANTS
    Images,         \* the campaigns a gateway may run, see ImageRecord
    BinBlocks,      \* size of the program partition, in blocks of 512 bytes
    ReservedBlocks, \* size of the reserved partition that follows it
    OtaBlocks,      \* size of the OTA partition, last of the three
    SectorBlocks,   \* blocks in a flash sector, the unit of an erase
    MaxInvalid,     \* missing-data requests sent without an answer (8)
    MaxContinue,    \* failed requests in a row that re-arm the timer (3)
    CounterMod,     \* 2^width of miss_data_num (256)
    QueueSlots,     \* what the message queue holds (4)
    FirstVersion,   \* the version in the program partition at the start
    Broken,         \* the program partition does not hold a program
    Erased, Garbage,\* contents of a flash block that belong to no image
    Nothing,        \* the task holds no request
    Faults,         \* the disturbances that occur, a subset of AllFaults
    Repeated,       \* campaigns the gateway repeats for ever
    MaxEvents       \* bound: disturbances, and campaigns that begin

AllFaults == {"corrupt", "stop", "end", "clear", "restart", "lost",
              "power"}

(* A version string, cut down to a short sequence of characters. *)
Versions == Seq(Nat)

(* dev: the device_type of the campaign, "mcu" for EXTERN_MCU. *)
ImageRecord ==
    [num : Nat \ {0}, dev : {"iote", "mcu"}, blocks : Nat \ {0},
     old : Versions, new : Versions, type : Nat]

ASSUME ImagesAssumption ==
    /\ Images \subseteq ImageRecord
    /\ \A i, j \in Images : i.num = j.num => i = j

ASSUME LayoutAssumption ==
    /\ BinBlocks \in Nat \ {0}
    /\ ReservedBlocks \in Nat
    /\ OtaBlocks \in Nat
    /\ SectorBlocks \in Nat \ {0}

ASSUME LimitAssumption ==
    /\ MaxInvalid \in Nat
    /\ MaxContinue \in Nat
    /\ CounterMod \in Nat \ {0}
    /\ QueueSlots \in Nat
    /\ MaxEvents \in Nat

ASSUME ValueAssumption ==
    /\ FirstVersion \in Versions
    /\ Broken \notin Versions
    /\ Erased # Garbage
    /\ Faults \subseteq AllFaults
    /\ Repeated \subseteq Images

-----------------------------------------------------------------------------
(* Strings.  strncmp(a, b, strlen(b)) = 0 says that b is a prefix of a;    *)
(* strncpy(dst, src, strlen(src)) copies no terminator and so leaves the   *)
(* tail of a longer string in place.                                       *)

StrMatches(a, b) == IsPrefix(b, a)

StrCopied(dst, src) == src \o SubSeq(dst, Len(src) + 1, Len(dst))

-----------------------------------------------------------------------------
(* Flash: the reserved and the OTA partition, block by block. *)

FlashBlocks == BinBlocks .. (BinBlocks + ReservedBlocks + OtaBlocks - 1)

(* The content of block b of image i, as the gateway sent it. *)
BlockOf(i, b) == <<i.num, b>>

Contents == {Erased, Garbage} \cup ((Nat \ {0}) \X Nat)

ASSUME ContentAssumption ==
    /\ Erased \notin ((Nat \ {0}) \X Nat)
    /\ Garbage \notin ((Nat \ {0}) \X Nat)

(* An image for the external MCU may use the reserved partition too. *)
WriteAddr(i) == IF i.dev = "mcu" THEN BinBlocks ELSE BinBlocks + ReservedBlocks

MaxSize(i) == IF i.dev = "mcu" THEN OtaBlocks + ReservedBlocks ELSE OtaBlocks

Fits(i) == i.blocks <= MaxSize(i)

(* The addresses of image i, and those of the sectors an erase clears. *)
ImageArea(i) == WriteAddr(i) .. (WriteAddr(i) + i.blocks - 1)

ErasedArea(i) ==
    LET sectors == (i.blocks + SectorBlocks - 1) \div SectorBlocks
    IN  WriteAddr(i) .. (WriteAddr(i) + sectors * SectorBlocks - 1)

(* Programming a flash word only clears bits: it needs an erased block. *)
Programmed(before, content) ==
    IF before = Erased \/ before = content THEN content ELSE Garbage

-----------------------------------------------------------------------------
VARIABLES
    gw,         \* the part of gateway_mode that the upgrade uses, see GwRecord
    miss_data_continue_couter, \* a static of the handler: survives a restart
    ota_timer,  \* the periodic timer, "on" or "off"
    link,       \* wiota_gw_connect_flag, see Links
    missQueued, \* UL_MISS_DATA_REQ messages in the queue
    pc, req,    \* where the task sleeps, and the request it holds
    flash, version, \* what survives a power failure
    events,     \* disturbances and campaigns so far
    crossed     \* history: whether a start has overtaken a handler

vars == <<gw, miss_data_continue_couter, ota_timer, link, missQueued, pc, req,
          flash, version, events, crossed>>

OtaStates == {"DEFAULT", "DOWNLOAD", "PROGRAM", "STOP"}

DlStates == 0 .. 2
DevTypes == 0 .. 1
MissNums == 0 .. (CounterMod - 1)
InvalidReqs == 0 .. MaxInvalid

GwRecord ==
    [ota_state : OtaStates, upgrade_num : Nat, mask_map : SUBSET Nat,
     block_count : Nat, upgrade_type : Nat, new_version : Versions,
     ota_dl_state : DlStates, ota_dev_type : DevTypes, ota_recved_len : Nat,
     bin_addr : Nat, miss_data_num : MissNums,
     miss_data_invalid_req : InvalidReqs]

(* rt_memset(&gateway_mode, 0, sizeof(gateway_mode)) *)
Zeroed ==
    [ota_state |-> "DEFAULT", upgrade_num |-> 0, mask_map |-> {},
     block_count |-> 0, upgrade_type |-> 0, new_version |-> <<>>,
     ota_dl_state |-> 0, ota_dev_type |-> 0, ota_recved_len |-> 0,
     bin_addr |-> 0, miss_data_num |-> 0, miss_data_invalid_req |-> 0]

(* off: NO_CONNECT, no task; on: SUCESS; failed: CONNECT_FAIL, the task    *)
(* returned when the radio lost the network; ending: end() has cleared the *)
(* flag and waits for the task; released: end() has not waited, and the    *)
(* task is still inside a handler; disconnect: set before the jump.        *)
Links == {"off", "on", "failed", "ending", "released", "disconnect"}

(* A request of the gateway: one block of one image.  range says whether   *)
(* upgrade_range is 0, or is 1 with or without this device in the list;    *)
(* first is packet_type = 0; good is FALSE when the block was corrupted.   *)
Requests ==
    [img : Images, blk : Nat, range : {"all", "listed", "others"},
     first : BOOLEAN, good : BOOLEAN]

Sent == UNION {[img : {i}, blk : 0 .. (i.blocks - 1),
                range : {"all", "listed", "others"}, first : BOOLEAN,
                good : BOOLEAN] : i \in Images}

TypeOK ==
    /\ gw \in GwRecord
    /\ miss_data_continue_couter \in 0 .. MaxContinue
    /\ ota_timer \in {"on", "off"}
    /\ link \in Links
    /\ missQueued \in 0 .. QueueSlots
    /\ pc \in {"idle", "erase", "init", "write", "verify", "jump", "send"}
    /\ req \in Requests \cup {Nothing}
    /\ flash \in [FlashBlocks -> Contents]
    /\ version \in Versions \cup {Broken}
    /\ events \in 0 .. MaxEvents
    /\ crossed \in {"yes", "no"}

Init ==
    /\ gw = Zeroed
    /\ miss_data_continue_couter = 0
    /\ ota_timer = "off"
    /\ link = "off"
    /\ missQueued = 0
    /\ pc = "idle"
    /\ req = Nothing
    /\ flash = [a \in FlashBlocks |-> Erased]
    /\ version = FirstVersion
    /\ events = 0
    /\ crossed = "no"

-----------------------------------------------------------------------------
(* The environment.  MaxEvents bounds the disturbances and the campaigns   *)
(* that begin, those in Repeated apart; other packets are free.            *)

Event == events < MaxEvents /\ events' = events + 1

Disturbance(kind) == kind \in Faults /\ Event

(* The task takes a message that the receive callback queued. *)
TaskTakes == link \in {"on", "ending"} /\ pc = "idle"

Arrives(r) ==
    TaskTakes /\ IF r.good THEN UNCHANGED events ELSE Disturbance("corrupt")

ArrivesFirst(r) ==
    /\ TaskTakes
    /\ r.good \/ "corrupt" \in Faults
    /\ IF r.good /\ r.img \in Repeated THEN UNCHANGED events ELSE Event

(* Mutant: stopping the timer has no effect. *)
TimerNotStopped == UNCHANGED ota_timer

(* uc_gateway_stop_ota_timer, uc_gateway_control_ota_timer: the release    *)
(* deletes the timer, and a handler that is still active finds none.       *)
TimerStopped == ota_timer' = "off"
TimerStarted == ota_timer' = IF link = "released" THEN ota_timer ELSE "on"

(* Mutant: the mask is not cleared. *)
ClearStateKeepsMask(g) ==
    [g EXCEPT !.ota_state = "DEFAULT", !.upgrade_num = 0]

(* uc_gateway_clear_state; its callers also stop the timer. *)
ClearState(g) ==
    IF g.ota_state = "DEFAULT"
      THEN g
      ELSE [g EXCEPT !.ota_state = "DEFAULT", !.upgrade_num = 0,
                     !.mask_map = {}]

-----------------------------------------------------------------------------
(* uc_wiota_gateway_ota_upgrade_res_msg: one action for each way through   *)
(* the handler up to the point where it sleeps or returns.                 *)

(* uc_wiota_gateway_check_if_upgrade_required.  A request that lists the   *)
(* device takes it out of STOP before anything else is compared.           *)
InRange(r) ==
    \/ r.range = "listed"
    \/ r.range = "all" /\ gw.ota_state # "STOP"

StateInRange(r) ==
    IF r.range = "listed" /\ gw.ota_state = "STOP"
      THEN "DEFAULT" ELSE gw.ota_state

ForThisDevice(r) ==
    InRange(r) /\ (r.img.dev = "mcu" \/ StrMatches(version, r.img.old))

(* Mutant: a campaign that was stopped may begin again. *)
MayBeginAgain(r) ==
    /\ ForThisDevice(r)
    /\ StateInRange(r) = "DEFAULT"
    /\ IF r.img.dev = "mcu" THEN gw.ota_dl_state = 0 ELSE r.first

MayBegin(r) ==
    /\ ForThisDevice(r)
    /\ StateInRange(r) = "DEFAULT"
    /\ IF r.img.dev = "mcu" THEN gw.ota_dl_state = 0
                            ELSE gw.upgrade_num = 0 /\ r.first

Downloading(r) == ForThisDevice(r) /\ gw.ota_state = "DOWNLOAD"

(* What the handler has changed before it looks at the size of the image,  *)
(* and once it has checked whether the request concerns this device.       *)
DeviceNoted(r) ==
    [gw EXCEPT !.ota_dev_type = IF r.img.dev = "mcu" THEN 1 ELSE @]

Checked(r) ==
    [DeviceNoted(r) EXCEPT !.miss_data_invalid_req = 0,
                           !.ota_state = StateInRange(r)]

(* Where the handler goes once the campaign is in DOWNLOAD: to the write   *)
(* if the block is missing, else to the check whether all blocks are here. *)
AllReceived(g) == (0 .. (g.block_count - 1)) \subseteq g.mask_map

GoesToBlock(r, g) ==
    IF r.blk \notin g.mask_map
      THEN pc' = "write" /\ req' = r
      ELSE IF AllReceived(g)
             THEN pc' = "verify" /\ req' = r
             ELSE pc' = "idle" /\ req' = Nothing

OtaReqTooLarge(r) ==
    /\ Arrives(r)
    /\ ~Fits(r.img)
    /\ gw' = DeviceNoted(r)
    /\ UNCHANGED <<miss_data_continue_couter, ota_timer, link, missQueued, pc,
                   req, flash, version, crossed>>

OtaReqIgnored(r) ==
    /\ Arrives(r)
    /\ Fits(r.img)
    /\ ~MayBegin(r) /\ ~Downloading(r)
    /\ gw' = Checked(r)
    /\ UNCHANGED <<miss_data_continue_couter, ota_timer, link, missQueued, pc,
                   req, flash, version, crossed>>

OtaReqBegin(r) ==
    /\ ArrivesFirst(r)
    /\ Fits(r.img)
    /\ MayBegin(r)
    /\ gw' = [Checked(r) EXCEPT !.upgrade_num = r.img.num]
    /\ pc' = "erase" /\ req' = r
    /\ UNCHANGED <<miss_data_continue_couter, ota_timer, link, missQueued,
                   flash, version, crossed>>

(* Another campaign while one is being downloaded: the old one is dropped. *)
OtaReqSwitch(r) ==
    /\ ArrivesFirst(r)
    /\ Fits(r.img)
    /\ Downloading(r)
    /\ gw.upgrade_num # r.img.num
    /\ gw' = [ClearState(Checked(r)) EXCEPT !.upgrade_num = r.img.num]
    /\ TimerStopped
    /\ pc' = "erase" /\ req' = r
    /\ UNCHANGED <<miss_data_continue_couter, link, missQueued, flash, version,
                   crossed>>

OtaReqBlock(r) ==
    /\ Arrives(r)
    /\ Fits(r.img)
    /\ Downloading(r)
    /\ gw.upgrade_num = r.img.num
    /\ gw' = Checked(r)
    /\ GoesToBlock(r, gw')
    /\ IF pc' = "verify" THEN TimerStopped ELSE UNCHANGED ota_timer
    /\ UNCHANGED <<miss_data_continue_couter, link, missQueued, flash, version,
                   crossed>>

(* The mdelay of uc_wiota_ota_flash_erase is over: whole sectors go. *)
EraseFlash ==
    /\ pc = "erase"
    /\ flash' = [a \in FlashBlocks |->
                   IF a \in ErasedArea(req.img) THEN Erased ELSE flash[a]]
    /\ pc' = "init"
    /\ UNCHANGED <<gw, miss_data_continue_couter, ota_timer, link, missQueued,
                   req, version, events, crossed>>

(* Mutant: the report of an earlier download is left in place. *)
BegunUnreported(r) ==
    [gw EXCEPT !.block_count = r.img.blocks, !.bin_addr = WriteAddr(r.img),
               !.ota_state = "DOWNLOAD", !.upgrade_type = r.img.type,
               !.new_version = StrCopied(@, r.img.new)]

(* end() clears uc_wiota_gateway_exce_report, and the handler calls it     *)
(* without a test.  AT+GATEWAYINIT sets it, also when the start is then    *)
(* refused.                                                                *)
CanReport == link # "ending"

(* The assignments after the erase, up to the next sleep. *)
Begun(r) ==
    [gw EXCEPT !.block_count = r.img.blocks, !.bin_addr = WriteAddr(r.img),
               !.ota_state = "DOWNLOAD", !.ota_dl_state = 1,
               !.upgrade_type = r.img.type,
               !.new_version = StrCopied(@, r.img.new)]

StartDownload ==
    /\ pc = "init"
    /\ CanReport
    /\ gw' = Begun(req)
    /\ GoesToBlock(req, gw')
    /\ IF pc' = "verify" THEN TimerStopped ELSE TimerStarted
    /\ UNCHANGED <<miss_data_continue_couter, link, missQueued, flash, version,
                   events, crossed>>

(* The mdelay of uc_wiota_ota_flash_write is over. *)
Received(r) == IF r.good THEN BlockOf(r.img, r.blk) ELSE Garbage

WriteBlock ==
    /\ pc = "write"
    /\ flash' = [flash EXCEPT ![WriteAddr(req.img) + req.blk] =
                                  Programmed(@, Received(req))]
    /\ gw' = [gw EXCEPT !.mask_map = @ \cup {req.blk}, !.ota_recved_len = @ + 1]
    /\ IF AllReceived(gw')
         THEN pc' = "verify" /\ TimerStopped /\ UNCHANGED req
         ELSE pc' = "idle" /\ req' = Nothing /\ UNCHANGED ota_timer
    /\ UNCHANGED <<miss_data_continue_couter, link, missQueued, version, events,
                   crossed>>

(* uc_wiota_ota_check_flash_data: the md5 of the image's area in flash. *)
Intact(i) ==
    \A b \in 0 .. (i.blocks - 1) : flash[WriteAddr(i) + b] = BlockOf(i, b)

(* Mutant: the md5 is not compared. *)
Md5Unchecked(r) == TRUE

Md5Matches(r) == Intact(r.img)

(* The image is complete: it is handed over, to the boot loader or by a    *)
(* callback to the external MCU.                                           *)
Complete(r) == [gw EXCEPT !.ota_dl_state = 2, !.upgrade_num = 0,
                          !.ota_recved_len = r.img.blocks]

VerifyAccepts ==
    /\ pc = "verify"
    /\ Md5Matches(req)
    /\ req.img.dev = "iote" => CanReport
    /\ IF req.img.dev = "iote"
         THEN /\ gw' = [Complete(req) EXCEPT !.ota_state = "PROGRAM"]
              /\ link' = "disconnect"
              /\ pc' = "jump" /\ UNCHANGED req
         ELSE /\ gw' = [Complete(req) EXCEPT !.ota_state = "DEFAULT",
                                             !.mask_map = {}]
              /\ pc' = "idle" /\ req' = Nothing
              /\ UNCHANGED link
    /\ UNCHANGED <<miss_data_continue_couter, ota_timer, missQueued, flash,
                   version, events, crossed>>

VerifyRejects ==
    /\ pc = "verify"
    /\ ~Md5Matches(req)
    /\ gw' = ClearState(gw)
    /\ TimerStopped
    /\ pc' = "idle" /\ req' = Nothing
    /\ UNCHANGED <<miss_data_continue_couter, link, missQueued, flash, version,
                   events, crossed>>

(* The RAM after a reset. *)
RamCleared ==
    /\ gw' = Zeroed
    /\ miss_data_continue_couter' = 0
    /\ ota_timer' = "off"
    /\ link' = "off"
    /\ missQueued' = 0
    /\ pc' = "idle" /\ req' = Nothing

(* The call of the cleared uc_wiota_gateway_exce_report, on the way into   *)
(* DOWNLOAD or to the jump.  What it does is undefined; here it is a reset.*)
NullReport ==
    /\ link \in {"ending", "released"}
    /\ \/ pc = "init"
       \/ pc = "verify" /\ Md5Matches(req) /\ req.img.dev = "iote"
    /\ RamCleared
    /\ UNCHANGED <<flash, version, events, crossed>>

(* What the boot loader makes of the OTA partition when it is told to      *)
(* install image i: a program only if every block is the image's own, and  *)
(* it was built against the version in place (a differential image).       *)
Installed(i) ==
    IF Intact(i) /\ StrMatches(version, i.old) THEN i.new ELSE Broken

(* uc_wiota_ota_jump_program: the reset, and the boot loader's work. *)
JumpProgram ==
    /\ pc = "jump"
    /\ version' = Installed(req.img)
    /\ RamCleared
    /\ UNCHANGED <<flash, events, crossed>>

-----------------------------------------------------------------------------
(* uc_wiota_gateway_ota_upgrade_stop_msg, with this device in the list. *)
OtaStop ==
    /\ TaskTakes
    /\ Disturbance("stop")
    /\ gw' = [gw EXCEPT !.ota_state = "STOP"]
    /\ IF gw.ota_state = "DOWNLOAD" THEN TimerStopped ELSE UNCHANGED ota_timer
    /\ UNCHANGED <<miss_data_continue_couter, link, missQueued, pc, req, flash,
                   version, crossed>>

(* uc_wiota_gateway_ota_upgrade_state_msg with process_state GATEWAY_OTA_END *)
(* for image i.  The device_type compared with is "iote".                  *)
EndMatches(i) ==
    /\ StrMatches(i.old, version)
    /\ StrMatches(i.new, gw.new_version)
    /\ i.dev = "iote"
    /\ i.type = gw.upgrade_type

Missing == (0 .. (gw.block_count - 1)) \ gw.mask_map

OtaEnd(i) ==
    /\ TaskTakes
    /\ Disturbance("end")
    /\ EndMatches(i)
    /\ gw.ota_state = "DOWNLOAD"
    /\ LET num == (gw.miss_data_num + Cardinality(Missing)) % CounterMod
       IN  IF num > 0
             THEN /\ gw' = [gw EXCEPT !.miss_data_num = num,
                                      !.miss_data_invalid_req = 0]
                  /\ TimerStarted
             ELSE /\ gw' = [gw EXCEPT !.miss_data_num = num]
                  /\ UNCHANGED ota_timer
    /\ UNCHANGED <<miss_data_continue_couter, link, missQueued, pc, req, flash,
                   version, crossed>>

-----------------------------------------------------------------------------
(* uc_wiota_gateway_handle_ota_recv_timer_msg: the timer is periodic, and  *)
(* a post that finds the queue full is dropped.                            *)
TimerFires ==
    /\ ota_timer = "on"
    /\ link = "on"
    /\ missQueued < QueueSlots
    /\ missQueued' = missQueued + 1
    /\ UNCHANGED <<gw, miss_data_continue_couter, ota_timer, link, pc, req,
                   flash, version, events, crossed>>

(* Mutant: one request too many. *)
AsksOnceMore == gw.miss_data_invalid_req <= MaxInvalid

AsksAgain == gw.miss_data_invalid_req < MaxInvalid

(* uc_wiota_gateway_ota_miss_data_req_msg up to the send, which blocks.    *)
(* ota_state is not looked at: a message that waited in the queue is       *)
(* handled even if the campaign is over.                                   *)
MissRequest ==
    /\ TaskTakes
    /\ missQueued > 0
    /\ missQueued' = missQueued - 1
    /\ IF AsksAgain
         THEN /\ gw' = [gw EXCEPT !.miss_data_invalid_req = @ + 1]
              /\ pc' = "send"
              /\ UNCHANGED ota_timer
         ELSE TimerStopped /\ UNCHANGED <<gw, pc>>
    /\ UNCHANGED <<miss_data_continue_couter, link, req, flash, version, events,
                   crossed>>

MissRequestSent ==
    /\ pc = "send"
    /\ pc' = "idle"
    /\ TimerStarted
    /\ miss_data_continue_couter' = 0
    /\ UNCHANGED <<gw, link, missQueued, req, flash, version, events,
                   crossed>>

MissRequestFailed ==
    /\ pc = "send"
    /\ pc' = "idle"
    /\ IF miss_data_continue_couter < MaxContinue
         THEN /\ TimerStarted
              /\ miss_data_continue_couter' = miss_data_continue_couter + 1
         ELSE TimerStopped /\ miss_data_continue_couter' = 0
    /\ UNCHANGED <<gw, link, missQueued, req, flash, version, events,
                   crossed>>

-----------------------------------------------------------------------------
(* AT+GATEWAYOTASTATE=1, uc_wiota_gateway_clear_ota_state: the AT thread,  *)
(* whatever the task is doing.                                             *)
ClearOtaState ==
    /\ Disturbance("clear")
    /\ gw' = [gw EXCEPT !.ota_dev_type = 0, !.ota_dl_state = 0,
                        !.ota_recved_len = 0, !.bin_addr = 0]
    /\ UNCHANGED <<miss_data_continue_couter, ota_timer, link, missQueued, pc,
                   req, flash, version, crossed>>

(* uc_wiota_gateway_start: gateway_mode is zeroed, the handler's static is *)
(* not, and the program in place must be able to run.  A handler of the    *)
(* service before it goes on with the new record.  (In the code the new    *)
(* task does not wait for it, as it does here: see Uncrossed.)             *)
Start ==
    /\ link \in {"off", "released"}
    /\ version # Broken
    /\ link' = "on"
    /\ gw' = Zeroed
    /\ crossed' = IF link = "released" THEN "yes" ELSE crossed
    /\ UNCHANGED <<miss_data_continue_couter, ota_timer, missQueued, pc, req,
                   flash, version, events>>

(* The task finds that the network is lost and returns. *)
NetworkLost ==
    /\ link = "on"
    /\ pc = "idle"
    /\ missQueued = 0
    /\ Disturbance("lost")
    /\ link' = "failed"
    /\ UNCHANGED <<gw, miss_data_continue_couter, ota_timer, missQueued, pc, req,
                   flash, version, crossed>>

(* uc_wiota_gateway_end: the flag is cleared and EXIT is queued; what was  *)
(* queued before EXIT is still handled.                                    *)
EndBegins ==
    /\ link \in {"on", "failed"}
    /\ Disturbance("restart")
    /\ link' = "ending"
    /\ UNCHANGED <<gw, miss_data_continue_couter, ota_timer, missQueued, pc, req,
                   flash, version, crossed>>

(* The task has taken EXIT: timer and queue are deleted. *)
EndCompletes ==
    /\ link = "ending"
    /\ pc = "idle"
    /\ link' = "off"
    /\ TimerStopped
    /\ missQueued' = 0
    /\ UNCHANGED <<gw, miss_data_continue_couter, pc, req, flash, version, events,
                   crossed>>

(* A full queue has refused EXIT: send_exit has cleared gateway_task_run   *)
(* and slept 800 ms, wait_exit has returned at once, and timer and queue   *)
(* are deleted while the task is inside a handler that takes longer.       *)
EndReleases ==
    /\ link = "ending"
    /\ pc # "idle"
    /\ link' = "released"
    /\ TimerStopped
    /\ missQueued' = 0
    /\ UNCHANGED <<gw, miss_data_continue_couter, pc, req, flash, version, events,
                   crossed>>

(* Its handler over, the task finds gateway_task_run cleared and returns.  *)
TaskLeaves ==
    /\ link = "released"
    /\ pc = "idle"
    /\ link' = "failed"
    /\ UNCHANGED <<gw, miss_data_continue_couter, ota_timer, missQueued, pc, req,
                   flash, version, events, crossed>>

(* A power failure.  An erase or a write that was going on is cut short.   *)
CrashedFlash ==
    {flash} \cup
    (IF pc = "erase"
       THEN {[a \in FlashBlocks |->
                IF a \in ErasedArea(req.img) THEN Garbage ELSE flash[a]]}
       ELSE {}) \cup
    (IF pc = "write"
       THEN {[flash EXCEPT ![WriteAddr(req.img) + req.blk] = Garbage]}
       ELSE {})

PowerFailure ==
    /\ Disturbance("power")
    /\ flash' \in CrashedFlash
    /\ RamCleared
    /\ UNCHANGED <<version, crossed>>

-----------------------------------------------------------------------------
(* The gateway task while it is inside a handler, or has a timer message. *)
TaskStep ==
    \/ EraseFlash \/ StartDownload \/ WriteBlock
    \/ VerifyAccepts \/ VerifyRejects \/ JumpProgram \/ NullReport
    \/ MissRequest \/ MissRequestSent \/ MissRequestFailed
    \/ TaskLeaves

OtaReq(r) ==
    \/ OtaReqTooLarge(r) \/ OtaReqIgnored(r) \/ OtaReqBegin(r)
    \/ OtaReqSwitch(r) \/ OtaReqBlock(r)

Next ==
    \/ \E r \in Sent : OtaReq(r)
    \/ OtaStop
    \/ \E i \in Images : OtaEnd(i)
    \/ TaskStep
    \/ TimerFires
    \/ ClearOtaState
    \/ Start \/ NetworkLost \/ EndBegins \/ EndCompletes \/ EndReleases
    \/ PowerFailure

Spec == Init /\ [][Next]_vars

(* Threads that are ready to run do run: the task, the timer thread, and   *)
(* the waiting loop of end().  Nothing is assumed of the gateway.          *)
FairSpec ==
    /\ Spec
    /\ WF_vars(TaskStep)
    /\ WF_vars(TimerFires)
    /\ WF_vars(EndCompletes)

-----------------------------------------------------------------------------
(* Everything but the types is stated for the time until a start zeroes    *)
(* gateway_mode under a handler of the service before it.  From then on    *)
(* that handler marks blocks in the mask of another campaign, and two      *)
(* tasks serve one queue: nothing is claimed.                              *)
Uncrossed == crossed = "no"

(* While an image for this device is downloaded, a mask bit says that the  *)
(* block is in flash as it arrived.  A stop, an AT command or a restart    *)
(* that leaves an old mask in place must not let a bit stand for a block   *)
(* that the erase at the start of the campaign removed: it would never be  *)
(* asked for again; nor may a handler that end() did not wait for.         *)
MaskBacked ==
    Uncrossed =>
        \A i \in Images :
            gw.ota_state = "DOWNLOAD" /\ i.dev = "iote" /\ gw.upgrade_num = i.num =>
                \A b \in gw.mask_map :
                    b < i.blocks =>
                        flash[WriteAddr(i) + b] \in {BlockOf(i, b), Garbage}

(* Whatever the radio, the AT thread and power failures do, the boot       *)
(* loader is never told to install an image that is not complete.          *)
NeverBroken == Uncrossed => version # Broken

(* What AT+GATEWAYOTASTATE reports as downloaded is there: with state 2    *)
(* and an address, the flash at that address holds a whole image of the    *)
(* reported length.  Excepted is the moment between the erase for the next *)
(* campaign and the assignments that follow it.                            *)
ReportedImageIntact ==
    Uncrossed /\ gw.ota_dl_state = 2 /\ gw.bin_addr # 0 /\ pc # "init" =>
        \E i \in Images :
            /\ WriteAddr(i) = gw.bin_addr
            /\ i.blocks = gw.ota_recved_len
            /\ Intact(i)

(* The comment at ota_dl_state, "0 default, 1 downloading, 2 download      *)
(* cmp": between two messages, 1 is reported only while a campaign is in   *)
(* DOWNLOAD.                                                               *)
DownloadingReported ==
    gw.ota_dl_state = 1 /\ pc = "idle" => gw.ota_state = "DOWNLOAD"

(* The campaign of OtaUpgrade: upgrade_num, which is reset shortly before  *)
(* the jump, if it is that of a campaign for the device itself.            *)
OwnCampaign ==
    LET num == IF pc = "jump" THEN req.img.num ELSE gw.upgrade_num
    IN  IF \E i \in Images : i.dev = "iote" /\ i.num = num THEN num ELSE 0

Upgrade ==
    INSTANCE OtaUpgrade
    WITH campaign <- OwnCampaign,
         received <- IF OwnCampaign = 0 THEN {} ELSE gw.mask_map

(* The terminal implements OtaUpgrade: whatever order packets, stops, AT   *)
(* commands, restarts and power failures come in, mask_map holds blocks of *)
(* the campaign of upgrade_num alone, that campaign is for the version in  *)
(* place, and the jump installs it with every block received, unless a     *)
(* start overtakes a handler (the Overtake of OtaUpgrade).                 *)
UpgradesAsPromised == Upgrade!Spec

(* When the gateway has fallen silent the terminal stops asking: the timer *)
(* is off for good, unless the gateway task is no longer there to stop it. *)
(* A message that was queued before a stop or the end of a campaign starts *)
(* the timer again, but not for ever.                                      *)
Silence == <>[][\A r \in Sent : ~OtaReq(r)]_vars

TimerGoesOff ==
    Silence /\ []Uncrossed => <>[](link = "on" => ota_timer = "off")

(* The gateway repeats the campaigns in Repeated, and in the end no other: *)
(* each of their blocks is received again and again, and the user starts   *)
(* the gateway when it is not running.                                     *)
RepeatedRequest(i, b) ==
    [img |-> i, blk |-> b, range |-> "all", first |-> TRUE, good |-> TRUE]

(* A stop keeps upgrade_num, and a campaign begins only when it is 0: the  *)
(* device is not upgraded again before a restart.                          *)
Stopped ==
    \/ gw.ota_state = "STOP"
    \/ gw.ota_state = "DEFAULT" /\ gw.upgrade_num # 0

Repeating ==
    /\ WF_vars(Start)
    /\ []<>(link # "failed" /\ ~Stopped)
    /\ \A i \in Repeated : \A b \in 0 .. (i.blocks - 1) :
          SF_vars(OtaReq(RepeatedRequest(i, b)))
    /\ <>[][\A r \in Sent : r.img \notin Repeated => ~OtaReq(r)]_vars

(* A campaign that the gateway keeps repeating is installed in the end,    *)
(* through lost and corrupted packets, power failures and restarts.        *)
Upgraded == Repeating /\ []Uncrossed => \A i \in Repeated : <>(version = i.new)

=============================================================================
