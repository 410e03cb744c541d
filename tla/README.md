# A formal model of the WIoTa terminal firmware

This directory holds TLA+ modules for the UC8288 terminal firmware in `src/`
(the WIoTa IoT module on RT-Thread): the gateway service in
`PS/app/src/uc_wiota_gateway_api.c`, the AT commands that drive it and the
applications built on top of it.  TLC checks the models on small instances,
TLAPS proves the main safety properties for every instance.

The modules cover the life of the gateway service, the over-the-air upgrade with
its access to the flash, the requests and time slots of the gateway, the auto
manager, quick connect and the message store of the GPIO report.

## The system and its parts

The firmware runs several RT-Thread threads against one global structure,
`gateway_mode`, without a lock:

| thread | priority | what it runs |
| --- | --- | --- |
| AT server | 3 | every AT command: start, end, send, query, clear |
| gateway task | 3, time-sliced with the AT server | `uc_wiota_gateway_api_handle`: one message of its queue at a time |
| soft-timer thread | 4 | `ota_timer`, which asks for missing blocks |
| auto manager | 9 | scans, connects, and runs `uc_wiota_gateway_api_handle` itself |
| quick connect | 31 | polls the connection and reconnects |
| protocol stack (a binary library) | | calls the receive callback |

| part | state | operations | correctness |
| --- | --- | --- | --- |
| gateway lifecycle | `wiota_gw_connect_flag`, `gateway_state`, queue, task flags | start, end, task loop, receive callback | no use of a deleted queue, `end` returns, a restart is possible |
| authentication | `uc_gateway_state`, retry counter | `auth`, `auth_res_msg` | a success is reported as one |
| OTA upgrade | `ota_state`, `mask_map`, `upgrade_num`, timer, flash | request, stop, end, missing-data request, AT clear | only a complete image is installed, a mask bit is backed by flash, an upgrade completes |
| OTA flash access | flash words | read, write, erase, md5, jump | erase covers what is written |
| time slots | `fn_refresh_sem`, `is_waiting_ts`, `is_send_sleep` | wait, frame-number callback | a send happens in its slot, a wait on its own succeeds |
| RTC request | `rtc_sem`, callback | `get_rtc`, response | a command that succeeds has given the time |
| auto manager | frequency list, state | scan, init, run, strategy, exit | the list is sorted, its reader is safe, the terminal keeps trying |
| quick connect | `qc_wiota_state`, `qc_auto_run`, best frequency | start, stop, poll | a stop is final, the network of the last start is joined |
| GPIO report store | ring of 5 messages, pulse timer | insert, show, mode, width | the last five are shown in order, once; the host is told |
| AT commands of the stack | `wiota_state` | about 60 commands | a command is refused in the wrong state |
| application coding | header bytes | encode, decode, compress | not modelled |
| boot and factory AT commands, demos, drivers, board | registers, partitions | | not modelled |

How they interact:

- The protocol stack calls `uc_wiota_gateway_recv_data_callback`, which puts a
  `DL_RECV` message into `gateway_mq`.  The soft timer puts
  `UL_MISS_DATA_REQ` there, the AT server `EXIT`.  The handler is the only
  reader once `start` has returned; during authentication the AT server reads
  the queue itself.
- Without automatic connection every start creates a handler thread.  With it
  the auto manager calls the handler while `allow_run_flag` is set, and leaves
  it to scan again when the network is lost.
- `end` tells the handler to leave in one of two ways: `EXIT` in the queue, or
  `gateway_task_run = 0` when the queue is full.  It then polls `exit_flag`, or
  does not wait at all, and deletes timer and queue.
- The AT server and the handler wait for the slot of the terminal with one flag
  and one semaphore, which the frame-number callback releases.
- `AT+GATEWAYRTC` registers a callback and a semaphore that the handler uses when
  an answer comes.
- Quick connect and the AT server drive the same protocol stack and record its
  state in two variables, `wiota_state` and `qc_wiota_state`.
- The receive callback stores messages in a ring that the AT server prints and
  clears.
- An OTA request makes the handler sleep up to four times: before the erase,
  before the write, before the md5 check and before the jump.  In each of these
  the AT server may query and clear the state, or end the service, and power may
  fail.

What is hard in this code: flags and pointers that several threads write
without a lock; state of an earlier upgrade or an earlier pass that a later one
meets; a queue of four messages that can be full; retries whose counters are
tested in the wrong place; a flash that must be erased before it is written and
that survives a power failure when `gateway_mode` does not.  `PROJECT.json`
lists these hazards, each with its line and the properties that would catch it.

## Modules

| module | what it is |
| --- | --- |
| `GatewayOta`, `MCGatewayOta` | the upgrade with its environment: radio, AT thread, timer, power failures; four campaigns and a flash of three blocks |
| `OtaUpgrade` | what the upgrade of the device promises; `GatewayOta` implements it |
| `OtaFlash`, `MCOtaFlash` | the access to the flash, byte by byte; two pages of two words |
| `GatewayLifecycle`, `MCGatewayLifecycle` | start, end, handlers, auto manager and the message queue; two threads |
| `RtcRequest` | a request for the time, its answer, its timeout |
| `TimeSlot` | the wait for the time slot |
| `AutoManager` | scan, frequency list, connection |
| `QuickConnect`, `MCQuickConnect` | the polling thread, the AT server and the stack; two frequencies, two modes |
| `GpioStore` | the ring of messages and the pulse |
| `MessageLog` | what the host may expect of the store; `GpioStore` implements it when nobody interrupts |
| `GatewayOtaProofs`, `OtaFlashProofs`, `TimeSlotProofs`, `GatewayLifecycleProofs`, `RtcRequestProofs`, `AutoManagerProofs`, `QuickConnectProofs`, `GpioStoreProofs` | inductive invariants and theorems |

The specifications of the gateway file describe it from different sides and are
not composed: `GatewayLifecycle` abstracts a message to its kind and to the time
it takes; `GatewayOta` abstracts the life of the service to `link` (off, on,
failed, ending, released, disconnect) and the queue to the timer messages in it; `OtaFlash`
takes from an upgrade only whether a download is on; `RtcRequest` and `TimeSlot`
take the thread that runs the handler with its priority.  `AutoManager` sees a
handler that returns as a lost network, and `GatewayLifecycle` has the manager's
loop around that handler.

### GatewayOta

State: `gw` is the record of the fields of `gateway_mode` that the upgrade
uses; `mask_map` is the set of bits that are set.  `pc` says in which sleep of a
handler the task is, and `req` which request it holds there.  `flash` maps each
block of the reserved and OTA partitions to its content: a block of a
campaign, `Erased` or `Garbage`.  `version` is what the boot loader last
installed.  `flash` and `version` survive a power failure.

| action | code |
| --- | --- |
| `OtaReqTooLarge`, `OtaReqIgnored`, `OtaReqBegin`, `OtaReqSwitch`, `OtaReqBlock` | the ways through `uc_wiota_gateway_ota_upgrade_res_msg` and `uc_wiota_gateway_check_if_upgrade_required` up to the first sleep |
| `EraseFlash`, `StartDownload`, `WriteBlock`, `VerifyAccepts`, `VerifyRejects`, `JumpProgram` | the rest of that handler, one step per sleep |
| `OtaStop`, `OtaEnd` | `uc_wiota_gateway_ota_upgrade_stop_msg`, `..._state_msg` |
| `TimerFires`, `MissRequest`, `MissRequestSent`, `MissRequestFailed` | the soft timer and `uc_wiota_gateway_ota_miss_data_req_msg`, whose send blocks |
| `ClearOtaState` | `uc_wiota_gateway_clear_ota_state`, in the AT thread |
| `Start`, `NetworkLost`, `EndBegins`, `EndCompletes` | the life of the service |
| `EndReleases`, `TaskLeaves` | the full queue has refused EXIT: `uc_gateway_clean_data` goes on while the handler still sleeps, and the handler leaves its loop later |
| `NullReport` | a handler that calls `uc_wiota_gateway_exce_report` after `end` has cleared it; what follows is undefined and taken for a reset |
| `PowerFailure` | a reset at any point; an erase or write in progress leaves garbage |

The radio is not a variable: any packet of any campaign in `Images` may be the
next to arrive, so packets are lost, repeated and reordered freely.  The version
strings are short sequences, and the two string functions are modelled by what
they do: `strncmp(a, b, strlen(b))` compares a prefix, and
`strncpy(dst, src, strlen(src))` leaves the tail of a longer string in place.
Flash can only be programmed from the erased state (`Programmed`).

`end` need not wait for the handler.  When the queue is full, `send_exit` clears
`gateway_task_run` and sleeps 800 ms, and `wait_exit` then returns at once; the
handler sleeps a frame before an erase, another before a write, and up to 60 s in a
send, and a frame is configurable.  So `EndReleases` may come in any of the
handler's sleeps, and the next `Start` may come before `TaskLeaves`: it zeroes
`gateway_mode` under a handler that goes on to set a bit or a state of the new
record.  From then on (`crossed`) nothing is claimed, and every property of
`ota_safety` but the types says so (`Uncrossed`).

The boot loader is external; it makes a program of an image that is complete and was
built for the version in place, and anything else is `Broken`.

Abstractions: one block is one flash page, so the page arithmetic of
`uc_ota_flash.c` is left to `OtaFlash`; sizes are counted in blocks; `mask_map`
has no limit of bits.

The refinement.  `OtaUpgrade` has the version, the campaign of the device, the
blocks received of it, and `crossed`.  The campaign is `upgrade_num` if that
names a campaign for the device, and still that of the request when the handler
sleeps before the jump, where `upgrade_num` has been reset (`OwnCampaign`); the
blocks are `mask_map`.  A request that begins a campaign maps to `Accept`, a
written block to `Get`, the jump to `Install`; restarts, failed checks and
campaigns for an external MCU map to `Drop`, and all else to a stutter.  A start
under a busy handler is `Overtake`, with which the promise ends.

### OtaFlash

State: `flash` maps addresses to bytes, and a byte is the set of its bits that
are 1, so that programming is an intersection.  `op`, `start`, `length`, `data`,
`index` and `page` are the arguments and locals of the erasure or of the writing in
progress; `from`, `want`, `digest` and `chunk` those of the reading.  `before`
and `disturbed` are history: the flash when the writing began, and whether it has
changed during the reading.

| action | code |
| --- | --- |
| `BeginErase`, `EraseFirst`, `EraseNext`, `EndErase` | `uc_wiota_ota_flash_erase`, a page at a time, with the unsigned difference of an unaligned start |
| `StartDownload`, `GiveUp` | the assignments of `ota_state` and `ota_dl_state` by the callers; giving up leaves the second as it is |
| `ClearOtaState` | `AT+GATEWAYOTASTATE=1`, in a download too |
| `BeginWrite`, `WriteWord`, `EndWrite` | `ota_flash_write`: the test of the end of the flash, one turn per word, a partial word read before it is written |
| `CheckImage`, `ReadWord`, `NextChunk`, `EndRead` | `uc_wiota_ota_check_flash_data` and `uc_wiota_ota_flash_read`, in chunks |
| `ReadImage` | `AT+GATEWAYEXMCU`, which refuses more than its buffer, and what `ota_dl_state` says is a download |
| `PowerFailure` | a reset that leaves the word or the page in progress with some of its bits changed |

The driver, which stores the bytes of a word in reverse order, is external.
Erasing and writing disable interrupts, so the AT server reads before or after
them.  One reading is under way at a time: a reading of the AT server beside a check is
left out, since neither changes what the other reads.  Addresses and lengths are assumed to be small enough that their sums
without reduction stay below `Mod`; the test of the end of the flash and the
difference in the erasure are computed modulo `Mod`.

### GatewayLifecycle

State: `gm` is the record of the shared flags and of the pointer `gateway_mq`
(`null`, `live`, `dangling`); `queue` holds the kinds of the messages; `flag`
and `gstate` are the two globals; `at` is where the AT server is in start or
end; `hpc` and `lost` are the place and the `lost_count` of each handler.
`exitSent` and `refused` are history: whether the queue took the EXIT of this
end, and whether it ever refused one.

| action | code |
| --- | --- |
| `StartRefused`, `StartNoQueue`, `StartBegins` | `uc_wiota_gateway_start` up to authentication |
| `AuthNoSync`, `AuthSend`, `AuthAnswer`, `AuthOther`, `AuthFails` | the loop over `re_auth_count` and `uc_wiota_gateway_auth` |
| `Connect`, `ConnectFails`, `StartReturns` | timer, thread or `allow_run_flag`, and the delay of the AT command |
| `EndBegins`, `DelayOver`, `WaitExit`, `ExitSeen`, `Release` | `uc_wiota_gateway_end` with `send_exit`, `wait_exit` and `uc_gateway_clean_data` |
| `Enter`, `Loop`, `RecvExit`, `RecvMessage`, `Handled`, `Timeout`, `Leave` | `uc_wiota_gateway_api_handle` and `wiota_state_judge` |
| `ImageComplete`, `Jump` | a message that completes an upgrade, and the reset that follows |
| `ManagerExits`, `ManagerConnects`, `StrategyHandles`, `StrategyLost` | the auto manager around the handler |
| `Receive`, `TimerFires`, `RadioChanges` | the threads that fill the queue, and the radio |

Scheduling assumptions, each from priorities and delays in the code:

- A handler thread has the priority of the AT server and is time-sliced with
  it: their steps interleave freely.
- The manager has a lower priority: it steps only while the AT server is idle
  or blocks (`MayRun`).
- While the AT server sleeps two ticks after a start, or 800 ms in
  `send_exit`, a handler that is ready to run reaches its next wait
  (`HandlersRan`).  An application that calls start and end back to back
  without the delay of the AT command is not covered.
- Reading `gateway_mq` and the call that uses it are one step.  `rt_mq_detach`
  wakes a waiting handler with an error.
- Each flag is written in one step, although several share a byte.
- Where the code would use a queue that has been deleted, the model has no
  step: what follows is undefined.  So an invariant says nothing about the
  time after it, and `ConnectedServed` excludes that state by name.

### RtcRequest

State: `at` is where the AT server is in `uc_wiota_gateway_get_rtc`, `cb` stands
for the callback and its format, `sem` and `tokens` for the semaphore, `hpc` for
the handler inside the response.  `given` and `overtaken` are history: whether
the callback has run for this request, and whether it timed out inside a response.

| action | code |
| --- | --- |
| `NotConnected`, `Request`, `Sent`, `SendFails` | `uc_wiota_gateway_get_rtc` up to the result of the send |
| `Register`, `CreateSem` | `uc_wiota_gateway_register_get_rtc_cb` and the semaphore, after the request has been sent |
| `Taken`, `TakeTimesOut`, `Unregister` | the wait and its end |
| `Response`, `CallBack`, `TestSem`, `ReleaseSem` | `uc_wiota_gateway_recv_rtc_res_msg`, each test and use in a step of its own |
| `AnswerLost` | the radio |

An answer does not name its request, so answers are a number.  With automatic
connection the handler runs at a lower priority and only while the AT server
blocks (`HandlerMayRun`); otherwise the two interleave freely.

### TimeSlot

State: `fn` is the frame within the period and `report` whether its callback is
still to come; `is_waiting_ts` and `tokens` are the shared flag and semaphore;
`place` and `left` are the place and the remaining time of each sender; `service`
says whether the callback is registered and the semaphore exists.  `valid`, the
slots of the terminal in this frame, and `shared` and `moved`, what has disturbed
a wait, are history.

| action | code |
| --- | --- |
| `NoWait`, `Arm`, `Take`, `TimesOut`, `Disarm` | `uc_wiota_gateway_wait_send_time_slot` |
| `Send`, `SendReturns` | `uc_wiota_gateway_send_ps_cmd_data` |
| `FnChange` | the callback of the stack, `UC_RECV_FN_CHANGE` |
| `NextFrame` | time: a frame ends when every ready thread has run |
| `AuthSucceeds`, `AuthFails`, `CalcAuthTsFn` | the slot changes: answers of the gateway, a lost network, a new request |
| `EndBegins`, `EndDeletes`, `StartAgain` | `uc_gateway_clean_data` before and after its delays, `uc_wiota_gateway_start` |
| `SetSendSleep` | `AT+GATEWAYSAS` |

The AT server is one of the senders: it starts and ends the service while it does
not send.  A sender that has set its flag and then finds no semaphore has no step,
since `rt_sem_take` is not defined there.  `Calm` rests on the answers of the gateway:
the slot changes with the answer to a request, and a request is sent at the start
or when the gateway asks for it.

### AutoManager

State: `process` is `manager_state` refined by the steps of a scan, `list` the
frequency list from its head, `half` whether the newest node is only partly
linked, `current` the current node, `fails` `continue_scan_fail`.  `heard` and
`twice` are history: where each frequency was last heard, and whether one was
heard twice.

| action | code |
| --- | --- |
| `BeginScan`, `OnlyFreq`, `ScanFreq`, `NextSubsystem`, `ScanOver` | `at_wiota_manager_scan` for its three strategies |
| `AddFound`, `LinkComplete` | `at_wiota_freq_manager`, `at_wiota_add_freq_list` |
| `NoFreq`, `ChooseFreq`, `ConnectFails`, `Connected`, `Lost`, `Exit` | `at_wiota_manager_task` |
| `ReaderWalks` | `at_wiota_get_avail_freq_list`, called by the AT server at any point: a state predicate, since it changes nothing |

### QuickConnect

State: `ps` is the protocol stack (external, `Exited`, `Inited`, `Running`,
`Connecting`), `wiota_state`, `qc_state`, `auto_run`, `cur` and `best` are the
shared variables, `pc` the next statement of the thread and `copy` what it has
read into its locals.

| action | code |
| --- | --- |
| `Start`, `StartEnds`, `Stop`, `StopEnds` | `wiota_quick_connect_start`, `..._stop`, with their delays |
| `Refused` | `AT+WIOTAQC` with a mode or a switch that is refused: it has set the frequency before |
| `UserInit`, `UserRun`, `UserConnect`, `UserExit` | `AT+WIOTAINIT`, `AT+WIOTARUN`, `AT+WIOTACONNECT` |
| `Poll`, `Check`, `Judge` | `quick_connect_task` |
| `CloseExit`, `CloseMark`, `CloseLeave` | the three statements that close the stack, in two places |
| `Scan...` | `quick_scan`, `quick_freq_scan_op` |
| `Open...` | `quick_open_wiota` |
| `Synchronises`, `LosesNetwork` | the stack |

The AT server has a higher priority: its commands interrupt the thread between
any two statements and run up to their delay in one step.  The thread reads
`cur_freq` and `cur_mode` in two steps.  `ps.crossed` is history: a command has changed
the frequency of an open stack since the thread last set the whole configuration.

### GpioStore and MessageLog

State: `slots` and `index` are `wiota_save_data` and `wiota_save_index`,
`arriving` the message of an insertion in progress, `report` the next statement of
`wiota_gpio_report_state`, `next` and `max` the locals of `wiota_data_show`, `at` the
place of the AT server in its command, `pin`, `timer` and `high` the pulse, and
`callback` whether the timer has run off and its callback is to come.  `interrupts`
says whether the thread that receives and the AT server interrupt each other, which
depends on the priority the stack gives its callback thread; both may interrupt the
timer thread.

| action | code |
| --- | --- |
| `ShowAtOnce`, `BeginInsert`, `StoreMessage` | `wiota_recv_callback`, `wiota_data_insert` |
| `FindTimer`, `FindState`, `RaisePin`, `StartTimer` | `wiota_gpio_report_state`: the test for NULL, the state of the timer, the pin, the start |
| `TimerExpires`, `PulseOver` | `rt_soft_timer_check`, which takes a timer that runs once for inactive before it calls `wiota_gpio_timer_cb` |
| `BeginShow`, `PrintMessage`, `ShowNext`, `EndShow` | `AT+STOREDATA`, `wiota_data_show` |
| `SetMode` | `AT+MODE` |
| `PulseSetup`, `CreateTimer`, `StopTimer`, `DeleteTimer` | `AT+PULSEWIDTH`: pin and width, then a timer that is created, or stopped and deleted |

A timer that has been deleted fails an assertion in `rt_timer_control` and
`rt_timer_start`: the thread has no further step.  An insertion at index -1 writes in
front of the array, and a message can be freed while it is printed; what follows is
undefined and not represented.

The log of the refinement (`Log`) is made of the slots that wait to be printed
(`Waiting`), which do not include one that has just been printed and not yet freed:
as many messages as there are such slots, the last of them in the newest slot.

## Runs

| run | result | what it shows |
| --- | --- | --- |
| `ota_safety` | pass | `MaskBacked`, `NeverBroken`, `ReportedImageIntact` under all seven disturbances (corrupted packet, stop, end of campaign, AT clear, restart, lost network, power failure), the release under a busy handler included, until a start overtakes that handler; `UpgradesAsPromised`: all of it implements `OtaUpgrade`; `TimerGoesOff`: the requests for missing blocks end when the gateway is silent; `Upgraded`: a repeated campaign is installed in the end |
| `ota_dl_state` | violation | `DownloadingReported`: a failed md5 check leaves "downloading" |
| `flash` | pass | `WrittenExactly`, `NeighboursKept`: a block at any address changes its own bytes only, also when the power fails; `EraseCovers`, `EraseOnly`: what an erasure covers and what it spares; `ReadBack`: what is read and digested is what the flash holds |
| `life_end` | pass | `ConnectedServed`: a connection that the flag reports has a handler; `EndReturns`, `HandlersLeave`: an end whose EXIT was queued returns, and every handler leaves after an end |
| `life_auto` | pass | `ReleaseWaits`: with automatic connection the queue is not deleted under the manager as long as no EXIT was refused |
| `life_restart` | violation | `RestartPossible`: the handler's last statement undoes the NO_CONNECT of end |
| `life_auth` | violation | `AuthReported`: success at the third attempt is returned as AUTH_FAIL |
| `rtc` | pass | `TimeGiven`: a command that was sent and succeeds has given the time, whatever answers overtake it; `TimeInsideCommand`: with automatic connection it is given inside the command |
| `slot_send` | pass | `SentInSlot`: what has waited is sent in the slot; `LoneSenderServed`: only a wait that met another one, or an end, times out |
| `manager` | pass | `StrongestFirst`, `ReaderMeetsWholeNodes`, `ConnectsWhereHeard`, and `KeepsTrying`: a single static frequency is tried again and again |
| `quick` | pass | `OnceAfterStop`, `StopCloses`, `InitOnlyClosed`: what start and stop may leave behind at any statement; `Joins`, `Tuned`: the network of the last start is joined and tuned |
| `gpio` | pass | `RingIsLog`: without interruptions the ring is a log of the last messages; `NotTwice`; `PulseEnds`: a high pin has somebody to lower it, until `AT+PULSEWIDTH` meets a pulse; `StoredIsRead`: an announced message is read |

Bounds, and why they are enough:

- OTA: a flash of one program block (not modelled in content), one reserved and
  two OTA blocks.  The image for the external MCU takes the reserved and the
  first OTA block, so it overlaps the two-block image of the device.  Two blocks
  are what "some but not all received" needs; a third image does not fit; the
  fourth builds on the first and has a longer version string.  `MaxEvents`
  bounds the disturbances and the campaigns that begin; the blocks of a campaign,
  and the campaigns of `Repeated`, are not bounded.  `CounterMod` is 2 so that
  the one-byte counter of missing blocks wraps.
- Flash: two pages of two words, bytes of two bits.  The blocks have no byte, one,
  three and six, and begin at each offset that matters: inside a word, at a word,
  across the page, at and past the end of the flash.  The areas begin with a
  page and inside one, and have whole pages and one byte more.  A check of eleven
  bytes in chunks of five has chunks that begin and end inside words.  Three
  calls are an erasure and two writes over each other, with one power failure.
- Lifecycle: two handler threads, so that one of an earlier start meets one of a
  later start.  In a third start before one of them has left, `Connect` waits; in
  the code it would create a third thread, and the theorems cover any number.
  Two slots (4 in the code) hold a message and an EXIT, and are full with two
  messages.  `AuthAttempts` is the 3 of the code except in `life_end` (2).
  `MaxLost` is 1, and 0 in `life_end`, instead of 11.  `life_auto` has the
  manager alone.
- `rtc`: three answers under way, so that an answer to each of two earlier
  requests meets the third.  `slot_send`: two senders, a period of three frames
  each of which may be the slot, one change of the slot during a wait, any number of
  ends and starts.  `manager`: three frequencies, two
  subsystems, two strengths; six failures, past which the count alternates
  between odd and even.  `quick`: four commands and one lost network; one frequency has
  a network in both modes, the other in one, so that a wrong mode and a wrong
  frequency each lead to a network that answers.  `gpio`: a ring of three, two pins,
  four messages (once around and an overwriting), two commands; five messages, which
  take four minutes, give the same.
- The OTA runs end when `MaxEvents` is used up and the program is broken or
  idle, so they do not check for deadlock; all other runs do.

Fairness, and the hypotheses of the liveness properties:

- `GatewayOta`: a handler that has been put to sleep goes on, the periodic timer
  fires while it is on, and the wait of `end` is over when the task has left.
  `Upgraded` adds what it needs of the outside in `Repeating`: the user starts a
  service that is off; a service is again and again neither failed nor left with
  a stopped campaign (a stop keeps `upgrade_num`, so the device takes part in no
  campaign before a restart); and the gateway repeats its campaign so that each
  block is received again and again, however many are lost in between (strong
  fairness, since the terminal does not always listen).
- `GatewayLifecycle`: the delays and polls of `end` and the steps of a handler are
  taken, since waits for the queue have a timeout and sends are limited to 60 s.
  Nothing is assumed of start and end calls, of messages or of the radio.
- `AutoManager`: the manager goes on (`Proceed`), because each of its waits has a
  timeout.  That a network is lost is not assumed.
- `QuickConnect`: the thread runs, the delays of the AT server end, the stack
  synchronises with a network that is there, and a scan that is repeated finds
  it.  `Joins` and `Tuned` are stated for a stack that in the end synchronises
  before the next poll (`InTime`), and without connections by hand.  `Joins`
  supposes beside this that in the end the stack is not left `crossed`.
- `GpioStore`: the pulse timer runs off, its callback is called, an insertion, a
  report, a printing and a command go on (but not a report that fails its
  assertion), and the host asks after each pulse.

## Proofs

The theorems hold for all values of the constants that satisfy the named
assumptions; the bounds of the runs do not enter.  The inductive invariants were
checked with TLC before they were proved.

`GatewayOtaProofs` proves `TypeOK`, `MaskBacked`, `NeverBroken` and
`ReportedImageIntact` for every set of campaigns, every size of the partitions
and every limit, with ends that release under a busy handler and until a start
overtakes that handler (`Uncrossed`), from the assumptions of `GatewayOta`: numbers identify
campaigns, sizes are natural numbers, the marks for erased and garbage contents
are no blocks.  None of the properties is inductive.  That an image is intact at
the jump needs the request held by the sleeping task to be the one that was
verified (`ReqInv`, `JumpInv`).  That a mask bit is backed needs to know that a
campaign for the device begins with an empty mask: it begins only from
`upgrade_num = 0`, and `FreshMask` says that this number stands for an empty
mask, which `uc_gateway_clear_state` and the memset of a start establish and a
stop does not disturb, because it keeps the number with the mask.  `BeginInv`
carries this over the sleep before the erase.  That what is reported is intact
needs that nothing is reported as complete while a campaign is in DOWNLOAD and
writes flash (`DownloadInv`), also when the AT thread clears the report during a
sleep.  What the handler holds (`HeldInv`) is invariant without the condition; that
`crossed` stays (`CrossedStays`) makes the rest inductive under it.  `TypeStep`,
`RequestStep`, `HandlerStep`, `MissStep` and `OutsideStep`
prove the step for the groups of actions.

The second part of the module proves the refinement, `UpgradesAsPromised`, with
`CompleteInv` added to the invariant: `block_count` is that of the campaign in
DOWNLOAD, and the mask is complete when an image is verified and jumped to.
`RequestRefines`, `HandlerRefines` and `OutsideRefines` map every action to a
step of `OtaUpgrade` or a stutter, and `OvertakeRefines` the start that overtakes a
handler, and all that follows, to `Overtake`.

`OtaFlashProofs` proves `WrittenExactly` and `NeighboursKept` for every address,
length, content and flash.  The invariant `AsWritten` says of the whole flash
what `WrittenExactly` says of the block: what the turns have reached is the block
as far as the flash takes it, all else is as it was when the writing began.  The
step rests on arithmetic of words (`WordOfAddress`, `TurnLength`), on the
test of the end of the flash being exact (`NoWrap`), and on what one turn hands
to the device (`TurnByte`): a byte of the block in its place, and the byte that
was there elsewhere in the word.  It also proves `EraseCovers`, `EraseOnly` and
`ReadBack`, and `TypeOK`, with a fact that no run states (`WritesInside`): whatever
the address and the length of a block, if their sum does not wrap around no word
outside of the flash is programmed.  For the erasing and the reading the same is
proved (`AreasStayInside`) of areas that lie in the flash, which `FlashAssumption`
demands: neither function tests its arguments, the partitions are in the flash, and
`AT+GATEWAYEXMCU` takes any address.  For the erasing, `EraseInv` says that `index` counts the bytes up to
the next page and that all of them are erased, and `PageInv` that the page is a
multiple of 4096 and that only the first may begin before the area: the index
has then wrapped to a number beyond any length, which is why the size of the
flash and one page must stay below 2^w (`FlashAssumption`).  For the check,
`ReadInv` says that the digest and the chunk in the buffer are the flash from the
start address on, one after the other; the handler does nothing else meanwhile.

`GatewayLifecycleProofs` proves `TypeOK` and `ConnectedServed` for any number of
handlers, any queue length and any limits, with and without automatic
connection.  `ConnectedServed` needs that a handler never takes an EXIT while
the flag says connected, since it leaves without touching the flag then:
`ExitInv` says that an EXIT is in the queue only while an end runs, and
`FlagInv` that the flag is not CONNECT_SUCESS then.  `CountInv` and `LostInv`
keep the two counters in range.  The argument would fail if `end` left an EXIT
behind; it holds because `Release` empties the queue.  With automatic connection
it also proves `ReleaseWaits`: as long as no EXIT was refused, the marks that
`end` reads tell what the manager does (`MarksInv`: inside the handler
`exit_flag` is off and `gateway_task_run` on, but for a pass that a start
overtakes at its first step), and nobody gets past the conditions of the handler
between an end and the next start (`ClosedInv`).

Two more theorems of the module are what `EndReturns` and `HandlersLeave` need
beside fairness, in all settings.  `PollIsAnswered`: `wait_exit` never polls a flag
that nobody is left to set, because whoever has cleared `exit_flag` is still there
as long as nobody has set it (`ClearedInv`), and an EXIT that the queue took is not
lost, because no thread enters a handler after it was read (`ReadInv`,
`EndingInv`).  `OffMeansLeaving`: while `gateway_mode` is off every step of a handler
decreases the number of steps it has left, since `gateway_mq` and `allow_run_flag`
are off too and nobody waits for the queue (`OffInv`).

`RtcRequestProofs` proves `TypeOK` and `TimeGiven` for any number of answers and,
with automatic connection, `TimeInsideCommand`: whatever stands for an answer, a token or a handler past the
callback, was preceded by the callback (`GivenInv`), which needs the handler to
be outside the response when a request has just been sent (`SetupInv`).

`AutoManagerProofs` proves `TypeOK`, `StrongestFirst`, `ReaderMeetsWholeNodes` and
`ConnectsWhereHeard`: a node inserted at its place keeps the order
(`InsertSorted`), the nodes are the frequencies heard, each where it was last
heard (`HeardInv`), and no frequency is chosen while a scan inserts (`ScanInv`).

`QuickConnectProofs` proves `OnceAfterStop`: a thread that has connected after a
stop is on its way back to its test of `qc_auto_run`.  It also proves `TypeOK`,
`StopCloses` and `InitOnlyClosed`, which leave out connections by hand:
`ClosedInv` relates the stack to what the thread and the commands record of it, and
says that an open stack at the poll after a stop is that one late connection.

`GpioStoreProofs` proves `TypeOK`, `PulseEnds`, and `NotTwice` with and without
interruptions.  For the pulse, whatever runs between the parts of a report and of the
timer, `PulseKept` adds that a report that has found the timer keeps it, and that a
timer that is being deleted has no callback to come; both hold until `AT+PULSEWIDTH`
meets a pulse with another pin or a width of 0.  For the printing, a message is in one place, the callback, one slot or the output,
except in the slot that has just been printed and will be cleared next (`OnePlace`).
It also proves the refinement `RingIsLog` for a ring of any size.  `RingInv` says
that the slots that wait are those from the newest one backwards, without a gap
(`Contiguous`), and that the rest of the reader's round is no shorter than what waits:
without it, a message stored behind the reader would be printed before older ones,
or cleared unprinted.  From it `LogIs` obtains the log as a function of the number
of waiting slots, by a count of them (`WaitingCount`) and not by induction; one lemma
per action then gives its step of `MessageLog` or a stutter (`StepRefines`).  When the
threads interrupt each other, the ring is no log, and the map makes both sides empty.
`AnnouncementKept` is what `StoredIsRead` needs beside fairness: while a message
waits that was announced, the pulse is on, or over and unanswered, or the ring is
being shown.  It needs that an index of -1 stands for an empty ring (`EmptyInv`),
since `AT+STOREDATA` then shows nothing.

`TimeSlotProofs` proves `TypeOK` and, when every frame is reported (`EveryFrame`)
and the slot changes at most once during a wait (`Calm`), `SentInSlot` and
`LoneSenderServed`, for any number of senders, any period and any slots.
`FlagInv` counts the frames since the slot was last reported (`Since`): a flag
that is set belongs to a sender that waits and has at least the time-out less
these frames left, less one period more (`Lag`) if its slot has changed meanwhile,
so it meets a slot before it times out; this is what the two periods of the
time-out are for.  `TokenInv` says that a token is taken in the frame in which it
was released, since only a sender about to take can have missed the release, and
`LoneInv` that the flag of a sender is not cleared unless another one waited beside
it or the service ended.

Model-checked only: the liveness properties `TimerGoesOff`, `Upgraded`,
`EndReturns`, `HandlersLeave`, `KeepsTrying`, `Joins`, `Tuned` and `StoredIsRead`,
because fairness is outside the prover's reach.  Every other property of the passing
runs is also a theorem.  `WritesInside`, `AreasInside`, `PollAnswered`, `HandlersOnlyLeave` and
`NeverForgotten` are stated beside their proofs and are not in the configurations;
TLC finds no violation of them on the instances of the runs.

## Findings

- `ota_dl_state`: line 1052 of `uc_wiota_gateway_api.c` clears the upgrade after a
  failed md5 check and leaves `ota_dl_state` at 1, which then refuses campaigns
  for the external MCU.
- `life_restart`: line 2209 sets CONNECT_FAIL after `end` has set NO_CONNECT; the
  next start returns OTHER_FAIL.
- `life_auth`: line 1740 takes the last attempt for a failure whatever it
  returned.

What the models show beside these, where no text of the repository says
otherwise; the properties name each as a condition:

- Line 962 sets `ota_dev_type` for packets that do not concern the device.
- A stop of a campaign for the device keeps `upgrade_num`, and no campaign for it
  begins before a restart.
- When the queue is full, `end` waits 800 ms and then deletes the queue under a
  busy handler.  A start that comes before this handler is through zeroes
  `gateway_mode` (1698) under it: the handler then marks a block that the next
  campaign erases (1013), `MaskBacked` and `UpgradesAsPromised` fail, and the campaign
  never asks for that block.  The md5 check still keeps such an image from the boot
  loader.
- `end` clears `uc_wiota_gateway_exce_report` (2058) before it waits, and lines 998
  and 1033 call it without the test that the other calls have.
- RTC: a request whose send fails still returns 0; an answer that is handled
  before line 1916 has registered the callback is lost; a late answer satisfies the
  next request; a timeout inside a response has the handler call a callback that
  is no longer registered.
- Time slots: when a frame is not reported, or the slot changes twice during a wait,
  both properties fail, since a wait that times out can leave its flag to a later
  frame and a token to a later wait; `is_send_sleep` stays set
  after the command that set it.
- Auto manager: a frequency that is heard twice keeps its place with its new
  strength; `at_wiota_clean_freq_list` reads the link of a node it has freed; EXIT
  empties the list, so that the second frequency of a scan is never tried.
- Quick connect: a stack that is opened by hand, or that synchronises slowly,
  breaks `Joins` and `Tuned`.  A start between `uc_wiota_init` (353) and the line that
  records it (355) finds QC_EXIT and closes nothing; the thread goes on with the mode
  it scanned, and if there is a network of that mode on the new frequency it joins
  this one and never looks for the one that was asked for.  A refused `AT+WIOTAQC` has changed the
  frequency of a stack that is open, with the same result.  Lines 339-346 cannot be
  reached.
- Message store: the timer counts as inactive before its callback lowers the pin, so
  a message in between starts a pulse that the callback cuts short; the timer then
  runs with the pin low, and a message that is stored before it runs off is not announced
  before the next pulse (`StoredIsRead` is about messages that find the pin high or
  raise it).
- Message store: a writer that the reader interrupts may store at index -1; a width of 0 during a pulse leaves the pin high, and a new
  pin leaves the old one high; a message stored while there is no timer is not
  announced later.
- Flash: an area that begins inside a page has only its first page erased,
  although `AT+PARTITIONSIZE` works in units of 1024 bytes; an image read for the
  external MCU while a campaign begins is torn, also in the middle of a download
  when `AT+GATEWAYOTASTATE=1` has cleared what the reading tests.

## Not modelled

- Application coding encodes and decodes single messages without state;
  `GatewayOta` takes decoded messages.
- Of authentication, the time-slot broadcast and the frequency it
  brings; of the manager, suspend and resume and the failure of allocation; of the
  message store, the wake-out pulse; of the time slots, the paging period that
  `AT+GATEWAYSAS` computes.
- AT commands that set parameters, read statistics or start test modes are calls of
  the protocol stack.  Boot and factory commands, the simplified AT build and the
  demos parse and print.
- Drivers and board access registers; cJSON, cbor, fastlz, md5 and RT-Thread, by far
  the largest part of the tree, are third-party code; the protocol stack is a
  binary.
- Memory is not counted, so leaks of buffers on error paths are not seen, and
  `mask_map` has no width.
- Where two threads use freed memory the models have no step: what follows is
  undefined.
- Two handlers in an upgrade at once: after a start that overtakes a busy handler
  the new task waits for the old one in `GatewayOta`, where nothing is claimed any more.

## Extensions

What a further version would take up, in this order: the composition of
`RtcRequest` with the start and end of `GatewayLifecycle`; the time-slot broadcast
and the change of frequency in `GatewayLifecycle`; the width of `mask_map` for an
image of the external MCU.
