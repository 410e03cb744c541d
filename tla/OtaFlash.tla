------------------------------- MODULE OtaFlash -------------------------------
(***************************************************************************)
(* Access to the flash for an upgrade                                      *)
(* (applications/codec/coding/uc_ota_flash.c).  The handler of the gateway *)
(* erases the area of an image, writes the blocks that arrive and checks   *)
(* the whole; the AT server reads an image for the external MCU.  The      *)
(* device knows words of four bytes, most significant byte first, and      *)
(* pages; programming can only clear bits.                                 *)
(***************************************************************************)
EXTENDS Integers, Sequences

CONSTANTS
    Bits,               \* a byte is the set of its bits that are 1
    Sector,             \* bytes of a page: 4096
    FlashSize,          \* FLASH_SECTOR_SIZE * FLASH_PAGE_SIZE
    Mod,                \* unsigned int has the values 0 .. Mod - 1
    Chunk,              \* bytes that are read at a time: 512
    Contents,           \* what the flash may hold at first
    EraseAreas,         \* <<address, length>> of the images
    ReadAreas,          \* <<address, length>> that are read or checked
    Starts, Payloads,   \* addresses and contents of the blocks
    MaxCalls,           \* bound: calls to erase and to write
    MaxFailures         \* bound: power failures

Bytes == SUBSET Bits

Addresses == 0 .. FlashSize - 1

ASSUME FlashAssumption ==
    /\ {Sector, FlashSize, Mod, Chunk} \subseteq Nat \ {0}
    /\ {MaxCalls, MaxFailures} \subseteq Nat
    /\ FlashSize % 4 = 0 /\ FlashSize + Sector < Mod
    /\ Contents \subseteq [Addresses -> Bytes]
    /\ EraseAreas \cup ReadAreas \subseteq Nat \X Nat
    /\ \A area \in EraseAreas \cup ReadAreas : area[1] + area[2] <= FlashSize
    /\ Starts \subseteq Nat /\ Payloads \subseteq Seq(Bytes)
    /\ \A a \in Starts, data \in Payloads : a + Len(data) < Mod

VARIABLES
    flash,              \* the device
    op,                 \* the handler: "idle", "erase", "erased" or "write"
    start, length,      \* arguments of the erasure or of the writing
    data,               \* data_buf
    index,              \* index of ota_flash_write, size of the erasure
    page,               \* erase_addr
    before,             \* history: the flash when the writing began
    downloading,        \* ota_state is GATEWAY_OTA_DOWNLOAD
    ota_dl_state,       \* 0 default, 1 downloading, 2 download completed
    reading,            \* "no", "mcu" or "check"
    from, want,         \* arguments of the reading
    digest,             \* what the MD5 context has been given
    chunk,              \* buffer, as far as it has been read
    disturbed,          \* history: the flash has changed during the reading
    calls, failures

call == <<start, length, data, index, page>>
handler == <<op, call>>
request == <<reading, from, want>>
reader == <<request, digest, chunk>>
states == <<downloading, ota_dl_state>>
bounds == <<calls, failures>>
vars == <<flash, handler, before, states, reader, disturbed, bounds>>

TypeOK ==
    /\ flash \in [Addresses -> Bytes] /\ before \in [Addresses -> Bytes]
    /\ op \in {"idle", "erase", "erased", "write"}
    /\ start \in Nat /\ length \in Nat
    /\ data \in Seq(Bytes) /\ (op = "write" => length = Len(data))
    /\ index \in Nat /\ page \in 0 .. FlashSize + Sector
    /\ op = "write" => 0 < length /\ index <= length /\ start + length <= FlashSize
    /\ downloading \in {"yes", "no"} /\ ota_dl_state \in 0 .. 2
    /\ reading \in {"no", "mcu", "check"}
    /\ from \in Nat /\ want \in Nat /\ from + want <= FlashSize
    /\ digest \in Seq(Bytes) /\ chunk \in Seq(Bytes)
    /\ Len(digest) + Len(chunk) <= want
    /\ disturbed \in {"yes", "no"}
    /\ calls \in 0 .. MaxCalls /\ failures \in 0 .. MaxFailures

Init ==
    /\ flash \in Contents
    /\ op = "idle" /\ start = 0 /\ length = 0 /\ data = <<>>
    /\ index = 0 /\ page = 0 /\ before = flash
    /\ downloading = "no" /\ ota_dl_state = 0
    /\ reading = "no" /\ from = 0 /\ want = 0 /\ digest = <<>> /\ chunk = <<>>
    /\ disturbed = "no"
    /\ calls = 0 /\ failures = 0

-----------------------------------------------------------------------------
(* The device.                                                             *)

\* Byte k of the buffer of a word is byte 3 - k of the flash.
DeviceRead(word) == [k \in 0 .. 3 |-> flash[word + (3 - k)]]

Programmed(word, bytes) ==
    [a \in Addresses |->
        IF a \in word .. word + 3 THEN flash[a] \cap bytes[3 - (a - word)] ELSE flash[a]]

Erased(p) == [a \in Addresses |-> IF a \in p .. p + Sector - 1 THEN Bits ELSE flash[a]]

-----------------------------------------------------------------------------
(* One turn of the loops of reading and writing: the word, where in it the *)
(* turn begins, and how many bytes of n it moves when done have been.      *)

BSWAP_32(bytes) == [k \in 0 .. 3 |-> bytes[3 - k]]

WordOf(a) == (a \div 4) * 4

OffsetOf(a) == a % 4

OrderLen(a, done, n) ==
    IF done + 4 - OffsetOf(a) > n THEN n - done ELSE 4 - OffsetOf(a)

(* Mutant of OnlyPart: a last word that is not full overwrites what follows. *)
OnlyEnd(offset, len) == offset > 0

\* A word that is written in part is read before.
OnlyPart(offset, len) == offset > 0 \/ len < 4

(* Mutant of BlockByte: every word gets the begin of the block.            *)
FirstBytes(i) == data[i + 1]

BlockByte(i) == data[index + i + 1]

\* write_data, in the order of the flash.
NewWord(a, offset, len) ==
    [k \in 0 .. 3 |->
        IF k \in offset .. offset + len - 1 THEN BlockByte(k - offset)
        ELSE IF OnlyPart(offset, len) THEN BSWAP_32(DeviceRead(WordOf(a)))[k] ELSE {}]

-----------------------------------------------------------------------------
(* The handler.  Interrupts are disabled while it erases or writes.        *)

Handler ==
    /\ op = "idle" /\ reading # "check"
    /\ calls < MaxCalls
    /\ calls' = calls + 1

BeginErase(a, n) ==
    /\ Handler
    /\ downloading = "no"
    /\ op' = "erase"
    /\ start' = a /\ length' = n
    /\ page' = (a \div Sector) * Sector
    /\ index' = 0
    /\ UNCHANGED <<flash, data, before, states, reader, disturbed, failures>>

ErasePage ==
    /\ flash' = Erased(page)
    /\ page' = page + Sector
    /\ disturbed' = IF reading = "no" THEN disturbed ELSE "yes"
    /\ UNCHANGED <<op, start, length, data, before, states, reader, bounds>>

Unsigned(x) == IF x < 0 THEN x + Mod ELSE x

(* Mutant of Unaligned: a page at whose begin the area starts counts too.  *)
NotAfter == length > 0 /\ page <= start

\* The page in which the area starts, when it starts inside a page.
Unaligned == length > 0 /\ page < start

\* The difference is negative and wraps around: no other page is erased.
EraseFirst ==
    /\ op = "erase" /\ Unaligned
    /\ index' = Unsigned(start - (page + Sector))
    /\ ErasePage

(* Mutant of MoreToErase: one page too many for an area of whole pages.    *)
OneMore == length > 0 /\ index <= length

MoreToErase == index < length

EraseNext ==
    /\ op = "erase" /\ ~Unaligned /\ MoreToErase
    /\ index' = index + Sector
    /\ ErasePage

EndErase ==
    /\ op = "erase" /\ ~Unaligned /\ ~MoreToErase
    /\ op' = "erased"
    /\ UNCHANGED <<flash, call, before, states, reader, disturbed, bounds>>

\* The caller sets ota_state and ota_dl_state only now.
StartDownload ==
    /\ op = "erased"
    /\ op' = "idle"
    /\ downloading' = "yes" /\ ota_dl_state' = 1
    /\ UNCHANGED <<flash, call, before, reader, disturbed, bounds>>

(* Mutant of Fits: only the begin of the block is compared with the end.   *)
BeginFits(a, n) == n >= 1 /\ a < FlashSize

Fits(a, n) == n >= 1 /\ (a + n) % Mod <= FlashSize

BeginWrite(a, bytes) ==
    /\ Handler
    /\ downloading = "yes"
    /\ Fits(a, Len(bytes))
    /\ op' = "write"
    /\ start' = a /\ length' = Len(bytes) /\ data' = bytes
    /\ index' = 0
    /\ before' = flash
    /\ UNCHANGED <<flash, page, states, reader, disturbed, failures>>

\* What one turn writes: the word and its new bytes, as the device gets them.
Here == start + index

TurnLen == OrderLen(Here, index, length)

Turn == BSWAP_32(NewWord(Here, OffsetOf(Here), TurnLen))

WriteWord ==
    /\ op = "write" /\ index < length
    /\ flash' = Programmed(WordOf(Here), Turn)
    /\ index' = index + TurnLen
    /\ disturbed' = IF reading = "no" THEN disturbed ELSE "yes"
    /\ UNCHANGED <<op, start, length, data, page, before, states, reader, bounds>>

EndWrite ==
    /\ op = "write" /\ index >= length
    /\ op' = "idle"
    /\ UNCHANGED <<flash, call, before, states, reader, disturbed, bounds>>

\* The upgrade is stopped, or its time is over; ota_dl_state stays 1.
GiveUp ==
    /\ op = "idle" /\ reading # "check" /\ downloading = "yes"
    /\ downloading' = "no"
    /\ UNCHANGED <<flash, handler, before, ota_dl_state, reader, disturbed, bounds>>

-----------------------------------------------------------------------------
(* Reading: the handler checks an image, the AT server reads one.  The     *)
(* reading is not protected against the handler.                           *)

ReaderRuns == op \in {"idle", "erased"}

BeginRead(a, n) ==
    /\ reading = "no"
    /\ from' = a /\ want' = n
    /\ digest' = <<>> /\ chunk' = <<>>
    /\ disturbed' = "no"
    /\ UNCHANGED <<flash, handler, before, states, bounds>>

\* AT+GATEWAYOTASTATE=1, in the middle of a download too.
ClearOtaState ==
    /\ ReaderRuns /\ reading # "mcu"
    /\ ota_dl_state' = 0
    /\ UNCHANGED <<flash, handler, before, downloading, reader, disturbed, bounds>>

\* AT+GATEWAYEXMCU refuses more than the buffer holds, and what counts as a
\* download.
ReadImage(a, n) ==
    /\ ReaderRuns
    /\ n <= Chunk /\ ota_dl_state # 1
    /\ reading' = "mcu"
    /\ BeginRead(a, n)

CheckImage(a, n) ==
    /\ op = "idle"
    /\ downloading = "yes"
    /\ reading' = "check"
    /\ BeginRead(a, n)

(* Mutant of ChunkStart: every chunk is read from the start of the image.  *)
FirstChunk == from

ChunkStart == from + Len(digest)

ChunkLen ==
    IF reading = "check" /\ Len(digest) + Chunk <= want THEN Chunk ELSE want - Len(digest)

ReadWord ==
    LET done == Len(chunk)
        a == ChunkStart + done
        bytes == BSWAP_32(DeviceRead(WordOf(a)))
    IN  /\ ReaderRuns /\ reading # "no" /\ done < ChunkLen
        /\ chunk' = chunk \o [k \in 1 .. OrderLen(a, done, ChunkLen) |->
                                bytes[OffsetOf(a) + k - 1]]
        /\ UNCHANGED <<flash, handler, before, states, request, digest, disturbed, bounds>>

NextChunk ==
    /\ reading = "check" /\ Len(digest) < want /\ Len(chunk) = ChunkLen
    /\ digest' = digest \o chunk
    /\ chunk' = <<>>
    /\ UNCHANGED <<flash, handler, before, states, request, disturbed, bounds>>

\* Whatever the check says, the download is over; a failed check leaves
\* ota_dl_state as it is.
EndRead ==
    /\ ReaderRuns
    /\ \/ reading = "check" /\ Len(digest) = want
       \/ reading = "mcu" /\ Len(chunk) = want
    /\ IF reading = "check"
       THEN downloading' = "no" /\ ota_dl_state' \in {2, ota_dl_state}
       ELSE UNCHANGED states
    /\ reading' = "no" /\ want' = 0 /\ from' = 0 /\ digest' = <<>> /\ chunk' = <<>>
    /\ UNCHANGED <<flash, handler, before, disturbed, bounds>>

-----------------------------------------------------------------------------
\* The word or the page in progress is left with some of its bits changed.
Interrupted ==
    \E bits \in Bytes :
        flash' = CASE op = "write" /\ index < length ->
                        Programmed(WordOf(Here), [k \in 0 .. 3 |-> Turn[k] \cup bits])
                   [] op = "erase" /\ (Unaligned \/ MoreToErase) ->
                        [a \in Addresses |-> flash[a] \cup (Erased(page)[a] \cap bits)]
                   [] OTHER -> flash

PowerFailure ==
    /\ failures < MaxFailures
    /\ failures' = failures + 1
    /\ Interrupted
    /\ op' = "idle" /\ reading' = "no"
    /\ downloading' = "no" /\ ota_dl_state' = 0
    /\ want' = 0 /\ from' = 0 /\ digest' = <<>> /\ chunk' = <<>>
    /\ UNCHANGED <<call, before, disturbed, calls>>

Erasing == EraseFirst \/ EraseNext \/ EndErase \/ StartDownload

Writing == WriteWord \/ EndWrite

Reading == ReadWord \/ NextChunk \/ EndRead

Next ==
    \/ \E area \in EraseAreas : BeginErase(area[1], area[2])
    \/ \E a \in Starts, bytes \in Payloads : BeginWrite(a, bytes)
    \/ \E area \in ReadAreas : ReadImage(area[1], area[2]) \/ CheckImage(area[1], area[2])
    \/ Erasing \/ Writing \/ Reading \/ GiveUp \/ ClearOtaState \/ PowerFailure

Spec == Init /\ [][Next]_vars

-----------------------------------------------------------------------------
(* Properties.                                                             *)

(* A block is written where it belongs, at any address and of any length:  *)
(* what has been written so far is the block, minus the bits that the      *)
(* place had already lost (ota_flash_write).                               *)
WrittenExactly ==
    op = "write" =>
        \A i \in 0 .. index - 1 : flash[start + i] = before[start + i] \cap data[i + 1]

(* The words at the ends of a block hold bytes of its neighbours: writing  *)
(* does not change them, even if the power fails (ota_flash_write).        *)
NeighboursKept ==
    [][\A a \in Addresses :
          op = "write" /\ a \notin start .. start + length - 1 => flash'[a] = flash[a]]_flash

(* An area that starts with a page is empty when the erasure is over       *)
(* (uc_wiota_ota_flash_erase).                                             *)
EraseCovers ==
    op = "erased" /\ start % Sector = 0 =>
        \A a \in start .. start + length - 1 : flash[a] = Bits

(* Only pages that hold bytes of the area are erased, however it starts.   *)
EraseOnly ==
    [][\A a \in Addresses :
          op = "erase" /\ flash'[a] # flash[a] =>
              \E b \in start .. start + length - 1 : a \div Sector = b \div Sector]_flash

(* What has been read is what the flash held, byte for byte across words   *)
(* and chunks, unless the handler changed the flash meanwhile; it does not *)
(* while it makes the digest of an image (uc_wiota_ota_flash_read,         *)
(* uc_wiota_ota_check_flash_data).                                         *)
ReadBack ==
    /\ reading = "check" => disturbed = "no"
    /\ disturbed = "no" =>
          \A k \in 1 .. Len(digest \o chunk) : (digest \o chunk)[k] = flash[from + (k - 1)]

===============================================================================
