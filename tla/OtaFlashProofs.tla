--------------------------- MODULE OtaFlashProofs ---------------------------
(***************************************************************************)
(* Proofs about OtaFlash: for every address and length of a block, every   *)
(* size of the flash and every history, a block is written exactly where   *)
(* it belongs.  The inductive invariant says of the whole flash what       *)
(* WrittenExactly says of the block: what the turns have reached is the    *)
(* block, everything else is as it was when the writing began.  An         *)
(* erasure covers its area and spares what it must, a check digests what   *)
(* the flash holds, and no loop leaves the flash.                          *)
(***************************************************************************)
EXTENDS OtaFlash, SequenceTheorems, TLAPS

\* The handler's arguments describe a block that fits into the flash.
BlockFits ==
    /\ data \in Seq(Bytes)
    /\ op = "write" =>
        /\ start \in Nat /\ length \in Nat /\ length = Len(data)
        /\ index \in 0 .. length
        /\ start + length <= FlashSize

FlashType == flash \in [Addresses -> Bytes] /\ before \in [Addresses -> Bytes]

Reached == start .. start + index - 1

\* The byte of the block whose place is a.
Due(a) == data[a - start + 1]

\* The flash, given what it held when the writing began.
AsWritten ==
    op = "write" =>
        \A a \in Addresses :
            flash[a] = IF a \in Reached THEN before[a] \cap Due(a) ELSE before[a]

IInv == FlashType /\ BlockFits /\ AsWritten

-----------------------------------------------------------------------------
(* Arithmetic of words, and of unsigned int.                               *)

LEMMA SizeType == FlashSize \in Nat
BY FlashAssumption

LEMMA ChunkType == Chunk \in Nat
BY FlashAssumption

LEMMA PageType == Sector \in Nat /\ Sector > 0 /\ Mod \in Nat
BY FlashAssumption

LEMMA WordOfAddress ==
    ASSUME NEW a \in Nat
    PROVE  /\ OffsetOf(a) \in 0 .. 3 /\ WordOf(a) \in Nat
           /\ WordOf(a) = a - OffsetOf(a)
           /\ a < FlashSize => WordOf(a) + 3 < FlashSize
BY FlashAssumption, SMT DEF OffsetOf, WordOf

LEMMA NoWrap ==
    ASSUME NEW x \in Nat, x < Mod
    PROVE  x % Mod = x
BY PageType, SMT

LEMMA TurnLength ==
    ASSUME BlockFits, op = "write", index < length
    PROVE  /\ Here \in Nat /\ Here < FlashSize
           /\ TurnLen \in 1 .. 4 - OffsetOf(Here)
           /\ index + TurnLen <= length
<1>1. /\ start \in Nat /\ length \in Nat /\ index \in Nat
      /\ start + length <= FlashSize
  BY DEF BlockFits
<1>2. Here \in Nat /\ Here < FlashSize
  BY <1>1, SizeType DEF Here
<1>3. OffsetOf(Here) \in 0 .. 3
  BY <1>2, WordOfAddress
<1>4. TurnLen = IF index + 4 - OffsetOf(Here) > length THEN length - index
                                                       ELSE 4 - OffsetOf(Here)
  BY DEF TurnLen, OrderLen
<1> QED BY <1>1, <1>2, <1>3, <1>4

-----------------------------------------------------------------------------
(* One turn of the loop.                                                   *)

\* The bytes of the block that a turn writes.
InTurn(a) == a \in Here .. Here + TurnLen - 1

\* Byte k of the word in progress, as the device gets it.
LEMMA TurnByte ==
    ASSUME FlashType, BlockFits, op = "write", index < length, NEW k \in 0 .. 3
    PROVE  /\ WordOf(Here) + k \in Addresses
           /\ Turn[3 - k] = IF InTurn(WordOf(Here) + k)
                            THEN Due(WordOf(Here) + k)
                            ELSE flash[WordOf(Here) + k]
<1> DEFINE w == WordOf(Here)
           o == OffsetOf(Here)
           n == TurnLen
<1>1. /\ Here \in Nat /\ Here < FlashSize
      /\ n \in 1 .. 4 - o
      /\ index + n <= length
  BY TurnLength
<1>2. o \in 0 .. 3 /\ w \in Nat /\ w = Here - o /\ w + 3 < FlashSize
  BY <1>1, WordOfAddress
<1>3. w + k \in Addresses
  BY <1>2, SizeType DEF Addresses
<1>4. Turn[3 - k] = NewWord(Here, o, n)[k]
  BY SMT DEF Turn, BSWAP_32
<1>5. InTurn(w + k) <=> k \in o .. o + n - 1
  BY <1>1, <1>2 DEF InTurn
<1>6. CASE InTurn(w + k)
  <2>1. NewWord(Here, o, n)[k] = BlockByte(k - o)
    BY <1>5, <1>6 DEF NewWord
  <2>2. index + (k - o) + 1 = (w + k) - start + 1
    <3>1. start \in Nat /\ index \in Nat /\ Here = start + index
      BY DEF BlockFits, Here
    <3> HIDE DEF w, o, n
    <3> QED BY <1>2, <3>1
  <2>3. BlockByte(k - o) = Due(w + k)
    <3> HIDE DEF w, o, n
    <3>1. BlockByte(k - o) = data[index + (k - o) + 1]
      BY DEF BlockByte
    <3>2. Due(w + k) = data[(w + k) - start + 1]
      BY Zenon DEF Due
    <3> QED BY <2>2, <3>1, <3>2, Zenon
  <2>4. Turn[3 - k] = Due(w + k)
    BY <1>4, <2>1, <2>3
  <2> HIDE DEF w, o, n
  <2>5. Turn[3 - k] = IF InTurn(w + k) THEN Due(w + k) ELSE flash[w + k]
    BY <1>6, <2>4, Zenon
  <2> QED BY <1>3, <2>5 DEF w
<1>7. CASE ~InTurn(w + k)
  <2>1. OnlyPart(o, n)
    BY <1>1, <1>2, <1>5, <1>7 DEF OnlyPart
  <2>2. NewWord(Here, o, n)[k] = BSWAP_32(DeviceRead(w))[k]
    BY <1>5, <1>7, <2>1 DEF NewWord
  <2>3. BSWAP_32(DeviceRead(w))[k] = flash[w + k]
    <3>1. BSWAP_32(DeviceRead(w))[k] = DeviceRead(w)[3 - k]
      BY SMT DEF BSWAP_32
    <3>2. DeviceRead(w)[3 - k] = flash[w + (3 - (3 - k))]
      BY SMT DEF DeviceRead
    <3>3. w + (3 - (3 - k)) = w + k
      BY <1>2
    <3> QED BY <3>1, <3>2, <3>3
  <2> QED BY <1>3, <1>4, <1>7, <2>2, <2>3
<1> QED BY <1>6, <1>7

LEMMA TurnByteOf ==
    ASSUME FlashType, BlockFits, op = "write", index < length,
           NEW a \in WordOf(Here) .. WordOf(Here) + 3
    PROVE  /\ a - WordOf(Here) \in 0 .. 3
           /\ Turn[3 - (a - WordOf(Here))] = IF InTurn(a) THEN Due(a) ELSE flash[a]
<1> DEFINE k == a - WordOf(Here)
<1>1. WordOf(Here) \in Nat
  BY TurnLength, WordOfAddress
<1>2. k \in 0 .. 3 /\ WordOf(Here) + k = a
  BY <1>1
<1> HIDE DEF k
<1>3. Turn[3 - k] = IF InTurn(a) THEN Due(a) ELSE flash[a]
  BY <1>2, TurnByte
<1> QED BY <1>2, <1>3 DEF k

\* A turn, whole or interrupted, changes bytes of the block only.
LEMMA OnlyTheTurn ==
    ASSUME FlashType, BlockFits, op = "write", index < length,
           NEW bits \in Bytes,
           flash' = Programmed(WordOf(Here), [k \in 0 .. 3 |-> Turn[k] \cup bits]),
           NEW a \in Addresses, ~InTurn(a)
    PROVE  flash'[a] = flash[a]
<1> DEFINE w == WordOf(Here)
           New == [k \in 0 .. 3 |-> Turn[k] \cup bits]
<1>1. w \in Nat /\ a \in Nat
  BY TurnLength, WordOfAddress DEF Addresses
<1>2. CASE a \in w .. w + 3
  <2>1. a - w \in 0 .. 3 /\ Turn[3 - (a - w)] = flash[a]
    BY <1>2, TurnByteOf
  <2>2. 3 - (a - w) \in 0 .. 3
    BY <1>1, <2>1
  <2>4. New[3 - (a - w)] = flash[a] \cup bits
    BY <2>1, <2>2
  <2>5. flash'[a] = flash[a] \cap New[3 - (a - w)]
    BY <1>2 DEF Programmed
  <2>6. flash'[a] = flash[a] \cap (flash[a] \cup bits)
    BY <2>4, <2>5
  <2> QED BY <2>6, Zenon
<1>3. CASE a \notin w .. w + 3
  BY <1>3 DEF Programmed
<1> QED BY <1>2, <1>3

LEMMA TheTurn ==
    ASSUME FlashType, BlockFits, op = "write", index < length,
           flash' = Programmed(WordOf(Here), Turn),
           NEW a \in Addresses
    PROVE  flash'[a] = IF InTurn(a) THEN flash[a] \cap Due(a) ELSE flash[a]
<1> DEFINE w == WordOf(Here)
<1>1. w \in Nat /\ a \in Nat
  BY TurnLength, WordOfAddress DEF Addresses
<1>2. CASE a \in w .. w + 3
  <2>1. Turn[3 - (a - w)] = IF InTurn(a) THEN Due(a) ELSE flash[a]
    BY <1>2, TurnByteOf
  <2>2. flash'[a] = flash[a] \cap Turn[3 - (a - w)]
    BY <1>2 DEF Programmed
  <2>3. flash[a] \cap flash[a] = flash[a]
    OBVIOUS
  <2> QED BY <2>1, <2>2, <2>3, Zenon
<1>3. CASE a \notin w .. w + 3
  <2>1. ~InTurn(a)
    BY <1>1, <1>3, TurnLength, WordOfAddress DEF InTurn
  <2> QED BY <1>3, <2>1 DEF Programmed
<1> QED BY <1>2, <1>3

-----------------------------------------------------------------------------
(* The steps.                                                              *)

LEMMA InitIInv == Init => IInv
BY FlashAssumption DEF Init, IInv, FlashType, BlockFits, AsWritten

\* Steps that leave the flash and the block alone.
LEMMA OtherSteps ==
    ASSUME IInv, UNCHANGED <<flash, before, data>>,
           op' # "write" \/ UNCHANGED <<op, start, length, index>>
    PROVE  IInv'
BY DEF IInv, FlashType, BlockFits, AsWritten, Reached, Due

LEMMA BeginWriteStep ==
    ASSUME IInv, NEW a \in Starts, NEW bytes \in Payloads, BeginWrite(a, bytes)
    PROVE  IInv'
<1>1. a \in Nat /\ bytes \in Seq(Bytes) /\ Len(bytes) \in Nat /\ a + Len(bytes) < Mod
  BY FlashAssumption
<1>2. Len(bytes) >= 1 /\ a + Len(bytes) <= FlashSize
  BY <1>1, NoWrap DEF BeginWrite, Fits
<1>3. FlashType'
  BY DEF IInv, FlashType, BeginWrite
<1>4. BlockFits'
  BY <1>1, <1>2 DEF BlockFits, BeginWrite
<1>5. AsWritten'
  <2>1. Reached' = {}
    BY <1>1 DEF Reached, BeginWrite
  <2> QED BY <2>1 DEF AsWritten, BeginWrite
<1> QED BY <1>3, <1>4, <1>5 DEF IInv

LEMMA WriteWordStep ==
    ASSUME IInv, WriteWord
    PROVE  IInv'
<1>1. FlashType /\ BlockFits /\ op = "write" /\ index < length
  BY DEF IInv, WriteWord
<1>2. /\ Here \in Nat /\ OffsetOf(Here) \in 0 .. 3
      /\ TurnLen \in 1 .. 4 - OffsetOf(Here) /\ index + TurnLen <= length
  BY <1>1, TurnLength, WordOfAddress
<1>3. \A a \in Addresses :
        flash'[a] = IF InTurn(a) THEN flash[a] \cap Due(a) ELSE flash[a]
  BY <1>1, TheTurn DEF WriteWord
<1>4. BlockFits'
  BY <1>1, <1>2 DEF BlockFits, WriteWord
<1>5. FlashType'
  <2>1. flash' = [a \in Addresses |-> flash'[a]]
    BY DEF WriteWord, Programmed
  <2>2. \A a \in Addresses : flash'[a] \subseteq flash[a]
    BY <1>3
  <2>3. \A a \in Addresses : flash'[a] \in Bytes
    BY <1>1, <2>2 DEF FlashType, Bytes
  <2> QED BY <1>1, <2>1, <2>3 DEF FlashType, WriteWord
<1>6. AsWritten'
  <2> SUFFICES ASSUME NEW a \in Addresses
               PROVE  flash'[a] = IF a \in Reached' THEN before[a] \cap Due(a)
                                                     ELSE before[a]
    BY DEF AsWritten, WriteWord, Due
  <2>1. flash[a] = IF a \in Reached THEN before[a] \cap Due(a) ELSE before[a]
    BY <1>1 DEF IInv, AsWritten
  <2>2. /\ a \in Reached' <=> a \in Reached \/ InTurn(a)
        /\ InTurn(a) => a \notin Reached
    <3>1. /\ a \in Nat /\ start \in Nat /\ index \in Nat /\ TurnLen \in Nat
          /\ Here = start + index
      BY <1>1, <1>2 DEF BlockFits, Addresses, Here
    <3>2. Reached' = start .. start + (index + TurnLen) - 1
      BY DEF Reached, WriteWord
    <3>3. a \in Reached <=> start <= a /\ a < start + index
      BY <3>1 DEF Reached
    <3>4. a \in Reached' <=> start <= a /\ a < start + index + TurnLen
      BY <3>1, <3>2
    <3>5. InTurn(a) <=> start + index <= a /\ a < start + index + TurnLen
      BY <3>1 DEF InTurn
    <3> QED BY <3>1, <3>3, <3>4, <3>5
  <2> QED BY <1>3, <2>1, <2>2
<1> QED BY <1>4, <1>5, <1>6 DEF IInv

\* Whatever is changed, a byte of the flash stays a byte.
LEMMA ByteKept ==
    ASSUME FlashType, NEW a \in Addresses, NEW b
    PROVE  flash[a] \cap b \in Bytes
BY DEF FlashType, Bytes

LEMMA ProgrammedType ==
    ASSUME FlashType, NEW word, NEW bytes
    PROVE  Programmed(word, bytes) \in [Addresses -> Bytes]
<1> DEFINE P(a) == IF a \in word .. word + 3 THEN flash[a] \cap bytes[3 - (a - word)] ELSE flash[a]
<1>1. ASSUME NEW a \in Addresses PROVE P(a) \in Bytes
  <2>1. CASE a \in word .. word + 3
    BY <2>1, ByteKept
  <2>2. CASE a \notin word .. word + 3
    BY <2>2 DEF FlashType
  <2> QED BY <2>1, <2>2
<1> HIDE DEF P
<1>2. [a \in Addresses |-> P(a)] \in [Addresses -> Bytes]
  BY <1>1
<1> QED BY <1>2 DEF Programmed, P

LEMMA ErasedType ==
    ASSUME FlashType, NEW p
    PROVE  Erased(p) \in [Addresses -> Bytes]
BY DEF FlashType, Erased, Bytes

LEMMA EraseStep ==
    ASSUME IInv, op = "erase", ErasePage
    PROVE  IInv'
BY ErasedType DEF IInv, ErasePage, FlashType, BlockFits, AsWritten

LEMMA InterruptedType ==
    ASSUME FlashType, Interrupted
    PROVE  flash' \in [Addresses -> Bytes]
<1>1. PICK bits \in Bytes :
        flash' = CASE op = "write" /\ index < length ->
                        Programmed(WordOf(Here), [k \in 0 .. 3 |-> Turn[k] \cup bits])
                   [] op = "erase" /\ (Unaligned \/ MoreToErase) ->
                        [a \in Addresses |-> flash[a] \cup (Erased(page)[a] \cap bits)]
                   [] OTHER -> flash
  BY DEF Interrupted
<1>2. Programmed(WordOf(Here), [k \in 0 .. 3 |-> Turn[k] \cup bits]) \in [Addresses -> Bytes]
  BY ProgrammedType
<1>3. [a \in Addresses |-> flash[a] \cup (Erased(page)[a] \cap bits)] \in [Addresses -> Bytes]
  <2>1. \A a \in Addresses : flash[a] \in Bytes /\ Erased(page)[a] \in Bytes
    BY ErasedType DEF FlashType
  <2>2. \A a \in Addresses : flash[a] \cup (Erased(page)[a] \cap bits) \in Bytes
    BY <2>1 DEF Bytes
  <2> QED BY <2>2
<1>4. flash \in [Addresses -> Bytes]
  BY DEF FlashType
<1>5. CASE op = "write" /\ index < length
  BY <1>1, <1>2, <1>5
<1>6. CASE op = "erase" /\ (Unaligned \/ MoreToErase)
  BY <1>1, <1>3, <1>6
<1>7. CASE ~(op = "write" /\ index < length) /\ ~(op = "erase" /\ (Unaligned \/ MoreToErase))
  BY <1>1, <1>4, <1>7
<1> QED BY <1>5, <1>6, <1>7

LEMMA PowerFailureStep ==
    ASSUME IInv, PowerFailure
    PROVE  IInv'
<1>1. flash' \in [Addresses -> Bytes]
  BY InterruptedType DEF IInv, PowerFailure
<1>2. op' = "idle" /\ UNCHANGED <<data, before>>
  BY DEF PowerFailure, call
<1> QED BY <1>1, <1>2 DEF IInv, FlashType, BlockFits, AsWritten

-----------------------------------------------------------------------------
LEMMA Invariance == Spec => []IInv
<1>1. IInv /\ [Next]_vars => IInv'
  <2> SUFFICES ASSUME IInv, [Next]_vars PROVE IInv'
    OBVIOUS
  <2> USE DEF handler, call, reader, request, bounds
  <2>1. ASSUME NEW area \in EraseAreas, BeginErase(area[1], area[2]) PROVE IInv'
    BY <2>1, OtherSteps DEF BeginErase, Handler
  <2>2. ASSUME NEW a \in Starts, NEW bytes \in Payloads, BeginWrite(a, bytes) PROVE IInv'
    BY <2>2, BeginWriteStep
  <2>3. ASSUME NEW area \in ReadAreas, ReadImage(area[1], area[2]) PROVE IInv'
    BY <2>3, OtherSteps DEF ReadImage, BeginRead
  <2>4. ASSUME NEW area \in ReadAreas, CheckImage(area[1], area[2]) PROVE IInv'
    BY <2>4, OtherSteps DEF CheckImage, BeginRead
  <2>5. CASE EraseFirst
    BY <2>5, EraseStep DEF EraseFirst
  <2>6. CASE EraseNext
    BY <2>6, EraseStep DEF EraseNext
  <2>7. CASE EndErase \/ StartDownload \/ EndWrite \/ GiveUp \/ ClearOtaState
    BY <2>7, OtherSteps DEF EndErase, StartDownload, EndWrite, GiveUp, ClearOtaState
  <2>8. CASE WriteWord
    BY <2>8, WriteWordStep
  <2>9. CASE ReadWord
    BY <2>9, OtherSteps DEF ReadWord
  <2>10. CASE NextChunk \/ EndRead
    BY <2>10, OtherSteps DEF NextChunk, EndRead
  <2>11. CASE PowerFailure
    BY <2>11, PowerFailureStep
  <2>12. CASE UNCHANGED vars
    BY <2>12, OtherSteps DEF vars
  <2> QED
    BY <2>1, <2>2, <2>3, <2>4, <2>5, <2>6, <2>7, <2>8, <2>9, <2>10, <2>11, <2>12
    DEF Next, Erasing, Writing, Reading
<1> QED BY InitIInv, <1>1, PTL DEF Spec

(* Whatever its address and its length, a block is written as it was given *)
(* (ota_flash_write).                                                      *)
THEOREM BlockWritten == Spec => []WrittenExactly
<1>1. IInv => WrittenExactly
  <2> SUFFICES ASSUME IInv, op = "write", NEW i \in 0 .. index - 1
               PROVE  flash[start + i] = before[start + i] \cap data[i + 1]
    BY DEF WrittenExactly
  <2>1. start \in Nat /\ index \in Nat /\ start + index <= FlashSize /\ FlashSize \in Nat
    <3>1. start \in Nat /\ length \in Nat /\ index \in 0 .. length /\ start + length <= FlashSize
      BY DEF IInv, BlockFits
    <3> QED BY <3>1, SizeType
  <2> DEFINE a == start + i
  <2>2. a \in Addresses /\ a \in Reached /\ a - start + 1 = i + 1
    BY <2>1 DEF Addresses, Reached
  <2> HIDE DEF a
  <2>3. flash[a] = before[a] \cap Due(a)
    BY <2>2 DEF IInv, AsWritten
  <2>4. Due(a) = data[i + 1]
    BY <2>2, Zenon DEF Due
  <2> QED BY <2>3, <2>4 DEF a
<1> QED BY Invariance, <1>1, PTL

(* Nothing beside the block changes while it is written, whether or not    *)
(* the power fails in between (ota_flash_write).                           *)
THEOREM NeighboursAlwaysKept == Spec => NeighboursKept
<1> DEFINE Kept == \A a \in Addresses :
                      op = "write" /\ a \notin start .. start + length - 1 => flash'[a] = flash[a]
<1>1. IInv /\ [Next]_vars => [Kept]_flash
  <2> SUFFICES ASSUME IInv, Next, flash' # flash, op = "write",
                      NEW a \in Addresses, a \notin start .. start + length - 1
               PROVE  flash'[a] = flash[a]
    BY DEF vars
  <2>1. PICK bits \in Bytes :
          /\ index < length
          /\ flash' = Programmed(WordOf(Here), [k \in 0 .. 3 |-> Turn[k] \cup bits])
    <3>1. CASE WriteWord
      <4>1. Turn = [k \in 0 .. 3 |-> Turn[k] \cup {}]
        BY DEF Turn, BSWAP_32
      <4> QED BY <3>1, <4>1 DEF WriteWord, Bytes
    <3>2. CASE PowerFailure
      BY <3>2 DEF PowerFailure, Interrupted
    <3>3. WriteWord \/ PowerFailure
      BY DEF Next, Erasing, Writing, Reading, BeginErase, BeginWrite, ReadImage, CheckImage,
             BeginRead, Handler, EraseFirst, EraseNext, EndErase, StartDownload, EndWrite,
             ReadWord, NextChunk, EndRead, GiveUp, ClearOtaState
    <3> QED BY <3>1, <3>2, <3>3
  <2>2. ~InTurn(a)
    <3>1. FlashType /\ BlockFits
      BY DEF IInv
    <3>2. /\ Here = start + index /\ start \in Nat /\ index \in Nat /\ length \in Nat
          /\ TurnLen \in Nat /\ index + TurnLen <= length
      BY <2>1, <3>1, TurnLength, WordOfAddress DEF BlockFits, Here
    <3> QED BY <3>2 DEF InTurn, Addresses
  <2> QED BY <2>1, <2>2, OnlyTheTurn DEF IInv
<1> QED BY Invariance, <1>1, PTL DEF Spec, NeighboursKept

-----------------------------------------------------------------------------
(* The erasure of an area that starts with a page: index counts the bytes  *)
(* up to the page that is next, and they are all erased.                   *)

ErasedTo(end) == \A a \in Addresses : a >= start /\ a < end => flash[a] = Bits

EraseInv ==
    op \in {"erase", "erased"} =>
        /\ start \in Nat /\ length \in Nat /\ start + length <= FlashSize
        /\ index \in Int /\ page \in Nat
        /\ start % Sector = 0 =>
              /\ index \in Nat /\ page = start + index
              /\ ErasedTo(page)
              /\ op = "erased" => index >= length

LEMMA PageStart ==
    ASSUME NEW a \in Nat
    PROVE  /\ (a \div Sector) * Sector \in Nat
           /\ a % Sector = 0 => (a \div Sector) * Sector = a
<1>1. Sector \in Nat /\ Sector > 0
  BY PageType
<1>2. a \div Sector \in Nat /\ a = Sector * (a \div Sector) + (a % Sector)
  BY <1>1
<1> QED BY <1>1, <1>2

LEMMA BeginEraseInv ==
    ASSUME NEW area \in EraseAreas, BeginErase(area[1], area[2])
    PROVE  EraseInv'
<1>1. area[1] \in Nat /\ area[2] \in Nat /\ area[1] + area[2] <= FlashSize
  BY FlashAssumption
<1>2. /\ op' = "erase" /\ start' = area[1] /\ length' = area[2] /\ index' = 0
      /\ page' = (area[1] \div Sector) * Sector
  BY DEF BeginErase
<1>3. page' \in Nat /\ (start' % Sector = 0 => page' = start')
  BY <1>1, <1>2, PageStart
<1> QED BY <1>1, <1>2, <1>3 DEF EraseInv, ErasedTo, Addresses

\* A page more.
LEMMA ErasePageInv ==
    ASSUME FlashType, EraseInv, op = "erase", ErasePage,
           index' \in Int, ~Unaligned => index' = index + Sector
    PROVE  EraseInv'
<1>1. /\ op' = "erase" /\ UNCHANGED <<start, length>> /\ page' = page + Sector
      /\ flash' = Erased(page)
  BY DEF ErasePage
<1>2. /\ Sector \in Nat /\ start \in Nat /\ length \in Nat /\ page \in Nat /\ index \in Int
      /\ start + length <= FlashSize
  BY PageType DEF EraseInv
<1>3. ASSUME start % Sector = 0
      PROVE  index' \in Nat /\ page' = start' + index' /\ ErasedTo(page)'
  <2>1. index \in Nat /\ page = start + index /\ ErasedTo(page)
    BY <1>3 DEF EraseInv
  <2>2. ErasedTo(page)'
    <3> SUFFICES ASSUME NEW a \in Addresses, a >= start, a < page + Sector
                 PROVE  Erased(page)[a] = Bits
      BY <1>1 DEF ErasedTo
    <3>1. a \in Int
      BY SizeType DEF Addresses
    <3>2. CASE a < page
      BY <2>1, <3>2 DEF Erased, ErasedTo
    <3>3. CASE a >= page
      BY <1>2, <3>1, <3>3 DEF Erased
    <3> QED BY <1>2, <3>1, <3>2, <3>3
  <2>3. index' \in Nat /\ page' = start' + index'
    <3>1. ~Unaligned
      BY <1>2, <2>1 DEF Unaligned
    <3> QED BY <1>1, <1>2, <2>1, <3>1
  <2> QED BY <2>2, <2>3
<1>4. page' \in Nat
  BY <1>1, <1>2
<1>5. start' % Sector = 0 => index' \in Nat /\ page' = start' + index' /\ ErasedTo(page)'
  BY <1>1, <1>3
<1>6. op' # "erased" /\ start' \in Nat /\ length' \in Nat /\ start' + length' <= FlashSize
  BY <1>1, <1>2
<1> QED BY <1>4, <1>5, <1>6 DEF EraseInv

LEMMA EraseInvariance == Spec => [](IInv /\ EraseInv)
<1>1. Init => EraseInv
  BY DEF Init, EraseInv
<1>2. IInv /\ EraseInv /\ [Next]_vars => EraseInv'
  <2> SUFFICES ASSUME FlashType, EraseInv, [Next]_vars PROVE EraseInv'
    BY DEF IInv
  <2>1. ASSUME NEW area \in EraseAreas, BeginErase(area[1], area[2]) PROVE EraseInv'
    BY <2>1, BeginEraseInv
  <2>2. CASE EraseFirst
    <3>1. index' \in Int
      BY <2>2, PageType DEF EraseFirst, EraseInv, Unsigned
    <3> QED BY <2>2, <3>1, ErasePageInv DEF EraseFirst
  <2>3. CASE EraseNext
    <3>1. index' = index + Sector /\ index' \in Int
      BY <2>3, PageType DEF EraseNext, EraseInv
    <3> QED BY <2>3, <3>1, ErasePageInv DEF EraseNext
  <2>4. CASE EndErase
    <3>1. index \in Int /\ length \in Nat /\ ~(index < length)
      BY <2>4 DEF EndErase, EraseInv, MoreToErase
    <3> QED BY <2>4, <3>1 DEF EndErase, EraseInv, ErasedTo, call
  <2>5. ASSUME op' \notin {"erase", "erased"} \/ UNCHANGED <<flash, op, call>>
        PROVE  EraseInv'
    BY <2>5 DEF EraseInv, ErasedTo, call
  <2>6. ASSUME NEW a \in Starts, NEW bytes \in Payloads, BeginWrite(a, bytes) PROVE EraseInv'
    BY <2>5, <2>6 DEF BeginWrite
  <2>7. ASSUME NEW area \in ReadAreas,
               ReadImage(area[1], area[2]) \/ CheckImage(area[1], area[2])
        PROVE  EraseInv'
    BY <2>5, <2>7 DEF ReadImage, CheckImage, BeginRead, handler
  <2>8. CASE StartDownload \/ WriteWord \/ EndWrite \/ GiveUp \/ ClearOtaState \/ PowerFailure
    BY <2>5, <2>8
    DEF StartDownload, WriteWord, EndWrite, GiveUp, ClearOtaState, PowerFailure, handler
  <2>9. CASE ReadWord \/ NextChunk \/ EndRead
    BY <2>5, <2>9 DEF ReadWord, NextChunk, EndRead, handler
  <2>10. CASE UNCHANGED vars
    BY <2>5, <2>10 DEF vars, handler
  <2> QED
    BY <2>1, <2>2, <2>3, <2>4, <2>6, <2>7, <2>8, <2>9, <2>10
    DEF Next, Erasing, Writing, Reading
<1> QED BY Invariance, <1>1, <1>2, PTL DEF Spec

(* Whatever the sizes of the pages and of the area, an area that starts    *)
(* with a page is empty when uc_wiota_ota_flash_erase returns.             *)
THEOREM AreaIsErased == Spec => []EraseCovers
<1>1. EraseInv => EraseCovers
  <2> SUFFICES ASSUME EraseInv, op = "erased", start % Sector = 0,
                      NEW a \in start .. start + length - 1
               PROVE  flash[a] = Bits
    BY DEF EraseCovers
  <2>1. /\ start \in Nat /\ length \in Nat /\ start + length <= FlashSize
        /\ page = start + index /\ index \in Nat /\ index >= length /\ ErasedTo(page)
    BY DEF EraseInv
  <2>2. a \in Addresses /\ a >= start /\ a < page
    BY <2>1, SizeType DEF Addresses
  <2> QED BY <2>1, <2>2 DEF ErasedTo
<1> QED BY EraseInvariance, <1>1, PTL

-----------------------------------------------------------------------------
(* The pages that are erased.  The first may begin before the area; after  *)
(* it, of an area that starts inside a page, no other follows.             *)

PageInv ==
    op = "erase" =>
        /\ start \in Nat /\ length \in Nat /\ start + length <= FlashSize
        /\ index \in Nat /\ page \in Nat
        /\ \E q \in Nat : page = q * Sector
        /\ page < start => start < page + Sector
        /\ page >= start => index = page - start \/ index >= length

\* The page of an address.
LEMMA PageOf ==
    ASSUME NEW q \in Nat, NEW a \in Nat, q * Sector <= a, a < q * Sector + Sector
    PROVE  a \div Sector = q
<1>1. Sector \in Nat /\ Sector > 0
  BY PageType
<1> DEFINE d == a \div Sector
<1>2. d \in Nat /\ d * Sector <= a /\ a < d * Sector + Sector
  BY <1>1
<1> HIDE DEF d
<1>3. (d + 1) * Sector = d * Sector + Sector /\ (q + 1) * Sector = q * Sector + Sector
  BY <1>1, <1>2
<1>4. CASE d < q
  <2>1. d + 1 <= q
    BY <1>2, <1>4
  <2>2. (d + 1) * Sector <= q * Sector
    BY <1>1, <1>2, <2>1
  <2> QED BY <1>1, <1>2, <1>3, <2>2
<1>5. CASE q < d
  <2>1. q + 1 <= d
    BY <1>2, <1>5
  <2>2. (q + 1) * Sector <= d * Sector
    BY <1>1, <1>2, <2>1
  <2> QED BY <1>1, <1>2, <1>3, <2>2
<1>6. CASE d = q
  BY <1>6 DEF d
<1> QED BY <1>2, <1>4, <1>5, <1>6

LEMMA BeginErasePage ==
    ASSUME NEW area \in EraseAreas, BeginErase(area[1], area[2])
    PROVE  PageInv'
<1>1. area[1] \in Nat /\ area[2] \in Nat /\ area[1] + area[2] <= FlashSize
  BY FlashAssumption
<1>2. /\ start' = area[1] /\ length' = area[2] /\ index' = 0
      /\ page' = (area[1] \div Sector) * Sector
  BY DEF BeginErase
<1>3. /\ area[1] \div Sector \in Nat /\ page' \in Nat
      /\ page' <= area[1] /\ area[1] < page' + Sector
  BY <1>1, <1>2, PageType
<1> QED BY <1>1, <1>2, <1>3 DEF PageInv

LEMMA ErasePagePage ==
    ASSUME PageInv, EraseFirst \/ EraseNext
    PROVE  PageInv'
<1>1. /\ start \in Nat /\ length \in Nat /\ start + length <= FlashSize
      /\ index \in Nat /\ page \in Nat
      /\ page < start => start < page + Sector
      /\ page >= start => index = page - start \/ index >= length
      /\ UNCHANGED <<start, length>> /\ page' = page + Sector
  BY DEF PageInv, EraseFirst, EraseNext, ErasePage
<1>2. Sector \in Nat /\ Sector > 0 /\ Mod \in Nat /\ FlashSize \in Nat /\ FlashSize + Sector < Mod
  BY PageType, SizeType, FlashAssumption
<1>3. page' \in Nat /\ \E q \in Nat : page' = q * Sector
  <2>1. PICK q \in Nat : page = q * Sector
    BY DEF PageInv, EraseFirst, EraseNext
  <2>2. q + 1 \in Nat /\ page' = (q + 1) * Sector
    BY <1>1, <1>2, <2>1
  <2>3. page' \in Nat
    BY <1>1, <1>2
  <2> DEFINE r == q + 1
  <2>4. r \in Nat /\ page' = r * Sector
    BY <2>2
  <2> HIDE DEF r
  <2> QED BY <2>3, <2>4
<1>4. /\ index' \in Nat /\ page' >= start'
      /\ index' = page' - start' \/ index' >= length'
  <2>1. CASE EraseFirst
    <3>1. page < start /\ index' = start - (page + Sector) + Mod
      BY <1>1, <1>2, <2>1 DEF EraseFirst, Unaligned, Unsigned
    <3> QED BY <1>1, <1>2, <3>1
  <2>2. CASE EraseNext
    <3>1. ~(length > 0 /\ page < start) /\ index < length /\ index' = index + Sector
      BY <2>2 DEF EraseNext, Unaligned, MoreToErase
    <3>2. length > 0
      BY <1>1, <3>1
    <3> QED BY <1>1, <1>2, <3>1, <3>2
  <2> QED BY <2>1, <2>2
<1> QED BY <1>1, <1>3, <1>4 DEF PageInv

LEMMA PageInvariance == Spec => [](IInv /\ PageInv)
<1>1. Init => PageInv
  BY DEF Init, PageInv
<1>2. PageInv /\ [Next]_vars => PageInv'
  <2> SUFFICES ASSUME PageInv, [Next]_vars PROVE PageInv'
    OBVIOUS
  <2>1. ASSUME NEW area \in EraseAreas, BeginErase(area[1], area[2]) PROVE PageInv'
    BY <2>1, BeginErasePage
  <2>2. CASE EraseFirst \/ EraseNext
    BY <2>2, ErasePagePage
  <2>3. ASSUME op' # "erase" \/ UNCHANGED <<op, call>> PROVE PageInv'
    BY <2>3 DEF PageInv, call
  <2>4. ASSUME NEW a \in Starts, NEW bytes \in Payloads, BeginWrite(a, bytes) PROVE PageInv'
    BY <2>3, <2>4 DEF BeginWrite
  <2>5. ASSUME NEW area \in ReadAreas,
               ReadImage(area[1], area[2]) \/ CheckImage(area[1], area[2])
        PROVE  PageInv'
    BY <2>3, <2>5 DEF ReadImage, CheckImage, BeginRead, handler
  <2>6. CASE \/ EndErase \/ StartDownload \/ WriteWord \/ EndWrite
             \/ GiveUp \/ ClearOtaState \/ PowerFailure
    BY <2>3, <2>6
    DEF EndErase, StartDownload, WriteWord, EndWrite, GiveUp, ClearOtaState, PowerFailure,
        handler
  <2>7. CASE ReadWord \/ NextChunk \/ EndRead
    BY <2>3, <2>7 DEF ReadWord, NextChunk, EndRead, handler
  <2>8. CASE UNCHANGED vars
    BY <2>3, <2>8 DEF vars, handler
  <2> QED
    BY <2>1, <2>2, <2>4, <2>5, <2>6, <2>7, <2>8 DEF Next, Erasing, Writing, Reading
<1> QED BY Invariance, <1>1, <1>2, PTL DEF Spec

\* The bytes that a step of the erasure may change.
LEMMA ErasedHere ==
    ASSUME FlashType, Next, op = "erase", NEW a \in Addresses, flash'[a] # flash[a]
    PROVE  a \in page .. page + Sector - 1 /\ (Unaligned \/ MoreToErase)
<1>1. EraseFirst \/ EraseNext \/ PowerFailure
  BY DEF Next, Erasing, Writing, Reading, BeginErase, BeginWrite, ReadImage, CheckImage,
         BeginRead, Handler, EndErase, StartDownload, WriteWord, EndWrite, ReadWord,
         NextChunk, EndRead, GiveUp, ClearOtaState
<1>2. CASE EraseFirst \/ EraseNext
  BY <1>2 DEF EraseFirst, EraseNext, ErasePage, Erased
<1>3. CASE PowerFailure
  <2>1. PICK bits \in Bytes :
          /\ Unaligned \/ MoreToErase
          /\ flash' = [b \in Addresses |-> flash[b] \cup (Erased(page)[b] \cap bits)]
    BY <1>3 DEF PowerFailure, Interrupted
  <2>2. flash'[a] = flash[a] \cup (Erased(page)[a] \cap bits)
    BY <2>1
  <2>3. CASE a \notin page .. page + Sector - 1
    <3>1. Erased(page)[a] = flash[a]
      BY <2>3 DEF Erased
    <3> QED BY <2>2, <3>1
  <2> QED BY <2>1, <2>3
<1> QED BY <1>1, <1>2, <1>3

(* Whatever the sizes, and wherever the area starts, the erasure touches   *)
(* no page that holds no byte of it, also when the power fails             *)
(* (uc_wiota_ota_flash_erase).                                             *)
THEOREM NoOtherPageErased == Spec => EraseOnly
<1> DEFINE Only == \A a \in Addresses :
                      op = "erase" /\ flash'[a] # flash[a] =>
                          \E b \in start .. start + length - 1 : a \div Sector = b \div Sector
<1>1. IInv /\ PageInv /\ [Next]_vars => [Only]_flash
  <2> SUFFICES ASSUME IInv, PageInv, Next, op = "erase",
                      NEW a \in Addresses, flash'[a] # flash[a]
               PROVE  \E b \in start .. start + length - 1 : a \div Sector = b \div Sector
    BY DEF vars
  <2>1. a \in page .. page + Sector - 1 /\ (Unaligned \/ MoreToErase)
    BY ErasedHere DEF IInv
  <2>2. /\ start \in Nat /\ length \in Nat /\ index \in Nat /\ page \in Nat
        /\ page < start => start < page + Sector
        /\ page >= start => index = page - start \/ index >= length
        /\ Sector \in Nat /\ Sector > 0
    BY PageType DEF PageInv
  <2>3. PICK q \in Nat : page = q * Sector
    BY DEF PageInv
  <2>4. a \in Nat /\ a \div Sector = q
    BY <2>1, <2>2, <2>3, PageOf, SizeType DEF Addresses
  <2>5. CASE page < start
    <3>1. start \div Sector = q
      BY <2>2, <2>3, <2>5, PageOf
    <3>2. length > 0
      BY <2>1, <2>2 DEF Unaligned, MoreToErase
    <3> QED BY <2>2, <2>4, <3>1, <3>2
  <2>6. CASE page >= start
    <3>1. page \div Sector = q
      BY <2>2, <2>3, PageOf
    <3>2. page \in start .. start + length - 1
      BY <2>1, <2>2, <2>6 DEF Unaligned, MoreToErase
    <3> QED BY <2>4, <3>1, <3>2
  <2> QED BY <2>2, <2>5, <2>6
<1> QED BY PageInvariance, <1>1, PTL DEF Spec, EraseOnly

-----------------------------------------------------------------------------
(* Reading.  The digest and the chunk after it continue each other in the  *)
(* flash, and the handler does nothing else while it makes a digest.       *)

Copied(s, a) == \A k \in 1 .. Len(s) : s[k] = flash[a + (k - 1)]

ReadType ==
    /\ from \in Nat /\ want \in Nat /\ from + want <= FlashSize
    /\ digest \in Seq(Bytes) /\ chunk \in Seq(Bytes)
    /\ Len(digest) + Len(chunk) <= want

ReadInv ==
    /\ ReadType
    /\ reading = "no" => digest = <<>> /\ chunk = <<>>
    /\ reading = "check" => op = "idle" /\ disturbed = "no"
    /\ disturbed = "no" => Copied(digest, from) /\ Copied(chunk, from + Len(digest))

\* What a turn of the loop reads from a word.
LEMMA WordRead ==
    ASSUME NEW a \in Nat, NEW k \in 1 .. 4 - OffsetOf(a)
    PROVE  BSWAP_32(DeviceRead(WordOf(a)))[OffsetOf(a) + k - 1] = flash[a + (k - 1)]
<1>1. OffsetOf(a) \in 0 .. 3 /\ WordOf(a) \in Nat /\ WordOf(a) = a - OffsetOf(a)
  BY WordOfAddress
<1> DEFINE j == OffsetOf(a) + k - 1
<1>2. j \in 0 .. 3 /\ 3 - j \in 0 .. 3 /\ WordOf(a) + (3 - (3 - j)) = a + (k - 1)
  BY <1>1
<1> HIDE DEF j
<1>3. BSWAP_32(DeviceRead(WordOf(a)))[j] = DeviceRead(WordOf(a))[3 - j]
  BY <1>2 DEF BSWAP_32
<1>4. DeviceRead(WordOf(a))[3 - j] = flash[WordOf(a) + (3 - (3 - j))]
  BY <1>2 DEF DeviceRead
<1> QED BY <1>2, <1>3, <1>4 DEF j

LEMMA ReadLength ==
    ASSUME NEW a \in Nat, NEW done \in Nat, NEW n \in Nat, done < n
    PROVE  /\ OrderLen(a, done, n) \in 1 .. 4 - OffsetOf(a)
           /\ done + OrderLen(a, done, n) <= n
<1>1. OffsetOf(a) \in 0 .. 3
  BY WordOfAddress
<1> QED BY <1>1 DEF OrderLen

LEMMA ReadWordInv ==
    ASSUME FlashType, ReadInv, ReadWord
    PROVE  ReadInv'
<1> DEFINE done == Len(chunk)
           a == ChunkStart + done
           n == OrderLen(a, done, ChunkLen)
           Byte(k) == BSWAP_32(DeviceRead(WordOf(a)))[OffsetOf(a) + k - 1]
           part == [k \in 1 .. n |-> Byte(k)]
<1>1. /\ reading # "no" /\ done < ChunkLen /\ chunk' = chunk \o part
      /\ UNCHANGED <<flash, op, reading, from, want, digest, disturbed>>
  BY DEF ReadWord, handler, request
<1>2. /\ from \in Nat /\ want \in Nat /\ from + want <= FlashSize /\ FlashSize \in Nat
      /\ digest \in Seq(Bytes) /\ chunk \in Seq(Bytes)
      /\ Len(digest) \in Nat /\ done \in Nat /\ Len(digest) + done <= want
  BY SizeType DEF ReadInv, ReadType
<1>3. ChunkLen \in Nat /\ Len(digest) + ChunkLen <= want
  BY <1>2, ChunkType DEF ChunkLen
<1>4. a \in Nat /\ a = from + Len(digest) + done
  BY <1>2 DEF ChunkStart
<1> HIDE DEF done, a, n
<1>5. n \in 1 .. 4 - OffsetOf(a) /\ OffsetOf(a) \in 0 .. 3 /\ done + n <= ChunkLen
  BY <1>1, <1>2, <1>3, <1>4, ReadLength, WordOfAddress DEF n
<1>6. ASSUME NEW k \in 1 .. n PROVE Byte(k) = flash[a + (k - 1)] /\ Byte(k) \in Bytes
  <2>1. k \in 1 .. 4 - OffsetOf(a)
    BY <1>5
  <2>2. Byte(k) = flash[a + (k - 1)]
    BY <1>4, <2>1, WordRead
  <2>3. a + (k - 1) \in Addresses
    BY <1>2, <1>3, <1>4, <1>5 DEF Addresses
  <2> QED BY <2>2, <2>3 DEF FlashType
<1> HIDE DEF Byte
<1>7. part \in Seq(Bytes) /\ Len(part) = n /\ \A k \in 1 .. n : part[k] = flash[a + (k - 1)]
  BY <1>5, <1>6
<1> HIDE DEF part
<1>8. /\ chunk' \in Seq(Bytes) /\ Len(chunk') = done + n
      /\ \A k \in 1 .. done + n : chunk'[k] = IF k <= done THEN chunk[k] ELSE part[k - done]
  BY <1>1, <1>2, <1>7, ConcatProperties DEF done
<1>9. ReadType'
  BY <1>1, <1>2, <1>3, <1>5, <1>8 DEF ReadType
<1>10. ASSUME disturbed = "no" PROVE Copied(chunk, from + Len(digest))'
  <2>1. \A k \in 1 .. done : chunk[k] = flash[from + Len(digest) + (k - 1)]
    BY <1>10 DEF ReadInv, Copied, done
  <2> SUFFICES ASSUME NEW k \in 1 .. done + n
               PROVE  chunk'[k] = flash[from + Len(digest) + (k - 1)]
    BY <1>1, <1>8 DEF Copied
  <2>2. CASE k <= done
    BY <1>8, <2>1, <2>2
  <2>3. CASE k > done
    <3>1. k - done \in 1 .. n /\ a + (k - done - 1) = from + Len(digest) + (k - 1)
      BY <1>2, <1>4, <1>5, <2>3
    <3>2. chunk'[k] = part[k - done]
      BY <1>2, <1>8, <2>3
    <3> QED BY <1>7, <3>1, <3>2
  <2> QED BY <1>2, <2>2, <2>3
<1> QED BY <1>1, <1>9, <1>10 DEF ReadInv, Copied

LEMMA NextChunkInv ==
    ASSUME ReadInv, NextChunk
    PROVE  ReadInv'
<1>1. /\ reading = "check" /\ digest' = digest \o chunk /\ chunk' = <<>>
      /\ UNCHANGED <<flash, op, reading, from, want, disturbed>>
  BY DEF NextChunk, handler, request
<1>2. /\ digest' \in Seq(Bytes) /\ Len(digest') = Len(digest) + Len(chunk)
      /\ Len(digest) \in Nat /\ Len(chunk) \in Nat /\ from \in Nat
      /\ \A k \in 1 .. Len(digest) + Len(chunk) :
            digest'[k] = IF k <= Len(digest) THEN digest[k] ELSE chunk[k - Len(digest)]
  BY <1>1, ConcatProperties, LenProperties DEF ReadInv, ReadType
<1>3. chunk' \in Seq(Bytes) /\ Len(chunk') = 0
  BY <1>1
<1>4. ReadType'
  BY <1>1, <1>2, <1>3 DEF ReadInv, ReadType
<1>5. ASSUME disturbed = "no" PROVE Copied(digest, from)'
  BY <1>1, <1>2, <1>5 DEF ReadInv, Copied
<1> QED BY <1>1, <1>3, <1>4, <1>5 DEF ReadInv, Copied

\* The handler changes the flash: nobody reads, or the AT server is disturbed.
LEMMA ChangeInv ==
    ASSUME ReadInv, op # "idle", UNCHANGED <<reading, from, want, digest, chunk>>,
           disturbed' = IF reading = "no" THEN disturbed ELSE "yes"
    PROVE  ReadInv'
<1>1. reading # "check"
  BY DEF ReadInv
<1>2. CASE reading = "no"
  BY <1>2 DEF ReadInv, ReadType, Copied
<1>3. CASE reading # "no"
  BY <1>1, <1>3 DEF ReadInv, ReadType
<1> QED BY <1>2, <1>3

LEMMA BeginReadInv ==
    ASSUME NEW area \in ReadAreas, BeginRead(area[1], area[2]),
           reading' = "check" => op' = "idle", reading' # "no"
    PROVE  ReadInv'
<1>1. area[1] \in Nat /\ area[2] \in Nat /\ area[1] + area[2] <= FlashSize
  BY FlashAssumption
<1>2. /\ from' = area[1] /\ want' = area[2] /\ digest' = <<>> /\ chunk' = <<>>
      /\ disturbed' = "no"
  BY DEF BeginRead
<1>3. <<>> \in Seq(Bytes) /\ Len(<<>>) = 0
  BY EmptySeq
<1> QED BY <1>1, <1>2, <1>3 DEF ReadInv, ReadType, Copied

LEMMA NotReadingInv ==
    ASSUME reading' = "no", from' = 0, want' = 0, digest' = <<>>, chunk' = <<>>
    PROVE  ReadInv'
<1>1. <<>> \in Seq(Bytes) /\ Len(<<>>) = 0
  BY EmptySeq
<1> QED BY <1>1, SizeType DEF ReadInv, ReadType, Copied

LEMMA ReadInvariance == Spec => [](IInv /\ ReadInv)
<1>1. Init => ReadInv
  <2>1. <<>> \in Seq(Bytes) /\ Len(<<>>) = 0
    BY EmptySeq
  <2> QED BY <2>1, SizeType DEF Init, ReadInv, ReadType, Copied
<1>2. IInv /\ ReadInv /\ [Next]_vars => ReadInv'
  <2> SUFFICES ASSUME FlashType, ReadInv, [Next]_vars PROVE ReadInv'
    BY DEF IInv
  <2>1. ASSUME UNCHANGED <<flash, reader, disturbed>>,
               reading = "check" => op' = "idle"
        PROVE  ReadInv'
    BY <2>1 DEF ReadInv, ReadType, Copied, reader, request
  <2>2. ASSUME NEW area \in EraseAreas, BeginErase(area[1], area[2]) PROVE ReadInv'
    BY <2>1, <2>2 DEF BeginErase, Handler
  <2>3. ASSUME NEW a \in Starts, NEW bytes \in Payloads, BeginWrite(a, bytes) PROVE ReadInv'
    BY <2>1, <2>3 DEF BeginWrite, Handler
  <2>4. ASSUME NEW area \in ReadAreas, ReadImage(area[1], area[2]) PROVE ReadInv'
    BY <2>4, BeginReadInv DEF ReadImage
  <2>5. ASSUME NEW area \in ReadAreas, CheckImage(area[1], area[2]) PROVE ReadInv'
    BY <2>5, BeginReadInv DEF CheckImage, BeginRead, handler
  <2>6. CASE EraseFirst \/ EraseNext \/ WriteWord
    BY <2>6, ChangeInv DEF EraseFirst, EraseNext, ErasePage, WriteWord, reader, request
  <2>7. CASE EndErase \/ StartDownload \/ EndWrite \/ GiveUp \/ ClearOtaState
    BY <2>1, <2>7
    DEF EndErase, StartDownload, EndWrite, GiveUp, ClearOtaState, ReadInv, handler
  <2>8. CASE ReadWord
    BY <2>8, ReadWordInv
  <2>9. CASE NextChunk
    BY <2>9, NextChunkInv
  <2>10. CASE EndRead \/ PowerFailure
    BY <2>10, NotReadingInv DEF EndRead, PowerFailure
  <2>11. CASE UNCHANGED vars
    BY <2>1, <2>11 DEF vars, handler, ReadInv
  <2> QED
    BY <2>2, <2>3, <2>4, <2>5, <2>6, <2>7, <2>8, <2>9, <2>10, <2>11
    DEF Next, Erasing, Writing, Reading
<1> QED BY Invariance, <1>1, <1>2, PTL DEF Spec

(* Every byte that the loops over words and chunks have read is the byte   *)
(* of the flash, at any address, for any length and any size of a chunk,   *)
(* unless the flash has changed since the reading began; it does not while *)
(* a digest is made (uc_wiota_ota_flash_read,                              *)
(* uc_wiota_ota_check_flash_data).                                         *)
THEOREM FlashIsRead == Spec => []ReadBack
<1>1. ReadInv => ReadBack
  <2> SUFFICES ASSUME ReadInv, disturbed = "no", NEW k \in 1 .. Len(digest \o chunk)
               PROVE  (digest \o chunk)[k] = flash[from + (k - 1)]
    BY DEF ReadInv, ReadBack
  <2>1. /\ from \in Nat /\ Len(digest) \in Nat /\ Len(chunk) \in Nat
        /\ Len(digest \o chunk) = Len(digest) + Len(chunk)
        /\ \A i \in 1 .. Len(digest) + Len(chunk) :
              (digest \o chunk)[i] =
                  IF i <= Len(digest) THEN digest[i] ELSE chunk[i - Len(digest)]
    BY ConcatProperties, LenProperties DEF ReadInv, ReadType
  <2>2. Copied(digest, from) /\ Copied(chunk, from + Len(digest))
    BY DEF ReadInv
  <2>3. CASE k <= Len(digest)
    BY <2>1, <2>2, <2>3 DEF Copied
  <2>4. CASE k > Len(digest)
    <3>1. /\ k - Len(digest) \in 1 .. Len(chunk)
          /\ from + Len(digest) + (k - Len(digest) - 1) = from + (k - 1)
      BY <2>1, <2>4
    <3>2. chunk[k - Len(digest)] = flash[from + Len(digest) + (k - Len(digest) - 1)]
      BY <2>2, <3>1 DEF Copied
    <3> QED BY <2>1, <2>4, <3>1, <3>2
  <2> QED BY <2>1, <2>3, <2>4
<1> QED BY ReadInvariance, <1>1, PTL

-----------------------------------------------------------------------------
(* Types.  The page that is erased next is at most one behind the flash,   *)
(* and the index is no negative number after a page that begins before the *)
(* area: both by PageInv.                                                  *)

RestType ==
    /\ op \in {"idle", "erase", "erased", "write"}
    /\ start \in Nat /\ length \in Nat
    /\ index \in Nat /\ page \in 0 .. FlashSize + Sector
    /\ op = "write" => 0 < length
    /\ downloading \in {"yes", "no"} /\ ota_dl_state \in 0 .. 2
    /\ reading \in {"no", "mcu", "check"}
    /\ disturbed \in {"yes", "no"}
    /\ calls \in 0 .. MaxCalls /\ failures \in 0 .. MaxFailures

LEMMA BoundsType == MaxCalls \in Nat /\ MaxFailures \in Nat
BY FlashAssumption

LEMMA BeginEraseType ==
    ASSUME RestType, NEW area \in EraseAreas, BeginErase(area[1], area[2])
    PROVE  RestType'
<1>1. area[1] \in Nat /\ area[2] \in Nat /\ area[1] + area[2] <= FlashSize
  BY FlashAssumption
<1>2. page' \in 0 .. FlashSize + Sector
  <2>1. page' = (area[1] \div Sector) * Sector
    BY DEF BeginErase
  <2>2. page' \in Nat /\ page' <= area[1]
    BY <1>1, <2>1, PageType
  <2> QED BY <1>1, <2>2, PageType, SizeType
<1>3. /\ op' = "erase" /\ start' = area[1] /\ length' = area[2] /\ index' = 0
      /\ calls < MaxCalls /\ calls' = calls + 1
      /\ UNCHANGED <<states, reading, disturbed, failures>>
  BY DEF BeginErase, Handler, reader, request
<1> QED BY <1>1, <1>2, <1>3, BoundsType DEF RestType, states

LEMMA ErasePageType ==
    ASSUME RestType, PageInv, EraseFirst \/ EraseNext
    PROVE  RestType'
<1>1. /\ op = "erase" /\ page' = page + Sector
      /\ UNCHANGED <<op, start, length, downloading, ota_dl_state, reading, calls, failures>>
      /\ disturbed' = IF reading = "no" THEN disturbed ELSE "yes"
  BY DEF EraseFirst, EraseNext, ErasePage, reader, request, bounds, states
<1>2. /\ start \in Nat /\ length \in Nat /\ start + length <= FlashSize
      /\ index \in Nat /\ page \in Nat
      /\ page >= start => index = page - start \/ index >= length
      /\ Sector \in Nat /\ Mod \in Nat /\ FlashSize \in Nat /\ FlashSize + Sector < Mod
  BY <1>1, PageType, SizeType, FlashAssumption DEF PageInv
<1>3. CASE EraseFirst
  <2>1. page < start /\ index' = Unsigned(start - (page + Sector))
    BY <1>3 DEF EraseFirst, Unaligned
  <2>2. index' \in Nat /\ page' \in 0 .. FlashSize + Sector
    BY <1>1, <1>2, <2>1 DEF Unsigned
  <2> QED BY <1>1, <2>2 DEF RestType
<1>4. CASE EraseNext
  <2>1. ~(length > 0 /\ page < start) /\ index < length /\ index' = index + Sector
    BY <1>4 DEF EraseNext, Unaligned, MoreToErase
  <2>2. page >= start
    BY <1>2, <2>1
  <2>3. index' \in Nat /\ page' \in 0 .. FlashSize + Sector
    BY <1>1, <1>2, <2>1, <2>2
  <2> QED BY <1>1, <2>3 DEF RestType
<1> QED BY <1>3, <1>4

LEMMA WriteType ==
    ASSUME RestType, BlockFits,
           WriteWord \/ \E a \in Starts, bytes \in Payloads : BeginWrite(a, bytes)
    PROVE  RestType'
<1>1. CASE WriteWord
  <2>1. index' \in Nat
    <3>1. op = "write" /\ index < length /\ index' = index + TurnLen
      BY <1>1 DEF WriteWord
    <3>2. index \in Nat /\ length \in Nat /\ TurnLen \in 1 .. 4 - OffsetOf(Here)
      BY <3>1, TurnLength DEF RestType
    <3>3. OffsetOf(Here) \in 0 .. 3
      BY <3>1, TurnLength, WordOfAddress
    <3> QED BY <3>1, <3>2, <3>3
  <2> QED BY <1>1, <2>1 DEF WriteWord, RestType, reader, request, bounds, states
<1>2. ASSUME NEW a \in Starts, NEW bytes \in Payloads, BeginWrite(a, bytes) PROVE RestType'
  <2>1. a \in Nat /\ bytes \in Seq(Bytes) /\ Len(bytes) \in Nat
    BY FlashAssumption
  <2>2. /\ op' = "write" /\ start' = a /\ length' = Len(bytes) /\ index' = 0
        /\ Len(bytes) >= 1
        /\ calls < MaxCalls /\ calls' = calls + 1
        /\ UNCHANGED <<page, states, reading, disturbed, failures>>
    BY <1>2 DEF BeginWrite, Fits, Handler, reader, request
  <2> QED BY <2>1, <2>2, BoundsType DEF RestType, states
<1> QED BY <1>1, <1>2

LEMMA RestInvariance == Spec => [](IInv /\ ReadInv /\ RestType)
<1>1. Init => RestType
  BY BoundsType, SizeType, PageType DEF Init, RestType
<1>2. IInv /\ PageInv /\ RestType /\ [Next]_vars => RestType'
  <2> SUFFICES ASSUME BlockFits, PageInv, RestType, [Next]_vars PROVE RestType'
    BY DEF IInv
  <2> USE DEF handler, call, reader, request, bounds, states
  <2>1. ASSUME NEW area \in EraseAreas, BeginErase(area[1], area[2]) PROVE RestType'
    BY <2>1, BeginEraseType
  <2>2. CASE EraseFirst \/ EraseNext
    BY <2>2, ErasePageType
  <2>3. CASE WriteWord \/ \E a \in Starts, bytes \in Payloads : BeginWrite(a, bytes)
    BY <2>3, WriteType
  <2>4. ASSUME NEW area \in ReadAreas,
               ReadImage(area[1], area[2]) \/ CheckImage(area[1], area[2])
        PROVE  RestType'
    BY <2>4 DEF ReadImage, CheckImage, BeginRead, RestType
  <2>5. CASE EndErase \/ StartDownload \/ EndWrite \/ GiveUp \/ ClearOtaState
    BY <2>5 DEF EndErase, StartDownload, EndWrite, GiveUp, ClearOtaState, RestType
  <2>6. CASE ReadWord \/ NextChunk
    BY <2>6 DEF ReadWord, NextChunk, RestType
  <2>9. CASE EndRead
    <3>1. /\ downloading' \in {"yes", "no"} /\ ota_dl_state' \in 0 .. 2 /\ reading' = "no"
          /\ UNCHANGED <<op, start, length, index, page, disturbed, calls, failures>>
      BY <2>9 DEF EndRead, RestType
    <3> QED BY <3>1 DEF RestType
  <2>7. CASE PowerFailure
    BY <2>7, BoundsType DEF PowerFailure, RestType
  <2>8. CASE UNCHANGED vars
    BY <2>8 DEF vars, RestType
  <2> QED
    BY <2>1, <2>2, <2>3, <2>4, <2>5, <2>6, <2>7, <2>8, <2>9
    DEF Next, Erasing, Writing, Reading
<1> QED BY PageInvariance, ReadInvariance, <1>1, <1>2, PTL DEF Spec

(* No address, length or index leaves its range, whatever areas are        *)
(* erased, whatever blocks arrive and wherever the power fails             *)
(* (uc_ota_flash.c).                                                       *)
THEOREM TypeCorrect == Spec => []TypeOK
<1>1. IInv /\ ReadInv /\ RestType => TypeOK
  BY DEF IInv, FlashType, BlockFits, ReadInv, ReadType, RestType, TypeOK
<1> QED BY RestInvariance, <1>1, PTL

\* The word that the next step programs lies in the flash.
WritesInside ==
    op = "write" /\ index < length =>
        WordOf(Here) \in Addresses /\ WordOf(Here) + 3 \in Addresses

LEMMA WordInside ==
    ASSUME NEW a \in Nat, a < FlashSize
    PROVE  WordOf(a) \in Addresses /\ WordOf(a) + 3 \in Addresses
BY WordOfAddress, SizeType DEF Addresses

(* Wherever a block is to go and whatever its length, as long as their sum *)
(* does not wrap around, no word outside of the flash is programmed, those *)
(* of a block that ends inside a word included: the test of the end in     *)
(* ota_flash_write is exact.                                               *)
THEOREM WritesStayInside == Spec => []WritesInside
<1>1. IInv => WritesInside
  <2> SUFFICES ASSUME BlockFits, op = "write", index < length
               PROVE  WordOf(Here) \in Addresses /\ WordOf(Here) + 3 \in Addresses
    BY DEF IInv, WritesInside
  <2>1. Here \in Nat /\ Here < FlashSize
    BY TurnLength
  <2> QED BY <2>1, WordInside
<1> QED BY Invariance, <1>1, PTL

\* The same for the page that is erased and the word that is read next.
AreasInside ==
    /\ op = "erase" /\ (Unaligned \/ MoreToErase) => page \in Addresses
    /\ reading # "no" /\ Len(chunk) < ChunkLen =>
          LET word == WordOf(ChunkStart + Len(chunk))
          IN  word \in Addresses /\ word + 3 \in Addresses

(* Erasing and reading an area that lies in the flash stays inside of the  *)
(* flash.  Neither function tests its arguments, so that the areas do is   *)
(* assumed (FlashAssumption): the partitions do, while AT+GATEWAYEXMCU     *)
(* passes on the address it is given (uc_wiota_ota_flash_erase,            *)
(* uc_wiota_ota_flash_read).                                               *)
THEOREM AreasStayInside == Spec => []AreasInside
<1>1. PageInv /\ ReadInv => AreasInside
  <2> SUFFICES ASSUME PageInv, ReadInv PROVE AreasInside
    OBVIOUS
  <2>1. ASSUME op = "erase", Unaligned \/ MoreToErase PROVE page \in Addresses
    BY <2>1, SizeType DEF PageInv, Unaligned, MoreToErase, Addresses
  <2>2. ASSUME reading # "no", Len(chunk) < ChunkLen
        PROVE  ChunkStart + Len(chunk) \in Nat /\ ChunkStart + Len(chunk) < FlashSize
    <3>1. /\ from \in Nat /\ want \in Nat /\ from + want <= FlashSize
          /\ Len(digest) \in Nat /\ Len(chunk) \in Nat /\ Chunk \in Nat /\ FlashSize \in Nat
      BY LenProperties, ChunkType, SizeType DEF ReadInv, ReadType
    <3>2. ChunkLen <= want - Len(digest)
      BY <3>1 DEF ChunkLen
    <3> QED BY <2>2, <3>1, <3>2 DEF ChunkStart, ChunkLen
  <2> QED BY <2>1, <2>2, WordInside DEF AreasInside
<1> QED BY PageInvariance, ReadInvariance, <1>1, PTL

=============================================================================
