----------------------------- MODULE OtaFirmware -----------------------------
(***************************************************************************)
(* The OTA firmware client (azrtos-layer/azrtos-ota/src/                   *)
(* azrtos_ota_fw_client.c) over the two flash drivers of the repository:   *)
(*   "stm32l4"  samples/stm32l4/basic-sample/src/                          *)
(*              nx_azure_iot_adu_agent_stm32l4xx_driver.c                  *)
(*   "same54"   samples/same54xpro/basic-sample/src/                       *)
(*              nx_azure_iot_adu_agent_same54_driver.c                     *)
(* The first erases the bank when it is told the size and programs whole   *)
(* words; the second writes each chunk at its offset by flash_write, which *)
(* erases by itself.  The download client below appears by what module     *)
(* DownloadClient shows of it: it reports the file size, then hands over   *)
(* the file in chunks, in order, from the start or from where it was left, *)
(* and it may fail at any point.                                           *)
(*                                                                         *)
(* The application calls iotc_ota_fw_download, _apply and _cancel from one *)
(* thread.  The flash may refuse to erase or to program, and the power may *)
(* fail between any two steps: the flash and the boot bank stay, all else  *)
(* is lost.  The bank that is not booted is mapped at FLASH_BANK2_ADDR.    *)
(***************************************************************************)
EXTENDS Integers, FiniteSets

CONSTANTS
  Images,       \* firmware images on the server
  Factory,      \* the image the board comes with
  ImageSize,    \* size of every image
  BankSize,     \* FLASH_BANK_SIZE
  PageSize,     \* flash is erased in pages
  Word,         \* bytes in the driver's write_buffer: what is programmed at once
  ChunkSize,    \* IOTC_DL_DATA_BUFFER_SIZE
  Boards,       \* "stm32l4", "same54"
  Resumes,      \* how the application on each board may set `resume`
  Obedient,     \* does it apply or cancel before it downloads again?
  MaxCalls,     \* bound on the number of downloads
  Erased,       \* content of erased flash
  None

ASSUME OtaAssumption ==
  /\ Factory \in Images /\ None \notin Images
  /\ ImageSize \in [Images -> Nat \ {0}]
  /\ BankSize \in Nat \ {0} /\ PageSize \in Nat \ {0} /\ Word \in Nat \ {0}
  /\ PageSize % Word = 0 /\ BankSize % PageSize = 0
  /\ ChunkSize \in Nat \ {0}
  /\ ImageSize[Factory] <= BankSize
  /\ Boards \subseteq {"stm32l4", "same54"}
  /\ Resumes \in [Boards -> SUBSET BOOLEAN]
  /\ Obedient \in BOOLEAN /\ MaxCalls \in Nat

Banks == {1, 2}
Addresses == 0 .. BankSize - 1
Byte(img, p) == [image |-> img, pos |-> p]
Min2(a, b) == IF a < b THEN a ELSE b

VARIABLES
  board,
  pc,                \* "idle", "begun", "fetch" or "applying"
  adu_driver,        \* is the pointer to the driver set?
  firmware_ready,
  image,             \* what the current or last download asked for
  resume,
  received,          \* the download client's file_bytes_received
  counts,            \* history: the image whose bytes it counts
  total_write_size,
  write_size,
  remainder_count,
  write_buffer,
  flash,             \* content of each bank
  boot_bank,         \* option byte BFB2
  calls

clientVars == <<board, pc, adu_driver, firmware_ready, image, resume, received, counts,
                calls>>
driverVars == <<total_write_size, write_size, remainder_count, write_buffer>>
flashVars == <<flash, boot_bank>>
vars == <<clientVars, driverVars, flashVars>>

InactiveSwapped == boot_bank   \* variant: the banks are confused
Inactive == CHOOSE b \in Banks : b # boot_bank
Holds(bank, img) ==
  /\ ImageSize[img] <= BankSize
  /\ \A p \in 0 .. ImageSize[img] - 1 : flash[bank][p] = Byte(img, p)

Init ==
  /\ board \in Boards
  /\ pc = "idle"
  /\ adu_driver = FALSE
  /\ firmware_ready = FALSE
  /\ image = None
  /\ resume = FALSE
  /\ received = 0
  /\ counts = None
  /\ total_write_size = 0
  /\ write_size = 0
  /\ remainder_count = 0
  /\ write_buffer = [i \in 0 .. Word - 1 |-> Erased]
  /\ flash = [b \in Banks |-> [a \in Addresses |->
                IF b = 1 /\ a < ImageSize[Factory] THEN Byte(Factory, a) ELSE Erased]]
  /\ boot_bank = 1
  /\ calls = 0

-----------------------------------------------------------------------------
(* iotc_ota_fw_download: firmware_ready is cleared before anything else.   *)

DownloadCalled(img, res) ==
  /\ pc = "idle"
  /\ calls < MaxCalls
  /\ res \in Resumes[board]
  /\ res => counts \in {img, None}   \* what is resumed is what was begun
  /\ Obedient => ~firmware_ready
  /\ calls' = calls + 1
  /\ firmware_ready' = FALSE

(* An earlier download has left the driver set. *)
DownloadRefused(img, res) ==
  /\ DownloadCalled(img, res)
  /\ adu_driver
  /\ UNCHANGED <<board, pc, adu_driver, image, resume, received, counts, driverVars,
                 flashVars>>

DownloadBegins(img, res) ==
  /\ DownloadCalled(img, res)
  /\ ~adu_driver
  /\ adu_driver' = TRUE
  /\ image' = img
  /\ resume' = res
  /\ pc' = "begun"
  /\ UNCHANGED <<board, received, counts, driverVars, flashVars>>

(* iotc_download has returned an error. *)
GiveUpKeepsDriver ==   \* variant: the pointer is left set
  /\ pc' = "idle"
  /\ UNCHANGED <<board, adu_driver, firmware_ready, image, resume, calls>>

GiveUp ==
  /\ pc' = "idle"
  /\ adu_driver' = FALSE
  /\ UNCHANGED <<board, firmware_ready, image, resume, calls>>

DownloadFails ==
  /\ pc \in {"begun", "fetch"}
  /\ GiveUp
  /\ UNCHANGED <<received, counts, driverVars, flashVars>>

(* After the driver the application's own callback has the last word; then *)
(* the download client settles where to start from.                        *)
SizeReported(accepts) ==
  LET size == ImageSize[image] IN
  IF accepts /\ ~(resume /\ received >= size)
  THEN /\ received' = IF resume THEN received ELSE 0
       /\ counts' = image
       /\ pc' = "fetch"
       /\ UNCHANGED <<board, adu_driver, firmware_ready, image, resume, calls>>
  ELSE GiveUp /\ UNCHANGED <<received, counts>>

(* A chunk was written; the last one makes the firmware ready. *)
Size == Min2(ChunkSize, ImageSize[image] - received)
End == received + Size

ChunkReported(accepts) ==
  /\ IF ~accepts
     THEN GiveUp /\ UNCHANGED received
     ELSE /\ received' = End
          /\ IF End < ImageSize[image]
             THEN UNCHANGED <<pc, firmware_ready>>
             ELSE pc' = "idle" /\ firmware_ready' = TRUE
          /\ UNCHANGED <<board, adu_driver, image, resume, calls>>
  /\ UNCHANGED counts

-----------------------------------------------------------------------------
(* STM32L4.  IOTC_DL_FILE_SIZE: PREPROCESS erases the bank not booted.     *)

ErasedUpToShort(size) ==   \* variant: the last page is forgotten
  (size \div PageSize) * PageSize

ErasedUpTo(size) ==   \* the end of the pages that an image of this size takes
  ((size + PageSize - 1) \div PageSize) * PageSize

SizeEvent(accepts) ==
  LET size == ImageSize[image] IN
  /\ pc = "begun" /\ board = "stm32l4"
  /\ size <= BankSize
  /\ flash' = [flash EXCEPT ![Inactive] =
                [a \in Addresses |-> IF a < ErasedUpTo(size) THEN Erased ELSE @[a]]]
  /\ total_write_size' = size
  /\ remainder_count' = -1
  /\ write_size' = 0
  /\ SizeReported(accepts)
  /\ UNCHANGED <<write_buffer, boot_bank>>

(* The image is too large, or the erasure stopped after some pages. *)
SizeEventFails(pages) ==
  /\ pc = "begun" /\ board = "stm32l4"
  /\ IF ImageSize[image] > BankSize
     THEN UNCHANGED flash
     ELSE flash' = [flash EXCEPT ![Inactive] =
                      [a \in Addresses |-> IF a < pages * PageSize THEN Erased ELSE @[a]]]
  /\ GiveUp
  /\ UNCHANGED <<received, counts, driverVars, boot_bank>>

-----------------------------------------------------------------------------
(* IOTC_DL_DATA: internal_flash_write programs whole words and carries the *)
(* bytes left over, 1 to Word of them, to the next call.                   *)

Carried == IF remainder_count < 0 THEN 0 ELSE remainder_count
Start == received - Carried     \* where the first carried byte belongs

(* Does the carried word get full?  What goes on from there?               *)
CarriedFull == remainder_count >= 0 /\ Carried + Size >= Word
Beyond ==
  IF remainder_count < 0 THEN Size
  ELSE IF CarriedFull THEN Carried + Size - Word ELSE 0
DirectWordsShort ==   \* variant: the loop stops one word early
  IF Beyond > Word THEN (Beyond - 1) \div Word - 1 ELSE 0
DirectWords == IF Beyond > 0 THEN (Beyond - 1) \div Word ELSE 0
Words == DirectWords + IF CarriedFull THEN 1 ELSE 0

RemainderAfterLost ==   \* variant: a word that does not get full is not carried on
  IF Beyond > 0 THEN Beyond - DirectWords * Word ELSE -1

RemainderAfter ==
  IF remainder_count >= 0 /\ ~CarriedFull THEN Carried + Size
  ELSE IF Beyond > 0 THEN Beyond - DirectWords * Word ELSE -1

(* The last word is filled up and programmed when all has been written.    *)
Flushes == RemainderAfter >= 0 /\ write_size + Size >= total_write_size
Programmed == Words + IF Flushes THEN 1 ELSE 0

Content(a) ==
  CASE a < received -> write_buffer[a - Start]
    [] a >= received /\ a < End -> Byte(image, a)
    [] OTHER -> Erased

(* Flash takes a word only at its alignment and where it is erased.        *)
WordAddresses(j) == Start + j * Word .. Start + (j + 1) * Word - 1
Programmable(j) ==
  /\ (Start + j * Word) % Word = 0
  /\ WordAddresses(j) \subseteq Addresses
  /\ \A a \in WordAddresses(j) : flash[Inactive][a] = Erased

FlashAfter(words) ==
  [flash EXCEPT ![Inactive] =
    [a \in Addresses |-> IF a >= Start /\ a < Start + words * Word THEN Content(a) ELSE @[a]]]

(* write_buffer when it last took bytes of this word; what it holds beyond *)
(* remainder_count is not read any more.                                   *)
BufferAfter(words) ==
  [i \in 0 .. Word - 1 |-> Content(Start + words * Word + i)]

DataEvent(accepts) ==
  /\ pc = "fetch" /\ board = "stm32l4"
  /\ \A j \in 0 .. Programmed - 1 : Programmable(j)
  /\ flash' = FlashAfter(Programmed)
  /\ write_size' = write_size + Size
  /\ remainder_count' = IF Flushes THEN Word ELSE RemainderAfter
  /\ write_buffer' = BufferAfter(Words)
  /\ ChunkReported(accepts)
  /\ UNCHANGED <<total_write_size, boot_bank>>

(* Programming stops at some word, which flash refuses. *)
DataEventFails(done) ==
  /\ pc = "fetch" /\ board = "stm32l4"
  /\ done < Programmed
  /\ \A j \in 0 .. done - 1 : Programmable(j)
  /\ flash' = FlashAfter(done)
  /\ write_size' = write_size + Size
  /\ remainder_count' = IF (CarriedFull /\ done = 0) \/ done = Words THEN Word ELSE -1
  /\ write_buffer' = BufferAfter(IF done = Words THEN done ELSE 0)
  /\ GiveUp
  /\ UNCHANGED <<received, counts, total_write_size, boot_bank>>

-----------------------------------------------------------------------------
(* SAM E54.  PREPROCESS does nothing; an image that does not fit is found  *)
(* out by flash_write, which refuses an address beyond the bank.           *)

SizeEventUnchecked(accepts) ==
  /\ pc = "begun" /\ board = "same54"
  /\ SizeReported(accepts)
  /\ UNCHANGED <<driverVars, flashVars>>

OffsetFromZero == 0     \* variant: the offset in the event is not used
Offset == received

Written(n) ==
  [flash EXCEPT ![Inactive] =
    [a \in Addresses |-> IF a >= Offset /\ a < Offset + n
                         THEN Byte(image, received + a - Offset) ELSE @[a]]]

WriteAtOffset(accepts) ==
  /\ pc = "fetch" /\ board = "same54"
  /\ Offset + Size <= BankSize
  /\ flash' = Written(Size)
  /\ ChunkReported(accepts)
  /\ UNCHANGED <<driverVars, boot_bank>>

(* flash_write fails, some of the bytes may have been written. *)
WriteAtOffsetFails(n) ==
  /\ pc = "fetch" /\ board = "same54"
  /\ n < Size
  /\ flash' = Written(n)
  /\ GiveUp
  /\ UNCHANGED <<received, counts, driverVars, boot_bank>>

-----------------------------------------------------------------------------
(* iotc_ota_fw_apply.  On the STM32L4 INSTALL sets the boot bank and APPLY *)
(* resets the board; on the SAM E54 INSTALL does nothing and flash_swap in *)
(* APPLY does both at once.                                                *)

Apply ==
  /\ pc = "idle" /\ board = "stm32l4"
  /\ adu_driver /\ firmware_ready
  /\ boot_bank' = Inactive
  /\ pc' = "applying"
  /\ UNCHANGED <<board, adu_driver, firmware_ready, image, resume, received, counts,
                 calls, driverVars, flash>>

(* The option bytes could not be programmed; flash_swap has returned. *)
ApplyFails ==
  /\ pc = "idle"
  /\ adu_driver /\ firmware_ready
  /\ adu_driver' = FALSE
  /\ firmware_ready' = FALSE
  /\ UNCHANGED <<board, pc, image, resume, received, counts, calls, driverVars,
                 flashVars>>

Cancel ==
  /\ pc = "idle"
  /\ firmware_ready
  /\ adu_driver' = FALSE
  /\ firmware_ready' = FALSE
  /\ UNCHANGED <<board, pc, image, resume, received, counts, calls, driverVars,
                 flashVars>>

(* All that is in memory is lost. *)
Restarted ==
  /\ pc' = "idle"
  /\ adu_driver' = FALSE
  /\ firmware_ready' = FALSE
  /\ image' = None
  /\ resume' = FALSE
  /\ received' = 0
  /\ counts' = None
  /\ total_write_size' = 0
  /\ write_size' = 0
  /\ remainder_count' = 0
  /\ write_buffer' = [i \in 0 .. Word - 1 |-> Erased]
  /\ UNCHANGED <<board, calls, flash>>

(* The reset at the end of iotc_ota_fw_apply, or a power loss at any time. *)
Reset == Restarted /\ UNCHANGED boot_bank

Swap ==
  /\ pc = "idle" /\ board = "same54"
  /\ adu_driver /\ firmware_ready
  /\ boot_bank' = Inactive
  /\ Restarted

-----------------------------------------------------------------------------
Next ==
  \/ \E img \in Images, res \in BOOLEAN : DownloadRefused(img, res) \/ DownloadBegins(img, res)
  \/ \E accepts \in BOOLEAN : SizeEvent(accepts) \/ DataEvent(accepts)
  \/ \E accepts \in BOOLEAN : SizeEventUnchecked(accepts) \/ WriteAtOffset(accepts)
  \/ \E pages \in 0 .. BankSize : SizeEventFails(pages)
  \/ \E done \in 0 .. ChunkSize : DataEventFails(done) \/ WriteAtOffsetFails(done)
  \/ DownloadFails
  \/ Apply
  \/ Swap
  \/ ApplyFails
  \/ Cancel
  \/ Reset

Spec == Init /\ [][Next]_vars

-----------------------------------------------------------------------------
(* Properties. *)

(* Every variable stays within its type; in particular the remainder never *)
(* outgrows the driver's buffer.                                           *)
TypeOK ==
  LET Content_ == [image : Images, pos : Nat] \cup {Erased} IN
  /\ board \in Boards
  /\ pc \in {"idle", "begun", "fetch", "applying"}
  /\ adu_driver \in BOOLEAN /\ firmware_ready \in BOOLEAN /\ resume \in BOOLEAN
  /\ image \in Images \cup {None} /\ counts \in Images \cup {None}
  /\ received \in Nat /\ total_write_size \in 0 .. BankSize /\ write_size \in Nat
  /\ remainder_count \in -1 .. Word
  /\ write_buffer \in [0 .. Word - 1 -> Content_]
  /\ flash \in [Banks -> [Addresses -> Content_]]
  /\ boot_bank \in Banks
  /\ calls \in 0 .. MaxCalls

(* iotc_ota_fw_apply is allowed only when the bank that is not booted      *)
(* holds, byte for byte, all of the image that was asked for: every byte   *)
(* the STM32L4 driver carried from one chunk to the next was programmed in *)
(* time, and a download resumed on the SAM E54 has left no gap.            *)
ReadyMeansWhole ==
  firmware_ready /\ pc = "idle" => adu_driver /\ Holds(Inactive, image)

(* The driver asks the flash for nothing it must refuse: every word of the *)
(* next chunk is aligned, inside the bank and erased.                      *)
WritesAreLegal ==
  pc = "fetch" /\ board = "stm32l4" => \A j \in 0 .. Programmed - 1 : Programmable(j)

(* Between calls the driver pointer is set only if firmware is ready, so   *)
(* that a download, an apply or a cancel is always possible.               *)
NotStuck == pc = "idle" /\ adu_driver => firmware_ready

(* ... and the only step that takes this away is a download called while   *)
(* firmware is ready: no failure, abort or power loss does.                *)
OnlyDownloadSticks ==
  [][NotStuck /\ ~NotStuck' => pc = "idle" /\ firmware_ready /\ calls' = calls + 1]_vars

(* Client and driver together implement FirmwareUpdate: whenever the power *)
(* fails the board boots a whole image, which neither an erasure nor a     *)
(* write damages, and which changes only at one step, to an image staged   *)
(* as a whole.                                                             *)
Booted ==
  IF \E img \in Images : Holds(boot_bank, img)
  THEN CHOOSE img \in Images : Holds(boot_bank, img) ELSE None
Staged == IF firmware_ready /\ pc = "idle" /\ Holds(Inactive, image) THEN image ELSE None

FU == INSTANCE FirmwareUpdate WITH booted <- Booted, staged <- Staged

UpdatesAtomically == FU!Spec

=============================================================================
