------------------------------ MODULE OtaProofs ------------------------------
(***************************************************************************)
(* Proofs about the OTA client and its flash drivers, for images, banks,   *)
(* pages, words and chunks of any size, and any number of downloads.       *)
(***************************************************************************)
EXTENDS OtaFirmware, TLAPS

Contents == [image : Images, pos : Nat] \cup {Erased}

-----------------------------------------------------------------------------
(* No failure sticks: this needs no invariant. *)

(* Only a download called while firmware is ready leaves the client where  *)
(* it refuses every call (azrtos_ota_fw_client.c:85).                      *)
THEOREM NothingElseSticks == Spec => OnlyDownloadSticks
<1>. DEFINE Excuse == pc = "idle" /\ firmware_ready /\ calls' = calls + 1
<1>1. ASSUME [Next]_vars PROVE [NotStuck /\ ~NotStuck' => Excuse]_vars
  <2>. USE DEF NotStuck
  <2>1. ASSUME GiveUp PROVE NotStuck'
    BY <2>1 DEF GiveUp
  <2>2. ASSUME NEW accepts \in BOOLEAN, SizeReported(accepts), pc # "idle" PROVE NotStuck'
    BY <2>1, <2>2 DEF SizeReported
  <2>3. ASSUME NEW accepts \in BOOLEAN, ChunkReported(accepts), pc # "idle" PROVE NotStuck'
    BY <2>1, <2>3 DEF ChunkReported
  <2>4. ASSUME NEW img \in Images, NEW res \in BOOLEAN,
               DownloadRefused(img, res) \/ DownloadBegins(img, res)
        PROVE  NotStuck /\ ~NotStuck' => Excuse
    BY <2>4 DEF DownloadRefused, DownloadBegins, DownloadCalled
  <2>5. ASSUME NEW accepts \in BOOLEAN,
               \/ SizeEvent(accepts) \/ DataEvent(accepts)
               \/ SizeEventUnchecked(accepts) \/ WriteAtOffset(accepts)
        PROVE  NotStuck'
    BY <2>2, <2>3, <2>5 DEF SizeEvent, DataEvent, SizeEventUnchecked, WriteAtOffset
  <2>6. ASSUME NEW n, SizeEventFails(n) \/ DataEventFails(n) \/ WriteAtOffsetFails(n)
        PROVE  NotStuck'
    BY <2>1, <2>6 DEF SizeEventFails, DataEventFails, WriteAtOffsetFails
  <2>7. CASE DownloadFails \/ ApplyFails \/ Cancel \/ Apply \/ Swap \/ Reset
    BY <2>1, <2>7 DEF DownloadFails, ApplyFails, Cancel, Apply, Swap, Reset, Restarted
  <2>. QED  BY <1>1, <2>4, <2>5, <2>6, <2>7 DEF Next
<1>. QED  BY <1>1, PTL DEF Spec, OnlyDownloadSticks

-----------------------------------------------------------------------------
(* The arithmetic of the carried word. *)

LEMMA Sizes ==
  /\ BankSize \in Nat \ {0} /\ PageSize \in Nat \ {0} /\ Word \in Nat \ {0}
  /\ ChunkSize \in Nat \ {0} /\ MaxCalls \in Nat
  /\ \A img \in Images : ImageSize[img] \in Nat \ {0}
BY OtaAssumption

LEMMA DivMod ==
  ASSUME NEW a \in Int, NEW w \in Nat \ {0}
  PROVE  a = w * (a \div w) + (a % w) /\ a % w \in 0 .. w - 1 /\ a \div w \in Int
OBVIOUS

LEMMA DivNat ==
  ASSUME NEW a \in Nat, NEW w \in Nat \ {0}
  PROVE  a \div w \in Nat
OBVIOUS

(* What does not fill the last word, a byte at least, is a word at most.   *)
LEMMA LastWord ==
  ASSUME NEW n \in Nat \ {0}, NEW w \in Nat \ {0}
  PROVE  /\ (n - 1) \div w \in Nat
         /\ n - ((n - 1) \div w) * w \in 1 .. w
<1>. DEFINE d == (n - 1) \div w
            m == (n - 1) % w
<1>1. n - 1 = w * d + m /\ m \in 0 .. w - 1 /\ d \in Nat
  BY DivMod, DivNat
<1>. HIDE DEF d, m
<1>2. w * d = d * w /\ w * d \in Int
  BY <1>1
<1>3. n - d * w = m + 1
  BY <1>1, <1>2
<1>. QED  BY <1>1, <1>3 DEF d

Left(count) == IF count < 0 THEN 0 ELSE count

(* What was carried and the chunk make whole words and what is carried on. *)
LEMMA ChunkSplit ==
  ASSUME remainder_count \in -1 .. Word, Size \in Nat \ {0}
  PROVE  /\ Words \in Nat
         /\ RemainderAfter \in -1 .. Word /\ RemainderAfter # 0
         /\ Words * Word + Left(RemainderAfter) = Carried + Size
         /\ Words * Word \in Nat
<1>. DEFINE s == Size
            d == (Beyond - 1) \div Word
<1>0. Word \in Nat \ {0} /\ s \in Nat \ {0} /\ remainder_count \in -1 .. Word
  BY Sizes
<1>1. CASE remainder_count >= 0 /\ ~CarriedFull
  <2>1. Beyond = 0 /\ DirectWords = 0 /\ Words = 0
    BY <1>0, <1>1 DEF Beyond, DirectWords, Words
  <2>2. RemainderAfter = Carried + s /\ Carried = remainder_count /\ Carried + s < Word
    BY <1>0, <1>1 DEF RemainderAfter, Carried, CarriedFull
  <2>3. Words * Word = 0 /\ Carried + s \in 1 .. Word
    BY <1>0, <1>1, <2>1, <2>2
  <2>4. Left(RemainderAfter) = Carried + s
    BY <2>2, <2>3 DEF Left
  <2>. QED  BY <1>0, <2>1, <2>2, <2>3, <2>4
<1>2. CASE remainder_count < 0
  <2>1. Beyond = s /\ Carried = 0 /\ ~CarriedFull
    BY <1>0, <1>2 DEF Beyond, Carried, CarriedFull
  <2>2. d \in Nat /\ s - d * Word \in 1 .. Word
    BY <1>0, <2>1, LastWord
  <2>3. Words = d /\ RemainderAfter = s - d * Word
    BY <1>0, <1>2, <2>1, <2>2 DEF Words, DirectWords, RemainderAfter
  <2>. HIDE DEF d
  <2>4. d * Word \in Nat
    BY <1>0, <2>2
  <2>. QED  BY <1>0, <2>1, <2>2, <2>3, <2>4 DEF Left
<1>3. CASE CarriedFull
  <2>1. remainder_count >= 0 /\ Carried = remainder_count /\ Carried + s >= Word
    BY <1>0, <1>3 DEF CarriedFull, Carried
  <2>2. Beyond = Carried + s - Word /\ Beyond \in Nat
    BY <1>0, <1>3, <2>1 DEF Beyond
  <2>3. CASE Beyond = 0
    <3>1. DirectWords = 0 /\ Words = 1 /\ RemainderAfter = -1
      BY <1>3, <2>1, <2>3 DEF DirectWords, Words, RemainderAfter
    <3>. QED  BY <1>0, <2>1, <2>2, <2>3, <3>1 DEF Left
  <2>4. CASE Beyond > 0
    <3>1. d \in Nat /\ Beyond - d * Word \in 1 .. Word
      BY <1>0, <2>2, <2>4, LastWord
    <3>2. Words = d + 1 /\ RemainderAfter = Beyond - d * Word
      BY <1>0, <1>3, <2>1, <2>4, <3>1 DEF Words, DirectWords, RemainderAfter
    <3>. HIDE DEF d
    <3>3. (d + 1) * Word = d * Word + Word /\ d * Word \in Nat
      BY <1>0, <3>1
    <3>. QED  BY <1>0, <2>1, <2>2, <3>1, <3>2, <3>3 DEF Left
  <2>. QED  BY <2>2, <2>3, <2>4
<1>. QED  BY <1>0, <1>1, <1>2, <1>3

-----------------------------------------------------------------------------
(* Types, and what is known of the download in each phase. *)

Phase ==
  /\ pc \in {"begun", "fetch"} => image \in Images /\ ~firmware_ready /\ adu_driver
  /\ pc = "fetch" => counts = image /\ received < ImageSize[image]
  /\ pc = "begun" /\ resume => counts \in {image, None}
  /\ counts = None => received = 0

TypeInv == TypeOK /\ Phase

LEMMA NumbersNow ==
  ASSUME TypeOK
  PROVE  /\ received \in Nat /\ write_size \in Nat /\ total_write_size \in 0 .. BankSize
         /\ remainder_count \in -1 .. Word /\ calls \in 0 .. MaxCalls
BY DEF TypeOK

LEMMA InactiveIs ==
  ASSUME boot_bank \in Banks
  PROVE  /\ Inactive \in Banks /\ Inactive # boot_bank
         /\ \A b \in Banks : b = Inactive \/ b = boot_bank
<1>1. \E b \in Banks : b # boot_bank
  BY DEF Banks
<1>2. Inactive \in Banks /\ Inactive # boot_bank
  BY <1>1 DEF Inactive
<1>. QED  BY <1>2 DEF Banks

(* All writing is to the bank that is not booted. *)
LEMMA RowIs ==
  ASSUME TypeOK, NEW row \in [Addresses -> Contents],
         flash' = [flash EXCEPT ![Inactive] = row]
  PROVE  /\ flash' \in [Banks -> [Addresses -> Contents]]
         /\ flash'[Inactive] = row /\ flash'[boot_bank] = flash[boot_bank]
<1>1. flash \in [Banks -> [Addresses -> Contents]] /\ boot_bank \in Banks
  BY DEF TypeOK, Contents
<1>2. Inactive \in Banks /\ Inactive # boot_bank
  BY <1>1, InactiveIs
<1>. QED  BY <1>1, <1>2

LEMMA FlashNow ==
  ASSUME TypeOK
  PROVE  /\ flash \in [Banks -> [Addresses -> Contents]]
         /\ write_buffer \in [0 .. Word - 1 -> Contents] /\ boot_bank \in Banks
         /\ Inactive \in Banks /\ flash[Inactive] \in [Addresses -> Contents]
<1>1. /\ flash \in [Banks -> [Addresses -> Contents]]
      /\ write_buffer \in [0 .. Word - 1 -> Contents] /\ boot_bank \in Banks
  BY DEF TypeOK, Contents
<1>2. Inactive \in Banks
  BY <1>1, InactiveIs
<1>. QED  BY <1>1, <1>2

(* Erasing up to a limit. *)
ErasedRow(limit) == [a \in Addresses |-> IF a < limit THEN Erased ELSE flash[Inactive][a]]

LEMMA ErasedRowType ==
  ASSUME TypeOK, NEW limit
  PROVE  ErasedRow(limit) \in [Addresses -> Contents]
BY FlashNow DEF ErasedRow, Contents

LEMMA ErasedAre ==
  ASSUME TypeOK, NEW limit,
         flash' = [flash EXCEPT ![Inactive] =
                    [a \in Addresses |-> IF a < limit THEN Erased ELSE @[a]]]
  PROVE  /\ flash' \in [Banks -> [Addresses -> Contents]]
         /\ flash'[Inactive] = ErasedRow(limit) /\ flash'[boot_bank] = flash[boot_bank]
<1>1. flash' = [flash EXCEPT ![Inactive] = ErasedRow(limit)]
  BY DEF ErasedRow
<1>. QED  BY <1>1, ErasedRowType, RowIs

(* A chunk is not empty and does not go beyond the end of the image.       *)
LEMMA SizeIs ==
  ASSUME TypeInv, pc = "fetch"
  PROVE  /\ Size \in Nat \ {0} /\ End = received + Size /\ End <= ImageSize[image]
         /\ image \in Images /\ ImageSize[image] \in Nat \ {0} /\ received \in Nat
         /\ received < ImageSize[image] /\ counts = image
<1>1. image \in Images /\ received < ImageSize[image] /\ received \in Nat /\ counts = image
  BY NumbersNow DEF TypeInv, Phase
<1>2. ImageSize[image] \in Nat \ {0} /\ ChunkSize \in Nat \ {0}
  BY <1>1, Sizes
<1>. QED  BY <1>1, <1>2 DEF Size, End, Min2

(* What the STM32L4 driver programs is of the carried bytes, of the chunk  *)
(* or padding.                                                             *)
LEMMA ContentType ==
  ASSUME TypeInv, pc = "fetch", NEW a \in Int, a >= Start
  PROVE  Content(a) \in Contents
<1>1. received \in Nat /\ remainder_count \in -1 .. Word /\ Word \in Nat \ {0} /\ image \in Images
  BY NumbersNow, Sizes, SizeIs DEF TypeInv
<1>2. ASSUME a < received PROVE a - Start \in 0 .. Word - 1
  BY <1>1, <1>2 DEF Start, Carried
<1>3. CASE a < received
  <2>1. Content(a) = write_buffer[a - Start]
    BY <1>1, <1>3 DEF Content
  <2>2. write_buffer \in [0 .. Word - 1 -> Contents]
    BY FlashNow DEF TypeInv
  <2>. QED  BY <1>2, <1>3, <2>1, <2>2
<1>4. CASE a >= received
  BY <1>1, <1>4 DEF Content, Contents, Byte
<1>. QED  BY <1>1, <1>3, <1>4

ProgrammedRow(words) ==
  [a \in Addresses |-> IF a >= Start /\ a < Start + words * Word THEN Content(a)
                       ELSE flash[Inactive][a]]

LEMMA ProgrammedAre ==
  ASSUME TypeInv, pc = "fetch", NEW words, flash' = FlashAfter(words)
  PROVE  /\ flash' \in [Banks -> [Addresses -> Contents]]
         /\ flash'[Inactive] = ProgrammedRow(words) /\ flash'[boot_bank] = flash[boot_bank]
<1>1. flash' = [flash EXCEPT ![Inactive] = ProgrammedRow(words)]
  BY DEF FlashAfter, ProgrammedRow
<1>2. \A a \in Addresses : a >= Start => Content(a) \in Contents
  BY Sizes, ContentType DEF Addresses
<1>3. flash[Inactive] \in [Addresses -> Contents]
  BY FlashNow DEF TypeInv
<1>4. ProgrammedRow(words) \in [Addresses -> Contents]
  BY <1>2, <1>3 DEF ProgrammedRow
<1>. QED  BY <1>1, <1>4, RowIs DEF TypeInv

LEMMA BufferType ==
  ASSUME TypeInv, pc = "fetch", NEW words \in Nat
  PROVE  BufferAfter(words) \in [0 .. Word - 1 -> Contents]
<1>1. Word \in Nat \ {0} /\ received \in Nat /\ remainder_count \in -1 .. Word
  BY Sizes, NumbersNow DEF TypeInv
<1>2. words * Word \in Nat
  BY <1>1
<1>3. Start \in Int
  BY <1>1 DEF Start, Carried
<1>4. \A i \in 0 .. Word - 1 : LET a == Start + words * Word + i IN a \in Int /\ a >= Start
  BY <1>1, <1>2, <1>3
<1>5. \A i \in 0 .. Word - 1 : Content(Start + words * Word + i) \in Contents
  BY <1>4, ContentType
<1>. QED  BY <1>5 DEF BufferAfter

(* What the SAM E54 driver writes. *)
LEMMA WrittenAre ==
  ASSUME TypeInv, pc = "fetch", NEW n, flash' = Written(n)
  PROVE  /\ flash' \in [Banks -> [Addresses -> Contents]]
         /\ flash'[Inactive] = [a \in Addresses |->
              IF a >= received /\ a < received + n THEN Byte(image, a) ELSE flash[Inactive][a]]
         /\ flash'[boot_bank] = flash[boot_bank]
<1>. DEFINE row == [a \in Addresses |->
              IF a >= received /\ a < received + n THEN Byte(image, a) ELSE flash[Inactive][a]]
<1>1. received \in Nat /\ image \in Images /\ BankSize \in Nat
  BY SizeIs, Sizes
<1>2. \A a \in Addresses : received + a - Offset = a /\ a \in Nat
  BY <1>1 DEF Addresses, Offset
<1>3. flash' = [flash EXCEPT ![Inactive] = row]
  BY <1>2 DEF Written, Offset
<1>4. row \in [Addresses -> Contents]
  BY <1>1, <1>2, FlashNow DEF TypeInv, Contents, Byte
<1>. QED  BY <1>3, <1>4, RowIs DEF TypeInv

LEMMA TypeInitially == ASSUME Init PROVE TypeInv
<1>1. Factory \in Images /\ None \notin Images /\ 0 \in 0 .. BankSize /\ 0 \in -1 .. Word
      /\ 0 \in 0 .. MaxCalls
  BY OtaAssumption
<1>2. /\ flash \in [Banks -> [Addresses -> Contents]]
      /\ write_buffer \in [0 .. Word - 1 -> Contents] /\ boot_bank \in Banks
  BY <1>1 DEF Init, Contents, Byte, Addresses, Banks
<1>. QED  BY <1>1, <1>2 DEF Init, TypeInv, TypeOK, Phase, Contents

(* How a download ends or goes on. *)
LEMMA GiveUpPhase ==
  ASSUME TypeInv, GiveUp, UNCHANGED <<received, counts>>
  PROVE  /\ Phase'
         /\ board' \in Boards /\ pc' = "idle"
         /\ adu_driver' \in BOOLEAN /\ firmware_ready' \in BOOLEAN /\ resume' \in BOOLEAN
         /\ image' \in Images \cup {None} /\ counts' \in Images \cup {None}
         /\ received' \in Nat /\ calls' \in 0 .. MaxCalls
BY DEF TypeInv, TypeOK, Phase, GiveUp

LEMMA SizeReportedPhase ==
  ASSUME TypeInv, pc = "begun", NEW accepts \in BOOLEAN, SizeReported(accepts)
  PROVE  /\ Phase'
         /\ board' \in Boards /\ pc' \in {"idle", "fetch"}
         /\ adu_driver' \in BOOLEAN /\ firmware_ready' \in BOOLEAN /\ resume' \in BOOLEAN
         /\ image' \in Images \cup {None} /\ counts' \in Images \cup {None}
         /\ received' \in Nat /\ calls' \in 0 .. MaxCalls
<1>1. image \in Images /\ None \notin Images /\ ImageSize[image] \in Nat \ {0} /\ received \in Nat
  BY OtaAssumption, NumbersNow DEF TypeInv, Phase
<1>2. CASE accepts /\ ~(resume /\ received >= ImageSize[image])
  <2>1. /\ received' = IF resume THEN received ELSE 0
        /\ counts' = image /\ pc' = "fetch"
        /\ UNCHANGED <<board, adu_driver, firmware_ready, image, resume, calls>>
    BY <1>2 DEF SizeReported
  <2>2. received' \in Nat /\ received' < ImageSize[image]
    BY <1>1, <1>2, <2>1
  <2>. QED  BY <1>1, <2>1, <2>2 DEF TypeInv, TypeOK, Phase
<1>3. CASE ~(accepts /\ ~(resume /\ received >= ImageSize[image]))
  <2>1. GiveUp /\ UNCHANGED <<received, counts>>
    BY <1>3 DEF SizeReported
  <2>. QED  BY <2>1, GiveUpPhase
<1>. QED  BY <1>2, <1>3

LEMMA ChunkReportedPhase ==
  ASSUME TypeInv, pc = "fetch", NEW accepts \in BOOLEAN, ChunkReported(accepts)
  PROVE  /\ Phase'
         /\ board' \in Boards /\ pc' \in {"idle", "fetch"}
         /\ adu_driver' \in BOOLEAN /\ firmware_ready' \in BOOLEAN /\ resume' \in BOOLEAN
         /\ image' \in Images \cup {None} /\ counts' \in Images \cup {None}
         /\ received' \in Nat /\ calls' \in 0 .. MaxCalls
<1>1. CASE ~accepts
  <2>1. GiveUp /\ UNCHANGED <<received, counts>>
    BY <1>1 DEF ChunkReported
  <2>. QED  BY <2>1, GiveUpPhase
<1>2. CASE accepts
  <2>1. /\ received' = End
        /\ IF End < ImageSize[image] THEN UNCHANGED <<pc, firmware_ready>>
           ELSE pc' = "idle" /\ firmware_ready' = TRUE
        /\ UNCHANGED <<board, adu_driver, image, resume, calls, counts>>
    BY <1>2 DEF ChunkReported
  <2>2. End \in Nat /\ counts = image /\ image \in Images /\ None \notin Images
    BY SizeIs, OtaAssumption
  <2>3. CASE End < ImageSize[image]
    BY <2>1, <2>2, <2>3 DEF TypeInv, TypeOK, Phase
  <2>4. CASE ~(End < ImageSize[image])
    BY <2>1, <2>2, <2>4 DEF TypeInv, TypeOK, Phase
  <2>. QED  BY <2>3, <2>4
<1>. QED  BY <1>1, <1>2

LEMMA TypeStep == ASSUME TypeInv, [Next]_vars PROVE TypeInv'
<1>0. None \notin Images /\ Word \in Nat \ {0} /\ MaxCalls \in Nat
  BY OtaAssumption
<1>1. ASSUME NEW img \in Images, NEW res \in BOOLEAN,
             DownloadRefused(img, res) \/ DownloadBegins(img, res)
      PROVE  TypeInv'
  <2>1. calls' \in 0 .. MaxCalls
    BY <1>0, <1>1, NumbersNow DEF TypeInv, DownloadRefused, DownloadBegins, DownloadCalled
  <2>2. pc = "idle" /\ (res => counts \in {img, None}) /\ firmware_ready' = FALSE
    BY <1>1 DEF DownloadRefused, DownloadBegins, DownloadCalled
  <2>3. CASE DownloadRefused(img, res)
    BY <2>1, <2>2, <2>3 DEF DownloadRefused, driverVars, flashVars, TypeInv, TypeOK, Phase
  <2>4. CASE DownloadBegins(img, res)
    BY <1>0, <2>1, <2>2, <2>4 DEF DownloadBegins, driverVars, flashVars, TypeInv, TypeOK, Phase
  <2>. QED  BY <1>1, <2>3, <2>4
<1>2. ASSUME NEW accepts \in BOOLEAN, SizeEvent(accepts) PROVE TypeInv'
  <2>1. flash' \in [Banks -> [Addresses -> Contents]]
    BY <1>2, ErasedAre DEF SizeEvent, TypeInv
  <2>2. total_write_size' \in 0 .. BankSize /\ write_size' \in Nat /\ remainder_count' \in -1 .. Word
    <3>1. image \in Images
      BY <1>2 DEF TypeInv, Phase, SizeEvent
    <3>. QED  BY <1>0, <1>2, <3>1, Sizes DEF SizeEvent
  <2>3. Phase'
    BY <1>2, SizeReportedPhase DEF SizeEvent
  <2>4. TypeOK'
    BY <1>2, <2>1, <2>2, SizeReportedPhase DEF SizeEvent, TypeInv, TypeOK, Contents
  <2>. QED  BY <2>3, <2>4 DEF TypeInv
<1>3. ASSUME NEW accepts \in BOOLEAN, DataEvent(accepts) PROVE TypeInv'
  <2>0. pc = "fetch"
    BY <1>3 DEF DataEvent
  <2>1. flash' \in [Banks -> [Addresses -> Contents]]
    BY <1>3, <2>0, ProgrammedAre DEF DataEvent
  <2>2. Size \in Nat \ {0} /\ Words \in Nat /\ RemainderAfter \in -1 .. Word
    BY <2>0, SizeIs, ChunkSplit, NumbersNow DEF TypeInv
  <2>3. write_buffer' \in [0 .. Word - 1 -> Contents]
    BY <1>3, <2>0, <2>2, BufferType DEF DataEvent
  <2>4. write_size' \in Nat
    BY <1>3, <2>2, NumbersNow DEF DataEvent, TypeInv
  <2>5. remainder_count' \in -1 .. Word
    BY <1>0, <1>3, <2>2 DEF DataEvent
  <2>6. TypeOK'
    BY <1>3, <2>0, <2>1, <2>3, <2>4, <2>5, ChunkReportedPhase DEF DataEvent, TypeInv, TypeOK, Contents
  <2>. QED  BY <1>3, <2>0, <2>6, ChunkReportedPhase DEF DataEvent, TypeInv
<1>4. ASSUME NEW pages \in 0 .. BankSize, SizeEventFails(pages) PROVE TypeInv'
  <2>1. flash' \in [Banks -> [Addresses -> Contents]]
    BY <1>4, ErasedAre, FlashNow DEF SizeEventFails, TypeInv
  <2>. QED
    BY <1>4, <2>1, GiveUpPhase DEF SizeEventFails, driverVars, TypeInv, TypeOK, Contents
<1>5. ASSUME NEW done \in 0 .. ChunkSize, DataEventFails(done) PROVE TypeInv'
  <2>0. pc = "fetch" /\ done \in Nat
    BY <1>5, Sizes DEF DataEventFails
  <2>1. flash' \in [Banks -> [Addresses -> Contents]]
    BY <1>5, <2>0, ProgrammedAre DEF DataEventFails
  <2>2. Size \in Nat \ {0}
    BY <2>0, SizeIs
  <2>3. write_buffer' \in [0 .. Word - 1 -> Contents]
    BY <1>5, <2>0, BufferType DEF DataEventFails
  <2>4. write_size' \in Nat
    BY <1>5, <2>2, NumbersNow DEF DataEventFails, TypeInv
  <2>5. remainder_count' \in -1 .. Word
    BY <1>0, <1>5 DEF DataEventFails
  <2>. QED
    BY <1>5, <2>1, <2>3, <2>4, <2>5, GiveUpPhase DEF DataEventFails, TypeInv, TypeOK, Contents
<1>6. ASSUME NEW accepts \in BOOLEAN, SizeEventUnchecked(accepts) PROVE TypeInv'
  BY <1>6, SizeReportedPhase DEF SizeEventUnchecked, driverVars, flashVars, TypeInv, TypeOK
<1>7. ASSUME NEW accepts \in BOOLEAN, WriteAtOffset(accepts) PROVE TypeInv'
  <2>1. flash' \in [Banks -> [Addresses -> Contents]]
    BY <1>7, WrittenAre DEF WriteAtOffset
  <2>. QED
    BY <1>7, <2>1, ChunkReportedPhase DEF WriteAtOffset, driverVars, TypeInv, TypeOK, Contents
<1>8. ASSUME NEW n \in 0 .. ChunkSize, WriteAtOffsetFails(n) PROVE TypeInv'
  <2>1. flash' \in [Banks -> [Addresses -> Contents]]
    BY <1>8, WrittenAre DEF WriteAtOffsetFails
  <2>. QED
    BY <1>8, <2>1, GiveUpPhase DEF WriteAtOffsetFails, driverVars, TypeInv, TypeOK, Contents
<1>9. CASE DownloadFails
  BY <1>9, GiveUpPhase DEF DownloadFails, driverVars, flashVars, TypeInv, TypeOK
<1>10. CASE Apply
  BY <1>10, FlashNow DEF Apply, driverVars, TypeInv, TypeOK, Phase
<1>11. CASE ApplyFails \/ Cancel
  BY <1>11 DEF ApplyFails, Cancel, driverVars, flashVars, TypeInv, TypeOK, Phase
<1>12. CASE Reset \/ Swap
  <2>1. Restarted /\ boot_bank' \in Banks
    BY <1>12, FlashNow DEF Reset, Swap, TypeInv
  <2>2. 0 \in 0 .. BankSize /\ 0 \in -1 .. Word
    BY <1>0, Sizes
  <2>3. write_buffer' \in [0 .. Word - 1 -> Contents]
    BY <2>1 DEF Restarted, Contents
  <2>. QED  BY <2>1, <2>2, <2>3 DEF Restarted, TypeInv, TypeOK, Phase, Contents
<1>13. CASE UNCHANGED vars
  BY <1>13 DEF vars, clientVars, driverVars, flashVars, TypeInv, TypeOK, Phase
<1>. QED
  BY <1>1, <1>2, <1>3, <1>4, <1>5, <1>6, <1>7, <1>8, <1>9, <1>10, <1>11, <1>12, <1>13 DEF Next

(* Every variable has its type; in particular the STM32L4 driver's         *)
(* remainder fits write_buffer whatever the chunks are cut into.           *)
THEOREM TypeCorrect == Spec => []TypeOK
<1>1. Init => TypeInv
  BY TypeInitially
<1>2. TypeInv /\ [Next]_vars => TypeInv'
  BY TypeStep
<1>3. TypeInv => TypeOK
  BY DEF TypeInv
<1>. QED  BY <1>1, <1>2, <1>3, PTL DEF Spec

-----------------------------------------------------------------------------
(* A download under way.  On the STM32L4 the image is in the bank up to    *)
(* the first carried byte, which is where a word begins; then come the     *)
(* carried bytes, in write_buffer, and erased flash.                       *)

FetchedStm ==
  board = "stm32l4" /\ pc = "fetch" /\ ~resume =>
    /\ ImageSize[image] <= BankSize
    /\ total_write_size = ImageSize[image] /\ write_size = received
    /\ remainder_count # 0 /\ Carried <= received
    /\ \E k \in Nat : Start = k * Word
    /\ \A a \in Addresses : a < Start => flash[Inactive][a] = Byte(image, a)
    /\ \A a \in Addresses : Start <= a /\ a < ErasedUpTo(ImageSize[image]) =>
                              flash[Inactive][a] = Erased
    /\ \A b \in 0 .. Carried - 1 : write_buffer[b] = Byte(image, Start + b)

(* On the SAM E54 what file_bytes_received counts is in the bank, also     *)
(* between two downloads.                                                  *)
FetchedSame54 ==
  board = "same54" =>
    /\ received <= BankSize
    /\ counts # None => \A a \in Addresses : a < received => flash[Inactive][a] = Byte(counts, a)

(* The board boots a whole image; Apply leaves only the reset to be done.  *)
Whole(bank) == \E img \in Images : Holds(bank, img)

OtaInv ==
  /\ TypeInv
  /\ FetchedStm /\ FetchedSame54
  /\ Whole(boot_bank)
  /\ firmware_ready /\ pc = "idle" => adu_driver /\ image \in Images /\ Holds(Inactive, image)
  /\ board = "stm32l4" => ~resume

LEMMA StartIs ==
  ASSUME TypeInv
  PROVE  /\ Start \in Int /\ Carried \in Nat /\ Start + Carried = received
         /\ Carried = Left(remainder_count) /\ Carried <= Word
<1>1. received \in Nat /\ remainder_count \in -1 .. Word /\ Word \in Nat \ {0}
  BY NumbersNow, Sizes DEF TypeInv
<1>. QED  BY <1>1 DEF Start, Carried, Left

LEMMA FetchedStmNow ==
  ASSUME OtaInv, pc = "fetch", board = "stm32l4"
  PROVE  /\ ImageSize[image] <= BankSize
         /\ total_write_size = ImageSize[image] /\ write_size = received
         /\ remainder_count # 0 /\ Carried <= received
         /\ \E k \in Nat : Start = k * Word
         /\ \A a \in Addresses : a < Start => flash[Inactive][a] = Byte(image, a)
         /\ \A a \in Addresses : Start <= a /\ a < ErasedUpTo(ImageSize[image]) =>
                                   flash[Inactive][a] = Erased
         /\ \A b \in 0 .. Carried - 1 : write_buffer[b] = Byte(image, Start + b)
BY DEF OtaInv, FetchedStm

LEMMA ContentIs ==
  ASSUME OtaInv, pc = "fetch", board = "stm32l4", NEW a \in Int, Start <= a, a < End
  PROVE  Content(a) = Byte(image, a)
<1>0. /\ Start \in Int /\ Carried \in Nat /\ Start + Carried = received /\ received \in Nat
      /\ End \in Nat
  BY StartIs, SizeIs DEF OtaInv
<1>1. CASE a < received
  <2>1. a - Start \in 0 .. Carried - 1 /\ Start + (a - Start) = a
    BY <1>0, <1>1
  <2>2. Content(a) = write_buffer[a - Start]
    BY <1>0, <1>1 DEF Content
  <2>. QED  BY <2>1, <2>2, FetchedStmNow
<1>2. CASE a >= received
  BY <1>0, <1>2 DEF Content
<1>. QED  BY <1>0, <1>1, <1>2

(* After a chunk that is not the last the same is true, as far as the      *)
(* words go.                                                               *)
LEMMA DataSplit ==
  ASSUME OtaInv, pc = "fetch", board = "stm32l4"
  PROVE  /\ Size \in Nat \ {0} /\ End \in Nat /\ End <= ImageSize[image]
         /\ Words \in Nat /\ Words * Word \in Nat
         /\ RemainderAfter \in -1 .. Word /\ RemainderAfter # 0
         /\ Start + Words * Word + Left(RemainderAfter) = End
         /\ Flushes <=> RemainderAfter >= 0 /\ End = ImageSize[image]
<1>1. /\ Size \in Nat \ {0} /\ End = received + Size /\ received \in Nat
      /\ End <= ImageSize[image] /\ ImageSize[image] \in Nat
  BY SizeIs DEF OtaInv
<1>2. remainder_count \in -1 .. Word
  BY NumbersNow DEF OtaInv, TypeInv
<1>3. /\ Words \in Nat /\ Words * Word \in Nat
      /\ RemainderAfter \in -1 .. Word /\ RemainderAfter # 0
      /\ Words * Word + Left(RemainderAfter) = Carried + Size
  BY <1>1, <1>2, ChunkSplit
<1>4. Start \in Int /\ Carried \in Nat /\ Start + Carried = received
  BY StartIs DEF OtaInv
<1>5. Left(RemainderAfter) \in Nat
  BY <1>3, Sizes DEF Left
<1>6. Start + Words * Word + Left(RemainderAfter) = End
  BY <1>1, <1>3, <1>4, <1>5
<1>7. Flushes <=> RemainderAfter >= 0 /\ End = ImageSize[image]
  BY <1>1, <1>3, FetchedStmNow DEF Flushes
<1>. QED  BY <1>1, <1>3, <1>6, <1>7

-----------------------------------------------------------------------------
(* What the driver programs, the flash may not refuse. *)

LEMMA WordsFit ==   \* a word that begins before the end of an area of words fits into it
  ASSUME NEW w \in Nat \ {0}, NEW k \in Int, NEW n \in Int, k * w < n * w
  PROVE  (k + 1) * w <= n * w /\ (k + 1) * w = k * w + w
<1>1. k < n
  OBVIOUS
<1>2. (k + 1) * w = k * w + w /\ k * w \in Int /\ n * w \in Int
  OBVIOUS
<1>3. n - (k + 1) \in Nat
  BY <1>1
<1>4. (n - (k + 1)) * w = n * w - (k + 1) * w /\ (n - (k + 1)) * w \in Nat
  BY <1>2, <1>3
<1>. QED  BY <1>2, <1>4

LEMMA MultipleOfWords ==
  ASSUME NEW w \in Nat \ {0}, NEW q \in Int
  PROVE  (q * w) % w = 0
OBVIOUS

(* Pages and banks are made of words. *)
LEMMA AreasOfWords ==
  /\ \E n \in Nat : PageSize = n * Word
  /\ \E n \in Nat : BankSize = n * Word
<1>1. /\ Word \in Nat \ {0} /\ PageSize \in Nat \ {0} /\ BankSize \in Nat \ {0}
      /\ PageSize % Word = 0 /\ BankSize % PageSize = 0
  BY OtaAssumption
<1>. DEFINE n == PageSize \div Word
            m == BankSize \div PageSize
<1>2. PageSize = n * Word /\ n \in Nat
  <2>1. PageSize = Word * n + 0 /\ n \in Nat
    BY <1>1, DivMod, DivNat
  <2>. QED  BY <1>1, <2>1
<1>3. BankSize = m * PageSize /\ m \in Nat
  <2>1. BankSize = PageSize * m + 0 /\ m \in Nat
    BY <1>1, DivMod, DivNat
  <2>. QED  BY <1>1, <2>1
<1>. HIDE DEF n, m
<1>4. m * n \in Nat /\ m * (n * Word) = (m * n) * Word
  BY <1>1, <1>2, <1>3
<1>. QED  BY <1>2, <1>3, <1>4

LEMMA ErasedPages ==
  ASSUME NEW size \in Nat \ {0}
  PROVE  ErasedUpTo(size) >= size /\ \E n \in Nat : ErasedUpTo(size) = n * Word
<1>0. PageSize \in Nat \ {0} /\ Word \in Nat \ {0}
  BY Sizes
<1>. DEFINE x == size + PageSize - 1
            d == x \div PageSize
            m == x % PageSize
<1>. HIDE DEF x
<1>1. x \in Nat /\ x - size + 1 = PageSize
  BY <1>0 DEF x
<1>7. x = PageSize * d + m /\ m \in 0 .. PageSize - 1 /\ d \in Nat
  <2>1. d \in Nat
    BY <1>0, <1>1, DivNat
  <2>2. x \in Int
    BY <1>1
  <2>3. x = PageSize * d + m /\ m \in 0 .. PageSize - 1
    BY <1>0, <2>2, DivMod
  <2>. QED  BY <2>1, <2>3
<1>2. ErasedUpTo(size) = d * PageSize
  BY DEF ErasedUpTo, x
<1>. HIDE DEF d, m
<1>3. PageSize * d = d * PageSize /\ d * PageSize \in Nat
  BY <1>0, <1>7
<1>4. d * PageSize >= size
  BY <1>0, <1>1, <1>3, <1>7
<1>5. PICK n \in Nat : PageSize = n * Word
  BY AreasOfWords
<1>6. d * n \in Nat /\ d * (n * Word) = (d * n) * Word
  BY <1>0, <1>5, <1>7
<1>. QED  BY <1>2, <1>4, <1>5, <1>6

LEMMA Legal == ASSUME OtaInv PROVE WritesAreLegal
<1>. SUFFICES ASSUME pc = "fetch", board = "stm32l4", NEW j \in 0 .. Programmed - 1
              PROVE  Programmable(j)
  BY DEF WritesAreLegal
<1>. DEFINE size == ImageSize[image]
<1>0. Word \in Nat \ {0} /\ size \in Nat \ {0} /\ size <= BankSize /\ BankSize \in Nat
  BY SizeIs, Sizes, FetchedStmNow DEF OtaInv
<1>1. /\ End \in Nat /\ End <= size /\ Words \in Nat /\ Words * Word \in Nat
      /\ RemainderAfter \in -1 .. Word /\ RemainderAfter # 0
      /\ Start + Words * Word + Left(RemainderAfter) = End
      /\ Flushes <=> RemainderAfter >= 0 /\ End = size
  BY DataSplit
<1>2. PICK k \in Nat : Start = k * Word
  BY FetchedStmNow
<1>3. j \in Nat /\ j <= Words /\ (j = Words => Flushes)
  BY <1>1 DEF Programmed
<1>. HIDE DEF size
<1>4. Start + j * Word = (k + j) * Word /\ k + j \in Nat /\ k * Word \in Nat /\ j * Word \in Nat
  BY <1>0, <1>2, <1>3
<1>5. (k + j) * Word < size
  <2>1. CASE j < Words
    <3>1. j * Word + Word <= Words * Word
      <4>1. j * Word < Words * Word
        BY <1>0, <1>1, <1>3, <2>1
      <4>. QED  BY <4>1, <1>0, <1>1, <1>3, WordsFit
    <3>2. Left(RemainderAfter) \in Nat
      BY <1>0, <1>1 DEF Left
    <3>. QED  BY <1>0, <1>1, <1>2, <1>4, <3>1, <3>2
  <2>2. CASE j = Words
    <3>1. Left(RemainderAfter) \in Nat \ {0} /\ End = size
      BY <1>0, <1>1, <1>3, <2>2 DEF Left
    <3>. QED  BY <1>0, <1>1, <1>2, <1>4, <2>2, <3>1
  <2>. QED  BY <1>1, <1>3, <2>1, <2>2
<1>6. \A n \in Nat : n * Word >= size => (k + j) * Word + Word <= n * Word
  <2>1. ASSUME NEW n \in Nat, n * Word >= size PROVE (k + j) * Word + Word <= n * Word
    <3>1. n * Word \in Nat /\ (k + j) * Word \in Nat
      BY <1>0, <1>4
    <3>2. (k + j) * Word < n * Word
      BY <1>0, <1>5, <2>1, <3>1
    <3>. QED  BY <1>0, <1>4, <3>2, WordsFit
  <2>. QED  BY <2>1
<1>7. PICK n \in Nat : BankSize = n * Word
  BY AreasOfWords
<1>8. (k + j) * Word + Word <= BankSize
  BY <1>0, <1>6, <1>7
<1>9. (k + j) * Word + Word <= ErasedUpTo(size) /\ ErasedUpTo(size) \in Nat
  <2>1. PICK e \in Nat : ErasedUpTo(size) = e * Word
    BY <1>0, ErasedPages
  <2>2. ErasedUpTo(size) >= size /\ e * Word \in Nat
    BY <1>0, ErasedPages
  <2>. QED  BY <1>6, <2>1, <2>2
<1>10. Start + (j + 1) * Word - 1 = (k + j) * Word + Word - 1
  <2>1. (j + 1) * Word = j * Word + Word
    BY <1>0, <1>3
  <2>. QED  BY <1>0, <1>2, <1>4, <2>1
<1>11. WordAddresses(j) = (k + j) * Word .. (k + j) * Word + Word - 1
  BY <1>4, <1>10 DEF WordAddresses
<1>12. WordAddresses(j) \subseteq Addresses
  BY <1>0, <1>4, <1>8, <1>11 DEF Addresses
<1>13. (k + j) * Word >= Start
  BY <1>2, <1>4
<1>14. \A a \in WordAddresses(j) : flash[Inactive][a] = Erased
  <2>1. ASSUME NEW a \in WordAddresses(j) PROVE flash[Inactive][a] = Erased
    <3>1. a \in Addresses /\ a >= Start /\ a < ErasedUpTo(size) /\ a \in Int
      BY <1>0, <1>2, <1>4, <1>9, <1>11, <1>12, <1>13
    <3>. QED  BY <3>1, FetchedStmNow DEF size
  <2>. QED  BY <2>1
<1>15. (Start + j * Word) % Word = 0
  BY <1>0, <1>4, MultipleOfWords
<1>. QED  BY <1>12, <1>14, <1>15 DEF Programmable

-----------------------------------------------------------------------------
(* Each step keeps the invariant, if the application never resumes a       *)
(* download on the STM32L4 (whose driver erases what was downloaded).      *)

NeverResumed == "stm32l4" \in Boards => Resumes["stm32l4"] \subseteq {FALSE}

LEMMA BootKept ==
  ASSUME TypeInv, Whole(boot_bank), flash'[boot_bank] = flash[boot_bank], UNCHANGED boot_bank
  PROVE  Whole(boot_bank)'
BY DEF Whole, Holds

LEMMA InactiveKept ==
  ASSUME UNCHANGED boot_bank
  PROVE  Inactive' = Inactive
BY DEF Inactive

LEMMA FactoryInstalled == ASSUME Init PROVE Factory \in Images /\ Holds(boot_bank, Factory)
<1>1. \A p \in 0 .. ImageSize[Factory] - 1 : flash[1][p] = Byte(Factory, p)
  <2>1. ImageSize[Factory] \in Nat \ {0} /\ ImageSize[Factory] <= BankSize /\ BankSize \in Nat
    BY OtaAssumption
  <2>2. \A p \in 0 .. ImageSize[Factory] - 1 : p \in Addresses /\ p < ImageSize[Factory]
    BY <2>1 DEF Addresses
  <2>. QED  BY <2>2 DEF Init, Banks
<1>. QED  BY <1>1, OtaAssumption DEF Init, Holds

LEMMA WholeInitially == ASSUME Init PROVE OtaInv
<1>1. TypeInv
  BY TypeInitially
<1>2. Whole(boot_bank)
  BY FactoryInstalled DEF Whole
<1>3. 0 <= BankSize
  BY Sizes
<1>. QED  BY <1>1, <1>2, <1>3 DEF Init, OtaInv, FetchedStm, FetchedSame54

(* The download that gives up has written to the bank not booted at most,  *)
(* and on the SAM E54 not below what was received.                         *)
LEMMA GiveUpKeeps ==
  ASSUME OtaInv, GiveUp, TypeInv', pc \in {"begun", "fetch"},
         UNCHANGED <<received, counts, boot_bank>>, flash'[boot_bank] = flash[boot_bank],
         board = "same54" => \A a \in Addresses : a < received => flash'[Inactive][a] = flash[Inactive][a]
  PROVE  OtaInv'
<1>1. Whole(boot_bank)'
  BY BootKept DEF OtaInv
<1>2. ~firmware_ready' /\ pc' = "idle" /\ UNCHANGED <<board, resume>>
  BY DEF GiveUp, OtaInv, TypeInv, Phase
<1>3. FetchedSame54'
  BY <1>2, InactiveKept DEF OtaInv, FetchedSame54
<1>. QED  BY <1>1, <1>2, <1>3 DEF OtaInv, FetchedStm

LEMMA SizeEventKeeps ==
  ASSUME OtaInv, TypeInv', NEW accepts \in BOOLEAN, SizeEvent(accepts)
  PROVE  OtaInv'
<1>. DEFINE size == ImageSize[image]
<1>0. /\ pc = "begun" /\ board = "stm32l4" /\ ~resume /\ image \in Images /\ ~firmware_ready
      /\ size <= BankSize /\ UNCHANGED <<boot_bank, write_buffer>>
  BY DEF SizeEvent, OtaInv, TypeInv, Phase
<1>1. flash'[Inactive] = ErasedRow(ErasedUpTo(size)) /\ flash'[boot_bank] = flash[boot_bank]
  BY ErasedAre DEF SizeEvent, OtaInv, TypeInv
<1>2. CASE ~accepts
  <2>1. GiveUp /\ UNCHANGED <<received, counts>>
    BY <1>2 DEF SizeEvent, SizeReported
  <2>. QED  BY <1>0, <1>1, <2>1, GiveUpKeeps
<1>3. CASE accepts
  <2>1. /\ received' = 0 /\ pc' = "fetch"
        /\ UNCHANGED <<board, firmware_ready, image, resume>>
    BY <1>0, <1>3 DEF SizeEvent, SizeReported
  <2>2. total_write_size' = size /\ remainder_count' = -1 /\ write_size' = 0
    BY DEF SizeEvent
  <2>3. Carried' = 0 /\ Start' = 0
    BY <2>1, <2>2 DEF Carried, Start
  <2>4. \E k \in Nat : Start' = k * Word
    BY <2>3, Sizes
  <2>5. \A a \in Addresses : 0 <= a /\ a < ErasedUpTo(size) => flash'[Inactive][a] = Erased
    BY <1>1 DEF ErasedRow
  <2>6. Inactive' = Inactive
    BY <1>0, InactiveKept
  <2>7. ErasedUpTo(ImageSize[image])' = ErasedUpTo(size) /\ ImageSize[image]' = size
    BY <2>1 DEF ErasedUpTo
  <2>8. \A a \in Addresses : ~(a < 0)
    BY Sizes DEF Addresses
  <2>9. FetchedStm'
    BY <1>0, <2>1, <2>2, <2>3, <2>4, <2>5, <2>6, <2>7, <2>8 DEF FetchedStm
  <2>10. Whole(boot_bank)'
    BY <1>0, <1>1, BootKept DEF OtaInv
  <2>. QED  BY <1>0, <2>1, <2>9, <2>10 DEF OtaInv, FetchedSame54
<1>. QED  BY <1>2, <1>3

(* The chunk after which more are to come. *)
LEMMA DataGoesOn ==
  ASSUME OtaInv, pc = "fetch", board = "stm32l4", End < ImageSize[image],
         flash' = FlashAfter(Programmed), write_size' = write_size + Size,
         remainder_count' = IF Flushes THEN Word ELSE RemainderAfter,
         write_buffer' = BufferAfter(Words),
         received' = End, UNCHANGED <<image, resume, total_write_size, boot_bank>>
  PROVE  FetchedStm'
<1>. DEFINE size == ImageSize[image]
<1>1. /\ Size \in Nat \ {0} /\ End \in Nat /\ End <= size
      /\ Words \in Nat /\ Words * Word \in Nat
      /\ RemainderAfter \in -1 .. Word /\ RemainderAfter # 0
      /\ Start + Words * Word + Left(RemainderAfter) = End
      /\ ~Flushes
  <2>1. size \in Nat
    BY SizeIs DEF OtaInv
  <2>. QED  BY <2>1, DataSplit
<1>2. remainder_count' = RemainderAfter /\ Programmed = Words
  BY <1>1 DEF Programmed
<1>3. Carried' = Left(RemainderAfter)
  BY <1>2 DEF Carried, Left
<1>4. Word \in Nat \ {0} /\ Left(RemainderAfter) \in 0 .. Word /\ Start \in Int
  BY <1>1, Sizes, StartIs DEF Left, OtaInv
<1>5. Start' = Start + Words * Word
  BY <1>1, <1>3, <1>4 DEF Start
<1>6. PICK k \in Nat : Start = k * Word
  BY FetchedStmNow
<1>7. \E k2 \in Nat : Start' = k2 * Word
  <2>1. k + Words \in Nat /\ k * Word + Words * Word = (k + Words) * Word
    BY <1>1, <1>4, <1>6
  <2>. QED  BY <1>5, <1>6, <2>1
<1>8. Inactive' = Inactive
  BY InactiveKept
<1>9. flash'[Inactive] = ProgrammedRow(Words)
  BY <1>2, ProgrammedAre DEF OtaInv
<1>10. Start' <= End /\ Start <= Start' /\ Start' \in Int
  BY <1>1, <1>4, <1>5
<1>11. ASSUME NEW a \in Addresses, a < Start' PROVE flash'[Inactive][a] = Byte(image, a)
  <2>0. a \in Int
    BY Sizes DEF Addresses
  <2>1. CASE a < Start
    BY <1>4, <1>9, <2>0, <2>1, FetchedStmNow DEF ProgrammedRow
  <2>2. CASE a >= Start
    <3>1. a < End
      BY <1>1, <1>10, <1>11, <2>0
    <3>2. flash'[Inactive][a] = Content(a)
      BY <1>5, <1>9, <1>11, <2>2 DEF ProgrammedRow
    <3>. QED  BY <2>0, <2>2, <3>1, <3>2, ContentIs
  <2>. QED  BY <1>4, <2>0, <2>1, <2>2
<1>12. ASSUME NEW a \in Addresses, Start' <= a, a < ErasedUpTo(size)
       PROVE  flash'[Inactive][a] = Erased
  <2>0. a \in Int
    BY Sizes DEF Addresses
  <2>1. Start <= a /\ ~(a < Start')
    BY <1>4, <1>10, <1>12, <2>0
  <2>2. flash'[Inactive][a] = flash[Inactive][a]
    BY <1>5, <1>9, <2>1 DEF ProgrammedRow
  <2>. QED  BY <1>12, <2>1, <2>2, FetchedStmNow
<1>13. ASSUME NEW b \in 0 .. Carried' - 1 PROVE write_buffer'[b] = Byte(image, Start' + b)
  <2>1. b \in 0 .. Word - 1 /\ b < Left(RemainderAfter) /\ b \in Nat
    BY <1>3, <1>4, <1>13
  <2>2. Start' + b \in Int /\ Start <= Start' + b /\ Start' + b < End
    BY <1>1, <1>4, <1>5, <1>10, <2>1
  <2>3. write_buffer'[b] = Content(Start' + b)
    BY <1>5, <2>1 DEF BufferAfter
  <2>. QED  BY <2>2, <2>3, ContentIs
<1>14. write_size' = received' /\ size <= BankSize /\ total_write_size' = size /\ Carried' <= received'
  <2>1. End = received + Size /\ write_size = received /\ Carried <= received /\ received \in Nat
    BY SizeIs, FetchedStmNow DEF OtaInv
  <2>2. 0 <= Start /\ Carried \in Nat /\ Start + Carried = received
    BY <1>4, <2>1, StartIs DEF OtaInv
  <2>. QED  BY <1>1, <1>3, <1>4, <2>1, <2>2, FetchedStmNow
<1>15. ErasedUpTo(ImageSize[image])' = ErasedUpTo(size) /\ ImageSize[image]' = size
  BY DEF ErasedUpTo
<1>. QED
  BY <1>1, <1>2, <1>7, <1>8, <1>11, <1>12, <1>13, <1>14, <1>15 DEF FetchedStm

(* The last chunk leaves the whole image in the bank. *)
LEMMA DataEnds ==
  ASSUME OtaInv, pc = "fetch", board = "stm32l4", End = ImageSize[image],
         flash' = FlashAfter(Programmed)
  PROVE  \A p \in 0 .. ImageSize[image] - 1 : flash'[Inactive][p] = Byte(image, p)
<1>. DEFINE size == ImageSize[image]
<1>1. /\ End \in Nat /\ Words \in Nat /\ Words * Word \in Nat
      /\ RemainderAfter \in -1 .. Word
      /\ Start + Words * Word + Left(RemainderAfter) = End
      /\ Flushes <=> RemainderAfter >= 0
  BY DataSplit
<1>2. Word \in Nat \ {0} /\ Start \in Int /\ size <= BankSize /\ BankSize \in Nat
  BY Sizes, StartIs, FetchedStmNow DEF OtaInv
<1>3. Start + Programmed * Word >= End
  <2>1. CASE Flushes
    <3>1. Programmed * Word = Words * Word + Word
      BY <1>1, <1>2, <2>1 DEF Programmed
    <3>2. Left(RemainderAfter) \in 0 .. Word
      BY <1>1, <1>2 DEF Left
    <3>. QED  BY <1>1, <1>2, <3>1, <3>2
  <2>2. CASE ~Flushes
    <3>1. Programmed = Words /\ Left(RemainderAfter) = 0
      BY <1>1, <2>2 DEF Programmed, Left
    <3>. QED  BY <1>1, <1>2, <3>1
  <2>. QED  BY <2>1, <2>2
<1>4. flash'[Inactive] = ProgrammedRow(Programmed)
  BY ProgrammedAre DEF OtaInv
<1>5. ASSUME NEW p \in 0 .. size - 1 PROVE flash'[Inactive][p] = Byte(image, p)
  <2>0. p \in Addresses /\ p \in Nat /\ p < End
    BY <1>1, <1>2, <1>5 DEF Addresses
  <2>1. CASE p < Start
    BY <1>2, <1>4, <2>0, <2>1, FetchedStmNow DEF ProgrammedRow
  <2>2. CASE p >= Start
    <3>1. Programmed * Word \in Nat
      <4>1. Programmed \in Nat
        BY <1>1 DEF Programmed
      <4>. QED  BY <1>2, <4>1
    <3>2. p < Start + Programmed * Word
      BY <1>1, <1>2, <1>3, <2>0, <3>1
    <3>3. flash'[Inactive][p] = Content(p)
      BY <1>4, <2>0, <2>2, <3>2 DEF ProgrammedRow
    <3>. QED  BY <2>0, <2>2, <3>3, ContentIs
  <2>. QED  BY <1>2, <2>0, <2>1, <2>2
<1>. QED  BY <1>5

LEMMA DataEventKeeps ==
  ASSUME OtaInv, TypeInv', NEW accepts \in BOOLEAN, DataEvent(accepts)
  PROVE  OtaInv'
<1>0. pc = "fetch" /\ board = "stm32l4" /\ adu_driver /\ image \in Images /\ UNCHANGED boot_bank
  BY DEF DataEvent, OtaInv, TypeInv, Phase
<1>1. flash'[boot_bank] = flash[boot_bank]
  BY <1>0, ProgrammedAre DEF DataEvent, OtaInv
<1>2. CASE ~accepts
  <2>1. GiveUp /\ UNCHANGED <<received, counts>>
    BY <1>2 DEF DataEvent, ChunkReported
  <2>. QED  BY <1>0, <1>1, <2>1, GiveUpKeeps
<1>3. CASE accepts
  <2>1. /\ received' = End
        /\ IF End < ImageSize[image] THEN UNCHANGED <<pc, firmware_ready>>
           ELSE pc' = "idle" /\ firmware_ready' = TRUE
        /\ UNCHANGED <<board, adu_driver, image, resume, calls>>
    BY <1>3 DEF DataEvent, ChunkReported
  <2>2. Whole(boot_bank)'
    BY <1>0, <1>1, BootKept DEF OtaInv
  <2>3. CASE End < ImageSize[image]
    <3>1. FetchedStm'
      BY <1>0, <2>1, <2>3, DataGoesOn DEF DataEvent
    <3>. QED  BY <1>0, <2>1, <2>2, <2>3, <3>1 DEF OtaInv, FetchedSame54, TypeInv, Phase
  <2>4. CASE ~(End < ImageSize[image])
    <3>1. End = ImageSize[image]
      BY <1>0, <2>4, SizeIs DEF OtaInv
    <3>2. \A p \in 0 .. ImageSize[image] - 1 : flash'[Inactive][p] = Byte(image, p)
      BY <1>0, <3>1, DataEnds DEF DataEvent
    <3>3. Holds(Inactive, image)'
      BY <1>0, <2>1, <3>2, InactiveKept, FetchedStmNow DEF Holds
    <3>. QED  BY <1>0, <2>1, <2>2, <2>4, <3>3 DEF OtaInv, FetchedStm, FetchedSame54
  <2>. QED  BY <2>3, <2>4
<1>. QED  BY <1>2, <1>3

LEMMA StmFailures ==
  ASSUME OtaInv, TypeInv', NEW n, SizeEventFails(n) \/ DataEventFails(n)
  PROVE  OtaInv'
<1>1. /\ GiveUp /\ pc \in {"begun", "fetch"} /\ UNCHANGED <<received, counts, boot_bank>>
      /\ board # "same54"
  BY DEF SizeEventFails, DataEventFails
<1>2. flash'[boot_bank] = flash[boot_bank]
  <2>1. CASE SizeEventFails(n)
    BY <2>1, ErasedAre DEF SizeEventFails, OtaInv, TypeInv
  <2>2. CASE DataEventFails(n)
    BY <2>2, ProgrammedAre DEF DataEventFails, OtaInv
  <2>. QED  BY <2>1, <2>2
<1>. QED  BY <1>1, <1>2, GiveUpKeeps

-----------------------------------------------------------------------------
(* The SAM E54. *)

LEMMA SizeUncheckedKeeps ==
  ASSUME OtaInv, TypeInv', NEW accepts \in BOOLEAN, SizeEventUnchecked(accepts)
  PROVE  OtaInv'
<1>0. /\ pc = "begun" /\ board = "same54" /\ UNCHANGED <<flash, boot_bank>>
      /\ image \in Images /\ ~firmware_ready /\ None \notin Images
      /\ resume => counts \in {image, None}
      /\ counts = None => received = 0
  BY OtaAssumption DEF SizeEventUnchecked, flashVars, OtaInv, TypeInv, Phase
<1>1. CASE ~(accepts /\ ~(resume /\ received >= ImageSize[image]))
  <2>1. GiveUp /\ UNCHANGED <<received, counts>>
    BY <1>1 DEF SizeEventUnchecked, SizeReported
  <2>2. Inactive' = Inactive
    BY <1>0, InactiveKept
  <2>. QED  BY <1>0, <2>1, GiveUpKeeps
<1>2. CASE accepts /\ ~(resume /\ received >= ImageSize[image])
  <2>1. /\ received' = IF resume THEN received ELSE 0
        /\ counts' = image /\ pc' = "fetch"
        /\ UNCHANGED <<board, firmware_ready, image, resume>>
    BY <1>2 DEF SizeEventUnchecked, SizeReported
  <2>2. Inactive' = Inactive
    BY <1>0, InactiveKept
  <2>3. Whole(boot_bank)'
    BY <1>0, BootKept DEF OtaInv
  <2>4. FetchedSame54'
    <3>1. CASE resume /\ counts = image
      BY <1>0, <2>1, <2>2, <3>1 DEF OtaInv, FetchedSame54
    <3>2. CASE ~resume \/ counts = None
      <4>1. received' = 0
        BY <1>0, <2>1, <3>2
      <4>2. 0 <= BankSize /\ \A a \in Addresses : ~(a < 0)
        BY Sizes DEF Addresses
      <4>. QED  BY <4>1, <4>2 DEF FetchedSame54
    <3>. QED  BY <1>0, <3>1, <3>2
  <2>. QED  BY <1>0, <2>1, <2>3, <2>4 DEF OtaInv, FetchedStm
<1>. QED  BY <1>1, <1>2

LEMMA WriteAtOffsetKeeps ==
  ASSUME OtaInv, TypeInv', NEW accepts \in BOOLEAN, WriteAtOffset(accepts)
  PROVE  OtaInv'
<1>0. /\ pc = "fetch" /\ board = "same54" /\ adu_driver /\ UNCHANGED boot_bank
      /\ received + Size <= BankSize
  BY DEF WriteAtOffset, OtaInv, TypeInv, Phase, Offset
<1>1. /\ Size \in Nat \ {0} /\ End = received + Size /\ End <= ImageSize[image]
      /\ image \in Images /\ ImageSize[image] \in Nat \ {0} /\ received \in Nat /\ counts = image
  BY <1>0, SizeIs DEF OtaInv
<1>2. /\ flash'[boot_bank] = flash[boot_bank]
      /\ flash'[Inactive] = [a \in Addresses |->
           IF a >= received /\ a < received + Size THEN Byte(image, a) ELSE flash[Inactive][a]]
  BY <1>0, WrittenAre DEF WriteAtOffset, OtaInv
<1>3. \A a \in Addresses : a < received => flash[Inactive][a] = Byte(image, a)
  BY <1>0, <1>1, OtaAssumption DEF OtaInv, FetchedSame54
<1>4. CASE ~accepts
  <2>1. GiveUp /\ UNCHANGED <<received, counts>>
    BY <1>4 DEF WriteAtOffset, ChunkReported
  <2>2. \A a \in Addresses : a < received => flash'[Inactive][a] = flash[Inactive][a]
    BY <1>1, <1>2, Sizes DEF Addresses
  <2>. QED  BY <1>0, <1>2, <2>1, <2>2, GiveUpKeeps
<1>5. CASE accepts
  <2>1. /\ received' = End
        /\ IF End < ImageSize[image] THEN UNCHANGED <<pc, firmware_ready>>
           ELSE pc' = "idle" /\ firmware_ready' = TRUE
        /\ UNCHANGED <<board, adu_driver, image, resume, counts>>
    BY <1>5 DEF WriteAtOffset, ChunkReported
  <2>2. Whole(boot_bank)'
    BY <1>0, <1>2, BootKept DEF OtaInv
  <2>3. \A a \in Addresses : a < End => flash'[Inactive][a] = Byte(image, a)
    <3>1. ASSUME NEW a \in Addresses, a < End PROVE flash'[Inactive][a] = Byte(image, a)
      <4>1. a \in Nat
        BY Sizes DEF Addresses
      <4>2. CASE a < received
        BY <1>1, <1>2, <1>3, <4>1, <4>2
      <4>3. CASE a >= received
        BY <1>1, <1>2, <3>1, <4>1, <4>3
      <4>. QED  BY <1>1, <4>1, <4>2, <4>3
    <3>. QED  BY <3>1
  <2>4. Inactive' = Inactive
    BY <1>0, InactiveKept
  <2>5. FetchedSame54'
    BY <1>0, <1>1, <2>1, <2>3, <2>4 DEF FetchedSame54
  <2>6. CASE End < ImageSize[image]
    BY <1>0, <2>1, <2>2, <2>5, <2>6 DEF OtaInv, FetchedStm, TypeInv, Phase
  <2>7. CASE ~(End < ImageSize[image])
    <3>1. End = ImageSize[image] /\ ImageSize[image] <= BankSize /\ BankSize \in Nat
      BY <1>0, <1>1, <2>7, Sizes
    <3>2. \A p \in 0 .. ImageSize[image] - 1 : p \in Addresses /\ p < End
      BY <1>1, <3>1 DEF Addresses
    <3>3. Holds(Inactive, image)'
      BY <2>1, <2>3, <2>4, <3>1, <3>2 DEF Holds
    <3>. QED  BY <1>0, <1>1, <2>1, <2>2, <2>5, <2>7, <3>3 DEF OtaInv, FetchedStm
  <2>. QED  BY <2>6, <2>7
<1>. QED  BY <1>4, <1>5

LEMMA WriteAtOffsetFailsKeeps ==
  ASSUME OtaInv, TypeInv', NEW n \in 0 .. ChunkSize, WriteAtOffsetFails(n)
  PROVE  OtaInv'
<1>1. /\ GiveUp /\ pc = "fetch" /\ UNCHANGED <<received, counts, boot_bank>>
  BY DEF WriteAtOffsetFails
<1>2. /\ flash'[boot_bank] = flash[boot_bank]
      /\ flash'[Inactive] = [a \in Addresses |->
           IF a >= received /\ a < received + n THEN Byte(image, a) ELSE flash[Inactive][a]]
  BY <1>1, WrittenAre DEF WriteAtOffsetFails, OtaInv
<1>3. \A a \in Addresses : a < received => flash'[Inactive][a] = flash[Inactive][a]
  BY <1>1, <1>2, Sizes, SizeIs DEF Addresses, OtaInv
<1>. QED  BY <1>1, <1>2, <1>3, GiveUpKeeps

-----------------------------------------------------------------------------
LEMMA WholeStep == ASSUME NeverResumed, OtaInv, [Next]_vars PROVE OtaInv'
<1>0. TypeInv'
  BY TypeStep DEF OtaInv
<1>1. ASSUME NEW img \in Images, NEW res \in BOOLEAN,
             DownloadRefused(img, res) \/ DownloadBegins(img, res)
      PROVE  OtaInv'
  <2>1. /\ UNCHANGED <<board, received, counts, flash, boot_bank>>
        /\ firmware_ready' = FALSE /\ pc' \in {"idle", "begun"}
    BY <1>1 DEF DownloadRefused, DownloadBegins, DownloadCalled, flashVars
  <2>2. board = "stm32l4" => ~resume'
    BY <1>1 DEF DownloadRefused, DownloadBegins, DownloadCalled, NeverResumed, OtaInv, TypeInv, TypeOK
  <2>3. Whole(boot_bank)'
    BY <2>1, BootKept DEF OtaInv
  <2>4. FetchedSame54'
    BY <2>1, InactiveKept DEF OtaInv, FetchedSame54
  <2>. QED  BY <1>0, <2>1, <2>2, <2>3, <2>4 DEF OtaInv, FetchedStm
<1>2. ASSUME NEW accepts \in BOOLEAN,
             \/ SizeEvent(accepts) \/ DataEvent(accepts)
             \/ SizeEventUnchecked(accepts) \/ WriteAtOffset(accepts)
      PROVE  OtaInv'
  BY <1>0, <1>2, SizeEventKeeps, DataEventKeeps, SizeUncheckedKeeps, WriteAtOffsetKeeps
<1>3. ASSUME NEW n, SizeEventFails(n) \/ DataEventFails(n) PROVE OtaInv'
  BY <1>0, <1>3, StmFailures
<1>4. ASSUME NEW n \in 0 .. ChunkSize, WriteAtOffsetFails(n) PROVE OtaInv'
  BY <1>0, <1>4, WriteAtOffsetFailsKeeps
<1>5. CASE DownloadFails
  <2>1. Inactive' = Inactive
    BY <1>5, InactiveKept DEF DownloadFails, flashVars
  <2>. QED  BY <1>0, <1>5, <2>1, GiveUpKeeps DEF DownloadFails, flashVars
<1>6. CASE Apply
  <2>1. /\ boot_bank' = Inactive /\ flash' = flash /\ Holds(Inactive, image) /\ image \in Images
        /\ pc' = "applying" /\ board = "stm32l4" /\ UNCHANGED <<board, resume>>
    BY <1>6 DEF Apply, OtaInv
  <2>2. Whole(boot_bank)'
    BY <2>1 DEF Whole, Holds
  <2>. QED  BY <1>0, <2>1, <2>2 DEF OtaInv, FetchedStm, FetchedSame54
<1>7. CASE ApplyFails \/ Cancel
  <2>1. /\ UNCHANGED <<board, pc, resume, received, counts, flash, boot_bank>>
        /\ firmware_ready' = FALSE /\ pc = "idle"
    BY <1>7 DEF ApplyFails, Cancel, flashVars
  <2>2. Whole(boot_bank)' /\ FetchedSame54'
    BY <2>1, BootKept, InactiveKept DEF OtaInv, FetchedSame54
  <2>. QED  BY <1>0, <2>1, <2>2 DEF OtaInv, FetchedStm
<1>8. CASE Reset \/ Swap
  <2>1. /\ Restarted
        /\ boot_bank' = boot_bank \/ (boot_bank' = Inactive /\ Holds(Inactive, image) /\ image \in Images)
    BY <1>8 DEF Reset, Swap, OtaInv
  <2>2. Whole(boot_bank)'
    BY <2>1, BootKept DEF Restarted, OtaInv, Whole, Holds
  <2>3. 0 <= BankSize
    BY Sizes
  <2>. QED  BY <1>0, <2>1, <2>2, <2>3 DEF Restarted, OtaInv, FetchedStm, FetchedSame54
<1>9. CASE UNCHANGED vars
  <2>1. Whole(boot_bank)' /\ Inactive' = Inactive
    BY <1>9, BootKept, InactiveKept DEF vars, flashVars, OtaInv
  <2>2. FetchedSame54'
    BY <1>9, <2>1 DEF vars, clientVars, flashVars, OtaInv, FetchedSame54
  <2>3. FetchedStm'
    BY <1>9, <2>1 DEF vars, clientVars, driverVars, flashVars, OtaInv, FetchedStm, Start, Carried, ErasedUpTo
  <2>4. UNCHANGED <<board, pc, resume, firmware_ready, adu_driver, image, flash>>
    BY <1>9 DEF vars, clientVars, flashVars
  <2>5. Holds(Inactive, image)' = Holds(Inactive, image)
    BY <2>1, <2>4 DEF Holds
  <2>. QED  BY <1>0, <2>1, <2>2, <2>3, <2>4, <2>5 DEF OtaInv
<1>. QED
  BY <1>1, <1>2, <1>3, <1>4, <1>5, <1>6, <1>7, <1>8, <1>9 DEF Next

-----------------------------------------------------------------------------
LEMMA AlwaysWhole == NeverResumed => (Spec => []OtaInv)
<1>1. Init => OtaInv
  BY WholeInitially
<1>2. NeverResumed /\ OtaInv /\ [Next]_vars => OtaInv'
  BY WholeStep
<1>3. CASE NeverResumed
  <2>1. OtaInv /\ [Next]_vars => OtaInv'
    BY <1>2, <1>3
  <2>. QED  BY <1>1, <2>1, PTL DEF Spec
<1>. QED  BY <1>3

(* When iotc_ota_fw_apply is allowed, the bank to be booted holds every    *)
(* byte of the image that was asked for.                                   *)
THEOREM OnlyWholeIsReady == NeverResumed => (Spec => []ReadyMeansWhole)
<1>1. OtaInv => ReadyMeansWhole
  BY DEF OtaInv, ReadyMeansWhole
<1>. QED  BY <1>1, AlwaysWhole, PTL

(* Every word the STM32L4 driver programs is aligned, inside the bank and  *)
(* erased, whatever the sizes of the image and of the chunks.              *)
THEOREM FlashIsObeyed == NeverResumed => (Spec => []WritesAreLegal)
<1>1. OtaInv => WritesAreLegal
  BY Legal
<1>. QED  BY <1>1, AlwaysWhole, PTL

-----------------------------------------------------------------------------
(* The refinement. *)

LEMMA BootedIs ==
  ASSUME NEW img \in Images, Holds(boot_bank, img)
  PROVE  Booted = img
<1>1. ASSUME NEW other \in Images, Holds(boot_bank, other) PROVE other = img
  <2>1. 0 \in 0 .. ImageSize[img] - 1 /\ 0 \in 0 .. ImageSize[other] - 1
    BY Sizes
  <2>2. flash[boot_bank][0] = Byte(img, 0) /\ flash[boot_bank][0] = Byte(other, 0)
    BY <1>1, <2>1 DEF Holds
  <2>. QED  BY <2>2 DEF Byte
<1>. QED  BY <1>1 DEF Booted

LEMMA StagedIs ==
  ASSUME OtaInv
  PROVE  Staged = IF firmware_ready /\ pc = "idle" THEN image ELSE None
BY DEF OtaInv, Staged

LEMMA BootedKept ==
  ASSUME flash'[boot_bank] = flash[boot_bank], UNCHANGED boot_bank
  PROVE  Booted' = Booted
BY DEF Booted, Holds

(* No step but the application of an image writes to the booted bank.      *)
LEMMA BootedBankKept ==
  ASSUME OtaInv, [Next]_vars, ~Apply, ~Swap
  PROVE  flash'[boot_bank] = flash[boot_bank] /\ UNCHANGED boot_bank
<1>1. ASSUME NEW accepts, SizeEvent(accepts) PROVE flash'[boot_bank] = flash[boot_bank] /\ UNCHANGED boot_bank
  BY <1>1, ErasedAre DEF SizeEvent, OtaInv, TypeInv
<1>2. ASSUME NEW accepts, DataEvent(accepts) PROVE flash'[boot_bank] = flash[boot_bank] /\ UNCHANGED boot_bank
  BY <1>2, ProgrammedAre DEF DataEvent, OtaInv
<1>3. ASSUME NEW n, SizeEventFails(n) PROVE flash'[boot_bank] = flash[boot_bank] /\ UNCHANGED boot_bank
  BY <1>3, ErasedAre DEF SizeEventFails, OtaInv, TypeInv
<1>4. ASSUME NEW n, DataEventFails(n) PROVE flash'[boot_bank] = flash[boot_bank] /\ UNCHANGED boot_bank
  BY <1>4, ProgrammedAre DEF DataEventFails, OtaInv
<1>5. ASSUME NEW accepts, WriteAtOffset(accepts) PROVE flash'[boot_bank] = flash[boot_bank] /\ UNCHANGED boot_bank
  BY <1>5, WrittenAre DEF WriteAtOffset, OtaInv
<1>6. ASSUME NEW n, WriteAtOffsetFails(n) PROVE flash'[boot_bank] = flash[boot_bank] /\ UNCHANGED boot_bank
  BY <1>6, WrittenAre DEF WriteAtOffsetFails, OtaInv
<1>7. CASE \/ \E img \in Images, res \in BOOLEAN : DownloadRefused(img, res) \/ DownloadBegins(img, res)
           \/ \E accepts \in BOOLEAN : SizeEventUnchecked(accepts)
           \/ DownloadFails \/ ApplyFails \/ Cancel \/ Reset \/ UNCHANGED vars
  BY <1>7 DEF DownloadRefused, DownloadBegins, SizeEventUnchecked, DownloadFails, ApplyFails, Cancel,
     Reset, Restarted, vars, flashVars
<1>. QED  BY <1>1, <1>2, <1>3, <1>4, <1>5, <1>6, <1>7 DEF Next

(* What is staged is staged by a last chunk and given up as a whole.       *)
LEMMA StagedSteps ==
  ASSUME OtaInv, OtaInv', [Next]_vars
  PROVE  \/ Staged' = None \/ Staged' = Staged
         \/ Staged = None /\ \E img \in Images : Staged' = img
<1>1. CASE ~(firmware_ready /\ pc = "idle")
  <2>1. Staged = None
    BY <1>1, StagedIs
  <2>2. Staged' = None \/ Staged' = image'
    BY DEF Staged
  <2>3. firmware_ready' /\ pc' = "idle" => image' \in Images
    BY DEF OtaInv
  <2>4. ~(firmware_ready' /\ pc' = "idle") => Staged' = None
    BY DEF Staged
  <2>. QED  BY <2>1, <2>2, <2>3, <2>4
<1>2. CASE firmware_ready /\ pc = "idle"
  <2>1. ASSUME firmware_ready' = FALSE \/ pc' # "idle" PROVE Staged' = None
    BY <2>1 DEF Staged
  <2>2. CASE UNCHANGED vars
    BY <2>2 DEF vars, clientVars, flashVars, Staged, Holds, Inactive
  <2>3. ASSUME NEW img \in Images, NEW res \in BOOLEAN,
               DownloadRefused(img, res) \/ DownloadBegins(img, res)
        PROVE  Staged' = None
    BY <2>1, <2>3 DEF DownloadRefused, DownloadBegins, DownloadCalled
  <2>4. CASE Apply \/ Swap \/ ApplyFails \/ Cancel \/ Reset
    BY <2>1, <2>4 DEF Apply, Swap, ApplyFails, Cancel, Reset, Restarted
  <2>. QED
    BY <1>2, <2>2, <2>3, <2>4 DEF Next, SizeEvent, DataEvent, SizeEventUnchecked, WriteAtOffset,
       SizeEventFails, DataEventFails, WriteAtOffsetFails, DownloadFails
<1>. QED  BY <1>1, <1>2

LEMMA StepRefines ==
  ASSUME OtaInv, OtaInv', [Next]_vars
  PROVE  [FU!Next]_FU!fuVars
<1>1. CASE Apply \/ Swap
  <2>1. /\ firmware_ready /\ pc = "idle" /\ image \in Images /\ Holds(Inactive, image)
        /\ boot_bank' = Inactive /\ flash' = flash
        /\ pc' # "idle" \/ ~firmware_ready'
    BY <1>1 DEF Apply, Swap, Restarted, OtaInv
  <2>2. Staged = image /\ image # None /\ Staged' = None
    BY <2>1, OtaAssumption DEF Staged
  <2>3. Booted' = image
    <3>1. \A img \in Images : Holds(boot_bank, img)' <=> Holds(Inactive, img)
      BY <2>1 DEF Holds
    <3>2. \A img \in Images : Holds(Inactive, img) => img = image
      <4>1. ASSUME NEW img \in Images, Holds(Inactive, img) PROVE img = image
        <5>1. 0 \in 0 .. ImageSize[img] - 1 /\ 0 \in 0 .. ImageSize[image] - 1
          BY <2>1, Sizes
        <5>2. flash[Inactive][0] = Byte(img, 0) /\ flash[Inactive][0] = Byte(image, 0)
          BY <2>1, <4>1, <5>1 DEF Holds
        <5>. QED  BY <5>2 DEF Byte
      <4>. QED  BY <4>1
    <3>. QED  BY <2>1, <3>1, <3>2 DEF Booted
  <2>. QED  BY <2>2, <2>3 DEF FU!Next, FU!Switch
<1>2. CASE ~Apply /\ ~Swap
  <2>1. Booted' = Booted
    BY <1>2, BootedBankKept, BootedKept
  <2>2. CASE Staged' = Staged
    BY <2>1, <2>2 DEF FU!fuVars
  <2>3. CASE Staged' = None /\ Staged # None
    BY <2>1, <2>3 DEF FU!Next, FU!Discard
  <2>4. ASSUME Staged = None, NEW img \in Images, Staged' = img PROVE FU!Next
    BY <2>1, <2>4 DEF FU!Next, FU!Stage
  <2>. QED  BY StagedSteps, <2>2, <2>3, <2>4
<1>. QED  BY <1>1, <1>2

LEMMA InitRefines == ASSUME Init PROVE FU!Init
<1>1. Booted = Factory
  BY FactoryInstalled, BootedIs
<1>2. Staged = None
  BY DEF Init, Staged
<1>. QED  BY <1>1, <1>2 DEF FU!Init

(* Client and drivers implement FirmwareUpdate: through every failure and  *)
(* loss of power the board boots a whole image, and another one only by a  *)
(* single step when that was wholly in the other bank.                     *)
THEOREM UpdatesAreAtomic == NeverResumed => (Spec => UpdatesAtomically)
<1>1. OtaInv /\ OtaInv' /\ [Next]_vars => [FU!Next]_FU!fuVars
  BY StepRefines
<1>2. Init => FU!Init
  BY InitRefines
<1>. QED  BY <1>1, <1>2, AlwaysWhole, PTL DEF Spec, UpdatesAtomically, FU!Spec
=============================================================================
