-------------------------- MODULE SecureBootProofs --------------------------
(***************************************************************************)
(* Proofs about secure boot, for any number of refusals and power losses.  *)
(***************************************************************************)
EXTENDS SecureBoot, TLAPS

(* What the main thread does to the key block. *)
BootNext ==
  \/ BootStep
  \/ SoftwareReset \/ PowerCycle \/ PowerFails
  \/ boot # "write" /\ Restarted /\ UNCHANGED <<flash, main_cut, faults>>

NoHash == <<"no", "hash">>
Lifecycles == {"blank", "updating", "on the market", "other"}
Keys == {"encrypted", "generated", "torn", "none"}

(* The block the device comes with, and those that key generation made.    *)
Delivered(b) == b.lifecycle = "blank" /\ b.keys = "encrypted"
Made(b) == b.lifecycle # "blank" /\ b.keys # "encrypted"
WhollyWritten(b) == HashOk(b) /\ (Delivered(b) \/ b.keys = "generated")

(* Where an image is about to be written, being written, or was written    *)
(* for another reason than the installation.                               *)
Copying == boot \in {"erase", "write"}
Settled ==
  \/ boot \in {"check", "success", "broken", "over the limit"}
  \/ Copying /\ task # "install"

(* Main is replaced by a made block and by nothing else; the mirror is     *)
(* never anything else; before a boot is through with its checks main is   *)
(* a made block.                                                           *)
InPlace ==
  /\ Delivered(flash["main"]) \/ Made(flash["main"])
  /\ flash["mirror"] = Zeros \/ Made(flash["mirror"])
  /\ boot \in {"status", "generate"} => image = flash["main"]
  /\ Copying \/ boot \in {"check", "success", "broken", "over the limit", "reset"}
       => Made(image)
  /\ Settled => Made(flash["main"])
  /\ released => Made(flash["main"])
  /\ boot = "generate" => Delivered(flash["main"])

(* A hash is right or missing. *)
Hashes ==
  /\ HashOk(image) \/ image.hash = NoHash
  /\ \A c \in Copies : HashOk(flash[c]) \/ flash[c].hash = NoHash

(* Unless an update of main was cut short, main and the image are whole.   *)
MainIsWhole ==
  ~main_cut =>
    /\ ~(boot = "write" /\ copy = "main") => WhollyWritten(flash["main"])
    /\ boot # "restore" => WhollyWritten(image)

Recovering == Copying /\ task = "recover" => retry_counter < MAX_RETRY

BootInv ==
  /\ BootTypeOK
  /\ InPlace
  /\ Hashes
  /\ MainIsWhole
  /\ Recovering
  /\ boot = "success" => flash["mirror"] = image
  /\ boot = "broken" => main_cut

-----------------------------------------------------------------------------
LEMMA BlocksAre == Blocks = [lifecycle : Lifecycles, keys : Keys,
                             hash : {NoHash} \cup (Lifecycles \X Keys)]
BY DEF Blocks, Lifecycles, Keys, NoHash

LEMMA HashedIs ==
  ASSUME NEW l \in Lifecycles, NEW k \in Keys
  PROVE  /\ Hashed(l, k) \in Blocks /\ HashOk(Hashed(l, k))
         /\ Hashed(l, k).lifecycle = l /\ Hashed(l, k).keys = k
BY BlocksAre DEF Hashed, HashOk, Sha

LEMMA UnhashedIs ==
  ASSUME NEW l \in Lifecycles, NEW k \in Keys
  PROVE  /\ Unhashed(l, k) \in Blocks /\ Unhashed(l, k).hash = NoHash
         /\ Unhashed(l, k).lifecycle = l /\ Unhashed(l, k).keys = k
BY BlocksAre DEF Unhashed, NoHash

(* No content has the hash that is missing, and a hash belongs to one.     *)
LEMMA SameHash ==
  ASSUME NEW a \in Blocks, NEW b \in Blocks, HashOk(b) \/ b.hash = NoHash,
         b.hash = Sha(a), HashOk(a)
  PROVE  a = b
<1>1. /\ a.lifecycle \in Lifecycles /\ a.keys \in Keys
      /\ b.lifecycle \in Lifecycles /\ b.keys \in Keys
  BY BlocksAre
<1>2. "no" \notin Lifecycles
  BY DEF Lifecycles
<1>3. Sha(a) # NoHash
  BY <1>1, <1>2 DEF Sha, NoHash
<1>4. HashOk(b)
  BY <1>3
<1>5. a.lifecycle = b.lifecycle /\ a.keys = b.keys /\ a.hash = b.hash
  BY <1>4 DEF HashOk, Sha
<1>. QED  BY <1>5, BlocksAre

(* What an update that is cut short leaves of a made block. *)
LEMMA CutsAre ==
  ASSUME NEW b \in Blocks, Made(b), NEW c \in Cuts(b)
  PROVE  c \in Blocks /\ Made(c) /\ c.hash = NoHash
<1>1. b.lifecycle \in Lifecycles /\ b.keys \in Keys
  BY BlocksAre
<1>2. "torn" \in Keys /\ "other" \in Lifecycles
  BY DEF Keys, Lifecycles
<1>3. CASE c = Unhashed("other", "torn")
  BY <1>2, <1>3, UnhashedIs DEF Made
<1>4. CASE c = Unhashed(b.lifecycle, "torn")
  BY <1>1, <1>2, <1>4, UnhashedIs DEF Made
<1>5. CASE c = Unhashed(b.lifecycle, b.keys)
  BY <1>1, <1>5, UnhashedIs DEF Made
<1>. QED  BY <1>3, <1>4, <1>5 DEF Cuts, Erased

LEMMA BootInitially == ASSUME BootInit PROVE BootInv
<1>1. "blank" \in Lifecycles /\ "encrypted" \in Keys /\ "none" \in Keys
  BY DEF Lifecycles, Keys
<1>2. /\ flash["main"] = Hashed("blank", "encrypted") /\ flash["mirror"] = Zeros /\ image = Zeros
      /\ flash \in [Copies -> Blocks]
  BY <1>1, HashedIs, UnhashedIs DEF BootInit, Copies, Zeros
<1>3. /\ HashOk(flash["main"]) /\ flash["mirror"].hash = NoHash /\ image.hash = NoHash
      /\ Delivered(flash["main"]) /\ image \in Blocks
  BY <1>1, <1>2, HashedIs, UnhashedIs DEF Zeros, Delivered
<1>4. faults \in 0 .. MaxFaults /\ retry_counter \in 0 .. MAX_RETRY /\ generations \in Nat
  BY SecureBootAssumption DEF BootInit, MAX_RETRY
<1>5. BootTypeOK
  BY <1>2, <1>3, <1>4 DEF BootInit, BootTypeOK, Copies
<1>. QED
  BY <1>2, <1>3, <1>5 DEF BootInit, BootInv, InPlace, Hashes, MainIsWhole, Recovering, Copies,
     WhollyWritten, Settled, Copying

-----------------------------------------------------------------------------
(* Each step keeps the invariant. *)

LEMMA BlocksNow ==
  ASSUME BootTypeOK
  PROVE  /\ image \in Blocks /\ flash["main"] \in Blocks /\ flash["mirror"] \in Blocks
         /\ \A b \in Blocks, c \in Copies : [flash EXCEPT ![c] = b] \in [Copies -> Blocks]
BY DEF BootTypeOK, Copies

LEMMA FieldsNow ==
  ASSUME NEW b \in Blocks
  PROVE  b.lifecycle \in Lifecycles /\ b.keys \in Keys
BY BlocksAre

(* A copy of an image takes one of three ways out. *)
LEMMA AfterUpdateIs ==
  ASSUME BootTypeOK, AfterUpdate
  PROVE  /\ boot' \in {"check", "erase", "reset"}
         /\ copy' \in Copies
         /\ boot' = "check" => task # "install"
         /\ boot' = "erase" => task # "recover" /\ copy' = "mirror"
         /\ retry_counter' = IF task = "recover" THEN retry_counter + 1 ELSE retry_counter
BY DEF BootTypeOK, AfterUpdate, Copies

LEMMA AfterUpdateType ==
  ASSUME BootInv, AfterUpdate, Copying
  PROVE  retry_counter' \in 0 .. MAX_RETRY
<1>1. retry_counter \in 0 .. MAX_RETRY
  BY DEF BootInv, BootTypeOK
<1>2. task = "recover" => retry_counter < MAX_RETRY
  BY DEF BootInv, Recovering
<1>3. retry_counter' = IF task = "recover" THEN retry_counter + 1 ELSE retry_counter
  BY AfterUpdateIs DEF BootInv
<1>. QED  BY <1>1, <1>2, <1>3 DEF MAX_RETRY

LEMMA FaultType ==
  ASSUME BootTypeOK, Fault
  PROVE  faults' \in 0 .. MaxFaults
<1>1. faults \in 0 .. MaxFaults
  BY DEF BootTypeOK
<1>2. faults < MaxFaults /\ faults' = faults + 1
  BY DEF Fault
<1>. QED  BY <1>1, <1>2, SecureBootAssumption

LEMMA BootUnchanged == ASSUME BootInv, UNCHANGED bootVars PROVE BootInv'
<1>1. BootTypeOK'
  BY DEF BootInv, BootTypeOK, bootVars
<1>2. InPlace' /\ Recovering'
  BY DEF BootInv, InPlace, Recovering, bootVars, Settled, Copying, Delivered, Made
<1>3. Hashes' /\ MainIsWhole'
  BY DEF BootInv, Hashes, MainIsWhole, bootVars, WhollyWritten, HashOk, Sha, Delivered
<1>. QED  BY <1>1, <1>2, <1>3 DEF BootInv, bootVars

LEMMA RestoreKeeps == ASSUME BootInv, Restore PROVE BootInv'
<1>1. BootTypeOK'
  BY BlocksNow DEF BootInv, Restore, BootTypeOK, MAX_RETRY
<1>2. InPlace' /\ Recovering'
  BY DEF BootInv, Restore, InPlace, Recovering, Settled, Copying, Made, Delivered
<1>3. Hashes'
  BY DEF BootInv, Restore, Hashes, HashOk, Sha, Copies
<1>4. MainIsWhole'
  BY DEF BootInv, Restore, MainIsWhole, WhollyWritten, HashOk, Sha, Delivered
<1>. QED  BY <1>1, <1>2, <1>3, <1>4 DEF BootInv, Restore

LEMMA BlankKeeps == ASSUME BootInv, Blank PROVE BootInv'
<1>1. BootTypeOK'
  BY DEF BootInv, Blank, BootTypeOK
<1>2. InPlace' /\ Recovering'
  BY DEF BootInv, Blank, InPlace, Recovering, Settled, Copying, Made, Delivered
<1>3. Hashes' /\ MainIsWhole'
  BY DEF BootInv, Blank, Hashes, MainIsWhole, WhollyWritten, HashOk, Sha, Delivered
<1>. QED  BY <1>1, <1>2, <1>3 DEF BootInv, Blank

LEMMA UpdatingKeeps == ASSUME BootInv, Updating PROVE BootInv'
<1>1. image \in Blocks /\ image.lifecycle = "updating" /\ image = flash["main"]
  BY BlocksNow DEF BootInv, Updating, InPlace
<1>2. Made(image) /\ Made(flash["main"])
  BY <1>1 DEF BootInv, InPlace, Made, Delivered
<1>3. "on the market" \in Lifecycles /\ image.keys \in Keys
  BY <1>1, FieldsNow DEF Lifecycles
<1>4. image' = Hashed("on the market", image.keys)
  BY DEF Updating, ToInstall, Released
<1>5. image' \in Blocks /\ HashOk(image') /\ image'.keys = image.keys /\ Made(image')
  BY <1>2, <1>3, <1>4, HashedIs DEF Made
<1>6. ~main_cut => WhollyWritten(image')
  BY <1>2, <1>5 DEF BootInv, MainIsWhole, WhollyWritten, Made, Delivered, Updating
<1>7. BootTypeOK'
  BY <1>5 DEF BootInv, Updating, Update, BootTypeOK, Copies
<1>8. InPlace' /\ Recovering'
  BY <1>2, <1>5 DEF BootInv, Updating, Update, InPlace, Recovering, Settled, Copying, Made, Delivered
<1>9. Hashes' /\ MainIsWhole'
  BY <1>5, <1>6 DEF BootInv, Updating, Update, Hashes, MainIsWhole, WhollyWritten, HashOk, Sha, Delivered
<1>. QED  BY <1>7, <1>8, <1>9 DEF BootInv, Updating, Update

LEMMA CheckedKeeps == ASSUME BootInv, OnTheMarket \/ Illegal PROVE BootInv'
<1>1. BootTypeOK'
  BY DEF BootInv, OnTheMarket, Illegal, BootTypeOK
<1>2. Made(image) /\ Made(flash["main"])
  BY DEF BootInv, OnTheMarket, Illegal, InPlace, Made, Delivered
<1>3. InPlace' /\ Recovering'
  BY <1>2 DEF BootInv, OnTheMarket, Illegal, InPlace, Recovering, Settled, Copying, Made, Delivered
<1>4. Hashes' /\ MainIsWhole'
  BY DEF BootInv, OnTheMarket, Illegal, Hashes, MainIsWhole, WhollyWritten, HashOk, Sha, Delivered
<1>. QED  BY <1>1, <1>3, <1>4 DEF BootInv, OnTheMarket, Illegal

LEMMA GenerateKeeps == ASSUME BootInv, Generate PROVE BootInv'
<1>1. "updating" \in Lifecycles /\ "generated" \in Keys
  BY DEF Lifecycles, Keys
<1>2. image' = Hashed("updating", "generated")
  BY DEF Generate, ToInstall, Generated
<1>3. image' \in Blocks /\ Made(image') /\ WhollyWritten(image')
  BY <1>1, <1>2, HashedIs DEF Made, WhollyWritten
<1>4. generations' \in Nat
  BY DEF BootInv, BootTypeOK, Generate
<1>5. BootTypeOK'
  BY <1>3, <1>4 DEF BootInv, Generate, Update, BootTypeOK, Copies
<1>6. InPlace' /\ Recovering'
  BY <1>3 DEF BootInv, Generate, Update, InPlace, Recovering, Settled, Copying, Made, Delivered
<1>7. Hashes' /\ MainIsWhole'
  BY <1>3 DEF BootInv, Generate, Update, Hashes, MainIsWhole, WhollyWritten, HashOk, Sha, Delivered
<1>. QED  BY <1>5, <1>6, <1>7 DEF BootInv, Generate, Update

LEMMA GenerateFailsKeeps == ASSUME BootInv, GenerateFails PROVE BootInv'
<1>1. BootTypeOK'
  BY FaultType DEF BootInv, GenerateFails, BootTypeOK
<1>2. InPlace' /\ Recovering'
  BY DEF BootInv, GenerateFails, InPlace, Recovering, Settled, Copying, Made, Delivered
<1>3. Hashes' /\ MainIsWhole'
  BY DEF BootInv, GenerateFails, Hashes, MainIsWhole, WhollyWritten, HashOk, Sha, Delivered
<1>. QED  BY <1>1, <1>2, <1>3 DEF BootInv, GenerateFails

LEMMA EraseKeeps == ASSUME BootInv, Erase PROVE BootInv'
<1>1. Erased \in Blocks /\ Made(Erased) /\ Erased.hash = NoHash
  BY UnhashedIs DEF Erased, Lifecycles, Keys, Made
<1>2. copy \in Copies /\ flash \in [Copies -> Blocks]
  BY DEF BootInv, BootTypeOK
<1>3. flash' = [flash EXCEPT ![copy] = Erased]
  BY DEF Erase
<1>4. /\ flash' \in [Copies -> Blocks] /\ flash'[copy] = Erased
      /\ \A c \in Copies : c # copy => flash'[c] = flash[c]
  BY <1>1, <1>2, <1>3
<1>5. BootTypeOK'
  BY <1>4 DEF BootInv, Erase, BootTypeOK
<1>6. InPlace' /\ Recovering'
  BY <1>1, <1>2, <1>4 DEF BootInv, Erase, InPlace, Recovering, Settled, Copying, Made, Delivered, Copies
<1>7. Hashes'
  BY <1>1, <1>4 DEF BootInv, Erase, Hashes, HashOk, Sha
<1>8. MainIsWhole'
  BY <1>2, <1>4 DEF BootInv, Erase, MainIsWhole, WhollyWritten, HashOk, Sha, Delivered, Copies
<1>. QED  BY <1>5, <1>6, <1>7, <1>8 DEF BootInv, Erase

LEMMA EraseFailsKeeps == ASSUME BootInv, EraseFails PROVE BootInv'
<1>1. /\ boot' \in {"check", "erase", "reset"} /\ copy' \in Copies
      /\ boot' = "check" => task # "install"
      /\ boot' = "erase" => task # "recover"
  BY AfterUpdateIs DEF BootInv, EraseFails
<1>2. retry_counter' \in 0 .. MAX_RETRY
  BY AfterUpdateType DEF EraseFails, Copying
<1>3. faults' \in 0 .. MaxFaults
  BY FaultType DEF BootInv, EraseFails
<1>4. BootTypeOK'
  BY <1>1, <1>2, <1>3 DEF BootInv, EraseFails, BootTypeOK
<1>5. InPlace' /\ Recovering'
  BY <1>1 DEF BootInv, EraseFails, InPlace, Recovering, Settled, Copying, Made, Delivered
<1>6. Hashes' /\ MainIsWhole'
  BY <1>1 DEF BootInv, EraseFails, Hashes, MainIsWhole, WhollyWritten, HashOk, Sha, Delivered
<1>. QED  BY <1>1, <1>4, <1>5, <1>6 DEF BootInv, EraseFails

LEMMA WriteKeeps == ASSUME BootInv, Write PROVE BootInv'
<1>1. /\ boot' \in {"check", "erase", "reset"} /\ copy' \in Copies
      /\ boot' = "check" => task # "install"
      /\ boot' = "erase" => task # "recover"
  BY AfterUpdateIs DEF BootInv, Write
<1>2. retry_counter' \in 0 .. MAX_RETRY
  BY AfterUpdateType DEF Write, Copying
<1>3. copy \in Copies /\ flash \in [Copies -> Blocks] /\ image \in Blocks /\ Made(image)
  BY BlocksNow DEF BootInv, BootTypeOK, InPlace, Write, Copying
<1>4. flash' = [flash EXCEPT ![copy] = image]
  BY DEF Write
<1>5. /\ flash' \in [Copies -> Blocks] /\ flash'[copy] = image
      /\ \A c \in Copies : c # copy => flash'[c] = flash[c]
  BY <1>3, <1>4
<1>6. BootTypeOK'
  BY <1>1, <1>2, <1>5 DEF BootInv, Write, BootTypeOK
<1>7. InPlace' /\ Recovering'
  BY <1>1, <1>3, <1>5 DEF BootInv, Write, InPlace, Recovering, Settled, Copying, Made, Delivered, Copies
<1>8. Hashes'
  BY <1>5 DEF BootInv, Write, Hashes, HashOk, Sha
<1>9. MainIsWhole'
  BY <1>1, <1>3, <1>5 DEF BootInv, Write, MainIsWhole, WhollyWritten, HashOk, Sha, Delivered, Copies
<1>. QED  BY <1>1, <1>6, <1>7, <1>8, <1>9 DEF BootInv, Write

(* A copy that is cut short, by the flash or by the power. *)
LEMMA CutShortIs ==
  ASSUME BootInv, boot = "write", CutShort
  PROVE  /\ flash' \in [Copies -> Blocks] /\ main_cut' \in BOOLEAN
         /\ Made(flash'[copy]) /\ flash'[copy].hash = NoHash
         /\ \A c \in Copies : c # copy => flash'[c] = flash[c]
         /\ copy \in Copies
         /\ ~main_cut' => ~main_cut /\ copy # "main"
<1>1. copy \in Copies /\ flash \in [Copies -> Blocks] /\ image \in Blocks /\ Made(image)
      /\ main_cut \in BOOLEAN
  BY BlocksNow DEF BootInv, BootTypeOK, InPlace, Copying
<1>2. PICK b \in Cuts(image) : flash' = [flash EXCEPT ![copy] = b]
  BY DEF CutShort
<1>3. b \in Blocks /\ Made(b) /\ b.hash = NoHash
  BY <1>1, <1>2, CutsAre
<1>. QED  BY <1>1, <1>2, <1>3 DEF CutShort

LEMMA WriteFailsKeeps == ASSUME BootInv, WriteFails PROVE BootInv'
<1>1. /\ boot' \in {"check", "erase", "reset"} /\ copy' \in Copies
      /\ boot' = "check" => task # "install"
      /\ boot' = "erase" => task # "recover"
  BY AfterUpdateIs DEF BootInv, WriteFails
<1>2. retry_counter' \in 0 .. MAX_RETRY
  BY AfterUpdateType DEF WriteFails, Copying
<1>3. faults' \in 0 .. MaxFaults
  BY FaultType DEF BootInv, WriteFails
<1>4. /\ flash' \in [Copies -> Blocks] /\ main_cut' \in BOOLEAN
      /\ Made(flash'[copy]) /\ flash'[copy].hash = NoHash
      /\ \A c \in Copies : c # copy => flash'[c] = flash[c]
      /\ copy \in Copies
      /\ ~main_cut' => ~main_cut /\ copy # "main"
  BY CutShortIs DEF WriteFails
<1>5. BootTypeOK'
  BY <1>1, <1>2, <1>3, <1>4 DEF BootInv, WriteFails, BootTypeOK
<1>6. InPlace' /\ Recovering'
  BY <1>1, <1>4 DEF BootInv, WriteFails, InPlace, Recovering, Settled, Copying, Made, Delivered, Copies
<1>7. Hashes'
  BY <1>4 DEF BootInv, WriteFails, Hashes, HashOk, Sha
<1>8. MainIsWhole'
  BY <1>1, <1>4 DEF BootInv, WriteFails, MainIsWhole, WhollyWritten, HashOk, Sha, Delivered, Copies
<1>. QED  BY <1>1, <1>5, <1>6, <1>7, <1>8 DEF BootInv, WriteFails

LEMMA CheckPassedKeeps == ASSUME BootInv, CheckPassed PROVE BootInv'
<1>1. image \in Blocks /\ flash["mirror"] \in Blocks
  BY BlocksNow DEF BootInv
<1>2. flash["mirror"] = image
  BY <1>1, SameHash DEF CheckPassed, MainOk, MirrorOk, BootInv, Hashes, Copies
<1>3. BootTypeOK'
  BY DEF BootInv, CheckPassed, BootTypeOK
<1>4. Made(image) /\ Made(flash["main"])
  BY DEF BootInv, InPlace, CheckPassed, Checking, Settled
<1>5. InPlace' /\ Recovering'
  BY <1>4 DEF BootInv, CheckPassed, InPlace, Recovering, Settled, Copying, Made, Delivered
<1>6. Hashes' /\ MainIsWhole'
  BY DEF BootInv, CheckPassed, Checking, Hashes, MainIsWhole, WhollyWritten, HashOk, Sha, Delivered
<1>7. boot' # "broken"
  BY DEF CheckPassed
<1>. QED  BY <1>2, <1>3, <1>5, <1>6, <1>7 DEF BootInv, CheckPassed

LEMMA RecoverMirrorKeeps == ASSUME BootInv, RecoverMirror PROVE BootInv'
<1>1. flash["main"] \in Blocks /\ Made(flash["main"])
  BY BlocksNow DEF BootInv, InPlace, RecoverMirror, Checking, Settled
<1>2. BootTypeOK'
  BY <1>1 DEF BootInv, RecoverMirror, Update, BootTypeOK, Copies
<1>3. InPlace' /\ Recovering'
  BY <1>1 DEF BootInv, RecoverMirror, Update, Checking, InPlace, Recovering, Settled, Copying, Made, Delivered
<1>4. Hashes' /\ MainIsWhole'
  BY DEF BootInv, RecoverMirror, Update, Checking, Hashes, MainIsWhole, WhollyWritten, HashOk, Sha,
     Delivered, Copies
<1>. QED  BY <1>2, <1>3, <1>4 DEF BootInv, RecoverMirror, Update

LEMMA RecoverMainKeeps == ASSUME BootInv, RecoverMain PROVE BootInv'
<1>1. /\ flash["mirror"] \in Blocks /\ image \in Blocks /\ Made(flash["main"])
      /\ flash["mirror"] = Zeros \/ Made(flash["mirror"])
  BY BlocksNow DEF BootInv, InPlace, RecoverMain, Checking, Settled
<1>2. Sha(image) # NoHash
  BY <1>1, FieldsNow DEF Sha, NoHash, Lifecycles
<1>3. Zeros.hash = NoHash
  BY DEF Zeros, Unhashed, NoHash
<1>4. Made(flash["mirror"])
  BY <1>1, <1>2, <1>3 DEF RecoverMain, MirrorOk
<1>5. main_cut
  BY DEF BootInv, MainIsWhole, RecoverMain, Checking, MainOk, WhollyWritten
<1>6. BootTypeOK'
  BY <1>1 DEF BootInv, RecoverMain, Update, BootTypeOK, Copies
<1>7. InPlace' /\ Recovering'
  BY <1>1, <1>4 DEF BootInv, RecoverMain, Update, Checking, InPlace, Recovering, Settled, Copying,
     Made, Delivered
<1>8. Hashes' /\ MainIsWhole'
  BY <1>5 DEF BootInv, RecoverMain, Update, Checking, Hashes, MainIsWhole, HashOk, Sha, Copies
<1>. QED  BY <1>6, <1>7, <1>8 DEF BootInv, RecoverMain, Update

LEMMA StopsKeeps == ASSUME BootInv, CompletelyBroken \/ OverTheLimit PROVE BootInv'
<1>1. BootTypeOK'
  BY DEF BootInv, CompletelyBroken, OverTheLimit, BootTypeOK
<1>2. InPlace' /\ Recovering'
  BY DEF BootInv, CompletelyBroken, OverTheLimit, Checking, InPlace, Recovering, Settled, Copying,
     Made, Delivered
<1>3. Hashes' /\ MainIsWhole'
  BY DEF BootInv, CompletelyBroken, OverTheLimit, Checking, Hashes, MainIsWhole, WhollyWritten,
     HashOk, Sha, Delivered
<1>4. boot' = "broken" => main_cut
  BY DEF BootInv, MainIsWhole, WhollyWritten, CompletelyBroken, OverTheLimit, Checking, MainOk
<1>. QED  BY <1>1, <1>2, <1>3, <1>4 DEF BootInv, CompletelyBroken, OverTheLimit

LEMMA RestartedKeeps ==
  ASSUME BootInv, Restarted, boot # "write", UNCHANGED <<flash, main_cut>>,
         faults' \in 0 .. MaxFaults
  PROVE  BootInv'
<1>1. image' = Zeros /\ Zeros \in Blocks /\ Zeros.hash = NoHash
  BY UnhashedIs DEF Zeros, Lifecycles, Keys, Restarted
<1>2. BootTypeOK'
  BY <1>1 DEF BootInv, Restarted, BootTypeOK
<1>3. InPlace' /\ Recovering'
  BY DEF BootInv, Restarted, InPlace, Recovering, Settled, Copying, Made, Delivered
<1>4. Hashes' /\ MainIsWhole'
  BY <1>1 DEF BootInv, Restarted, Hashes, MainIsWhole, WhollyWritten, HashOk, Sha, Delivered
<1>. QED  BY <1>2, <1>3, <1>4 DEF BootInv, Restarted

LEMMA PowerFailsKeeps == ASSUME BootInv, PowerFails PROVE BootInv'
<1>0. faults' \in 0 .. MaxFaults /\ Restarted
  BY FaultType DEF BootInv, PowerFails
<1>1. CASE boot # "write"
  BY <1>0, <1>1, RestartedKeeps DEF PowerFails
<1>2. CASE boot = "write"
  <2>1. /\ flash' \in [Copies -> Blocks] /\ main_cut' \in BOOLEAN
        /\ Made(flash'[copy]) /\ flash'[copy].hash = NoHash
        /\ \A c \in Copies : c # copy => flash'[c] = flash[c]
        /\ copy \in Copies
        /\ ~main_cut' => ~main_cut /\ copy # "main"
    BY <1>2, CutShortIs DEF PowerFails
  <2>2. image' = Zeros /\ Zeros \in Blocks /\ Zeros.hash = NoHash
    BY <1>0, UnhashedIs DEF Zeros, Lifecycles, Keys, Restarted
  <2>3. BootTypeOK'
    BY <1>0, <2>1, <2>2 DEF BootInv, Restarted, BootTypeOK
  <2>4. InPlace' /\ Recovering'
    BY <1>0, <1>2, <2>1 DEF BootInv, Restarted, InPlace, Recovering, Settled, Copying, Made,
       Delivered, Copies
  <2>5. Hashes'
    BY <1>0, <2>1, <2>2 DEF BootInv, Restarted, Hashes, HashOk, Sha
  <2>6. MainIsWhole'
    BY <1>0, <1>2, <2>1 DEF BootInv, Restarted, MainIsWhole, WhollyWritten, HashOk, Sha, Delivered, Copies
  <2>. QED  BY <1>0, <2>3, <2>4, <2>5, <2>6 DEF BootInv, Restarted
<1>. QED  BY <1>1, <1>2

LEMMA BootStepKeeps == ASSUME BootInv, [BootNext]_bootVars PROVE BootInv'
<1>1. ASSUME Restarted, boot # "write", UNCHANGED <<flash, main_cut, faults>> PROVE BootInv'
  BY <1>1, RestartedKeeps DEF BootInv, BootTypeOK
<1>2. CASE BootStep
  BY <1>2, RestoreKeeps, BlankKeeps, UpdatingKeeps, CheckedKeeps, GenerateKeeps, GenerateFailsKeeps,
     EraseKeeps, EraseFailsKeeps, WriteKeeps, WriteFailsKeeps, CheckPassedKeeps, RecoverMirrorKeeps,
     RecoverMainKeeps, StopsKeeps DEF BootStep
<1>3. CASE SoftwareReset \/ PowerCycle
  BY <1>1, <1>3 DEF SoftwareReset, PowerCycle, Stopped
<1>. QED  BY <1>1, <1>2, <1>3, BootUnchanged, PowerFailsKeeps DEF BootNext

-----------------------------------------------------------------------------
(* What follows. *)

LEMMA BootProperties ==
  ASSUME BootInv
  PROVE  SuccessHasKeys /\ EncryptedKeysGone /\ MirrorExpendable
<1>1. SuccessHasKeys
  BY DEF BootInv, MainIsWhole, InPlace, WhollyWritten, SuccessHasKeys, Delivered, Made
<1>2. EncryptedKeysGone
  <2>1. Zeros.keys = "none"
    BY DEF Zeros, Unhashed
  <2>. QED  BY <2>1 DEF BootInv, InPlace, EncryptedKeysGone, Copies, Made
<1>3. MirrorExpendable
  BY DEF BootInv, MainIsWhole, WhollyWritten, MirrorExpendable
<1>. QED  BY <1>1, <1>2, <1>3

LEMMA GeneratesOnce ==
  ASSUME BootInv, [BootNext]_bootVars, released
  PROVE  generations' = generations
<1>1. boot # "generate"
  BY DEF BootInv, InPlace, Made, Delivered
<1>. QED
  BY <1>1 DEF BootNext, bootVars, BootStep, Restore, Blank, Updating, OnTheMarket, Illegal, Generate,
     GenerateFails, Erase, EraseFails, Write, WriteFails, CheckPassed, RecoverMirror, RecoverMain,
     CompletelyBroken, OverTheLimit, SoftwareReset, PowerCycle, PowerFails, Restarted
=============================================================================
