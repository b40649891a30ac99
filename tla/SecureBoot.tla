----------------------------- MODULE SecureBoot -----------------------------
(***************************************************************************)
(* Key provisioning of the CK-RX65N (secure_boot.c).  The data flash holds *)
(* a block with the encrypted keys of the device, and room for a mirror of *)
(* it.  The first boot turns the keys into key indexes of the TSIP, wipes  *)
(* the encrypted ones, writes both copies and resets; the second releases  *)
(* the device; every later one checks the copies against each other.       *)
(*                                                                         *)
(* A block is [lifecycle, keys, hash]; hash is what its SHA-1 was made of  *)
(* (no two contents have the same).  Each copy is erased, then written,    *)
(* lifecycle first and hash last; the flash may refuse either, and the     *)
(* power may fail in between.  An erasure is all or nothing: one given up  *)
(* after some of the blocks is left out.                                   *)
(***************************************************************************)
EXTENDS Naturals

CONSTANT MaxFaults   \* bound on refusals, failed key generations, power failures

ASSUME SecureBootAssumption == MaxFaults \in Nat

Copies == {"main", "mirror"}

VARIABLES
  flash,         \* g_key_block_data ("main") and g_key_block_data_mirror ("mirror")
  image,         \* g_key_block_image, in RAM
  boot,          \* where secure_boot is
  copy,          \* the copy being updated
  task,          \* what it is updated for: "install", "release", "recover"
  retry_counter,
  legal,         \* is the lifecycle state one of the three?
  generations,   \* how often key indexes were generated
  released,      \* has a boot succeeded?
  main_cut,      \* was main ever erased and not written again?
  faults

bootVars == <<flash, image, boot, copy, task, retry_counter, legal, generations,
              released, main_cut, faults>>

MAX_RETRY == 3    \* MAX_CHECK_DATAFLASH_AREA_RETRY_COUNT

-----------------------------------------------------------------------------
(* Blocks. *)

Sha(block) == <<block.lifecycle, block.keys>>
HashOk(block) == block.hash = Sha(block)
Hashed(lifecycle, keys) ==
  [lifecycle |-> lifecycle, keys |-> keys, hash |-> <<lifecycle, keys>>]
Unhashed(lifecycle, keys) ==
  [lifecycle |-> lifecycle, keys |-> keys, hash |-> <<"no", "hash">>]

(* LIFECYCLE_STATE_BLANK is 0, so that a block of zeros looks blank. *)
Zeros == Unhashed("blank", "none")

(* What is left of a copy when `block` was not wholly written to it: it is *)
(* erased, has its lifecycle but not its keys, or lacks only its hash.     *)
Erased == Unhashed("other", "torn")
Cuts(block) ==
  {Erased, Unhashed(block.lifecycle, "torn"), Unhashed(block.lifecycle, block.keys)}

BootInit ==
  /\ flash = [c \in Copies |-> IF c = "main" THEN Hashed("blank", "encrypted") ELSE Zeros]
  /\ image = Zeros
  /\ boot = "restore"
  /\ copy = "main" /\ task = "install" /\ retry_counter = 0 /\ legal = TRUE
  /\ generations = 0 /\ released = FALSE /\ main_cut = FALSE
  /\ faults = 0

Fault == faults < MaxFaults /\ faults' = faults + 1

-----------------------------------------------------------------------------
(* The steps of a boot. *)

(* tsip_keyring_restore. *)
Restore ==
  /\ boot = "restore"
  /\ image' = flash["main"]
  /\ retry_counter' = 0 /\ legal' = TRUE
  /\ boot' = "status"
  /\ UNCHANGED <<flash, copy, task, generations, released, main_cut, faults>>

(* update_dataflash_data_from_image begins with the copy c. *)
Update(c, why) == boot' = "erase" /\ copy' = c /\ task' = why

(* check_secure_boot_status, one action for each case of its switch. *)
Blank ==
  /\ boot = "status" /\ image.lifecycle = "blank"
  /\ boot' = IF HashOk(flash["main"]) THEN "generate" ELSE "fail"
  /\ UNCHANGED <<flash, image, copy, task, retry_counter, legal, generations, released, main_cut, faults>>

ReleasedBlank == "blank"   \* variant: the wrong state
Released == "on the market"

(* tsip_install_keyring hashes the image first. *)
ToInstallOldHash(lifecycle, keys) ==   \* variant: lines 623 to 625 are missing
  [image EXCEPT !.lifecycle = lifecycle, !.keys = keys]
ToInstall(lifecycle, keys) == Hashed(lifecycle, keys)

Updating ==
  /\ boot = "status" /\ image.lifecycle = "updating"
  /\ image' = ToInstall(Released, image.keys)
  /\ Update("main", "release")
  /\ UNCHANGED <<flash, retry_counter, legal, generations, released, main_cut, faults>>

OnTheMarket ==
  /\ boot = "status" /\ image.lifecycle = "on the market"
  /\ boot' = "check"
  /\ UNCHANGED <<flash, image, copy, task, retry_counter, legal, generations, released, main_cut, faults>>

Illegal ==
  /\ boot = "status" /\ image.lifecycle = "other"
  /\ legal' = FALSE
  /\ boot' = "check"
  /\ UNCHANGED <<flash, image, copy, task, retry_counter, generations, released, main_cut, faults>>

(* secure_boot_rsa_key_generate, and lines 136 to 147: the encrypted keys  *)
(* are wiped and the image is to be installed.                             *)
GeneratedKept == "encrypted"   \* variant: lines 136 to 138 are missing
Generated == "generated"

Generate ==
  /\ boot = "generate"
  /\ image' = ToInstall("updating", Generated)
  /\ generations' = generations + 1
  /\ Update("main", "install")
  /\ UNCHANGED <<flash, retry_counter, legal, released, main_cut, faults>>

GenerateFails ==
  /\ boot = "generate"
  /\ Fault
  /\ boot' = "fail"
  /\ UNCHANGED <<flash, image, copy, task, retry_counter, legal, generations, released, main_cut>>

(* After a copy: tsip_install_keyring updates the mirror, too; a recovery  *)
(* is followed by another check, an installation by a reset.               *)
AfterUpdate ==
  CASE task = "recover" -> boot' = "check" /\ retry_counter' = retry_counter + 1
                           /\ UNCHANGED copy
    [] task # "recover" /\ copy = "main" -> boot' = "erase" /\ copy' = "mirror"
                                            /\ UNCHANGED retry_counter
    [] task = "install" /\ copy = "mirror" -> boot' = "reset" /\ UNCHANGED <<copy, retry_counter>>
    [] OTHER -> boot' = "check" /\ UNCHANGED <<copy, retry_counter>>

Erase ==
  /\ boot = "erase"
  /\ flash' = [flash EXCEPT ![copy] = Erased]
  /\ boot' = "write"
  /\ UNCHANGED <<image, copy, task, retry_counter, legal, generations, released, main_cut, faults>>

EraseFails ==
  /\ boot = "erase"
  /\ Fault
  /\ AfterUpdate
  /\ UNCHANGED <<flash, image, task, legal, generations, released, main_cut>>

Write ==
  /\ boot = "write"
  /\ flash' = [flash EXCEPT ![copy] = image]
  /\ AfterUpdate
  /\ UNCHANGED <<image, task, legal, generations, released, main_cut, faults>>

CutShort ==
  /\ \E b \in Cuts(image) : flash' = [flash EXCEPT ![copy] = b]
  /\ main_cut' = (main_cut \/ copy = "main")

WriteFails ==
  /\ boot = "write"
  /\ Fault
  /\ CutShort
  /\ AfterUpdate
  /\ UNCHANGED <<image, task, legal, generations, released>>

-----------------------------------------------------------------------------
(* check_dataflash_area: both checks hash the image.  What is wrong is     *)
(* made good from the other copy, and checked again.                       *)

MainOk == HashOk(image)
MirrorOkAlone == HashOk(flash["mirror"])   \* variant: the mirror's own content is hashed
MirrorOk == flash["mirror"].hash = Sha(image)

Checking == boot = "check" /\ retry_counter < MAX_RETRY

CheckPassed ==
  /\ Checking /\ MainOk /\ MirrorOk
  /\ boot' = IF legal THEN "success" ELSE "fail"
  /\ released' = (released \/ legal)
  /\ UNCHANGED <<flash, image, copy, task, retry_counter, legal, generations, main_cut, faults>>

RecoverMirror ==
  /\ Checking /\ MainOk /\ ~MirrorOk
  /\ image' = flash["main"]
  /\ Update("mirror", "recover")
  /\ UNCHANGED <<flash, retry_counter, legal, generations, released, main_cut, faults>>

RecoverMain ==
  /\ Checking /\ ~MainOk /\ MirrorOk
  /\ image' = flash["mirror"]
  /\ Update("main", "recover")
  /\ UNCHANGED <<flash, retry_counter, legal, generations, released, main_cut, faults>>

(* Endless loops. *)
CompletelyBroken ==
  /\ Checking /\ ~MainOk /\ ~MirrorOk
  /\ boot' = "broken"
  /\ UNCHANGED <<flash, image, copy, task, retry_counter, legal, generations, released, main_cut, faults>>

OverTheLimit ==
  /\ boot = "check" /\ retry_counter = MAX_RETRY
  /\ boot' = "over the limit"
  /\ UNCHANGED <<flash, image, copy, task, retry_counter, legal, generations, released, main_cut, faults>>

-----------------------------------------------------------------------------
(* The RAM is lost. *)

Restarted ==
  /\ boot' = "restore"
  /\ image' = Zeros
  /\ UNCHANGED <<copy, task, retry_counter, legal, generations, released>>

SoftwareReset ==
  /\ boot = "reset"
  /\ Restarted
  /\ UNCHANGED <<flash, main_cut, faults>>

(* Somebody turns the board off and on where it would stay for ever. *)
Stopped == boot \in {"fail", "broken", "over the limit"}
PowerCycle ==
  /\ Stopped
  /\ Restarted
  /\ UNCHANGED <<flash, main_cut, faults>>

(* The power fails, anywhere; in an update it cuts the copy short. *)
PowerFails ==
  /\ Fault
  /\ Restarted
  /\ IF boot = "write" THEN CutShort ELSE UNCHANGED <<flash, main_cut>>

BootStep ==
  \/ Restore \/ Blank \/ Updating \/ OnTheMarket \/ Illegal
  \/ Generate \/ GenerateFails
  \/ Erase \/ EraseFails \/ Write \/ WriteFails
  \/ CheckPassed \/ RecoverMirror \/ RecoverMain \/ CompletelyBroken \/ OverTheLimit

-----------------------------------------------------------------------------
(* Properties. *)

Blocks ==
  [lifecycle : {"blank", "updating", "on the market", "other"},
   keys : {"encrypted", "generated", "torn", "none"},
   hash : {<<"no", "hash">>} \cup
          ({"blank", "updating", "on the market", "other"} \X
           {"encrypted", "generated", "torn", "none"})]

BootTypeOK ==
  /\ flash \in [Copies -> Blocks] /\ image \in Blocks
  /\ boot \in {"restore", "status", "generate", "erase", "write", "check", "reset",
              "success", "fail", "broken", "over the limit"}
  /\ copy \in Copies /\ task \in {"install", "release", "recover"}
  /\ retry_counter \in 0 .. MAX_RETRY /\ legal \in BOOLEAN
  /\ generations \in Nat /\ released \in BOOLEAN /\ main_cut \in BOOLEAN
  /\ faults \in 0 .. MaxFaults

(* A boot succeeds only with key indexes, and with a mirror from which     *)
(* main could be written again; unless an update of main was cut short.    *)
SuccessHasKeys ==
  boot = "success" /\ ~main_cut =>
    image.keys = "generated" /\ HashOk(image) /\ flash["mirror"] = image

(* Once a boot has succeeded no copy holds the encrypted keys any more.    *)
EncryptedKeysGone == released => \A c \in Copies : flash[c].keys # "encrypted"

(* Nothing that befalls the mirror, and no erasure of main that is refused,*)
(* stops the device for good: it is only declared broken, or its key block *)
(* not genuine, after an update of main was cut short.                     *)
MirrorExpendable ==
  ~main_cut => boot # "broken" /\ (boot = "fail" => HashOk(flash["main"]))

(* The flash is only declared completely broken when neither copy is       *)
(* whole: otherwise main is recovered from the mirror.                     *)
MirrorSaves == boot = "broken" => \A c \in Copies : ~HashOk(flash[c])

(* Key generation is a one-time operation: once a boot has succeeded key   *)
(* indexes are never generated again.                                      *)
GeneratedOnce == [][released => generations' = generations]_generations
=============================================================================
