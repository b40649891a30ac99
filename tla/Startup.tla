------------------------------- MODULE Startup -------------------------------
(***************************************************************************)
(* From power on to app_startup, by the main thread: on the CK-RX65N       *)
(* secure boot, DHCP and DNS, the clock, then the application.  What fails *)
(* from DNS on resets the board; what fails before it ends the thread.     *)
(* The STM32L4 has no secure boot, resets never, and goes on without SNTP, *)
(* with a time of its own.                                                 *)
(***************************************************************************)
EXTENDS SecureBoot, TimeSync

CONSTANT Boards    \* "ck-rx65n", "stm32l4"

ASSUME StartupAssumption == Boards \subseteq {"ck-rx65n", "stm32l4"}

VARIABLES
  board,
  stage      \* "boot", "network", "sync", "app", "idle", "stopped"

vars == <<bootVars, timeVars, board, stage>>

FirstStage == IF board = "ck-rx65n" THEN "boot" ELSE "network"

Init ==
  /\ BootInit /\ TimeInit
  /\ board \in Boards
  /\ stage = FirstStage

Boot ==
  /\ stage = "boot"
  /\ BootStep
  /\ stage' = IF boot' = "success" THEN "network" ELSE "boot"
  /\ UNCHANGED <<timeVars, board>>

(* The thread returns or sleeps for ever: the data flash or the TSIP is    *)
(* not opened, DHCP not created or started; on the STM32L4 also when DHCP  *)
(* gets no address or dns_create fails.                                    *)
Stop ==
  /\ \/ stage = "boot" /\ boot \in {"restore", "status"}
     \/ stage = "network"
  /\ stage' = "stopped"
  /\ UNCHANGED <<bootVars, timeVars, board>>

(* DHCP and dns_create. *)
Network ==
  /\ stage = "network"
  /\ stage' = "sync"
  /\ SyncTime
  /\ UNCHANGED <<bootVars, board>>

Sync ==
  /\ stage = "sync"
  /\ SyncStep
  /\ stage' = IF sync' = "done" THEN "app" ELSE "sync"
  /\ UNCHANGED <<bootVars, board>>

(* main, when all calls of sntp_time_sync have failed. *)
GiveUpSync ==
  /\ stage = "sync" /\ sync = "failed" /\ tries = 0
  /\ board = "stm32l4"
  /\ SetTime(Override)
  /\ sync' = "done"
  /\ stage' = "app"
  /\ UNCHANGED <<bootVars, board>>

(* The application runs, and may return true. *)
RunApp ==
  /\ stage = "app"
  /\ \/ stage' = "app" /\ Tick
     \/ stage' = "idle" /\ UNCHANGED timeVars
  /\ UNCHANGED <<bootVars, board>>

(* software_reset: of secure boot after an installation, of main when      *)
(* dns_create or SNTP fails or the application returns false.              *)
ResetByMainNot == stage = "network" \/ stage = "app"   \* variant: line 382 is missing
ResetByMain ==
  \/ stage = "network"
  \/ stage = "sync" /\ sync = "failed" /\ tries = 0
  \/ stage = "app"

Reset ==
  /\ board = "ck-rx65n"
  /\ stage' = "boot"
  /\ \/ stage = "boot" /\ SoftwareReset
     \/ ResetByMain /\ Restarted /\ UNCHANGED <<flash, main_cut, faults>>
  /\ TimeLost
  /\ UNCHANGED board

TurnOffAndOn ==
  /\ \/ stage = "boot" /\ PowerCycle
     \/ stage = "stopped" /\ Restarted /\ UNCHANGED <<flash, main_cut, faults>>
  /\ stage' = FirstStage
  /\ TimeLost
  /\ UNCHANGED board

LosePower ==
  /\ board = "ck-rx65n"
  /\ PowerFails
  /\ TimeLost
  /\ stage' = "boot"
  /\ UNCHANGED board

Next ==
  \/ Boot \/ Stop \/ Network \/ Sync \/ GiveUpSync \/ RunApp
  \/ Reset \/ TurnOffAndOn \/ LosePower

Spec == Init /\ [][Next]_vars

(* Where it is tried again and again the network comes up, and the name is *)
(* resolved to an address that does not end in 0; the CK-RX65N also starts *)
(* its SNTP client, and its time server answers.                           *)
Succeeds(from) == Sync /\ sync = from /\ sync' # "failed" /\ sync' # from

FairSpec ==
  /\ Spec
  /\ WF_vars(Boot \/ Sync \/ GiveUpSync \/ Reset \/ TurnOffAndOn)
  /\ SF_vars(Network)
  /\ SF_vars(Succeeds("resolve"))
  /\ \A from \in {"create", "initialize", "set local time", "run", "wait"} :
       SF_vars(board = "ck-rx65n" /\ Succeeds(from))

-----------------------------------------------------------------------------
TypeOK ==
  /\ BootTypeOK /\ TimeTypeOK
  /\ board \in Boards /\ stage \in {"boot", "network", "sync", "app", "idle", "stopped"}

(* The application never runs without a clock, nor, on the CK-RX65N,       *)
(* without key indexes.                                                    *)
AppIsReady ==
  stage \in {"app", "idle"} =>
    /\ source # "none"
    /\ board = "ck-rx65n" => source = "sntp" /\ (main_cut \/ image.keys = "generated")

(* When the faults have come to an end the application is started, unless  *)
(* an update of main was cut short or the thread ended before the DNS      *)
(* client was made: no reset, no refused copy of the keys and, on the      *)
(* STM32L4, no time server that never answers is gone round for ever.      *)
StartsUp == []<>(stage \in {"app", "idle", "stopped"} \/ main_cut)
=============================================================================
