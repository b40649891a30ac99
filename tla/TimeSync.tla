------------------------------ MODULE TimeSync ------------------------------
(***************************************************************************)
(* The clock: sntp_time_sync, set_time and unix_time_get of azrtos_time.c, *)
(* and the loop of main that calls the first.                              *)
(*                                                                         *)
(* A second has Rate ticks; tx_time_get counts them from the reset.  A     *)
(* ULONG holds the numbers below Word: the ticks wrap, and so do the       *)
(* seconds of NTP, which are those of Unix and Epoch.  The DNS and SNTP    *)
(* clients of NetX are external, the SNTP client being right when it has   *)
(* got its updates.                                                        *)
(***************************************************************************)
EXTENDS Integers

CONSTANTS
  Word,                 \* 2^32
  Epoch,                \* SAMPLE_UNIX_TO_NTP_EPOCH_SECOND
  Rate,                 \* TX_TIMER_TICKS_PER_SECOND
  SyncMax, UpdateMax,   \* SAMPLE_SNTP_SYNC_MAX, SAMPLE_SNTP_UPDATE_MAX
  Starts,               \* when the board may be turned on, in ticks since 1970
  Override,             \* the time set without SNTP, in seconds
  MaxTicks              \* bound on the ticks that pass

ASSUME TimeAssumption ==
  /\ Word \in Nat \ {0} /\ Rate \in Nat \ {0}
  /\ Epoch \in 0 .. Word - 1 /\ Override \in 0 .. Word - 1
  /\ SyncMax \in Nat \ {0} /\ UpdateMax \in Nat
  /\ Starts \subseteq Nat /\ MaxTicks \in Nat

VARIABLES
  sync,             \* where sntp_time_sync is: "off" before and after it
  tries,            \* calls of it left to main
  address,          \* sntp_server_address: does its lowest byte end in "zero"?
  sntp_client,      \* "none", "created", "running"
  i,                \* the rounds waited
  unix_time_base,
  source,           \* what the base was set from: "none", "sntp", "override"
  ticks,            \* tx_time_get
  wraps,            \* how often it has wrapped since the base was set
  now, start        \* the true time, and when the board was turned on, in ticks

timeVars == <<sync, tries, address, sntp_client, i, unix_time_base, source, ticks, wraps,
              now, start>>

Addresses == {"zero", "nonzero"}

(* C's unsigned arithmetic. *)
Ulong(n) == n % Word
SystemTime == ticks \div Rate
UnixTime == Ulong(now \div Rate)

TimeInit ==
  /\ sync = "off" /\ tries = 0
  /\ address = "zero" /\ sntp_client = "none" /\ i = 0
  /\ unix_time_base = 0 /\ source = "none"
  /\ ticks = 0 /\ wraps = 0
  /\ start \in Starts /\ now = start

(* The RAM is cleared by a reset, the timer starts again. *)
TimeLost ==
  /\ sync' = "off" /\ tries' = 0
  /\ address' = "zero" /\ sntp_client' = "none" /\ i' = 0
  /\ unix_time_base' = 0 /\ source' = "none"
  /\ ticks' = 0 /\ wraps' = 0
  /\ UNCHANGED <<now, start>>

Passed(n) ==
  /\ now - start + n <= MaxTicks
  /\ now' = now + n
  /\ ticks' = Ulong(ticks + n) /\ wraps' = wraps + (ticks + n) \div Word
  /\ UNCHANGED start
NoTicks == UNCHANGED <<ticks, now, start>>
NoTime == NoTicks /\ UNCHANGED wraps

-----------------------------------------------------------------------------
(* Entered with nothing on the stack written yet. *)
Enter(left) ==
  /\ tries' = left
  /\ sync' = "resolve"
  /\ address' \in Addresses

(* main calls it for the first time. *)
SyncTime ==
  /\ sync = "off"
  /\ Enter(SyncMax - 1)
  /\ NoTime /\ UNCHANGED <<sntp_client, i, unix_time_base, source>>

(* Lines 57 to 70: a lookup that fails leaves the address as it is; an     *)
(* address that ends in 0, even that, is looked up again.                  *)
Lookup(status) ==
  /\ sync = "resolve"
  /\ IF status = "ok" THEN address' \in Addresses ELSE UNCHANGED address
  /\ sync' = CASE address' = "zero" -> "resolve"
               [] address' # "zero" /\ status = "ok" -> "create"
               [] OTHER -> "failed"
  /\ NoTime /\ UNCHANGED <<tries, sntp_client, i, unix_time_base, source>>

CreateSntp ==
  /\ sync = "create"
  /\ \/ sntp_client' = "created" /\ sync' = "initialize"
     \/ sync' = "failed" /\ UNCHANGED sntp_client
  /\ NoTime /\ UNCHANGED <<tries, address, i, unix_time_base, source>>

(* nx_sntp_client_initialize_unicast, then _set_local_time. *)
DeletesClient == sntp_client' = "none"

InitializeSntp ==
  /\ sync \in {"initialize", "set local time"}
  /\ \/ /\ sync' = IF sync = "initialize" THEN "set local time" ELSE "run"
        /\ UNCHANGED sntp_client
     \/ sync' = "failed" /\ DeletesClient
  /\ NoTime /\ UNCHANGED <<tries, address, i, unix_time_base, source>>

RunSntp ==
  /\ sync = "run"
  /\ \/ sntp_client' = "running" /\ sync' = "wait"
     \/ sntp_client' = "none" /\ sync' = "failed"
  /\ i' = 0
  /\ NoTime /\ UNCHANGED <<tries, address, unix_time_base, source>>

(* The server answers: lines 131 to 150. *)
BaseUnshifted == Ulong(Ulong(UnixTime + Epoch) - Ulong(SystemTime))   \* variant
BaseFrom == Ulong(Ulong(UnixTime + Epoch) - Ulong(SystemTime + Epoch))

RoundsLeftOneMore == i <= UpdateMax   \* variant
RoundsLeft == i < UpdateMax

Updated ==
  /\ sync = "wait" /\ RoundsLeft
  /\ unix_time_base' = BaseFrom /\ source' = "sntp" /\ wraps' = 0
  /\ sntp_client' = "none"
  /\ sync' = "done"
  /\ NoTicks /\ UNCHANGED <<tries, address, i>>

(* Not yet, half a second is slept; or its time cannot be got: none is.    *)
NotUpdated ==
  /\ sync = "wait" /\ RoundsLeft
  /\ i' = i + 1
  /\ Passed(Rate \div 2) \/ NoTime
  /\ UNCHANGED <<sync, tries, address, sntp_client, unix_time_base, source>>

NeverUpdated ==
  /\ sync = "wait" /\ ~RoundsLeft
  /\ sntp_client' = "none"
  /\ sync' = "failed"
  /\ NoTime /\ UNCHANGED <<tries, address, i, unix_time_base, source>>

(* main tries again.  The frame of the call is where it was. *)
TryAgain ==
  /\ sync = "failed" /\ tries > 0
  /\ Enter(tries - 1)
  /\ NoTime /\ UNCHANGED <<sntp_client, i, unix_time_base, source>>

(* set_time. *)
SetTime(seconds) ==
  /\ unix_time_base' = Ulong(seconds - SystemTime) /\ source' = "override" /\ wraps' = 0
  /\ NoTicks /\ UNCHANGED <<tries, address, sntp_client, i>>

SyncStep ==
  \/ \E status \in {"ok", "failed"} : Lookup(status)
  \/ CreateSntp \/ InitializeSntp \/ RunSntp
  \/ Updated \/ NotUpdated \/ NeverUpdated \/ TryAgain

Tick == Passed(1) /\ UNCHANGED <<sync, tries, address, sntp_client, i, unix_time_base, source>>

-----------------------------------------------------------------------------
(* unix_time_get. *)
UnixTimeGet == Ulong(unix_time_base + SystemTime)

(* Properties. *)

TimeTypeOK ==
  /\ sync \in {"off", "resolve", "create", "initialize", "set local time", "run", "wait",
              "failed", "done"}
  /\ tries \in 0 .. SyncMax - 1 /\ address \in Addresses
  /\ sntp_client \in {"none", "created", "running"} /\ i \in 0 .. UpdateMax
  /\ unix_time_base \in 0 .. Word - 1 /\ source \in {"none", "sntp", "override"}
  /\ ticks \in 0 .. Word - 1 /\ wraps \in Nat /\ now \in Nat /\ start \in Starts

(* However the difference of the clocks was wrapped when it was stored,    *)
(* the time is right, to a second, until the ticks wrap.  Each time they   *)
(* have since then (every 497 days at 100 a second) it is late by another  *)
(* word of ticks, and by nothing else.                                     *)
Late == wraps * Word
ClockRight ==
  source = "sntp" =>
    \E error \in {-1, 0, 1} : UnixTimeGet = Ulong((now - Late) \div Rate + error)

(* Whichever way sntp_time_sync returns, the SNTP client, which is static, *)
(* is deleted: it is never created over one that is there.                 *)
ClientDeleted == sync \in {"off", "resolve", "create", "failed", "done"} => sntp_client = "none"
=============================================================================
