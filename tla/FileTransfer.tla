---------------------------- MODULE FileTransfer ----------------------------
(***************************************************************************)
(* What the SDK's download client promises to the firmware clients above   *)
(* it (azrtos-layer/include/azrtos_download_client.h): a call delivers the *)
(* file in order and without gaps, may stop at any point, goes on from     *)
(* there when it is resumed, and reports success only for a whole file.    *)
(***************************************************************************)
EXTENDS Naturals, Sequences

CONSTANTS
  Files,
  ContentOf,   \* what each file holds
  NoFile

VARIABLES
  target,      \* the file asked for
  resumed,     \* does the call go on from what was delivered before?
  content,     \* what has been delivered of it
  outcome      \* "none", "running", "success" or "failed"

ftVars == <<target, resumed, content, outcome>>

Init ==
  /\ target = NoFile
  /\ resumed = FALSE
  /\ content = <<>>
  /\ outcome = "none"

Idle == outcome # "running"

Start(f, r) ==
  /\ Idle
  /\ target' = f
  /\ resumed' = r
  /\ outcome' \in {"running", "failed"}   \* a call may fail at once
  /\ UNCHANGED content

Restart ==
  /\ ~Idle
  /\ ~resumed
  /\ content' = <<>>
  /\ UNCHANGED <<target, resumed, outcome>>

Deliver(n) ==
  /\ ~Idle
  /\ n <= Len(ContentOf[target]) - Len(content)
  /\ content' = content \o SubSeq(ContentOf[target], Len(content) + 1, Len(content) + n)
  /\ UNCHANGED <<target, resumed, outcome>>

Succeed ==
  /\ ~Idle
  /\ content = ContentOf[target]
  /\ outcome' = "success"
  /\ UNCHANGED <<target, resumed, content>>

Fail ==
  /\ ~Idle
  /\ outcome' = "failed"
  /\ UNCHANGED <<target, resumed, content>>

Next ==
  \/ \E f \in Files, r \in BOOLEAN : Start(f, r)
  \/ Restart
  \/ \E n \in 1 .. (IF Idle THEN 0 ELSE Len(ContentOf[target])) : Deliver(n)
  \/ Succeed
  \/ Fail

Spec == Init /\ [][Next]_ftVars
=============================================================================
