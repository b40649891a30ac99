----------------------------- MODULE HubSession -----------------------------
(***************************************************************************)
(* A device's session with IoTHub: iotconnect_sdk_init and the message     *)
(* intercept of iotconnect.c, over the IoTHub client                       *)
(* azrtos_iothub_client.c, under the application loop app_startup of the   *)
(* STM32L4 basic sample.                                                   *)
(*                                                                         *)
(* Threads: "app" runs the application loop and, in the mode "polls",      *)
(* receives by iotconnect_sdk_poll; in the mode "loops" a thread of its    *)
(* own, "receiver", runs IotConnectSdk_Loop.  The thread of the Azure IoT middleware calls       *)
(* connection_status_callback when the connection is lost.  Nothing is     *)
(* locked: the threads interleave between any two of the steps below.      *)
(*                                                                         *)
(* The middleware is external: an object `azure` made by                   *)
(* nx_azure_iot_create, a hub client `hub` initialised on it, its link to  *)
(* the server, and the queue of messages received but not yet fetched.     *)
(***************************************************************************)
EXTENDS Naturals, Sequences, FiniteSets

CONSTANTS
  Modes,          \* who receives: "polls", "loops"
  LoopMessages,   \* what is sent to a device with a receiver thread
  MayDrop,        \* may the server or the network end the connection?
  Blocks,         \* identities of heap blocks
  NULL,
  Rounds,         \* telemetry messages per session, 50 in the sample
  MaxQueue,       \* bound on the messages waiting in the middleware
  MaxMessages,    \* bound on the messages sent to the device
  MaxSessions     \* bound on the calls of iotconnect_sdk_init

ASSUME SessionAssumption ==
  /\ Modes \subseteq {"polls", "loops"}
  /\ LoopMessages \subseteq {"force_sync", "close", "other"}
  /\ MayDrop \in BOOLEAN
  /\ IsFiniteSet(Blocks) /\ NULL \notin Blocks
  /\ Rounds \in Nat /\ MaxQueue \in Nat /\ MaxMessages \in Nat /\ MaxSessions \in Nat

Threads == {"app", "receiver"}
Messages == {"force_sync", "close", "other"}   \* ON_FORCE_SYNC, ON_CLOSE, any other
Statuses == {"none", "connected", "disconnected"}
SyncResults == {"unknown", "ok", "refused"}
Misuses == {"created_twice", "torn_down_twice", "client_gone",
            "received_on_gone", "stale_response", "freed_twice"}

VARIABLES
  \* iotconnect.c and the C library's configuration
  discovery_response, sync_response,   \* pointers to heap blocks, or NULL
  last_sync_result,
  dtg,                 \* the response lib_config.telemetry.dtg points into
  heap,                \* blocks allocated
  \* azrtos_iothub_client.c
  is_connected, is_disconnect_requested,
  host,                \* the response config.host and device_name point into
  \* the middleware
  azure, hub,          \* object created; client initialised
  link,                \* is the client connected to the server?
  lost,                \* a loss of the connection not yet notified
  queue,
  \* the application
  told,                \* the last status on_connection_status was told
  rounds, sessions, arrived,
  \* control
  mode,
  pc,
  back,                \* where iothub_client_disconnect returns to
  message,             \* the message being handled
  misuses              \* what the code did against the rules of its callees

sdkVars == <<discovery_response, sync_response, last_sync_result, dtg, heap>>
hubVars == <<is_connected, is_disconnect_requested, host>>
libVars == <<azure, hub, link, lost, queue>>
appVars == <<told, rounds, sessions, arrived, mode>>
vars == <<sdkVars, hubVars, libVars, appVars, pc, back, message, misuses>>

Init ==
  /\ discovery_response = NULL /\ sync_response = NULL
  /\ last_sync_result = "unknown"
  /\ dtg = NULL
  /\ heap = {}
  /\ is_connected = FALSE /\ is_disconnect_requested = FALSE
  /\ host = NULL
  /\ azure = FALSE /\ hub = FALSE /\ link = FALSE /\ lost = FALSE
  /\ queue = <<>>
  /\ told = "none"
  /\ rounds = 0 /\ sessions = 0 /\ arrived = 0
  /\ mode \in Modes
  /\ pc = [t \in Threads |-> IF t = "app" THEN "start" ELSE "idle"]
  /\ back = [t \in Threads |-> "idle"]
  /\ message = [t \in Threads |-> "other"]
  /\ misuses = {}

-----------------------------------------------------------------------------
(* Helpers. *)

Goto(t, from, to) == pc[t] = from /\ pc' = [pc EXCEPT ![t] = to]
Misused(which) == misuses' = misuses \cup which
If(test, which) == IF test THEN {which} ELSE {}

(* A pointer kept anywhere is told from that of a block allocated later. *)
Pointers == {discovery_response, sync_response, dtg, host}
Unused == Blocks \ (heap \cup Pointers)

(* iotcl_discovery_free_*_response of the pointers ps; NULL is allowed. *)
Dangling(ps) == \E p \in ps : p # NULL /\ p \notin heap

(* config.status_cb, which is on_iotconnect_status, tells the application. *)
Notified(status) == told' = status

-----------------------------------------------------------------------------
(* iotconnect_sdk_init, run by the application thread. *)

ResetResultNot == UNCHANGED last_sync_result   \* variant: line 308 is missing
ResetResult == last_sync_result' = "unknown"

(* Lines 308 to 313. *)
InitSdk ==
  /\ Goto("app", "start", "discovery")
  /\ sessions < MaxSessions
  /\ sessions' = sessions + 1
  /\ ResetResult
  /\ Misused(If(Dangling({discovery_response, sync_response}), "freed_twice"))
  /\ heap' = heap \ {discovery_response, sync_response}
  /\ discovery_response' = NULL
  /\ sync_response' = NULL
  /\ UNCHANGED <<dtg, hubVars, libVars, told, rounds, arrived, mode, back, message>>

(* run_http_discovery: a response is allocated, or the request, the answer *)
(* or the parser fails.                                                    *)
RunDiscovery ==
  /\ \/ discovery_response' \in Unused
     \/ discovery_response' = NULL
  /\ heap' = heap \cup ({discovery_response'} \ {NULL})

(* run_http_sync reads host and path of the discovery response.  Without   *)
(* an answer last_sync_result stays as it is.                              *)
RunSync ==
  /\ Misused(If(discovery_response \notin heap, "stale_response"))
  /\ \/ /\ sync_response' \in Unused
        /\ last_sync_result' = "ok"
     \/ /\ sync_response' = NULL
        /\ last_sync_result' \in {last_sync_result, "unknown", "refused"}
  /\ heap' = heap \cup ({sync_response'} \ {NULL})

InitDiscovery ==
  /\ pc["app"] = "discovery"
  /\ RunDiscovery
  /\ pc' = [pc EXCEPT !["app"] =
              IF discovery_response' = NULL THEN "stopped" ELSE "sync"]
  /\ UNCHANGED <<sync_response, last_sync_result, dtg, hubVars, libVars, appVars,
                 back, message, misuses>>

InitSync ==
  /\ pc["app"] = "sync"
  /\ RunSync
  /\ pc' = [pc EXCEPT !["app"] =
              IF sync_response' = NULL THEN "stopped" ELSE "library"]
  /\ UNCHANGED <<discovery_response, dtg, hubVars, libVars, appVars, back, message>>

(* Lines 355 to 360: when the C library cannot be initialised NX_FALSE is  *)
(* returned, which is 0, and the application goes on.                      *)
InitLibrary ==
  /\ pc["app"] = "library"
  /\ dtg' = sync_response
  /\ pc' \in {[pc EXCEPT !["app"] = to] : to \in {"hub", "returned"}}
  /\ UNCHANGED <<discovery_response, sync_response, last_sync_result, heap,
                 hubVars, libVars, appVars, back, message, misuses>>

(* iothub_client_init up to nx_azure_iot_hub_client_connect.  Creating the *)
(* object over one that exists may be refused or overwrite it.             *)
PrepareHub ==
  /\ pc["app"] = "hub"
  /\ is_connected' = FALSE
  /\ host' = sync_response
  /\ Misused(If(azure, "created_twice"))
  /\ azure' = TRUE
  /\ hub' = TRUE
  /\ pc' = [pc EXCEPT !["app"] = "connect"]
  /\ UNCHANGED <<sdkVars, is_disconnect_requested, link, lost, queue, appVars,
                 back, message>>

(* A step before the connection fails: nothing is created, or what was     *)
(* created is deleted again; the application returns from app_startup.     *)
PrepareHubFails ==
  /\ pc["app"] = "hub"
  /\ is_connected' = FALSE
  /\ host' = sync_response
  /\ Misused(If(azure, "created_twice"))
  /\ \/ UNCHANGED <<azure, hub, link, lost, queue>>
     \/ azure' = FALSE /\ hub' = FALSE /\ link' = FALSE /\ lost' = FALSE /\ queue' = <<>>
  /\ pc' = [pc EXCEPT !["app"] = "stopped"]
  /\ UNCHANGED <<sdkVars, is_disconnect_requested, appVars, back, message>>

(* The middleware connects and calls connection_status_callback(0). *)
Connect ==
  /\ Goto("app", "connect", "connected")
  /\ link' = TRUE
  /\ is_connected' = TRUE
  /\ Notified("connected")
  /\ UNCHANGED <<sdkVars, is_disconnect_requested, host, azure, hub, lost, queue,
                 rounds, sessions, arrived, mode, back, message, misuses>>

DeleteHubOnly ==   \* variant: the Azure object is not deleted
  /\ hub' = FALSE
  /\ UNCHANGED azure

DeleteAll ==
  /\ hub' = FALSE
  /\ azure' = FALSE

(* Lines 278 to 283: all is deleted, and `status`, which is 0, returned. *)
ConnectFails ==
  /\ Goto("app", "connect", "returned")
  /\ DeleteAll
  /\ link' = FALSE /\ lost' = FALSE /\ queue' = <<>>
  /\ UNCHANGED <<sdkVars, hubVars, appVars, back, message, misuses>>

(* Lines 286 and 287. *)
SetConnectedNot == is_connected' = FALSE   \* variant: the flag is cleared here, not before
SetConnected == is_connected' = TRUE

Connected ==
  /\ Goto("app", "connected", "returned")
  /\ SetConnected
  /\ UNCHANGED <<sdkVars, is_disconnect_requested, host, libVars, appVars,
                 back, message, misuses>>

-----------------------------------------------------------------------------
(* The application loop after iotconnect_sdk_init has returned 0. *)

AllRoundsOneMore == Rounds + 1   \* variant: i <= 50
AllRounds == Rounds

Returned ==
  /\ Goto("app", "returned", "check")
  /\ rounds' = AllRounds
  /\ UNCHANGED <<sdkVars, hubVars, libVars, told, sessions, arrived, mode,
                 back, message, misuses>>

(* Lines 455 to 462: while rounds are left, iotconnect_sdk_is_connected is *)
(* asked; when the answer is no app_startup returns.                       *)
RoundDoneNever == UNCHANGED rounds   \* variant: the loop is for ever
RoundDone == rounds' = rounds - 1

Check ==
  /\ rounds > 0
  /\ RoundDone
  /\ Goto("app", "check", IF is_connected THEN "publish" ELSE "stopped")
  /\ UNCHANGED <<sdkVars, hubVars, libVars, told, sessions, arrived, mode,
                 back, message, misuses>>

(* publish_telemetry: iotcl_telemetry_create reads dtg; the message is     *)
(* made and sent on the hub client.  A message that cannot be sent changes *)
(* nothing, and iothub_send_message returns 0 all the same.                *)
Publish ==
  /\ Goto("app", "publish", IF mode = "polls" THEN "receive" ELSE "check")
  /\ Misused(If(dtg \notin heap, "stale_response") \cup If(~hub, "client_gone"))
  /\ UNCHANGED <<sdkVars, hubVars, libVars, appVars, back, message>>

(* Lines 464 to 466: iotconnect_sdk_disconnect, and all over again. *)
LeaveSession ==
  /\ rounds = 0
  /\ Goto("app", "check", "leave")
  /\ back' = [back EXCEPT !["app"] = "start"]
  /\ UNCHANGED <<sdkVars, hubVars, libVars, appVars, message, misuses>>

-----------------------------------------------------------------------------
(* iothub_client_disconnect, by either thread. *)

Disconnect(t) ==
  /\ Goto(t, "leave", IF is_connected THEN "mark" ELSE back[t])
  /\ UNCHANGED <<sdkVars, hubVars, libVars, appVars, back, message, misuses>>

Mark(t) ==
  /\ Goto(t, "mark", "unlink")
  /\ is_connected' = FALSE
  /\ is_disconnect_requested' = TRUE
  /\ UNCHANGED <<sdkVars, host, libVars, appVars, back, message, misuses>>

(* nx_azure_iot_hub_client_disconnect: the middleware may call             *)
(* connection_status_callback for it.                                      *)
Unlink(t) ==
  /\ Goto(t, "unlink", "teardown")
  /\ link' = FALSE
  /\ \/ /\ lost' = FALSE
        /\ is_disconnect_requested' = FALSE
        /\ is_connected' = FALSE
        /\ Notified("disconnected")
     \/ UNCHANGED <<lost, is_disconnect_requested, is_connected, told>>
  /\ UNCHANGED <<sdkVars, host, azure, hub, queue, rounds, sessions, arrived, mode,
                 back, message, misuses>>

TellDisconnectedNot == UNCHANGED told   \* variant: it is left to the callback
TellDisconnected == Notified("disconnected")

(* Lines 295 to 300. *)
Teardown(t) ==
  /\ Goto(t, "teardown", back[t])
  /\ Misused(If(~azure \/ ~hub, "torn_down_twice"))
  /\ DeleteAll
  /\ lost' = FALSE /\ queue' = <<>>
  /\ TellDisconnected
  /\ UNCHANGED <<sdkVars, hubVars, link, rounds, sessions, arrived, mode, back, message>>

-----------------------------------------------------------------------------
(* iothub_c2d_receive and the handling of what it receives. *)

(* IotConnectSdk_Loop is called once there is a connection. *)
LoopStarts ==
  /\ mode = "loops"
  /\ is_connected
  /\ Goto("receiver", "idle", "receive")
  /\ UNCHANGED <<sdkVars, hubVars, libVars, appVars, back, message, misuses>>

Receive(t) ==
  /\ queue # <<>>
  /\ Goto(t, "receive", "handle")
  /\ message' = [message EXCEPT ![t] = Head(queue)]
  /\ queue' = Tail(queue)
  /\ UNCHANGED <<sdkVars, hubVars, azure, hub, link, lost, appVars, back, misuses>>

(* Nothing came in time, or the client has no connection, or is gone. *)
ReceiveNothing(t) ==
  /\ queue = <<>>
  /\ t = "app" \/ ~link
  /\ Goto(t, "receive", IF t = "app" THEN "check" ELSE "idle")
  /\ Misused(If(~hub, IF t = "app" THEN "client_gone" ELSE "received_on_gone"))
  /\ UNCHANGED <<sdkVars, hubVars, libVars, appVars, back, message>>

(* on_message_intercept: the SDK's own part for the two special messages. *)
FirstStepNoDisconnect(m) ==   \* variant: ON_FORCE_SYNC does not disconnect
  CASE m = "other" -> "report" [] m = "force_sync" -> "free" [] m = "close" -> "leave"

FirstStep(m) == IF m = "other" THEN "report" ELSE "leave"

Handle(t) ==
  /\ Goto(t, "handle", FirstStep(message[t]))
  /\ back' = [back EXCEPT ![t] = IF message[t] = "force_sync" THEN "free" ELSE "report"]
  /\ UNCHANGED <<sdkVars, hubVars, libVars, appVars, message, misuses>>

ForgetSyncNot == UNCHANGED sync_response   \* variant: line 231 is missing
ForgetSync == sync_response' = NULL

(* Lines 229 to 231: discovery_response is left pointing to the block freed. *)
ForceSyncFree(t) ==
  /\ Goto(t, "free", "rediscover")
  /\ Misused(If(Dangling({discovery_response, sync_response}), "freed_twice"))
  /\ heap' = heap \ {discovery_response, sync_response}
  /\ ForgetSync
  /\ UNCHANGED <<discovery_response, last_sync_result, dtg, hubVars, libVars,
                 appVars, back, message>>

(* Where a thread goes on when a message has been handled. *)
After(t) ==
  CASE t = "app" -> "check"
    [] t = "receiver" -> IF is_connected THEN "receive" ELSE "idle"

ForceSyncDiscovery(t) ==
  /\ pc[t] = "rediscover"
  /\ RunDiscovery
  /\ pc' = [pc EXCEPT ![t] = IF discovery_response' = NULL THEN After(t) ELSE "resync"]
  /\ UNCHANGED <<sync_response, last_sync_result, dtg, hubVars, libVars, appVars,
                 back, message, misuses>>

ForceSync(t) ==
  /\ pc[t] = "resync"
  /\ RunSync
  /\ pc' = [pc EXCEPT ![t] = IF sync_response' = NULL THEN After(t) ELSE "report"]
  /\ UNCHANGED <<discovery_response, dtg, hubVars, libVars, appVars, back, message>>

(* config.msg_cb is called with the message. *)
Report(t) ==
  /\ Goto(t, "report", After(t))
  /\ UNCHANGED <<sdkVars, hubVars, libVars, appVars, back, message, misuses>>

-----------------------------------------------------------------------------
(* The middleware and its thread. *)

Arrive(m) ==
  /\ link
  /\ m \in IF mode = "polls" THEN Messages ELSE LoopMessages
  /\ arrived < MaxMessages
  /\ Len(queue) < MaxQueue
  /\ arrived' = arrived + 1
  /\ queue' = Append(queue, m)
  /\ UNCHANGED <<sdkVars, hubVars, azure, hub, link, lost, told, rounds,
                 sessions, mode, pc, back, message, misuses>>

Drop ==
  /\ MayDrop
  /\ link
  /\ link' = FALSE
  /\ lost' = TRUE
  /\ UNCHANGED <<sdkVars, hubVars, azure, hub, queue, appVars, pc, back, message, misuses>>

(* connection_status_callback with a status that is not 0. *)
StatusCallback ==
  /\ lost
  /\ lost' = FALSE
  /\ is_connected' = FALSE
  /\ is_disconnect_requested' = FALSE
  /\ Notified("disconnected")
  /\ UNCHANGED <<sdkVars, host, azure, hub, link, queue, rounds, sessions, arrived,
                 mode, pc, back, message, misuses>>

-----------------------------------------------------------------------------
Session(t) ==
  \/ Disconnect(t) \/ Mark(t) \/ Unlink(t) \/ Teardown(t)
  \/ Receive(t) \/ ReceiveNothing(t) \/ Handle(t)
  \/ ForceSyncFree(t) \/ ForceSyncDiscovery(t) \/ ForceSync(t) \/ Report(t)

App ==
  \/ InitSdk \/ InitDiscovery \/ InitSync \/ InitLibrary
  \/ PrepareHub \/ PrepareHubFails \/ Connect \/ ConnectFails \/ Connected
  \/ Returned \/ Check \/ Publish \/ LeaveSession
  \/ Session("app")

Receiver == LoopStarts \/ Session("receiver")

Middleware == StatusCallback \/ Drop \/ \E m \in Messages : Arrive(m)

Next == App \/ Receiver \/ Middleware

Spec == Init /\ [][Next]_vars

(* ThreadX runs every thread that is ready, and each call the application  *)
(* thread makes returns; nothing obliges the network to lose a connection  *)
(* or the server to send a message.                                        *)
FairSpec == Spec /\ WF_vars(App) /\ WF_vars(Receiver) /\ WF_vars(StatusCallback)

-----------------------------------------------------------------------------
(* Properties. *)

TypeOK ==
  /\ {discovery_response, sync_response, dtg, host} \subseteq Blocks \cup {NULL}
  /\ heap \subseteq Blocks
  /\ last_sync_result \in SyncResults
  /\ is_connected \in BOOLEAN /\ is_disconnect_requested \in BOOLEAN
  /\ azure \in BOOLEAN /\ hub \in BOOLEAN /\ link \in BOOLEAN /\ lost \in BOOLEAN
  /\ queue \in Seq(Messages) /\ Len(queue) <= MaxQueue
  /\ told \in Statuses
  /\ rounds \in 0 .. Rounds
  /\ sessions \in 0 .. MaxSessions
  /\ arrived \in 0 .. MaxMessages
  /\ mode \in Modes
  /\ pc \in [Threads -> {"start", "discovery", "sync", "library", "hub", "connect",
        "connected", "returned", "check", "publish", "stopped", "leave", "mark",
        "unlink", "teardown", "idle", "receive", "handle", "free", "rediscover",
        "resync", "report"}]
  /\ back \in [Threads -> {"idle", "start", "free", "report"}]
  /\ message \in [Threads -> Messages]
  /\ misuses \subseteq Misuses

(* iotconnect_sdk_init begins, and app_startup ends, with nothing of an    *)
(* earlier session left: every way out of a session, a failed connection,  *)
(* ON_FORCE_SYNC, ON_CLOSE or the application's own disconnect, deletes    *)
(* what iothub_client_init made.                                           *)
NothingHeld ==
  pc["app"] \in {"start", "stopped"} => ~azure /\ ~hub /\ ~link

(* No call is made that its callee forbids: no pointer freed twice or read *)
(* after it was freed, no object created over another or deleted twice, no *)
(* message sent on a client that is gone; and the host and device name the *)
(* hub client was given, and the template id of the telemetry, stay        *)
(* allocated as long as the client exists.                                 *)
NoMisuse ==
  /\ misuses \subseteq {"received_on_gone"}
  /\ hub => host \in heap /\ dtg \in heap

(* The same when connections may be lost, but for the object left behind   *)
(* by a loss, over which the next session creates its own; the names stay  *)
(* allocated as long as is_connected says that there is a connection.      *)
MemorySafe ==
  /\ misuses \subseteq {"received_on_gone", "created_twice"}
  /\ is_connected => host \in heap /\ dtg \in heap

(* The last status the application was told is the one                     *)
(* iotconnect_sdk_is_connected answers.                                    *)
ToldTheTruth ==
  pc["app"] \in {"start", "check", "stopped"} /\ pc["receiver"] \in {"idle", "receive"} =>
    (told = "connected" <=> is_connected)

(* No connection that works is given up: is_connected is only false over a *)
(* live link while a thread is about to cut it.                            *)
NeverAbandonsLink ==
  link /\ ~is_connected => \E t \in Threads : pc[t] = "unlink"

(* When iotconnect_sdk_init fails before the hub, iotconnect_get_last_     *)
(* sync_result does not answer for an earlier session.                     *)
FailureExplained ==
  [][pc["app"] \in {"discovery", "sync"} /\ pc'["app"] = "stopped" =>
       last_sync_result' # "ok"]_vars

(* The hub client is deinitialised, and the object deleted, once.          *)
TornDownOnce == "torn_down_twice" \notin misuses

(* Even when the loss is notified between the connection and line 286,     *)
(* which sets is_connected again, the flag does not lie for ever: the      *)
(* rounds of the session run out.                                          *)
LossIsNoticed == is_connected /\ ~link ~> ~is_connected
=============================================================================
