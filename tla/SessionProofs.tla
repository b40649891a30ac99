--------------------------- MODULE SessionProofs ---------------------------
(***************************************************************************)
(* Proofs about HubSession, for any number of sessions, rounds, messages   *)
(* and blocks.  All but the types need what NoOwnDisconnect says: a        *)
(* receiver thread of its own is sent no message that disconnects.         *)
(***************************************************************************)
EXTENDS HubSession, TLAPS

NoOwnDisconnect == "loops" \in Modes => LoopMessages \subseteq {"other"}

At(places) == pc["app"] \in places

(* The receiver thread only receives and reports; where the application    *)
(* thread returns to from iothub_client_disconnect.                        *)
Alone ==
  /\ pc["app"] # "idle"
  /\ mode = "polls" => pc["receiver"] = "idle"
  /\ mode = "loops" =>
       /\ pc["receiver"] \in {"idle", "receive", "handle", "report"}
       /\ message["receiver"] = "other"
       /\ queue \in Seq({"other"})
       /\ ~At({"receive", "handle", "free", "rediscover", "resync", "report"})
  /\ At({"leave", "mark", "unlink", "teardown"}) =>
       /\ back["app"] \in {"start", "free", "report"}
       /\ mode = "loops" => back["app"] = "start"

Offline == {"start", "discovery", "sync", "library", "hub", "connect", "stopped",
            "free", "rediscover", "resync", "unlink", "teardown"}

(* The flag covers the link; a loss not yet notified is one of a link that *)
(* is still flagged or just being torn down.                               *)
Flagged ==
  /\ link => is_connected \/ At({"unlink"})
  /\ lost => ~link /\ (is_connected \/ At({"unlink", "teardown"}))
  /\ At(Offline) => ~is_connected

Using == {"connect", "connected", "mark", "unlink", "teardown"}

(* Pointers kept are NULL or allocated, but between the free and the       *)
(* discovery of ON_FORCE_SYNC; what a client in use points to is allocated. *)
Owned ==
  /\ discovery_response \in heap \cup {NULL} \/ At({"rediscover"})
  /\ sync_response \in heap \cup {NULL}
  /\ At({"sync", "resync"}) => discovery_response \in heap
  /\ At({"library", "hub"}) => sync_response \in heap
  /\ At({"hub"}) => dtg = sync_response
  /\ is_connected \/ At(Using) => azure /\ hub /\ host \in heap /\ dtg \in heap
  /\ At({"publish", "receive"}) => hub /\ dtg \in heap

(* While no connection is lost, the object, the flag and what the          *)
(* application was told go together.                                       *)
Kept ==
  MayDrop = FALSE =>
    /\ ~lost
    /\ azure = hub
    /\ hub => is_connected \/ At({"connect", "connected", "unlink", "teardown"})
    /\ ~At({"unlink", "teardown"}) /\ ~At({"connected"}) =>
         (told = "connected" <=> is_connected)
    /\ At({"connected"}) => told = "connected"

Behaved ==
  /\ misuses \subseteq {"received_on_gone", "created_twice"}
  /\ MayDrop = FALSE => "created_twice" \notin misuses

Unexplained == At({"discovery", "sync"}) => last_sync_result # "ok"

Safe == Alone /\ Flagged /\ Owned /\ Kept /\ Behaved /\ Unexplained
Inv == TypeOK /\ Safe
-----------------------------------------------------------------------------
(* The type of the queue, as a whole. *)
QueueOK(q) == q \in Seq({"force_sync", "close", "other"}) /\ Len(q) <= MaxQueue

LEMMA EmptyQueue == QueueOK(<<>>) /\ <<>> \in Seq({"other"})
  BY SessionAssumption DEF QueueOK

(* Types. *)
LEMMA InitTypes ==
  ASSUME TypeOK,
         InitSdk \/ InitDiscovery \/ InitSync \/ InitLibrary
  PROVE  TypeOK'
<1> USE SessionAssumption DEF TypeOK, Statuses, SyncResults, Misuses, Messages, Threads,
          Goto, sdkVars, hubVars, libVars, appVars
<1>1. CASE InitSdk
  BY <1>1 DEF InitSdk, ResetResult, Misused, If, Dangling
<1>2. CASE InitDiscovery
  BY <1>2 DEF InitDiscovery, RunDiscovery, Unused, Pointers
<1>3. CASE InitSync
  BY <1>3 DEF InitSync, RunSync, Unused, Pointers, Misused, If
<1>4. CASE InitLibrary
  BY <1>4 DEF InitLibrary
<1> QED
  BY <1>1, <1>2, <1>3, <1>4

LEMMA HubTypes ==
  ASSUME TypeOK,
         PrepareHub \/ PrepareHubFails \/ Connect \/ ConnectFails \/
         Connected
  PROVE  TypeOK'
<1> USE SessionAssumption DEF TypeOK, Statuses, SyncResults, Misuses, Messages, Threads,
          Goto, sdkVars, hubVars, libVars, appVars
<1>1. CASE PrepareHub
  BY <1>1 DEF PrepareHub, Misused, If
<1>2. CASE PrepareHubFails
  <2>1. QueueOK(queue')
    BY <1>2, EmptyQueue DEF PrepareHubFails, QueueOK
  <2> QED
    BY <1>2, <2>1 DEF PrepareHubFails, Misused, If, QueueOK
<1>3. CASE Connect
  BY <1>3 DEF Connect, Notified
<1>4. CASE ConnectFails
  <2>1. QueueOK(queue')
    BY <1>4, EmptyQueue DEF ConnectFails
  <2> QED
    BY <1>4, <2>1 DEF ConnectFails, DeleteAll, QueueOK
<1>5. CASE Connected
  BY <1>5 DEF Connected, SetConnected
<1> QED
  BY <1>1, <1>2, <1>3, <1>4, <1>5

LEMMA LoopTypes ==
  ASSUME TypeOK,
         Returned \/ Check \/ Publish \/ LeaveSession
  PROVE  TypeOK'
<1> USE SessionAssumption DEF TypeOK, Statuses, SyncResults, Misuses, Messages, Threads,
          Goto, sdkVars, hubVars, libVars, appVars
<1>1. CASE Returned
  BY <1>1 DEF Returned, AllRounds
<1>2. CASE Check
  BY <1>2 DEF Check, RoundDone
<1>3. CASE Publish
  BY <1>3 DEF Publish, Misused, If
<1>4. CASE LeaveSession
  BY <1>4 DEF LeaveSession
<1> QED
  BY <1>1, <1>2, <1>3, <1>4

LEMMA ThreadTypes ==
  ASSUME TypeOK, NEW t \in Threads,
         Disconnect(t) \/ Mark(t) \/ Unlink(t) \/ Teardown(t) \/ Receive(t)
         \/ ReceiveNothing(t) \/ Handle(t) \/ ForceSyncFree(t) \/
         ForceSyncDiscovery(t) \/ ForceSync(t) \/ Report(t)
  PROVE  TypeOK'
<1> USE SessionAssumption DEF TypeOK, Statuses, SyncResults, Misuses, Messages, Threads,
          Goto, sdkVars, hubVars, libVars, appVars
<1>1. CASE Disconnect(t)
  BY <1>1 DEF Disconnect
<1>2. CASE Mark(t)
  BY <1>2 DEF Mark
<1>3. CASE Unlink(t)
  BY <1>3 DEF Unlink, Notified
<1>4. CASE Teardown(t)
  <2>1. QueueOK(queue')
    BY <1>4, EmptyQueue DEF Teardown
  <2> QED
    BY <1>4, <2>1 DEF Teardown, DeleteAll, Misused, If, TellDisconnected, Notified, QueueOK
<1>5. CASE Receive(t)
  BY <1>5 DEF Receive
<1>6. CASE ReceiveNothing(t)
  BY <1>6 DEF ReceiveNothing, Misused, If
<1>7. CASE Handle(t)
  BY <1>7 DEF Handle, FirstStep
<1>8. CASE ForceSyncFree(t)
  BY <1>8 DEF ForceSyncFree, ForgetSync, Misused, If, Dangling
<1>9. CASE ForceSyncDiscovery(t)
  BY <1>9 DEF ForceSyncDiscovery, RunDiscovery, Unused, Pointers, After
<1>10. CASE ForceSync(t)
    BY <1>10 DEF ForceSync, RunSync, Unused, Pointers, Misused, If, After
<1>11. CASE Report(t)
    BY <1>11 DEF Report, After
<1> QED
  BY <1>1, <1>2, <1>3, <1>4, <1>5, <1>6, <1>7, <1>8, <1>9, <1>10, <1>11

LEMMA MiddlewareTypes ==
  ASSUME TypeOK, NEW m \in Messages,
         StatusCallback \/ Drop \/ Arrive(m)
  PROVE  TypeOK'
<1> USE SessionAssumption DEF TypeOK, Statuses, SyncResults, Misuses, Messages, Threads,
          Goto, sdkVars, hubVars, libVars, appVars
<1>1. CASE StatusCallback
  BY <1>1 DEF StatusCallback, Notified
<1>2. CASE Drop
  BY <1>2 DEF Drop
<1>3. CASE Arrive(m)
  BY <1>3 DEF Arrive
<1> QED
  BY <1>1, <1>2, <1>3

LEMMA ReceiverTypes ==
  ASSUME TypeOK, LoopStarts PROVE TypeOK'
  BY SessionAssumption DEF TypeOK, Statuses, SyncResults, Misuses, Messages, Threads,
     Goto, sdkVars, hubVars, libVars, appVars, LoopStarts

LEMMA TypeStep ==
  ASSUME TypeOK, [Next]_vars PROVE TypeOK'
<1>1. CASE App
  BY <1>1, InitTypes, HubTypes, LoopTypes, ThreadTypes DEF App, Session, Threads
<1>2. CASE Receiver
  BY <1>2, ReceiverTypes, ThreadTypes DEF Receiver, Session, Threads
<1>3. CASE Middleware
  <2>1. PICK m \in Messages : StatusCallback \/ Drop \/ Arrive(m)
    BY <1>3 DEF Middleware, Messages
  <2> QED
    BY <2>1, MiddlewareTypes
<1>4. CASE UNCHANGED vars
  BY <1>4 DEF vars, sdkVars, hubVars, libVars, appVars, TypeOK
<1> QED
  BY <1>1, <1>2, <1>3, <1>4 DEF Next

LEMMA TypeInit == Init => TypeOK
<1> SUFFICES ASSUME Init PROVE TypeOK
  OBVIOUS
<1>1. QueueOK(queue)
  BY EmptyQueue DEF Init
<1>2. /\ pc = [t \in Threads |-> IF t = "app" THEN "start" ELSE "idle"]
      /\ back = [t \in Threads |-> "idle"]
      /\ message = [t \in Threads |-> "other"]
  BY DEF Init
<1>3. /\ discovery_response = NULL /\ sync_response = NULL /\ dtg = NULL /\ host = NULL
      /\ heap = {} /\ last_sync_result = "unknown" /\ told = "none" /\ misuses = {}
      /\ rounds = 0 /\ sessions = 0 /\ arrived = 0 /\ mode \in Modes
      /\ is_connected \in BOOLEAN /\ is_disconnect_requested \in BOOLEAN
      /\ azure \in BOOLEAN /\ hub \in BOOLEAN /\ link \in BOOLEAN /\ lost \in BOOLEAN
  BY DEF Init
<1> QED
  BY <1>1, <1>2, <1>3, SessionAssumption
     DEF QueueOK, TypeOK, Statuses, SyncResults, Misuses, Messages, Threads

(* Every variable of the SDK, the IoTHub client and the application keeps  *)
(* its type.                                                               *)
THEOREM TypeCorrect == Spec => []TypeOK
<1>1. TypeOK /\ [Next]_vars => TypeOK'
  BY TypeStep
<1> QED
  BY <1>1, TypeInit, PTL DEF Spec

-----------------------------------------------------------------------------
(* Steps of the invariant. *)

(* iotconnect_sdk_init up to the hub. *)
LEMMA InitSteps ==
  ASSUME Inv, NoOwnDisconnect,
         InitSdk \/ InitDiscovery \/ InitSync \/ InitLibrary
  PROVE  Safe'
<1> USE SessionAssumption DEF Inv, Safe, At, Threads, Goto, sdkVars, hubVars, libVars,
          appVars
<1>1. CASE InitSdk
  <2> USE <1>1 DEF InitSdk, ResetResult, Misused, If, Dangling
  <2>1. Alone'
    BY NoOwnDisconnect DEF TypeOK, Alone, Messages, NoOwnDisconnect
  <2>2. Flagged'
    BY DEF TypeOK, Alone, Flagged, Offline
  <2>3. Owned'
    BY DEF TypeOK, Alone, Flagged, Owned, Offline, Using
  <2>4. Kept'
    BY DEF TypeOK, Alone, Flagged, Owned, Kept, Offline, Using
  <2>5. Behaved'
    BY DEF TypeOK, Flagged, Owned, Kept, Behaved, Offline, Using
  <2>6. Unexplained'
    BY DEF Unexplained, TypeOK
  <2> QED
    BY <2>1, <2>2, <2>3, <2>4, <2>5, <2>6
<1>2. CASE InitDiscovery
  <2> USE <1>2 DEF InitDiscovery, RunDiscovery, Unused, Pointers
  <2>1. Alone'
    BY NoOwnDisconnect DEF TypeOK, Alone, Messages, NoOwnDisconnect
  <2>2. Flagged'
    BY DEF TypeOK, Alone, Flagged, Offline
  <2>3. Owned'
    BY DEF TypeOK, Alone, Flagged, Owned, Offline, Using
  <2>4. Kept'
    BY DEF TypeOK, Alone, Flagged, Owned, Kept, Offline, Using
  <2>5. Behaved'
    BY DEF TypeOK, Flagged, Owned, Kept, Behaved, Offline, Using
  <2>6. Unexplained'
    BY DEF Unexplained, TypeOK
  <2> QED
    BY <2>1, <2>2, <2>3, <2>4, <2>5, <2>6
<1>3. CASE InitSync
  <2> USE <1>3 DEF InitSync, RunSync, Unused, Pointers, Misused, If
  <2>1. Alone'
    BY NoOwnDisconnect DEF TypeOK, Alone, Messages, NoOwnDisconnect
  <2>2. Flagged'
    BY DEF TypeOK, Alone, Flagged, Offline
  <2>3. Owned'
    BY DEF TypeOK, Alone, Flagged, Owned, Offline, Using
  <2>4. Kept'
    BY DEF TypeOK, Alone, Flagged, Owned, Kept, Offline, Using
  <2>5. Behaved'
    BY DEF TypeOK, Flagged, Owned, Kept, Behaved, Offline, Using
  <2>6. Unexplained'
    BY DEF Unexplained, TypeOK
  <2> QED
    BY <2>1, <2>2, <2>3, <2>4, <2>5, <2>6
<1>4. CASE InitLibrary
  <2> USE <1>4 DEF InitLibrary
  <2>1. Alone'
    BY NoOwnDisconnect DEF TypeOK, Alone, Messages, NoOwnDisconnect
  <2>2. Flagged'
    BY DEF TypeOK, Alone, Flagged, Offline
  <2>3. Owned'
    BY DEF TypeOK, Alone, Flagged, Owned, Offline, Using
  <2>4. Kept'
    BY DEF TypeOK, Alone, Flagged, Owned, Kept, Offline, Using
  <2>5. Behaved'
    BY DEF TypeOK, Flagged, Owned, Kept, Behaved, Offline, Using
  <2>6. Unexplained'
    BY DEF Unexplained, TypeOK
  <2> QED
    BY <2>1, <2>2, <2>3, <2>4, <2>5, <2>6
<1> QED
  BY <1>1, <1>2, <1>3, <1>4

(* iothub_client_init. *)
LEMMA HubSteps ==
  ASSUME Inv, NoOwnDisconnect,
         PrepareHub \/ PrepareHubFails \/ Connect \/ ConnectFails \/
         Connected
  PROVE  Safe'
<1> USE SessionAssumption DEF Inv, Safe, At, Threads, Goto, sdkVars, hubVars, libVars,
          appVars
<1>1. CASE PrepareHub
  <2> USE <1>1 DEF PrepareHub, Misused, If
  <2>1. Alone'
    BY NoOwnDisconnect DEF TypeOK, Alone, Messages, NoOwnDisconnect
  <2>2. Flagged'
    BY DEF TypeOK, Alone, Flagged, Offline
  <2>3. Owned'
    BY DEF TypeOK, Alone, Flagged, Owned, Offline, Using
  <2>4. Kept'
    BY DEF TypeOK, Alone, Flagged, Owned, Kept, Offline, Using
  <2>5. Behaved'
    BY DEF TypeOK, Flagged, Owned, Kept, Behaved, Offline, Using
  <2>6. Unexplained'
    BY DEF Unexplained, TypeOK
  <2> QED
    BY <2>1, <2>2, <2>3, <2>4, <2>5, <2>6
<1>2. CASE PrepareHubFails
  <2> USE <1>2 DEF PrepareHubFails, Misused, If
  <2>1. Alone'
    <3>1. mode = "loops" => queue' \in Seq({"other"})
      BY EmptyQueue DEF Alone
    <3>2. mode' = mode /\ pc' = [pc EXCEPT !["app"] = "stopped"]
          /\ message' = message /\ back' = back
      OBVIOUS
    <3>3. pc["receiver"]' = pc["receiver"] /\ pc["app"]' = "stopped"
      BY <3>2 DEF TypeOK
    <3> QED
      BY <3>1, <3>2, <3>3 DEF Alone
  <2>2. Flagged'
    BY DEF TypeOK, Alone, Flagged, Offline
  <2>3. Owned'
    BY DEF TypeOK, Alone, Flagged, Owned, Offline, Using
  <2>4. Kept'
    BY DEF TypeOK, Alone, Flagged, Owned, Kept, Offline, Using
  <2>5. Behaved'
    BY DEF TypeOK, Flagged, Owned, Kept, Behaved, Offline, Using
  <2>6. Unexplained'
    BY DEF Unexplained, TypeOK
  <2> QED
    BY <2>1, <2>2, <2>3, <2>4, <2>5, <2>6
<1>3. CASE Connect
  <2> USE <1>3 DEF Connect, Notified
  <2>1. Alone'
    BY NoOwnDisconnect DEF TypeOK, Alone, Messages, NoOwnDisconnect
  <2>2. Flagged'
    BY DEF TypeOK, Alone, Flagged, Offline
  <2>3. Owned'
    BY DEF TypeOK, Alone, Flagged, Owned, Offline, Using
  <2>4. Kept'
    BY DEF TypeOK, Alone, Flagged, Owned, Kept, Offline, Using
  <2>5. Behaved'
    BY DEF TypeOK, Flagged, Owned, Kept, Behaved, Offline, Using
  <2>6. Unexplained'
    BY DEF Unexplained, TypeOK
  <2> QED
    BY <2>1, <2>2, <2>3, <2>4, <2>5, <2>6
<1>4. CASE ConnectFails
  <2> USE <1>4 DEF ConnectFails, DeleteAll
  <2>1. Alone'
    BY NoOwnDisconnect DEF TypeOK, Alone, Messages, NoOwnDisconnect
  <2>2. Flagged'
    BY DEF TypeOK, Alone, Flagged, Offline
  <2>3. Owned'
    BY DEF TypeOK, Alone, Flagged, Owned, Offline, Using
  <2>4. Kept'
    BY DEF TypeOK, Alone, Flagged, Owned, Kept, Offline, Using
  <2>5. Behaved'
    BY DEF TypeOK, Flagged, Owned, Kept, Behaved, Offline, Using
  <2>6. Unexplained'
    BY DEF Unexplained, TypeOK
  <2> QED
    BY <2>1, <2>2, <2>3, <2>4, <2>5, <2>6
<1>5. CASE Connected
  <2> USE <1>5 DEF Connected, SetConnected
  <2>1. Alone'
    BY NoOwnDisconnect DEF TypeOK, Alone, Messages, NoOwnDisconnect
  <2>2. Flagged'
    BY DEF TypeOK, Alone, Flagged, Offline
  <2>3. Owned'
    BY DEF TypeOK, Alone, Flagged, Owned, Offline, Using
  <2>4. Kept'
    BY DEF TypeOK, Alone, Flagged, Owned, Kept, Offline, Using
  <2>5. Behaved'
    BY DEF TypeOK, Flagged, Owned, Kept, Behaved, Offline, Using
  <2>6. Unexplained'
    BY DEF Unexplained, TypeOK
  <2> QED
    BY <2>1, <2>2, <2>3, <2>4, <2>5, <2>6
<1> QED
  BY <1>1, <1>2, <1>3, <1>4, <1>5

(* The application's loop. *)
LEMMA LoopSteps ==
  ASSUME Inv, NoOwnDisconnect,
         Returned \/ Check \/ Publish \/ LeaveSession
  PROVE  Safe'
<1> USE SessionAssumption DEF Inv, Safe, At, Threads, Goto, sdkVars, hubVars, libVars,
          appVars
<1>1. CASE Returned
  <2> USE <1>1 DEF Returned, AllRounds
  <2>1. Alone'
    BY NoOwnDisconnect DEF TypeOK, Alone, Messages, NoOwnDisconnect
  <2>2. Flagged'
    BY DEF TypeOK, Alone, Flagged, Offline
  <2>3. Owned'
    BY DEF TypeOK, Alone, Flagged, Owned, Offline, Using
  <2>4. Kept'
    BY DEF TypeOK, Alone, Flagged, Owned, Kept, Offline, Using
  <2>5. Behaved'
    BY DEF TypeOK, Flagged, Owned, Kept, Behaved, Offline, Using
  <2>6. Unexplained'
    BY DEF Unexplained, TypeOK
  <2> QED
    BY <2>1, <2>2, <2>3, <2>4, <2>5, <2>6
<1>2. CASE Check
  <2> USE <1>2 DEF Check, RoundDone
  <2>1. Alone'
    BY NoOwnDisconnect DEF TypeOK, Alone, Messages, NoOwnDisconnect
  <2>2. Flagged'
    BY DEF TypeOK, Alone, Flagged, Offline
  <2>3. Owned'
    BY DEF TypeOK, Alone, Flagged, Owned, Offline, Using
  <2>4. Kept'
    BY DEF TypeOK, Alone, Flagged, Owned, Kept, Offline, Using
  <2>5. Behaved'
    BY DEF TypeOK, Flagged, Owned, Kept, Behaved, Offline, Using
  <2>6. Unexplained'
    BY DEF Unexplained, TypeOK
  <2> QED
    BY <2>1, <2>2, <2>3, <2>4, <2>5, <2>6
<1>3. CASE Publish
  <2> USE <1>3 DEF Publish, Misused, If
  <2>1. Alone'
    BY NoOwnDisconnect DEF TypeOK, Alone, Messages, NoOwnDisconnect
  <2>2. Flagged'
    BY DEF TypeOK, Alone, Flagged, Offline
  <2>3. Owned'
    BY DEF TypeOK, Alone, Flagged, Owned, Offline, Using
  <2>4. Kept'
    BY DEF TypeOK, Alone, Flagged, Owned, Kept, Offline, Using
  <2>5. Behaved'
    BY DEF TypeOK, Flagged, Owned, Kept, Behaved, Offline, Using
  <2>6. Unexplained'
    BY DEF Unexplained, TypeOK
  <2> QED
    BY <2>1, <2>2, <2>3, <2>4, <2>5, <2>6
<1>4. CASE LeaveSession
  <2> USE <1>4 DEF LeaveSession
  <2>1. Alone'
    BY NoOwnDisconnect DEF TypeOK, Alone, Messages, NoOwnDisconnect
  <2>2. Flagged'
    BY DEF TypeOK, Alone, Flagged, Offline
  <2>3. Owned'
    BY DEF TypeOK, Alone, Flagged, Owned, Offline, Using
  <2>4. Kept'
    BY DEF TypeOK, Alone, Flagged, Owned, Kept, Offline, Using
  <2>5. Behaved'
    BY DEF TypeOK, Flagged, Owned, Kept, Behaved, Offline, Using
  <2>6. Unexplained'
    BY DEF Unexplained, TypeOK
  <2> QED
    BY <2>1, <2>2, <2>3, <2>4, <2>5, <2>6
<1> QED
  BY <1>1, <1>2, <1>3, <1>4

(* iothub_client_disconnect, by the application. *)
LEMMA DisconnectSteps ==
  ASSUME Inv, NoOwnDisconnect,
         Disconnect("app") \/ Mark("app") \/ Unlink("app") \/
         Teardown("app")
  PROVE  Safe'
<1> USE SessionAssumption DEF Inv, Safe, At, Threads, Goto, sdkVars, hubVars, libVars,
          appVars
<1>1. CASE Disconnect("app")
  <2> USE <1>1 DEF Disconnect
  <2>1. Alone'
    BY NoOwnDisconnect DEF TypeOK, Alone, Messages, NoOwnDisconnect
  <2>2. Flagged'
    BY DEF TypeOK, Alone, Flagged, Offline
  <2>3. Owned'
    BY DEF TypeOK, Alone, Flagged, Owned, Offline, Using
  <2>4. Kept'
    BY DEF TypeOK, Alone, Flagged, Owned, Kept, Offline, Using
  <2>5. Behaved'
    BY DEF TypeOK, Flagged, Owned, Kept, Behaved, Offline, Using
  <2>6. Unexplained'
    BY DEF Unexplained, TypeOK
  <2> QED
    BY <2>1, <2>2, <2>3, <2>4, <2>5, <2>6
<1>2. CASE Mark("app")
  <2> USE <1>2 DEF Mark
  <2>1. Alone'
    BY NoOwnDisconnect DEF TypeOK, Alone, Messages, NoOwnDisconnect
  <2>2. Flagged'
    BY DEF TypeOK, Alone, Flagged, Offline
  <2>3. Owned'
    BY DEF TypeOK, Alone, Flagged, Owned, Offline, Using
  <2>4. Kept'
    BY DEF TypeOK, Alone, Flagged, Owned, Kept, Offline, Using
  <2>5. Behaved'
    BY DEF TypeOK, Flagged, Owned, Kept, Behaved, Offline, Using
  <2>6. Unexplained'
    BY DEF Unexplained, TypeOK
  <2> QED
    BY <2>1, <2>2, <2>3, <2>4, <2>5, <2>6
<1>3. CASE Unlink("app")
  <2> USE <1>3 DEF Unlink, Notified
  <2>1. Alone'
    BY NoOwnDisconnect DEF TypeOK, Alone, Messages, NoOwnDisconnect
  <2>2. Flagged'
    BY DEF TypeOK, Alone, Flagged, Offline
  <2>3. Owned'
    BY DEF TypeOK, Alone, Flagged, Owned, Offline, Using
  <2>4. Kept'
    BY DEF TypeOK, Alone, Flagged, Owned, Kept, Offline, Using
  <2>5. Behaved'
    BY DEF TypeOK, Flagged, Owned, Kept, Behaved, Offline, Using
  <2>6. Unexplained'
    BY DEF Unexplained, TypeOK
  <2> QED
    BY <2>1, <2>2, <2>3, <2>4, <2>5, <2>6
<1>4. CASE Teardown("app")
  <2> USE <1>4 DEF Teardown, DeleteAll, Misused, If, TellDisconnected, Notified
  <2>1. Alone'
    BY NoOwnDisconnect DEF TypeOK, Alone, Messages, NoOwnDisconnect
  <2>2. Flagged'
    BY DEF TypeOK, Alone, Flagged, Offline
  <2>3. Owned'
    BY DEF TypeOK, Alone, Flagged, Owned, Offline, Using
  <2>4. Kept'
    BY DEF TypeOK, Alone, Flagged, Owned, Kept, Offline, Using
  <2>5. Behaved'
    BY DEF TypeOK, Flagged, Owned, Kept, Behaved, Offline, Using
  <2>6. Unexplained'
    BY DEF Unexplained, TypeOK
  <2> QED
    BY <2>1, <2>2, <2>3, <2>4, <2>5, <2>6
<1> QED
  BY <1>1, <1>2, <1>3, <1>4

(* Messages, by the application. *)
LEMMA MessageSteps ==
  ASSUME Inv, NoOwnDisconnect,
         Receive("app") \/ ReceiveNothing("app") \/ Handle("app") \/
         ForceSyncFree("app") \/ ForceSyncDiscovery("app") \/
         ForceSync("app") \/ Report("app")
  PROVE  Safe'
<1> USE SessionAssumption DEF Inv, Safe, At, Threads, Goto, sdkVars, hubVars, libVars,
          appVars
<1>1. CASE Receive("app")
  <2> USE <1>1 DEF Receive
  <2>1. Alone'
    BY NoOwnDisconnect DEF TypeOK, Alone, Messages, NoOwnDisconnect
  <2>2. Flagged'
    BY DEF TypeOK, Alone, Flagged, Offline
  <2>3. Owned'
    BY DEF TypeOK, Alone, Flagged, Owned, Offline, Using
  <2>4. Kept'
    BY DEF TypeOK, Alone, Flagged, Owned, Kept, Offline, Using
  <2>5. Behaved'
    BY DEF TypeOK, Flagged, Owned, Kept, Behaved, Offline, Using
  <2>6. Unexplained'
    BY DEF Unexplained, TypeOK
  <2> QED
    BY <2>1, <2>2, <2>3, <2>4, <2>5, <2>6
<1>2. CASE ReceiveNothing("app")
  <2> USE <1>2 DEF ReceiveNothing, Misused, If
  <2>1. Alone'
    BY NoOwnDisconnect DEF TypeOK, Alone, Messages, NoOwnDisconnect
  <2>2. Flagged'
    BY DEF TypeOK, Alone, Flagged, Offline
  <2>3. Owned'
    BY DEF TypeOK, Alone, Flagged, Owned, Offline, Using
  <2>4. Kept'
    BY DEF TypeOK, Alone, Flagged, Owned, Kept, Offline, Using
  <2>5. Behaved'
    BY DEF TypeOK, Flagged, Owned, Kept, Behaved, Offline, Using
  <2>6. Unexplained'
    BY DEF Unexplained, TypeOK
  <2> QED
    BY <2>1, <2>2, <2>3, <2>4, <2>5, <2>6
<1>3. CASE Handle("app")
  <2> USE <1>3 DEF Handle, FirstStep
  <2>1. Alone'
    BY NoOwnDisconnect DEF TypeOK, Alone, Messages, NoOwnDisconnect
  <2>2. Flagged'
    BY DEF TypeOK, Alone, Flagged, Offline
  <2>3. Owned'
    BY DEF TypeOK, Alone, Flagged, Owned, Offline, Using
  <2>4. Kept'
    BY DEF TypeOK, Alone, Flagged, Owned, Kept, Offline, Using
  <2>5. Behaved'
    BY DEF TypeOK, Flagged, Owned, Kept, Behaved, Offline, Using
  <2>6. Unexplained'
    BY DEF Unexplained, TypeOK
  <2> QED
    BY <2>1, <2>2, <2>3, <2>4, <2>5, <2>6
<1>4. CASE ForceSyncFree("app")
  <2> USE <1>4 DEF ForceSyncFree, ForgetSync, Misused, If, Dangling
  <2>1. Alone'
    BY NoOwnDisconnect DEF TypeOK, Alone, Messages, NoOwnDisconnect
  <2>2. Flagged'
    BY DEF TypeOK, Alone, Flagged, Offline
  <2>3. Owned'
    BY DEF TypeOK, Alone, Flagged, Owned, Offline, Using
  <2>4. Kept'
    BY DEF TypeOK, Alone, Flagged, Owned, Kept, Offline, Using
  <2>5. Behaved'
    BY DEF TypeOK, Flagged, Owned, Kept, Behaved, Offline, Using
  <2>6. Unexplained'
    BY DEF Unexplained, TypeOK
  <2> QED
    BY <2>1, <2>2, <2>3, <2>4, <2>5, <2>6
<1>5. CASE ForceSyncDiscovery("app")
  <2> USE <1>5 DEF ForceSyncDiscovery, RunDiscovery, Unused, Pointers, After
  <2>1. Alone'
    BY NoOwnDisconnect DEF TypeOK, Alone, Messages, NoOwnDisconnect
  <2>2. Flagged'
    BY DEF TypeOK, Alone, Flagged, Offline
  <2>3. Owned'
    BY DEF TypeOK, Alone, Flagged, Owned, Offline, Using
  <2>4. Kept'
    BY DEF TypeOK, Alone, Flagged, Owned, Kept, Offline, Using
  <2>5. Behaved'
    BY DEF TypeOK, Flagged, Owned, Kept, Behaved, Offline, Using
  <2>6. Unexplained'
    BY DEF Unexplained, TypeOK
  <2> QED
    BY <2>1, <2>2, <2>3, <2>4, <2>5, <2>6
<1>6. CASE ForceSync("app")
  <2> USE <1>6 DEF ForceSync, RunSync, Unused, Pointers, Misused, If, After
  <2>1. Alone'
    BY NoOwnDisconnect DEF TypeOK, Alone, Messages, NoOwnDisconnect
  <2>2. Flagged'
    BY DEF TypeOK, Alone, Flagged, Offline
  <2>3. Owned'
    BY DEF TypeOK, Alone, Flagged, Owned, Offline, Using
  <2>4. Kept'
    BY DEF TypeOK, Alone, Flagged, Owned, Kept, Offline, Using
  <2>5. Behaved'
    BY DEF TypeOK, Flagged, Owned, Kept, Behaved, Offline, Using
  <2>6. Unexplained'
    BY DEF Unexplained, TypeOK
  <2> QED
    BY <2>1, <2>2, <2>3, <2>4, <2>5, <2>6
<1>7. CASE Report("app")
  <2> USE <1>7 DEF Report, After
  <2>1. Alone'
    BY NoOwnDisconnect DEF TypeOK, Alone, Messages, NoOwnDisconnect
  <2>2. Flagged'
    BY DEF TypeOK, Alone, Flagged, Offline
  <2>3. Owned'
    BY DEF TypeOK, Alone, Flagged, Owned, Offline, Using
  <2>4. Kept'
    BY DEF TypeOK, Alone, Flagged, Owned, Kept, Offline, Using
  <2>5. Behaved'
    BY DEF TypeOK, Flagged, Owned, Kept, Behaved, Offline, Using
  <2>6. Unexplained'
    BY DEF Unexplained, TypeOK
  <2> QED
    BY <2>1, <2>2, <2>3, <2>4, <2>5, <2>6
<1> QED
  BY <1>1, <1>2, <1>3, <1>4, <1>5, <1>6, <1>7

(* The receiver thread. *)
LEMMA ReceiverSteps ==
  ASSUME Inv, NoOwnDisconnect,
         LoopStarts \/ Receive("receiver") \/ ReceiveNothing("receiver") \/
         Handle("receiver") \/ Report("receiver")
  PROVE  Safe'
<1> USE SessionAssumption DEF Inv, Safe, At, Threads, Goto, sdkVars, hubVars, libVars,
          appVars
<1>1. CASE LoopStarts
  <2> USE <1>1 DEF LoopStarts
  <2>1. Alone'
    BY NoOwnDisconnect DEF TypeOK, Alone, Messages, NoOwnDisconnect
  <2>2. Flagged'
    BY DEF TypeOK, Alone, Flagged, Offline
  <2>3. Owned'
    BY DEF TypeOK, Alone, Flagged, Owned, Offline, Using
  <2>4. Kept'
    BY DEF TypeOK, Alone, Flagged, Owned, Kept, Offline, Using
  <2>5. Behaved'
    BY DEF TypeOK, Flagged, Owned, Kept, Behaved, Offline, Using
  <2>6. Unexplained'
    BY DEF Unexplained, TypeOK
  <2> QED
    BY <2>1, <2>2, <2>3, <2>4, <2>5, <2>6
<1>2. CASE Receive("receiver")
  <2> USE <1>2 DEF Receive
  <2>1. Alone'
    BY NoOwnDisconnect DEF TypeOK, Alone, Messages, NoOwnDisconnect
  <2>2. Flagged'
    BY DEF TypeOK, Alone, Flagged, Offline
  <2>3. Owned'
    BY DEF TypeOK, Alone, Flagged, Owned, Offline, Using
  <2>4. Kept'
    BY DEF TypeOK, Alone, Flagged, Owned, Kept, Offline, Using
  <2>5. Behaved'
    BY DEF TypeOK, Flagged, Owned, Kept, Behaved, Offline, Using
  <2>6. Unexplained'
    BY DEF Unexplained, TypeOK
  <2> QED
    BY <2>1, <2>2, <2>3, <2>4, <2>5, <2>6
<1>3. CASE ReceiveNothing("receiver")
  <2> USE <1>3 DEF ReceiveNothing, Misused, If
  <2>1. Alone'
    BY NoOwnDisconnect DEF TypeOK, Alone, Messages, NoOwnDisconnect
  <2>2. Flagged'
    BY DEF TypeOK, Alone, Flagged, Offline
  <2>3. Owned'
    BY DEF TypeOK, Alone, Flagged, Owned, Offline, Using
  <2>4. Kept'
    BY DEF TypeOK, Alone, Flagged, Owned, Kept, Offline, Using
  <2>5. Behaved'
    BY DEF TypeOK, Flagged, Owned, Kept, Behaved, Offline, Using
  <2>6. Unexplained'
    BY DEF Unexplained, TypeOK
  <2> QED
    BY <2>1, <2>2, <2>3, <2>4, <2>5, <2>6
<1>4. CASE Handle("receiver")
  <2> USE <1>4 DEF Handle, FirstStep
  <2>1. Alone'
    BY NoOwnDisconnect DEF TypeOK, Alone, Messages, NoOwnDisconnect
  <2>2. Flagged'
    BY DEF TypeOK, Alone, Flagged, Offline
  <2>3. Owned'
    BY DEF TypeOK, Alone, Flagged, Owned, Offline, Using
  <2>4. Kept'
    BY DEF TypeOK, Alone, Flagged, Owned, Kept, Offline, Using
  <2>5. Behaved'
    BY DEF TypeOK, Flagged, Owned, Kept, Behaved, Offline, Using
  <2>6. Unexplained'
    BY DEF Unexplained, TypeOK
  <2> QED
    BY <2>1, <2>2, <2>3, <2>4, <2>5, <2>6
<1>5. CASE Report("receiver")
  <2> USE <1>5 DEF Report, After
  <2>1. Alone'
    BY NoOwnDisconnect DEF TypeOK, Alone, Messages, NoOwnDisconnect
  <2>2. Flagged'
    BY DEF TypeOK, Alone, Flagged, Offline
  <2>3. Owned'
    BY DEF TypeOK, Alone, Flagged, Owned, Offline, Using
  <2>4. Kept'
    BY DEF TypeOK, Alone, Flagged, Owned, Kept, Offline, Using
  <2>5. Behaved'
    BY DEF TypeOK, Flagged, Owned, Kept, Behaved, Offline, Using
  <2>6. Unexplained'
    BY DEF Unexplained, TypeOK
  <2> QED
    BY <2>1, <2>2, <2>3, <2>4, <2>5, <2>6
<1> QED
  BY <1>1, <1>2, <1>3, <1>4, <1>5

(* The middleware. *)
LEMMA MiddlewareSteps ==
  ASSUME Inv, NoOwnDisconnect, NEW m \in Messages,
         StatusCallback \/ Drop \/ Arrive(m)
  PROVE  Safe'
<1> USE SessionAssumption DEF Inv, Safe, At, Threads, Goto, sdkVars, hubVars, libVars,
          appVars
<1>1. CASE StatusCallback
  <2> USE <1>1 DEF StatusCallback, Notified
  <2>1. Alone'
    BY NoOwnDisconnect DEF TypeOK, Alone, Messages, NoOwnDisconnect
  <2>2. Flagged'
    BY DEF TypeOK, Alone, Flagged, Offline
  <2>3. Owned'
    BY DEF TypeOK, Alone, Flagged, Owned, Offline, Using
  <2>4. Kept'
    BY DEF TypeOK, Alone, Flagged, Owned, Kept, Offline, Using
  <2>5. Behaved'
    BY DEF TypeOK, Flagged, Owned, Kept, Behaved, Offline, Using
  <2>6. Unexplained'
    BY DEF Unexplained, TypeOK
  <2> QED
    BY <2>1, <2>2, <2>3, <2>4, <2>5, <2>6
<1>2. CASE Drop
  <2> USE <1>2 DEF Drop
  <2>1. Alone'
    BY NoOwnDisconnect DEF TypeOK, Alone, Messages, NoOwnDisconnect
  <2>2. Flagged'
    BY DEF TypeOK, Alone, Flagged, Offline
  <2>3. Owned'
    BY DEF TypeOK, Alone, Flagged, Owned, Offline, Using
  <2>4. Kept'
    BY DEF TypeOK, Alone, Flagged, Owned, Kept, Offline, Using
  <2>5. Behaved'
    BY DEF TypeOK, Flagged, Owned, Kept, Behaved, Offline, Using
  <2>6. Unexplained'
    BY DEF Unexplained, TypeOK
  <2> QED
    BY <2>1, <2>2, <2>3, <2>4, <2>5, <2>6
<1>3. CASE Arrive(m)
  <2> USE <1>3 DEF Arrive
  <2>1. Alone'
    BY NoOwnDisconnect DEF TypeOK, Alone, Messages, NoOwnDisconnect
  <2>2. Flagged'
    BY DEF TypeOK, Alone, Flagged, Offline
  <2>3. Owned'
    BY DEF TypeOK, Alone, Flagged, Owned, Offline, Using
  <2>4. Kept'
    BY DEF TypeOK, Alone, Flagged, Owned, Kept, Offline, Using
  <2>5. Behaved'
    BY DEF TypeOK, Flagged, Owned, Kept, Behaved, Offline, Using
  <2>6. Unexplained'
    BY DEF Unexplained, TypeOK
  <2> QED
    BY <2>1, <2>2, <2>3, <2>4, <2>5, <2>6
<1> QED
  BY <1>1, <1>2, <1>3

LEMMA SafeStep ==
  ASSUME Inv, [Next]_vars, NoOwnDisconnect PROVE Inv'
<1>1. TypeOK'
  BY TypeStep DEF Inv
<1>2. CASE App
  BY <1>1, <1>2, InitSteps, HubSteps, LoopSteps, DisconnectSteps, MessageSteps
     DEF App, Session, Inv
<1>3. CASE Receiver
  <2>1. mode = "loops" => message["receiver"] = "other"
        /\ pc["receiver"] \in {"idle", "receive", "handle", "report"}
    BY DEF Inv, Safe, Alone
  <2>2. pc["receiver"] \in {"idle", "receive", "handle", "report"}
    BY <2>1, SessionAssumption DEF Inv, Safe, Alone, TypeOK
  <2> QED
    BY <1>1, <1>3, <2>2, ReceiverSteps
       DEF Receiver, Session, Inv, Goto, Disconnect, Mark, Unlink, Teardown,
           ForceSyncFree, ForceSyncDiscovery, ForceSync
<1>4. CASE Middleware
  <2>1. PICK m \in Messages : StatusCallback \/ Drop \/ Arrive(m)
    BY <1>4 DEF Middleware, Messages
  <2> QED
    BY <1>1, <2>1, MiddlewareSteps DEF Inv
<1>5. CASE UNCHANGED vars
  BY <1>1, <1>5 DEF vars, sdkVars, hubVars, libVars, appVars, Inv, Safe, Alone,
     Flagged, Owned, Kept, Behaved, Unexplained, At
<1> QED
  BY <1>2, <1>3, <1>4, <1>5 DEF Next

LEMMA Invariance == NoOwnDisconnect /\ Spec => []Inv
<1> SUFFICES ASSUME NoOwnDisconnect PROVE Spec => []Inv
  OBVIOUS
<1>1. Init => Inv
  <2> SUFFICES ASSUME Init PROVE Inv
    OBVIOUS
  <2>1. TypeOK
    BY TypeInit
  <2>2. Alone /\ Flagged
    BY EmptyQueue DEF Init, Alone, Flagged, At, Offline, Threads
  <2>3. Owned /\ Kept /\ Behaved /\ Unexplained
    BY DEF Init, Owned, Kept, Behaved, Unexplained, At, Using, Threads
  <2> QED
    BY <2>1, <2>2, <2>3 DEF Inv, Safe
<1>2. Inv /\ [Next]_vars => Inv'
  BY SafeStep
<1> QED
  BY <1>1, <1>2, PTL DEF Spec

-----------------------------------------------------------------------------
(* Results. *)

(* With connections lost at any moment: nothing is freed twice or read     *)
(* after it was freed, nothing deleted twice, no message sent on a client  *)
(* that is gone; the host name and the template id are allocated while     *)
(* is_connected is set.                                                    *)
THEOREM MemoryIsSafe == NoOwnDisconnect /\ Spec => []MemorySafe
<1>1. Inv => MemorySafe
  BY DEF Inv, Safe, Behaved, Owned, MemorySafe
<1> QED
  BY <1>1, Invariance, PTL

(* No link that works is left with is_connected cleared.                   *)
THEOREM LinksAreKept == NoOwnDisconnect /\ Spec => []NeverAbandonsLink
<1>1. Inv => NeverAbandonsLink
  BY DEF Inv, Safe, Flagged, At, NeverAbandonsLink, Threads
<1> QED
  BY <1>1, Invariance, PTL

(* The client is deinitialised and the object deleted once, unless a       *)
(* receiver thread disconnects while the application does.                 *)
THEOREM TornDownOnlyOnce == NoOwnDisconnect /\ Spec => []TornDownOnce
<1>1. Inv => TornDownOnce
  BY DEF Inv, Safe, Behaved, TornDownOnce
<1> QED
  BY <1>1, Invariance, PTL

(* The library is called by its rules while no connection is lost.         *)
THEOREM NothingIsMisused ==
  NoOwnDisconnect /\ MayDrop = FALSE /\ Spec => []NoMisuse
<1> SUFFICES ASSUME NoOwnDisconnect, MayDrop = FALSE PROVE Spec => []NoMisuse
  OBVIOUS
<1>1. Inv => NoMisuse
  BY DEF Inv, Safe, Behaved, Owned, Kept, At, Using, NoMisuse
<1> QED
  BY <1>1, Invariance, PTL

(* Every way out of a session deletes what iothub_client_init made, while  *)
(* no connection is lost.                                                  *)
THEOREM NothingIsHeld ==
  NoOwnDisconnect /\ MayDrop = FALSE /\ Spec => []NothingHeld
<1> SUFFICES ASSUME NoOwnDisconnect, MayDrop = FALSE PROVE Spec => []NothingHeld
  OBVIOUS
<1>1. Inv => NothingHeld
  BY DEF Inv, Safe, Flagged, Kept, At, Offline, NothingHeld
<1> QED
  BY <1>1, Invariance, PTL

(* The last status the application was told is the one it would be         *)
(* answered, while no connection is lost.                                  *)
THEOREM StatusIsTrue ==
  NoOwnDisconnect /\ MayDrop = FALSE /\ Spec => []ToldTheTruth
<1> SUFFICES ASSUME NoOwnDisconnect, MayDrop = FALSE PROVE Spec => []ToldTheTruth
  OBVIOUS
<1>1. Inv => ToldTheTruth
  BY DEF Inv, Safe, Kept, At, ToldTheTruth
<1> QED
  BY <1>1, Invariance, PTL

(* A start that fails before the hub never leaves the sync result of an    *)
(* earlier session to be read as its own.                                  *)
THEOREM FailuresAreExplained == NoOwnDisconnect /\ Spec => FailureExplained
<1> SUFFICES ASSUME NoOwnDisconnect PROVE Spec => FailureExplained
  OBVIOUS
<1>1. ASSUME Inv, [Next]_vars
      PROVE  [pc["app"] \in {"discovery", "sync"} /\ pc'["app"] = "stopped"
                => last_sync_result' # "ok"]_vars
  <2> SUFFICES ASSUME pc["app"] \in {"discovery", "sync"}, pc'["app"] = "stopped"
               PROVE  last_sync_result' # "ok"
    OBVIOUS
  <2>1. last_sync_result # "ok"
    BY <1>1 DEF Inv, Safe, Unexplained, At
  <2>2. CASE InitDiscovery
    BY <2>1, <2>2 DEF InitDiscovery
  <2>3. CASE InitSync
    <3>1. sync_response' = NULL
      BY <1>1, <2>3 DEF InitSync, Inv, TypeOK, Threads
    <3> QED
      BY <2>1, <2>3, <3>1, SessionAssumption, <1>1
         DEF InitSync, RunSync, Unused, Inv, TypeOK
  <2>4. CASE ~InitDiscovery /\ ~InitSync
    <3>1. pc["app"] \in {"discovery", "sync"} => pc'["app"] = pc["app"]
      BY <1>1, <2>4
         DEF Next, App, Receiver, Middleware, Session, Inv, TypeOK, Threads, Goto,
             InitSdk, InitLibrary, PrepareHub, PrepareHubFails, Connect,
             ConnectFails, Connected, Returned, Check, Publish, LeaveSession,
             Disconnect, Mark, Unlink, Teardown, Receive, ReceiveNothing, Handle,
             ForceSyncFree, ForceSyncDiscovery, ForceSync, Report, LoopStarts,
             StatusCallback, Drop, Arrive, vars
    <3> QED
      BY <3>1
  <2> QED
    BY <2>2, <2>3, <2>4
<1> QED
  BY <1>1, Invariance, PTL DEF Spec, FailureExplained
=============================================================================
