---------------------------- MODULE HttpsRequest ----------------------------
(***************************************************************************)
(* One JSON request over HTTPS: iotconnect_https_request                   *)
(* (azrtos-layer/src/azrtos_https_client.c) without a custom handler, run  *)
(* by one thread at a time.  The caller asks with or without a payload     *)
(* (POST or GET) and afterwards reads the response as a C string.          *)
(*                                                                         *)
(* The bytes of the body of the answer are 1, 2, ..., the terminator of a  *)
(* string 0; what an earlier request left in the static response_buffer    *)
(* is Stale.                                                               *)
(***************************************************************************)
EXTENDS Naturals

CONSTANTS
  Lengths,     \* how long the body of an answer may be
  BufferSize,  \* IOTCONNECT_HTTP_RECEIVE_BUFFER_SIZE
  Stale

ASSUME RequestAssumption ==
  /\ Lengths \subseteq Nat
  /\ BufferSize \in Nat \ {0}

VARIABLES
  at,                \* where iotconnect_https_request is
  has_payload,       \* r->payload is not NULL
  client,            \* http_client: "none", "created", "connected"
  current_request,   \* is it set?
  upload,            \* the packet of the payload: "none", "held", "wild", or
                     \* "lost" once nothing points to it
  receive_packet,    \* is one held?
  response,          \* response_buffer
  data_length,
  outcome,           \* of the last request: "none", "ok", "error"
  stream, length, got

Body == INSTANCE BodyStream

requestVars == <<at, has_payload, client, current_request, upload, receive_packet,
                 response, data_length, outcome>>
httpVars == <<requestVars, stream, length, got>>

Nul == 0
Least(a, b) == IF a < b THEN a ELSE b

RequestInit ==
  /\ at = "idle" /\ has_payload = FALSE
  /\ client = "none" /\ current_request = FALSE
  /\ upload = "none" /\ receive_packet = FALSE
  /\ response = [i \in 0 .. BufferSize - 1 |-> Nul]
  /\ data_length = 0
  /\ outcome = "none"
  /\ Body!StreamIdle

-----------------------------------------------------------------------------
(* The request up to its answer. *)

(* The client is deleted if it was created, and the request returns. *)
Returns(result) ==
  /\ at' = "idle"
  /\ client' = "none"
  /\ outcome' = result

(* r->response points to the buffer, which is made the empty string. *)
KeepsText == UNCHANGED response   \* variant: lines 78 and 79 are missing
EmptiesText ==
  response' = [i \in DOMAIN response |-> IF i = 0 THEN Nul
                                         ELSE IF response[i] = Nul THEN Nul ELSE Stale]

Ask(payload) ==
  /\ at = "idle"
  /\ has_payload' = payload
  /\ EmptiesText
  /\ data_length' = 0
  /\ outcome' = "none"
  /\ at' = "create"
  /\ UNCHANGED <<client, current_request, upload, receive_packet, stream, length, got>>

Unchanged == UNCHANGED <<has_payload, receive_packet, response, data_length>>

CreateClient ==
  /\ at = "create"
  /\ \/ at' = "resolve" /\ client' = "created" /\ UNCHANGED outcome
     \/ Returns("error")
  /\ Unchanged /\ UNCHANGED <<current_request, upload, stream, length, got>>

Resolve ==
  /\ at = "resolve"
  /\ \/ at' = "connect" /\ current_request' = TRUE /\ UNCHANGED <<client, outcome>>
     \/ Returns("error") /\ UNCHANGED current_request
  /\ Unchanged /\ UNCHANGED <<upload, stream, length, got>>

(* secure_connect; the TLS callbacks find the request in current_request. *)
Connect ==
  /\ at = "connect"
  /\ current_request' = FALSE
  /\ \/ at' = "initialize" /\ client' = "connected" /\ UNCHANGED outcome
     \/ Returns("error")
  /\ Unchanged /\ UNCHANGED <<upload, stream, length, got>>

(* The request line and headers; for a payload its content type as well. *)
Prepare ==
  /\ \/ /\ at = "initialize"
        /\ at' = IF has_payload THEN "header" ELSE "send"
        /\ UNCHANGED <<client, outcome>>
     \/ at = "header" /\ at' = "send" /\ UNCHANGED <<client, outcome>>
     \/ at \in {"initialize", "header"} /\ Returns("error")
  /\ Unchanged /\ UNCHANGED <<current_request, upload, stream, length, got>>

(* A GET is answered when it is sent, a POST when its payload is. *)
Send ==
  /\ at = "send"
  /\ \/ has_payload /\ at' = "allocate" /\ UNCHANGED <<client, outcome, stream, length, got>>
     \/ ~has_payload /\ at' = "receive" /\ Body!Opened /\ UNCHANGED <<client, outcome>>
     \/ Returns("error") /\ UNCHANGED <<stream, length, got>>
  /\ Unchanged /\ UNCHANGED <<current_request, upload>>

(* The status of request_packet_allocate is not assigned: when it fails    *)
(* packet_ptr was never written, and the request goes on.                  *)
AllocatePacket ==
  /\ at = "allocate"
  /\ upload' \in {"held", "wild"}
  /\ at' = "append"
  /\ Unchanged /\ UNCHANGED <<client, current_request, outcome, stream, length, got>>

(* Appending to a wild packet fails or ends the program.  A packet whose   *)
(* append fails is not released, so that the pool has lost it.             *)
AppendPayload ==
  /\ at = "append"
  /\ \/ upload = "held" /\ at' = "upload" /\ UNCHANGED <<client, upload, outcome>>
     \/ upload' = (IF upload = "held" THEN "lost" ELSE "none") /\ Returns("error")
     \/ upload = "wild" /\ at' = "dead" /\ UNCHANGED <<client, upload, outcome>>
  /\ Unchanged /\ UNCHANGED <<current_request, stream, length, got>>

(* request_packet_send releases a packet it cannot send. *)
SendPayload ==
  /\ at = "upload"
  /\ upload' = "none"
  /\ \/ at' = "receive" /\ Body!Opened /\ UNCHANGED <<client, outcome>>
     \/ Returns("error") /\ UNCHANGED <<stream, length, got>>
  /\ Unchanged /\ UNCHANGED current_request

-----------------------------------------------------------------------------
(* The receive loop. *)

RoomToTheEnd == BufferSize - data_length   \* variant: no room for the terminator
Room == BufferSize - data_length - 1

(* n bytes of the body, from position got on, as much as there is room. *)
Extract(n) ==
  LET k == Least(n, Room) IN
  /\ response' = [i \in DOMAIN response |->
                    IF i \in data_length .. data_length + k - 1
                    THEN got + 1 + (i - data_length) ELSE response[i]]
  /\ data_length' = data_length + k

(* A packet of n bytes; without any the loop is left, the packet held. *)
ReceivePacket(n) ==
  /\ at = "receive"
  /\ \/ Body!GotMore(n) /\ at' = IF n = 0 THEN "terminate" ELSE "receive"
     \/ Body!GotLast(n) /\ at' = "terminate"
  /\ receive_packet' = (n = 0)
  /\ IF n = 0 THEN UNCHANGED <<response, data_length>> ELSE Extract(n)
  /\ UNCHANGED <<has_payload, client, current_request, upload, outcome>>

ExtractFails(n) ==
  /\ at = "receive" /\ n > 0
  /\ Body!GotMore(n) \/ Body!GotLast(n)
  /\ receive_packet' = TRUE
  /\ at' = "terminate"
  /\ UNCHANGED <<has_payload, client, current_request, upload, response, data_length, outcome>>

AfterFailureAgain == at' \in {"receive", "terminate"}   \* variant: the loop goes on
AfterFailure == at' = "terminate"

(* The packet of a chunked response that failed was released already       *)
(* (ChunkedBody); it is not held.                                          *)
ReceiveFails ==
  /\ at = "receive"
  /\ Body!GetFailed
  /\ AfterFailure
  /\ Unchanged /\ UNCHANGED <<client, current_request, upload, outcome>>

ReleaseLastNot == UNCHANGED receive_packet    \* variant: lines 262 to 264 are missing
ReleaseLast == receive_packet' = FALSE

(* Whatever ended the loop, the string is terminated, the client deleted,  *)
(* and NX_SUCCESS returned.                                                *)
Terminate ==
  /\ at = "terminate"
  /\ response' = [response EXCEPT ![data_length] = Nul]
  /\ ReleaseLast
  /\ Returns("ok")
  /\ UNCHANGED <<has_payload, current_request, upload, data_length, stream, length, got>>

RequestStep ==
  \/ CreateClient \/ Resolve \/ Connect \/ Prepare \/ Send
  \/ AllocatePacket \/ AppendPayload \/ SendPayload
  \/ \E n \in 0 .. length - got : ReceivePacket(n) \/ ExtractFails(n)
  \/ ReceiveFails
  \/ Terminate

-----------------------------------------------------------------------------
(* What the caller reads. *)

IsText(n) == response[n] = Nul /\ \A j \in 0 .. n - 1 : response[j] # Nul
Empty == response[0] = Nul

(* The answer arrived and fitted, so that all of it is in the response. *)
Whole == outcome = "ok" /\ stream = "done" /\ length < BufferSize /\ IsText(length)
==============================================================================
