------------------------------ MODULE WebClient ------------------------------
(***************************************************************************)
(* The NetX web HTTP client                                                *)
(* (azrtos-layer/nx-http-client/nx_web_http_client.c), as far as the SDK's *)
(* download client uses it: one TLS connection over which requests are     *)
(* sent one after another and over which the responses come back, cut into *)
(* TLS records wherever the server pleases.                                *)
(*                                                                         *)
(* A response is [hdr, ok, len, ka, file, lo, n]: whether its header is    *)
(* still to come, a 2xx status, its Content-Length, whether it keeps the   *)
(* connection alive, and the body still to come, which is the n bytes of   *)
(* the file from position lo on.  One record never spans two responses: a  *)
(* server writes the second one only when it has been asked for it.        *)
(*                                                                         *)
(* Not modelled: chunked transfer encoding, PUT, POST and DELETE.          *)
(***************************************************************************)
EXTENDS Integers, Sequences

CONSTANT
  HeaderAlone   \* may the server put a response header in a record of its own?

VARIABLES
  web_state,        \* nx_web_http_client_state
  header_received,  \* nx_web_http_client_response_header_received
  total_bytes,      \* nx_web_http_client_total_receive_bytes
  actual_bytes,     \* nx_web_http_client_actual_bytes_received
  keep_alive,       \* nx_web_http_client_keep_alive
  connected,        \* the socket is established and its TLS session is up
  wire              \* responses, or what is left of them, still to be received

webVars == <<web_state, header_received, total_bytes, actual_bytes,
             keep_alive, connected, wire>>

(* The state nx_web_http_client_create leaves behind; it is also the state *)
(* we give to a client that was deleted.                                   *)
WebFresh ==
  /\ web_state = "READY"
  /\ header_received = FALSE
  /\ total_bytes = 0
  /\ actual_bytes = 0
  /\ keep_alive = FALSE
  /\ connected = FALSE
  /\ wire = <<>>

(* nx_web_http_client_create followed by a successful secure_connect. *)
SecureConnect ==
  /\ connected' = TRUE
  /\ web_state' = "READY"
  /\ header_received' = FALSE
  /\ total_bytes' = 0
  /\ actual_bytes' = 0
  /\ keep_alive' = FALSE
  /\ wire' = <<>>

(* nx_web_http_client_delete: disconnects and clears the whole structure. *)
WebDelete ==
  /\ connected' = FALSE
  /\ web_state' = "READY"
  /\ header_received' = FALSE
  /\ total_bytes' = 0
  /\ actual_bytes' = 0
  /\ keep_alive' = FALSE
  /\ wire' = <<>>

(* TLS session ended and deleted, socket disconnected and unbound. *)
ErrorExitKeepsSocket ==   \* variant: nothing is closed
  UNCHANGED <<connected, wire>>

ErrorExit ==
  /\ connected' = FALSE
  /\ wire' = <<>>

(* A request that reaches the server, which will answer with `responses`   *)
(* (none of them when it stays silent).                                    *)
RequestSendClears(method, responses) ==   \* variant: forgets that a response goes on
  /\ connected
  /\ web_state' = method
  /\ wire' = wire \o responses
  /\ header_received' = FALSE
  /\ UNCHANGED <<total_bytes, actual_bytes, keep_alive, connected>>

RequestSend(method, responses) ==
  /\ connected
  /\ web_state' = method
  /\ wire' = wire \o responses
  /\ UNCHANGED <<header_received, total_bytes, actual_bytes, keep_alive, connected>>

(* The request could not be sent: the connection is given up, but the      *)
(* client's state and counters are left as they were.                      *)
RequestSendFails ==
  /\ ErrorExit
  /\ UNCHANGED <<web_state, header_received, total_bytes, actual_bytes, keep_alive>>

(* The record _nx_web_http_client_receive can return next: the header, if  *)
(* it is still to come, and the first k bytes of the body.                 *)
Record(k) == [Head(wire) EXCEPT !.n = k]

RecordSizes ==
  LET r == Head(wire)
  IN  {k \in 0 .. r.n : k = 0 => r.hdr /\ (HeaderAlone \/ r.n = 0)}

Rest(k) ==
  LET r == Head(wire)
  IN  [hdr |-> FALSE, ok |-> r.ok, len |-> r.len, ka |-> r.ka, file |-> r.file,
       lo |-> r.lo + k, n |-> r.n - k]

WireAfter(k) ==
  IF k = Head(wire).n THEN Tail(wire) ELSE <<Rest(k)>> \o Tail(wire)

(* The length checks of response_body_get.  A record of the other kind     *)
(* than expected is refused here; that it never comes is FramingInSync.    *)
AcceptedAnyStatus(p) ==   \* variant: the status code is not looked at
  /\ p.hdr = ~header_received
  /\ p.n <= IF p.hdr THEN p.len ELSE total_bytes - actual_bytes

Accepted(p) ==
  /\ p.hdr = ~header_received
  /\ IF p.hdr THEN p.ok /\ p.n <= p.len
              ELSE p.n <= total_bytes - actual_bytes

TotalWith(p) ==
  IF ~p.hdr THEN total_bytes ELSE IF web_state = "HEAD" THEN 0 ELSE p.len

ActualWith(p) == (IF p.hdr THEN 0 ELSE actual_bytes) + p.n

KeepAliveWith(p) == IF p.hdr THEN p.ka ELSE keep_alive

(* nx_web_http_client_response_body_get that returns the record of k body  *)
(* bytes with NX_SUCCESS: the response goes on.                            *)
BodyGetMore(k) ==
  LET p == Record(k) IN
  /\ connected /\ wire # <<>> /\ k \in RecordSizes
  /\ Accepted(p)
  /\ TotalWith(p) # ActualWith(p)
  /\ wire' = WireAfter(k)
  /\ header_received' = TRUE
  /\ total_bytes' = TotalWith(p)
  /\ actual_bytes' = ActualWith(p)
  /\ keep_alive' = KeepAliveWith(p)
  /\ UNCHANGED <<web_state, connected>>

(* ... and with NX_WEB_HTTP_GET_DONE: the response is complete.  Unless it *)
(* keeps the connection alive the connection is broken down.               *)
BodyGetDone(k) ==
  LET p == Record(k) IN
  /\ connected /\ wire # <<>> /\ k \in RecordSizes
  /\ Accepted(p)
  /\ TotalWith(p) = ActualWith(p)
  /\ header_received' = FALSE
  /\ total_bytes' = TotalWith(p)
  /\ actual_bytes' = ActualWith(p)
  /\ keep_alive' = KeepAliveWith(p)
  /\ web_state' = "READY"
  /\ IF keep_alive'
     THEN wire' = WireAfter(k) /\ UNCHANGED connected
     ELSE ErrorExit

(* ... and with an error: the connection is gone, the server refused the   *)
(* request, or the record is longer than the response can be.              *)
BodyGetFails ==
  /\ \/ ~connected
     \/ wire # <<>> /\ \E k \in RecordSizes : ~Accepted(Record(k))
  /\ ErrorExit
  /\ header_received' = FALSE
  /\ web_state' = "READY"
  /\ UNCHANGED <<total_bytes, actual_bytes, keep_alive>>

(* The peer or the network closes the connection; what was under way is    *)
(* lost.  The client notices when it next sends or receives.               *)
ConnectionLost ==
  /\ connected
  /\ ErrorExit
  /\ UNCHANGED <<web_state, header_received, total_bytes, actual_bytes, keep_alive>>
==============================================================================
