----------------------------- MODULE BodyStream -----------------------------
(***************************************************************************)
(* What nx_web_http_client_response_body_get promises its caller, however  *)
(* the response is framed: the body in its order, one packet per call,     *)
(* NX_WEB_HTTP_GET_DONE only with the call that completes it, and nothing  *)
(* after that or after an error.  A packet may be empty: the header of a   *)
(* response may arrive alone, and the end of a chunked response does.      *)
(***************************************************************************)
EXTENDS Naturals

CONSTANT Lengths    \* how long the body of a response may be

VARIABLES
  stream,   \* "idle", "open" while there is more to get, "done", "failed"
  length,   \* bytes in the body of the response under way
  got       \* bytes of it handed to the caller

streamVars == <<stream, length, got>>

StreamIdle == stream = "idle" /\ length = 0 /\ got = 0

(* The request is sent: a body of one of the lengths will be served. *)
Opened == stream' = "open" /\ length' \in Lengths /\ got' = 0

(* A packet of n bytes is returned with NX_SUCCESS: the body goes on.  An  *)
(* empty one may come before or after the last byte of a framed body.      *)
GotMore(n) ==
  /\ stream = "open"
  /\ n <= length - got
  /\ got' = got + n
  /\ UNCHANGED <<stream, length>>

(* A packet of n bytes is returned with NX_WEB_HTTP_GET_DONE. *)
GotLast(n) ==
  /\ stream = "open"
  /\ n = length - got
  /\ got' = length
  /\ stream' = "done"
  /\ UNCHANGED length

GetFailed == stream = "open" /\ stream' = "failed" /\ UNCHANGED <<length, got>>

Get ==
  \/ \E n \in 0 .. length - got : GotMore(n) \/ GotLast(n)
  \/ GetFailed

Init == stream = "open" /\ length \in Lengths /\ got = 0
Spec == Init /\ [][Get]_streamVars
=============================================================================
