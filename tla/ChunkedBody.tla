----------------------------- MODULE ChunkedBody -----------------------------
(***************************************************************************)
(* A chunked response as the web client decodes it                         *)
(* (nx_web_http_client.c: response_read, response_byte_expect,             *)
(* chunked_size_get, response_chunked_get, and response_body_get around    *)
(* them), read by the receive loop of iotconnect_https_request, which      *)
(* releases every packet it is given.  The peer cuts the response into     *)
(* packets anywhere: within a size line, a chunk, or a CRLF.               *)
(*                                                                         *)
(* The bytes of the response are tokens [t, v]: a digit, ";", CR, LF, or   *)
(* the byte v of the body.  The current data pointer of the code is at the *)
(* first of the tokens `unread`.                                           *)
(***************************************************************************)
EXTENDS Naturals, SequencesExt

CONSTANTS
  Responses,    \* chunked responses: sequences of chunks [digits, ext, n, crlf]
  DigitBase,    \* 16 in the code
  MayLose,      \* may the connection be lost?
  MayExhaust,   \* may the packet pool be exhausted?
  Packets,      \* identities of packets
  NoPacket

(* The number that the first i digits of a size line write.                *)
Value(digits, i) ==
  LET value[j \in 0 .. Len(digits)] ==
        IF j = 0 THEN 0 ELSE value[j - 1] * DigitBase + digits[j]
  IN  value[i]

(* A size line gives the size of its chunk, and a chunk of size 0 is the   *)
(* last: the rest, and whether a chunk is closed by CRLF, is the peer's.   *)
ASSUME ChunkedAssumption ==
  /\ DigitBase \in Nat
  /\ NoPacket \notin Packets
  /\ \A r \in Responses :
       /\ r \in Seq([digits : Seq(Nat), ext : BOOLEAN, n : Nat, crlf : BOOLEAN])
       /\ \A i \in DOMAIN r :
            /\ r[i].digits # <<>> /\ Value(r[i].digits, Len(r[i].digits)) = r[i].n
            /\ r[i].n = 0 => i = Len(r)

VARIABLES
  response,         \* what the peer sends
  wire,             \* tokens not yet received
  unread,           \* tokens received and not yet read
  remaining,        \* nx_web_http_client_chunked_response_remaining_size
  response_packet,  \* nx_web_http_client_response_packet
  total_bytes,      \* nx_web_http_client_total_receive_bytes
  actual_bytes,     \* nx_web_http_client_actual_bytes_received
  packet,           \* response_packet_ptr, what body_get is about to return
  size,             \* the size as read so far, then chunk_size
  extension,        \* chunk_extension
  length,           \* bytes of the chunk in `packet`
  data,             \* those bytes
  pc,
  calls,            \* "none", "first", "later": calls of body_get so far
  stream,           \* "open", "done", or "failed" with a reason
  reason,
  delivered,        \* what the caller was given
  in_use,           \* packets allocated
  released_twice    \* was a packet released that was not allocated?

clientVars == <<remaining, response_packet, total_bytes, actual_bytes>>
localVars == <<size, extension, length, data>>
endVars == <<stream, reason, delivered>>
poolVars == <<in_use, released_twice>>
vars == <<response, wire, unread, clientVars, packet, localVars, pc, calls,
          endVars, poolVars>>

-----------------------------------------------------------------------------
(* The response as bytes: each chunk is its size line, its data and CRLF,  *)
(* which a bad server forgets; a chunk of size 0 and an empty line end it. *)

CR == [t |-> "cr", v |-> 0]
LF == [t |-> "lf", v |-> 0]
Digit(d) == [t |-> "digit", v |-> d]
Semicolon == [t |-> "semicolon", v |-> 0]
Data(i) == [t |-> "data", v |-> i]

DataBefore(chunks, i) ==
  LET sum[j \in 0 .. Len(chunks)] == IF j = 0 THEN 0 ELSE sum[j - 1] + chunks[j].n
  IN  sum[i - 1]

Line(chunk) ==
  [i \in DOMAIN chunk.digits |-> Digit(chunk.digits[i])]
    \o (IF chunk.ext THEN <<Semicolon, Digit(1)>> ELSE <<>>) \o <<CR, LF>>

Chunk(chunks, i) ==
  Line(chunks[i]) \o [j \in 1 .. chunks[i].n |-> Data(DataBefore(chunks, i) + j)]
    \o (IF chunks[i].crlf THEN <<CR, LF>> ELSE <<>>)

Encoded(chunks) == FlattenSeq([i \in DOMAIN chunks |-> Chunk(chunks, i)])

Body == [i \in 1 .. DataBefore(response, Len(response) + 1) |-> Data(i)]

Init ==
  /\ response \in Responses
  /\ wire = Encoded(response)
  /\ unread = <<>>
  /\ remaining = 0 /\ total_bytes = 0 /\ actual_bytes = 0
  /\ response_packet = NoPacket /\ packet = NoPacket
  /\ size = 0 /\ extension = FALSE /\ length = 0 /\ data = <<>>
  /\ pc = "call" /\ calls = "none"
  /\ stream = "open" /\ reason = "none" /\ delivered = <<>>
  /\ in_use = {} /\ released_twice = FALSE

-----------------------------------------------------------------------------
(* Packets. *)

Received(k) ==
  /\ k \in 1 .. Len(wire)
  /\ wire' = SubSeq(wire, k + 1, Len(wire))
  /\ unread' = SubSeq(wire, 1, k)
  /\ remaining' = k

(* nx_packet_release; of NoPacket it does nothing. *)
Released(p) ==
  /\ in_use' = in_use \ {p}
  /\ released_twice' = (released_twice \/ p \notin in_use \cup {NoPacket})

(* body_get gives up: what it was about to return and what the client      *)
(* holds are released and the chunk information is reset.  It returns its  *)
(* packet all the same, and the receive loop releases that again.          *)
GivesUp(why) ==
  /\ in_use' = in_use \ {packet, response_packet}
  /\ released_twice' = (\/ released_twice \/ packet # NoPacket
                        \/ response_packet \notin in_use \cup {NoPacket})
  /\ response_packet' = NoPacket /\ remaining' = 0 /\ unread' = <<>>
  /\ packet' = NoPacket
  /\ stream' = "failed" /\ reason' = why
  /\ pc' = "end"
  /\ UNCHANGED <<response, wire, total_bytes, actual_bytes, localVars, calls, delivered>>

-----------------------------------------------------------------------------
(* response_body_get is called. *)

SizeAskedWhole == IF actual_bytes < total_bytes THEN total_bytes ELSE 0   \* variant
SizeAsked == IF actual_bytes < total_bytes THEN total_bytes - actual_bytes ELSE 0
Awaits == IF actual_bytes < total_bytes THEN "chunk" ELSE "size"

(* The first call receives the header, with k bytes of what follows it. *)
ReceiveHeader(k) ==
  /\ pc = "call" /\ calls = "none"
  /\ k \in 0 .. Len(wire)
  /\ \E p \in Packets \ in_use :
       /\ response_packet' = p /\ packet' = p
       /\ in_use' = in_use \cup {p}
  /\ wire' = SubSeq(wire, k + 1, Len(wire))
  /\ unread' = SubSeq(wire, 1, k)
  /\ remaining' = k
  /\ size' = 0 /\ extension' = FALSE
  /\ calls' = "first"
  /\ pc' = "size"
  /\ UNCHANGED <<response, total_bytes, actual_bytes, length, data, endVars, released_twice>>

(* A later one goes on with the chunk under way or with the next size. *)
CallAgain ==
  /\ pc = "call" /\ calls # "none"
  /\ size' = SizeAsked /\ extension' = FALSE
  /\ calls' = "later"
  /\ pc' = Awaits
  /\ UNCHANGED <<response, wire, unread, clientVars, packet, length, data, endVars, poolVars>>

-----------------------------------------------------------------------------
(* response_read: while nothing is left to read the packet held is         *)
(* released and another one received.                                      *)

Reading == {"size", "size LF", "data CR", "data LF", "end CR", "end LF"}

WaitsForBytesOfLines == pc \in Reading /\ remaining = 0   \* variant: lines 2120 to 2138 are missing
WaitsForBytes == pc \in Reading \cup {"chunk"} /\ remaining = 0

Receive(k) ==
  /\ WaitsForBytes
  /\ Received(k)
  /\ \E p \in Packets \ (in_use \ {response_packet}) :
       /\ response_packet' = p
       /\ in_use' = (in_use \ {response_packet}) \cup {p}
  /\ released_twice' = (released_twice \/ response_packet \notin in_use \cup {NoPacket})
  /\ UNCHANGED <<response, total_bytes, actual_bytes, packet, localVars, pc, calls, endVars>>

(* The connection is lost, or the peer has sent everything and closes it. *)
ReceiveFails ==
  /\ WaitsForBytes
  /\ MayLose \/ wire = <<>>
  /\ GivesUp("lost")

(* The next byte is one of the kinds awaited, or NX_NOT_FOUND. *)
ReadUncounted(where, kinds) ==   \* variant: the remaining size is not reduced
  /\ pc = where /\ remaining > 0
  /\ Head(unread).t \in kinds
  /\ unread' = Tail(unread)
  /\ UNCHANGED remaining

Read(where, kinds) ==
  /\ pc = where /\ remaining > 0
  /\ Head(unread).t \in kinds
  /\ unread' = Tail(unread)
  /\ remaining' = remaining - 1

Unexpected ==
  /\ pc \in Reading /\ remaining > 0
  /\ LET t == Head(unread).t
     IN  CASE pc = "size" -> ~extension /\ t \in {"lf", "data"}
           [] pc \in {"data CR", "end CR"} -> t # "cr"
           [] OTHER -> t # "lf"
  /\ GivesUp("malformed")

Reads == UNCHANGED <<response, wire, response_packet, total_bytes, actual_bytes,
                     packet, calls, endVars, poolVars>>

(* chunked_size_get: hexadecimal digits, an extension that is skipped, CR. *)
ReadDigit ==
  /\ Read("size", {"digit"}) /\ ~extension
  /\ size' = size * DigitBase + Head(unread).v
  /\ Reads /\ UNCHANGED <<extension, length, data, pc>>

StartExtension ==
  /\ Read("size", {"semicolon"}) /\ ~extension
  /\ extension' = TRUE
  /\ Reads /\ UNCHANGED <<size, length, data, pc>>

SkipExtension ==
  /\ Read("size", {"digit", "semicolon", "lf", "data"}) /\ extension
  /\ Reads /\ UNCHANGED <<localVars, pc>>

EndSizeLine ==
  /\ \/ Read("size", {"cr"}) /\ pc' = "size LF"
     \/ Read("size LF", {"lf"}) /\ pc' = "chunk"
  /\ Reads /\ UNCHANGED localVars

-----------------------------------------------------------------------------
(* response_chunked_get: the chunk, or as much of it as was received.  The *)
(* packet that holds it is the caller's from here on.                      *)

TakeAll == size <= remaining

TakeChunk ==
  /\ pc = "chunk" /\ remaining > 0 /\ size > 0
  /\ packet' = response_packet
  /\ response_packet' = NoPacket
  /\ LET n == IF TakeAll THEN size ELSE remaining IN
     /\ length' = n
     /\ data' = SubSeq(unread, 1, n)
     /\ unread' = SubSeq(unread, n + 1, Len(unread))
     /\ remaining' = remaining - n
  /\ pc' = IF TakeAll THEN "data CR" ELSE "return"
  /\ UNCHANGED <<response, wire, total_bytes, actual_bytes, size, extension, calls,
                 endVars, poolVars>>

EndOfBody ==
  /\ pc = "chunk" /\ remaining > 0 /\ size = 0
  /\ pc' = "end CR"
  /\ UNCHANGED <<response, wire, unread, clientVars, packet, localVars, calls, endVars, poolVars>>

ReadChunkEnd ==
  /\ \/ Read("data CR", {"cr"}) /\ pc' = "data LF"
     \/ Read("data LF", {"lf"}) /\ pc' = "keep"
     \/ Read("end CR", {"cr"}) /\ pc' = "end LF"
     \/ Read("end LF", {"lf"}) /\ pc' = "finish"
  /\ Reads /\ UNCHANGED localVars

(* What follows the chunk stays with the client: in the packet received    *)
(* meanwhile, or copied to a new one.                                      *)
NeedsPacketAlways == remaining > 0   \* variant: also when a packet was received meanwhile
NeedsPacket == remaining > 0 /\ response_packet = NoPacket

KeepRest ==
  /\ pc = "keep"
  /\ IF NeedsPacket
     THEN \E p \in Packets \ in_use : response_packet' = p /\ in_use' = in_use \cup {p}
     ELSE UNCHANGED <<response_packet, in_use>>
  /\ pc' = "return"
  /\ UNCHANGED <<response, wire, unread, remaining, total_bytes, actual_bytes, packet,
                 localVars, calls, endVars, released_twice>>

KeepRestFails ==
  /\ pc = "keep" /\ NeedsPacket
  /\ MayExhaust
  /\ GivesUp("no packet")

(* The counts record how much of the chunk is still to come. *)
CountsForgotten == total_bytes' = length /\ actual_bytes' = length   \* variant
Counts == total_bytes' = size /\ actual_bytes' = length

(* body_get returns the packet; the caller copies its bytes, releases it   *)
(* and calls again.                                                        *)
ReturnChunk ==
  /\ pc = "return"
  /\ Counts
  /\ delivered' = delivered \o data
  /\ Released(packet)
  /\ packet' = NoPacket
  /\ data' = <<>> /\ length' = 0
  /\ pc' = "call"
  /\ UNCHANGED <<response, wire, unread, remaining, response_packet, size, extension,
                 calls, stream, reason>>

(* The end: an empty packet is returned with NX_WEB_HTTP_GET_DONE. *)
Finish ==
  /\ pc = "finish"
  /\ Released(response_packet)
  /\ response_packet' = NoPacket /\ remaining' = 0 /\ unread' = <<>>
  /\ packet' = NoPacket
  /\ stream' = "done"
  /\ pc' = "end"
  /\ UNCHANGED <<response, wire, total_bytes, actual_bytes, localVars, calls, reason, delivered>>

Next ==
  \/ \E k \in 0 .. Len(wire) : ReceiveHeader(k) \/ Receive(k)
  \/ CallAgain
  \/ ReceiveFails
  \/ ReadDigit \/ StartExtension \/ SkipExtension \/ EndSizeLine \/ Unexpected
  \/ TakeChunk \/ EndOfBody \/ ReadChunkEnd
  \/ KeepRest \/ KeepRestFails
  \/ ReturnChunk \/ Finish

Spec == Init /\ [][Next]_vars
FairSpec == Spec /\ WF_vars(Next)

-----------------------------------------------------------------------------
(* Properties. *)

TypeOK ==
  /\ remaining = Len(unread)
  /\ {response_packet, packet} \subseteq Packets \cup {NoPacket}
  /\ {size, length, total_bytes, actual_bytes} \subseteq Nat
  /\ extension \in BOOLEAN /\ released_twice \in BOOLEAN
  /\ pc \in Reading \cup {"call", "chunk", "keep", "return", "finish", "end"}
  /\ calls \in {"none", "first", "later"}
  /\ stream \in {"open", "done", "failed"}
  /\ reason \in {"none", "lost", "malformed", "no packet"}
  /\ in_use \subseteq Packets

(* However the response is cut into packets, the decoder never loses its   *)
(* place: the caller is given the bytes of the body, each once and in      *)
(* their order, no byte of the framing, and what a server framed by the    *)
(* rules is never refused with NX_NOT_FOUND.                               *)
KeepsItsPlace ==
  /\ IsPrefix(delivered, Body)
  /\ reason = "malformed" => \E i \in DOMAIN response : ~response[i].crlf

(* When the response has ended, well or not, no packet of it is left       *)
(* allocated; and no packet is released twice, except by an error while    *)
(* body_get has a packet to return (in the very first call it always has). *)
PoolBalanced ==
  /\ stream # "open" => in_use = {}
  /\ released_twice => stream = "failed"

(* body_get over a chunked response keeps the promise of BodyStream. *)
Promise == INSTANCE BodyStream
  WITH Lengths <- Nat, length <- Len(Body), got <- Len(delivered)
KeepsPromise == Promise!Spec

(* As long as the peer sends or closes, the receive loop comes to an end. *)
Ends == <>(stream # "open")
=============================================================================
