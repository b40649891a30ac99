--------------------------- MODULE DownloadClient ---------------------------
(***************************************************************************)
(* The download client (azrtos-layer/src/azrtos_download_client.c) over    *)
(* one connection of the web client: a HEAD request for the file size,     *)
(* then range requests of at most BufSize bytes, each tried up to Retries  *)
(* times, each handed to the user's event callback.  iotc_download runs in *)
(* its caller's thread; what runs beside it is the server and the network. *)
(* The caller may abort at every event, and may call again, for the same   *)
(* or for another file, with resume set or not.                            *)
(*                                                                         *)
(* `image` is not a variable of the program: it is what a consumer holds   *)
(* that stores every IOTC_DL_DATA event at the event's offset and starts   *)
(* with an empty store when a download that is not resumed reports its     *)
(* file size.                                                              *)
(***************************************************************************)
EXTENDS WebClient

CONSTANTS
  Files,        \* what can be downloaded
  SizeOf,       \* size of each file
  MaxSize,      \* bound on the sizes
  BufSize,      \* IOTC_DL_DATA_BUFFER_SIZE
  Retries,      \* IOTC_DL_NUM_RETRIES
  SizeMod,      \* size_t arithmetic is modulo SizeMod
  Answers,      \* how the server may answer a range request
  HeadLengths,  \* how it may state the size: "exact", or "unseen" by the callback
  MayClose,     \* may a response carry Connection: close?
  MayLose,      \* may the connection be lost?
  Resumes,      \* how the caller may set `resume`
  MaxCalls,     \* bound on the number of iotc_download calls
  NoByte,       \* content of memory never written
  NoFile

ASSUME DownloadAssumption ==
  /\ MaxSize \in Nat /\ SizeOf \in [Files -> 0 .. MaxSize]
  /\ BufSize \in Nat \ {0} /\ Retries \in Nat \ {0}
  /\ SizeMod \in Nat /\ SizeMod > MaxSize + BufSize
  /\ Answers \subseteq {"range", "full", "error", "silent"}
  /\ HeadLengths \subseteq {"exact", "unseen"}
  /\ HeaderAlone \in BOOLEAN /\ MayClose \in BOOLEAN /\ MayLose \in BOOLEAN
  /\ Resumes \subseteq BOOLEAN /\ MaxCalls \in Nat
  /\ NoFile \notin Files

VARIABLES
  pc,                   \* where iotc_download is
  file,                 \* r->resource of the current or last call
  do_resume,
  file_size,
  file_bytes_received,
  data_length,
  buffer,
  size,                 \* request_handler's local: size of the current chunk
  tries,                \* request_handler's local i: attempts left
  status,               \* what the last call returned, or is about to
  image,
  calls                 \* number of calls so far (bounds the model)

dlVars == <<pc, file, do_resume, file_size, file_bytes_received, data_length,
            buffer, size, tries, status, image, calls>>
vars == <<webVars, dlVars>>

Offsets == 0 .. MaxSize - 1
Byte(f, p) == [file |-> f, pos |-> p]
Bytes == [file : Files, pos : Offsets]
Min2(a, b) == IF a < b THEN a ELSE b

Init ==
  /\ WebFresh
  /\ pc = "idle"
  /\ file = NoFile
  /\ do_resume = FALSE
  /\ file_size = 0
  /\ file_bytes_received = 0
  /\ data_length = 0
  /\ buffer = [i \in 0 .. BufSize - 1 |-> NoByte]
  /\ size = 0
  /\ tries = 0
  /\ status = "none"
  /\ image = [o \in Offsets |-> NoByte]
  /\ calls = 0

-----------------------------------------------------------------------------
(* The server. *)

KeepAlives == IF MayClose THEN BOOLEAN ELSE {TRUE}

Response(ok, len, ka, lo, n) ==
  [hdr |-> TRUE, ok |-> ok, len |-> len, ka |-> ka, file |-> file, lo |-> lo, n |-> n]

HeadResponses ==
  {Response(ok, SizeOf[file], ka, 0, 0) : ok \in BOOLEAN, ka \in KeepAlives}

(* What the server sends for "Range: bytes=lo-hi".  A range that starts    *)
(* beyond the end of the file is an error; one that ends beyond it is cut. *)
RangeAnswer(answer, ka, lo, hi) ==
  LET len == Min2(hi, SizeOf[file] - 1) - lo + 1
  IN  CASE answer = "silent" -> <<>>
        [] answer = "full" -> <<Response(TRUE, SizeOf[file], ka, 0, SizeOf[file])>>
        [] answer = "range" /\ len > 0 /\ lo <= hi -> <<Response(TRUE, len, ka, lo, len)>>
        [] OTHER -> <<Response(FALSE, 0, ka, 0, 0)>>

-----------------------------------------------------------------------------
(* iotc_download and iotconnect_https_request up to the HEAD request: the  *)
(* arguments are checked, the client created, the host resolved and the    *)
(* connection made; get_file_size then clears file_size and sends.         *)

(* What a caller asks for: it resumes only the file it last asked for.     *)
Request(f, resume) ==
  /\ calls < MaxCalls
  /\ resume \in Resumes
  /\ resume => file \in {f, NoFile}

Begin(f, resume) ==
  /\ pc = "idle"
  /\ Request(f, resume)
  /\ calls' = calls + 1
  /\ file' = f
  /\ do_resume' = resume
  /\ SecureConnect
  /\ pc' = "sendHead"
  /\ UNCHANGED <<file_size, file_bytes_received, data_length, buffer, size,
                 tries, status, image>>

(* The client cannot be created, the name not resolved or the connection   *)
(* not made: the call fails before it has touched the download's state.    *)
BeginFails(f, resume) ==
  /\ pc = "idle"
  /\ Request(f, resume)
  /\ calls' = calls + 1
  /\ file' = f
  /\ do_resume' = resume
  /\ status' = "failed"
  /\ UNCHANGED <<webVars, pc, file_size, file_bytes_received, data_length,
                 buffer, size, tries, image>>

(* A request cannot be composed, for want of a packet, or cannot be sent. *)
RequestFails == UNCHANGED webVars \/ RequestSendFails

SendHead ==
  /\ pc = "sendHead"
  /\ file_size' = 0
  /\ \/ /\ \E r \in HeadResponses : RequestSend("HEAD", <<r>>)
        /\ data_length' = 0
        /\ pc' = "head"
        /\ UNCHANGED status
     \/ /\ RequestFails
        /\ status' = "failed"
        /\ pc' = "end"
        /\ UNCHANGED data_length
  /\ UNCHANGED <<file, do_resume, file_bytes_received, buffer, size, tries,
                 image, calls>>

(* header_file_size_callback compares the field name case by case. *)
SizeSeen(seen) == IF seen = "exact" THEN SizeOf[file] ELSE 0

NextSize(received, total) ==
  IF (received + BufSize) % SizeMod < total THEN BufSize ELSE (total - received) % SizeMod

(* Where the download begins; variant: always at the start. *)
StartAtZero == 0
StartAt == IF do_resume THEN file_bytes_received ELSE 0

(* The HEAD response is in: IOTC_DL_FILE_SIZE goes to the callback, which  *)
(* may abort; then the point to go on from is settled.                     *)
HeadDone(seen, accepts) ==
  /\ pc = "head"
  /\ BodyGetDone(0)
  /\ file_size' = SizeSeen(seen)
  /\ image' = IF accepts /\ ~do_resume THEN [o \in Offsets |-> NoByte] ELSE image
  /\ IF ~accepts
     THEN /\ status' = "aborted" /\ pc' = "end"
          /\ UNCHANGED <<file_bytes_received, size, tries>>
     ELSE IF do_resume /\ file_bytes_received >= file_size'
     THEN /\ status' = "invalid" /\ pc' = "end"
          /\ UNCHANGED <<file_bytes_received, size, tries>>
     ELSE /\ file_bytes_received' = StartAt
          /\ size' = NextSize(file_bytes_received', file_size')
          /\ tries' = Retries
          /\ pc' = "send"
          /\ UNCHANGED status
  /\ UNCHANGED <<file, do_resume, data_length, buffer, calls>>

HeadFails ==
  /\ pc = "head"
  /\ BodyGetFails
  /\ status' = "failed"
  /\ pc' = "end"
  /\ UNCHANGED <<file, do_resume, file_size, file_bytes_received, data_length,
                 buffer, size, tries, image, calls>>

-----------------------------------------------------------------------------
(* One turn of the retry loop: get_bytes_in_range asks for the chunk.      *)

(* Variant: an end that is taken to be exclusive. *)
RangeEndShort == (file_bytes_received + size - 2) % SizeMod
RangeEnd == (file_bytes_received + size - 1) % SizeMod

SendRange ==
  /\ pc = "send"
  /\ \E answer \in Answers, ka \in KeepAlives :
       RequestSend("GET", RangeAnswer(answer, ka, file_bytes_received, RangeEnd))
  /\ data_length' = 0
  /\ pc' = "body"
  /\ UNCHANGED <<file, do_resume, file_size, file_bytes_received, buffer, size,
                 tries, status, image, calls>>

(* Variants: one turn too many; a counter that is not decremented. *)
AttemptFailedOneMore ==
  /\ tries' = tries - 1
  /\ IF tries > 0
     THEN pc' = "send" /\ UNCHANGED status
     ELSE pc' = "end" /\ status' = "failed"

AttemptFailedForever == pc' = "send" /\ UNCHANGED <<tries, status>>

AttemptFailed ==
  /\ tries' = tries - 1
  /\ IF tries > 1
     THEN pc' = "send" /\ UNCHANGED status
     ELSE pc' = "end" /\ status' = "failed"

SendRangeFails ==
  /\ pc = "send"
  /\ RequestFails
  /\ AttemptFailed
  /\ UNCHANGED <<file, do_resume, file_size, file_bytes_received, data_length,
                 buffer, size, image, calls>>

(* nx_packet_data_extract_offset copies what fits into the rest of buffer. *)
Room == BufSize - data_length
Copied(k) == Min2(k, Room)

(* The record is appended to what the buffer holds. *)
Extract(k) ==
  [i \in 0 .. BufSize - 1 |->
     IF data_length <= i /\ i < data_length + Copied(k)
     THEN Byte(Head(wire).file, Head(wire).lo + (i - data_length))
     ELSE buffer[i]]

(* get_response takes a record that is not the last and goes on.           *)
ReceiveMore(k) ==
  /\ pc = "body"
  /\ k > 0
  /\ BodyGetMore(k)
  /\ buffer' = Extract(k)
  /\ data_length' = data_length + Copied(k)
  /\ UNCHANGED <<pc, file, do_resume, file_size, file_bytes_received, size,
                 tries, status, image, calls>>

(* get_bytes_in_range has returned NX_SUCCESS: the first `size` bytes of   *)
(* the buffer go to the callback as IOTC_DL_DATA, whatever was received.   *)
DataEvent(accepts) ==
  /\ image' = [o \in Offsets |->
                 IF file_bytes_received <= o /\ o < file_bytes_received + size
                 THEN buffer'[o - file_bytes_received] ELSE image[o]]
  /\ IF ~accepts
     THEN /\ status' = "aborted" /\ pc' = "end"
          /\ UNCHANGED <<file_bytes_received, size, tries>>
     ELSE /\ file_bytes_received' = (file_bytes_received + size) % SizeMod
          /\ IF file_bytes_received' < file_size
             THEN /\ pc' = "send" /\ tries' = Retries
                  /\ size' = NextSize(file_bytes_received', file_size)
                  /\ UNCHANGED status
             ELSE pc' = "end" /\ status' = "success" /\ UNCHANGED <<size, tries>>

(* get_response takes the record that completes the response.              *)
ReceiveLast(k, accepts) ==
  /\ pc = "body"
  /\ BodyGetDone(k)
  /\ buffer' = Extract(k)
  /\ data_length' = data_length + Copied(k)
  /\ DataEvent(accepts)
  /\ UNCHANGED <<file, do_resume, file_size, calls>>

(* get_response takes an empty record although the response goes on: it    *)
(* leaves its loop and returns the record's status, NX_SUCCESS.            *)
ReceiveEmpty(accepts) ==
  /\ pc = "body"
  /\ BodyGetMore(0)
  /\ UNCHANGED <<file, do_resume, file_size, data_length, buffer, calls>>
  /\ DataEvent(accepts)

ReceiveFails ==
  /\ pc = "body"
  /\ BodyGetFails
  /\ AttemptFailed
  /\ UNCHANGED <<file, do_resume, file_size, file_bytes_received, data_length,
                 buffer, size, image, calls>>

(* The web client is deleted, IOTC_DL_STATUS reported, event_cb cleared.   *)
End ==
  /\ pc = "end"
  /\ pc' = "idle"
  /\ WebDelete
  /\ UNCHANGED <<file, do_resume, file_size, file_bytes_received, data_length,
                 buffer, size, tries, status, image, calls>>

-----------------------------------------------------------------------------
Lost == MayLose /\ ConnectionLost /\ UNCHANGED dlVars

Receive ==
  \/ \E k \in 0 .. MaxSize : ReceiveMore(k)
  \/ \E k \in 0 .. MaxSize, accepts \in BOOLEAN : ReceiveLast(k, accepts)
  \/ \E accepts \in BOOLEAN : ReceiveEmpty(accepts)
  \/ ReceiveFails

HeadReceive ==
  \/ \E seen \in HeadLengths, accepts \in BOOLEAN : HeadDone(seen, accepts)
  \/ HeadFails

Download ==
  SendHead \/ HeadReceive \/ SendRange \/ SendRangeFails \/ Receive \/ End

Next ==
  \/ \E f \in Files, resume \in BOOLEAN : Begin(f, resume) \/ BeginFails(f, resume)
  \/ Download
  \/ Lost

Spec == Init /\ [][Next]_vars

(* A thread that is not blocked runs on.  It blocks, without a time limit, *)
(* in the receive of HeadReceive and Receive.                              *)
FairSpec == Spec /\ WF_vars(Download)

-----------------------------------------------------------------------------
(* Properties. *)

Responses ==
  {r \in [hdr : BOOLEAN, ok : BOOLEAN, len : 0 .. MaxSize, ka : BOOLEAN,
           file : Files, lo : 0 .. MaxSize, n : 0 .. MaxSize] : r.lo + r.n <= MaxSize}

WebTypeOK ==
  /\ web_state \in {"READY", "GET", "HEAD"}
  /\ header_received \in BOOLEAN /\ keep_alive \in BOOLEAN /\ connected \in BOOLEAN
  /\ total_bytes \in 0 .. MaxSize /\ actual_bytes \in 0 .. MaxSize
  /\ wire \in Seq(Responses)

(* Every variable of the two clients stays within its type; in particular  *)
(* no count passes the size of the buffer or of a file.                    *)
TypeOK ==
  /\ WebTypeOK
  /\ pc \in {"idle", "sendHead", "head", "send", "body", "end"}
  /\ file \in Files \cup {NoFile} /\ do_resume \in BOOLEAN
  /\ file_size \in 0 .. MaxSize /\ file_bytes_received \in 0 .. MaxSize
  /\ data_length \in 0 .. BufSize
  /\ buffer \in [0 .. BufSize - 1 -> Bytes \cup {NoByte}]
  /\ size \in 0 .. BufSize /\ tries \in 0 .. Retries
  /\ status \in {"none", "success", "failed", "aborted", "invalid"}
  /\ image \in [Offsets -> Bytes \cup {NoByte}]
  /\ calls \in 0 .. MaxCalls

(* What the client counts as received is, byte for byte, the beginning of  *)
(* the file, however the responses were cut, lost, refused or retried and  *)
(* however often the caller resumed: request_handler hands over `size`     *)
(* bytes of the buffer without looking at how many get_response put there. *)
PrefixIntact ==
  pc \in {"send", "body"} =>
    \A o \in Offsets : o < file_bytes_received => image[o] = Byte(file, o)

(* A download that reports NX_SUCCESS has delivered the whole file         *)
(* (iotc_download's status, which makes the OTA client's firmware ready).  *)
SuccessIsWholeFile ==
  pc \in {"idle", "end"} /\ status = "success" =>
    \A o \in 0 .. SizeOf[file] - 1 : image[o] = Byte(file, o)

(* header_received tells whether the next record begins a response: the    *)
(* web client never takes body bytes for a header or a header for body.    *)
FramingInSync ==
  connected /\ wire # <<>> => Head(wire).hdr = ~header_received

(* When the next range is asked for, or asked for again, over a connection *)
(* that lives, get_response has taken in all of the answer before it.      *)
NoLeftover ==
  pc = "send" /\ connected => wire = <<>> /\ ~header_received

(* A call returns to its caller whatever the network does, provided that   *)
(* the server answers: the retry loop of request_handler is bounded and    *)
(* every turn that is not its last moves the download on.                  *)
Terminates == pc # "idle" ~> pc = "idle"

(* What a caller sees of it. *)
Contents == [f \in Files |-> [i \in 1 .. SizeOf[f] |-> Byte(f, i - 1)]]
Delivered == [i \in 1 .. file_bytes_received |-> image[i - 1]]
Outcome ==
  IF pc # "idle" THEN "running" ELSE IF status \in {"none", "success"} THEN status ELSE "failed"

(* The download client implements FileTransfer: seen from its caller it    *)
(* delivers the file in order and without gaps, a resumed call never goes  *)
(* back behind what an earlier one received, and success is reported only  *)
(* for a whole file.                                                       *)
FT == INSTANCE FileTransfer WITH
  ContentOf <- Contents,
  target <- file,
  resumed <- do_resume,
  content <- Delivered,
  outcome <- Outcome

Transfers == FT!Spec
==============================================================================
