--------------------------- MODULE DownloadProofs ---------------------------
(***************************************************************************)
(* Proofs about the download client, for every file, buffer size, number   *)
(* of retries and number of calls.                                         *)
(***************************************************************************)
EXTENDS DownloadClient, TLAPS

-----------------------------------------------------------------------------
(* Arithmetic and framing lemmas. *)

(* size_t arithmetic that does not wrap is plain arithmetic. *)
LEMMA NoWrap ==
  ASSUME NEW a \in Nat, a < SizeMod
  PROVE  a % SizeMod = a
BY DownloadAssumption

(* Below the file's size, the next chunk fits the buffer and the file. *)
LEMMA NextSizeFits ==
  ASSUME NEW received \in 0 .. MaxSize, NEW total \in 0 .. MaxSize, received <= total
  PROVE  /\ NextSize(received, total) \in 0 .. BufSize
         /\ received + NextSize(received, total) <= total
<1>1. (received + BufSize) % SizeMod = received + BufSize
  BY NoWrap, DownloadAssumption
<1>2. (total - received) % SizeMod = total - received
  BY NoWrap, DownloadAssumption
<1>. QED  BY <1>1, <1>2, DownloadAssumption DEF NextSize

(* The next response on the wire, and what may be received of it. *)
LEMMA HeadOfWire ==
  ASSUME wire \in Seq(Responses), wire # <<>>
  PROVE  /\ Head(wire) \in Responses
         /\ Tail(wire) \in Seq(Responses)
         /\ RecordSizes \subseteq 0 .. Head(wire).n
  BY DEF RecordSizes

(* What is left on the wire is made of responses. *)
LEMMA WireAfterType ==
  ASSUME wire \in Seq(Responses), wire # <<>>, NEW k \in RecordSizes
  PROVE  WireAfter(k) \in Seq(Responses)
<1>1. Head(wire) \in Responses /\ Tail(wire) \in Seq(Responses) /\ k \in 0 .. Head(wire).n
  BY HeadOfWire
<1>2. Rest(k) \in Responses
  <2>. DEFINE h == Head(wire)
  <2>1. /\ h.ok \in BOOLEAN /\ h.ka \in BOOLEAN /\ h.file \in Files
        /\ h.len \in 0 .. MaxSize /\ h.lo \in 0 .. MaxSize /\ h.n \in 0 .. MaxSize
        /\ h.lo + h.n <= MaxSize
    BY <1>1 DEF Responses
  <2>2. /\ h.lo + k \in 0 .. MaxSize /\ h.n - k \in 0 .. MaxSize
        /\ (h.lo + k) + (h.n - k) <= MaxSize
    <3>1. MaxSize \in Nat /\ k \in 0 .. h.n
      BY <1>1, DownloadAssumption
    <3>. HIDE DEF h
    <3>2. /\ h.lo \in Nat /\ h.n \in Nat /\ k \in Nat /\ k <= h.n
      BY <2>1, <3>1
    <3>. QED  BY <2>1, <3>1, <3>2
  <2>. HIDE DEF h
  <2>3. Rest(k) = [hdr |-> FALSE, ok |-> h.ok, len |-> h.len, ka |-> h.ka,
                   file |-> h.file, lo |-> h.lo + k, n |-> h.n - k]
    BY DEF Rest, h
  <2>4. Rest(k) \in [hdr : BOOLEAN, ok : BOOLEAN, len : 0 .. MaxSize, ka : BOOLEAN,
                     file : Files, lo : 0 .. MaxSize, n : 0 .. MaxSize]
    BY <2>1, <2>2, <2>3
  <2>. QED  BY <2>2, <2>3, <2>4 DEF Responses
<1>. QED  BY <1>1, <1>2 DEF WireAfter

(* The body length of a response never makes a count pass MaxSize. *)
LEMMA CountsStayInRange ==
  ASSUME WebTypeOK, wire # <<>>, NEW k \in RecordSizes, Accepted(Record(k)),
         web_state # "HEAD" \/ k = 0
  PROVE  /\ TotalWith(Record(k)) \in 0 .. MaxSize
         /\ ActualWith(Record(k)) \in 0 .. MaxSize
         /\ KeepAliveWith(Record(k)) \in BOOLEAN
<1>. DEFINE p == Record(k)
<1>1. /\ Head(wire).ka \in BOOLEAN /\ Head(wire).hdr \in BOOLEAN
      /\ Head(wire).len \in 0 .. MaxSize /\ Head(wire).n \in 0 .. MaxSize
      /\ k \in 0 .. Head(wire).n
  BY HeadOfWire DEF WebTypeOK, Responses
<1>2. /\ p.hdr = Head(wire).hdr /\ p.ka = Head(wire).ka
      /\ p.len = Head(wire).len /\ p.n = k
  BY HeadOfWire DEF WebTypeOK, Responses, Record
<1>. HIDE DEF p
<1>3. IF p.hdr THEN p.n <= p.len ELSE p.n <= total_bytes - actual_bytes
  BY DEF Accepted, p
<1>4. TotalWith(p) \in 0 .. MaxSize /\ KeepAliveWith(p) \in BOOLEAN
  BY <1>1, <1>2, DownloadAssumption DEF TotalWith, KeepAliveWith, WebTypeOK
<1>5. ActualWith(p) \in 0 .. MaxSize
  BY <1>1, <1>2, <1>3, DownloadAssumption DEF ActualWith, WebTypeOK
<1>. QED  BY <1>4, <1>5 DEF p

(* The web client's part of the type invariant. *)
LEMMA WebSteps ==
  ASSUME WebTypeOK
  PROVE  /\ SecureConnect => WebTypeOK'
         /\ WebDelete => WebTypeOK'
         /\ RequestFails => WebTypeOK'
         /\ BodyGetFails => WebTypeOK'
         /\ ConnectionLost => WebTypeOK'
<1>1. <<>> \in Seq(Responses)
  OBVIOUS
<1>. 0 \in 0 .. MaxSize
  BY DownloadAssumption
<1>2. SecureConnect => WebTypeOK'
  BY <1>1 DEF SecureConnect, WebTypeOK
<1>3. WebDelete => WebTypeOK'
  BY <1>1 DEF WebDelete, WebTypeOK
<1>4. RequestFails => WebTypeOK'
  <2>1. CASE UNCHANGED webVars
    BY <2>1 DEF WebTypeOK, webVars
  <2>2. CASE RequestSendFails
    BY <1>1, <2>2 DEF RequestSendFails, ErrorExit, WebTypeOK
  <2>. QED  BY <2>1, <2>2 DEF RequestFails
<1>5. BodyGetFails => WebTypeOK'
  BY <1>1 DEF BodyGetFails, ErrorExit, WebTypeOK
<1>6. ConnectionLost => WebTypeOK'
  BY <1>1 DEF ConnectionLost, ErrorExit, WebTypeOK
<1>. QED  BY <1>2, <1>3, <1>4, <1>5, <1>6

(* The same when a record was received, or a request sent. *)
LEMMA WebReceives ==
  ASSUME WebTypeOK, NEW k, BodyGetMore(k) \/ BodyGetDone(k),
         web_state # "HEAD" \/ k = 0
  PROVE  WebTypeOK'
<1>1. wire # <<>> /\ k \in RecordSizes /\ Accepted(Record(k))
  BY DEF BodyGetMore, BodyGetDone
<1>2. /\ TotalWith(Record(k)) \in 0 .. MaxSize
      /\ ActualWith(Record(k)) \in 0 .. MaxSize
      /\ KeepAliveWith(Record(k)) \in BOOLEAN
  BY <1>1, CountsStayInRange
<1>3. WireAfter(k) \in Seq(Responses)
  BY <1>1, WireAfterType DEF WebTypeOK
<1>4. CASE BodyGetMore(k)
  BY <1>2, <1>3, <1>4 DEF BodyGetMore, WebTypeOK
<1>5. CASE BodyGetDone(k)
  <2>1. wire' \in Seq(Responses) /\ connected' \in BOOLEAN
    <3>1. CASE keep_alive'
      BY <1>3, <1>5, <3>1 DEF BodyGetDone, WebTypeOK
    <3>2. CASE ~keep_alive'
      <4>. <<>> \in Seq(Responses)
        OBVIOUS
      <4>. QED  BY <1>5, <3>2 DEF BodyGetDone, ErrorExit
    <3>. QED  BY <3>1, <3>2
  <2>. QED  BY <1>2, <1>5, <2>1 DEF BodyGetDone, WebTypeOK
<1>. QED  BY <1>4, <1>5

LEMMA WebSends ==
  ASSUME WebTypeOK, NEW responses \in Seq(Responses), NEW method \in {"GET", "HEAD"},
         RequestSend(method, responses)
  PROVE  WebTypeOK'
<1>1. wire \o responses \in Seq(Responses)
  BY DEF WebTypeOK
<1>. QED  BY <1>1 DEF RequestSend, WebTypeOK

-----------------------------------------------------------------------------
(* Type correctness.  TypeOK alone is not inductive: that the offset stays *)
(* within the file rests on the size of the chunk under way.               *)

ChunkInFile ==
  pc \in {"send", "body"} => /\ file_bytes_received + size <= file_size
                            /\ tries \in 1 .. Retries

TypeInv ==
  /\ TypeOK
  /\ ChunkInFile
  /\ pc = "body" => web_state # "HEAD"
  /\ pc # "idle" => file \in Files

(* The plain facts in the assumption on the constants. *)
LEMMA Constants ==
  /\ MaxSize \in Nat /\ BufSize \in Nat /\ BufSize > 0
  /\ Retries \in Nat /\ Retries > 0 /\ MaxCalls \in Nat
  /\ SizeMod \in Nat /\ SizeMod > MaxSize + BufSize
  /\ \A f \in Files : SizeOf[f] \in 0 .. MaxSize
  /\ KeepAlives \subseteq BOOLEAN /\ Resumes \subseteq BOOLEAN
<1>1. KeepAlives \subseteq BOOLEAN
  BY Zenon DEF KeepAlives
<1>2. Resumes \subseteq BOOLEAN
  BY DownloadAssumption, Zenon
<1>3. \A f \in Files : SizeOf[f] \in 0 .. MaxSize
  BY DownloadAssumption, Zenon
<1>. QED  BY <1>1, <1>2, <1>3, DownloadAssumption

(* What the server sends is one response or none. *)
LEMMA ServerTypes ==
  ASSUME file \in Files
  PROVE  /\ \A r \in HeadResponses : <<r>> \in Seq(Responses)
         /\ \A answer \in Answers, ka \in KeepAlives, lo \in 0 .. MaxSize, hi \in Nat :
              RangeAnswer(answer, ka, lo, hi) \in Seq(Responses)
<1>. SizeOf[file] \in 0 .. MaxSize /\ MaxSize \in Nat /\ KeepAlives \subseteq BOOLEAN
  BY Constants
<1>1. ASSUME NEW ok \in BOOLEAN, NEW ka \in BOOLEAN, NEW len \in 0 .. MaxSize,
             NEW lo \in 0 .. MaxSize, NEW n \in 0 .. MaxSize, lo + n <= MaxSize
      PROVE  Response(ok, len, ka, lo, n) \in Responses
  BY <1>1 DEF Response, Responses
<1>2. ASSUME NEW r \in HeadResponses
      PROVE  <<r>> \in Seq(Responses)
  BY <1>1 DEF HeadResponses
<1>3. ASSUME NEW answer \in Answers, NEW ka \in KeepAlives, NEW lo \in 0 .. MaxSize,
             NEW hi \in Nat
      PROVE  RangeAnswer(answer, ka, lo, hi) \in Seq(Responses)
  <2>. DEFINE len == Min2(hi, SizeOf[file] - 1) - lo + 1
  <2>1. len \in Int /\ lo + len <= MaxSize
    BY DEF Min2
  <2>. HIDE DEF len
  <2>2. ASSUME len > 0 PROVE Response(TRUE, len, ka, lo, len) \in Responses
    <3>. len \in 0 .. MaxSize
      BY <2>1, <2>2
    <3>. QED  BY <1>1, <2>1, Zenon
  <2>3. Response(TRUE, SizeOf[file], ka, 0, SizeOf[file]) \in Responses
    <3>. 0 \in 0 .. MaxSize /\ 0 + SizeOf[file] <= MaxSize
      OBVIOUS
    <3>. QED  BY <1>1, Zenon
  <2>4. Response(FALSE, 0, ka, 0, 0) \in Responses
    <3>. 0 \in 0 .. MaxSize /\ 0 + 0 <= MaxSize
      OBVIOUS
    <3>. QED  BY <1>1, Zenon
  <2>5. \/ RangeAnswer(answer, ka, lo, hi) = <<>>
        \/ RangeAnswer(answer, ka, lo, hi) = <<Response(TRUE, SizeOf[file], ka, 0, SizeOf[file])>>
        \/ len > 0 /\ RangeAnswer(answer, ka, lo, hi) = <<Response(TRUE, len, ka, lo, len)>>
        \/ RangeAnswer(answer, ka, lo, hi) = <<Response(FALSE, 0, ka, 0, 0)>>
    BY Zenon DEF RangeAnswer, len
  <2>6. <<>> \in Seq(Responses) /\ \A r \in Responses : <<r>> \in Seq(Responses)
    OBVIOUS
  <2>. QED  BY <2>2, <2>3, <2>4, <2>5, <2>6, Zenon
<1>. QED  BY <1>2, <1>3

THEOREM TypeInit == Init => TypeInv
<1>. SUFFICES ASSUME Init PROVE TypeInv
  OBVIOUS
<1>1. <<>> \in Seq(Responses) /\ 0 \in 0 .. MaxSize /\ 0 \in 0 .. BufSize
      /\ 0 \in 0 .. Retries /\ 0 \in 0 .. MaxCalls
  BY Constants
<1>2. WebTypeOK
  BY <1>1 DEF Init, WebFresh, WebTypeOK
<1>3. TypeOK
  BY <1>1, <1>2 DEF Init, TypeOK
<1>. QED  BY <1>3 DEF Init, TypeInv, ChunkInFile

(* The record copied into the buffer stays within it and holds bytes. *)
LEMMA ExtractType ==
  ASSUME TypeOK, wire # <<>>, NEW k \in RecordSizes
  PROVE  /\ Copied(k) \in 0 .. k /\ data_length + Copied(k) \in 0 .. BufSize
         /\ Extract(k) \in [0 .. BufSize - 1 -> Bytes \cup {NoByte}]
<1>. DEFINE h == Head(wire)
<1>1. /\ h.file \in Files /\ h.lo \in 0 .. MaxSize /\ h.n \in 0 .. MaxSize
      /\ h.lo + h.n <= MaxSize /\ k \in 0 .. h.n
  BY HeadOfWire DEF TypeOK, WebTypeOK, Responses
<1>. /\ MaxSize \in Nat /\ BufSize \in Nat /\ data_length \in 0 .. BufSize
     /\ buffer \in [0 .. BufSize - 1 -> Bytes \cup {NoByte}]
  BY Constants DEF TypeOK
<1>. HIDE DEF h
<1>2. Copied(k) \in 0 .. k /\ data_length + Copied(k) \in 0 .. BufSize
  BY <1>1 DEF Copied, Room, Min2
<1>3. ASSUME NEW i \in 0 .. BufSize - 1, data_length <= i, i < data_length + Copied(k)
      PROVE  Byte(h.file, h.lo + (i - data_length)) \in Bytes
  <2>. h.lo + (i - data_length) \in 0 .. MaxSize - 1
    <3>1. /\ i \in Nat /\ data_length \in Nat /\ Copied(k) \in Nat /\ Copied(k) <= k
          /\ k \in Nat
      BY <1>1, <1>2
    <3>2. i - data_length \in Nat /\ i - data_length < k
      BY <1>3, <3>1
    <3>3. h.lo \in Nat /\ h.n \in Nat /\ k <= h.n /\ h.lo + h.n <= MaxSize
      BY <1>1
    <3>. QED  BY <3>1, <3>2, <3>3
  <2>. QED  BY <1>1 DEF Byte, Bytes, Offsets
<1>4. Extract(k) \in [0 .. BufSize - 1 -> Bytes \cup {NoByte}]
  BY <1>3 DEF Extract, h
<1>. QED  BY <1>2, <1>4

(* Handing a chunk over keeps the image, the offset and the next chunk in  *)
(* their types.                                                            *)
LEMMA DataEventType ==
  ASSUME TypeOK, pc = "body", ChunkInFile, NEW accepts \in BOOLEAN, DataEvent(accepts),
         buffer' \in [0 .. BufSize - 1 -> Bytes \cup {NoByte}],
         UNCHANGED file_size
  PROVE  /\ image' \in [Offsets -> Bytes \cup {NoByte}]
         /\ file_bytes_received' \in 0 .. MaxSize
         /\ size' \in 0 .. BufSize /\ tries' \in 0 .. Retries
         /\ status' \in {"none", "success", "failed", "aborted", "invalid"}
         /\ pc' \in {"send", "end"} /\ ChunkInFile'
<1>. /\ MaxSize \in Nat /\ BufSize \in Nat /\ Retries \in Nat /\ Retries > 0
     /\ SizeMod \in Nat /\ SizeMod > MaxSize + BufSize
  BY Constants
<1>. /\ size \in 0 .. BufSize /\ tries \in 0 .. Retries
     /\ file_bytes_received \in 0 .. MaxSize /\ file_size \in 0 .. MaxSize
     /\ file_bytes_received + size <= file_size
     /\ status \in {"none", "success", "failed", "aborted", "invalid"}
     /\ image \in [Offsets -> Bytes \cup {NoByte}]
  BY DEF TypeOK, ChunkInFile
<1>1. image' \in [Offsets -> Bytes \cup {NoByte}]
  BY DEF DataEvent, Offsets
<1>2. (file_bytes_received + size) % SizeMod = file_bytes_received + size
  BY NoWrap
<1>3. CASE ~accepts
  BY <1>1, <1>3 DEF DataEvent, ChunkInFile
<1>4. CASE accepts
  <2>1. /\ file_bytes_received' = file_bytes_received + size
        /\ file_bytes_received' \in 0 .. MaxSize
    BY <1>2, <1>4 DEF DataEvent
  <2>2. CASE file_bytes_received' < file_size
    <3>1. /\ pc' = "send" /\ tries' = Retries /\ status' = status
          /\ size' = NextSize(file_bytes_received', file_size)
      BY <1>4, <2>2 DEF DataEvent
    <3>2. /\ size' \in 0 .. BufSize
          /\ file_bytes_received' + size' <= file_size
      BY <2>1, <2>2, <3>1, NextSizeFits
    <3>. QED  BY <1>1, <2>1, <3>1, <3>2 DEF ChunkInFile
  <2>3. CASE ~(file_bytes_received' < file_size)
    BY <1>1, <1>4, <2>1, <2>3 DEF DataEvent, ChunkInFile
  <2>. QED  BY <2>2, <2>3
<1>. QED  BY <1>3, <1>4

LEMMA TypeBegin ==
  ASSUME TypeInv, NEW f \in Files, NEW resume \in BOOLEAN,
         Begin(f, resume) \/ BeginFails(f, resume)
  PROVE  TypeInv'
<1>. calls' \in 0 .. MaxCalls
  BY Constants DEF TypeInv, TypeOK, Begin, BeginFails, Request
<1>1. CASE Begin(f, resume)
  <2>1. WebTypeOK'
    BY <1>1, WebSteps DEF TypeInv, TypeOK, Begin
  <2>. QED  BY <1>1, <2>1 DEF TypeInv, TypeOK, Begin, ChunkInFile
<1>2. CASE BeginFails(f, resume)
  <2>1. WebTypeOK'
    BY <1>2 DEF TypeInv, TypeOK, WebTypeOK, BeginFails, webVars
  <2>. QED  BY <1>2, <2>1 DEF TypeInv, TypeOK, BeginFails, ChunkInFile, webVars
<1>. QED  BY <1>1, <1>2

LEMMA TypeSendHead ==
  ASSUME TypeInv, SendHead
  PROVE  TypeInv'
<1>1. WebTypeOK'
  <2>1. CASE RequestFails
    BY <2>1, WebSteps DEF TypeInv, TypeOK
  <2>2. CASE \E r \in HeadResponses : RequestSend("HEAD", <<r>>)
    <3>1. file \in Files
      BY DEF TypeInv, SendHead
    <3>. QED  BY <2>2, <3>1, ServerTypes, WebSends DEF TypeInv, TypeOK
  <2>. QED  BY <2>1, <2>2 DEF SendHead
<1>2. 0 \in 0 .. MaxSize /\ 0 \in 0 .. BufSize
  BY Constants
<1>3. TypeOK' /\ pc' \in {"head", "end"} /\ file' = file
  BY <1>1, <1>2 DEF TypeInv, TypeOK, SendHead
<1>. QED  BY <1>3 DEF TypeInv, ChunkInFile, SendHead

LEMMA TypeHeadDone ==
  ASSUME TypeInv, NEW seen \in HeadLengths, NEW accepts \in BOOLEAN,
         HeadDone(seen, accepts)
  PROVE  TypeInv'
<1>1. WebTypeOK'
  <2>1. BodyGetDone(0)
    BY DEF HeadDone
  <2>. QED  BY <2>1, WebReceives DEF TypeInv, TypeOK
<1>2. file_size' \in 0 .. MaxSize /\ file \in Files /\ 0 \in 0 .. MaxSize
  BY Constants DEF TypeInv, HeadDone, SizeSeen
<1>3. image' \in [Offsets -> Bytes \cup {NoByte}]
  BY DEF TypeInv, TypeOK, HeadDone
<1>4. Retries \in 1 .. Retries /\ Retries \in 0 .. Retries
  BY Constants
<1>5. CASE pc' = "end"
  BY <1>1, <1>2, <1>3, <1>4, <1>5 DEF TypeInv, TypeOK, ChunkInFile, HeadDone
<1>6. CASE pc' = "send"
  <2>1. /\ file_bytes_received' = StartAt /\ tries' = Retries /\ status' = status
        /\ size' = NextSize(file_bytes_received', file_size')
        /\ ~(do_resume /\ file_bytes_received >= file_size')
    BY <1>6 DEF HeadDone
  <2>2. file_bytes_received' \in 0 .. MaxSize /\ file_bytes_received' <= file_size'
    BY <1>2, <2>1 DEF StartAt, TypeInv, TypeOK
  <2>3. size' \in 0 .. BufSize /\ file_bytes_received' + size' <= file_size'
    BY <1>2, <2>1, <2>2, NextSizeFits
  <2>4. TypeOK'
    BY <1>1, <1>2, <1>3, <1>4, <1>6, <2>1, <2>2, <2>3 DEF TypeInv, TypeOK, HeadDone
  <2>. QED  BY <1>2, <1>4, <1>6, <2>1, <2>3, <2>4 DEF TypeInv, ChunkInFile, HeadDone
<1>. QED  BY <1>5, <1>6 DEF HeadDone

LEMMA TypeHeadFails ==
  ASSUME TypeInv, HeadFails
  PROVE  TypeInv'
<1>1. WebTypeOK'
  BY WebSteps DEF TypeInv, TypeOK, HeadFails
<1>. QED  BY <1>1 DEF TypeInv, TypeOK, HeadFails, ChunkInFile

LEMMA TypeSendRange ==
  ASSUME TypeInv, SendRange
  PROVE  TypeInv'
<1>1. /\ MaxSize \in Nat /\ BufSize \in Nat /\ SizeMod \in Nat /\ SizeMod > MaxSize + BufSize
      /\ size \in 0 .. BufSize /\ file_bytes_received \in 0 .. MaxSize /\ file \in Files
      /\ WebTypeOK
  BY Constants DEF TypeInv, TypeOK, SendRange
<1>2. RangeEnd \in Nat
  BY <1>1 DEF RangeEnd
<1>3. PICK answer \in Answers, ka \in KeepAlives :
        RequestSend("GET", RangeAnswer(answer, ka, file_bytes_received, RangeEnd))
  BY DEF SendRange
<1>4. WebTypeOK' /\ web_state' = "GET"
  BY <1>1, <1>2, <1>3, ServerTypes, WebSends DEF RequestSend
<1>5. 0 \in 0 .. BufSize
  BY <1>1
<1>. QED  BY <1>4, <1>5 DEF TypeInv, TypeOK, SendRange, ChunkInFile

LEMMA TypeAttemptFails ==
  ASSUME TypeInv, SendRangeFails \/ ReceiveFails
  PROVE  TypeInv'
<1>1. WebTypeOK'
  BY WebSteps DEF TypeInv, TypeOK, SendRangeFails, ReceiveFails
<1>2. /\ tries' \in 0 .. Retries /\ pc' \in {"send", "end"}
      /\ pc' = "send" => tries' \in 1 .. Retries
      /\ status' \in {"none", "success", "failed", "aborted", "invalid"}
  BY Constants
     DEF TypeInv, TypeOK, ChunkInFile, SendRangeFails, ReceiveFails, AttemptFailed
<1>3. UNCHANGED <<file, do_resume, file_size, file_bytes_received, data_length,
                  buffer, size, image, calls>> /\ pc \in {"send", "body"}
  BY DEF SendRangeFails, ReceiveFails
<1>. QED  BY <1>1, <1>2, <1>3 DEF TypeInv, TypeOK, ChunkInFile

LEMMA TypeReceive ==
  ASSUME TypeInv, NEW k \in Nat, NEW accepts \in BOOLEAN,
         ReceiveMore(k) \/ ReceiveLast(k, accepts) \/ (k = 0 /\ ReceiveEmpty(accepts))
  PROVE  TypeInv'
<1>1. pc = "body" /\ (BodyGetMore(k) \/ BodyGetDone(k))
  BY DEF ReceiveMore, ReceiveLast, ReceiveEmpty
<1>2. wire # <<>> /\ k \in RecordSizes
  BY <1>1 DEF BodyGetMore, BodyGetDone
<1>3. WebTypeOK'
  BY <1>1, WebReceives DEF TypeInv, TypeOK
<1>4. /\ data_length + Copied(k) \in 0 .. BufSize
      /\ Extract(k) \in [0 .. BufSize - 1 -> Bytes \cup {NoByte}]
  BY <1>2, ExtractType DEF TypeInv
<1>5. /\ data_length' \in 0 .. BufSize
      /\ buffer' \in [0 .. BufSize - 1 -> Bytes \cup {NoByte}]
  BY <1>4 DEF ReceiveMore, ReceiveLast, ReceiveEmpty, TypeInv, TypeOK
<1>6. CASE ReceiveMore(k)
  <2>. web_state' = web_state
    BY <1>6 DEF ReceiveMore, BodyGetMore
  <2>. QED  BY <1>3, <1>5, <1>6 DEF ReceiveMore, TypeInv, TypeOK, ChunkInFile
<1>7. CASE ReceiveLast(k, accepts) \/ ReceiveEmpty(accepts)
  <2>1. DataEvent(accepts) /\ UNCHANGED <<file, do_resume, file_size, calls>>
    BY <1>7 DEF ReceiveLast, ReceiveEmpty
  <2>2. /\ image' \in [Offsets -> Bytes \cup {NoByte}]
        /\ file_bytes_received' \in 0 .. MaxSize
        /\ size' \in 0 .. BufSize /\ tries' \in 0 .. Retries
        /\ status' \in {"none", "success", "failed", "aborted", "invalid"}
        /\ pc' \in {"send", "end"} /\ ChunkInFile'
    BY <1>1, <1>5, <2>1, DataEventType DEF TypeInv
  <2>. QED  BY <1>1, <1>3, <1>5, <2>1, <2>2 DEF TypeInv, TypeOK
<1>. QED  BY <1>6, <1>7

LEMMA TypeEnd ==
  ASSUME TypeInv, End
  PROVE  TypeInv'
<1>1. WebTypeOK'
  BY WebSteps DEF TypeInv, TypeOK, End
<1>. QED  BY <1>1 DEF TypeInv, TypeOK, End, ChunkInFile

LEMMA TypeLost ==
  ASSUME TypeInv, Lost \/ UNCHANGED vars
  PROVE  TypeInv'
<1>1. WebTypeOK' /\ web_state' = web_state /\ UNCHANGED dlVars
  <2>1. CASE Lost
    BY <2>1, WebSteps DEF TypeInv, TypeOK, Lost, ConnectionLost
  <2>2. CASE UNCHANGED vars
    BY <2>2 DEF TypeInv, TypeOK, WebTypeOK, vars, webVars
  <2>. QED  BY <2>1, <2>2
<1>. QED  BY <1>1 DEF TypeInv, TypeOK, ChunkInFile, dlVars

(* No call of the client, whatever the server sends and whenever the       *)
(* connection breaks, takes a count out of its range.                      *)
THEOREM TypeStep == TypeInv /\ [Next]_vars => TypeInv'
<1>. SUFFICES ASSUME TypeInv, [Next]_vars
              PROVE  TypeInv'
  OBVIOUS
<1>1. CASE \E f \in Files, resume \in BOOLEAN : Begin(f, resume) \/ BeginFails(f, resume)
  BY <1>1, TypeBegin
<1>2. CASE SendHead
  BY <1>2, TypeSendHead
<1>3. CASE HeadReceive
  BY <1>3, TypeHeadDone, TypeHeadFails DEF HeadReceive
<1>4. CASE SendRange
  BY <1>4, TypeSendRange
<1>5. CASE SendRangeFails \/ ReceiveFails
  BY <1>5, TypeAttemptFails
<1>6. CASE Receive /\ ~ReceiveFails
  <2>. MaxSize \in Nat
    BY Constants
  <2>1. ASSUME NEW k \in 0 .. MaxSize, ReceiveMore(k) PROVE TypeInv'
    <3>1. k \in Nat /\ TRUE \in BOOLEAN
      OBVIOUS
    <3>. QED  BY <2>1, <3>1, TypeReceive, Zenon
  <2>2. ASSUME NEW k \in 0 .. MaxSize, NEW accepts \in BOOLEAN, ReceiveLast(k, accepts) PROVE TypeInv'
    BY <2>2, TypeReceive
  <2>3. ASSUME NEW accepts \in BOOLEAN, ReceiveEmpty(accepts) PROVE TypeInv'
    BY <2>3, TypeReceive
  <2>. QED  BY <1>6, <2>1, <2>2, <2>3, Zenon DEF Receive
<1>7. CASE End
  BY <1>7, TypeEnd
<1>8. CASE Lost \/ UNCHANGED vars
  BY <1>8, TypeLost
<1>. QED  BY <1>1, <1>2, <1>3, <1>4, <1>5, <1>6, <1>7, <1>8 DEF Next, Download

(* The type invariant of the download client and of its connection holds   *)
(* in every reachable state: buffer, offsets and lengths never overrun.    *)
THEOREM TypeCorrect == Spec => []TypeOK
<1>1. TypeInv => TypeOK
  BY DEF TypeInv
<1>. QED  BY TypeInit, TypeStep, <1>1, PTL DEF Spec

-----------------------------------------------------------------------------
(* Framing.  A range request may be sent while the answer before it is     *)
(* still coming in (get_response stops at an empty record), so that the    *)
(* wire may hold several responses: all but the first are untouched, and   *)
(* what is missing of the first is what the counts say is missing.         *)

Framed ==
  connected =>
    /\ wire # <<>> => Head(wire).hdr = ~header_received
    /\ header_received => wire # <<>> /\ Head(wire).n = total_bytes - actual_bytes
    /\ \A i \in 2 .. Len(wire) : wire[i].hdr
    /\ pc \in {"send", "body"} =>
         \A i \in 1 .. Len(wire) : wire[i].hdr /\ wire[i].ok => wire[i].len = wire[i].n
    /\ pc = "sendHead" => wire = <<>> /\ ~header_received
    /\ pc = "head" => Len(wire) = 1 /\ Head(wire).n = 0

FramingInv == TypeInv /\ Framed

(* A response to a range request ends with the record that completes it.   *)
LEMMA RecordCompletes ==
  ASSUME FramingInv, pc = "body", NEW k, BodyGetMore(k) \/ BodyGetDone(k)
  PROVE  /\ connected /\ wire \in Seq(Responses) /\ wire # <<>>
         /\ k \in Nat /\ Head(wire).n \in Nat
         /\ BodyGetMore(k) => k # Head(wire).n
         /\ BodyGetDone(k) => k = Head(wire).n
         /\ TotalWith(Record(k)) - ActualWith(Record(k)) = Head(wire).n - k
<1>1. /\ connected /\ wire # <<>> /\ k \in RecordSizes /\ Accepted(Record(k))
      /\ BodyGetMore(k) => TotalWith(Record(k)) # ActualWith(Record(k))
      /\ BodyGetDone(k) => TotalWith(Record(k)) = ActualWith(Record(k))
  BY Zenon DEF BodyGetMore, BodyGetDone
<1>2. /\ wire \in Seq(Responses) /\ web_state # "HEAD"
      /\ total_bytes \in 0 .. MaxSize /\ actual_bytes \in 0 .. MaxSize
  BY DEF FramingInv, TypeInv, TypeOK, WebTypeOK
<1>3. /\ Head(wire).n \in Nat /\ Head(wire).len \in Nat /\ k \in 0 .. Head(wire).n
      /\ MaxSize \in Nat /\ Head(wire).hdr \in BOOLEAN /\ Head(wire).ok \in BOOLEAN
  BY <1>1, <1>2, HeadOfWire, Constants DEF Responses
<1>4. /\ Record(k).hdr = Head(wire).hdr /\ Record(k).ok = Head(wire).ok
      /\ Record(k).len = Head(wire).len /\ Record(k).n = k
  BY <1>1, <1>2, HeadOfWire DEF Responses, Record
<1>5. CASE Head(wire).hdr
  <2>1. Head(wire).ok /\ Head(wire) = wire[1] /\ 1 \in 1 .. Len(wire)
    BY <1>1, <1>2, <1>4, <1>5 DEF Accepted
  <2>2. Head(wire).len = Head(wire).n
    BY <1>1, <1>5, <2>1 DEF FramingInv, Framed
  <2>3. TotalWith(Record(k)) = Head(wire).n /\ ActualWith(Record(k)) = k
    BY <1>2, <1>3, <1>4, <1>5, <2>2 DEF TotalWith, ActualWith
  <2>. QED  BY <1>1, <1>2, <1>3, <2>3
<1>6. CASE ~Head(wire).hdr
  <2>1. Head(wire).n = total_bytes - actual_bytes
    BY <1>1, <1>6 DEF FramingInv, Framed
  <2>2. TotalWith(Record(k)) = total_bytes /\ ActualWith(Record(k)) = actual_bytes + k
    BY <1>4, <1>6 DEF TotalWith, ActualWith
  <2>. QED  BY <1>1, <1>2, <1>3, <2>1, <2>2
<1>. QED  BY <1>3, <1>5, <1>6

(* Of the responses behind the first, none loses its header. *)
LEMMA FramedReceiveMore ==
  ASSUME FramingInv, pc = "body", pc' \in {"send", "body", "end"}, NEW k, BodyGetMore(k)
  PROVE  Framed'
<1>1. /\ connected /\ wire \in Seq(Responses) /\ wire # <<>> /\ k \in RecordSizes
      /\ k \in Nat /\ Head(wire).n \in Nat /\ k # Head(wire).n
      /\ TotalWith(Record(k)) - ActualWith(Record(k)) = Head(wire).n - k
  BY RecordCompletes DEF BodyGetMore
<1>2. wire' = <<Rest(k)>> \o Tail(wire)
  BY <1>1 DEF BodyGetMore, WireAfter
<1>3. /\ Rest(k).hdr = FALSE /\ Rest(k).n = Head(wire).n - k
      /\ Tail(wire) \in Seq(Responses) /\ WireAfter(k) \in Seq(Responses)
  BY <1>1, HeadOfWire, WireAfterType DEF Rest
<1>4. /\ Len(wire') = Len(wire) /\ wire' # <<>> /\ Head(wire') = Rest(k)
      /\ wire'[1] = Rest(k) /\ \A i \in 2 .. Len(wire) : wire'[i] = wire[i]
  <2>. DEFINE r == Rest(k)
  <2>. HIDE DEF r
  <2>1. wire' = <<r>> \o Tail(wire)
    BY <1>2 DEF r
  <2>. QED  BY <1>1, <1>3, <2>1 DEF r
<1>5. /\ header_received' = TRUE
      /\ total_bytes' - actual_bytes' = Head(wire').n
  BY <1>1, <1>3, <1>4 DEF BodyGetMore
<1>6. \A i \in 2 .. Len(wire) : wire[i].hdr /\ (wire[i].ok => wire[i].len = wire[i].n)
  BY <1>1 DEF FramingInv, Framed
<1>7. \A i \in 1 .. Len(wire') : i = 1 \/ i \in 2 .. Len(wire)
  BY <1>1, <1>4
<1>. QED  BY <1>3, <1>4, <1>5, <1>6, <1>7 DEF Framed

LEMMA FramedReceiveLast ==
  ASSUME FramingInv, pc = "body", pc' \in {"send", "body", "end"}, NEW k, BodyGetDone(k)
  PROVE  Framed'
<1>. SUFFICES ASSUME connected' PROVE Framed'
  BY DEF Framed
<1>1. /\ connected /\ wire \in Seq(Responses) /\ wire # <<>> /\ k = Head(wire).n
  BY RecordCompletes
<1>2. wire' = Tail(wire) /\ header_received' = FALSE
  BY <1>1 DEF BodyGetDone, WireAfter, ErrorExit
<1>3. \A i \in 2 .. Len(wire) : wire[i].hdr /\ (wire[i].ok => wire[i].len = wire[i].n)
  BY <1>1 DEF FramingInv, Framed
<1>4. /\ Len(wire') = Len(wire) - 1
      /\ \A i \in 1 .. Len(wire') : i + 1 \in 2 .. Len(wire) /\ wire'[i] = wire[i + 1]
  BY <1>1, <1>2
<1>5. \A i \in 1 .. Len(wire') : wire'[i].hdr /\ (wire'[i].ok => wire'[i].len = wire'[i].n)
  BY <1>3, <1>4
<1>6. wire' # <<>> => 1 \in 1 .. Len(wire') /\ Head(wire') = wire'[1]
  BY <1>1, <1>2
<1>7. \A i \in 2 .. Len(wire') : i \in 1 .. Len(wire')
  OBVIOUS
<1>. QED  BY <1>2, <1>5, <1>6, <1>7 DEF Framed

LEMMA FramedHeadDone ==
  ASSUME FramingInv, NEW seen, NEW accepts, HeadDone(seen, accepts)
  PROVE  Framed'
<1>. SUFFICES ASSUME connected' PROVE Framed'
  BY DEF Framed
<1>1. pc = "head" /\ BodyGetDone(0) /\ pc' \in {"send", "end"}
  BY DEF HeadDone
<1>2. connected /\ wire' = WireAfter(0) /\ header_received' = FALSE
  BY <1>1 DEF BodyGetDone, ErrorExit
<1>3. wire \in Seq(Responses) /\ Len(wire) = 1 /\ Head(wire).n = 0
  BY <1>1, <1>2 DEF FramingInv, TypeInv, TypeOK, WebTypeOK, Framed
<1>4. wire' = Tail(wire)
  BY <1>2, <1>3 DEF WireAfter
<1>5. wire' = <<>>
  BY <1>3, <1>4
<1>6. Len(wire') = 0 /\ \A i \in 1 .. 0 : FALSE
  BY <1>5
<1>. QED  BY <1>1, <1>2, <1>5, <1>6 DEF Framed

(* A request appends at most one response, whole. *)
LEMMA FramedSends ==
  ASSUME FramingInv, SendHead \/ SendRange
  PROVE  Framed'
<1>1. CASE SendHead
  <2>. SUFFICES ASSUME connected' PROVE Framed'
    BY DEF Framed
  <2>1. CASE pc' = "end"
    <3>1. RequestFails /\ pc = "sendHead"
      BY <1>1, <2>1 DEF SendHead
    <3>2. connected /\ wire' = wire /\ header_received' = header_received
      BY <3>1 DEF RequestFails, RequestSendFails, ErrorExit, webVars
    <3>3. wire = <<>> /\ ~header_received
      BY <3>1, <3>2 DEF FramingInv, Framed
    <3>. QED  BY <2>1, <3>2, <3>3 DEF Framed
  <2>2. CASE pc' = "head"
    <3>1. PICK r \in HeadResponses : RequestSend("HEAD", <<r>>)
      BY <1>1, <2>2 DEF SendHead
    <3>2. wire = <<>> /\ ~header_received /\ wire' = wire \o <<r>> /\ ~header_received'
      BY <1>1, <3>1 DEF FramingInv, Framed, SendHead, RequestSend
    <3>3. r.n = 0 /\ r.hdr = TRUE
      BY DEF HeadResponses, Response
    <3>4. wire' # <<>> /\ Head(wire') = r /\ Len(wire') = 1
      BY <3>2
    <3>5. header_received' = FALSE
      BY <1>1, <3>1, <3>2 DEF RequestSend, FramingInv, TypeInv, TypeOK, WebTypeOK
    <3>6. Head(wire').hdr = ~header_received'
      BY <3>3, <3>4, <3>5
    <3>7. \A i \in 2 .. Len(wire') : FALSE
      BY <3>4
    <3>. QED  BY <2>2, <3>3, <3>4, <3>5, <3>6, <3>7 DEF Framed
  <2>. QED  BY <1>1, <2>1, <2>2 DEF SendHead
<1>2. CASE SendRange
  <2>1. PICK answer \in Answers, ka \in KeepAlives :
          RequestSend("GET", RangeAnswer(answer, ka, file_bytes_received, RangeEnd))
    BY <1>2 DEF SendRange
  <2>. DEFINE answered == RangeAnswer(answer, ka, file_bytes_received, RangeEnd)
  <2>2. /\ connected /\ wire' = wire \o answered /\ pc = "send" /\ pc' = "body"
        /\ UNCHANGED <<header_received, total_bytes, actual_bytes, connected>>
    BY <1>2, <2>1 DEF RequestSend, SendRange
  <2>3. /\ RangeEnd \in Nat /\ file_bytes_received \in 0 .. MaxSize
        /\ wire \in Seq(Responses) /\ file \in Files
    <3>1. /\ SizeMod \in Nat /\ SizeMod > 0 /\ file_bytes_received \in 0 .. MaxSize
          /\ size \in 0 .. BufSize /\ MaxSize \in Nat /\ BufSize \in Nat
      BY Constants DEF FramingInv, TypeInv, TypeOK
    <3>2. RangeEnd \in Nat
      BY <3>1 DEF RangeEnd
    <3>. QED  BY <2>2, <3>1, <3>2 DEF FramingInv, TypeInv, TypeOK, WebTypeOK
  <2>4. answered \in Seq(Responses)
    BY <2>3, ServerTypes
  <2>5. /\ Len(answered) \in {0, 1}
        /\ \A i \in 1 .. Len(answered) :
             /\ answered[i].hdr
             /\ answered[i].ok => answered[i].len = answered[i].n
    <3>1. \/ answered = <<>>
          \/ \E ok \in BOOLEAN : \E len, lo, n :
               answered = <<Response(ok, len, ka, lo, n)>> /\ (ok => len = n)
      BY Zenon DEF RangeAnswer
    <3>2. CASE answered = <<>>
      BY <3>2
    <3>3. ASSUME NEW ok \in BOOLEAN, NEW len, NEW lo, NEW n,
                 answered = <<Response(ok, len, ka, lo, n)>>, ok => len = n
          PROVE  \E r : answered = <<r>> /\ r.hdr /\ (r.ok => r.len = r.n)
      <4>. DEFINE r == Response(ok, len, ka, lo, n)
      <4>1. r.hdr = TRUE /\ r.ok = ok /\ r.len = len /\ r.n = n
        BY DEF Response
      <4>2. answered = <<r>>
        BY <3>3
      <4>. HIDE DEF r, answered
      <4>. QED  BY <3>3, <4>1, <4>2
    <3>. HIDE DEF answered
    <3>4. answered = <<>> \/ \E r : answered = <<r>> /\ r.hdr /\ (r.ok => r.len = r.n)
      BY <3>1, <3>3, Zenon
    <3>. QED  BY <3>2, <3>4
  <2>. HIDE DEF answered
  <2>6. /\ Len(wire') = Len(wire) + Len(answered)
        /\ \A i \in 1 .. Len(wire) : wire'[i] = wire[i]
        /\ \A i \in Len(wire) + 1 .. Len(wire') :
             i - Len(wire) \in 1 .. Len(answered) /\ wire'[i] = answered[i - Len(wire)]
    BY <2>2, <2>3, <2>4
  <2>7. /\ wire' # <<>> => 1 \in 1 .. Len(wire') /\ Head(wire') = wire'[1]
        /\ wire # <<>> => 1 \in 1 .. Len(wire) /\ Head(wire) = wire[1]
        /\ wire = <<>> => Len(wire) = 0
        /\ wire # <<>> => wire' # <<>>
    BY <2>2, <2>3, <2>4
  <2>8. /\ wire # <<>> => Head(wire).hdr = ~header_received
        /\ header_received => wire # <<>> /\ Head(wire).n = total_bytes - actual_bytes
        /\ \A i \in 2 .. Len(wire) : wire[i].hdr
        /\ \A i \in 1 .. Len(wire) : wire[i].hdr /\ wire[i].ok => wire[i].len = wire[i].n
    BY <2>2 DEF FramingInv, Framed
  <2>9. \A i \in 1 .. Len(wire') : i \in 1 .. Len(wire) \/ i \in Len(wire) + 1 .. Len(wire')
    BY <2>3, <2>4, <2>6
  <2>10. \A i \in 2 .. Len(wire') : i \in 2 .. Len(wire) \/ i \in Len(wire) + 1 .. Len(wire')
    BY <2>3, <2>4, <2>6
  <2>11. wire' # <<>> => Head(wire').hdr = ~header_received
    <3>1. CASE wire # <<>>
      BY <2>6, <2>7, <2>8, <3>1
    <3>2. CASE wire = <<>> /\ wire' # <<>>
      <4>1. 1 \in Len(wire) + 1 .. Len(wire') /\ ~header_received
        BY <2>7, <2>8, <3>2
      <4>2. Head(wire').hdr
        BY <2>5, <2>6, <2>7, <3>2, <4>1
      <4>3. Head(wire').hdr = TRUE
        <5>1. wire' \in Seq(Responses)
          BY <2>2, <2>3, <2>4
        <5>2. Head(wire') \in Responses
          BY <5>1, <3>2
        <5>. QED  BY <4>2, <5>2 DEF Responses
      <4>. QED  BY <4>1, <4>3
    <3>. QED  BY <3>1, <3>2
  <2>12. header_received => wire' # <<>> /\ Head(wire').n = total_bytes - actual_bytes
    BY <2>6, <2>7, <2>8
  <2>13. \A i \in 2 .. Len(wire') : wire'[i].hdr
    BY <2>5, <2>6, <2>8, <2>10
  <2>14. \A i \in 1 .. Len(wire') : wire'[i].hdr /\ wire'[i].ok => wire'[i].len = wire'[i].n
    BY <2>5, <2>6, <2>8, <2>9
  <2>. QED  BY <2>2, <2>11, <2>12, <2>13, <2>14 DEF Framed
<1>. QED  BY <1>1, <1>2

(* Steps after which the connection is new, gone, or as it was. *)
LEMMA FramedOtherwise ==
  ASSUME FramingInv,
         \/ \E f \in Files, resume \in BOOLEAN : Begin(f, resume) \/ BeginFails(f, resume)
         \/ HeadFails \/ SendRangeFails \/ ReceiveFails \/ End \/ Lost \/ UNCHANGED vars
  PROVE  Framed'
<1>. SUFFICES ASSUME connected' PROVE Framed'
  BY DEF Framed
<1>1. CASE \E f \in Files, resume \in BOOLEAN : Begin(f, resume)
  BY <1>1 DEF Begin, SecureConnect, Framed
<1>2. CASE HeadFails \/ ReceiveFails \/ End \/ Lost
  BY <1>2 DEF HeadFails, ReceiveFails, BodyGetFails, End, WebDelete, Lost, ConnectionLost, ErrorExit
<1>3. CASE SendRangeFails
  <2>1. UNCHANGED webVars /\ pc = "send" /\ pc' \in {"send", "end"}
    BY <1>3 DEF SendRangeFails, RequestFails, RequestSendFails, ErrorExit, AttemptFailed
  <2>. QED  BY <2>1 DEF FramingInv, Framed, webVars
<1>4. CASE \E f \in Files, resume \in BOOLEAN : BeginFails(f, resume)
  BY <1>4 DEF BeginFails, FramingInv, Framed, webVars
<1>5. CASE UNCHANGED vars
  BY <1>5 DEF FramingInv, Framed, vars, webVars, dlVars
<1>. QED  BY <1>1, <1>2, <1>3, <1>4, <1>5

THEOREM FramingStep == FramingInv /\ [Next]_vars => FramingInv'
<1>. SUFFICES ASSUME FramingInv, [Next]_vars PROVE Framed'
  BY TypeStep DEF FramingInv
<1>1. CASE SendHead \/ SendRange
  BY <1>1, FramedSends
<1>2. CASE \E k \in 0 .. MaxSize : ReceiveMore(k)
  BY <1>2, FramedReceiveMore DEF ReceiveMore
<1>3. CASE \E k \in 0 .. MaxSize, accepts \in BOOLEAN : ReceiveLast(k, accepts)
  BY <1>3, FramedReceiveLast DEF ReceiveLast, DataEvent
<1>4. CASE \E accepts \in BOOLEAN : ReceiveEmpty(accepts)
  BY <1>4, FramedReceiveMore DEF ReceiveEmpty, DataEvent
<1>5. CASE \E seen \in HeadLengths, accepts \in BOOLEAN : HeadDone(seen, accepts)
  BY <1>5, FramedHeadDone
<1>. QED  BY <1>1, <1>2, <1>3, <1>4, <1>5, FramedOtherwise
          DEF Next, Download, HeadReceive, Receive

(* The web client never takes body bytes for a header nor a header for     *)
(* body bytes, however a server splits or pipelines its answers, also when *)
(* a range is asked for before the answer before it has come in.           *)
THEOREM NeverOutOfStep == Spec => []FramingInSync
<1>1. Init => FramingInv
  BY TypeInit DEF FramingInv, Framed, Init, WebFresh
<1>2. FramingInv => FramingInSync
  BY DEF FramingInv, Framed, FramingInSync
<1>. QED  BY FramingStep, <1>1, <1>2, PTL DEF Spec
=============================================================================
