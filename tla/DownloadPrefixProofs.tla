------------------------ MODULE DownloadPrefixProofs ------------------------
(***************************************************************************)
(* That the download client delivers a true prefix of the file, and the    *)
(* whole file when it reports success.  It does so for a caller that asks  *)
(* for one file only, and under what Cooperative asks of the server: the   *)
(* README tells what each of these conditions excludes.  From the same     *)
(* invariant: the client implements FileTransfer.                          *)
(***************************************************************************)
EXTENDS DownloadProofs, SequenceTheorems

(* No response header in a record of its own, no answer to a range request *)
(* that is another range than was asked for, a size header that is seen.   *)
Cooperative ==
  /\ HeaderAlone = FALSE
  /\ Answers \subseteq {"range", "error", "silent"}
  /\ HeadLengths \subseteq {"exact"}

OneFileOnly == \A f, g \in Files : f = g

-----------------------------------------------------------------------------
(* The inductive invariant: the received prefix, the part of the chunk     *)
(* that is in the buffer, and the part of it that is still on the wire,    *)
(* follow one another without a gap.                                       *)

Received ==
  /\ \A o \in Offsets : o < file_bytes_received => image[o] = Byte(file, o)
  /\ file_bytes_received > 0 => file \in Files

ChunkKnown ==
  pc \in {"send", "body"} =>
    /\ file_size = SizeOf[file]
    /\ size = 0 => file_bytes_received = file_size

Buffered ==
  pc = "body" =>
    \A i \in 0 .. BufSize - 1 :
      i < data_length => buffer[i] = Byte(file, file_bytes_received + i)

(* A response that carries on where the buffer ends. *)
CarriesOn(r) ==
  /\ r.file = file
  /\ r.lo = file_bytes_received + data_length
  /\ r.n = size - data_length
  /\ r.len = size
  /\ IF r.hdr THEN data_length = 0 ELSE total_bytes = size /\ actual_bytes = data_length

OnTheWire ==
  connected =>
    /\ pc \in {"sendHead", "send"} => wire = <<>> /\ ~header_received
    /\ pc = "head" => Len(wire) = 1 /\ Head(wire).n = 0
    /\ pc = "body" /\ wire # <<>> =>
         /\ Len(wire) = 1
         /\ Head(wire).hdr \/ Head(wire).ok
         /\ Head(wire).ok => CarriesOn(Head(wire))

Whole ==
  pc \in {"idle", "end"} /\ status = "success" =>
    file \in Files /\ file_bytes_received = SizeOf[file]

PrefixInv ==
  TypeInv /\ Received /\ ChunkKnown /\ Buffered /\ OnTheWire /\ Whole

-----------------------------------------------------------------------------
(* Helper facts. *)

(* A chunk of size 0 is asked for only when nothing is missing. *)
LEMMA EmptyChunk ==
  ASSUME NEW received \in 0 .. MaxSize, NEW total \in 0 .. MaxSize, received <= total,
         NextSize(received, total) = 0
  PROVE  received = total
<1>. /\ MaxSize \in Nat /\ BufSize \in Nat /\ BufSize > 0
     /\ SizeMod \in Nat /\ SizeMod > MaxSize + BufSize
  BY Constants
<1>1. (total - received) % SizeMod = total - received
  BY NoWrap
<1>. QED  BY <1>1 DEF NextSize

(* When the last response has been taken in, nothing is left on the wire. *)
LEMMA WireEmptied ==
  ASSUME wire \in Seq(Responses), Len(wire) = 1
  PROVE  /\ wire = <<Head(wire)>> /\ Tail(wire) = <<>> /\ wire # <<>>
         /\ \A s \in Responses : <<s>> \o Tail(wire) = <<s>>
<1>1. wire # <<>> /\ Tail(wire) \in Seq(Responses) /\ Len(Tail(wire)) = 0
  OBVIOUS
<1>2. Tail(wire) = <<>>
  BY <1>1, EmptySeq
<1>3. wire = <<Head(wire)>>
  OBVIOUS
<1>4. ASSUME NEW s \in Responses PROVE <<s>> \o <<>> = <<s>>
  OBVIOUS
<1>. QED  BY <1>1, <1>2, <1>3, <1>4

THEOREM PrefixInit == Init => PrefixInv
<1>. SUFFICES ASSUME Init PROVE PrefixInv
  OBVIOUS
<1>1. TypeInv
  BY TypeInit
<1>2. Received /\ ChunkKnown /\ Buffered
  BY DEF Init, Received, ChunkKnown, Buffered, Offsets
<1>3. OnTheWire /\ Whole
  BY DEF Init, WebFresh, OnTheWire, Whole
<1>. QED  BY <1>1, <1>2, <1>3 DEF PrefixInv

LEMMA PrefixBegin ==
  ASSUME PrefixInv, OneFileOnly, NEW f \in Files, NEW resume \in BOOLEAN,
         Begin(f, resume) \/ BeginFails(f, resume)
  PROVE  Received' /\ ChunkKnown' /\ Buffered' /\ OnTheWire' /\ Whole'
<1>1. UNCHANGED <<file_bytes_received, image>> /\ file' = f
  BY DEF Begin, BeginFails
<1>2. Received'
  <2>1. CASE file_bytes_received > 0
    <3>. file = f
      BY <2>1 DEF PrefixInv, Received, OneFileOnly
    <3>. QED  BY <1>1 DEF PrefixInv, Received
  <2>2. CASE ~(file_bytes_received > 0)
    <3>. file_bytes_received \in Nat
      BY Constants DEF PrefixInv, TypeInv, TypeOK
    <3>. QED  BY <1>1, <2>2 DEF Received, Offsets
  <2>. QED  BY <2>1, <2>2
<1>3. CASE Begin(f, resume)
  BY <1>2, <1>3 DEF Begin, SecureConnect, ChunkKnown, Buffered, OnTheWire, Whole
<1>4. CASE BeginFails(f, resume)
  BY <1>2, <1>4 DEF BeginFails, ChunkKnown, Buffered, OnTheWire, Whole
<1>. QED  BY <1>3, <1>4

LEMMA PrefixSendHead ==
  ASSUME PrefixInv, SendHead
  PROVE  Received' /\ ChunkKnown' /\ Buffered' /\ OnTheWire' /\ Whole'
<1>1. Received'
  BY DEF PrefixInv, Received, SendHead
<1>2. CASE pc' = "end" /\ status' = "failed"
  BY <1>1, <1>2 DEF ChunkKnown, Buffered, OnTheWire, Whole
<1>3. CASE pc' = "head" /\ \E r \in HeadResponses : RequestSend("HEAD", <<r>>)
  <2>1. PICK r \in HeadResponses : RequestSend("HEAD", <<r>>)
    BY <1>3
  <2>2. wire' = <<r>>
    BY <2>1 DEF RequestSend, PrefixInv, OnTheWire, SendHead
  <2>3. r.n = 0
    BY DEF HeadResponses, Response
  <2>4. OnTheWire'
    BY <1>3, <2>2, <2>3 DEF OnTheWire
  <2>. QED  BY <1>1, <1>3, <2>4 DEF ChunkKnown, Buffered, Whole
<1>. QED  BY <1>2, <1>3 DEF SendHead

LEMMA PrefixHeadDone ==
  ASSUME PrefixInv, Cooperative, TypeInv', NEW seen \in HeadLengths, NEW accepts \in BOOLEAN,
         HeadDone(seen, accepts)
  PROVE  Received' /\ ChunkKnown' /\ Buffered' /\ OnTheWire' /\ Whole'
<1>1. /\ BodyGetDone(0) /\ pc = "head" /\ file' = file /\ pc' \in {"send", "end"}
      /\ pc' = "end" => status' # "success"
  BY DEF HeadDone
<1>2. file_size' = SizeOf[file] /\ SizeOf[file] \in 0 .. MaxSize
  BY Constants DEF Cooperative, HeadDone, SizeSeen, PrefixInv, TypeInv
<1>3. Received'
  <2>1. CASE image' = image /\ file_bytes_received' = file_bytes_received
    BY <1>1, <2>1 DEF PrefixInv, Received
  <2>2. CASE file_bytes_received' = 0
    BY <2>2 DEF Received, Offsets
  <2>. QED  BY <2>1, <2>2 DEF HeadDone, StartAt
<1>4. ChunkKnown'
  <2>. SUFFICES ASSUME pc' = "send"
                PROVE  size' = 0 => file_bytes_received' = file_size'
    BY <1>1, <1>2 DEF ChunkKnown
  <2>1. size' = NextSize(file_bytes_received', file_size')
    BY DEF HeadDone
  <2>2. file_bytes_received' \in 0 .. MaxSize /\ size' \in 0 .. BufSize
        /\ file_bytes_received' + size' <= file_size'
    BY DEF TypeInv, TypeOK, ChunkInFile
  <2>3. file_bytes_received' <= file_size'
    BY <1>2, <2>2, Constants
  <2>. QED  BY <1>2, <2>1, <2>2, <2>3, EmptyChunk
<1>5. OnTheWire'
  <2>. SUFFICES ASSUME connected'
                PROVE  wire' = <<>> /\ ~header_received'
    BY <1>1 DEF OnTheWire
  <2>1. connected /\ wire' = WireAfter(0) /\ header_received' = FALSE
    BY <1>1 DEF BodyGetDone, ErrorExit
  <2>2. wire \in Seq(Responses) /\ Len(wire) = 1 /\ Head(wire).n = 0
    BY <1>1, <2>1 DEF PrefixInv, TypeInv, TypeOK, WebTypeOK, OnTheWire
  <2>. QED  BY <2>1, <2>2, WireEmptied DEF WireAfter
<1>. QED  BY <1>1, <1>3, <1>4, <1>5 DEF Buffered, Whole

LEMMA PrefixSendRange ==
  ASSUME PrefixInv, Cooperative, SendRange
  PROVE  Received' /\ ChunkKnown' /\ Buffered' /\ OnTheWire' /\ Whole'
<1>1. /\ pc = "send" /\ pc' = "body" /\ data_length' = 0
      /\ UNCHANGED <<file, file_size, file_bytes_received, size, image>>
  BY DEF SendRange
<1>2. PICK answer \in Answers, ka \in KeepAlives :
        RequestSend("GET", RangeAnswer(answer, ka, file_bytes_received, RangeEnd))
  BY DEF SendRange
<1>. DEFINE answered == RangeAnswer(answer, ka, file_bytes_received, RangeEnd)
            len == Min2(RangeEnd, SizeOf[file] - 1) - file_bytes_received + 1
<1>4. /\ file_bytes_received \in 0 .. MaxSize /\ size \in 0 .. BufSize
      /\ SizeOf[file] \in 0 .. MaxSize /\ file_bytes_received + size <= SizeOf[file]
      /\ size = 0 => file_bytes_received = SizeOf[file]
      /\ MaxSize \in Nat /\ BufSize \in Nat /\ SizeMod \in Nat /\ SizeMod > MaxSize + BufSize
  BY <1>1, Constants DEF PrefixInv, TypeInv, TypeOK, ChunkInFile, ChunkKnown
<1>3. wire' = answered /\ ~header_received'
  <2>1. RangeEnd \in Nat /\ file \in Files
    BY <1>1, <1>4 DEF RangeEnd, PrefixInv, TypeInv
  <2>2. answered \in Seq(Responses)
    BY <1>4, <2>1, ServerTypes
  <2>3. wire = <<>> /\ ~header_received
    BY <1>1, <1>2 DEF RequestSend, PrefixInv, OnTheWire
  <2>4. wire' = wire \o answered /\ header_received' = header_received
    BY <1>2 DEF RequestSend
  <2>. HIDE DEF answered
  <2>. QED  BY <2>2, <2>3, <2>4
<1>5. len > 0 => len = size
  <2>1. CASE size > 0
    <3>1. RangeEnd = file_bytes_received + size - 1
      BY <1>4, <2>1, NoWrap DEF RangeEnd
    <3>2. Min2(RangeEnd, SizeOf[file] - 1) = file_bytes_received + size - 1
      BY <1>4, <2>1, <3>1 DEF Min2
    <3>. QED  BY <1>4, <3>2
  <2>2. CASE size = 0
    <3>1. RangeEnd \in Nat
      BY <1>4 DEF RangeEnd
    <3>. QED  BY <1>4, <2>2, <3>1 DEF Min2
  <2>. QED  BY <1>4, <2>1, <2>2
<1>6. \/ answered = <<>>
      \/ len > 0 /\ answered = <<Response(TRUE, len, ka, file_bytes_received, len)>>
      \/ answered = <<Response(FALSE, 0, ka, 0, 0)>>
  <2>. answer \in {"range", "error", "silent"}
    BY DEF Cooperative
  <2>1. answer # "full"
    OBVIOUS
  <2>. QED  BY <2>1, Zenon DEF RangeAnswer
<1>. HIDE DEF answered, len
<1>7. OnTheWire'
  <2>1. CASE answered = <<>>
    BY <1>1, <1>3, <2>1 DEF OnTheWire
  <2>2. CASE len > 0 /\ answered = <<Response(TRUE, len, ka, file_bytes_received, len)>>
    <3>. DEFINE r == Response(TRUE, len, ka, file_bytes_received, len)
    <3>1. /\ r.hdr = TRUE /\ r.ok = TRUE /\ r.file = file /\ r.lo = file_bytes_received
          /\ r.n = size /\ r.len = size
      BY <1>5, <2>2 DEF Response
    <3>2. wire' = <<r>>
      BY <1>3, <2>2
    <3>. HIDE DEF r
    <3>3. Head(wire') = r /\ Len(wire') = 1
      BY <3>2
    <3>. QED  BY <1>1, <1>4, <3>1, <3>3 DEF OnTheWire, CarriesOn
  <2>3. CASE answered = <<Response(FALSE, 0, ka, 0, 0)>>
    <3>. DEFINE r == Response(FALSE, 0, ka, 0, 0)
    <3>1. r.hdr = TRUE /\ r.ok = FALSE
      BY DEF Response
    <3>2. wire' = <<r>>
      BY <1>3, <2>3
    <3>. HIDE DEF r
    <3>3. Head(wire') = r /\ Len(wire') = 1
      BY <3>2
    <3>. QED  BY <1>1, <3>1, <3>3 DEF OnTheWire
  <2>. QED  BY <1>6, <2>1, <2>2, <2>3
<1>. QED  BY <1>1, <1>7 DEF PrefixInv, Received, ChunkKnown, Buffered, Whole

(* What the client has when it takes in k more bytes of the chunk. *)
LEMMA ReceivedRecord ==
  ASSUME PrefixInv, pc = "body", NEW k \in Nat, BodyGetMore(k) \/ BodyGetDone(k)
  PROVE  /\ wire # <<>> /\ connected /\ k \in RecordSizes /\ k \in 0 .. Head(wire).n
         /\ Len(wire) = 1 /\ Head(wire).ok /\ CarriesOn(Head(wire))
         /\ Head(wire).n = size - data_length /\ size <= BufSize
         /\ TotalWith(Record(k)) = size
         /\ ActualWith(Record(k)) = data_length + k
         /\ Copied(k) = k
<1>1. connected /\ wire # <<>> /\ k \in RecordSizes /\ Accepted(Record(k))
  BY DEF BodyGetMore, BodyGetDone
<1>2. /\ Head(wire).hdr \in BOOLEAN /\ Head(wire).ok \in BOOLEAN
      /\ k \in 0 .. Head(wire).n /\ Head(wire).n \in 0 .. MaxSize
  BY <1>1, HeadOfWire DEF PrefixInv, TypeInv, TypeOK, WebTypeOK, Responses
<1>3. /\ Record(k).hdr = Head(wire).hdr /\ Record(k).ok = Head(wire).ok
      /\ Record(k).len = Head(wire).len /\ Record(k).n = k
  BY <1>1, HeadOfWire DEF PrefixInv, TypeInv, TypeOK, WebTypeOK, Responses, Record
<1>4. Len(wire) = 1 /\ (Head(wire).hdr \/ Head(wire).ok)
      /\ (Head(wire).ok => CarriesOn(Head(wire)))
  BY <1>1 DEF PrefixInv, OnTheWire
<1>5. Head(wire).ok
  BY <1>1, <1>3, <1>4 DEF Accepted
<1>6. CarriesOn(Head(wire))
  BY <1>4, <1>5
<1>7. /\ size \in 0 .. BufSize /\ data_length \in 0 .. BufSize /\ web_state # "HEAD"
      /\ BufSize \in Nat /\ MaxSize \in Nat
  BY Constants DEF PrefixInv, TypeInv, TypeOK
<1>8. TotalWith(Record(k)) = size /\ ActualWith(Record(k)) = data_length + k
  <2>1. CASE Head(wire).hdr
    BY <1>2, <1>3, <1>6, <1>7, <2>1 DEF TotalWith, ActualWith, CarriesOn
  <2>2. CASE ~Head(wire).hdr
    BY <1>2, <1>3, <1>6, <1>7, <2>2 DEF TotalWith, ActualWith, CarriesOn
  <2>. QED  BY <2>1, <2>2
<1>9. Head(wire).n = size - data_length
  BY <1>6 DEF CarriesOn
<1>10. Copied(k) = k
  BY <1>2, <1>7, <1>9 DEF Copied, Room, Min2
<1>. QED  BY <1>1, <1>2, <1>4, <1>5, <1>6, <1>7, <1>8, <1>9, <1>10

(* They go behind what is in the buffer and continue it. *)
LEMMA BufferContinues ==
  ASSUME PrefixInv, pc = "body", NEW k \in Nat, BodyGetMore(k) \/ BodyGetDone(k),
         NEW i \in 0 .. BufSize - 1, i < data_length + k
  PROVE  Extract(k)[i] = Byte(file, file_bytes_received + i)
<1>1. /\ Copied(k) = k /\ Head(wire).file = file
      /\ Head(wire).lo = file_bytes_received + data_length
  BY ReceivedRecord DEF CarriesOn
<1>2. data_length \in Nat /\ file_bytes_received \in Nat /\ BufSize \in Nat
  BY Constants DEF PrefixInv, TypeInv, TypeOK
<1>3. CASE i < data_length
  BY <1>2, <1>3 DEF PrefixInv, Buffered, Extract
<1>4. CASE ~(i < data_length)
  <2>1. Extract(k)[i] = Byte(file, (file_bytes_received + data_length) + (i - data_length))
    BY <1>1, <1>2, <1>4 DEF Extract
  <2>2. (file_bytes_received + data_length) + (i - data_length) = file_bytes_received + i
    BY <1>2
  <2>. QED  BY <2>1, <2>2
<1>. QED  BY <1>3, <1>4

LEMMA PrefixReceiveMore ==
  ASSUME PrefixInv, NEW k \in Nat, ReceiveMore(k)
  PROVE  Received' /\ ChunkKnown' /\ Buffered' /\ OnTheWire' /\ Whole'
<1>1. /\ pc = "body" /\ BodyGetMore(k) /\ buffer' = Extract(k)
      /\ data_length' = data_length + Copied(k)
      /\ UNCHANGED <<pc, file, do_resume, file_size, file_bytes_received, size, image>>
  BY DEF ReceiveMore
<1>2. /\ wire # <<>> /\ Len(wire) = 1 /\ k \in 0 .. Head(wire).n
      /\ CarriesOn(Head(wire)) /\ Copied(k) = k /\ Head(wire).ok
      /\ TotalWith(Record(k)) = size /\ ActualWith(Record(k)) = data_length + k
      /\ Head(wire).n = size - data_length
  BY <1>1, ReceivedRecord
<1>3. wire \in Seq(Responses) /\ Head(wire) \in Responses
  BY <1>2, HeadOfWire DEF PrefixInv, TypeInv, TypeOK, WebTypeOK
<1>4. /\ size \in Nat /\ data_length \in Nat /\ file_bytes_received \in Nat
      /\ Head(wire).n \in Nat /\ Head(wire).lo \in Nat
  BY <1>3, Constants DEF PrefixInv, TypeInv, TypeOK, Responses
<1>5. k # Head(wire).n
  BY <1>1, <1>2, <1>4 DEF BodyGetMore
<1>6. /\ Rest(k).hdr = FALSE /\ Rest(k).ok = Head(wire).ok /\ Rest(k).file = Head(wire).file
      /\ Rest(k).len = Head(wire).len /\ Rest(k).lo = Head(wire).lo + k
      /\ Rest(k).n = Head(wire).n - k
  BY DEF Rest
<1>7. wire' = <<Rest(k)>>
  <2>1. Tail(wire) = <<>>
    BY <1>2, <1>3, WireEmptied
  <2>2. wire' = <<Rest(k)>> \o <<>>
    BY <1>1, <1>5, <2>1 DEF BodyGetMore, WireAfter
  <2>. QED  BY <2>2
<1>8. Head(wire') = Rest(k) /\ Len(wire') = 1
  BY <1>7
<1>9. total_bytes' = size /\ actual_bytes' = data_length' /\ data_length' = data_length + k
  BY <1>1, <1>2 DEF BodyGetMore
<1>10. /\ Head(wire').file = file' /\ Head(wire').len = size'
       /\ Head(wire').lo = file_bytes_received' + data_length'
       /\ Head(wire').n = size' - data_length' /\ Head(wire').hdr = FALSE
       /\ Head(wire').ok = Head(wire).ok
  <2>1. /\ Head(wire).file = file /\ Head(wire).len = size
        /\ Head(wire).lo = file_bytes_received + data_length
    BY <1>2 DEF CarriesOn
  <2>2. /\ Rest(k).lo = file_bytes_received + (data_length + k)
        /\ Rest(k).n = size - (data_length + k)
    BY <1>2, <1>4, <1>6, <2>1
  <2>3. /\ Head(wire').file = file /\ Head(wire').len = size /\ Head(wire').hdr = FALSE
        /\ Head(wire').ok = Head(wire).ok
    BY <1>6, <1>8, <2>1
  <2>. QED  BY <1>1, <1>8, <1>9, <2>2, <2>3
<1>11. OnTheWire'
  BY <1>1, <1>2, <1>8, <1>9, <1>10 DEF OnTheWire, CarriesOn
<1>12. Buffered'
  <2>. SUFFICES ASSUME NEW i \in 0 .. BufSize - 1, i < data_length + k
                PROVE  buffer'[i] = Byte(file, file_bytes_received + i)
    BY <1>1, <1>9 DEF Buffered
  <2>. QED  BY <1>1, BufferContinues
<1>. QED  BY <1>1, <1>11, <1>12 DEF PrefixInv, Received, ChunkKnown, Whole

(* The chunk handed over is complete: the buffer holds the `size` bytes of *)
(* the file that follow what was received.                                 *)
LEMMA PrefixDataEvent ==
  ASSUME PrefixInv, pc = "body", NEW accepts \in BOOLEAN, DataEvent(accepts),
         UNCHANGED <<file, file_size>>, TypeInv',
         \A i \in 0 .. BufSize - 1 : i < size => buffer'[i] = Byte(file, file_bytes_received + i)
  PROVE  Received' /\ ChunkKnown' /\ Whole' /\ pc' \in {"send", "end"}
<1>1. /\ MaxSize \in Nat /\ BufSize \in Nat /\ size \in 0 .. BufSize
      /\ file_bytes_received \in 0 .. MaxSize /\ file_size \in 0 .. MaxSize
      /\ file_bytes_received + size <= file_size /\ file_size = SizeOf[file]
      /\ SizeMod \in Nat /\ SizeMod > MaxSize + BufSize /\ file \in Files
  BY Constants DEF PrefixInv, TypeInv, TypeOK, ChunkInFile, ChunkKnown
<1>2. ASSUME NEW o \in Offsets, o < file_bytes_received + size
      PROVE  image'[o] = Byte(file, o)
  <2>. o \in Nat
    BY <1>1 DEF Offsets
  <2>1. CASE o < file_bytes_received
    BY <1>1, <2>1 DEF DataEvent, PrefixInv, Received
  <2>2. CASE ~(o < file_bytes_received)
    <3>1. image'[o] = buffer'[o - file_bytes_received]
      BY <1>1, <1>2, <2>2 DEF DataEvent
    <3>2. /\ o - file_bytes_received \in 0 .. BufSize - 1 /\ o - file_bytes_received < size
          /\ file_bytes_received + (o - file_bytes_received) = o
      BY <1>1, <1>2, <2>2
    <3>. QED  BY <3>1, <3>2
  <2>. QED  BY <2>1, <2>2
<1>3. (file_bytes_received + size) % SizeMod = file_bytes_received + size
  BY <1>1, NoWrap
<1>4. CASE ~accepts
  <2>1. /\ file_bytes_received' = file_bytes_received /\ pc' = "end" /\ status' = "aborted"
    BY <1>4 DEF DataEvent
  <2>2. Received'
    BY <1>1, <1>2, <2>1 DEF Received, Offsets
  <2>. QED  BY <2>1, <2>2 DEF ChunkKnown, Whole
<1>5. CASE accepts
  <2>1. file_bytes_received' = file_bytes_received + size
    BY <1>3, <1>5 DEF DataEvent
  <2>2. Received'
    BY <1>1, <1>2, <2>1 DEF Received
  <2>3. CASE file_bytes_received' < file_size
    <3>1. /\ pc' = "send" /\ size' = NextSize(file_bytes_received', file_size)
      BY <1>5, <2>3 DEF DataEvent
    <3>2. size' # 0
      BY <1>1, <2>1, <2>3, <3>1, EmptyChunk
    <3>. QED  BY <1>1, <2>2, <3>1, <3>2 DEF ChunkKnown, Whole
  <2>4. CASE ~(file_bytes_received' < file_size)
    <3>1. pc' = "end" /\ file_bytes_received' = file_size
      BY <1>1, <1>5, <2>1, <2>4 DEF DataEvent
    <3>. QED  BY <1>1, <2>2, <3>1 DEF ChunkKnown, Whole
  <2>. QED  BY <2>3, <2>4
<1>. QED  BY <1>4, <1>5

LEMMA PrefixReceiveLast ==
  ASSUME PrefixInv, TypeInv', NEW k \in Nat, NEW accepts \in BOOLEAN, ReceiveLast(k, accepts)
  PROVE  Received' /\ ChunkKnown' /\ Buffered' /\ OnTheWire' /\ Whole'
<1>1. /\ pc = "body" /\ BodyGetDone(k) /\ buffer' = Extract(k) /\ DataEvent(accepts)
      /\ UNCHANGED <<file, file_size>>
  BY DEF ReceiveLast
<1>2. /\ wire # <<>> /\ Len(wire) = 1 /\ k \in 0 .. Head(wire).n
      /\ TotalWith(Record(k)) = size /\ ActualWith(Record(k)) = data_length + k
      /\ Head(wire).n = size - data_length /\ size \in Nat /\ data_length \in Nat
  BY <1>1, ReceivedRecord, Constants DEF PrefixInv, TypeInv, TypeOK
<1>3. data_length + k = size /\ k = Head(wire).n
  <2>1. TotalWith(Record(k)) = ActualWith(Record(k))
    BY <1>1, Zenon DEF BodyGetDone
  <2>. QED  BY <1>2, <2>1
<1>4. \A i \in 0 .. BufSize - 1 : i < size => buffer'[i] = Byte(file, file_bytes_received + i)
  BY <1>1, <1>3, BufferContinues
<1>5. Received' /\ ChunkKnown' /\ Whole' /\ pc' \in {"send", "end"}
  BY <1>1, <1>4, PrefixDataEvent
<1>6. connected' => wire' = <<>> /\ ~header_received'
  <2>1. Tail(wire) = <<>>
    BY <1>2, WireEmptied DEF PrefixInv, TypeInv, TypeOK, WebTypeOK
  <2>. QED  BY <1>1, <1>3, <2>1 DEF BodyGetDone, ErrorExit, WireAfter
<1>. QED  BY <1>5, <1>6 DEF Buffered, OnTheWire

(* An empty record that ends get_response early does not come. *)
LEMMA NoEmptyRecord ==
  ASSUME PrefixInv, Cooperative, NEW accepts \in BOOLEAN, ReceiveEmpty(accepts)
  PROVE  FALSE
<1>1. pc = "body" /\ BodyGetMore(0)
  BY DEF ReceiveEmpty
<1>2. /\ 0 \in RecordSizes /\ CarriesOn(Head(wire))
      /\ TotalWith(Record(0)) = size /\ ActualWith(Record(0)) = data_length + 0
      /\ Head(wire).n = size - data_length
  BY <1>1, ReceivedRecord
<1>3. Head(wire).hdr /\ Head(wire).n = 0
  BY <1>2 DEF RecordSizes, Cooperative
<1>4. data_length = 0 /\ size \in Nat
  BY <1>2, <1>3, Constants DEF CarriesOn, PrefixInv, TypeInv, TypeOK
<1>. QED  BY <1>1, <1>2, <1>3, <1>4 DEF BodyGetMore

(* A failure leaves what was received as it is, and no connection, or one  *)
(* on which nothing is outstanding.                                        *)
LEMMA PrefixFailures ==
  ASSUME PrefixInv, HeadFails \/ SendRangeFails \/ ReceiveFails \/ End
  PROVE  Received' /\ ChunkKnown' /\ Buffered' /\ OnTheWire' /\ Whole'
<1>1. UNCHANGED <<file, file_size, file_bytes_received, size, image>>
  BY DEF HeadFails, SendRangeFails, ReceiveFails, End
<1>2. Received'
  BY <1>1 DEF PrefixInv, Received
<1>3. CASE HeadFails
  BY <1>2, <1>3 DEF HeadFails, BodyGetFails, ErrorExit, ChunkKnown, Buffered, OnTheWire, Whole
<1>4. CASE SendRangeFails
  <2>1. pc = "send" /\ pc' \in {"send", "end"} /\ (pc' = "end" => status' = "failed")
    BY <1>4 DEF SendRangeFails, AttemptFailed
  <2>2. connected' => connected /\ wire' = wire /\ header_received' = header_received
    BY <1>4, Zenon DEF SendRangeFails, RequestFails, RequestSendFails, ErrorExit, webVars
  <2>3. OnTheWire'
    BY <2>1, <2>2 DEF PrefixInv, OnTheWire
  <2>. QED  BY <1>1, <1>2, <2>1, <2>3 DEF PrefixInv, ChunkKnown, Buffered, Whole
<1>5. CASE ReceiveFails
  <2>1. pc = "body" /\ pc' \in {"send", "end"} /\ (pc' = "end" => status' = "failed")
    BY <1>5 DEF ReceiveFails, AttemptFailed
  <2>2. ~connected'
    BY <1>5 DEF ReceiveFails, BodyGetFails, ErrorExit
  <2>. QED  BY <1>1, <1>2, <2>1, <2>2 DEF PrefixInv, ChunkKnown, Buffered, OnTheWire, Whole
<1>6. CASE End
  BY <1>2, <1>6 DEF PrefixInv, End, WebDelete, ChunkKnown, Buffered, OnTheWire, Whole
<1>. QED  BY <1>3, <1>4, <1>5, <1>6

LEMMA PrefixLost ==
  ASSUME PrefixInv, Lost \/ UNCHANGED vars
  PROVE  Received' /\ ChunkKnown' /\ Buffered' /\ OnTheWire' /\ Whole'
<1>1. UNCHANGED dlVars
  BY DEF Lost, vars
<1>2. Received' /\ ChunkKnown' /\ Buffered' /\ Whole'
  BY <1>1 DEF PrefixInv, Received, ChunkKnown, Buffered, Whole, dlVars
<1>3. CASE Lost
  BY <1>2, <1>3 DEF Lost, ConnectionLost, ErrorExit, OnTheWire
<1>4. CASE UNCHANGED vars
  BY <1>1, <1>2, <1>4 DEF PrefixInv, OnTheWire, CarriesOn, vars, webVars, dlVars
<1>. QED  BY <1>3, <1>4

-----------------------------------------------------------------------------
(* Every step of the client, its server and its network leaves the prefix, *)
(* the buffer and the wire in line.                                        *)
THEOREM PrefixStep ==
  ASSUME Cooperative, OneFileOnly
  PROVE  PrefixInv /\ [Next]_vars => PrefixInv'
<1>. SUFFICES ASSUME PrefixInv, [Next]_vars
              PROVE  Received' /\ ChunkKnown' /\ Buffered' /\ OnTheWire' /\ Whole'
  BY TypeStep DEF PrefixInv
<1>1. TypeInv'
  BY TypeStep DEF PrefixInv
<1>2. CASE \E f \in Files, resume \in BOOLEAN : Begin(f, resume) \/ BeginFails(f, resume)
  BY <1>2, PrefixBegin
<1>3. CASE SendHead
  BY <1>3, PrefixSendHead
<1>4. CASE HeadReceive
  BY <1>1, <1>4, PrefixHeadDone, PrefixFailures DEF HeadReceive
<1>5. CASE SendRange
  BY <1>5, PrefixSendRange
<1>6. CASE SendRangeFails \/ ReceiveFails \/ End
  BY <1>6, PrefixFailures
<1>7. ASSUME NEW k \in 0 .. MaxSize, ReceiveMore(k)
      PROVE  Received' /\ ChunkKnown' /\ Buffered' /\ OnTheWire' /\ Whole'
  BY <1>7, PrefixReceiveMore, Constants
<1>8. ASSUME NEW k \in 0 .. MaxSize, NEW accepts \in BOOLEAN, ReceiveLast(k, accepts)
      PROVE  Received' /\ ChunkKnown' /\ Buffered' /\ OnTheWire' /\ Whole'
  BY <1>1, <1>8, PrefixReceiveLast, Constants
<1>9. CASE \E accepts \in BOOLEAN : ReceiveEmpty(accepts)
  BY <1>9, NoEmptyRecord
<1>10. CASE Lost \/ UNCHANGED vars
  BY <1>10, PrefixLost
<1>. QED  BY <1>2, <1>3, <1>4, <1>5, <1>6, <1>7, <1>8, <1>9, <1>10
          DEF Next, Download, Receive

(* What the client counts as received is a true prefix of the file.        *)
THEOREM PrefixCorrect ==
  ASSUME Cooperative, OneFileOnly
  PROVE  Spec => []PrefixIntact
<1>1. PrefixInv => PrefixIntact
  BY DEF PrefixInv, Received, PrefixIntact
<1>2. PrefixInv /\ [Next]_vars => PrefixInv'
  BY PrefixStep
<1>. QED  BY PrefixInit, <1>1, <1>2, PTL DEF Spec

(* A download that reports success has delivered the whole file.           *)
THEOREM SuccessCorrect ==
  ASSUME Cooperative, OneFileOnly
  PROVE  Spec => []SuccessIsWholeFile
<1>1. PrefixInv => SuccessIsWholeFile
  <2>. SUFFICES ASSUME PrefixInv, pc \in {"idle", "end"}, status = "success",
                       NEW o \in 0 .. SizeOf[file] - 1
                PROVE  image[o] = Byte(file, o)
    BY DEF SuccessIsWholeFile
  <2>1. file \in Files /\ file_bytes_received = SizeOf[file]
    BY DEF PrefixInv, Whole
  <2>2. SizeOf[file] \in 0 .. MaxSize /\ MaxSize \in Nat
    BY <2>1, Constants
  <2>. QED  BY <2>1, <2>2 DEF PrefixInv, Received, Offsets
<1>2. PrefixInv /\ [Next]_vars => PrefixInv'
  BY PrefixStep
<1>. QED  BY PrefixInit, <1>1, <1>2, PTL DEF Spec

(* When a range is asked for, nothing of an earlier answer is outstanding. *)
THEOREM NothingLeftOver ==
  ASSUME Cooperative, OneFileOnly
  PROVE  Spec => []NoLeftover
<1>1. PrefixInv => NoLeftover
  BY DEF PrefixInv, OnTheWire, NoLeftover
<1>2. PrefixInv /\ [Next]_vars => PrefixInv'
  BY PrefixStep
<1>. QED  BY PrefixInit, <1>1, <1>2, PTL DEF Spec

-----------------------------------------------------------------------------
(* The refinement.  Begin is a Start, the HEAD response of a download that *)
(* is not resumed a Restart, a chunk handed over and accepted a Deliver,   *)
(* End a Succeed or a Fail; all other steps are not seen by the caller.    *)

(* A call that comes to its end has a status to return. *)
EndHasStatus == pc = "end" => status # "none"

TransferInv == PrefixInv /\ EndHasStatus

(* A file up to position a, and its next n bytes, is the file up to a + n. *)
LEMMA NextBytes ==
  ASSUME NEW f \in Files, NEW a \in Nat, NEW n \in Nat, a + n <= SizeOf[f]
  PROVE  [i \in 1 .. a + n |-> Byte(f, i - 1)]
           = [i \in 1 .. a |-> Byte(f, i - 1)] \o SubSeq(Contents[f], a + 1, a + n)
<1>. DEFINE whole == [i \in 1 .. SizeOf[f] |-> Byte(f, i - 1)]
            all == [i \in 1 .. a + n |-> Byte(f, i - 1)]
            first == [i \in 1 .. a |-> Byte(f, i - 1)]
            next == SubSeq(whole, a + 1, a + n)
            B == [file : {f}, pos : Nat]
<1>1. SizeOf[f] \in Nat /\ Contents[f] = whole
  BY Constants DEF Contents
<1>2. \A m \in Nat : [i \in 1 .. m |-> Byte(f, i - 1)] \in Seq(B)
                     /\ Len([i \in 1 .. m |-> Byte(f, i - 1)]) = m
  <2>. SUFFICES ASSUME NEW m \in Nat
                PROVE  [i \in 1 .. m |-> Byte(f, i - 1)] \in Seq(B)
    OBVIOUS
  <2>1. \A i \in 1 .. m : Byte(f, i - 1) \in B
    BY DEF Byte
  <2>. HIDE DEF B
  <2>. QED  BY <2>1
<1>3. /\ whole \in Seq(B) /\ Len(whole) = SizeOf[f]
      /\ all \in Seq(B) /\ Len(all) = a + n /\ first \in Seq(B) /\ Len(first) = a
  <2>. HIDE DEF B
  <2>1. a + n \in Nat
    OBVIOUS
  <2>. QED  BY <1>1, <1>2, <2>1, Zenon
<1>4. /\ next \in Seq(B) /\ Len(next) = n
      /\ \A i \in 1 .. n : next[i] = whole[a + i]
  <2>. HIDE DEF whole, B
  <2>. QED  BY <1>1, <1>3
<1>5. \A i \in 1 .. n : next[i] = Byte(f, a + i - 1)
  BY <1>1, <1>4
<1>6. \A i \in 1 .. a + n : all[i] = (first \o next)[i]
  <2>. SUFFICES ASSUME NEW i \in 1 .. a + n PROVE all[i] = (first \o next)[i]
    OBVIOUS
  <2>1. all[i] = Byte(f, i - 1)
    OBVIOUS
  <2>2. CASE i <= a
    <3>1. first[i] = Byte(f, i - 1)
      BY <2>2
    <3>. HIDE DEF first, next, all, B
    <3>. QED  BY <1>3, <1>4, <2>1, <2>2, <3>1
  <2>3. CASE ~(i <= a)
    <3>1. i - a \in 1 .. n /\ a + (i - a) - 1 = i - 1
      BY <2>3
    <3>2. next[i - a] = Byte(f, i - 1)
      BY <1>5, <3>1
    <3>. HIDE DEF first, next, all, B
    <3>3. (first \o next)[i] = next[i - a]
      BY <1>3, <1>4, <2>3, ConcatProperties
    <3>. QED  BY <2>1, <3>2, <3>3
  <2>. QED  BY <2>2, <2>3
<1>7. first \o next \in Seq(B) /\ Len(first \o next) = a + n
  <2>. HIDE DEF first, next, all, B
  <2>1. first \in Seq(B) /\ next \in Seq(B) /\ Len(first) = a /\ Len(next) = n
    BY <1>3, <1>4
  <2>2. first \o next \in Seq(B) /\ Len(first \o next) = Len(first) + Len(next)
    BY <2>1, ConcatProperties
  <2>. QED  BY <2>1, <2>2
<1>. HIDE DEF first, next, all, whole, B
<1>8. all = first \o next
  BY <1>3, <1>6, <1>7, SeqEqual
<1>. QED  BY <1>1, <1>8 DEF first, next, all

(* What was delivered, and what the file holds. *)
LEMMA DeliveredIs ==
  ASSUME PrefixInv, file \in Files
  PROVE  /\ Delivered = [i \in 1 .. file_bytes_received |-> Byte(file, i - 1)]
         /\ Len(Delivered) = file_bytes_received
         /\ Len(Contents[file]) = SizeOf[file] /\ SizeOf[file] \in Nat
         /\ file_bytes_received = SizeOf[file] => Delivered = Contents[file]
<1>1. file_bytes_received \in 0 .. MaxSize /\ MaxSize \in Nat /\ SizeOf[file] \in Nat
  BY Constants DEF PrefixInv, TypeInv, TypeOK
<1>2. \A i \in 1 .. file_bytes_received : image[i - 1] = Byte(file, i - 1)
  BY <1>1 DEF PrefixInv, Received, Offsets
<1>3. Delivered = [i \in 1 .. file_bytes_received |-> Byte(file, i - 1)]
  BY <1>2 DEF Delivered
<1>. QED  BY <1>1, <1>3 DEF Contents

(* Steps that leave what was received alone are not seen in it.            *)
LEMMA DeliveredKept ==
  ASSUME PrefixInv, file_bytes_received' = file_bytes_received,
         \A o \in Offsets : o < file_bytes_received => image'[o] = image[o]
  PROVE  Delivered' = Delivered
<1>1. file_bytes_received \in 0 .. MaxSize /\ MaxSize \in Nat
  BY Constants DEF PrefixInv, TypeInv, TypeOK
<1>. QED  BY <1>1 DEF Delivered, Offsets

LEMMA TransferInit == ASSUME Init PROVE FT!Init /\ TransferInv
<1>1. Delivered = <<>>
  BY DEF Init, Delivered
<1>2. TransferInv
  BY PrefixInit DEF Init, TransferInv, EndHasStatus
<1>. QED  BY <1>1, <1>2 DEF Init, FT!Init, Outcome

LEMMA EndStep == ASSUME TransferInv, [Next]_vars PROVE EndHasStatus'
<1>1. CASE \E f \in Files, resume \in BOOLEAN : Begin(f, resume) \/ BeginFails(f, resume)
  BY <1>1 DEF Begin, BeginFails, EndHasStatus
<1>2. CASE SendHead \/ HeadReceive
  BY <1>2 DEF SendHead, HeadReceive, HeadDone, HeadFails, EndHasStatus
<1>3. CASE SendRange \/ SendRangeFails \/ ReceiveFails \/ End
  BY <1>3 DEF SendRange, SendRangeFails, ReceiveFails, AttemptFailed, End, EndHasStatus
<1>4. CASE \E k \in 0 .. MaxSize : ReceiveMore(k)
  BY <1>4 DEF ReceiveMore, EndHasStatus
<1>5. CASE \E accepts \in BOOLEAN : DataEvent(accepts)
  BY <1>5 DEF DataEvent, EndHasStatus
<1>6. CASE Lost \/ UNCHANGED vars
  BY <1>6 DEF Lost, vars, dlVars, TransferInv, EndHasStatus
<1>. QED
  BY <1>1, <1>2, <1>3, <1>4, <1>5, <1>6 DEF Next, Download, Receive, ReceiveLast, ReceiveEmpty

(* A chunk that is accepted is delivered. *)
LEMMA ChunkRefines ==
  ASSUME PrefixInv, PrefixInv', NEW accepts \in BOOLEAN,
         pc = "body", DataEvent(accepts), UNCHANGED <<file, do_resume>>
  PROVE  [FT!Next]_FT!ftVars
<1>1. /\ MaxSize \in Nat /\ BufSize \in Nat /\ size \in 0 .. BufSize
      /\ file_bytes_received \in 0 .. MaxSize /\ file_size \in 0 .. MaxSize
      /\ file_bytes_received + size <= file_size /\ file_size = SizeOf[file]
      /\ SizeMod \in Nat /\ SizeMod > MaxSize + BufSize /\ file \in Files
  BY Constants DEF PrefixInv, TypeInv, TypeOK, ChunkInFile, ChunkKnown
<1>2. pc' \in {"send", "end"} /\ Outcome = "running" /\ Outcome' = "running"
  BY DEF DataEvent, Outcome
<1>3. CASE ~accepts
  <2>1. /\ file_bytes_received' = file_bytes_received
        /\ \A o \in Offsets : o < file_bytes_received => image'[o] = image[o]
    BY <1>1, <1>3 DEF DataEvent, Offsets
  <2>2. Delivered' = Delivered
    BY <2>1, DeliveredKept
  <2>. QED  BY <1>2, <2>2 DEF FT!ftVars
<1>4. CASE accepts
  <2>1. file_bytes_received' = file_bytes_received + size
    <3>1. (file_bytes_received + size) % SizeMod = file_bytes_received + size
      BY <1>1, NoWrap
    <3>. QED  BY <1>4, <3>1 DEF DataEvent
  <2>2. /\ Delivered = [i \in 1 .. file_bytes_received |-> Byte(file, i - 1)]
        /\ Len(Delivered) = file_bytes_received /\ Len(Contents[file]) = SizeOf[file]
    BY <1>1, DeliveredIs
  <2>3. Delivered' = [i \in 1 .. file_bytes_received + size |-> Byte(file, i - 1)]
    <3>1. \A i \in 1 .. file_bytes_received + size : image'[i - 1] = Byte(file, i - 1)
      BY <1>1, <2>1 DEF PrefixInv, Received, Offsets
    <3>. QED  BY <2>1, <3>1 DEF Delivered
  <2>4. Delivered' = Delivered
                       \o SubSeq(Contents[file], Len(Delivered) + 1, Len(Delivered) + size)
    <3>1. file_bytes_received \in Nat /\ size \in Nat /\ file_bytes_received + size <= SizeOf[file]
      BY <1>1
    <3>2. [i \in 1 .. file_bytes_received + size |-> Byte(file, i - 1)]
            = [i \in 1 .. file_bytes_received |-> Byte(file, i - 1)]
                \o SubSeq(Contents[file], file_bytes_received + 1, file_bytes_received + size)
      BY <1>1, <3>1, NextBytes, Zenon
    <3>. QED  BY <2>2, <2>3, <3>2, Zenon
  <2>5. CASE size = 0
    <3>1. Delivered' = Delivered
      BY <1>1, <2>2, <2>3, <2>5
    <3>. QED  BY <1>2, <3>1 DEF FT!ftVars
  <2>6. CASE size # 0
    <3>1. size \in 1 .. Len(Contents[file]) /\ size <= Len(Contents[file]) - Len(Delivered)
      BY <1>1, <2>2, <2>6
    <3>2. FT!Deliver(size)
      BY <1>2, <2>4, <3>1 DEF FT!Deliver, FT!Idle
    <3>. QED  BY <1>2, <3>1, <3>2 DEF FT!Next, FT!Idle
  <2>. QED  BY <2>5, <2>6
<1>. QED  BY <1>3, <1>4

LEMMA BeginRefines ==
  ASSUME PrefixInv, NEW f \in Files, NEW resume \in BOOLEAN,
         Begin(f, resume) \/ BeginFails(f, resume)
  PROVE  [FT!Next]_FT!ftVars
<1>1. /\ pc = "idle" /\ file' = f /\ do_resume' = resume
      /\ UNCHANGED <<file_bytes_received, image>>
      /\ pc' = "sendHead" \/ (pc' = "idle" /\ status' = "failed")
  BY DEF Begin, BeginFails
<1>2. Delivered' = Delivered
  BY <1>1, DeliveredKept
<1>3. Outcome # "running" /\ Outcome' \in {"running", "failed"}
  BY <1>1 DEF Outcome
<1>4. FT!Start(f, resume)
  BY <1>1, <1>2, <1>3 DEF FT!Start, FT!Idle
<1>. QED  BY <1>4 DEF FT!Next

LEMMA HeadRefines ==
  ASSUME PrefixInv, NEW seen, NEW accepts \in BOOLEAN, HeadDone(seen, accepts)
  PROVE  [FT!Next]_FT!ftVars
<1>1. /\ Outcome = "running" /\ Outcome' = "running" /\ UNCHANGED <<file, do_resume>>
      /\ pc' \in {"send", "end"}
  BY DEF HeadDone, Outcome
<1>2. CASE file_bytes_received' = file_bytes_received /\ image' = image
  <2>1. Delivered' = Delivered
    BY <1>2, DeliveredKept
  <2>. QED  BY <1>1, <2>1 DEF FT!ftVars
<1>3. CASE ~do_resume /\ file_bytes_received' = 0
  <2>1. Delivered' = <<>>
    BY <1>3 DEF Delivered
  <2>. QED  BY <1>1, <1>3, <2>1 DEF FT!Next, FT!Restart, FT!Idle
<1>. QED  BY <1>2, <1>3 DEF HeadDone, StartAt

LEMMA EndRefines ==
  ASSUME TransferInv, End
  PROVE  [FT!Next]_FT!ftVars
<1>1. /\ pc = "end" /\ pc' = "idle" /\ status # "none" /\ status' = status
      /\ UNCHANGED <<file, do_resume, file_bytes_received, image>>
  BY DEF TransferInv, EndHasStatus, End
<1>2. Delivered' = Delivered
  BY <1>1, DeliveredKept DEF TransferInv
<1>3. Outcome = "running" /\ Outcome' \in {"success", "failed"}
      /\ (Outcome' = "success" => status = "success")
  BY <1>1 DEF Outcome
<1>4. CASE Outcome' = "failed"
  BY <1>1, <1>2, <1>3, <1>4 DEF FT!Next, FT!Fail, FT!Idle
<1>5. CASE Outcome' = "success"
  <2>1. Delivered = Contents[file]
    BY <1>1, <1>3, <1>5, DeliveredIs DEF TransferInv, PrefixInv, Whole
  <2>. QED  BY <1>1, <1>2, <1>3, <1>5, <2>1 DEF FT!Next, FT!Succeed, FT!Idle
<1>. QED  BY <1>3, <1>4, <1>5

LEMMA UnseenSteps ==
  ASSUME PrefixInv,
         \/ SendHead \/ HeadFails \/ SendRange \/ SendRangeFails \/ ReceiveFails
         \/ (\E k : ReceiveMore(k)) \/ Lost \/ UNCHANGED vars
  PROVE  UNCHANGED FT!ftVars
<1>1. /\ UNCHANGED <<file, do_resume, file_bytes_received, image>>
      /\ (pc # "idle" /\ pc' # "idle") \/ UNCHANGED <<pc, status>>
  BY DEF SendHead, HeadFails, SendRange, SendRangeFails, ReceiveFails, ReceiveMore, AttemptFailed,
     Lost, vars, dlVars
<1>2. Delivered' = Delivered
  BY <1>1, DeliveredKept
<1>3. Outcome' = Outcome
  BY <1>1 DEF Outcome
<1>. QED  BY <1>1, <1>2, <1>3 DEF FT!ftVars

LEMMA TransferStep ==
  ASSUME Cooperative, OneFileOnly, TransferInv, PrefixInv', [Next]_vars
  PROVE  [FT!Next]_FT!ftVars
<1>. PrefixInv
  BY DEF TransferInv
<1>1. CASE \E f \in Files, resume \in BOOLEAN : Begin(f, resume) \/ BeginFails(f, resume)
  BY <1>1, BeginRefines
<1>2. CASE \E seen \in HeadLengths, accepts \in BOOLEAN : HeadDone(seen, accepts)
  BY <1>2, HeadRefines
<1>3. CASE \E k \in 0 .. MaxSize, accepts \in BOOLEAN : ReceiveLast(k, accepts)
  BY <1>3, ChunkRefines DEF ReceiveLast
<1>4. CASE \E accepts \in BOOLEAN : ReceiveEmpty(accepts)
  BY <1>4, ChunkRefines DEF ReceiveEmpty
<1>5. CASE End
  BY <1>5, EndRefines
<1>6. CASE SendHead \/ HeadFails \/ SendRange \/ SendRangeFails \/ ReceiveFails
           \/ (\E k \in 0 .. MaxSize : ReceiveMore(k)) \/ Lost \/ UNCHANGED vars
  BY <1>6, UnseenSteps
<1>. QED  BY <1>1, <1>2, <1>3, <1>4, <1>5, <1>6 DEF Next, Download, HeadReceive, Receive

(* The download client implements FileTransfer: the file is delivered in   *)
(* its order and without gaps, a resumed call goes on where the last one   *)
(* stopped, and success is reported only when the file is whole.           *)
THEOREM TransfersRefine ==
  ASSUME Cooperative, OneFileOnly
  PROVE  Spec => Transfers
<1>1. Init => FT!Init /\ TransferInv
  BY TransferInit
<1>2. PrefixInv /\ [Next]_vars => PrefixInv'
  BY PrefixStep
<1>3. TransferInv /\ [Next]_vars => TransferInv'
  BY <1>2, EndStep DEF TransferInv
<1>4. TransferInv /\ TransferInv' /\ [Next]_vars => [FT!Next]_FT!ftVars
  BY TransferStep DEF TransferInv
<1>. QED  BY <1>1, <1>3, <1>4, PTL DEF Spec, Transfers, FT!Spec
=============================================================================
