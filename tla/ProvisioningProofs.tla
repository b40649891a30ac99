-------------------------- MODULE ProvisioningProofs --------------------------
(***************************************************************************)
(* Proofs about HTTPS requests and the provisioning that makes them, for   *)
(* bodies and buffers of any size and any number of calls.                 *)
(***************************************************************************)
EXTENDS Provisioning, TLAPS

-----------------------------------------------------------------------------
(* One request. *)

RequestNext == (\E payload \in BOOLEAN : Ask(payload)) \/ RequestStep

RequestTypes ==
  /\ at \in {"idle", "create", "resolve", "connect", "initialize", "header", "send",
            "allocate", "append", "upload", "receive", "terminate", "dead"}
  /\ response \in [0 .. BufferSize - 1 -> Nat \cup {Stale}]
  /\ data_length \in 0 .. BufferSize - 1
  /\ upload \in {"none", "held", "wild", "lost"} /\ outcome \in {"none", "ok", "error"}
  /\ stream \in {"idle", "open", "done", "failed"}
  /\ length \in Nat /\ got \in 0 .. length

(* What is held is held only as long as it is needed. *)
Held ==
  /\ at \in {"idle", "create"} => client = "none"
  /\ receive_packet => at = "terminate"
  /\ current_request => at = "connect"
  /\ upload = "wild" => at \in {"append", "dead"}
  /\ upload = "held" => at \in {"append", "upload"}
  /\ has_payload /\ (at \in {"receive", "terminate"} \/ (at = "idle" /\ outcome = "ok"))
       => upload = "none"

(* The response is a start of the body, as long as there is room for it;   *)
(* until the first byte of it comes it is the empty string.                *)
Text ==
  /\ at = "receive" => data_length = Least(got, BufferSize - 1)
  /\ at \in {"receive", "terminate"} =>
       data_length <= got /\ \A i \in 0 .. data_length - 1 : response[i] = i + 1
  /\ at \notin {"idle", "receive", "terminate", "dead"} => response[0] = Nul /\ data_length = 0

RequestInv == RequestTypes /\ Held /\ Text /\ ResponseIsOwn

LEMMA BufferNotEmpty == BufferSize \in Nat \ {0} /\ Lengths \subseteq Nat
BY RequestAssumption

LEMMA RequestTypesInit == ASSUME RequestInit PROVE RequestInv
<1>1. RequestTypes
  BY BufferNotEmpty DEF RequestInit, RequestTypes, Nul, Body!StreamIdle
<1>. QED  BY <1>1 DEF RequestInit, RequestInv, Held, Text, ResponseIsOwn

LEMMA ExtractTypes ==
  ASSUME RequestTypes, NEW n \in Nat, Extract(n)
  PROVE  /\ response' \in [0 .. BufferSize - 1 -> Nat \cup {Stale}]
         /\ data_length' = Least(data_length + n, BufferSize - 1)
         /\ data_length' \in 0 .. BufferSize - 1
<1>. DEFINE k == Least(n, Room)
<1>1. /\ data_length \in 0 .. BufferSize - 1 /\ BufferSize \in Nat \ {0} /\ got \in Nat
      /\ response \in [0 .. BufferSize - 1 -> Nat \cup {Stale}]
  BY BufferNotEmpty DEF RequestTypes
<1>2. k \in Nat /\ data_length + k = Least(data_length + n, BufferSize - 1)
  BY <1>1 DEF Least, Room
<1>3. data_length' = data_length + k
  BY DEF Extract
<1>4. response' = [i \in DOMAIN response |->
                    IF i \in data_length .. data_length + k - 1
                    THEN got + 1 + (i - data_length) ELSE response[i]]
  BY DEF Extract
<1>. HIDE DEF k
<1>5. \A i \in 0 .. BufferSize - 1 :
        i \in data_length .. data_length + k - 1 => got + 1 + (i - data_length) \in Nat
  BY <1>1, <1>2
<1>6. response' \in [0 .. BufferSize - 1 -> Nat \cup {Stale}]
  BY <1>1, <1>4, <1>5
<1>. QED  BY <1>1, <1>2, <1>3, <1>6 DEF Least

(* The bytes of a packet follow those that are there. *)
LEMMA ExtractText ==
  ASSUME RequestTypes, NEW n \in Nat, Extract(n),
         data_length = Least(got, BufferSize - 1),
         \A i \in 0 .. data_length - 1 : response[i] = i + 1
  PROVE  \A i \in 0 .. data_length' - 1 : response'[i] = i + 1
<1>. DEFINE k == Least(n, Room)
<1>1. /\ data_length \in 0 .. BufferSize - 1 /\ BufferSize \in Nat \ {0} /\ got \in Nat
      /\ response \in [0 .. BufferSize - 1 -> Nat \cup {Stale}]
  BY BufferNotEmpty DEF RequestTypes
<1>2. k \in Nat /\ data_length + k <= BufferSize - 1 /\ (k > 0 => data_length = got)
  BY <1>1 DEF Least, Room
<1>3. data_length' = data_length + k
  BY DEF Extract
<1>4. response' = [i \in DOMAIN response |->
                    IF i \in data_length .. data_length + k - 1
                    THEN got + 1 + (i - data_length) ELSE response[i]]
  BY DEF Extract
<1>. HIDE DEF k
<1>5. ASSUME NEW i \in 0 .. data_length' - 1 PROVE response'[i] = i + 1
  <2>1. i \in 0 .. BufferSize - 1 /\ i \in Nat /\ i < data_length + k
    BY <1>1, <1>2, <1>3
  <2>2. CASE i < data_length
    <3>1. i \in 0 .. data_length - 1 /\ ~(i \in data_length .. data_length + k - 1)
      BY <1>1, <2>1, <2>2
    <3>. QED  BY <1>1, <1>4, <2>1, <3>1
  <2>3. CASE i >= data_length
    <3>1. i \in data_length .. data_length + k - 1 /\ data_length = got
      BY <1>1, <1>2, <2>1, <2>3
    <3>2. response'[i] = got + 1 + (i - data_length)
      BY <1>1, <1>4, <2>1, <3>1
    <3>. QED  BY <1>1, <2>1, <3>1, <3>2
  <2>. QED  BY <1>1, <2>1, <2>2, <2>3
<1>. QED  BY <1>5

(* A request that has failed before the answer leaves the empty string.    *)
LEMMA EmptyIsOwn ==
  ASSUME RequestTypes, Text, at \notin {"idle", "receive", "terminate", "dead"},
         Returns("error"), UNCHANGED response
  PROVE  ResponseIsOwn'
<1>1. response[0] = Nul /\ 0 \in DOMAIN response
  BY BufferNotEmpty DEF RequestTypes, Text
<1>. QED  BY <1>1 DEF ResponseIsOwn, IsText, Returns

LEMMA RequestKeeps == ASSUME RequestInv, [RequestNext]_httpVars PROVE RequestInv'
<1>. USE DEF RequestInv
<1>1. ASSUME NEW payload \in BOOLEAN, Ask(payload) PROVE RequestInv'
  <2>1. response \in [0 .. BufferSize - 1 -> Nat \cup {Stale}] /\ BufferSize \in Nat \ {0}
    BY BufferNotEmpty DEF RequestTypes
  <2>2. response' \in [0 .. BufferSize - 1 -> Nat \cup {Stale}] /\ response'[0] = Nul
    BY <1>1, <2>1 DEF Ask, EmptiesText, Nul
  <2>3. 0 \in 0 .. BufferSize - 1
    BY <2>1
  <2>4. RequestTypes'
    BY <1>1, <2>2, <2>3 DEF Ask, RequestTypes
  <2>. QED  BY <1>1, <2>2, <2>4 DEF Ask, Held, Text, ResponseIsOwn
<1>2. CASE CreateClient \/ Resolve \/ Connect \/ Prepare \/ AllocatePacket \/ AppendPayload
  <2>1. RequestTypes'
    BY <1>2 DEF CreateClient, Resolve, Connect, Prepare, AllocatePacket, AppendPayload, Unchanged,
       Returns, RequestTypes
  <2>2. Held'
    BY <1>2 DEF CreateClient, Resolve, Connect, Prepare, AllocatePacket, AppendPayload, Unchanged,
       Returns, Held
  <2>3. Text'
    BY <1>2 DEF CreateClient, Resolve, Connect, Prepare, AllocatePacket, AppendPayload, Unchanged,
       Returns, Text
  <2>4. ResponseIsOwn'
    <3>1. response' = response
      BY <1>2 DEF CreateClient, Resolve, Connect, Prepare, AllocatePacket, AppendPayload, Unchanged
    <3>2. at \notin {"idle", "receive", "terminate", "dead"}
      BY <1>2 DEF CreateClient, Resolve, Connect, Prepare, AllocatePacket, AppendPayload
    <3>3. Returns("error") \/ at' # "idle"
      BY <1>2 DEF CreateClient, Resolve, Connect, Prepare, AllocatePacket, AppendPayload
    <3>. QED  BY <3>1, <3>2, <3>3, EmptyIsOwn DEF ResponseIsOwn
  <2>. QED  BY <2>1, <2>2, <2>3, <2>4
<1>3. CASE Send \/ SendPayload
  <2>1. /\ at \in {"send", "upload"} /\ response' = response /\ data_length' = data_length
        /\ at' \in {"allocate", "receive"} \/ Returns("error")
        /\ at' = "receive" => Body!Opened
        /\ at' # "receive" => UNCHANGED <<stream, length, got>>
    BY <1>3 DEF Send, SendPayload, Unchanged, Returns
  <2>2. stream' \in {"idle", "open", "done", "failed"} /\ length' \in Nat /\ got' \in 0 .. length'
    <3>1. CASE at' = "receive"
      <4>1. stream' = "open" /\ length' \in Nat /\ got' = 0
        BY <2>1, <3>1, BufferNotEmpty DEF Body!Opened
      <4>. QED  BY <4>1
    <3>2. CASE at' # "receive"
      BY <2>1, <3>2 DEF RequestTypes
    <3>. QED  BY <3>1, <3>2
  <2>3. RequestTypes'
    BY <1>3, <2>1, <2>2 DEF Send, SendPayload, Unchanged, Returns, RequestTypes
  <2>4. Held'
    BY <1>3 DEF Send, SendPayload, Unchanged, Returns, Held
  <2>5. Text'
    <3>1. response[0] = Nul /\ data_length = 0
      BY <2>1 DEF Text
    <3>2. at' = "receive" => Least(got, BufferSize - 1)' = 0 /\ got' = 0
      BY <2>1, BufferNotEmpty DEF Body!Opened, Least
    <3>3. at' \in {"allocate", "receive", "idle"}
      BY <2>1 DEF Returns
    <3>4. response'[0] = Nul /\ data_length' = 0 /\ \A i \in 0 .. data_length' - 1 : FALSE
      BY <2>1, <3>1
    <3>. QED  BY <3>2, <3>3, <3>4 DEF Text
  <2>6. ResponseIsOwn'
    BY <2>1, EmptyIsOwn DEF ResponseIsOwn
  <2>. QED  BY <2>3, <2>4, <2>5, <2>6
<1>4. ASSUME NEW n \in 0 .. length - got, ReceivePacket(n) PROVE RequestInv'
  <2>1. /\ length \in Nat /\ got \in 0 .. length /\ n \in Nat /\ BufferSize \in Nat \ {0}
        /\ data_length = Least(got, BufferSize - 1) /\ at = "receive"
        /\ \A i \in 0 .. data_length - 1 : response[i] = i + 1
    BY <1>4, BufferNotEmpty DEF RequestTypes, Text, ReceivePacket
  <2>2. got' = got + n /\ got' \in 0 .. length' /\ length' = length /\ stream' \in {"open", "done"}
    BY <1>4, <2>1 DEF ReceivePacket, Body!GotMore, Body!GotLast
  <2>3. at' \in {"receive", "terminate"}
    BY <1>4 DEF ReceivePacket
  <2>4. /\ data_length' = Least(got', BufferSize - 1)
        /\ data_length' \in 0 .. BufferSize - 1
        /\ response' \in [0 .. BufferSize - 1 -> Nat \cup {Stale}]
        /\ \A i \in 0 .. data_length' - 1 : response'[i] = i + 1
    <3>1. CASE n = 0
      BY <1>4, <2>1, <2>2, <3>1 DEF ReceivePacket, RequestTypes
    <3>2. CASE n # 0
      <4>1. Extract(n)
        BY <1>4, <3>2 DEF ReceivePacket
      <4>2. /\ data_length' = Least(data_length + n, BufferSize - 1)
            /\ data_length' \in 0 .. BufferSize - 1
            /\ response' \in [0 .. BufferSize - 1 -> Nat \cup {Stale}]
        BY <2>1, <4>1, ExtractTypes
      <4>3. Least(data_length + n, BufferSize - 1) = Least(got', BufferSize - 1)
        BY <2>1, <2>2 DEF Least
      <4>. QED  BY <2>1, <4>1, <4>2, <4>3, ExtractText
    <3>. QED  BY <3>1, <3>2
  <2>5. RequestTypes'
    BY <1>4, <2>2, <2>3, <2>4 DEF ReceivePacket, RequestTypes
  <2>6. Held'
    BY <1>4, <2>3 DEF ReceivePacket, Held, Body!GotMore, Body!GotLast
  <2>7. data_length' <= got' /\ Least(got, BufferSize - 1)' = Least(got', BufferSize - 1)
    BY <2>1, <2>2, <2>4 DEF Least
  <2>8. Text'
    BY <2>3, <2>4, <2>7 DEF Text
  <2>9. ResponseIsOwn'
    BY <2>3 DEF ResponseIsOwn
  <2>. QED  BY <2>5, <2>6, <2>8, <2>9
<1>5. ASSUME NEW n \in 0 .. length - got, ExtractFails(n) PROVE RequestInv'
  <2>1. /\ length \in Nat /\ got \in 0 .. length /\ n \in Nat /\ BufferSize \in Nat \ {0}
        /\ data_length = Least(got, BufferSize - 1) /\ at = "receive"
        /\ \A i \in 0 .. data_length - 1 : response[i] = i + 1
    BY <1>5, BufferNotEmpty DEF RequestTypes, Text, ExtractFails
  <2>2. got' = got + n /\ got' \in 0 .. length' /\ length' = length /\ stream' \in {"open", "done"}
    BY <1>5, <2>1 DEF ExtractFails, Body!GotMore, Body!GotLast
  <2>3. data_length <= got'
    BY <2>1, <2>2 DEF Least
  <2>4. RequestTypes'
    BY <1>5, <2>2 DEF ExtractFails, RequestTypes
  <2>. QED  BY <1>5, <2>1, <2>3, <2>4 DEF ExtractFails, Held, Text, ResponseIsOwn
<1>6. CASE ReceiveFails
  <2>1. RequestTypes'
    BY <1>6 DEF ReceiveFails, AfterFailure, Unchanged, Body!GetFailed, RequestTypes
  <2>2. got \in Nat /\ BufferSize \in Nat \ {0} /\ data_length = Least(got, BufferSize - 1)
    BY <1>6, BufferNotEmpty DEF RequestTypes, Text, ReceiveFails
  <2>3. data_length <= got
    BY <2>2 DEF Least
  <2>. QED
    BY <1>6, <2>1, <2>3 DEF ReceiveFails, AfterFailure, Unchanged, Body!GetFailed, Held, Text,
       ResponseIsOwn
<1>7. CASE Terminate
  <2>1. /\ response \in [0 .. BufferSize - 1 -> Nat \cup {Stale}] /\ data_length \in 0 .. BufferSize - 1
        /\ got \in Nat /\ BufferSize \in Nat \ {0} /\ at = "terminate"
    BY <1>7, BufferNotEmpty DEF RequestTypes, Terminate
  <2>2. response' = [response EXCEPT ![data_length] = Nul] /\ data_length' = data_length /\ got' = got
        /\ at' = "idle" /\ outcome' = "ok"
    BY <1>7 DEF Terminate, Returns
  <2>3. response' \in [0 .. BufferSize - 1 -> Nat \cup {Stale}] /\ response'[data_length] = Nul
    BY <2>1, <2>2 DEF Nul
  <2>4. data_length <= got
    BY <2>1 DEF Text
  <2>5. \A i \in 0 .. data_length - 1 : response'[i] = i + 1
    <3>1. ASSUME NEW i \in 0 .. data_length - 1 PROVE response'[i] = i + 1
      <4>1. i \in 0 .. BufferSize - 1 /\ i # data_length
        BY <2>1
      <4>2. response[i] = i + 1
        BY <2>1 DEF Text
      <4>. QED  BY <2>1, <2>2, <4>1, <4>2
    <3>. QED  BY <3>1
  <2>6. IsText(data_length)'
    BY <2>1, <2>2, <2>3, <2>5 DEF IsText, Nul
  <2>7. ResponseIsOwn'
    BY <2>1, <2>2, <2>3, <2>4, <2>5, <2>6 DEF ResponseIsOwn
  <2>8. RequestTypes'
    BY <1>7, <2>3 DEF Terminate, Returns, RequestTypes
  <2>9. Text'
    BY <2>2 DEF Text
  <2>10. Held'
    BY <1>7 DEF Terminate, ReleaseLast, Returns, Held
  <2>. QED  BY <2>7, <2>8, <2>9, <2>10
<1>8. CASE UNCHANGED httpVars
  <2>1. UNCHANGED requestVars /\ UNCHANGED <<stream, length, got>>
    BY <1>8 DEF httpVars
  <2>2. RequestTypes' /\ Held' /\ Text'
    BY <2>1 DEF requestVars, RequestTypes, Held, Text
  <2>3. ResponseIsOwn'
    BY <2>1 DEF requestVars, ResponseIsOwn, IsText
  <2>. QED  BY <2>2, <2>3
<1>. QED
  BY <1>1, <1>2, <1>3, <1>4, <1>5, <1>6, <1>7, <1>8 DEF RequestNext, RequestStep

-----------------------------------------------------------------------------
(* Requests in a call. *)

LEMMA StepsOfRequest == ASSUME [Next]_vars PROVE [RequestNext]_httpVars
<1>1. CASE Request
  BY <1>1 DEF Request, RequestNext
<1>2. CASE AskDiscovery \/ AskAuth \/ AskSign \/ StoreCert
  BY <1>2 DEF AskDiscovery, AskAuth, AskSign, StoreCert, RequestNext
<1>3. CASE Obtain \/ AskDiscoveryFails \/ Discovered \/ DiscoveryFails \/ ParseUrl \/ ParseUrlFails
           \/ UrlHasNoPath \/ AskAuthFails \/ Authenticated \/ CallFails \/ GenerateCsr \/ AskSignFails
  BY <1>3 DEF Obtain, AskDiscoveryFails, Discovered, DiscoveryFails, ParseUrl, ParseUrlFails,
     UrlHasNoPath, AskAuthFails, Authenticated, CallFails, GenerateCsr, AskSignFails
<1>4. CASE (\E cert \in Certs : Signed(cert)) \/ StoreCertFails \/ Acknowledged \/ Succeeds
           \/ UNCHANGED vars
  BY <1>4 DEF Signed, StoreCertFails, Acknowledged, Succeeds, vars
<1>. QED  BY <1>1, <1>2, <1>3, <1>4 DEF Next

-----------------------------------------------------------------------------
(* The blocks.  What is allocated is known at every point of a call.       *)

Places == {"idle", "common name", "discovery", "url", "bootstrap", "auth", "csr", "signature",
           "sign", "store", "ack", "cleanup", "dead"}

AgentKnown == {"host", "path"}
Blocks ==
  CASE pc = "discovery" -> {"discovery_path"}
    [] pc = "url" -> {"discovery_rsp", "agent_url"}
    [] pc \in {"bootstrap", "auth"} -> AgentKnown
    [] pc \in {"csr", "signature"} -> AgentKnown \cup {"auth_rsp"}
    [] pc = "sign" -> AgentKnown \cup {"auth_rsp", "sig"}
    [] pc \in {"store", "ack"} -> AgentKnown \cup {"auth_rsp", "sig", "sign_rsp"}
    [] pc = "cleanup" -> AgentKnown \cup {"auth_rsp", "sig", "sign_rsp", "ack_rsp"}
    [] OTHER -> Address

HeapInv ==
  /\ pc \in Places /\ host \in BOOLEAN /\ path \in BOOLEAN
  /\ lost = FALSE
  /\ pc # "dead" => heap = Blocks /\ host = path
  /\ pc \in {"common name", "discovery", "url"} => ~host
  /\ pc \in {"bootstrap", "auth", "csr", "signature", "sign", "store", "ack", "cleanup"} => host

(* cleanup frees all that the call has made, but not the address.          *)
LEMMA CleanupKeeps ==
  ASSUME HeapInv, NEW made, NEW result, Cleanup(made, result), UNCHANGED <<host, path>>,
         pc # "dead", made \subseteq heap, heap \ made = Address
  PROVE  HeapInv'
<1>1. heap' = heap \ made /\ lost' = lost /\ pc' = "idle"
  BY DEF Cleanup, Freed, Replaced, HeapInv
<1>2. Address' = Address
  BY DEF Address
<1>3. Blocks' = heap'
  BY <1>1, <1>2 DEF Blocks
<1>. QED  BY <1>1, <1>3 DEF HeapInv, Places

LEMMA GivesUpKeeps ==
  ASSUME HeapInv, GivesUp, UNCHANGED <<host, path>>, pc \notin {"dead", "discovery", "url"}
  PROVE  HeapInv'
<1>1. MadeHere \subseteq heap
  BY DEF MadeHere
<1>2. heap \ MadeHere = Address
  BY DEF HeapInv, Blocks, MadeHere, Address, AgentKnown, Places
<1>. QED  BY <1>1, <1>2, CleanupKeeps DEF GivesUp

LEMMA HeapStep == ASSUME HeapInv, [Next]_vars PROVE HeapInv'
<1>1. CASE Obtain
  BY <1>1 DEF Obtain, heapVars, identityVars, HeapInv, Blocks, Address, Places, AgentKnown
<1>2. CASE Request \/ UNCHANGED vars
  <2>1. UNCHANGED <<pc, host, path, heap, lost>>
    BY <1>2 DEF Request, vars, heapVars, identityVars
  <2>2. Blocks' = Blocks
    BY <2>1 DEF Blocks, Address
  <2>. QED  BY <2>1, <2>2 DEF HeapInv
<1>3. CASE AskDiscovery
  BY <1>3 DEF AskDiscovery, Allocated, Replaced, identityVars, HeapInv, Blocks, Address, Places
<1>4. CASE AskDiscoveryFails
  BY <1>4, GivesUpKeeps DEF AskDiscoveryFails
<1>5. CASE Discovered
  <2>1. heap = {"discovery_path"} /\ Address = {} /\ lost = FALSE
    BY <1>5 DEF Discovered, Answered, HeapInv, Blocks, Address
  <2>2. heap' = {"discovery_rsp", "agent_url"} /\ lost' = FALSE
    BY <1>5, <2>1 DEF Discovered, Replaced
  <2>. QED  BY <1>5, <2>2 DEF Discovered, HeapInv, Blocks, Places
<1>6. CASE DiscoveryFails
  <2>1. heap = {"discovery_path"} /\ Address = {} /\ pc = "discovery"
    BY <1>6 DEF DiscoveryFails, Answered, HeapInv, Blocks, Address
  <2>2. MadeHere = {}
    BY <2>1 DEF MadeHere
  <2>. QED  BY <1>6, <2>1, <2>2, CleanupKeeps DEF DiscoveryFails
<1>7. CASE ParseUrl
  <2>1. heap = {"discovery_rsp", "agent_url"} /\ lost = FALSE
    BY <1>7 DEF ParseUrl, HeapInv, Blocks
  <2>2. heap' = AgentKnown /\ lost' = FALSE
    BY <1>7, <2>1 DEF ParseUrl, Replaced, AgentKnown
  <2>. QED  BY <1>7, <2>2 DEF ParseUrl, HeapInv, Blocks, Places
<1>8. CASE ParseUrlFails
  <2>1. heap = {"discovery_rsp", "agent_url"} /\ Address = {} /\ pc = "url" /\ ~path /\ path \in BOOLEAN
    BY <1>8 DEF ParseUrlFails, HeapInv, Blocks, Address
  <2>2. MadeHere = {}
    BY <2>1 DEF MadeHere
  <2>3. UNCHANGED <<host, path>>
    BY <1>8, <2>1 DEF ParseUrlFails, PathIsForgotten
  <2>. QED  BY <1>8, <2>1, <2>2, <2>3, CleanupKeeps DEF ParseUrlFails
<1>9. CASE UrlHasNoPath
  BY <1>9 DEF UrlHasNoPath, identityVars, heapVars, HeapInv, Places
<1>10. CASE AskAuth
  BY <1>10 DEF AskAuth, heapVars, HeapInv, Blocks, Places
<1>11. CASE AskAuthFails
  BY <1>11, GivesUpKeeps DEF AskAuthFails
<1>12. CASE Authenticated
  BY <1>12 DEF Authenticated, Answered, Allocated, Replaced, identityVars, HeapInv, Blocks, Places,
     AgentKnown
<1>13. CASE CallFails
  BY <1>13, GivesUpKeeps DEF CallFails, Answered
<1>14. CASE GenerateCsr
  BY <1>14 DEF GenerateCsr, heapVars, HeapInv, Blocks, Places
<1>15. CASE AskSign
  BY <1>15 DEF AskSign, Allocated, Replaced, HeapInv, Blocks, Places, AgentKnown
<1>16. CASE AskSignFails
  BY <1>16, GivesUpKeeps DEF AskSignFails
<1>17. ASSUME NEW cert \in Certs, Signed(cert) PROVE HeapInv'
  BY <1>17 DEF Signed, Answered, Allocated, Replaced, HeapInv, Blocks, Places, AgentKnown
<1>18. CASE StoreCert
  BY <1>18 DEF StoreCert, heapVars, HeapInv, Blocks, Places
<1>19. CASE StoreCertFails
  BY <1>19, GivesUpKeeps DEF StoreCertFails
<1>20. CASE Acknowledged
  BY <1>20 DEF Acknowledged, Answered, Allocated, Replaced, identityVars, HeapInv, Blocks, Places,
     AgentKnown
<1>21. CASE Succeeds
  <2>1. heap \ MadeHere = Address /\ MadeHere \subseteq heap
    BY <1>21 DEF Succeeds, HeapInv, Blocks, MadeHere, Address, AgentKnown
  <2>. QED  BY <1>21, <2>1, CleanupKeeps DEF Succeeds
<1>. QED
  BY <1>1, <1>2, <1>3, <1>4, <1>5, <1>6, <1>7, <1>8, <1>9, <1>10, <1>11, <1>12, <1>13, <1>14, <1>15,
     <1>16, <1>17, <1>18, <1>19, <1>20, <1>21 DEF Next

-----------------------------------------------------------------------------
(* Certificates.  What a call has obtained is of that call, if a sign       *)
(* response always carries a certificate, though not always one that the   *)
(* agent issued.                                                           *)

CertsCome == "none" \notin Certs

Obtained ==
  /\ pc = "store" => certificate \in {"issued", "garbled"}
  /\ pc \in {"ack", "cleanup"} => stored = Item("certificate", attempt)
  /\ pc = "cleanup" => attempt \in acked
  /\ pc = "idle" /\ ret = "ok" => stored = Item("certificate", attempt) /\ attempt \in acked
  /\ stored \in issued \cup {Nothing}

IdentityInv ==
  /\ pc \in {"csr", "signature", "sign", "store", "ack", "cleanup"} => challenge = attempt
  /\ pc = "signature" => cert_buffer = Item("csr", attempt)
  /\ pc \in {"sign", "store"} => /\ sent.csr = Item("csr", attempt)
                                 /\ sent.sig = SignatureOver(sent.csr, attempt)
  /\ pc = "store" /\ certificate = "issued" => Item("certificate", attempt) \in issued
  /\ CertsCome => Obtained

LEMMA ItemsAre ==
  \A what, of : Item(what, of).what = what /\ Item(what, of).of = of
BY DEF Item

(* Every way to give up ends with an error, and leaves what was stored.    *)
LEMMA FailureKeeps ==
  ASSUME IdentityInv, NEW made, Cleanup(made, "error"), UNCHANGED agentVars
  PROVE  IdentityInv'
BY DEF Cleanup, agentVars, IdentityInv, Obtained

LEMMA IdentityStep == ASSUME IdentityInv, [Next]_vars PROVE IdentityInv'
<1>1. CASE Obtain
  BY <1>1 DEF Obtain, identityVars, agentVars, IdentityInv, Obtained
<1>2. CASE Request \/ UNCHANGED vars
  BY <1>2 DEF Request, vars, identityVars, agentVars, IdentityInv, Obtained
<1>3. CASE AskDiscovery \/ Discovered \/ ParseUrl \/ UrlHasNoPath \/ AskAuth
  BY <1>3 DEF AskDiscovery, Discovered, ParseUrl, UrlHasNoPath, AskAuth, identityVars, agentVars,
     IdentityInv, Obtained
<1>4. CASE AskDiscoveryFails \/ DiscoveryFails \/ ParseUrlFails \/ AskAuthFails \/ CallFails
           \/ AskSignFails \/ StoreCertFails
  BY <1>4, FailureKeeps DEF AskDiscoveryFails, DiscoveryFails, ParseUrlFails, AskAuthFails, CallFails,
     AskSignFails, StoreCertFails, GivesUp
<1>5. CASE Authenticated
  BY <1>5 DEF Authenticated, identityVars, IdentityInv, Obtained
<1>6. CASE GenerateCsr
  BY <1>6 DEF GenerateCsr, agentVars, IdentityInv, Obtained
<1>7. CASE AskSign
  <2>1. sent'.csr = Item("csr", attempt) /\ sent'.sig = SignatureOver(sent'.csr, attempt)
    BY <1>7 DEF AskSign, SignatureCopied, IdentityInv, Obtained
  <2>. QED  BY <1>7, <2>1 DEF AskSign, IdentityInv, Obtained
<1>8. ASSUME NEW cert \in Certs, Signed(cert) PROVE IdentityInv'
  <2>1. CertsCome => cert \in {"issued", "garbled"}
    BY <1>8, ProvisioningAssumption DEF CertsCome
  <2>2. sent.csr.of = attempt
    BY <1>8, ItemsAre DEF Signed, Answered, IdentityInv, Obtained
  <2>. QED  BY <1>8, <2>1, <2>2 DEF Signed, Answered, IdentityInv, Obtained
<1>9. CASE StoreCert
  <2>1. sent.csr.of = attempt /\ (CertsCome => certificate = "issued")
    BY <1>9, ItemsAre DEF StoreCert, SizeConverted, IdentityInv, Obtained
  <2>2. CertsCome => stored' = Item("certificate", attempt) /\ stored' \in issued
    BY <1>9, <2>1 DEF StoreCert, Converted, IdentityInv, Obtained
  <2>. QED  BY <1>9, <2>2 DEF StoreCert, IdentityInv, Obtained
<1>10. CASE Acknowledged
  BY <1>10 DEF Acknowledged, Answered, identityVars, IdentityInv, Obtained
<1>11. CASE Succeeds
  BY <1>11 DEF Succeeds, Cleanup, agentVars, IdentityInv, Obtained
<1>. QED
  BY <1>1, <1>2, <1>3, <1>4, <1>5, <1>6, <1>7, <1>8, <1>9, <1>10, <1>11 DEF Next

-----------------------------------------------------------------------------
CallTypes == ret \in {"none", "ok", "error"} /\ work_size \in {"zero", "some"}
CallInv == RequestInv /\ HeapInv /\ CallTypes

LEMMA CallTypesStep == ASSUME CallTypes, [Next]_vars PROVE CallTypes'
<1>. USE DEF CallTypes, Cleanup, GivesUp, identityVars
<1>1. CASE Obtain \/ Request \/ AskDiscovery \/ AskDiscoveryFails \/ Discovered \/ DiscoveryFails
           \/ ParseUrl \/ ParseUrlFails \/ UrlHasNoPath \/ UNCHANGED vars
  BY <1>1 DEF Obtain, Request, AskDiscovery, AskDiscoveryFails, Discovered, DiscoveryFails, ParseUrl,
     ParseUrlFails, UrlHasNoPath, vars
<1>2. CASE AskAuth \/ AskAuthFails \/ Authenticated \/ CallFails \/ GenerateCsr \/ AskSign
           \/ AskSignFails \/ Acknowledged \/ Succeeds
  BY <1>2 DEF AskAuth, AskAuthFails, Authenticated, CallFails, GenerateCsr, AskSign, AskSignFails,
     Acknowledged, Succeeds
<1>3. ASSUME NEW cert \in Certs, Signed(cert) PROVE CallTypes'
  BY <1>3 DEF Signed
<1>4. CASE StoreCert \/ StoreCertFails
  BY <1>4 DEF StoreCert, StoreCertFails, SizeConverted
<1>. QED  BY <1>1, <1>2, <1>3, <1>4 DEF Next

LEMMA AlwaysCalls == Spec => []CallInv
<1>1. Init => CallInv
  BY RequestTypesInit DEF Init, CallInv, HeapInv, CallTypes, Blocks, Address, Places
<1>2. CallInv /\ [Next]_vars => CallInv'
  BY StepsOfRequest, RequestKeeps, HeapStep, CallTypesStep DEF CallInv
<1>. QED  BY <1>1, <1>2, PTL DEF Spec

LEMMA AlwaysIdentities == Spec => []IdentityInv
<1>1. Init => IdentityInv
  BY DEF Init, IdentityInv, Obtained
<1>2. IdentityInv /\ [Next]_vars => IdentityInv'
  BY IdentityStep
<1>. QED  BY <1>1, <1>2, PTL DEF Spec

-----------------------------------------------------------------------------
(* Every variable has its type; data_length stays inside response_buffer,  *)
(* with room for the terminator (azrtos_https_client.c:250).               *)
THEOREM TypeCorrect == Spec => []TypeOK
<1>1. CallInv => TypeOK
  BY DEF CallInv, RequestInv, RequestTypes, HeapInv, CallTypes, TypeOK
<1>. QED  BY <1>1, AlwaysCalls, PTL

(* The static response_buffer never answers one request with the bytes of  *)
(* another, for bodies and packets of any size.                            *)
THEOREM ResponsesAreOwn == Spec => []ResponseIsOwn
<1>1. CallInv => ResponseIsOwn
  BY DEF CallInv, RequestInv
<1>. QED  BY <1>1, AlwaysCalls, PTL

(* Every way out of iotconnect_https_request gives back what it took, but  *)
(* for the packet whose append failed.                                     *)
THEOREM NothingIsLeft == Spec => []NothingLeft
<1>1. CallInv => NothingLeft
  BY DEF CallInv, RequestInv, RequestTypes, Held, NothingLeft
<1>. QED  BY <1>1, AlwaysCalls, PTL

(* No way out of iotcdi_obtain_operational_identity loses a block or frees *)
(* one twice, however often it is called and wherever it fails.            *)
THEOREM HeapIsBalanced == Spec => []HeapBalanced
<1>1. CallInv => HeapBalanced
  BY DEF CallInv, HeapInv, HeapBalanced, Blocks
<1>. QED  BY <1>1, AlwaysCalls, PTL

(* The signature that is sent is over the request it is sent with and the  *)
(* challenge of the same call.                                             *)
THEOREM SignaturesMatch == Spec => []SignatureMatches
<1>1. IdentityInv => SignatureMatches
  BY DEF IdentityInv, SignatureMatches, Accepts
<1>. QED  BY <1>1, AlwaysIdentities, PTL

(* Unless a sign response has no certificate, only what the agent issued   *)
(* is stored.                                                              *)
THEOREM OnlyIssuedIsStored == CertsCome => (Spec => []StoredIsIssued)
<1>1. CertsCome /\ IdentityInv => StoredIsIssued
  BY DEF IdentityInv, Obtained, StoredIsIssued
<1>2. CASE CertsCome
  <2>1. IdentityInv => StoredIsIssued
    BY <1>1, <1>2
  <2>. QED  BY <2>1, AlwaysIdentities, PTL
<1>. QED  BY <1>2

(* Nor does a call return 0 without the certificate of its own request     *)
(* being stored and acknowledged.                                          *)
THEOREM SuccessesAreComplete == CertsCome => (Spec => []SuccessIsComplete)
<1>1. CertsCome /\ IdentityInv => SuccessIsComplete
  BY DEF IdentityInv, Obtained, SuccessIsComplete
<1>2. CASE CertsCome
  <2>1. IdentityInv => SuccessIsComplete
    BY <1>1, <1>2
  <2>. QED  BY <2>1, AlwaysIdentities, PTL
<1>. QED  BY <1>2

-----------------------------------------------------------------------------
(* Why every call returns. *)

(* How much of the call, of the request and of the answer is still ahead.  *)
CallAhead(p) ==
  CASE p = "common name" -> 11 [] p = "discovery" -> 10 [] p = "url" -> 9
    [] p = "bootstrap" -> 8 [] p = "auth" -> 7 [] p = "csr" -> 6 [] p = "signature" -> 5
    [] p = "sign" -> 4 [] p = "store" -> 3 [] p = "ack" -> 2 [] p = "cleanup" -> 1
    [] OTHER -> 0

RequestAhead(a) ==
  CASE a = "create" -> 11 [] a = "resolve" -> 10 [] a = "connect" -> 9
    [] a = "initialize" -> 8 [] a = "header" -> 7 [] a = "send" -> 6
    [] a = "allocate" -> 5 [] a = "append" -> 4 [] a = "upload" -> 3
    [] a = "receive" -> 2 [] a = "terminate" -> 1 [] OTHER -> 0

AnswerAhead == length - got

Advances ==
  \/ CallAhead(pc') < CallAhead(pc)
  \/ pc' = pc /\ RequestAhead(at') < RequestAhead(at)
  \/ pc' = pc /\ at' = at /\ AnswerAhead' < AnswerAhead

LEMMA CallAheadIs ==
  /\ CallAhead("discovery") = 10 /\ CallAhead("url") = 9 /\ CallAhead("bootstrap") = 8
  /\ CallAhead("auth") = 7 /\ CallAhead("csr") = 6 /\ CallAhead("signature") = 5
  /\ CallAhead("sign") = 4 /\ CallAhead("store") = 3 /\ CallAhead("ack") = 2
  /\ CallAhead("cleanup") = 1 /\ CallAhead("idle") = 0 /\ CallAhead("dead") = 0
  BY DEF CallAhead

LEMMA CallAheadFirst == CallAhead("common name") = 11
  BY DEF CallAhead

LEMMA RequestAheadIs ==
  /\ RequestAhead("create") = 11 /\ RequestAhead("resolve") = 10
  /\ RequestAhead("connect") = 9 /\ RequestAhead("initialize") = 8
  /\ RequestAhead("header") = 7 /\ RequestAhead("send") = 6 /\ RequestAhead("allocate") = 5
  /\ RequestAhead("append") = 4 /\ RequestAhead("upload") = 3 /\ RequestAhead("receive") = 2
  /\ RequestAhead("terminate") = 1 /\ RequestAhead("idle") = 0 /\ RequestAhead("dead") = 0
  BY DEF RequestAhead

LEMMA RequestAdvances ==
  ASSUME RequestInv, Request
  PROVE  /\ pc' = pc
         /\ \/ RequestAhead(at') < RequestAhead(at)
            \/ at' = at /\ AnswerAhead' < AnswerAhead
<1>1. pc' = pc /\ RequestStep
  BY DEF Request
<1>2. CASE CreateClient
  <2>1. at = "create" /\ at' \in {"resolve", "idle"}
    BY <1>2 DEF CreateClient, Returns
  <2>. QED  BY <1>1, <2>1, RequestAheadIs
<1>3. CASE Resolve
  <2>1. at = "resolve" /\ at' \in {"connect", "idle"}
    BY <1>3 DEF Resolve, Returns
  <2>. QED  BY <1>1, <2>1, RequestAheadIs
<1>4. CASE Connect
  <2>1. at = "connect" /\ at' \in {"initialize", "idle"}
    BY <1>4 DEF Connect, Returns
  <2>. QED  BY <1>1, <2>1, RequestAheadIs
<1>5. CASE Prepare
  <2>1. \/ at = "initialize" /\ at' \in {"header", "send", "idle"}
        \/ at = "header" /\ at' \in {"send", "idle"}
    BY <1>5 DEF Prepare, Returns
  <2>. QED  BY <1>1, <2>1, RequestAheadIs
<1>6. CASE Send
  <2>1. at = "send" /\ at' \in {"allocate", "receive", "idle"}
    BY <1>6 DEF Send, Returns
  <2>. QED  BY <1>1, <2>1, RequestAheadIs
<1>7. CASE AllocatePacket
  <2>1. at = "allocate" /\ at' = "append"
    BY <1>7 DEF AllocatePacket
  <2>. QED  BY <1>1, <2>1, RequestAheadIs
<1>8. CASE AppendPayload
  <2>1. at = "append" /\ at' \in {"upload", "idle", "dead"}
    BY <1>8 DEF AppendPayload, Returns
  <2>. QED  BY <1>1, <2>1, RequestAheadIs
<1>9. CASE SendPayload
  <2>1. at = "upload" /\ at' \in {"receive", "idle"}
    BY <1>9 DEF SendPayload, Returns
  <2>. QED  BY <1>1, <2>1, RequestAheadIs
<1>10. ASSUME NEW n \in 0 .. length - got, ReceivePacket(n) \/ ExtractFails(n)
       PROVE  \/ RequestAhead(at') < RequestAhead(at)
              \/ at' = at /\ AnswerAhead' < AnswerAhead
  <2>1. at = "receive" /\ at' \in {"receive", "terminate"}
    BY <1>10 DEF ReceivePacket, ExtractFails
  <2>2. CASE at' = "terminate"
    BY <2>1, <2>2, RequestAheadIs
  <2>3. CASE at' = "receive"
    <3>1. n # 0 /\ Body!GotMore(n)
      BY <1>10, <2>3 DEF ReceivePacket, ExtractFails
    <3>2. got' = got + n /\ length' = length
      BY <3>1 DEF Body!GotMore
    <3>3. length \in Nat /\ got \in 0 .. length
      BY DEF RequestInv, RequestTypes
    <3>4. AnswerAhead' < AnswerAhead
      BY <3>1, <3>2, <3>3 DEF AnswerAhead
    <3>. QED  BY <2>1, <2>3, <3>4
  <2>. QED  BY <2>1, <2>2, <2>3
<1>11. CASE ReceiveFails
  <2>1. at = "receive" /\ at' = "terminate"
    BY <1>11 DEF ReceiveFails, AfterFailure
  <2>. QED  BY <1>1, <2>1, RequestAheadIs
<1>12. CASE Terminate
  <2>1. at = "terminate" /\ at' = "idle"
    BY <1>12 DEF Terminate, Returns
  <2>. QED  BY <1>1, <2>1, RequestAheadIs
<1>. QED
  BY <1>1, <1>2, <1>3, <1>4, <1>5, <1>6, <1>7, <1>8, <1>9, <1>10, <1>11, <1>12 DEF RequestStep

LEMMA CallAdvances == ASSUME CallInv, Next, pc # "idle" PROVE Advances
<1>1. CASE Request
  BY <1>1, RequestAdvances DEF CallInv, Advances
<1>2. CASE AskDiscovery
  <2>1. pc = "common name" /\ pc' = "discovery"
    BY <1>2 DEF AskDiscovery
  <2>2. CallAhead(pc) = 11 /\ CallAhead(pc') = 10
    BY <2>1, CallAheadFirst, CallAheadIs
  <2>3. CallAhead(pc') < CallAhead(pc)
    BY <2>2
  <2>. QED  BY <2>3 DEF Advances
<1>3. CASE Discovered
  <2>1. pc = "discovery" /\ pc' = "url"
    BY <1>3 DEF Discovered, Answered
  <2>2. CallAhead(pc') < CallAhead(pc)
    BY <2>1, CallAheadIs
  <2>. QED  BY <2>2 DEF Advances
<1>4. CASE ParseUrl
  <2>1. pc = "url" /\ pc' = "bootstrap"
    BY <1>4 DEF ParseUrl
  <2>2. CallAhead(pc') < CallAhead(pc)
    BY <2>1, CallAheadIs
  <2>. QED  BY <2>2 DEF Advances
<1>5. CASE UrlHasNoPath
  <2>1. pc = "url" /\ pc' = "dead"
    BY <1>5 DEF UrlHasNoPath
  <2>2. CallAhead(pc') < CallAhead(pc)
    BY <2>1, CallAheadIs
  <2>. QED  BY <2>2 DEF Advances
<1>6. CASE AskAuth
  <2>1. pc = "bootstrap" /\ pc' = "auth"
    BY <1>6 DEF AskAuth
  <2>2. CallAhead(pc') < CallAhead(pc)
    BY <2>1, CallAheadIs
  <2>. QED  BY <2>2 DEF Advances
<1>7. CASE Authenticated
  <2>1. pc = "auth" /\ pc' = "csr"
    BY <1>7 DEF Authenticated, Answered
  <2>2. CallAhead(pc') < CallAhead(pc)
    BY <2>1, CallAheadIs
  <2>. QED  BY <2>2 DEF Advances
<1>8. CASE GenerateCsr
  <2>1. pc = "csr" /\ pc' = "signature"
    BY <1>8 DEF GenerateCsr
  <2>2. CallAhead(pc') < CallAhead(pc)
    BY <2>1, CallAheadIs
  <2>. QED  BY <2>2 DEF Advances
<1>9. CASE AskSign
  <2>1. pc = "signature" /\ pc' = "sign"
    BY <1>9 DEF AskSign
  <2>2. CallAhead(pc') < CallAhead(pc)
    BY <2>1, CallAheadIs
  <2>. QED  BY <2>2 DEF Advances
<1>10. CASE \E cert \in Certs : Signed(cert)
  <2>1. pc = "sign" /\ pc' = "store"
    BY <1>10 DEF Signed, Answered
  <2>2. CallAhead(pc') < CallAhead(pc)
    BY <2>1, CallAheadIs
  <2>. QED  BY <2>2 DEF Advances
<1>11. CASE StoreCert
  <2>1. pc = "store" /\ pc' = "ack"
    BY <1>11 DEF StoreCert
  <2>2. CallAhead(pc') < CallAhead(pc)
    BY <2>1, CallAheadIs
  <2>. QED  BY <2>2 DEF Advances
<1>12. CASE Acknowledged
  <2>1. pc = "ack" /\ pc' = "cleanup"
    BY <1>12 DEF Acknowledged, Answered
  <2>2. CallAhead(pc') < CallAhead(pc)
    BY <2>1, CallAheadIs
  <2>. QED  BY <2>2 DEF Advances
<1>13. CASE Succeeds
  <2>1. pc = "cleanup" /\ pc' = "idle"
    BY <1>13 DEF Succeeds, Cleanup
  <2>2. CallAhead(pc') < CallAhead(pc)
    BY <2>1, CallAheadIs
  <2>. QED  BY <2>2 DEF Advances
<1>14. CASE AskDiscoveryFails
  <2>1. pc = "common name" /\ pc' = "idle"
    BY <1>14 DEF AskDiscoveryFails, GivesUp, Cleanup
  <2>2. CallAhead(pc) = 11 /\ CallAhead(pc') = 0
    BY <2>1, CallAheadFirst, CallAheadIs
  <2>3. CallAhead(pc') < CallAhead(pc)
    BY <2>2
  <2>. QED  BY <2>3 DEF Advances
<1>15. CASE DiscoveryFails \/ ParseUrlFails \/ AskAuthFails \/ CallFails \/ AskSignFails
            \/ StoreCertFails
  <2>1. /\ pc \in {"discovery", "url", "bootstrap", "auth", "csr", "signature", "sign",
                   "store", "ack"}
        /\ pc' = "idle"
    BY <1>15 DEF DiscoveryFails, ParseUrlFails, AskAuthFails, CallFails, AskSignFails,
       StoreCertFails, Answered, GivesUp, Cleanup
  <2>2. CallAhead(pc') < CallAhead(pc)
    BY <2>1, CallAheadIs
  <2>. QED  BY <2>2 DEF Advances
<1>16. ~Obtain
  BY DEF Obtain
<1>. QED
  BY <1>1, <1>2, <1>3, <1>4, <1>5, <1>6, <1>7, <1>8,
     <1>9, <1>10, <1>11, <1>12, <1>13, <1>14, <1>15,
     <1>16 DEF Next

(* Nothing makes iotcdi_obtain_operational_identity go round for ever: no  *)
(* error repeats a request, and no number of packets is too many, for in   *)
(* each step call, request or answer comes nearer to its end, the first in *)
(* that order that changes.                                                *)
THEOREM CallsAdvance ==
  Spec => [](AnswerAhead \in Nat) /\ [][pc # "idle" => Advances]_vars
<1>1. CallInv => AnswerAhead \in Nat
  <2>. SUFFICES ASSUME CallInv PROVE AnswerAhead \in Nat
    OBVIOUS
  <2>1. length \in Nat /\ got \in 0 .. length
    BY DEF CallInv, RequestInv, RequestTypes
  <2>. QED  BY <2>1 DEF AnswerAhead
<1>2. CallInv /\ [Next]_vars => [pc # "idle" => Advances]_vars
  BY CallAdvances
<1>. QED  BY <1>1, <1>2, AlwaysCalls, PTL DEF Spec
=============================================================================
