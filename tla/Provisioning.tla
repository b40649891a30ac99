---------------------------- MODULE Provisioning ----------------------------
(***************************************************************************)
(* Dynamic device identity (src/iotconnect_di.c): a device with a          *)
(* bootstrap certificate obtains its operational certificate.  Discovery   *)
(* finds the agent (once, its host and path are kept); the agent is shown  *)
(* the bootstrap certificate and answers with a challenge (auth); it is    *)
(* sent a signing request and a signature over challenge and request, and  *)
(* answers with the certificate (sign), which the authentication driver    *)
(* (to_auth_driver.c) stores; then it is told (ack).  Each is a JSON       *)
(* request of HttpsRequest.                                                *)
(*                                                                         *)
(* The agent is external: it issues a certificate for exactly the request  *)
(* it was sent, if the signature is over that and its last challenge, and  *)
(* may refuse anything.  A JSON text that was cut anywhere does not parse. *)
(* The strings with the payloads of the requests are never freed; they are *)
(* left out of `heap`.  The agent's path with a suffix is assumed to fit   *)
(* resource_buffer, which is not checked (lines 34 and 116 to 118).        *)
(***************************************************************************)
EXTENDS HttpsRequest, FiniteSets

CONSTANTS
  Certs,         \* what a sign response may carry: "issued", "garbled", "none"
  MaxAttempts    \* bound on the calls of iotcdi_obtain_operational_identity

ASSUME ProvisioningAssumption ==
  /\ Certs \subseteq {"issued", "garbled", "none"}
  /\ MaxAttempts \in Nat

VARIABLES
  pc,             \* where iotcdi_obtain_operational_identity is
  attempt,        \* number of the call
  ret,            \* "none" while it runs, then "ok" or "error"
  host, path,     \* discovery_agent_host, discovery_agent_path: set or NULL?
  work_buffer,    \* what it holds: [what, of]
  work_size,      \* work_buffer_size: "zero" or "some"
  cert_buffer,    \* the driver's buffer: what it holds
  signature,      \* sign_req.sig: what it holds
  certificate,    \* sign_rsp->cert
  heap,           \* blocks allocated
  lost,           \* a block was allocated over, or freed without being allocated
  challenge,      \* the agent: challenge of its last auth response
  sent,           \* the agent: what it was last asked to sign
  issued,         \* the agent: certificates issued
  stored,         \* the secure element: the operational certificate
  acked           \* the agent: attempts acknowledged

identityVars == <<host, path, work_buffer, work_size, cert_buffer, signature, certificate>>
heapVars == <<heap, lost>>
agentVars == <<challenge, sent, issued, stored, acked>>
vars == <<httpVars, pc, attempt, ret, identityVars, heapVars, agentVars>>

Attempts == 1 .. MaxAttempts
Item(what, of) == [what |-> what, of |-> of]
Nothing == Item("nothing", 0)

Init ==
  /\ RequestInit
  /\ pc = "idle" /\ attempt = 0 /\ ret = "none"
  /\ host = FALSE /\ path = FALSE
  /\ work_buffer = Nothing /\ work_size = "zero"
  /\ cert_buffer = Nothing /\ signature = Nothing /\ certificate = "none"
  /\ heap = {} /\ lost = FALSE
  /\ challenge = 0 /\ sent = [csr |-> Nothing, sig |-> Nothing] /\ issued = {} /\ stored = Nothing /\ acked = {}

-----------------------------------------------------------------------------
(* Blocks. *)

Replaced(freed, made) ==
  /\ heap' = (heap \ freed) \cup made
  /\ lost' = (lost \/ ~(freed \subseteq heap) \/ (heap \ freed) \cap made # {})
Allocated(made) == Replaced({}, made)
Freed(freed) == Replaced(freed, {})

(* The blocks discovery_agent_host and discovery_agent_path point to. *)
Address == (IF host THEN {"host"} ELSE {}) \cup (IF path THEN {"path"} ELSE {})

(* cleanup: what was made by this call is freed, and it returns. *)
MadeHereNoSig == heap \cap {"auth_rsp", "sign_rsp", "ack_rsp"}   \* variant: sig is forgotten
MadeHere == heap \cap {"auth_rsp", "sign_rsp", "ack_rsp", "sig"}
Cleanup(made, result) ==
  /\ Freed(made)
  /\ ret' = result
  /\ pc' = "idle"
  /\ signature' = Nothing /\ certificate' = "none"

(* goto cleanup with an error, from any place where it fails. *)
GivesUpOk == Cleanup(MadeHere, "ok")    \* variant: ret is not set
GivesUp == Cleanup(MadeHere, "error")

-----------------------------------------------------------------------------
(* The agent's address. *)

Obtain ==
  /\ pc = "idle" /\ attempt < MaxAttempts
  /\ attempt' = attempt + 1
  /\ ret' = "none"
  /\ pc' = IF host /\ path THEN "bootstrap" ELSE "common name"
  /\ UNCHANGED <<httpVars, identityVars, heapVars, agentVars>>

(* discovery_call up to its request; the common name may not be found or   *)
(* not be split, and the resource string not be allocated.                 *)
AskDiscovery ==
  /\ pc = "common name"
  /\ Ask(FALSE)
  /\ Allocated({"discovery_path"})
  /\ pc' = "discovery"
  /\ UNCHANGED <<attempt, ret, identityVars, agentVars>>

AskDiscoveryFails ==
  /\ pc = "common name"
  /\ GivesUp
  /\ UNCHANGED <<httpVars, attempt, host, path, work_buffer, work_size, cert_buffer, agentVars>>

(* The request runs. *)
Requesting == pc \in {"discovery", "auth", "sign", "ack"}
Request ==
  /\ Requesting
  /\ RequestStep
  /\ UNCHANGED <<pc, attempt, ret, identityVars, heapVars, agentVars>>

Answered(call) == pc = call /\ at = "idle"

(* A response with an agent URL: what discovery_agent_host and _path held  *)
(* is freed, and a copy of the URL made.                                   *)
Discovered ==
  /\ Answered("discovery") /\ Whole /\ ~Empty
  /\ Replaced({"discovery_path"} \cup Address, {"discovery_rsp", "agent_url"})
  /\ host' = FALSE /\ path' = FALSE
  /\ pc' = "url"
  /\ UNCHANGED <<httpVars, attempt, ret, work_buffer, work_size, cert_buffer, signature,
                 certificate, agentVars>>

(* ... or the request failed, nothing came, it did not parse, or it has no *)
(* agent URL.                                                              *)
DiscoveryFails ==
  /\ Answered("discovery")
  /\ Cleanup(MadeHere \cup {"discovery_path"}, "error")
  /\ UNCHANGED <<httpVars, attempt, host, path, work_buffer, work_size, cert_buffer, agentVars>>

(* parse_discovery_host_and_path, and what discovery_call does after it.   *)
ParseUrl ==
  /\ pc = "url"
  /\ host' = TRUE /\ path' = TRUE
  /\ Replaced({"agent_url", "discovery_rsp"}, {"host", "path"})
  /\ pc' = "bootstrap"
  /\ UNCHANGED <<httpVars, attempt, ret, work_buffer, work_size, cert_buffer, signature,
                 certificate, agentVars>>

(* The host cannot be allocated: the path is freed and forgotten.          *)
PathIsForgotten == path' = FALSE

ParseUrlFails ==
  /\ pc = "url"
  /\ PathIsForgotten /\ UNCHANGED host
  /\ Cleanup(MadeHere \cup {"agent_url", "discovery_rsp"}, "error")
  /\ UNCHANGED <<httpVars, attempt, work_buffer, work_size, cert_buffer, agentVars>>

(* A URL with no "/" after the host: strlen(NULL). *)
UrlHasNoPath ==
  /\ pc = "url"
  /\ pc' = "dead"
  /\ UNCHANGED <<httpVars, attempt, ret, identityVars, heapVars, agentVars>>

-----------------------------------------------------------------------------
(* Authentication with the bootstrap certificate. *)

(* The driver reads the certificate to its buffer; its hex digits are in   *)
(* work_buffer when the payload is made of it.                             *)
AskAuth ==
  /\ pc = "bootstrap"
  /\ cert_buffer' = Item("bootstrap", 0)
  /\ work_buffer' = cert_buffer' /\ work_size' = "some"
  /\ Ask(TRUE)
  /\ pc' = "auth"
  /\ UNCHANGED <<attempt, ret, host, path, signature, certificate, heapVars, agentVars>>

(* The certificate cannot be read, or its digits do not fit. *)
AskAuthFails ==
  /\ pc = "bootstrap"
  /\ \/ UNCHANGED <<cert_buffer, work_buffer, work_size>>
     \/ /\ cert_buffer' = Item("bootstrap", 0)
        /\ work_buffer' = Nothing /\ work_size' = "zero"
  /\ GivesUp
  /\ UNCHANGED <<httpVars, attempt, host, path, agentVars>>

(* ddim_call_auth succeeds: a challenge (cid, rn) and a common name. *)
Authenticated ==
  /\ Answered("auth") /\ Whole /\ ~Empty
  /\ challenge' = attempt
  /\ Allocated({"auth_rsp"})
  /\ pc' = "csr"
  /\ UNCHANGED <<httpVars, attempt, ret, identityVars, sent, issued, stored, acked>>

(* The request failed, nothing came or nothing that parses, the agent      *)
(* refuses, or something is missing.                                       *)
CallFails ==
  /\ \E call \in {"auth", "sign", "ack"} : Answered(call)
  /\ GivesUp
  /\ UNCHANGED <<httpVars, attempt, host, path, work_buffer, work_size, cert_buffer, agentVars>>

-----------------------------------------------------------------------------
(* The signing request. *)

GenerateCsr ==
  /\ pc = "csr"
  /\ cert_buffer' = Item("csr", attempt)
  /\ pc' = "signature"
  /\ UNCHANGED <<httpVars, attempt, ret, host, path, work_buffer, work_size, signature,
                 certificate, heapVars, agentVars>>

(* The hash of challenge and csr_bin is signed; the hex digits of the      *)
(* signature are copied from work_buffer, then those of the CSR are made   *)
(* there, and the payload is made of both.                                 *)
SignatureOver(item, nonce) == [what |-> "signature", of |-> item, challenge |-> nonce]

SignatureInPlace == signature' = work_buffer'    \* variant: lines 484 to 489 are missing
SignatureCopied == signature' = SignatureOver(cert_buffer, challenge)

AskSign ==
  /\ pc = "signature"
  /\ work_buffer' = cert_buffer /\ work_size' = "some"
  /\ SignatureCopied
  /\ Allocated({"sig"})
  /\ sent' = [csr |-> work_buffer', sig |-> signature']
  /\ Ask(TRUE)
  /\ pc' = "sign"
  /\ UNCHANGED <<attempt, ret, host, path, cert_buffer, certificate, challenge, issued,
                 stored, acked>>

(* No CSR, no hash or signature, no memory for it, or digits that do not   *)
(* fit: those of the CSR only after the signature was copied.              *)
AskSignFails ==
  /\ \/ pc \in {"csr", "signature"} /\ UNCHANGED <<work_buffer, work_size>>
     \/ /\ pc = "signature"
        /\ \/ work_buffer' = Nothing /\ work_size' = "zero"
           \/ work_buffer' = SignatureOver(cert_buffer, challenge) /\ work_size' = "some"
  /\ UNCHANGED cert_buffer
  /\ GivesUp
  /\ UNCHANGED <<httpVars, attempt, host, path, agentVars>>

(* The agent accepts what it was sent, and issues a certificate for it; or *)
(* its response carries something else, or nothing, in its place.          *)
Accepts == sent.sig = SignatureOver(sent.csr, challenge)

Signed(cert) ==
  /\ Answered("sign") /\ Whole /\ ~Empty
  /\ cert = "issued" => Accepts
  /\ certificate' = cert
  /\ issued' = IF cert = "issued" THEN issued \cup {Item("certificate", sent.csr.of)} ELSE issued
  /\ Allocated({"sign_rsp"})
  /\ pc' = "store"
  /\ UNCHANGED <<httpVars, attempt, ret, host, path, work_buffer, work_size, cert_buffer,
                 signature, challenge, sent, stored, acked>>

-----------------------------------------------------------------------------
(* The certificate. *)

(* hex_to_bin: without a string it returns before it touches               *)
(* work_buffer_size, which is all that is tested afterwards.               *)
SizeOfGarbledKept == IF certificate = "issued" THEN "some" ELSE work_size   \* variant: line 79 is missing
SizeConverted ==
  CASE certificate = "issued" -> "some" [] certificate = "garbled" -> "zero"
    [] OTHER -> work_size

Converted ==
  CASE certificate = "issued" -> Item("certificate", sent.csr.of)
    [] certificate = "garbled" -> Item("garbage", 0)
    [] OTHER -> work_buffer

StoreCert ==
  /\ pc = "store"
  /\ work_buffer' = Converted /\ work_size' = SizeConverted
  /\ work_size' = "some"
  /\ stored' = work_buffer'
  /\ Ask(TRUE)
  /\ pc' = "ack"
  /\ UNCHANGED <<attempt, ret, host, path, cert_buffer, signature, certificate, heapVars,
                 challenge, sent, issued, acked>>

(* The certificate is no hex string, or the secure element refuses it. *)
StoreCertFails ==
  /\ pc = "store"
  /\ work_buffer' = Converted /\ work_size' = SizeConverted
  /\ GivesUp
  /\ UNCHANGED <<httpVars, attempt, host, path, cert_buffer, agentVars>>

(* ddim_call_ack succeeds: the agent has been told. *)
Acknowledged ==
  /\ Answered("ack") /\ Whole /\ ~Empty
  /\ acked' = acked \cup {challenge}
  /\ Allocated({"ack_rsp"})
  /\ pc' = "cleanup"
  /\ UNCHANGED <<httpVars, attempt, ret, identityVars, challenge, sent, issued, stored>>

Succeeds ==
  /\ pc = "cleanup"
  /\ Cleanup(MadeHere, "ok")
  /\ UNCHANGED <<httpVars, attempt, host, path, work_buffer, work_size, cert_buffer, agentVars>>

Next ==
  \/ Obtain \/ Request
  \/ AskDiscovery \/ AskDiscoveryFails \/ Discovered \/ DiscoveryFails
  \/ ParseUrl \/ ParseUrlFails \/ UrlHasNoPath
  \/ AskAuth \/ AskAuthFails \/ Authenticated \/ CallFails
  \/ GenerateCsr \/ AskSign \/ AskSignFails \/ \E cert \in Certs : Signed(cert)
  \/ StoreCert \/ StoreCertFails \/ Acknowledged \/ Succeeds

Spec == Init /\ [][Next]_vars
FairSpec == Spec /\ WF_vars(Next)

-----------------------------------------------------------------------------
(* Properties. *)

TypeOK ==
  /\ at \in {"idle", "create", "resolve", "connect", "initialize", "header", "send",
            "allocate", "append", "upload", "receive", "terminate", "dead"}
  /\ response \in [0 .. BufferSize - 1 -> Nat \cup {Stale}]
  /\ data_length \in 0 .. BufferSize - 1
  /\ upload \in {"none", "held", "wild", "lost"} /\ outcome \in {"none", "ok", "error"}
  /\ stream \in {"idle", "open", "done", "failed"} /\ got \in 0 .. length
  /\ ret \in {"none", "ok", "error"} /\ work_size \in {"zero", "some"}
  /\ lost \in BOOLEAN

(* Whatever came, and whatever the buffer held before, a request that      *)
(* returned leaves a terminated string in it: the start of its own answer, *)
(* and the empty string if it failed.                                      *)
ResponseIsOwn ==
  at = "idle" /\ outcome # "none" =>
    \E n \in DOMAIN response :
      /\ IsText(n)
      /\ \A i \in 0 .. n - 1 : response[i] = i + 1
      /\ n <= IF outcome = "ok" THEN got ELSE 0

(* Whichever way a request returned, nothing of it is left behind: no      *)
(* client, no packet of the answer, no current_request; and no packet of   *)
(* the payload, unless appending it failed.                                *)
NothingLeft ==
  at = "idle" =>
    /\ client = "none" /\ ~receive_packet /\ ~current_request
    /\ upload \in {"none", "lost"}
    /\ upload = "lost" /\ has_payload => outcome # "ok"

(* Whichever of its nineteen ways out a call takes, it frees what it made  *)
(* and nothing twice: what stays is the agent's host and path.  They are   *)
(* known together or not at all when the function is entered again, and    *)
(* both whenever a path is appended to them.                               *)
HeapBalanced ==
  /\ ~lost
  /\ pc = "idle" => heap = Address /\ host = path
  /\ pc \in {"auth", "sign", "ack"} => host /\ path

(* The signature sent to the agent is over the very CSR it is sent with    *)
(* and over the challenge of the same call, although bootstrap             *)
(* certificate and CSR share the driver's buffer and all hex strings share *)
(* work_buffer.                                                            *)
SignatureMatches == pc = "sign" => Accepts /\ sent.csr = Item("csr", attempt)

(* The secure element only ever stores a certificate the agent issued.     *)
StoredIsIssued == stored \in issued \cup {Nothing}

(* A call that returns 0 stored the certificate of its own CSR, and the    *)
(* agent was told so.                                                      *)
SuccessIsComplete ==
  pc = "idle" /\ ret = "ok" => stored = Item("certificate", attempt) /\ attempt \in acked

(* As long as the peer answers or fails, every call returns (or the        *)
(* program is dead).                                                       *)
CallReturns == [](pc # "idle" => <>(pc \in {"idle", "dead"} \/ at = "dead"))
=============================================================================
