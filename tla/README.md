# IoTConnect Azure RTOS SDK: specifications and proofs

This directory holds TLA+ models of the SDK in `src/iotc-azrtos-sdk` and of the
parts of the samples that decide how a board starts and stores firmware, the TLC
configurations that check them, and proofs that TLAPS checks. `PROJECT.json` maps
every definition to the source lines it stands for.

## 1. The system

The SDK connects a device that runs Azure RTOS (ThreadX, NetX Duo) to
IoTConnect and Azure IoTHub, and updates its firmware. There is one application
thread in all samples, the thread of the Azure IoT middleware, and, when an
application follows `azrtos_iothub_client.h:39`, a receiver thread. Nothing in
the SDK is locked; all its state is in file-scope variables.

| Component | State | Operations | Hard behaviour |
|---|---|---|---|
| Download client `azrtos_download_client.c` | `file_size`, `file_bytes_received`, `data_length`, buffer, retry counter | `iotc_download`, header callback, `get_file_size`, `get_bytes_in_range`, `get_response` | responses cut anywhere, retries, resume from static state, aborts from the callback |
| Web HTTP client `nx_web_http_client.c` (a copy changed for the SDK) | connection, response state, byte counts, keep-alive; for chunked bodies the packet held and what is left of chunk and packet | create, secure connect, request send, response body get, delete | is the next record a header or body? a chunk, a size line, a CRLF cut over two packets; a packet pool that runs out |
| HTTPS JSON requests `azrtos_https_client.c` | static `response_buffer`, `current_request` | `iotconnect_https_request` | one buffer for all answers, many ways out |
| OTA firmware client `azrtos_ota_fw_client.c` | `adu_driver`, `firmware_ready` | download, apply, cancel, event handler | order of calls, failure in the middle, resume |
| Flash drivers of STM32L4 and SAM E54 | write position, carried remainder, flash, boot bank | PREPROCESS, WRITE, INSTALL, APPLY | chunks that are no multiple of a flash word, power loss, refused words, a resumed update |
| IoTHub client `azrtos_iothub_client.c` | `is_connected`, `is_disconnect_requested`, config, middleware object and client | init, disconnect, send, receive, status callback | callback on another thread, many ways to fail, teardown from inside the receive loop |
| SDK entry points `iotconnect.c` | discovery and sync responses, last result, library config | init, poll, Loop, disconnect, message intercept | pointers into responses that ON_FORCE_SYNC frees |
| DDIM identity provisioning `iotconnect_di.c` | agent's host and path, `work_buffer` and its size, the driver's `cert_buffer` | `iotcdi_obtain_operational_identity` with discovery, auth, sign, ack | four requests over one buffer, eighteen error exits, retries |
| CK-RX65N secure boot `secure_boot.c` | key block and its mirror in flash, image in RAM | status, key generation, install, check, recover | power loss and flash errors between the two copies; a lifecycle that must not go back |
| SNTP time `azrtos_time.c` | `unix_time_base`, static SNTP client | `sntp_time_sync`, `set_time`, `unix_time_get` | 32-bit seconds and 32-bit ticks that wrap, retries, endless lookups |
| Main threads of the samples `main.c` | none of their own | network, time, application, reset | on the CK-RX65N a failure from DNS on resets the board; what fails before, and on the STM32L4 DHCP and DNS, ends the thread for good |
| Sample application `iotconnect_app.c` | rounds of the session | `app_startup` loop, `publish_telemetry`, callbacks | renews the session for ever |
| ADU wrapper, authentication drivers, crypto tables, signature conversion, malloc pool, certificates, boards | see section 6 | | |

Interactions. The main thread runs secure boot (CK-RX65N), the network, SNTP and
then the application. With DDIM the application first obtains its identity by
HTTPS requests; then it calls the SDK, which makes HTTPS requests (discovery,
sync) and starts the IoTHub client; messages come back through
`iothub_c2d_receive` -> `on_iothub_data` -> the C library -> `on_message_intercept`,
which may disconnect from within. An OTA message makes the application call
`iotc_ota_fw_download`, which runs `iotc_download` with an event handler that
feeds the flash driver; `iotc_ota_fw_apply` switches the boot bank and resets.
`iotc_download` runs as a custom handler inside `iotconnect_https_request`.

What makes the components correct:

* download: what is handed over is a true prefix of the file, in order; success
  means the whole file; a resumed call goes on where the last one stopped;
  every call returns if the server answers;
* web client: the body is handed over once and in order however it is cut; every
  packet is released once;
* requests and provisioning: an answer is the answer to this request; every way
  out frees what it made; only an issued certificate is stored;
* firmware: the board can always boot a whole image; firmware is ready only when
  every byte of it is in flash; no failure locks the client;
* session: every way out gives back what was made; no pointer is used after its
  block was freed; the flag, the application's last status and the real
  connection agree; a lost connection is noticed;
* start: the keys are generated once, wiped, and survive the loss of a copy; the
  clock is right until the ticks wrap, and late by no more than they lose; no
  retry or reset goes round for ever.

`PROJECT.json` lists under `hazards` where each of these can go wrong.

## 2. Modules

| Module | Models | Notes |
|---|---|---|
| `WebClient` | the web client's connection and responses of a given length | state and operators only; `wire` is the list of responses the server has written and the client has not taken; a record is any first part of it |
| `DownloadClient` (EXTENDS `WebClient`) | the download client | `pc` is where `iotc_download` is; one action per receive, request, event; local variables `size`, `i` are `size`, `tries` |
| `FileTransfer` | abstract: what a download promises | `DownloadClient!Transfers` is `FT!Spec` under a refinement mapping |
| `ChunkedBody` | the web client's decoder of chunked responses | bytes are tokens (digit, `;`, CR, LF, byte of the body); packets are identities |
| `BodyStream` | abstract: what `response_body_get` promises its caller | implemented by `ChunkedBody` (`KeepsPromise`), used by `HttpsRequest` |
| `HttpsRequest` | one GET or POST with its receive loop | the answer's bytes are 1, 2, ...; 0 ends a string; what was left in the buffer is `Stale` |
| `Provisioning` (EXTENDS `HttpsRequest`) | identity provisioning | a buffer holds an item [what, of which attempt]; `heap` is the set of named blocks |
| `OtaFirmware` | OTA client over either flash driver | flash is a function from bank and address to a byte of an image; `Reset` is both the intended reset and a power loss |
| `FirmwareUpdate` | abstract: an update is atomic | `OtaFirmware!UpdatesAtomically` is `FU!Spec` under a mapping |
| `HubSession` | `iotconnect.c`, the IoTHub client, the sample's loop | a program counter per thread; heap blocks are identities, so a dangling pointer is one not in `heap`; `misuses` records calls that the callee forbids |
| `SecureBoot`, `TimeSync` | secure boot; the clock | actions without a Next of their own |
| `Startup` (EXTENDS both) | main threads of the CK-RX65N and the STM32L4 | composes the two with network, application and reset |
| `MCDownload`, `MCChunked`, `MCProvisioning`, `MCOta`, `MCSession`, `MCStartup` | values of the constants for TLC | |
| `*Proofs` | TLAPS proofs | section 5 |

Definitions marked *variant* are plausible mistakes (a missing reset, an
off-by-one). They are not used by the specification; putting one in the place of
the definition after it must break the property named in `PROJECT.json`.

### State and actions against the code

*Download.* `Begin`/`BeginFails` are `iotc_download` and the connection part of
`iotconnect_https_request`; `SendHead`, `HeadDone`, `HeadFails` are
`get_file_size` with the header callback and the FILE_SIZE event; `SendRange`
and `Receive...` are one turn of the loop in `request_handler` with
`get_bytes_in_range` and `get_response`; `DataEvent` is the DATA event with the
callback's answer; `End` is the return. `image` is a history variable: what the
event handler was given, by offset. The buffer keeps its old content between
attempts, as the static buffer does.

*Chunked responses.* `pc` is the byte the decoder waits for: `ReadDigit`,
`StartExtension`, `SkipExtension`, `EndSizeLine` are `chunked_size_get`;
`TakeChunk`, `EndOfBody`, `ReadChunkEnd`, `KeepRest` are `response_chunked_get`
with `response_byte_expect`; `Receive` is the loop of `response_read` that
releases a packet read to its end and receives another; `ReceiveHeader`,
`CallAgain`, `ReturnChunk`, `Finish`, `GivesUp` are `response_body_get` and the
caller's receive loop.

*Requests.* One action per call of the web client in `iotconnect_https_request`,
each of which may fail: `Ask`, `CreateClient`, `Resolve`, `Connect`, `Prepare`,
`Send`, `AllocatePacket` (its status is not assigned in the code, so a failure
goes on with a pointer nobody set), `AppendPayload`, `SendPayload`,
`ReceivePacket`, `ExtractFails`, `ReceiveFails`, `Terminate`.

*Provisioning.* `Obtain` enters `iotcdi_obtain_operational_identity`; `Ask...`
prepares a request, `Request` is a step of it, `Discovered`, `Authenticated`,
`Signed`, `Acknowledged` read the answers; `ParseUrl...`, `GenerateCsr`,
`Converted`, `StoreCert` are the work in between; every failure is `GivesUp`,
which is the code's `cleanup`.

*Firmware.* `DownloadBegins`/`DownloadRefused`, `SizeEvent`, `DataEvent`, their
failing forms, `DownloadFails`, `Apply`, `ApplyFails`, `Cancel`, `Reset`. On the
SAM E54 `SizeEventUnchecked`, `WriteAtOffset` and its failing form take the place
of the STM32L4's: that driver tests no size, erases nothing at the start and
writes each chunk at the offset of the event. The download client appears by its
promise (`FileTransfer`): size, then chunks in order. A chunk's words are
programmed in one step; a power loss between two words is `DataEventFails`
followed by `Reset`.

*Session.* `InitSdk` ... `InitLibrary` are `iotconnect_sdk_init`; `PrepareHub`,
`Connect`, `Connected` and their failures are `iothub_client_init`, cut where the
thread waits or where another may come between; `Disconnect`, `Mark`, `Unlink`,
`Teardown` are the four places of `iothub_client_disconnect` between which
another thread may run; `Receive`, `Handle`, `ForceSync...`, `Report` are the
receive call and the intercept; `StatusCallback` runs on the middleware's thread.

*Start.* A copy of the key block is [lifecycle, keys, hash], its hash being what
it was made of. `Restore`, `Blank`, `Updating`, `OnTheMarket`, `Illegal` are
`tsip_keyring_restore` and the switch of `check_secure_boot_status`; `Generate`
the key generation; `Erase` and `Write` one copy's update, with `EraseFails`,
`WriteFails` and `CutShort` (what the flash holds when power or flash fails
midway); `CheckPassed`, `RecoverMirror`, `RecoverMain`, `CompletelyBroken`,
`OverTheLimit` the loop of `check_dataflash_area`. `SyncTime`, `Lookup`,
`CreateSntp`, `InitializeSntp`, `RunSntp`, `Updated`, `NotUpdated`,
`NeverUpdated` are `sntp_time_sync`, `TryAgain` its loop in main. `Stop` is every
end of the main thread before it has a DNS client: the data flash or the TSIP not
opened and DHCP not made on the CK-RX65N, a failed `dhcp_wait` or `dns_create` on
the STM32L4; the board is then "stopped" until somebody turns it off and on. Real
time (`now`) and the tick counter advance together, also while SNTP is awaited;
the counter is a ULONG, and `wraps` is a history variable: how often it has
wrapped since the base was set.

## 3. Runs

All runs use 2 workers; each ends within two minutes.

| Run | What it shows | Bounds |
|---|---|---|
| `download` | prefix, whole file, nothing left over, refinement of `FileTransfer`; server may refuse, fall silent, close, cut anywhere; connection may be lost; caller may abort | one file of 5 bytes, buffer 2 (three chunks, the last short), 2 attempts, 3 calls |
| `download_returns` | every call returns, and the web client never takes body for header, with a server that answers well or badly | the same, 2 calls, header alone and whole-file answers allowed |
| `chunked` | the decoder keeps its place, the packet pool is balanced, refinement of `BodyStream`, the loop ends; connection may be lost and the pool run out at any packet | bodies of up to two chunks of up to 3 bytes and 3 bytes of two digits, sizes in base 2, with and without extension and leading zero; one form of response that lacks a CRLF; 3 packets |
| `provisioning` | buffers, blocks, packets and certificates of three attempts, and every attempt returns | answers of 0, 2, 4 and 5 bytes, buffer 4; certificate issued or garbled; any call may fail |
| `missing_certificate` (violation) | a sign response without certificate: what the work buffer held is stored | the same with "none" allowed |
| `ota` | whole images only, legal writes, stuck only by a download over ready firmware, refinement of `FirmwareUpdate`, on both boards | images of 16, 11 and 17 bytes, bank 16, page 8, word 4, chunk 5, 3 downloads, power loss anywhere; resumed downloads on the SAM E54 |
| `ota_resume` (violation) | on the STM32L4 a resumed update is erased and declared ready | |
| `session` | every way out of a session gives everything back; no misuse; configuration stays allocated; status told is true; a failed start is explained by its own result | 3 sessions, 2 rounds, 3 messages, polling or with a receiver thread |
| `session_drops` | memory safety, no live link given up, no dead one believed for ever, with losses at any moment | 2 sessions, 2 rounds, 2 messages |
| `session_own_thread` (violation) | the client is deleted twice when two threads disconnect | receiver thread handles ON_CLOSE |
| `startup` | keys, wiping, mirror, clock, and that the application is started in the end unless the thread ended before | 4 faults (refused erase or write, failed key generation, power loss) anywhere; words of 3 bits, epoch 5, 2 ticks a second, start at tick 14 so that the seconds wrap after two ticks and the ticks after eight; 2 calls of SNTP, 1 wait, 9 ticks |
| `startup_main_cut` (violation) | when main is torn the intact mirror is declared broken, too | 1 fault |

Why the bounds are enough. Download: three chunks give a first, a middle and a
short last one, two attempts a retry that fails and one that succeeds, three
calls a fresh, a failed and a resumed one; the state carried between calls is one
offset. Chunked: every cut of every response is taken, so each line, chunk and
CRLF is split at each of its bytes; a second chunk shows that the first left the
decoder where it should; the client holds at most two packets at a time,
so three always leave it another one. Provisioning: 0 is the
empty answer, 2 fits, 4 is one too long for the terminator, 5 is longer; the
three attempts are one that fails before the agent is known, one that fails
after, and one that finds its address kept. Firmware: 16 and 11 bytes in chunks
of 5 with words of 4 make every case of the remainder (none, carried, carried
again because the next chunk does not fill the word, completed by it, flushed,
with whole words in between and without); one image fills the bank and one does
not fit; after three downloads both banks have been written. Session: what one
session can leave for the next are two pointers, three flags and the object, so
two sessions show every hand-over and the third one that it repeats; six blocks
hold two responses in use, two dangling and two new ones. The 50 rounds of the
sample are 2, a round that ends in a message and one that does not. In the mode
with a receiver thread the passing runs send no message that disconnects:
`session_own_thread` shows what happens when one does. Start: an installation is
two updates of two copies, a recovery one; four faults can hit installation,
release, a recovery and the one after it; nine ticks take the counter of eight
through a wrap, before the synchronisation or after it.

`MayDrop = FALSE` in `session`: after a loss the status callback clears
`is_connected` and nothing deletes the client, so the next
`iothub_client_disconnect` does nothing and the next session creates its object
over the old one (the two lines that would clean up are commented out at
`azrtos_iothub_client.c:72-73`). `NothingHeld` cannot hold then, and
`MemorySafe` excepts exactly `created_twice`. For the same reason an
ON_FORCE_SYNC fetched after a loss frees the host name the remaining client
points to.

Deadlock is not checked where the system may stop: the download client waits for
ever on a silent server, the models' calls and ticks are bounded, a request that
writes to a pointer nobody set may end the program, and `app_startup` returns
when the device is not connected.

### What the passing runs leave out on purpose

Each of these conditions excludes a behaviour of the code that breaks a property.
Each can be seen by the change named.

| Excluded | Where it comes from | To see it |
|---|---|---|
| a response header in a TLS record of its own ends `get_response` with success | `azrtos_download_client.c`, first record taken as the answer | `HeaderAlone = TRUE` in `MCDownload.cfg`: `NoLeftover` |
| the offset of one file is used for another | `file_bytes_received` is static | `Files <- TwoFiles`, `SizeOf <- SizesTwo`, `MaxSize = 4`: `PrefixIntact` |
| a server that ignores Range, or spells `content-length` otherwise | `azrtos_download_client.c:286`, `:74` | `Answers = {"range", "full"}` or `HeadLengths = {"exact", "unseen"}`: `SuccessIsWholeFile` |
| a download over ready firmware locks the client | `azrtos_ota_fw_client.c:85` | `INVARIANT NotStuck` in `MCOta.cfg` |
| a resumed update on the STM32L4 | FILE_SIZE is reported again and erases | run `ota_resume` |
| two threads that disconnect | `iothub_client_disconnect` tests a flag and acts later | run `session_own_thread` |
| a sign response without certificate | the size tested is that of the CSR | run `missing_certificate` |
| an update of main that is cut short | the mirror's check hashes the image | run `startup_main_cut` |

Three more that no property excludes, all in the models. The tick counter wraps,
every 497 days at 100 ticks a second, and `unix_time_get` then goes back by as
much, although the comment at `azrtos_time.c:170` says "Return number of seconds
since Unix Epoch" (`ClockRight` says exactly how late it is; with `Late == 0` it
fails). After a refused range the remaining retries run without a connection, and
fail. And `iotconnect_sdk_init` returns 0, its value for success, when the C
library cannot be initialised (`iotconnect.c:359`) or the connection fails
(`azrtos_iothub_client.c:282`).

## 4. Fairness

`DownloadClient!FairSpec`: `WF_vars(Download)`. ThreadX runs a ready thread on;
the thread blocks only in a receive with `NX_WAIT_FOREVER`, which is disabled in
the model while the server owes an answer. `Terminates` is therefore checked with
servers that answer; with a silent one the call never returns, and no document
promises that it does. Losing the connection and closing it carry no fairness.

`ChunkedBody!FairSpec` and `Provisioning!FairSpec`: `WF_vars(Next)`. There is one
thread, whose steps are all there is, and the peer of a receive that waits is
assumed to send or to close: `ReceiveFails` is enabled when it has sent all. In
`Provisioning` the callees of the request are assumed to return. Nothing obliges
any of them to succeed.

`HubSession!FairSpec`: weak fairness of the application thread, of the receiver
thread and of the status callback: ThreadX is preemptive and each of the
middleware's calls, `connect` with `NX_WAIT_FOREVER` included, is assumed to
return. Messages and losses carry no fairness. `LossIsNoticed` is not free: when
a loss is notified between the return of `connect` and
`is_connected = true` (`azrtos_iothub_client.c:286`) the flag stays true over a
dead link until the rounds of the session run out.

`Startup!FairSpec`: weak fairness of the main thread's own steps, of the reset
and of somebody who turns a stopped board off and on; strong fairness of
`Network` and of the lookup of the time server; on the CK-RX65N also of the
success of each further step of SNTP. That board retries all of these by its
resets, so there `StartsUp` says that the retries are enough: no failure leaves
it where one could not succeed. The STM32L4 needs no time server, because it sets
a time of its own after its calls have failed; it does not retry DHCP and DNS: it
stops, and `Stop` carries no fairness, so `StartsUp` counts "stopped" as an end
like the application's. The strong fairness of `Network` says only that not every
attempt of those who turn the board on again ends in `Stop`. That lookups succeed
is an assumption about the name server: as long as they fail, or give an address
that ends in 0, the loop at `azrtos_time.c:64` goes round, and `StartsUp` does not
cover that. Faults of power and flash are finitely many by the bound, and carry no
fairness.

## 5. Proofs

TLAPS proves these for every value of the constants that the named assumptions of
the modules allow; TLC evaluates the assumptions on every run.

| Module | Theorems | Condition |
|---|---|---|
| `DownloadProofs` | `TypeCorrect`, `NeverOutOfStep` | |
| `DownloadPrefixProofs` | `PrefixCorrect`, `SuccessCorrect`, `NothingLeftOver`, `TransfersRefine` (the refinement) | `Cooperative`, `OneFileOnly` |
| `ChunkedProofs` | `TypeCorrect`, `PoolIsBalanced`, `PlaceIsNeverLost`, `PromiseIsKept` (the refinement), `StepsRunOut` | |
| `OtaProofs` | `TypeCorrect`, `NothingElseSticks` | |
| | `OnlyWholeIsReady`, `FlashIsObeyed`, `UpdatesAreAtomic` (the refinement) | `NeverResumed` |
| `SessionProofs` | `TypeCorrect` | |
| | `MemoryIsSafe`, `LinksAreKept`, `TornDownOnlyOnce`, `FailuresAreExplained` | `NoOwnDisconnect` |
| | `NothingIsMisused`, `NothingIsHeld`, `StatusIsTrue` | `NoOwnDisconnect`, no loss |
| `ProvisioningProofs` | `TypeCorrect`, `ResponsesAreOwn`, `NothingIsLeft`, `HeapIsBalanced`, `SignaturesMatch`, `CallsAdvance` | |
| | `OnlyIssuedIsStored`, `SuccessesAreComplete` | `CertsCome` |
| `StartupProofs` (with `SecureBootProofs`) | `TypeCorrect`, `BootHasKeys`, `KeysAreWiped`, `MirrorIsExpendable`, `KeysAreGeneratedOnce`, `ClockIsAlwaysRight`, `ClientIsDeleted`, `AppStartsReady` | |

The conditions are needed. `NeverResumed` (an STM32L4 never resumes),
`NoOwnDisconnect` (a receiver thread is sent no message that disconnects) and
`CertsCome` (a sign response carries a certificate) are what `ota_resume`,
`session_own_thread` and `missing_certificate` break; `Cooperative` and
`OneFileOnly` are the first three rows of the table in section 3.

The arguments:

* *Download types.* `TypeOK` is not inductive: the buffer index stays in range
  only because the sizes still on the wire fit what was asked for and what was
  counted. `TypeInv` adds that; one lemma per action, and lemmas on the web
  client's operators.
* *Prefix.* `PrefixInv` says that three pieces follow one another without a gap:
  the bytes handed over (`Received`), those in the buffer (`Buffered`), and those
  on the wire (`OnTheWire`, by `CarriesOn`), and that the wire is empty whenever a
  request is sent. Without it the prefix is not inductive: the client never
  compares what came with what it asked for. The same invariant carries the
  refinement of `FileTransfer`: each step of the download hands over the bytes
  that come next, ends the transfer with or without the whole file, or maps to a
  stutter.
* *Framing.* `FramingInv` says what the records on the wire are when
  `header_received` is false and when it is true (`Framed`): a whole answer next,
  or the rest of the one under way. It holds of every server, so that
  `NeverOutOfStep` needs neither `Cooperative` nor `OneFileOnly`.
* *Chunked responses.* `PlaceInv` ties the control of the decoder to its place in
  the response: at each `pc` it names the chunk and how much of its size line, its
  data or its CRLF is read (`Between`, `ToCome`, `LineRead`), what the bytes
  received and those on the wire are (`RestInv`), and that the bytes delivered
  and the bytes held are the first of the body (`BytesInv`). `KeepsItsPlace` alone
  says nothing of the bytes to come. `NextToken` gives the byte that follows at
  each place: a refusal contradicts it unless the CRLF of a chunk is missing.
  `PoolInv` gives the packets allocated as a function of `pc`. `StepsRunOut` is the
  safety half of `Ends`: every step lowers `StepsLeft`, a natural number, so that
  the loop can only stop short of its end where it has no step to take.
  The body, the size lines and the response are recursive functions of the
  chunks; what they compute for every response is proved from the
  well-foundedness of < on Nat (`UpTo`, `Recursion`), with sets and functions in
  the place of the predicates of the library's induction theorems, which no
  installed prover can instantiate. `ChunkedAssumption` says of the peer only that
  a size line gives the size of its chunk and that a chunk of size 0 is the last.
* *Firmware.* `OtaInv`: the booted bank holds a whole image; on the STM32L4, while
  fetching, the other bank holds the image up to `Start`, a multiple of the word,
  is erased from there on, and the carried remainder holds the bytes from `Start`
  to `received` (`FetchedStm`); on the SAM E54 it holds all bytes up to `received`
  of the image that is counted, also between calls (`FetchedSame54`). `DataSplit`
  is the arithmetic of a chunk: remainder, whole words, new remainder. Atomicity
  follows because no step but the reset after `Swap` changes the bank that is
  booted, and none writes to it.
* *Session.* `Inv` in `SessionProofs` is six parts: what the receiver thread can
  be doing (`Alone`), that the flag covers the link and a pending loss
  (`Flagged`), that kept pointers are NULL or allocated but between the free and
  the discovery of ON_FORCE_SYNC (`Owned`), that object, flag and told status go
  together while nothing is lost (`Kept`), and two on the record of misuses and
  the sync result. `MemorySafe` alone is not inductive: nothing in it says that
  every path to a free has passed a teardown.
* *Requests and provisioning.* `RequestInv`: what is in the buffer below
  `data_length` are the first bytes of this answer, and 0 or `Stale` above it.
  `HeapInv` gives the blocks allocated as a function of `pc` (`Blocks`), which
  makes `HeapBalanced` a comparison of two such sets at each exit. `IdentityInv`
  ties each buffer to the attempt in progress. `CallsAdvance` is the safety half of
  `CallReturns`: each step of a call lowers `CallAhead`, `RequestAhead` or
  `AnswerAhead`, the first of them in that order that changes, so that no error
  path leads back to a place the call has left.
* *Start.* `BootInv`: which content each copy can have at each step of the boot
  and for each task (`InPlace`, `Hashes`, `MainIsWhole`, `Recovering`).
  `ClockInv`: the base stored is the difference of the two clocks in whole
  seconds, or one more, modulo the word. It is stated of `Skew`, the true time
  less the ticks counted and less the words of ticks lost in wraps (`Late`), which
  nothing changes while the base stays (`PassedTicks`); so the sum is within a
  second of the true time less `Late`. `StageInv` ties the main
  thread's stage to the two.

Only model-checked: liveness (`Terminates`, `Ends`, `CallReturns`,
`LossIsNoticed`, `StartsUp`), which is out of the prover's reach. Every other
property that a passing run checks is stated by a theorem, under the condition the
table gives.

## 6. Not modelled

In the download stack: PUT and DELETE, authentication, redirection and responses
that come as a packet chain in the web client; calls refused without a change of
state (null arguments, a second `iotc_download` during the first, a request
without resource, `azrtos_https_client.c:130`). A request is made by one thread at
a time, as the code's comment demands; the TLS set-up callback and its static
certificate buffers are left out. In the OTA stack: the HAL's internals; writing
the option bytes is one step. In the session: payloads, formatting, logging
(`is_disconnect_requested` has no other effect), the prototype of protocol 2, the
ADU build option, OTA and command callbacks (they run inside `Handle` and do not
touch the session's state). `malloc` may fail only where the code turns that into
an error; `on_iothub_data` does not check it. In the start: the board's own
initialisation, DHCP's loop, and the main threads of the other boards, which are like one of the two.

Two sizes are assumed and not modelled: the agent's path with its suffix fits the 40
bytes of `resource_buffer` (`iotconnect_di.c:34`, copied at 116-118 without a
bound), and an erasure of several blocks (`secure_boot.c:369`) is done whole or
not at all. The second matters for the mirror: its check hashes the image, not the
mirror, so that a mirror half erased whose hash is still there would be taken for
good.

Without state to speak of: the ADU wrapper (two calls of an agent that is not in
the repository, and a flag that is never cleared), the authentication drivers
(constants and calls of libTO) but for the buffer that `Provisioning` models, the
DER conversion of a signature, the crypto tables, the malloc pool, the
certificates, the scripts. iotc-c-lib, cJSON, libTO and the Azure middleware are
submodules without source here; what the SDK relies on is external: the library
keeps the pointers of its configuration, the middleware calls the status callback
during `connect` and, perhaps, during `disconnect`, and not after `deinitialize`.

Nearly nine tenths of the repository's lines are outside the SDK: vendor
drivers, generated board support and register definitions of the sample boards
(the largest files are drivers for a crypto engine, Ethernet, clocks and
sensors). They carry no logic of this program, so the share of lines modelled
stays small.

The message callback: after a failed ON_FORCE_SYNC `on_message_intercept` returns
before it calls `msg_cb`, although `iotconnect.h:69` says "callback for ALL
messages"; the early returns are in `ForceSyncDiscovery` and `ForceSync`.
`iotconnect.h:88` declares `iotconnect_sdk_receive`, which is not defined; the
function is called `IotConnectSdk_Loop`.

## 7. What is left

1. Done: download stack with chunked responses, requests, provisioning, firmware
   on two boards, session, start of the board; proofs of every safety property,
   action property and refinement that a passing run checks.
2. Possible next: the authentication drivers with the sample's status callback,
   which releases their context on every status; a session that is given its
   responses by `HttpsRequest` instead of by choice; packet chains in the web
   client.
3. Possible proofs: the session's properties with losses, for a code in which the
   commented-out cleanup is restored.
