# A TLA+ model of ESPresso

ESPresso is firmware for a small ESP32 device that stands between AirPrint
clients and one legacy AirPrint printer. It announces a printer of its own by
mDNS, accepts IPP requests on ports 631 (plain) and 8631 (TLS), rewrites them to
what the legacy printer understands, relays the document, and translates the
answer. A web page selects the printer, shows recent jobs, joins Wi-Fi and
updates the firmware.

This directory holds TLA+ modules that model the parts of that program in which
order, failure and concurrency matter, TLC configurations that check them on
small instances, and proofs that TLAPS checks for every value of the constants.
`PROJECT.json` maps every definition to the lines it models.

Run a configuration with `tlc -config IppServer.cfg IppServer`, check proofs with
`tlapm IppProxyProofs.tla`. The community modules (`FiniteSetsExt`, `SequencesExt`) must be on the
library path.

## Inventory

| Component | Source | State | Operations | What makes it correct |
| --- | --- | --- | --- | --- |
| IPP server | `ipp_proxy.c` 993-1202 | `worker_slots`, two listeners, one accept task, up to two worker tasks | reserve a slot, select, accept, create a worker, close, give the slot back | no slot or socket is lost on any failure path; clients leave the backlog |
| Request handler | `ipp_proxy.c` 60-991 | locals of `proxy_handler`, one per worker | read, plan, rewrite, relay, await, translate | at most one delivery; no truncated document taken for whole; success only when the printer said so; the job record says what happened |
| Job history | `job_history.c` | array of 16 records, 32-bit id counter | begin, update, attach, find, snapshot | ids name one record; eviction and expiry only of old records; late updates touch nothing else |
| Selected printer | `app_state.c` | target and custom name in NVS and memory | set, update, clear, rename, load at boot | what the user was told is selected stays selected, over restarts |
| Discovery and advertisement | `printer_discovery.c`, `printer_advertisement.c` | list of printers found, mDNS services, four bookkeeping variables | scan, select, clear, refresh address, advertise | what is announced is what is selected |
| Relay policy | `ipp_proxy_core.c` | none | decide accept or reject, format, version | relays only what the printer can do, and never a length it cannot relay |
| HTTP request and chunks | `ipp_http_request.c`, `ipp_stream.c` | head buffer, parser position, bytes left in a chunk | headers, body reads, chunk framing, short writes | the printer gets the body the client sent; an error is never taken for its end |
| Raster converter | `raster_converter.c` | page and row counters | PWG raster to URF | converts every well-formed document, completely, and no other |
| IPP codec | `ipp_codec.c` | the profile of the printer | collect attributes, complete and filter answers, translate or refuse choices | what a client is told can be had; what is relayed suits the printer |
| Firmware update | `ota_update.c`, `app_main.c` | status, percentage, `restart_pending`, boot slot | reserve, upload, download, finish, abort, restart, roll back | one update at a time; the slot that will boot is complete |
| Wi-Fi and setup portal | `wifi_manager.c`, `dns_server.c` | connected flag, portal flags, retry count, DNS servers with memory, task and socket | connect, retry, forget, open and close the portal | the portal is open when there is no other way in; no task runs on freed memory |
| Improv Serial | `improv_serial.c`, `improv_serial_codec.c` | receive buffer, provisioning state | parse packets, join | one answer per packet |
| TLS identity | `tls_identity.c` | certificate and key blobs in NVS | load, or generate and store | the pair loaded is a pair, and the same after every restart |
| Capability probe | `printer_capabilities.c` | the profile it collects | one query for all formats, then one per format | the profile holds only what the printer stated, also after a failure |
| Printer transport | `printer_transport.c` | none | URL of a target | - |
| Web server | `web_server.c` | none of its own; one task | JSON handlers that call the components above | - |

**How they interact.** The accept task creates one FreeRTOS task per connection.
Each worker copies the selected target (`app_state`, a mutex for the copy only),
talks to the printer for up to minutes without a lock, books the outcome in the job
history (its own mutex), and after Get-Printer-Attributes writes the refreshed
target back and re-advertises. The web server's single task scans, selects,
clears and renames. A third task is started whenever Wi-Fi gets an address, beside an earlier
one that may still run: it resolves the saved printer's host name and saves its new address. The Wi-Fi event loop, the web
server, the serial port and a task that closes the portal share the static variables of
`wifi_manager.c` without a lock. `printer_discovery` has a
mutex for the list and the advertisement; `app_state` has one for memory and none
for NVS.

**What is hard.** Copies of the target used after a wait; NVS and memory written
in two steps without a common lock; mDNS calls that fail half way; a write to the
printer that fails and arrives nevertheless; several requests, of several workers,
on one job record that may be evicted meanwhile; a semaphore that every failure
path has to return; a body cut into reads and writes of any size; power that fails in
the middle of a firmware update or of a first start; a portal that closes while it is
needed again; a profile put together from answers that each tell a part, that break off, and
that are forgotten with the next scan or restart; peers that fall silent where nobody counts the time. `PROJECT.json` lists these hazards with the lines where they
bite and the properties that cover them.

## Modules

| Module | Models | Uses |
| --- | --- | --- |
| `IppServer` | listeners, accept task, slots, life of a worker | - |
| `JobLog` | what the job history promises: a bounded log as a set of records | - |
| `JobHistory` | the array of `job_history.c`, shown to implement `JobLog` | `JobLog` by INSTANCE |
| `IppProxy` | `proxy_handler` inside every worker, the printer, the job monitor | extends `IppServer` and `JobLog`; implements `IppServer` |
| `PrinterSelection` | the selected printer, discovery, the advertisement | - |
| `BodyRelay` | one request as bytes, from the client's socket to the printer: HTTP parser, receiving, streaming | - |
| `OtaUpdate` | firmware update, restart, bootloader, start of the program | - |
| `TlsIdentity` | certificate and key, in flash and in use | - |
| `DeviceStart` | `app_main`: update and identity together | extends `OtaUpdate` and `TlsIdentity` |
| `WifiManager` | joining Wi-Fi, the setup portal, its DNS server | - |
| `Facade` | the profile of the printer, what clients are told, what is relayed | - |
| `RasterConverter` | the conversion of PWG Raster to Apple Raster | - |
| `MCIppProxy`, `MCPrinterSelection`, `MCFacade`, `MCRasterConverter` | sets of requests, networks, printers and page headers for TLC | |
| `MCBodyRelay` | data symbols for TLC, and the grammar of a chunked body | extends `BodyRelay` |
| `JobLogProofs` | proofs about `JobLog` | TLAPS |
| `JobHistoryProofs` | the array implements the log; its queries and its counter | `JobLogProofs` by INSTANCE |
| `IppProxyProofs` | the server by itself; the proxy implements it; delivery of documents; job records | `JobLogProofs` |
| `BodyRelayProofs` | the chunk decoder, the reader and the writer of a body | TLAPS |
| `DeviceStartProofs` | firmware update by itself and in the whole start; the identity | TLAPS |
| `PrinterSelectionProofs`, `WifiManagerProofs` | proofs about `PrinterSelection` and `WifiManager` | TLAPS |
| `FacadeProofs` | translation of a job: the profile and its promises (`Facade`), the document (`RasterConverter`) | both modules, TLAPS |

Operators called a *slip* in the comments are plausible mistakes (a dropped guard, a
swapped order). Nothing uses them; each shows, when put in the place of the
definition it is named after, that a property can fail.

### IppServer

`slots` is the semaphore, `acceptor` the position in the loop of
`ipp_accept_task`, `chosen` and `held` its locals, `queue` the two backlogs, `phase`
where each connection is. One action per step of the loop and per way it fails
(`SelectFails`, `AcceptFails`, `SpawnFails`), each of which gives the slot back; a
worker is `SpawnWorker`, `CloseConnection`, `GiveSlot`; it need not come to `CloseConnection`. lwIP is external: `select`
returns when a listener has a client, and an `accept` that fails loses that client.
A connection is a token that can be used again.

### JobLog and JobHistory

`JobHistory` keeps the C names: `prune`, `find_record`, `begin`, `update`,
`attach_upstream`, `find_upstream`, `snapshot`, and the counter with its skipped 0.
Names, formats and byte counts of a record are left out because no decision
depends on them. `JobLog` states the promise: a record leaves because it was not
touched for the TTL or because newer ones need its place, and an update by id
changes that record only. The log never uses an id twice; the array's counter wraps. The
refinement maps the array to the set of its records, each under the number of the job it
stands for, so it also says that the wrap confuses no two jobs.

That is true only because records do not live forever. A record that is touched again and
again outlives others, but at most `Capacity - 1` jobs begin in each TTL while it is kept,
or it is evicted. `HistoryAssumption` asks for more ids than that:
`MaxId > (Capacity - 1) * (MaxNow \div TTL + 1)`. With 16 records, an hour and 2^32 ids the
firmware meets it for some 30 000 years of uptime. The bound is sharp: at the
other bounds of the run, and with a clock to 4, TLC finds two records with the same id as soon
as there is one id less than it asks for.

### IppProxy

The handler is cut where it blocks on a socket or takes a lock: `OpenRequest`,
`ReceiveAttributes` (with `monitor_request_start`), the plan with its rejections,
`OpenUpstream`, one `StreamPiece` per piece, `StreamEnds`, `ResponseArrives` (with the
monitor's outcome), `TranslateResponse`; every step has its failing twin. A write
that fails may have arrived: `StreamFails` and `OpenUpstreamFails` leave both
outcomes open. `PrinterDecides` is the legacy printer, which may answer after
nobody waits any more. A document is a number of pieces; `got`, `sent` and `ended`
follow it through the three forms of relay (Content-Length, chunks, converter). What
the policy, the codec and the converter reject is left open here, except that the length
rules decide which requests can get through; `Facade` and `RasterConverter` model the
decisions themselves.

`MayHold` names the steps at which a client can keep its worker for ever: the TLS handshake and
TLS reads, and a chunked document that goes on and on.

The error path for an outgoing length that does not fit (`ipp_proxy.c:745`) is the only
one after the record was opened that does not tell the monitor. `NoStuckRecord`
states this exception openly.

### PrinterSelection

Three kinds of task: `"web"`, the network tasks (`Nets`: `"net"`, which also runs at the start,
and the `Refreshers` that a new address starts beside it) and the workers, each with an operation
`op`, a position `at` and a local copy `tmp`. `Save` writes NVS, `Store` memory, `Advertise` is
`advertise_selected_locked`: the shortcut for an unchanged advertisement, the update
path with its list of edits, and the registration path; `AdvertiseFails` stops after
any number of them and leaves what was done. `Remove` is the second half of
`printer_discovery_clear_selection`. A target is the printer it describes, its address
and whether it is IPP Everywhere; the other attributes travel the same way. The
advertisement is its instance name, TXT record and subtype. `choice` is what the web
page told the user last.

mDNS is external: adding a service that is registered and editing one that is not
both fail, and a failed call changes nothing. `s_service_instance` is not kept
apart from the instance name in `s_advertisement`: the two are assigned together.

### BodyRelay

`IppProxy` treats a document as a number of pieces; this module is about the bytes. The
stream is a sequence of symbols, one byte each: `CR`, `LF`, `SizeText(n)` for the text of a
chunk size, and `Other` for any other text. `heard` is what the client has sent and `used` how far it is read,
so that `SubSeq(heard, used + 1, Len(heard))` is the buffer left over from the head; the
socket gives any symbols in pieces of any size (`Received`), or fails. A call of
`ipp_http_request_read` is a capacity `call` and a `result`; between the two, one action per
`raw_read`: `ReadData`, `ReadCrlf`, `ReadLine`, and what is done with a line
(`ParseChunkSize`, `FinishChunkedBody`). Around it are the steps of the handler:
`ReceiveMore` with its growing buffer, the drain of a chunked request without document,
the peek for a Print-Job, the lengths the plan looks at, and the two ways to stream.
`pending` is what `ipp_stream_write_all` has left of a piece or a framed chunk; `WriteSome`
writes any part of it. The attributes are rewritten to something of another length.

`ChunkedBody` and `FixedBody` say what a sequence of symbols means, independent of any
reader. They are applied to both ends: `Sent` to what came from the client, `Got` to what
arrived at the printer. `ChunkedBody` follows the bytes one by one (`Decoded`): after each it
knows what is due next (`Due`) and what data has come. `MCBodyRelay` states the grammar of
RFC 9112 as a recursion over chunks, and TLC compares the two on everything that can be put
together from up to seven pieces (the assumption `DecoderFollowsGrammar`). A line's text is one symbol, so chunk
extensions and sizes of several digits are not told apart, and overflow of a size is
left out; header fields are reduced to how often each framing is announced. The PWG
converter is not part of this module.

### OtaUpdate

`web` is the position of the web server's task in an upload or in the start of a
download, `git` that of `github_update_task`, `active` and `restart_pending` are the fields of
`s_status` that decide anything. Flash is `content` and `state` of two slots and the
`boot` slot; `power` says how far the start has come. An image works, crashes on every
start, or is garbage. ESP-IDF is external: `esp_ota_begin` erases the other slot and
refuses while the running image is unconfirmed, `esp_ota_end` validates, the bootloader
gives a new image one try and gives up what it finds still pending. The web server is
started before `app_main` confirms the image, so updates may be requested in between
(`power = "serving"`). `Stalled` and `Waiting` are the two waits that depend on a peer and have no limit.

### TlsIdentity and DeviceStart

Identities are numbers: `made` counts them, `tls_cert` and `tls_key` are the two NVS blobs,
`certificate` and `s_key` what the listener uses, `published` the first certificate the web
server offered for download. `StoreCertificate` and `StoreKey` are the two writes of
`persist_identity`. A start loads the pair, or makes one if a blob is missing (`NothingStored`)
or cannot be read (`LoadFails`); the flash may be found full and erased (`EraseNvs`). Nothing in
the code compares certificate and key. `DeviceStart` puts these steps where `app_main` has them:
after the bootloader, before the web server. A failure or a power loss there takes the
start of an image on trial with it, and a repeated start meets what the last one left.

### WifiManager

Four kinds of task: `handler` (the event loop in `event_handler`), the `Callers` of
`wifi_manager_connect` (web server and serial port), `stopper` (`stop_portal_task`) and a task per
DNS server. The flags keep their C names. A DNS server is memory (`heap`), the order to run
(`running`), a task and perhaps the socket on port 53 (`port`); `dns_server_stop` waits for the
task and deletes it after a second, wherever it is (`DnsDeleted`), which may leave the port
bound for good (`orphan`). The driver is external: an attempt ends with an event or not at all,
connecting is refused during an attempt, disconnecting posts an event unless the station is down.
`Joined` is the DHCP lease: the code does not listen for the association before it. What the
model leaves out is a DNS task that ends by itself between the check of its handle and
`vTaskDelete` (`dns_server.c:173-174`), see below.

There is no clock, but time orders some things: an event is handled in milliseconds, an
attempt takes a second or more, the stop task waits 15 s, and a person takes seconds to try
again. `aged` says whether a quiet moment has passed since an attempt or the wait began, and
they end only after one. Without this the model would let five attempts fail inside a single
function call.

### Facade

The printer is a `Description`: what it states in DNS-SD and in IPP, and about which format it
says what. A profile is the part of `printer_target_t` that decides anything: formats,
operations, which job attributes it takes (`caps`), how many sides and copies (`more`), the
version, and whether `output-mode` has to stand in for `print-color-mode` (`legacy`). There are
many copies of it: `profile` is `s_target`, `saved` the blob in NVS, `found` the printer's entry
in the list of the last scan, `moving` the copy of `refresh_saved_address`, and `asking` holds one for
each handler that waits for an answer.

Every scan probes the printer from nothing and replaces the profile in use, in memory and NVS.
`ScanAnswered` is one whose first answer was read to its end (`ProbedFirst`), and each of the answers
about single formats in whole, in part or not at all (`ProbedFormats`, `Readings`);
`ScanUnanswered` is one whose first answer broke off (`BrokenOff`: any part of it may have been
read, values come one by one) or never came; `ScanMisses` one that did not find the printer. A scan touches
nothing shared before its end, so it is one step. `Select`, `ClearSelection`, `Resolve` and
`Resolved` (the address has changed) and `Restart` (NVS is loaded) move whole profiles
around, with writes to NVS that fail. How two tasks interleave inside these is the subject of
`PrinterSelection`. The printer itself does not change.

A Get-Printer-Attributes is `Ask`, which copies the profile, and `Answer`, which merges, stores the
copy, and tells the client: `normalize_printer_response` completes what the printer says and
`filter_response` cuts it down to what was requested. Other requests change nothing here;
`Accepted` and `rewrite_request` say whether and how they are relayed, and the properties
quantify over all of them in every state. An attribute takes the neutral value or another;
names, media, state, URIs and the encoding of messages are left out. `stale` is a history variable:
the clients that were told something which has been forgotten since.

### RasterConverter

The input is chosen as it is read and kept in `input`, as synchronisation word, page headers
and bytes; one action per `copy_byte`, header, or piece of a payload, each with a write that
fails. `Documents` says what a well-formed document is and `AsUrf` what it becomes, by the
grammar of the format and without the converter's counters: a line is put together from
`Runs` of 1 to 128 pixels whose sizes add up to its bytes, a page from lines that stand for
1 to 256 rows each (`RowRuns`) and add up to its height, a document from `Pages`. `Sums` is the one
operator behind all of these. `ConvertsDocuments` compares the two, in both
directions: an input that was read to its end is converted exactly if it is a document, and
what the printer then has is `AsUrf` of it.

## What TLC checks

| Run | Question | Properties | Bounds |
| --- | --- | --- | --- |
| `server` | Is every slot returned, does every connection have one owner, do clients leave the backlog unless workers that never end hold all slots? | `SlotConservation`, `OneOwner`, `ClientsLeaveBacklog`, `SlotsComeBack` | 2 IPP and 2 IPPS clients, 2 slots (the firmware's), backlog 2: all slots busy with both backlogs occupied |
| `history` | Does the array implement the log, over the wrap of its counter? Are the newest records found and shown? | `FindsNewestUpstream`, `LiveIds`, `ImplementsLog`, `SnapshotShowsNewest` | capacity 2, TTL 2, clock to 2, ids 1 to 3 for 5 jobs: full, evicting, expiring at the limit, ids used again; `HistoryAssumption` asks for more than 2 ids here |
| `proxy_documents` | Truncated, repeated or falsely confirmed delivery? Is the server's discipline kept, is every client served and let go, but for clients that hold their slot? | `NoTruncatedDocument`, `SuccessIsReal`, `DeliveredAtMostOnce`, `ImplementsServer`, `ClientsAreServed` | 2 clients, 1 slot, every form of transfer, documents of 2 pieces: one in the prefix, one streamed |
| `proxy_jobs` | Are the final states on the job page true? Does a record stay "sending"? | `LogTellsTruth`, `NoStuckRecord` | 2 clients on 2 slots, all kinds of request, a single record, clock to the TTL |
| `body_relay` | Does the printer get the client's body, whatever the cuts? Is valid framing accepted, is nothing awaited beyond the end? | `HeadIsFound`, `PrinterGetsPrefix`, `EndIsReal`, `OnlyBadIsMalformed`, `NoReadPastEnd` | heads of 6 symbols with up to 2 of the body behind them, lengths to 4, chunked bodies to 23 symbols (three chunks, or two with a trailer), reads and writes of 1 to 4 |
| `device` | One writer? Always a slot to fall back to? Do certificate and key fit, and stay? Do updates end unless their sender is silent, does the device come back? | `OneWriter`, `Fallback`, `InstalledIsComplete`, `IdentityIsWhole`, `IdentityIsKept`, `UpdateEnds`, `ReadyRestarts`, `DeviceComesBack` | images of 2 pieces, 2 power losses or failed starts at any step, flash erased or unreadable once |
| `selection_static` | Does a confirmed selection survive? Do flags and mDNS agree? | `ConfirmedIsKept`, `FlagsAreRegistered` | 2 printers, a rename, failing NVS and mDNS, 1 restart at any step |
| `selection_restless` | Does the device come to rest announcing what it has selected? | `AdvertisedIsSelected` | a printer that moves and changes, web, network and one worker |
| `selection_refresh` | the disagreement below | `RefreshKeepsSelection` | the smallest instance that shows it |
| `wifi` | Is the device ever without network and portal? Is a disconnection ignored by mistake? Does a DNS task outlive its memory? Does a waiting client find the portal's DNS? Does the portal open unless an attempt never ends? | `NeverStranded`, `NothingIgnored`, `MemoryInUse`, `DnsFunnel`, `SetupFallback` | web server and serial port, room for 2 DNS servers, 5 retries as in the firmware, memory that fails, 2 pending events |
| `facade` | Are clients refused what they were told? Is the printer asked for what it cannot do? Does an answer make the profile lose what it knew? | `PromisesAreKept`, `PrinterTakesIt`, `AnswersAdd` | 6 printers, with and without operations, formats, colour modes, version 2.0, duplex in DNS-SD, answers that depend on the format; scans that end, fail, break off in the middle of operations and values, or ask about one format; any number of rescans, selections and restarts; 2 clients at once with one of the printers, a change of address with another (`Overlap`) |
| `raster` | Is exactly the well-formed input converted? | `ConvertsDocuments` | 2 pages of up to 3 rows and 4 bytes a line, pixels of 1 or 2 bytes, runs at the limits (127, 128, 129, 255), pieces of 2 |

Two printers, two clients and two records are what the properties tell apart: an
object and another one it could be confused with. Two pieces distinguish a part of
a document from the whole. Clocks and counters are
bounded by `MaxNow`, `MaxId`, `MaxBoots`, `MaxHeard`, `MaxLength`, `MaxCrashes`, `MaxLost`, `MaxJobs`, `MaxEvents`, `MaxPages`; `MaxNow` reaches the TTL exactly, the boundary
case of `prune`. `Overlap` is the one state constraint: it keeps two clients, and changes of address,
to one printer each, since the six printers differ in other respects; the theorems have no such
limit. `selection_static` and `selection_restless` have a single network task, and so no
`Refreshers`. With a second one beside the web server and no worker TLC finds `AdvertisedIsSelected` to
hold in 12 375 152 states, in four minutes; the theorems hold for any number.

**Fairness.** The accept task always runs on (weak fairness of `TakeSlot`); its calls
may fail any number of times but not forever (strong fairness of `SelectReady`,
`AcceptConnection` and `SpawnWorker`), which is what memory and sockets that are freed
by ending workers justify. A worker that has closed its connection gives its slot back. In
`IppServer` nothing makes a worker close it: `ClientsLeaveBacklog` and `SlotsComeBack` hold
unless all slots stay taken for ever (`Exhausted`).

`IppProxy` says when that can be. A handler takes its next step where its calls have a time limit:
40 s to receive and 30 s to send to a plain client, 30 s or 120 s upstream. Nothing is assumed
where the client decides (`MayHold`): in the TLS handshake and in TLS reads, because
`mbedtls_net_recv_timeout` is used with a read timeout of 0, which is no limit
(`tls_identity.c:253`; the socket's own `SO_RCVTIMEO` does not apply to it), and in a chunked
document, which may trickle in without end. `ClientsAreServed` therefore has two exceptions: a client that
itself holds its worker for ever, and everybody if such clients hold all the slots. What is left
is that nothing else does: no printer, no failure, no plain client that is silent.
The plain listener is only served once IPPS clients stop arriving; `ClientsLeaveBacklog` states
that condition, since the loop always looks at the secure listener first.

In `DeviceStart` tasks run on and a device with power starts (weak fairness). Nothing makes
an uploading client continue, nor the server of a download, and `UpdateEnds` says so (`Waiting`):
`update_upload_handler` tries again after every receive timeout, and `github_update_task` as long
as `esp_https_ota_perform` says that it is in progress, which it also says after a read
that timed out. `StartCompletes` is strongly fair: updates are
accepted before `app_main` is through, but restart the device only after 1.5 s or 2.5 s,
while `app_main` waits for none of them, so it is not cut short on every start.

In `WifiManager` the tasks run on and time passes. An attempt to join may end with an
address, with a disconnection or not at all, since an association without a DHCP lease posts no event
that the code looks at; `SetupFallback` holds unless an attempt goes on for ever. Nor is it assumed
that anybody sends credentials.

The type invariants say what the variables hold. They are proved as a part of the theorems
below.

## Where code and words disagree

- `selection_refresh` (checked): a worker copies the target, waits for the printer, and stores
  the refreshed copy (`ipp_proxy.c:923`). `app_state.h` calls this replacing "the in-memory
  profile". If the user cleared or replaced the printer meanwhile, the refresh selects
  the old one again, in memory only.

The following were met while modelling. They follow from the code as described; the properties
above are stated so that they hold beside them.

- `refresh_saved_address` does the same with NVS (`printer_discovery.c:116`): a selection or
  clear confirmed during its mDNS query is undone for good. The repository's README promises
  "persistent printer selection".
- A scan recognises the selected printer by its address (`printer_discovery.c:306`), to keep
  "the selection stable". After DHCP exchanged the addresses of two printers it saves the
  other one.
- `wifi_manager_connect` says "Keep the named captive portal available while new credentials
  are tried" (`wifi_manager.c:229`). `start_portal` does nothing while the portal counts as
  active, also when `stop_portal_task` is about to switch the access point off
  (`wifi_manager.c:60`), so the attempt may begin without it. When the attempt fails the
  portal opens again, which is what `NeverStranded` and `SetupFallback` rest on.
- The README says the portal "closes 15 seconds after ESPresso joins". If the network is lost
  when the stop task looks and regained before it clears `s_stop_scheduled`, nobody closes it.
  The same holds if the task cannot be created: `s_stop_scheduled` stays set.
- A DNS task deleted by force (`dns_server.c:174`) leaves its socket bound to port 53, and later
  portals have no DNS until a restart; `DnsFunnel` excludes this case by `orphan`. Two openings at
  the same moment create two servers, of which one is never freed.
- An identity that is stored but cannot be read, for want of memory say, is replaced
  (`tls_identity.c:218`). If power fails between the two blobs then, certificate and key belong
  to different identities from then on, and nothing notices. `IdentityIsWhole` excludes this case
  by `unread`.
- A client that is silent on the IPPS port keeps its worker for ever (`tls_identity.c:253`), and two
  of them the whole printer, although the sockets have time limits (`ipp_proxy.c:1003`). A stalled
  upload or download keeps the update reserved until a restart (`web_server.c:407`,
  `ota_update.c:268`). An association that never gets a lease leaves a device that has started with stored
  credentials without network and portal (`wifi_manager.c:99-131`).
- A scan forgets what earlier answers had taught (`printer_discovery.c:308`), to keep "the
  selection stable while picking up newly advertised metadata". If the printer is slow to
  answer, or its answer breaks off, the poorer profile replaces the richer one and is saved; a
  restart and the choice of the printer from an old list do the same. Jobs that keep to what a client
  was told before can then be refused. `PromisesAreKept` sets these clients apart (`stale`).
- `print-color-mode` is relayed to a printer that has stated neither it nor `output-mode`
  (`ipp_codec.c:1534`), because it is advertised for every printer (`ipp_codec.c:1084`). An
  answer that broke off before `print-color-mode` leaves `output-mode` in use for a printer that has
  both. `PrinterTakesIt` says what does hold of the two.
- `dns_server_stop` checks the handle of the DNS task and deletes it (`dns_server.c:173-174`). A task
  that ends in between has set the handle to NULL, and `vTaskDelete(NULL)` ends the task that closes
  the portal instead, which then stays open without DNS.
- A probe that fails has cleared the operations that DNS-SD implied (`printer_capabilities.c:166`),
  although "a discovered AirPrint/URF printer necessarily implements these two operations"
  (`ipp_codec.c:2194`): Print-Job is refused until a Get-Printer-Attributes has gone through.
- Two overlapping Get-Printer-Attributes merge into two copies of the profile, and the second
  to be stored undoes what the first learned (`ipp_proxy.c:918-923`).
- Values of `print-content-optimize` and `print-rendering-intent` that the printer itself
  advertises are passed on to clients and refused when they choose them (`ipp_codec.c:1489`).
  Duplex that is known from DNS-SD alone is advertised and refused. `PromisesAreKept` names both.
- A Print-URI for PWG Raster is declared as URF to the printer, though nothing is converted
  (`ipp_proxy_core.c:33`).
- `ESPRESSO_RASTER_READ_ERROR` is never returned: a reader that fails is reported as an invalid
  document. Pages of 12 bits a pixel with an odd number of bytes a line pass the header's
  checks, but no line of theirs can be completed.

`ConfirmedIsKept` holds only on a network that stays as it is, because of the refreshes. It is checked there with everything else that can go wrong.

## What is proved

All theorems hold for every value of the constants that satisfies the modules' own
assumptions (`ServerAssumption`, `LogAssumption`, `HistoryAssumption`, `ProxyAssumption`,
`OtaAssumption`, `TlsAssumption`, `SelectionAssumption`, `SentinelAssumption`, `WifiAssumption`,
`FacadeAssumption`, `NullAssumption`, `RelayAssumption`, `RasterAssumption`): any set of connections and requests, documents of any
length, answers that break off anywhere, any number of slots, records, callers, printers and power losses. Four theorems assume
more, in their own statement: `AnnouncedIsSelected`, `ConfirmedSelection`, `PortalIsAnswered` and
`DeviceNeverStranded`. Every safety property of the passing runs is proved.

- `ServerCorrect` and `OneOwnerAlways`: the types, `SlotConservation` and `OneOwner`.
  The inductive invariant is the conjunction itself: conservation needs one owner (a
  worker is counted once because the connection the accept task holds is not one of
  the tasks), and one owner needs the types and the part of `OneOwner` which says that
  a listener picked by `select` still has its client, since nothing else takes from a
  queue.
- `LogCorrect`: the job log stays within its capacity and an id names one record. The
  ids below `lastId` make a new record's id fresh; `Oldest` of a full log exists because
  a set of natural numbers has a smallest element (the library's well-foundedness theorem).
- `RecordsAreRecent`: while a record is kept, at most `Capacity - 1` jobs begin in each TTL that
  has passed since the start (`LogSpan`). Cut time into windows of one TTL. A record touched in
  the current window cannot expire in it, and it is not evicted before an older one; so the
  jobs begun in this window after a record `r` that is still there are all there beside it, and
  share `Capacity` places with it. `SpanInv` counts them in the current window and keeps
  `Capacity - 1` for each window before; a tick that ends a window turns the one into the other.
- `HistoryImplementsLog`: `ImplementsLog`, the refinement of `JobLog`. The array is kept sorted by
  job (`Sorted`), so the record at its front is the log's oldest and the search from its end
  finds the newest; compaction in place keeps exactly the unexpired records in their order; and
  the ids of live records are a stretch of the counter shorter than its range (`Counter`, with
  `SpanInv` read through the refinement), so the id of a new job is free. `HistoryInv` is the
  conjunction. The same invariant gives `IdsStayDistinct` (`LiveIds`), `NewestIsFound`
  (`FindsNewestUpstream`) and `NewestIsShown` (the action property `SnapshotShowsNewest`).
- `ProxyImplementsServer`: `Safety => ServerSafety`. Initial states are the server's, every
  step is one of its steps or leaves its variables alone. With `ServerCorrect` this gives
  the slots of the whole proxy.
- `DeliveryOnce`, `DeliveryWhole` and `SuccessIsEarned`: `DeliveredAtMostOnce`,
  `NoTruncatedDocument` and `SuccessIsReal`. None of them is inductive. `HandlerInv` adds, per connection, how far the handler is and what
  it has done by then: nothing sent before the plan is through (`Offered`), the printer
  never has more pieces than came from the client and the client never more than the
  document (`Passed`: `sent <= got <= doc`, which is why an end behind the last piece sent
  is an end behind the last piece there is), a target once the request is open (`Aimed`),
  a verdict once the answer is translated (`Told`).
- `ProxyTypes`, `ProxyLogWellFormed`: the calls of the handlers preserve what `JobLogProofs`
  shows of each operation.
- `JobPageTellsTruth`: `LogTellsTruth`. Two arguments: a step puts a record into a final
  state only together with a request that witnesses it (`RecordsStep`), and a witness is
  never lost, since verdicts and error answers stay and a decided request keeps its
  record (`Decided`). `RecordUse` is needed for the failed translation, which writes to
  record 0 for requests that have none.
- `NoRecordStuck`: `NoStuckRecord`. The inductive form (`SendingInv`) asks for a witness that
  carries a document: a Cancel-Job in flight on the same record leaves it alone when the
  printer refuses, so it could not hand the record on.
- `OtaCorrect`: `OtaTypeOK` and `InstalledIsComplete` of the update by itself, under the behaviour of ESP-IDF and its bootloader that the module states. `Fallback` says that some
  slot is good; the inductive form has to say which. A running image is confirmed and
  boots next unless the other slot waits for its one try or has had it (`Confirmed`), or
  it is on trial and the other slot is good (`Trial`); a slot is only written while the
  running image is confirmed (`Writes`), because `esp_ota_begin` refuses during a trial;
  and what boots next is never an unconfirmed image past its try (`Boots`), or the
  bootloader would start it without a trial. `Owner` ties the two status flags to the one
  task that works on an update or is about to restart.
- `DeviceInstalls`, `OneUpdateAtATime` and `DeviceUpdates`: `InstalledIsComplete`, `OneWriter` and
  `Fallback` in the whole device. A step of `DeviceStart` is a step of the update, or leaves its
  variables alone, so the same invariant carries over.
- `IdentityCorrect` and `IdentityStays`: `IdentityIsWhole` and `IdentityIsKept`. The inductive form
  relates the blobs to each other while a start is anywhere: a key that is stored belongs to the
  certificate that is stored, and there is none while an identity is being made, unless a
  stored one could not be read (`KeyStored`); and once a certificate was published both blobs
  hold it, until flash is lost (`PublishedIsStored`).
- `FlagsFollowTable`: the types of `PrinterSelection` and `FlagsAreRegistered`. `Sound` says where
  each task can be in which operation and what its copy holds there, since `Advertise` and
  `Store` are shared by all of them.
- `AnnouncedIsSelected`: `AdvertisedIsSelected`, if `MdnsFails` is FALSE, for any number of workers and of network
  tasks. It allows that nothing is announced, so an advertisement that got lost would not contradict it.
  The inductive form covers a
  device that is not at rest: whoever has made the advertisement differ from memory is on its
  way to `Advertise` or `Remove` (`Announced`, `Due`), and the table holds what
  `s_advertisement` says (`Table`).
- `ConfirmedSelection`: `ConfirmedIsKept`, for a network that stays as it is, in which no two
  printers share an address (`StillNetwork`). Then a scan or a refresh finds what is already
  stored and never gets as far as writing, so only the user's own choice is ever saved, and NVS
  and memory take it in turn (`Kept`).
- `ServerMemory`: `MemoryInUse`. It needs the types and one more fact: while the stop task waits, the
  server it waits for is one. Memory is freed only together with the task, or after it has ended.
- `IgnoresNothingElse`: `NothingIgnored`. `Order` describes the event queue: an address is at
  its head or not in it, and a station that is down has a disconnect pending or has had it
  handled. `Linked` then follows the flag: whoever raised it has still to connect, and if no
  event is left to lower it, a second caller waits whose attempt will be refused and lower it.
- `PortalIsAnswered`: `DnsFunnel`, if sockets do not fail. `Served` says that the server opened last
  has a task that starts or serves, or found the port taken.
- `DeviceNeverStranded`: `NeverStranded`, if `Retries >= Cardinality(Callers) + 2`
  (`RetriesSuffice`; the firmware has 5 retries and 2 callers). The danger is a portal that
  `event_handler` finds still active, and leaves alone, while `stop_portal_task` is past its last
  look at the network. The retries have to outlast that closing: `Budget` counts what can add to
  `s_retry_count` before it is over, one disconnect per caller and one failed attempt besides
  the loss itself. `Portal` says that nobody else opens or closes meanwhile, and `Reachable`
  that a station nobody is about to connect has its portal. The assumption is more than is
  needed by one: with 2 callers TLC finds a stranded device with 2 retries and none with 3.
- `PrinterIsObeyed`: `PrinterTakesIt`. The inductive invariant says that every copy of the profile, in
  the list of the scan, in NVS, in `s_target`, in `refresh_saved_address` and in each handler, is truthful (`Truthful`): it
  holds only what the printer stated or URF implies, and `output-mode` is in use only where the printer
  has stated it and `print-color-mode` is not known. Merging an answer, or any part of one, keeps
  this whatever is merged in whatever order, and so does starting again from nothing; which is why
  no lost update, broken answer or restart does harm here.
- `FacadeKeepsPromises`: `PromisesAreKept`. `PromiseInv` says that the stored profile keeps what each
  client was told (`Keeps`), unless the client is `stale`. A step that replaces the profile
  either forgets something, and then every client it concerns becomes stale, or the new profile
  knows all that the old one did and keeps what that kept (`StillKept`). For the client that is just
  being told, the copy its handler has merged keeps the answer made from it (`OwnStepPromise`).
- `KnowledgeGrows`: `AnswersAdd`, from the types and the fact that merging only adds.
- `RelayInvariant` with `RelayTyped`, `PrinterAlwaysGetsPrefix` (`PrinterGetsPrefix`), `EndAlwaysReal`
  (`EndIsReal`), `MalformedIsBad` (`OnlyBadIsMalformed`) and `NeverReadsPastEnd` (`NoReadPastEnd`). The
  properties compare what the client sent with what the printer has; between them are a
  reader and a writer that each stop anywhere. The inductive invariant therefore has two
  halves. `Sync`: the fields of the request (`remaining`, `crlf_pending`, `done`, the
  line read so far, the count of trailers) say where the decoder is after the bytes read, so the
  reader calls a body malformed or ended exactly where the decoder does. `Flow`: what the printer
  has, what is about to be written to it and what the last read has returned make up, decoded, the
  rewritten form of what was read, and the framing is closed only after the client's end.
  `LineOK` says which lines can be half read (a CR that turns out not to end one is malformed, so
  no line begins twice), `Calls` which fields are in use in which phase. The properties also speak
  of the bytes heard and not yet read; there the lemmas on the decoder come in: more bytes never
  change what has been decoded, and bad and whole bodies stay so.
- `HeadAlwaysFound`: `HeadIsFound`. Of a string that has grown, the first end of a head is the same
  as before if there was one, so looking again after each read finds what one look at the
  whole would find.
- `DocumentsConverted`: `ConvertsDocuments`, for headers of any size and documents of any number of pages.
  The inductive invariant `RasterInv` says that what was read goes on to a document exactly by
  what is due (`Places`): in a run the rest of its payload, in a line runs for the bytes
  that are missing, in a page lines for the missing rows, then pages as many as were announced.
  The counters of the converter are what these sets are indexed by. The direction that matters
  for a refusal, no continuation makes a document of this, needs that the grammar is
  deterministic: `SumsNext`, `LinesNext`, `RowsNext`, `PagesNext` and `DocumentsNext` say that the first byte
  of a part tells the part, and that no part begins another.

**Induction over data.** The library's induction theorems have an operator as parameter, which
none of the provers can instantiate. For a set they are not needed: a set of numbers that
contains 0 and is closed under successor is `Nat`, because the least number outside it would
contradict that (`Induction`, from the theorem that `<` is well-founded). With the set of
numbers for which a statement holds this proves the statement, and it also proves that the functions
defined by recursion in `Decoded` and `Sums` exist and satisfy their equations, which TLA+
does not grant by itself.

## What is only checked on small instances

- The liveness properties (`ClientsLeaveBacklog`, `SlotsComeBack`, `ClientsAreServed`, `UpdateEnds`,
  `ReadyRestarts`, `DeviceComesBack`, `SetupFallback`): TLAPS 1.4.5 has no rules for fairness.
- The agreement of `ChunkedBody` with the grammar of `MCBodyRelay`, up to seven pieces. The grammar is a
  RECURSIVE operator, which the provers do not take. The theorems about `BodyRelay` are about
  `ChunkedBody`.
- `AdvertisedIsSelected` and `DnsFunnel` where mDNS calls or sockets fail, and `ConfirmedIsKept` on
  a network that changes, are not claimed: the code does not promise them.

Leaves that expand a CHOOSE (`Oldest`, `Newest`, the compaction) are given to Zenon throughout: the
encoding of CHOOSE for the SMT solver is not to be trusted.

## What is not modelled, and the plan

Left out, with the reason:

- The Improv packet parser and the commands that only answer (`improv_serial_codec.c`): one task,
  no state beyond a packet, covered by unit tests. The join it starts is in `WifiManager`.
- The encoding of IPP messages, URIs, media sizes and names in `ipp_codec.c`: bytes that are copied,
  with no decision about a job.
- JSON and HTML (`web_server.c`), URL strings (`printer_transport.c`), UUIDs (`printer_identity.c`),
  cryptography, the migration of old NVS blobs in `app_state.c`, and the merging of duplicate mDNS
  results, which changes what is listed but no decision that is modelled.

What the proofs changed in the models: the proof of `DocumentsConverted` failed on two cases that the
runs had not met. The definition of documents allowed runs of more than 128 pixels, which no
control byte can express, and a first page header that is refused was not possible together with
a page count. Both are corrected, and the run now has such a header.

Of the properties of the runs only liveness is left to TLC alone. A next step would be the parts that
are modelled partly: the encoding of IPP messages, and the Improv packets.
