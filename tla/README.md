# TLA+ models of the OpenLI collector core

This directory holds TLA+ specifications of the parts of the OpenLI collector
(`src/`) where the hard engineering is: the **exporter thread** that encodes
intercept records and delivers them to mediators, and the **IMAP session
tracker** that reassembles IMAP flows, learns the mailbox and redacts
credentials. It also covers the provisioner's per-peer connection state
(`provisioner/provisioner_client.c`), the SIP parser wrapper
(`sipparsing.c`) and the YAML configuration loaders (`configparser.c`). Each module is translated from the C source. `PROJECT.json`
maps every definition to the lines it models, and lists the runs, the
mutants, the findings and the hazards.

## 1. Inventory of the system

| Part | Source | State | Operations | Interacts with |
|---|---|---|---|---|
| Exporter loop | `collector/collector_export.c` | `exp->dests` (mediator list), `exp->intercepts` (LIID → details and CIN counters), `flagged`, `flagtimerfd`, the inbound queue | `read_exported_message` dispatch on the message tag, `run_encoding_job`, `connect_export_targets` (1 s tick), the flag timer, `exporter_thread_main`'s poll loop | capture workers and the sync thread (queue writers), mediators (TCP) |
| Mediator registry | same file | per mediator: `details`, `fd`, `halted`, `awaitingconfirm`, `buffer` | `add_new_destination`, `add_unknown_destination`, `remove_destination`, `FLAG_MEDIATORS`, `purge_unconfirmed_mediators`, `remove_all_destinations` | the exporter loop |
| Intercept state table and sequence counters | same file | `exporter_intercept_state_t`, `cin_seqno_t {cin, iri_seqno, cc_seqno}` | `exporter_new_intercept`, `exporter_end_intercept`, the counter bumps in `run_encoding_job` | the encoder |
| Export buffer | `export_buffer.c` (not in this tree; spec 4.A) | byte queue, `partialfront` | append, `transmit_buffered_records`, reset of the partial front on reconnect | forwarding |
| Encoder adaptor | `etsili_core.h` (prototypes) | none | encode a record with a sequence number | run_encoding_job |
| IMAP session tracker | `collector/emailprotocols/imap.c` | content buffer, `contbufread`, `next_comm_start`, `reply_start`, `next_command_type`, the saved commands with their CCs, `auth_*`, `mailbox`, `currstate` | `update_imap_session_by_ingestion` → `process_next_imap_state` → framing, reply, command, SASL and IDLE handlers | the email worker that feeds captured segments |
| Provisioner client | `provisioner/provisioner_client.c` | per peer: `commev`, `ssl`, `authev`, `idletimer`, socket state (`incoming`/`outgoing` buffers, `halted`, `trusted`) | accept, pending handshake, disconnect, destroy, timer start/halt | the provisioner's epoll loop (`provisioner.c`, not in this tree) |
| Configuration parser | `configparser.c` | the `collector_global_t` being filled (IDs, inputs array, sync queue sizes); the provisioner's intercept and agency lists and listen addresses | `yaml_parser`'s load and root walk, the callbacks `global_parser`, `provisioning_parser` and `ipintercept_parser` with `parse_input_config`, `parse_ipintercept_list` and `parse_agency_list`; `clear_global_config`; `parse_global_config`'s mandatory-ID checks | the collector's and the provisioner's start-up, which are not in this tree |
| SIP parsing | `sipparsing.c` | one reusable `openli_sip_parser_t`: the osip message of the last packet and its lazily parsed SDP; osip's strings, which the getters write into | `parse_sip_packet`, `release_sip_parser`, the session/media getters, the (proxy) auth identity getters with `strip_quotes`, the From/To URI getters with `strip_sip_uri` | the SIP collector thread (not in this tree) |

Behaviours that make these parts hard:
- The exporter interleaves mediator churn (announce, drop, flag, remove-all),
  intercept changes, jobs and reconnects.
- Sends can be partial, get EAGAIN or fail. Sockets close mid-record and are
  reconnected by the 1 s tick.
- Records for an unknown mediator are buffered until it is announced.
- The unconfirmed mediators are purged by a 10 s timer.
- The IMAP tracker sees the flow cut at arbitrary byte positions, so every
  handler must wait for a CRLF and resume later.
- SASL PLAIN credentials must be masked in the saved command before it
  becomes a CC. IDLE changes the framing.

The properties each part should have:
- Exporter:
  - records reach a mediator whole and in enqueue order (spec properties 2 and 3);
  - sequence numbers per (LIID, CIN, kind) run 0, 1, 2, … across re-announcements (property 1);
  - buffered records are delivered once the mediator is announced (property 4);
  - reconnects happen;
  - unconfirmed mediators are purged (property 7);
  - non-fatal errors do not end the thread (section 7).
- Provisioner client: trust ends with the connection; a connection always has
  buffers; destroy releases everything.
- IMAP tracker:
  - no live credential is kept (property 5);
  - the IDLE split and the CC directions are right (property 6);
  - ingestion terminates;
  - the mailbox is the authcid;
  - every server response but the greeting is intercepted (spec 4.F: untagged
    lines join the reply of the awaited command);
  - unsupported SASL ends in AUTHENTICATED.
- Configuration loaders: the arrays hold what is written into them; a config
  that is returned is live and valid; the intercept and agency lists are what
  the file describes; a file missing a mandatory ID is refused, not crashed on.

## 2. Modules

| Module | Models | Composes |
|---|---|---|
| `Exporter.tla` | the exporter thread with the mediator registry, intercept table, counters, and export-buffer behaviour; the mediators' reassembly of the byte stream as the environment (`Receive`, `Emit`) | ExportDelivery (refinement) |
| `MCExporter.tla` | model values for two mediators, two addresses, one LIID, one CIN; symmetry over mediators and addresses | Exporter |
| `ImapSession.tla` | one IMAP session of the tracker and the worker loop feeding it | — |
| `ExportDelivery.tla` | the abstract promise of the export path: one FIFO channel per mediator | — |
| `ProvisionerClient.tla` | the `prov_client_t` life cycle of each peer, driven by any order of calls | — |
| `MCProvisionerClient.tla` | two peers (a collector and a mediator), symmetric | ProvisionerClient |
| `SipParsing.tla` | the SIP parser's life cycle and the getters that change state or rework strings | — |
| `MCSipParsing.tla` | token and host sets: plain and quoted values, with and without `""`; names, with and without an IPv6 address | SipParsing |
| `ConfigParser.tla` | the three YAML loaders of `configparser.c`, one callback call per step | — |
| `MCConfigParser.tla` | configuration files on the ID length limits, with eleven inputs, repeated keys, incomplete entries, wrong node types, and every load failure | ConfigParser |
| `MCImap.tla` | session transcripts: greeting, AUTHENTICATE (PLAIN inline, PLAIN after `+`, GSSAPI, lower-case), NOOP, IDLE or a pipelined NOOP pair, LOGOUT | ImapSession |

### Exporter

State:

| Variable | Code |
|---|---|
| `dests[m]` | the `export_dest_t` of mediator `m`, with fields `addr`, `conn` (`NoConn` for fd -1, `None` for a fresh connection, an id for a connection cut inside that record), `halted`, `awaiting` (`awaitingconfirm`), `buf` (record ids in the export buffer), `partial` (`partialfront` ≠ 0) |
| `intercepts` | intercept state with its CIN counters |
| `flagged`, `flagtimer` | `exp->flagged`, `exp->flagtimerfd != -1` |
| `job` | the job being encoded; its records are produced one per step |
| `wire[m]` | the record ids the mediator has reassembled, or `Garbled` for a split record |
| `records` | every record encoded, with stream and sequence number |

Actions, one per handler:

| Action | Code |
|---|---|
| `AddNewDestination` | `add_new_destination` |
| `RemoveDestination` | `remove_destination` (DROP_SINGLE_MEDIATOR) |
| `FlagMediators` | FLAG_MEDIATORS in the `#if 0` reader |
| `RemoveAllDestinations` | DROP_ALL_MEDIATORS in the `#if 0` reader |
| `DrainUnhandledMessage` | the live reader's default case, which FLAG_MEDIATORS and DROP_ALL_MEDIATORS reach |
| `ExporterNewIntercept` | INTERCEPT_DETAILS |
| `ExporterEndIntercept` | INTERCEPT_OVER |
| `RunEncodingJob` | the start of a CC or IRI job |
| `ReadIpccJobUnpackFailure` | a malformed IPCC message |
| `EncodeStep` | one record of `run_encoding_job` with `export_encoded_record` → `forward_message` → `forward_fd` |
| `ConnectExportTargets` | the 1 s tick |
| `FlagTimerExpired` | the purge |

The message handlers are gathered in `ReadExportedMessage`, the switch of
`read_exported_message`; its inputs come from the sets of what each reader
unpacks (`MediatorMsg`, `InterceptMsg`, `IpiriJob`, `IpccJob`).

**Two readers.** `collector_export.c` has two `read_exported_message`s. The
live one (980-1059) handles no FLAG_MEDIATORS or DROP_ALL_MEDIATORS: its
default case drains the frames. The one behind `#if 0` (1061-1159) handles
both; spec section 9 calls it the design intent. The constant `FlagSupport`
chooses the reader. With `FALSE` (the live build), `DrainUnhandledMessage`
is enabled. With `TRUE`, `FlagMediators` and `RemoveAllDestinations` are
enabled. `exporter_safety` uses `TRUE`;
`exporter_reconnect`, `exporter_announce_unhalt` and `exporter_backlog` use
the live build. In the live build `flagged` is never set, so the safety
properties checked with `TRUE` hold for it too: its behaviours are those of
`TRUE` minus two handlers, plus message steps that change only `msgs`.

**Refinement.** `ExportDelivery` states what the export path promises,
without connections or partial sends:
- every record joins the queue of exactly one mediator;
- a mediator receives only the head of its own queue, whole and once;
- queued records leave unreceived only when every queue is discarded at
  once, or as the one record in flight when the sender stops.

`Exporter` instantiates it as `Delivery` with this mapping:
- `produced` ← `Len(records)`;
- `queued[m]` ← the export buffer of `m`;
- `delivered` ← `wire`;
- `open` ← `running`.

`ImplementsDelivery` (`Delivery!Spec`) is checked as a property of
`exporter_safety`.

`EncodeStep` chooses a send outcome: full, partial, EAGAIN or error. Socket
errors and exits follow the code: a -1 from a handler sets `running` to
FALSE, as `exporter_thread_main` returns.

### ProvisionerClient

`client[k]` holds, for peer `k`:
- `commev`: `NoEv`, `"wait"` or `"main"` (the fd type it was registered with);
- `authev` and `idletimer`;
- `ssl`;
- `state`: `"none"`, `"live"` or `"freed"`;
- `bufs`, `halted` and `trusted`.

The C functions are operators on one record:
- `Accept`, the whole of `accept_provisioner_client` (every
  `listen_ssl_socket` result, epoll failure);
- `ContinueHandshake`;
- `Disconnect`, `Destroy`, `HaltMainfd` and `DestroyClientState`;
- the timer starts and halts.

The caller, the provisioner's epoll loop, is not in the tree. The
environment therefore calls the public functions for any peer in any order
(`halt_provisioner_client_mainfd` and the timer starts on their own
included), with two restrictions:
- the pending handshake is continued only on a `"wait"` commev;
- nothing is called after destroy.

It adds one caller step: a successful authentication sets `trusted` and
halts the auth timer. In this environment a main-fd halt without a
disconnect keeps `ssl`, and a later accept overwrites it
(`provisioner_client.c:174`); whether the caller ever does that is in
`provisioner.c`, so the leak is a hazard with a note, not a property.

### SipParsing

Variables:
- `parser`: `NoParser` (the caller's NULL pointer) or `[osip, sdp]`. `osip`
  is the message of packet `pkt`: whether it has a body, and at most one
  Authorization or Proxy-Authorization header whose username and realm are
  NUL-terminated character buffers. `sdp` is `NoSdp` or the SDP parsed
  from message `msg`.
- `ret`: what the last `parse_sip_packet` returned. The caller calls
  getters only after 1.
- `lastid`, `lasturi`: what the last identity or URI getter returned, with
  the header value it was made from.

Characters are abstracted to what the code compares: the quote `Q`, `NUL`,
and `"a"` for anything else. URIs use `:`, `;`, `?`, `@`, and one letter
per part.

Actions:
- `ParsePacket` is the whole of `parse_sip_packet`. Every early return is
  a `Verdict`: no transport, not TCP/UDP, short header, no payload,
  keep-alive, osip error, or SIP.
- `ParsedState` is the reuse branch. It tests `p->osip` while `p` is still
  uninitialised. That read is undefined behaviour, so `heldread` chooses
  its outcome:
  - nonzero: the parser is reused, and its message and SDP are freed;
  - zero: the packet is parsed into wild memory, and the parser keeps its
    old message.
- `ReleaseParser` models `release_sip_parser`.
- `GetSessionField` is the first call of any session or media getter,
  which runs `parse_sdp_body`.
- `GetSipAuthIdentity` and `GetSipProxyAuthIdentity` (both via
  `IdentityFrom`) measure with `strlen` and apply `StripQuotes` to the
  username and the realm. `StripQuotes` writes NUL over a closing quote in
  osip's own buffer, so a later call sees the changed buffer.
- `GetSipFromUri` and `GetSipToUri` apply `StripSipUri` to any canonical
  URI (`UriParts`).

### ConfigParser

Data is abstracted: a YAML scalar is `[len, num]`, its `strlen` and what
`strtoul` makes of it; a key is its text; a sequence item is the list of
(key, value) pairs of its mapping. `doc` is one file: how loading it ends
(`"ok"`, or fopen / load / no root / root not a mapping failing) and its
root pairs.

Variables: `entry` (which caller: `parse_global_config`,
`parse_provisioning_config` or `parse_ipintercept_config`), `pc`, `i`
(the next root pair), `ret` (`yaml_parser`'s `ret`), `glob` (the IDs by
YAML key, the inputs with `inputalloced`, `totalthreads`, `queuealloced`,
and `cleared` once `clear_global_config` has freed it), `prov` (intercept
list, agency list, listen addresses) and `result`.

Actions:
- `LoadFails` and `LoadRoot` are `yaml_parser` up to its loop.
- `GlobalPair` and `ProvisioningPair` are one iteration of the loop: one
  call of the callback, with every nested loop (`parse_input_config`,
  `parse_ipintercept_list`, `parse_agency_list`) folded into it as a
  `FoldLeft`. A -1 from `global_parser` (an over-long ID, after which it has
  freed the glob) ends the walk.
- `EndPairs` is the return after the loop; an empty root mapping returns -1.
- `CheckIds` is `parse_global_config`'s tests after `yaml_parser`: a missing
  network element ID frees the glob, sets it to NULL and then reads
  `glob->operatorid` (`pc = "crashed"`); a missing operator ID frees it and
  returns NULL.

`ListsMatchDocument` compares the parser with `RefList`, which says what a
file means without the parser's loops: per entry, the first value of each
key (`SelectInSeq`), entries missing a field dropped, numbering by position,
lists in reverse document order (`libtrace_list_push_front`).

### ImapSession

Bytes are abstracted to lines. A transcript line is
`[dir, tag, word, more, mech, tok]`. The buffer holds `avail` complete lines
and, if `half`, the next line without its CRLF. The code's cursors are line
offsets in `im`:
- `rd`: `contbufread`;
- `ncs`: `next_comm_start`;
- `rs`: `reply_start`.

A saved command is a sequence of *pieces*: a line, a line cut before its
token, or a masked token. Its CCs are piece ranges.

Every C handler is an operator returning `[cs, i, r, crash]`: the new
`currstate`, the new session, the return value, and whether the worker
dereferenced NULL. `Process` applies one call of `process_next_imap_state`.
`Ingest` is one captured segment appended by
`append_content_to_imap_buffer`; a segment may end mid-line. The loop
`while (process_next_imap_state(...) > 0)` is `busy`.

The stub `read_imap_while_auth_state` has no return statement, so its result
is undefined behaviour. It is modelled as any value of `StubResults` (-1, 0
or 1).

## 3. Runs

| Run | cfg | Expect | Checks | Shows |
|---|---|---|---|---|
| exporter_safety | `MCExporter.cfg` | pass | `TypeOK`, `OrderPreserved`, `NoSplitRecord`, `SeqConsecutive`, `NoRecordLost`, `ImplementsDelivery` | ordering, whole-record delivery, gap-free sequence numbers, no loss while running, and refinement of `ExportDelivery` (33 446 states, about 35 s) |
| exporter_reconnect | `MCExporterLive.cfg` | pass | `ReconnectEventually` | in the live build, the 1 s tick reconnects every known, unhalted, disconnected mediator |
| provisioner_clients | `MCProvisionerClient.cfg` | pass | `TypeOK`, `TrustedOnlyConnected`, `ConnectionHasBuffers`, `DestroyReleasesAll` | trust ends with the connection, a registered connection has buffers on every accept path, destroy releases everything (1 485 states) |
| exporter_announce_unhalt | `MCExporterAnnounce.cfg` | violation | `AnnouncedNotHalted` | an announce for a dropped, never-announced mediator leaves it halted |
| exporter_backlog | `MCExporterBacklog.cfg` | violation | `BacklogEventuallySent` | a backlog on a connected socket is not retried by the tick |
| sip_parser | `MCSipParsing.cfg` | pass | `TypeOK`, `SdpOfCurrentMessage`, `StrippedUriIsAddress`, `AuthIdentityUnquoted` | over three packets of every kind, both outcomes of the uninitialised read, releases and getters in any order: the cached SDP belongs to the held message, From/To URIs come back as the bare address, and repeated identity reads of plain or quoted values are unquoted with their true length (15 626 states) |
| imap_sessions | `MCImap.cfg` | pass | `TypeOK`, `NoLiveToken`, `CcDirectionsMatch`, `StubUnreachable`, `IngestionReturns` | every cut of four well-formed sessions is handled: no live token, right CC directions, the auth stub unreachable, every ingestion returns (938 states) |
| imap_preauth_greeting | `MCImapPreauth.cfg` | violation | `IngestionReturns` | `* PREAUTH` hangs the worker |
| imap_pipelined_untagged | `MCImapPipelined.cfg` | violation | `ServerLinesIntercepted` | `* 1 EXISTS` pending for `a2` when a pipelined `a3 NOOP` completes is dropped: `find_command_end` resets `reply_start` (`imap.c:757`), against spec 4.F |
| imap_lowercase_authenticate | `MCImapLower.cfg` | violation | `WorkerNeverCrashes` | `authenticate` keeps the token and then crashes |
| config_loader | `MCConfigParser.cfg` | pass | `TypeOK`, `InputArraysSized`, `ReturnedGlobValid`, `ListsMatchDocument` | the input arrays hold every input, a returned config is live with both IDs within their limits, and the intercept and agency lists are what the file says (177 states) |
| config_missing_element_id | `MCConfigParserNull.cfg` | violation | `NoNullDereference` | a file without `networkelementid` makes `parse_global_config` dereference NULL (`configparser.c:507`) |

Each property of a passing run has a mutant in `PROJECT.json`: a plausible
bug in a mapped definition that makes the run fail. All mutants are caught.
Examples:
- the forward path not draining the buffer first;
- the reconnect not resetting the partial front;
- the re-announce resetting the counters;
- IDLE's server CC running over `DONE`;
- masking written after the token instead of over it;
- `remove_destination` freeing the entry with its buffer (caught by
  `ImplementsDelivery`);
- destroy halting the idle timer before disconnect starts it again;
- the input array allocated once and never grown, a rejected ID that frees
  the glob without returning -1, and first-wins keys turned into last-wins.

### Bounds

Exporter:
- Two mediators and two addresses are enough for:
  - cross-mediator interleavings;
  - an address change;
  - a mediator that is unannounced while another one is known.
- One LIID and one CIN give one stream per kind. Sequence numbering is
  per stream, so more streams add no new cases.
- `MaxMsgs` is 5 for safety, and 3–4 for the liveness and violation runs.
- `MaxIriRecs` is 2, so an IRI job produces several records and a send can
  fail between them.
- `MaxFaults` is 2. This allows a partial send, a reconnect and a second
  fault within one run.

IMAP:
- A segment ends up to two line ends further on, possibly mid-line. This
  reaches:
  - every handler's "no CRLF yet" path;
  - the case where the first space lies on a later line.
- The transcripts are the shortest sessions that use every handler.

Configuration:
- IDs of length 16/17 and 8/9 sit on either side of each limit.
- Eleven inputs pass the first allocation of ten; a second `inputs` key
  appends to the same arrays.
- Entries repeat keys, start with a zero `mediator`, or miss a field; the
  file has two `ipintercepts` lists, so numbering restarts.
- Each loader is one pass over one file, so the state space is the files
  times the callers; no bound is needed.

SIP parsing:
- Three packets allow a parse, a reuse after getters, and a third parse
  after a release or a failed parse.
- The tokens are `a` and `"a"`. A second identity read of `"a"` sees the
  buffer with the closing quote already gone, which is the case
  `strip_quotes`' comment is about.
- One host stands for names and IPv4 addresses.

### Fairness

Exporter:
- Weak fairness of `ConnectExportTargets`: the 1 s timer fires forever.
- Weak fairness of `EncodeStep`: a job once read is encoded to the end in
  the same call.
- Weak fairness of `FlagTimerExpired`: an armed timerfd fires.
- Reading the queue is not fair. Jobs arrive only if producers send them.

IMAP:
- Weak fairness of `Ingest`: the rest of the captured flow is delivered.
- Weak fairness of `Process`: the worker thread keeps running its loop.

Configuration: no fairness. A load is one sequential pass at start-up.

SIP parsing: no fairness and no liveness property. Every step is a call
by a caller that is not in the tree.

Provisioner client: no fairness and no liveness property. Every step is a
call by the caller, which is not in the tree, so nothing it must eventually
do can be justified from this code.

Provisioner client bounds: two peers. The functions touch only their own
client, so a second peer adds only interleavings. The state is finite
without a bound; one peer has 34 states.

The runs set `CHECK_DEADLOCK FALSE`, because the system really can stop:
- the exporter may exit;
- the message and transcript bounds are finite;
- a configuration load ends;
- a destroyed provisioner client takes no further calls.

## 4. Not modelled

- **Configuration details.** libyaml's own parsing is an input: the model
  starts from the loaded document. Leaks are not tracked: a repeated
  global key, a skipped intercept or agency, or a second `inputs` key
  loses what was strdup'd or malloc'd before. A sequence item that is
  not a mapping (its union read as pairs) is not generated. The spec
  (section 6) lists `interceptpointid`, `provisionerip`,
  `provisionerport` and `inputs` as required, but `parse_global_config`
  checks only the two IDs. `parse_export_config` has an empty body.
- **SIP getters that only read** (`get_sip_cseq`, `get_sip_callid`, the To
  username/realm/identity getters, `sip_is_*`). They return what osip
  parsed and change nothing. osip's own parsing is an input to the model.
- **Flag/purge liveness of the `#if 0` reader.** With that reader, a
  FLAG_MEDIATORS that no announce follows never arms the purge timer.
  This is uncompiled code, so it takes no run slot and is not listed as a
  hazard of the compiled collector.
- **The provisioner's epoll loop** (`provisioner.c`) is not in the tree.
  What it does when the auth or idle timer fires, and how it reads
  `halted`, is unknown. The hazards of section 6 that depend on it have
  notes instead of properties.
- **Fatal exits.** Errors that spec section 7 calls non-fatal still end the
  exporter thread:
  - an INTERCEPT_OVER for an unknown LIID (542-546);
  - an encoder failure (742-744);
  - a send error (630-633);
  - a malformed IPCC job (862-864).

  The model follows the code (`running` becomes FALSE), and
  `ExportDelivery` admits the stop.
- **The BER encoder.** Only its success or failure and the sequence number
  it consumes are modelled.
- **Octet counters, `parse_id_command`, logging.** No property concerns
  them.
- **Memory exhaustion.** It is listed as a hazard but is not an outcome
  the model chooses.

## 5. Plan for later work

1. Extend the IMAP transcripts with reused tags (the `save_imap_reply`
   match) and a long session that reuses command slots.
2. Model allocation failures in the export buffer as an outcome, and check
   `NoRecordLost` against them.
3. Model the spec's fixed exporter (non-fatal errors, and the timer armed
   on flag), and check the violated properties against it.

## 6. Hazards

Two SIP results are reproducible but have no run slot of their own:
- `tlc -config MCSipEmptyQuote.cfg MCSipParsing` adds the empty quoted
  value `""`. TLC finds `AuthIdentityUnquoted` violated on the second
  identity read of the same message. The first read leaves a lone quote
  in osip's buffer, and the second strips it twice, giving a length of
  -1 (`sipparsing.c:284`).
- `tlc -config MCSipIpv6.cfg MCSipParsing` adds an IPv6 host. TLC finds
  `StrippedUriIsAddress` violated, because `strip_sip_uri` cuts at the
  first colon inside `[h:h]` (`sipparsing.c:160`).


Three IMAP results are reproducible but no longer take a run slot:
- `tlc -config MCImapGssapi.cfg MCImap`: `AuthEventuallyCompletes` is
  violated. A non-PLAIN mechanism leaves `next_command_type` AUTH
  (`imap.c:427`), so the session never leaves AUTHENTICATING; the spec
  (section 9) leaves non-PLAIN SASL unspecified.
- `tlc -config MCImapMailbox.cfg MCImap`: `MailboxIsAuthcid` is violated.
  `decode_plain_auth_content` strdups the decoded token up to its first
  NUL, which gives the authzid (empty for `\0alice\0secret`).
- `tlc -config MCImapSplit.cfg MCImap`: `CcDirectionsMatch` is violated.
  A PLAIN token after a `+` continuation is decoded before it arrives, and
  the `+ ` line is saved as a client command.

The hazards are listed in `PROJECT.json` at their source lines, with the
properties that catch them. Those without a property carry a note saying
why. The main reasons are:
- the behaviour depends on code that is not in the tree: the provisioner's
  caller, or the encoder's use of `authcc_len`;
- the transcripts are too short for the unbounded command table to matter;
- the behaviour is what the code does by design (the fatal exit, the
  ignored append failure).
