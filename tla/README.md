# ghostbro: TLA+ models, model checking and proofs

ghostbro hides a proxy behind single-packet authorisation (SPA). A client sends
one sealed, signed UDP datagram (or the same payload to the decoy web site); the
server checks it, opens its XDP filter for the sender's address for a while, and
the client then runs a Noise XK tunnel through the opened port. A second service
behind the same tunnel, the Ghost Relay, fetches web pages, git mirrors and
packages for clients and keeps the results in a spool directory.

This directory models the parts of the program that keep state and that several
actors touch. Line numbers of every definition are in `PROJECT.json` (`map`).

## 1. Inventory

| Component (source) | State | Operations | Interacts with | What is hard | What makes it correct |
|---|---|---|---|---|---|
| SPA verifier (`ghostbro-server/src/spa.rs`, `keys.rs`) | authorised clients, high-water counter per key, counter file | `verify`, `persist_counters`/`save_counter_state`, `load`, `reload_clients` | driven by `run_spa`; its accept opens the gate | replay, duplicated and reordered knocks; crash between memory, file and accept; failed writes; power loss; key removed and listed again | a counter is accepted once, in increasing order, and only after it is on disk; a reload never forgets counters |
| Allow map, mirror, reaper, purge (`ebpf.rs`) | `ALLOW_MAP` (kernel), `allowed_sources` (user space) | `allow_source`, `purge_key_id`, `reap_expired_sources`, reload | verifier, XDP, proxy listener | two copies written one after the other; kernel and user space both remove entries; LRU eviction | what XDP lets through is known to user space; a revoked key loses its entries |
| XDP filter (`ghostbro-ebpf/src/main.rs`, `ghostbro-bpf-common`) | `ALLOW_MAP`, `RATE_LIMIT`, `GLOBAL_RATE`, `SPA_RING` | `is_allowed`, `rate_limit_allows`, `global_rate_limit_allows`, `emit_spa_event` | feeds `run_spa` through the ring | runs on all CPUs at once, no atomics; spoofed sources churn the LRU map | the load on the verifier is bounded by the global budget |
| Proxy listener (`noise.rs`) | session count per key, one task per connection | accept, copy of the mirror entry, handshake, `acquire_session`, `SessionSlot::drop` | reads the mirror | the copied entry is used after the handshake; limits change by reload | slots never leak; no session starts above its limit; a revoked key gets no further |
| Tunnel (`NoiseFramedStream`, `handle_socks5`; client `negotiate_local_socks5_tunnel`, `relay_local_socks5`) | frame being read, plaintext not yet served, frame not yet written; two threads on clones of one socket | `poll_read`, `poll_write`, `poll_flush`, `poll_shutdown`; negotiation, relay threads | application, client, server and target in a row | partial reads and writes, half-closed directions, one end dying, full buffers, reads that wait behind writes | each direction is a byte stream; a session both ends left is over |
| Ghost Relay (`relay.rs`; client `relay_download`) | spool directory (metadata and objects), channel, worker pool; offset and body of a download | submit, list, download, delete, `process_job`, `reap_expired`, `recover_pending` | requests through a Noise connection each | no lock covers a metadata file; crash at any point; recovery beside new work; a download is many requests | quotas; a complete job has its result; accepted jobs finish; a download is one result |
| Client (`ghostbro-client/src/main.rs`) | counter file, `counter_lock`, `active_candidate` | `next_counter`, `send_spa`, `connect_noise_with_failover`, `start_spa_refresh`, one-shot commands | knocks at servers | threads and processes share the counter file; refresh waits behind failover, whose network calls have no timeout; knocks get lost | counters increase; the refresh of an open tunnel is late only by the time the lock was held and knocks in vain; failover is exhaustive |
| Packet format and sealing (`ghostbro-common`) | none | encode, seal, open, verify | used by client and verifier | cryptography | abstracted to one Boolean per payload |
| Decoy site, TLS, HTTPS knocks (`decoy.rs`) | none of its own | serve, forward a payload | verifier | I/O | a payload reaches `verify` like a datagram |
| Source validation, package resolution, HTML normalisation (`relay.rs`, `relay/normalize.rs`) | none | pure checks and conversions | relay worker | external data | abstracted to outcome and length |
| Start-up, configuration, privileges, key files, enrolment, xtask | files | one-shot | | | order of start-up only |

Every hazard found while reading, with its line and the properties aimed at it,
is in `PROJECT.json` (`hazards`).

## 2. Plan

| Step | Modules | State |
|---|---|---|
| 1. replay protection | `ReplayGuard` (abstract promise), `SpaVerifier` (implements it), `SpaVerifierProofs` | done: checked and proved |
| 2. the gate: kernel map, mirror, listener | `AllowGate`, `AllowGateProofs` | done: checked and proved |
| 3. relay engine | `RelayEngine`, `RelayEngineProofs` | done: checked and proved |
| 4. client | `SpaClient`, `SpaClientProofs` | done: checked and proved |
| 5. admission in XDP | `XdpAdmission`, `XdpAdmissionProofs` | done: checked; proved for one CPU |
| 6. framed stream and tunnel data path | `ByteStream` (abstract promise), `Tunnel` (implements it, once per direction), `TunnelFrames`, `TunnelProofs` | done: checked and proved |
| 7. composition of client and server | `RelayDownload` (client's chunk loop with `RelayEngine`), `RelayDownloadProofs`; lost knocks and servers that are down in `SpaClient` | done: checked and proved |
| 8. proofs of what the runs check | the `*Proofs` modules | done: every invariant, action property and refinement of the passing runs is a theorem; liveness stays with TLC |

`AllowGate` takes from `SpaVerifier` only that an accept is possible for a listed
full-tier key; `SpaClient` takes from both only that a server accepts a counter
above its high-water mark and then admits the client for the TTL. `Tunnel` starts
where `AllowGate` has established a session, and `SessionOver` is what frees the
slot there. `RelayDownload` extends `RelayEngine` and adds nothing to what the
engine may do.

## 3. Modules and code

Each `MC*` module names the small sets the `.cfg` files use. Definitions called
`Mut...` are plausible bugs, put in place of the definition they precede to see
that a property notices; no specification uses them.

### SpaVerifier, ReplayGuard

One task (`run_spa`) executes `verify`. `Verified` is the conjunction of the
checks in code order; `Verify` raises the counter in memory, `WriteTemp` and
`Rename` are `save_counter_state`, `PersistFails` any error in it (the counter
stays raised in memory), `Accept` the return of `SpaAccept`. `file` is what the
running system sees; `disk` is what the directory holds after a power loss,
because `sync_all` covers the temporary file and nothing syncs the directory.
`BeginEdit`/`FinishEdit` are an editor that truncates and rewrites
`authorized_keys.toml`; `TakeReloadEvent`, `ReloadClients`, `ReloadFails` are the
reload branch; `Load` and `StartWatching` are start-up, which reads the file
before the watcher exists. The network has no actions: any payload of `Packets`
may reach `Verify` at any time, again and again. Counters are natural numbers:
`verify` only compares and copies u64 values, so no width matters.

`ReplayGuard` has one recorded counter per key, which only grows, and
authorisations that each use the recorded counter once. The mapping takes
`recorded` from the counter file (zero without a file) and the authorisations
from the accepts.

### AllowGate

`AllowInKernel` and `AllowInMirror` are the two writes of `allow_source`.
`Evictions` is the LRU map: at capacity an insert removes other entries (which
ones is the kernel's choice). `Reload` computes the keys that are gone,
`CollectPurge`/`CollectExpired` gather addresses under the read lock, and
`RemoveCollected` removes them one by one under the write lock (`locked`).
`RemoveMissing` is aya's error for an absent key, which ends the daemon;
`Restart` is systemd. `XdpFindsExpired`/`XdpRemoves` are the two halves of
`is_allowed` on one CPU. `Connect`, `Snapshot`, `HandshakePacket`, `Establish`,
`AbandonHandshake`, `EndSession` are a connection task: `Snapshot` copies the
mirror's entry, `HandshakePacket` is the arrival of the client's last handshake
message, which passes `is_allowed` once more, and `Establish` the task's step on it,
which looks at the copy only. A round of `run_spa` drains knocks and reload events
at "idle" for as long as there are any; `DrainEnds` takes it to the reap timer,
where it reaps (`CollectExpired`) or not (`NothingToReap`: the 60 s are not over or
nothing has expired).

### RelayEngine

`Submit`, `DeleteObjects`, `DeleteMetadata` are requests; `list` and `download`
change nothing. A worker goes through `Take`, `MarkRunning`, `Fetch`, `Store`,
`Normalize`, `Finish`, or through `WorkFails` and `RecordFailure`; its `m` is the
metadata it read in `Take`, which every later write writes back. `Store` is the
critical section of the quota lock. `ReapObjects`, `ReapMetadata`, `Expire`,
`Crash`, `Recover` are maintenance. A job id is used once. `fate` is history: it
tells jobs somebody began to erase from the others. The bytes a job records are a
set (`Bytes`), and the sum over a client's jobs is the size of their union.

### RelayDownload

`StartDownload` to `RequestFails` are `relay_download`: each chunk is a request,
which reads the metadata (`ReadMetadata`) and then the object (`ReadObject`,
`Reply`); any other answer, a server crash or a lost connection ends the
download. Every step of the engine may come between. A byte is the pair of the
version of the file it came from and its position, so that bytes of two fetches
of one job differ even at equal length. `version` and `contended` (jobs that two
workers held at once) are history.

### SpaClient

Listener threads (`BeginConnect` to `CloseTunnel`), the refresh thread (`Wake`,
`RefreshLock`, `RefreshKnock`, `RefreshReturns`) and one-shot commands share the
counter file; threads also share `counter_lock`. `ReadCounter` and `SendKnock` are
the two halves of `next_counter` and the datagram after it, which may be lost;
`AttemptFails`, `RefreshFails` and `CommandFails` include a `send_spa` that sends
nothing. All of them run on one device with one clock. Time advances only when every
thread waits: a sleep or a wait for a free lock never lasts longer than the code lets
it, while a thread that holds the lock may wait for the network (latency probes, the
HTTPS knock, `TcpStream::connect`, the handshake) without a bound, as the code sets
none. `held` and `missed` are history, per server since it last accepted a knock: the
time the lock was held by anyone, and the threads' knocks in vain. The servers are
external: each is up (`Reachable`) or not, keeps a high-water mark and an expiry.

### Tunnel, ByteStream

One session in a row of five: application, client, TCP, server, target. `client`
holds `negotiate_local_socks5_tunnel` (`pc`) and then the two threads of
`relay_local_socks5`: `out` is what `write_all` has still to write, `inp` what
`read_exact` has so far, `local` what goes to the application. `server` holds the
fields of `NoiseFramedStream` under short names (`len`, `size`, `body`: the frame
being read; `plain`: bytes not yet served; `pend`: the frame not yet written) and
the buffers of the copy loop. `ReadLength`, `ReadBody`, `ServerSeesEnd` are
`poll_read_outer_frame`, `Serves` the rest of `poll_read`; `PollWrite`,
`FlushPending`, `PollShutdown` carry the names of the functions. Each of these
moves any number of units a socket could move, so all partial reads and writes
occur; `FramesOpen` says that no way of cutting a frame brings a reader out of step
with the frames or the message counter of its writer. `up` and `down` are the two
halves of the TCP connection with a window of a few units, open, ended or reset.

A frame is its two length digits (base `Base`), its data units and a seal that
names the sender's message counter and the data: a frame that is cut, repeated,
reordered or dropped does not open. tokio's `copy_bidirectional` and the SOCKS5
library are external and modelled from how the code uses them: read, write, and
shut the other side down after an end; a failure of either direction ends both.
`Faults` says which ends may fail abruptly.

`ByteStream` is what each direction promises: bytes go in, come out in order, the
end comes out after the last one; once something has failed the receiver may see
less, and never anything else. The mappings `UpStream` and `DownStream` include
the negotiation, whose messages travel in the same frames.

### XdpAdmission

`Receive` and `SourceBucket` are `rate_limit_allows` (copy out, insert back),
`GlobalLoad`/`GlobalStore` the unsynchronised update of the global bucket,
`Emit` the ring-buffer reservation with its discard, `Drain` `run_spa`. `GlobalLimit` is
`min(Limit * 256, 1 000 000)` in the code; the model takes it as a constant of
its own and a small one, since no step depends on the ratio.

## 4. Runs

Passing runs:

| Run | Shows |
|---|---|
| `spa_replay` | replays, forgeries, failed writes, crashes, restarts, reloads: `AcceptedCountersIncrease`, `AcceptedIsRecorded` (write-then-accept), `CountersWereSigned`, `CounterFileNeverRegresses`, the refinement `ImplementsGuard`, and that a reported removal takes effect without restart (liveness) |
| `spa_power_loss` | a lost counter file keeps the daemon down instead of resetting counters |
| `gate_maps` | `LiveEntryIsMirrored`, `RevokedKeysHaveNoEntry`, `RevokedKeyIsShutOut` (after its purge a removed key neither has its entry copied nor gets a handshake message through it), `SlotsMatchSessions`, `SessionLimitHolds` (at the start of each session, under the limit that one carries) with eviction, lazy removal, reaping, purges, changed limits and daemon failures; expired mirror entries go while the daemon is up and the loop gets to its timer (liveness) |
| `relay_one_worker` | quotas, `CompleteJobsHaveTheirResult`, `CompleteIsFinal` and `NoJobIsForgotten` (an unfinished job is in the channel, ahead of the scan, or with a worker) with a crash, deletes and expiry at every point |
| `relay_download` | two workers, a crash, deletes, expiry and a client that downloads meanwhile: accepted jobs end (`JobsFinish`), the chunk loop ends for every length (`DownloadsEnd`), its output is one stored result of the announced length (`DownloadIsOneResult`) unless two workers ran the job at once |
| `client_refresh` | two connections that fail over from a server that is down, the refresh thread and a command, with knocks lost or not sent and attempts of any length: the last accepted knock of an open tunnel is no older than half a TTL plus the time `counter_lock` was held since, and every knock in vain costs half a TTL more; counters of threads increase until a command takes part; every candidate is tried exactly once per round before giving up |
| `tunnel` | a session from negotiation to teardown with either end failing at any moment: both directions refine `ByteStream`, `NothingLostInTransit` accounts for every byte in every buffer, `FramesOpen` keeps each reader in step with its writer whatever has failed, `UploadArrives` and `DeadSessionsEnd` (liveness) |
| `xdp_budget` | one CPU: one budget per window, at most two in any span of that length |

Runs that end in a counterexample; each one is a finding in `PROJECT.json` with
the sentence of the repository it contradicts:

| Run | What happens |
|---|---|
| `spa_power_replay` | power loss after `rename` and accept brings the old counter file back; the knock is accepted again |
| `gate_missing_entry` | XDP's lazy removal and the reaper meet: the reaper's removal fails and the daemon ends |
| `relay_storage_quota` | two workers pass the storage check before either records its result |
| `client_two_servers` | only the tunnel opened last is refreshed: the other one's entry runs out with no knock missed and the lock never held |

The models also contain weaknesses that no run states, because the properties of
the passing runs are worded around them; the hazards of `PROJECT.json` name each:

- a key removed between the first read of `authorized_keys.toml` and the creation
  of the watcher stays authorised (`ReportedRevocationTakesEffect` speaks of
  reported removals);
- a refresh between lookup and removal in `is_allowed` is deleted (the gate
  closes early, never opens);
- a client demoted to the decoy tier keeps its entry until it expires
  (`RevokedKeysHaveNoEntry` speaks of unlisted keys);
- a connection task keeps its copy of the mirror's entry for the whole handshake, which
  has no timeout on the server: a changed limit applies to tasks that copy later
  (`SessionLimitHolds` speaks of the copied limit), and a last handshake message that
  came in before the purge of its key still becomes a session, as it does when another
  key's entry opens the same address (`RevokedKeyIsShutOut` speaks of what comes in
  afterwards);
- knocks that arrive without a gap keep `run_spa` from its reap timer
  (`ExpiredEntriesGo` assumes the timer is reached again and again);
- an attempt that hangs in `TcpStream::connect` or in the handshake holds
  `counter_lock`, and nothing is refreshed meanwhile: allow entries of open tunnels
  run out, against the "periodic SPA refresh" of PRD 4.8 (`TunnelStaysAllowed` adds the
  time the lock was held to the age a refresh may have, and so says that this, lost
  knocks and a second server are the only ways);
- a job deleted while a worker holds it is written back (`JobQuotaForKeptJobs`
  leaves jobs their client deleted aside);
- the recovery scan queues jobs that were submitted while it runs;
- a job submitted during the recovery scan is queued twice, two workers may run it
  at once, and a download then mixes two results (`DownloadIsOneResult` leaves such
  jobs aside);
- a command and the listener may send the same counter (`IssuedCountersIncrease`
  ends with the first command);
- two workers that run one job at a time share the temporary name of its metadata
  file; the model has whole records overwrite each other, the code could tear one;
- a target that ends its own stream and then reads nothing keeps the copy loop in a
  write and the session alive (`WriteTarget` assumes a target that reads), and a target
  that sends without end may keep a frame pending whenever `poll_read` looks
  (`UploadArrives` is about finitely many bytes);
- sessions can hang for ever (`CircularWait`, which `DeadSessionsEnd` admits): the
  application dies while both directions are full; the download thread fails and
  nobody reads the stream from the server any more; the upload thread is in
  `write_all`; the server's `poll_read` returns at once as long as its own frame is
  pending, so it never empties the stream the upload thread waits for. No timeout
  covers any of the three, and the session slot stays taken;
- two CPUs may spend the same global token (`xdp_budget` has one CPU).

### Bounds

- `SpaVerifier`: two keys, two addresses, five payloads (two of one key so that
  order matters, one that leaves the address open, two forgeries), three key
  files (all, one removed, one demoted), two clock readings one window apart,
  four accepts: enough to accept both payloads of a key, drop and relist it,
  crash in every step and offer each payload again.
- `AllowGate`: two keys, two addresses, two connections, one CPU; capacity 1
  forces eviction; TTL 1 with clock bound 1 lets an entry expire and be renewed.
  One key file removes a key and at the same time takes another from unlimited to
  one session, for which both connections compete. One CPU already has the race
  of lookup and removal with user space; the theorems cover any number of CPUs.
- `RelayEngine`: two interchangeable jobs of one client, quota of one job and two
  bytes, results of one and two bytes, so that each check can pass and fail. Quotas are per
  client and clients share nothing, so one client is enough.
- `RelayDownload`: one job, two workers, one crash; chunks of 2 and results of 0, 2
  and 3 bytes: empty, a multiple of the chunk, one byte more.
- `SpaClient`: TTL 2, a refresh every tick, one retry after 2 ticks, so that a failover
  alone holds the lock for a whole TTL. The clock goes to 3, one refresh past the end
  of the first entry, and every tick of it may fall into any
  phase of an attempt or a knock, so that the lock is held beyond the end of an entry,
  which is what the property has to account for. Connections are interchangeable.
  `client_two_servers` lets the clock go to 4. The theorem covers every TTL, retry
  interval and clock.
- `Tunnel`: the target has at most `DownLen` bytes to send, closed or not; frames of
  at most 2 data units, base 2 for the length, windows of 2
  units, so that a frame never fits the stream and every header can be torn; an
  upload of 2 and a download of 3 units: more than one frame.
- `XdpAdmission`: one map entry for two sources (every second packet evicts),
  limits of 2, a window of 3 ticks, eight ticks: three windows.
- Histories (`log`, `admitted`) and crashes are bounded by `MaxAccepts`,
  `MaxAdmitted`, `MaxCrashes`; no property holds because a history is full.
- `CHECK_DEADLOCK FALSE` appears in the relay, client and XDP runs, which end when the
  bounded clock or the job ids are used up and nobody has work.

### Fairness

- `SpaVerifier`: weak fairness of the task's own steps; `run_spa` is a task of a
  running executor and none of these steps waits for anything. Strong fairness of
  `TakeReloadEvent`: each round that gets past the queues of knocks looks at the
  reload channel. That rounds do get past them is an assumption: the rate limit in XDP
  bounds the knocks of the ring, while knocks over HTTPS are bounded only by the
  capacity of their channel and not in rate. No fairness for edits, crashes, restarts
  or payloads.
- `AllowGate`: weak fairness of the second half of `allow_source` and of removal
  steps. Strong fairness of `CollectExpired`, which is enabled only at the timer: of
  infinitely many visits some find the 60 s over. Nothing makes the loop get there:
  that it does is the hypothesis `[]<>(pc = "timer")` of `ExpiredEntriesGo`, beside
  `[]Up`, without which a missing kernel entry would count as a clean-up. None for the
  clock, XDP, clients or restarts.
- `RelayDownload`: weak fairness per worker (every fetch has a timeout), of the
  recovery scan, and of each download: a request is answered or its connection
  ends. None for the reaper, so `JobsFinish` does not lean on the TTL.
- `Tunnel`: weak fairness of the client's two threads, of both directions of the
  server's task, and of an application that takes what it is given as long as it
  lives. Nobody has to send, to close or to fail. `CopyUp` is disabled while a frame is
  pending, so its weak fairness is enough only because the target's bytes are finite.

## 5. Proofs

TLAPS proves, for all values of the constants that satisfy the named assumptions
of the modules:

| Theorem | Statement |
|---|---|
| `SpaVerifierProofs!TypeCorrect` | `Spec => []TypeOK`, power loss included |
| `ReplayProtection` | accepted counters of a key strictly increase |
| `WriteThenAccept` | every accepted counter is covered by the counter file |
| `FileNeverRegresses` | the counter file never moves backwards |
| `GuardImplemented` | `SpaVerifier` implements `ReplayGuard` |
| `OnlySignedCounters` | only what a client signed moves its counter, power loss included |
| `MissingFileFailsClosed` | after the first accept, no counter file means no daemon, power loss included |
| `AllowGateProofs!TypeCorrect` | `Spec => []TypeOK` |
| `KernelCoveredByMirror` | every live kernel entry is mirrored |
| `RevocationIsComplete` | outside a purge no entry belongs to an unlisted key |
| `RevokedKeyStaysOut` | once purged, a removed key gets no entry copied and no handshake message through its entries |
| `SlotsAreExact` | slot counts equal live sessions |
| `LimitIsKept` | a session starts only within the limit it is admitted under, all sessions of its key counted |
| `RelayEngineProofs!TypeCorrect` | `Spec => []TypeOK` |
| `NothingForgotten` | an unfinished job is in the channel, ahead of the scan or with a worker |
| `JobQuotaHolds` | the job quota, jobs their client deleted aside |
| `ResultsAreThere` | one worker: a complete job has the result it announces |
| `CompleteStaysComplete` | one worker: `complete` is final |
| `StorageQuotaHolds` | one worker: recorded bytes stay within the storage quota |
| `RelayDownloadProofs!DownloadTypeCorrect` | types |
| `DownloadIsWhole` | a finished download is one stored result, unless the job was contended |
| `DownloadImplementsEngine` | downloads add nothing to what the engine does |
| `UncontendedResults` | any number of workers: `ResultsAreThere` for jobs never contended |
| `XdpAdmissionProofs!TypeCorrect` | `Spec => []TypeOK`, any number of CPUs |
| `OneBudgetHolds`, `TwoBudgetsHold` | one CPU: one budget per window, two in any span of that length |
| `SpaClientProofs!TypeCorrect` | types, and `counter_lock` is held exactly inside failover and refresh |
| `CountersIncrease` | counters the threads send increase until a command takes part |
| `FailoverIsThorough` | every candidate is tried exactly `MaxRetries + 1` times before giving up |
| `TunnelHolds` | the refresh of an open tunnel is late by no more than the time the lock was held and half a TTL per knock in vain |
| `TunnelProofs!TypeCorrect` | types; no frame outgrows its buffer and no stream its window |
| `ReadersInStep` | `FramesOpen`: the next frame is always one the reader's length and nonce fit |
| `NothingLost` | `NothingLostInTransit`: every byte sent is delivered, held or on its way, in order |
| `UploadIsAByteStream`, `DownloadIsAByteStream` | `Tunnel` implements `ByteStream` in each direction, failures included |

Some theorems have hypotheses, and each of them is needed:

- `ReplayProtection`, `WriteThenAccept`, `FileNeverRegresses` and `GuardImplemented`
  assume `PowerLoss = FALSE`: with power loss they are false, as `spa_power_replay`
  shows. Crashes of the process are included.
- `OneWorker` (`worker_count = 1`; the default is 4): a job submitted during the
  recovery scan is queued twice, and two workers may then overwrite each other's
  status, or pass the storage check one before the other records
  (`relay_storage_quota`). `UncontendedResults` says what is left with more workers.
- `OneCpu`: nothing makes the update of the global bucket atomic, so two CPUs may
  spend the same token.
- `TunnelHolds` assumes that one candidate is up, since only the tunnel opened last is
  refreshed (`client_two_servers`). It bounds neither attempts nor knocks, and commands
  may run beside the listener: a thread's knock the server refuses because of a
  command's counter is one of those in vain.
- `OrdersAssumption` of `SpaClient` says that `order_candidates` permutes the
  candidates; sets of workers, connections and servers are finite.
- `Tunnel` assumes that a frame holds any message of the negotiation (`MaxPlain` is at
  least 2; in the code it is 16 bytes short of 16 KiB) and that two digits of the length
  prefix can name every frame (`MaxFrame < Base * Base`). Nothing is assumed about
  windows, lengths or who fails.

**Verifier argument.** `AcceptedCountersIncrease` is not inductive: the next
accept is the payload in hand, about which it says nothing. The inductive
invariant adds that accepted counters are in the file (`AcceptedIsRecorded`), that
the payload in hand is newer than every accept of its key (`PendingIsNewest`),
that memory is never behind the file while the daemon is up
(`MemoryCoversFile`), and that the file covers the payload before the accept
(`SavedBeforeAccept`). A failed write leaves memory ahead of the file, which the
invariant allows; a restart falls back to the file, which covers all accepts. The
same invariant gives the refinement: `Rename` is the guard's `Record`, `Accept`
its `Issue`, and everything else stutters.

**Gate argument.** `GateInv` adds to types and mirroring that addresses of a
revoked key are all still on the way to removal (`PurgeCovers`: the key is still
in `removed`, or the address is in `todo`), that the locals of `run_spa` match its
program counter (`LocalsFit`), and that the grant in hand agrees with the kernel
entry just written and its key is listed (`GrantFits`). XDP and evictions only take kernel
entries away, and a connection removes only expired mirror entries, so neither
can make a live kernel entry unknown. `SlotsAreExact` is a separate induction
over the connections with the cardinality lemmas for finite sets, and with it
`LimitIsKept` follows: only `Establish` starts a session (`WhoMoves`), and the count
it compares with the limit is the number of live sessions (`EstablishFits`).
`RevokedKeyStaysOut` reads off `GateInv` that a mirror entry, and through it a live
kernel entry, of a removed key exists only while its purge is under way.
`OnlySignedCounters`
and `MissingFileFailsClosed` are inductions that follow the counters through
memory, temporary file, file and disk.

**Relay argument.** A worker writes back metadata it read in `Take`, so nothing
said of metadata alone is inductive. `JobInv` ties, job by job, the worker's copy,
its program counter, the metadata and the files: a held job is not complete, its
copy agrees with what is stored, and what the worker has in hand is on disk. It is
preserved for a job as long as one worker at most holds it (`Sole`), whatever
happens to the other jobs; one worker makes every job `Sole`, and `RelayDownload`
uses the same lemmas for jobs outside `contended`. The storage quota is checked in
`Store` and recorded in `Finish`; `Room` carries it across: what the other jobs
record and what the worker holds fit together. The job quota needs that a late
write brings back only jobs the quota does not count (`GoneIsErased`).

**Download argument.** `BodyIsPrefix`: the chunks so far are a beginning of the
current version of the file, and that file will not be written again (`Settled`:
out of the workers' hands, complete or erased). The first request finds the job
complete, hence settled; afterwards a file can only disappear, which ends the
download.

**XDP argument.** The admissions fall into three runs (`WindowsAt`): those a whole
window before the last refill, those of the budget before it, and those since,
which together with the tokens left are one budget. A window of time meets at most
the last two runs.

**Client argument.** `ClientInv` says who holds `counter_lock`. Without a command
the holder has read the latest counter (`CounterInv`). `TriedInv` counts attempts per
candidate and round. For `TunnelHolds`, `CoverInv` moves the bound from the present to
the moment the refresh thread knocks or sleeps again (`Alarm`): from the first tunnel
on, the bound of the property holds already for that moment (`ServedFits`). A tick
moves the alarm only while the refresh thread waits for the lock or holds it, and then
`held` grows with it; a knock in vain moves it by half a TTL and is counted in
`missed`. Before the first tunnel nobody refreshes; what carries the bound is the
attempt itself, whose knock is as old as the lock has been held (`FreshFits`).
`ServerFits` says that only the server that is up is ever active, and `ClockFits` that
the refresh thread does not oversleep.

**Tunnel argument.** Neither of the tunnel's two safety invariants is inductive: what
is lost or does not open depends on how the bytes in the buffers line up with the
frames. `TunnelFrames` defines that once, without state: `InStep(w, k, m, whole)` says
that the units `w` are the frames with nonces `k` to `m - 1` one after the other, cut
off anywhere or, when `whole`, not at all. Its lemmas are what the actions need: a
writer appends a frame (`AppendInStep`), a failure cuts the end off (`CutInStep`), a
reader that has all a length announces has exactly the next frame and leaves the rest
in step (`CompleteFrame`), and length bytes hold no payload (`LengthBytes`). `Payload`
is a recursive function, and what it does to a concatenation (`PayloadJoined`) is
proved by an induction over lengths that is itself a lemma about sets of numbers
(`SetInduction`), so that no prover has to instantiate an operator.

The inductive invariant `TInv` is the types, `Control` (which buffers are empty at
which program counter, and that without a failure an end is passed on only after
everything before it) and, per direction, two facts: what the reader has of the
current frame, the stream and what the writer has not written are in step from the
reader's message counter to the writer's (`UpStep`, `DownStep`), and what has come
out, what is held and what is on its way, followed by what a failed writer threw
away, is what went in (`UpAccount`, `DownAccount`). Both hold for as long as the
reader reads, also after a failure: that is why a failure can shorten what the far
end sees and never change it, which is the refinement. In the mapping the end of a
stream is `End` when nothing is broken, since then both accounts close, and `Break`
otherwise; a frame without payload, which `proxy_to_client` would take for an end, is
never written (`NoEmptyFrame`).

**Only model-checked.** Liveness under fairness (`ReportedRevocationTakesEffect`,
`ExpiredEntriesGo`, `JobsFinish`, `DownloadsEnd`, `UploadArrives`,
`DeadSessionsEnd`) is out of the prover's reach, as is ENABLED. Every other property
of a passing run is a theorem.

## 6. Not modelled

- Cryptography, sealing, encodings, TLS, the messages of SOCKS5, HTTP: pure
  functions or I/O of libraries.
- `relay/normalize.rs` (HTML to markdown): one pass over a text, without state that
  outlives it and without a failure; a model would be the scanner again, character by
  character.
- Validation of relay sources and registry documents: checks of external data, seen
  as success or failure of a fetch.
- Client key files, enrolment, profiles: one-shot file handling.
- A torn client counter file and a second device with its own clock: hazards without
  a property, since the code has no step that recovers from either.
- An end of the TCP stream forged between two frames: the streams of `Tunnel` end
  only where one of the two programs ends them or fails.
- Faults of the relay's disk: a failing metadata write after an error (the job stays
  "running" until its TTL), a metadata file that is there and cannot be read or parsed
  (a worker then drops the job, the recovery scan skips it), a directory the recovery
  scan cannot read (the scan ends). Listed as a hazard.
- Failure of an insert into `ALLOW_MAP` or of reading the clock in `run_spa`,
  which end the daemon like `RemoveMissing` does.
- Scheduling of the `select!` in `main` between decoy, proxy and `run_spa`.
- Parsing of the server's configuration, privilege dropping, and the `xtask` test
  harness.
