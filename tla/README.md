# Payxorra: formal models

TLA+ models of the parts of Payxorra whose correctness depends on the order in
which things happen, TLC configurations that check them on small instances, and
TLAPS proofs of the properties that matter most. Paths below are relative to the
repository root; the core networking and ledger code lives in its directory
`src/`, the Node backend in `backend/src/`, the Soroban contracts in
`contracts/`.

## 1. The system

Payxorra is three programs that share a repository.

**The edge platform (`src/`, TypeScript and Rust).** A WebSocket gateway with a
connection pool (`ws/`), a proxy data plane (`proxy/`, `qos/`, `load-balancer/`,
`network/`), gossip membership and routing (`membership/`, `routing/`, `dht/`,
`discovery/`), a partition detector (`consensus/`), a write-ahead ledger
(`ledger/`), per-address rate limiting, circuit breaking and metering.

**The backend (`backend/src/`, JavaScript).** An Express and GraphQL API over
Sequelize/PostgreSQL for vesting vaults: claim processing, idempotency keys, a
lease-based job scheduler, a partitioned event bus, Stellar/Soroban polling and
reorg detection, webhooks, dead letters, reports.

**The contracts (`contracts/`, Rust for Soroban).** `merkle_vault` and
`vesting-vault`.

### Components, their state and what makes them hard

| Component | State | Operations | Hard part |
|---|---|---|---|
| Write-ahead ledger `src/ledger/{wal-writer,segment-manager,ack-watermark}.ts` | segment list and files, throttle window, flush counter, watermark | `append`, `flush`, `setPartitionMode`, `recordWrite`/`rotate`/`trimWindow`, `acknowledge`, `forceAdvance`, timer | every `append` is three awaits long; the segment is chosen before the write, the bytes are counted after it, and flush picks a segment a third time; crashes |
| Archive `src/ledger/ledger-sync-protocol.ts` | archive files, spill and replay in progress | `spillToArchive`, `replayFromArchive` | runs across awaits against live appends and trims; partial failure |
| Partition detector `src/consensus/partition-detector.ts` | per-peer last heartbeat and reachability, `partitioned` | `receiveHeartbeat`, `checkPeers` | the heal awaits a replay while the next poll runs |
| Connection pool `src/ws/` | one entry per node with generation and state, grace timers | connect, reconnect, disconnect, grace expiry, node removal | late disconnects of a replaced connection, timers that outlive their entry |
| Job scheduler `backend/src/scheduler/` | job rows with lease token and expiry | `enqueue`, `claimNext`, `heartbeat`, `complete`, `fail` | workers that stall past their lease; a stale `job` object in memory |
| Event bus `backend/src/event-bus/` | partition owners, fences, reorder buffers | publish, rebalance (pause, fence, drain, flush, hand over, resume), sequencing | hand-over over several awaits, reordering with a bounded buffer |
| Accounting sequencer `backend/src/event-bus/message-sequencer.ts`, `backend/src/metering/accounting-event-processor.ts` | expected number and reorder buffer of each flow | `accept`, `handle` | repeated and reordered events, handlers that overlap or reject, a full buffer |
| Circuit breaker `src/circuit-breaker/`, `backend/src/resilience/` | breaker state, failure window, backoff, probes under way | `execute`, `recordSuccess`, `recordFailure`, probe, `reset` | requests admitted in one state that finish in another |
| Membership `src/membership/` | member list with incarnations | gossip, suspect, digest | reordered, repeated and lost gossip |
| Claim webhooks `backend/src/services/{claimWebhookDispatcherService,idempotencyKeyService}.js` | delivery rows, idempotency keys, timers | enqueue, process, resume | the look at a key and the verdict on it are awaits apart, on several servers |
| Multi-signature revocation `backend/src/services/multiSigRevocationService.js` | proposals, signatures | propose, sign, execute | transactions that do not see each other; executions in the background |
| Routing and discovery `src/routing/`, `src/discovery/` | route tables, topology | recompute | derived data |
| DHT `src/dht/` | k-buckets, peer store | lookup, refresh, evict | eviction under churn |
| Proxy data plane `src/proxy/` | flows, drains, handshake workers | accept, forward, drain, shut down | shutdown against in-flight work, worker reaping |
| QoS `src/qos/`, load balancer `src/load-balancer/`, network `src/network/` | queues, weights, port ranges | enqueue, dequeue, select, allocate | numeric scheduling |
| Rate limiting `src/rate-limiter/`, `rate-limiter/`, tenant token bucket | token buckets | allow, evict | eviction that forgets state |
| Metering `src/metering/`, billing `src/billing/` | counters, sync daemon | count, flush, retry | counters flushed while counted |
| Auth `src/auth/`, `src/middleware/`, `src/security/` | token and key caches | validate, rotate | stale caches |
| Vault contracts `contracts/` | vaults, roots, claims | create, claim, revoke, delete | sequences of legal calls |
| RPC queue, ingestion, reorg detection, dead letters `backend/src/services/` | database rows, retry queues | poll, retry | check-then-act over awaits, retries |
| Backend API, GraphQL, reports, exports, notifications | database rows | request handlers | I/O and formatting |
| Backups, fail-over, multi-region | backup sets, active replica | back up, verify, fail over | external services |
| Deployment: `kubernetes/`, `helm/`, `migrate/`, `scripts/`, monitoring | cluster objects, schema version | roll out, migrate | external services |

### How the components interact

* The partition detector calls back into the ledger: a lost quorum freezes the
  watermark and puts the writer in partition mode; a heal first awaits the
  archive's replay, which forces the watermark forward, and then undoes both.
* The writer asks the segment manager for the active segment before every write
  and flush, reports bytes after every write, and acknowledges the watermark. The
  archive takes segments out of the same list.
* The disconnect handler, the gossip layer and the grace timers all end up in the
  connection pool; the routing table follows the pool's `node_disconnected` and
  `node_removed` events.
* Scheduler workers share nothing but the job table; they find out that they
  lost a lease only when a conditional update reports zero rows.
* The event bus's rebalance coordinator drives partition owners and the
  sequencers behind them; the accounting processor takes a flow's events from its
  sequencer one at a time.
* The dispatchers of all servers share the delivery table and the idempotency
  keys; each endpoint of an organization has a delivery of its own, and all of them
  share the event's key.

## 2. Modules and the code they model

An action is the code from one `await`, callback or statement to the next, with
every call it makes that changes state. What the awaited call does (a file
operation, an SQL statement, a call to another node) is an action of its own
where it can take effect at another moment than its caller's continuation, and
part of the continuation where nobody could tell the difference. Operators whose
names end in `_Something` are mutants: the mistake a nearby edit could make, kept
beside the definition it would replace, to show that the properties notice it.

| Module | Code | What it is |
|---|---|---|
| `AckWatermark` | `src/ledger/ack-watermark.ts` | the mark with its batch, freeze, forced advance and timer |
| `AckedLog` | (abstract) | what appending promises: an LSN is acknowledged once; the mark only names acknowledged LSNs and only grows, until a restart |
| `WriteAheadLog` | `wal-writer.ts`, `segment-manager.ts` over `AckWatermark` | concurrent `append()`s, segment list and files, rotation, trim, flush, partition mode, throttle, crash |
| `LedgerArchive` | `ledger-sync-protocol.ts` over `WriteAheadLog` | spill and replay, one file operation at a time, between live appends; the heal |
| `PartitionDetector` | `src/consensus/partition-detector.ts` over `AckWatermark` | heartbeats, polls, quorum, heals that await a replay, and the mark they freeze while appends are acknowledged and replays force it |
| `JobOutcome` | (abstract) | what becomes of a job: each claim is settled at most once, by the worker that holds it |
| `JobScheduler` | `backend/src/scheduler/distributedJobScheduler.js` | statements in flight, leases and tokens, clocks that differ, worker deaths |
| `ConnectionPool` | `src/ws/` | entries, generations, grace timers, the local event queue, handshakes and close events on their way |
| `EventBus` | `backend/src/event-bus/` | publishing, rebalances from await to await, migration logs, fences |
| `FlowSequencer` | `message-sequencer.ts`, `accounting-event-processor.ts` | one flow's events, delivered in any way, and the overlapping handlers that process them |
| `WebhookDelivery` | `claimWebhookDispatcherService.js`, `idempotencyKeyService.js` | announcements, attempts, retries, resumes and crashes of several servers over rows and keys |
| `MemberGossip` | `member-list.ts`, `gossip-protocol.ts` | the merge of member lists under any delivery |
| `CircuitBreaker` | `src/circuit-breaker/` | overlapping calls, probes, the failure window |
| `MCWriteAheadLog`, `MCLedgerArchive`, `MCEventBus`, `MCWebhookDelivery`, `MCMemberGossip` | | values, symmetry and shapes of instances for TLC |
| `LedgerProofs` | | theorems about `WriteAheadLog` and `LedgerArchive` |
| `PartitionDetectorProofs` | | theorems about `AckWatermark` and `PartitionDetector` |
| `EventBusProofs` | | theorems about `EventBus` and `FlowSequencer` |
| `MeshProofs` | | theorems about `MemberGossip` and `CircuitBreaker` |
| `JobSchedulerProofs`, `ConnectionPoolProofs`, `WebhookDeliveryProofs` | | theorems about the module of that name |

`WriteAheadLog` instantiates `AckWatermark` as `Mark` and takes its actions whole:
an `append()` that ends calls `Mark!Acknowledge`. `LedgerArchive` extends
`WriteAheadLog` and adds to its steps. `WriteAheadLog` implements `AckedLog` with
`acked <- returned, mark <- watermark`; `JobScheduler` implements `JobOutcome` with
a job's state, owner and failures read off its row. `PartitionDetector` extends
`AckWatermark` and implements it (`DetectorUsesWatermark`).

### The ledger

`call[w]` is where caller `w` stands in `append()`: `write` (the frame is being
written), `record` (`recordWrite`), `trim` (the file of a segment taken out of the
window is being deleted), `account` (the flush counter), `fsync`, `flushed`. The
segment is chosen in `BeginAppend`, the bytes are booked on
whatever segment is active in `RecordWrite`, and the flush picks a segment again
in `Account`. `files[i]` holds the records of a file and how many of them an fsync
covered; `Crash` keeps any prefix from there on and loses all memory.
`getActiveSegment()` answers the last segment of the list, and opens one if the list
is empty (`Opened`); the number of a new segment is `activeIndex` plus one
(`OpenedIndex`), whatever the last of the list is called. The two agree only as long as
segments leave the list at its front.

A file operation may fail (`IoFaults`): `RejectAppend` is an `append()` that ends
in an exception wherever it stood, and `RejectSwitch` a `setPartitionMode(true)` whose
fsync rejects after the mode was set and before the minute's count was reset;
`resetMissed` remembers that until something resets the count. Torn frames and short writes are not modelled:
a frame is in the file or not. The deletion of a trimmed file and what follows it
are one step, since no other code reads that file. Archive files count as durable
once written. `spillToArchive()` has no guard against itself; a second spill while
one runs is left out, because nothing in the repository starts one.
`archiveError` is whether that event has been emitted, the only thing a failed archiving
leaves behind; it is what a caller could know of it, and `ReplayAscends` is conditional on it.
`spill.todo` and `replay.todo` are what is left of a listing, and `Spilling` and
`Replaying` its front: both listings are sorted by segment number.
`returned`, `replayed` and `resetMissed` are history variables.

### The partition detector

`silence[p]` is the time since `p`'s last heartbeat, capped one above the timeout.
`CheckPeers` is one poll: it marks the silent peers, decides on the quorum, and
either enters partition mode or starts a heal; `healing` counts the heals whose
replay is awaited, and `FinishHeal` runs the rest of one, successful or not. The
number of heals is bounded by `MaxHealing`. The callbacks are the ones the
integration test wires: the module extends `AckWatermark`, a partition freezes the
mark by `SetFrozen`, a replay under way forces it, a heal releases it; what appends
and the mark's timer do meanwhile are steps of their own.

### The job scheduler

A statement is sent and applied at different moments (`Send`, `Apply`, `Miss`);
its caller may crash, or give up on it, in between. `SelectJobs` takes row locks
that hold until `CommitClaim` or `RollbackClaim`. A worker's clock is the
database's plus a constant `skew[w]`, and a timestamp is read at most `MaxLag` before it
is used. `held[w]` are the job objects a worker has in memory, stale ones included.
The token of a lease is the number of its claim (the code draws a UUID).
`heartbeat()` extends by its default. `settled` remembers which claims were
settled.

### The connection pool

`arriving` holds handshakes and `closing` close events that have not been
handled, in any order; `open` the sockets that are open. A node in `Legacy`
sends no generation, which the code reads as 0. The caller of a refused `add()`
closes the socket. `timers` holds the grace timers that run, each named by the
node and the socket whose entry set it. `_replaceEntry()`, `forceRemove()` and `clear()`
cancel them (`Cancelled`). One that fires takes whatever entry of the node is in a grace
window: the generation it compares with is read from the entry when it fires, and an entry
that is replaced stays the same object. Metrics are left out, and so is `handleDisconnect()` without a generation, which no caller uses.

### The event bus

An event is a flow and its number. `buffer` and `log` are the bus's buffer and the
migration log of each partition; `phase[r]` is the call that rebalance `r` awaits and
`at[r]` the partition it is for. Every awaited call may settle either way, and a call
that is rejected may have taken effect, or do so later (`late`). An append to the
log is all or nothing. `contended` is a history variable: the partitions that two
running rebalances were moving at once. The safety properties are about the
others, because two rebalances of one partition do lose events: the first to
finish resumes production, and an event published while the second awaits its
append disappears when that one empties the buffer. Nothing in the repository
serialises rebalances, and nothing says that they may overlap.

### The accounting sequencer

An event is its number; nothing is assumed of delivery, so `HandleExpected`,
`HandleAhead` and `HandleOlder` take any published number at any time, again and
again. `todo[h]` are the ready events a `handle()` holds, the lowest of them in
processing. A rejected `handle()` leaves the rest undone (`lost`). `overlapped` and
`overflowed` are history variables that say when the two promises of the code end:
order ends when handlers overlap, and everything ends when the reorder buffer
overflows. One flow is modelled, since flows share nothing.

### The claim webhooks

`work[s][d].pc` is where server `s` stands in `processDelivery()` of delivery `d`:
`check` and `create` (the idempotency key), `mark` (`markAsProcessing()` and the POST),
`completed`/`failed` (the verdict on the key), `rowOk`/`rowFail` (the row). A POST may be
answered, refused, or taken with the answer lost. `accepted` is what endpoints know,
`posts` what servers sent. `deployed` and `registered` never change in a behaviour;
they let one module stand for different deployments. Payloads are left out: whether a
key was made for the same one, which `createIdempotencyKey()` asks (`:84-86`), is a free
choice of `CreateKey`, since an event without a time is announced with the present one.
What a key becomes is written
as a value (`Verdict`, `Claimed`), because the code overwrites records without looking.

### Membership

What was once sent stays deliverable (`letters`, `digests`), and nothing has to be
delivered: that is loss, repetition and reordering at once. A digest's Bloom filter
is any superset of the known members. `heard` is what each node was ever handed.
`propagateStateChange()` takes the incarnation of its caller's list, and the caller
that suspects a member is external: nothing in the repository calls it.

### The circuit breaker

`call[c]` is where a call of `execute()` stands: `probe`, `refused`, `request`. Time is
left open: a failure may leave the window, and the wait of an open breaker may end,
at any moment. `failures` are those in the window, `streak` those since the last
success. `recordSuccess()` and `recordFailure()` are taken whole and do not ask when
their request was admitted, as in the code.

## 3. What TLC checks

Each run is `tlc -config <cfg> <module>`. The runs that say `CHECK_DEADLOCK FALSE`
do so because the system may really stop there: all LSNs, events, claims, dials,
announcements or changes of the bound are used up, or the last caller gave up.

| Run | Module, cfg | Question | Result |
|---|---|---|---|
| `wal` | `MCWriteAheadLog`, `WriteAheadLog` | does the window keep its shape under two appenders, mode switches and a crash; what can a trim lose; how far can a file and the minute's budget be overshot; does the log implement `AckedLog`? | holds, with the overshoots stated |
| `ledger` | `MCLedgerArchive`, `Ledger` | does a replay hand over the records of one caller in LSN order, each once, and where does it leave the mark, while appends, spills and trims go on, any of them fails and the process restarts; does a heal end partition mode? | holds, the order until a restart or an `archiveError`, the last under fairness |
| `ledger_spill_race` | `MCLedgerArchive`, `LedgerSpillRace` | is an acknowledged record always on disk or in an archive? | **violated** |
| `ledger_spill_failure` | `MCLedgerArchive`, `LedgerSpillFailure` | are archives replayed in LSN order also when a segment could not be archived? | **violated** |
| `detector` | `PartitionDetector` | is a partition declared only on silence of enough peers, always found, always healed; does a batch that waits on the mark get covered in the end? | holds under fairness |
| `scheduler` | `JobScheduler` | is a lease exclusive; do stale leases heal; does the scheduler implement `JobOutcome`? | holds |
| `connection_pool` | `ConnectionPool` | can a late close end a newer connection, a full pool refuse a rapid reconnect, a zombie entry stay, an old timer cut a grace window short, a disconnect go unannounced? | no |
| `event_bus` | `MCEventBus`, `EventBus` | is an event lost or overtaken, does a moving partition take events, does the new owner miss one, does a pause stay without a failure? | no |
| `sequencer` | `FlowSequencer` | is an event charged twice, processed too early, or held back with nothing missing? | no, short of an overflow |
| `webhook` | `MCWebhookDelivery`, `WebhookDelivery` | does a reported success mean that an endpoint took the claim; does a server post a claim twice; is every delivery settled? | yes; no; yes under fairness |
| `gossip` | `MCMemberGossip`, `MemberGossip` | is a list the join of what its node was handed; do nodes that got everything agree? | yes |
| `breaker` | `CircuitBreaker` | what opens the breaker; does it recover? | the threshold, in a row; yes, if calls do not overlap |

No run lists a type invariant. They were checked on the same instances, where a
violated type shows in everything else, and all of them are proved.

### Bounds, and why they are enough

* **Ledger.** Two appenders are enough for every pair of steps of `append()` to
  interleave; three records rotate through two segments and force a trim while
  another append stands anywhere. Segments hold one frame, so that every write
  rotates, or two where a run needs a segment that is neither empty nor full. One
  payload size is enough for the order of steps, and the proof is for all sizes. One
  crash shows recovery from every state of the bound. In `wal` the file operations of the third append
  and of the switches of mode may fail, in `ledger` all of them. In `ledger` two records fill two segments,
  of which a spill takes one or both or goes on past one it could not archive, and a replay crosses an archive's end. With three records, without the temporal properties, it passes
  as well (12.4 million states). `ledger_spill_failure` needs three records, one in a segment that is not archived, one
  in a segment that is, and one that comes after the spill; segments of one frame and a window of
  three let no trim interfere. The runs with spill and replay have one appender: with two, a record may be written after one with a higher LSN,
  and a replay then meets it out of order. `NormalFlush`, `PartitionFlush` and
  `ThrottleBytes` are a few frames, so that each is crossed, or 100 where flushing is
  not the question.
* **Detector.** Three peers are the fewest for which a majority is not all; the
  timeout of one tick gives a peer that is late and one that is just in time;
  two overlapping heals show what overlap does; two LSNs and a batch of two leave a
  batch waiting on either side of a replay.
* **Scheduler.** Two jobs and a batch of two let two workers' selections overlap
  in part; two claims and one statement per worker let a statement of the first
  claim arrive during the second. A skew and a lag of one tick against a lease of one
  tick make the clocks differ by as much as a lease lasts. Keys and priorities are
  not exercised in the run (`Keys = {}`, one priority); they are in the model and
  in the proofs.
* **Pool.** Room for one node of two makes the pool full for the other; two dials
  give an older and a newer attempt; one node has no generations.
* **Bus.** A rebalance of two partitions has a position between them; one more
  for each partition overlaps with it or repeats it after a failure; two events
  of a flow are enough for one to overtake the other.
* **Sequencer.** A buffer of three in nine events can fill, be drained in runs, and
  fill again behind another gap; two handlers overlap.
* **Webhooks.** Either two servers and one endpoint, or one server and two
  endpoints: the first is what servers do to each other over a row and a key, the
  second what endpoints do to each other over the shared key. Two announcements meet
  on the unique index, a retry limit of two has a last attempt and one before it, one
  crash loses timers and attempts anywhere.
* **Gossip.** Three nodes, a member that does not gossip and three changes: two updates
  of one incarnation and one of the next, made by nodes that have not heard of each
  other. The proof is for all numbers.
* **Breaker.** Three calls: one that probes, one refused, one admitted long before; a
  threshold of three is more than one call can reach at once.

`IoFaults`, `MaxLsn`, `MaxClock`, `MaxCrashes`, `MaxReplays`, `MaxPending`, `MaxHealing`, `MaxClaims`,
`MaxSent`, `MaxDials`, `MaxEvents`, `MaxVisits`, `MaxTimers`, `MaxChanges`, `MaxDigests` and
the sets `Calls`, `Handlers`, `Rebalances` bound what happens;
the first appear in guards only.

### Fairness

* `AckWatermark`: the flush timer fires again and again (`setInterval`).
* `LedgerArchive`: Node runs a continuation that is ready, and a file operation
  settles, one way or the other: appends, spills and replays in progress go on.
  Crashes and new calls are not fair.
* `PartitionDetector`: the poll and the mark's timer fire, time passes, and an
  awaited replay settles. Nothing is assumed of heartbeats and links: the liveness
  properties are conditional on how the links stay.
* `JobScheduler`: every worker polls (weak fairness of its selection), and a claim
  that is tried again and again commits in the end (strong, since another
  worker's locks may disable it now and then). No statement and no reply is owed.
* `ConnectionPool`: close events arrive, grace timers fire, and `setImmediate`
  callbacks run. Dialling and evicting are not fair.
* `EventBus`: an awaited call settles. A fence that was given up on need not be set.
* `FlowSequencer`: an awaited `processReadyEvent()` settles. No delivery is owed.
* `WebhookDelivery`: timers fire, the POST has a timeout, the 60 s resume ticks, and a
  server that died is restarted (`restart: unless-stopped`, `docker-compose.yml:8`;
  `kubernetes/blue-deployment.yaml:11` runs three replicas). Endpoints owe nothing.
* `CircuitBreaker`: callers keep coming, fetches and requests settle, clocks run. The
  upstream owes nothing; `RecoversAlone` is conditional on it and on calls that come
  one at a time.
* `MemberGossip`: none; it has no liveness property, because nothing is sent twice.

### Findings

**A spill may delete an acknowledged record** (`ledger_spill_race`).
`getSegmentsOlderThan()` includes the active segment. A frame that is written between
the spill's read and its delete is deleted with the file, although its `append()`
returned true; `ledger-sync-protocol.ts:7-8` says that segments are compressed and
moved.

**Archives may be replayed out of LSN order** (`ledger_spill_failure`). When archiving one
segment rejects, `spillToArchive()` emits `archiveError` (`ledger-sync-protocol.ts:101-104`)
and goes on: the later segments, the active one included, are archived and removed. The
older segment is now the last of the list, so `getActiveSegment()` gives it the next records
(`segment-manager.ts:72-77`). Once it is archived too, a replay hands these over before the
older records of the archives with higher numbers, against `ledger-sync-protocol.ts:11`:
"All archives are replayed in LSN order before normal WAL operations resume." One caller,
one life and no other failure are enough. The attempt to prove `ReplayAscends` found it;
`ReplayAscends`, which `ledger` checks, is the order until such an error or a restart.

### Refuted, without a run of their own

These are stated in the modules and TLC refutes them; each is a few minutes away with a
cfg of its module.

* `ReplayAscends` without its condition `crashes = 0`, against the same line of the doc. `activeIndex` starts at 0 in every life
  (`segment-manager.ts:51`), and archives are sorted by segment number, so archives of the
  new life are replayed between those of the old one. (Payload 2,
  segments of 3 bytes, three records, two ticks, one crash, no failing file.)
* `ThrottleOvershoot` without its condition `~resetMissed`. `setPartitionMode()` sets the mode, awaits
  `flush()` and only then resets the minute's count (`wal-writer.ts:134-137`). If the fsync
  rejects, the count of an earlier partition stays, and an append that began unchecked in
  normal mode is added to it: with a budget of 3 and frames of 3 bytes the count reaches 6
  with a single caller, whose bound is 4. `wal-writer.ts:124-126` says of activation "so we
  start the partition with a clean slate".
* `WriteAheadLog!SealedSegmentsSynced`: `flush()` asks for the active segment after
  `recordWrite()` has rotated. The fsync goes to the new segment and the counter is
  reset (`wal-writer.ts:118`), so the segment just filled is never synced, against
  `wal-writer.ts:8`.
* `PartitionDetector!PartitionKeepsModes`: `checkPeers()` clears `partitioned` before it
  awaits the replay (`partition-detector.ts:172`); a partition declared during the
  replay is left without its frozen mark and its throttle when the heal ends, against
  `ack-watermark.ts:102-103`.
* `WebhookDelivery!SuccessMeansDelivered`: with two endpoints, the first one's answer
  completes the key they share, and the second's delivery is a success from the cache
  without a POST.
* `FlowSequencer!ExpectedIsMissing`: after an overflow the expected event may sit in the
  buffer, which nothing looks at; and a key left behind in the buffer can set the
  expected number back, after which an event is charged twice.
* `CircuitBreaker!RecoversUnderLoad`: when calls overlap, a healthy upstream may stay shut
  off: each second call half-open is refused, counts as a timed-out probe and opens
  the breaker again.

Observed while modelling, and not contradicted by any document: a replay may force the
mark to a record whose `append()` has not returned yet; replays never
delete an archive, so that every heal replays everything again; the mark itself
is not persisted; a reconnect with an old generation starts a grace window for the
healthy connection and is then refused; after `forceRemove()` an older attempt may be
accepted; takeovers of an expired lease do not count as attempts; a failed
rebalance leaves its partitions paused; a digest repairs members the sender does not
know, never a stale status; a connect carries a higher incarnation than the
disconnect before it (`gossip-protocol.ts:80-83`) only if the caller's list has heard
of that disconnect; two servers do post the same claim twice.

## 4. What TLAPS proves

`tlapm <Module>Proofs.tla` checks each module; no step is left open. The proofs
assume what the component's module assumes of its constants (`ASSUME`, which the
runs evaluate) and, but for one, nothing else: any number of writers, workers, nodes,
partitions, rebalances, members and calls, any sizes, thresholds and bounds. The
exception is `ReplaysAscend`, whose hypothesis `OneCaller` is needed because a segment
holds the frames of concurrent callers in the order in which they arrive. Two assumptions on
constants are made for the proofs' sake: the payloads have a longest (`PayloadsAssumption`)
and the callers of `append()` are finitely many (`WritersAssumption`); without them the bounds
of `ThrottleOvershoot` and `FileSizeBounded` would mean nothing.

| Theorem | Says |
|---|---|
| `WatermarkTypes`, `WaitingIsConsistent`, `MarkIsMonotone` | types of the mark; a batch waits exactly when the pending LSN is ahead of the mark; the mark never moves back |
| `WindowKeepsItsShape` | the segment window stays within the quota, numbered without a gap, its last segment with room |
| `MarkNamesReturned` | the mark and the pending LSN only name records whose `append()` returned true |
| `LogImplementsAckedLog` | `WriteAheadLog` implements `AckedLog` |
| `LogTypes`, `LedgerTypes` | types of the log, alone and with spills and replays; an fsync never covers more than its file |
| `ThrottleIsBounded` | the minute's budget is overshot by no more than `SpendingBound`, unless a rejected switch left an old count that nothing has reset since |
| `FilesStayBounded` | a file outgrows the segment size by less than a frame per caller and life |
| `TrimLosesOldest` | until a restart, what trims take is older than what the window holds |
| `MarkCoversReplays`, `FrozenMarkFollows` | between archives the mark covers what was replayed; while frozen it moves only to what was |
| `ReplaysAscend` | one caller's records are replayed in LSN order, each once, until a restart or an `archiveError` |
| `DetectorTypes`, `DetectorUsesWatermark` | types of the detector; with appends and replays it implements `AckWatermark` |
| `PartitionNeedsSilence` | a partition is entered only when more than half of the peers have been silent too long |
| `RowsKeepTheirTypes`, `LeasesAreExclusive` | types of the scheduler; two workers never rely on leases of one job at once |
| `SchedulerImplementsJobOutcome` | `JobScheduler` implements `JobOutcome` |
| `CapacityHolds`, `NoZombies` | the pool stays within its capacity; a connected entry's socket is open or its close is on its way |
| `LateClosesAreHarmless`, `RapidReconnectsWin` | a late close does not end a newer connection; a reconnect in its grace window gets its slot in a full pool |
| `OwnTimersEndWindows` | a grace window is ended by the timer of its own connection only |
| `BusTypesHold`, `EventsNeverLost`, `LogsKeepOrder` | types of the bus; no event of an uncontended partition is lost; its log has no gaps |
| `SequencerTypes`, `EventsHandedOnce`, `EventsStartInOrder` | types of the sequencer; up to an overflow nothing is handed out twice, and without overlap everything starts in order |
| `WebhooksKeepTypes`, `ServersPostOnce`, `SuccessesAreBacked` | types of the webhooks; no server sends a delivery twice; a success stands for an event that an endpoint took |
| `MovesAreQuiet`, `NewOwnersSeeAll` | no event is taken while a partition moves; at a hand-over its log is complete |
| `GossipTypes`, `ListsAreJoins`, `ListsAgree` | types of the gossip; a list is the join of what its node was handed; nodes that got everything agree |
| `BreakerTypes`, `ProbesDoNotOverlap`, `OpeningNeedsFailures` | types of the breaker; two probes never overlap; a closed breaker opens on the threshold of failures only |

### The arguments

**Watermark.** `WatermarkInv` is the types and `WaitingMeansAhead` (acknowledgements wait
exactly when the pending LSN is above the mark). Without the second the timer
could set the mark to an old pending LSN.

**Write-ahead log.** `WalInv` is `SegmentInv` (numbers without a gap, at most `MaxSegments`
segments, room in the last), `CallInv` (calls in progress carry different LSNs, none of
them returned) and `MarkInv` (the mark and the pending LSN name returned records
only). The window is not inductive without the room in the last segment: a
rotation adds one segment, and one turn of the trim loop takes one away, only if
the list was in the window before. `CallInv` makes a returned LSN new, which is what
`AckedLog` asks of a step.

**Throttle.** The check and the count are two awaits apart, so the invariant is about the
frames still to be counted (`InFlight`): `HasRoom` says that the bound holds even when all of
them are, one with its own size and every other with the longest frame. The one with its own
size is the last that was checked, or any frame where none was. It holds from the moment the
switch into partition mode has reset the count, and it is a statement about
cardinalities: a call that is counted leaves `InFlight` as its bytes enter the count.
`CountReset` says when the statement is claimed: no switch is about to reset the count, and
none was rejected before it could.

**File sizes.** Bytes are recorded against another segment than the one they went to, so
no segment's size says how long its file is. `FileSizes` has three cases. A file above the
active index holds only what earlier lives left in it. The active file holds what was
recorded since it was opened and what is `Unrecorded`, byte by byte. A file that was rotated
out has room for all frames still under way to it (`Writing`). Rotation moves a file from
the second case to the third, because a full segment overflows by one frame at most.

**Order of trims.** `PlacedIn(i)` are the LSNs in file `i` and under way to it. They ascend
from file to file (`FilesAscend`), since a call takes its LSN and its segment in one step, and
what cannot be found in the window is below all that is placed in it (`LostBelow`). The
second is needed for records that reach their file after the segment has left the window.

**Spill and replay.** `LedgerInv` is the types with `ReplayMarks`: the highest LSN of an archive and
of all of them are LSNs handed over, and together they cover everything handed over, so that
forcing the mark to the higher of the two covers it and nothing else moves a frozen mark.

For the order of a replay, `AscendInv` adds three things. `WindowInv`: the window is numbered without a
gap and older numbers are older segments (`CreatedInOrder`), so that stale segments are its
front, and a spill under way takes its segments from there (`SpillTakesFront`). This is
why the last segment of the list is the one `activeIndex` names, so that a new record goes to the
highest number of all. `KeptInv`: what is kept of a segment in its file, its archive, the
spill's buffer and the frame under way (`Kept`) ascends from segment to segment. `ReplayOrder`: what was
handed over lies below all that is kept for the archives still ahead, which are rewritten
meanwhile. All three are claimed only while `Quiet` (no restart, no `archiveError`), which a
step never makes true again. Each condition is used once: one caller where a frame reaches
its file (it is the highest there), no `archiveError` where a spill goes on with the next
segment, no restart for the numbering. Any other file operation may fail.

**Partition detector.** A peer that is written off has been silent for too long
(`WrittenOffIsSilent`): a heartbeat undoes it in the same step. The refinement of
`AckWatermark` says that detector, appends and replays touch the mark through its operations
only, so `MarkIsMonotone` and `WaitingIsConsistent` hold in the composition.

**Job scheduler.** `LeaseInv` links the places where a claim is known: the row
(`RowInv`), the transaction that locked it (`ClaimInv`), the job object in a worker's memory
(`ObjectInv`) and the statement on its way (`StatementInv`). A job object whose token is
the row's agrees with the row on owner and attempts and believes in no longer a
lease than the row grants; one that was overtaken is settled, or its lease has
ended by some worker's clock. Exclusiveness follows from the bound on the
differences of clocks: a worker that stops `MaxSkew` before the end of its lease stops
before anyone may take the job over. For the refinement, a statement that passes
the fence belongs to the row's current claim, so it is a step of the claim that
owns the job.

**Connection pool.** `PoolInv` is the types with the capacity, `ConnectedIsAlive`,
`SocketInv` (an attempt is arriving, open or closing, one at a time) and `SlotInv` (an
entry's generation is that of its socket) and `TimerInv` (a timer runs only for the socket of
an entry that is in its grace window). `TimerInv` holds because whatever takes an entry out
of its grace window cancels its timer, and it is why a timer that fires is the entry's own. `SlotInv` is why comparing generations
tells sockets apart. The capacity is an argument about cardinalities
(`RoomIsKept`): a step adds at most one entry, and only where there was room; a
reconnect in the grace window replaces an entry and adds none. It is the only
proof that needs its constant, the set of nodes, to be finite.

**Event bus.** `BusInv` is the types with
`QuietInv` (a calm partition that a running rebalance moves is paused, and no other
running rebalance moves it), `FlushInv` (what is being appended is the buffer as it
still is, and after the append the buffer is empty), `EventsAreKept`, `LogKeepsOrder` and
`BufferKeepsOrder` (an event of the buffer comes after its predecessor, in the log
or in the buffer). `QuietInv` is what makes `FlushInv` inductive: the copy taken
before the await is still right after it only because nobody publishes and no
other rebalance flushes in between. `BufferKeepsOrder` is what an append needs to keep
the log's order, also when the same buffer was already appended by a flush that
failed. The facts about sequences (`InConcat`, `FollowsAppend`, `FollowsConcat`,
`FollowsMore`) are lemmas of their own.

**Sequencer.** Up to an overflow the expected number parts the buffer from what was handed out
(`ExpectedParts`), and no two handlers hold the same event; only the head of a handler's list has
started (`HeadStarted`). Order needs that nothing below the expected number is forgotten
(`OneAfterTheOther`), which fails once handlers overlap.

**Webhooks.** A key that has left `pending` never returns to it, though every server
overwrites it without looking. `PostedOnce` follows: a server that has sent finds the key settled
when it looks again. `SuccessComesBacked` follows the event instead of the delivery: a completed key,
an attempt about to complete one and an attempt about to mark its row all stand for an
event that some endpoint took, which is all that a key shared by the endpoints can mean.

**Gossip.** Updates about one member are linearly ordered by `Beats` (incarnation, then
`Alive` < `Suspect` < `Dead`), and what `addOrUpdateMember()` lets replace a record is what
beats it (`NewerBeats`). So taking a set of updates turns the join of a history into the
join of the longer history (`AddOrUpdateJoins`). The join alone is not inductive: a
list must cover every member of its history (`Covers`), and a message must hold each
member once (`Distinct`), which holds because a message is made from a list.
`ListsAgree` needs that every update of a history was sent to all others (`AgreeInv`).

**Circuit breaker.** The window never holds more failures than the streak
(`WindowInStreak`): it forgets some, and a success empties both. A call that probes has
the upstream marked (`Marked`), and only a call that found no mark sets one.

### What is only model-checked

Liveness (`PendingIsEventuallyCovered`, `HealEndsPartitionMode`, `LossIsDetected`,
`HealResumesOperation`, `StaleLeasesHeal`, `ClosedSocketsLeave`, `AnnouncedIsDelivered`,
`PauseEndsOrFails`, `DeliveredIsStarted`, `DeliveriesSettle`,
`RecoversAlone`) needs fairness and `ENABLED`, which this prover does not treat. No safety
property that a passing run checks is left to TLC alone. The violations are TLC's: a proof
cannot show one.

## 5. Not modelled

* **Ledger**: torn frames, compression, the frame format beyond its length.
* **Event bus**: the buffers of `PartitionOwner`, crashes of the bus's process (its
  buffers and numbers are lost without a trace, and no code relates what comes after
  to what was before; the sequencer's restart loses its numbers in the same way,
  `message-sequencer.ts:19`), a plan without partitions.
* **Webhooks**: `stop()`, the expiry of idempotency keys after 24 hours and their
  clean-up, the webhook types other than claims.
* **Multi-signature revocation**: `auditLogger.js` has `logAction()` and `getLogEntries()`
  only, so the `auditLogger.log()` of `multiSigRevocationService.js:309` throws inside
  `addSignature()`. `createRevocationProposal()` calls that within its own transaction
  (`:170`) and rolls back (`:196`). No proposal is ever committed through this service, and
  nothing else creates one: there is no state to model.
* **Membership**: the suspicion manager extends a timeout by a constant and has no
  caller, the join handler and `state-sync.rs` likewise; addresses.
* **Circuit breaker**: the health cache and metrics; the backend's copy
  (`backend/src/resilience/circuitBreaker.js`).
* **Vesting vault contract**: sequential, each call over its own storage.
  `create_vault()` overwrites a vault (`lib.rs:97`), `revoke()` takes vested tokens that
  were not claimed (`lib.rs:156`); both can be read off one line, and a model would say no
  more. The contract upgrade service drives an external multi-signature process.
* **RPC ingestion**: the poller waits on `job.finished()`, which BullMQ's jobs do not
  have (`sorobanEventPollerService.js:226`), so there is no behaviour past the first
  fetch to model.
* **Route table, port allocator**: stubs in the source.
* **Proxy** (`connection-drainer.ts`, `graceful-shutdown.rs`, `lifecycle-manager.rs`):
  counters of sockets of the operating system and one-way sequences of phases.
* **Metering daemons** (`counter-sync-daemon.ts`, `quota-updater.ts`): loops over a
  native counter store that is not in the repository.
* **DHT, QoS, load balancer, rate limiting, disk quota, Merkle vault**: sequential
  arithmetic, hashing, or thin wrappers over a native store, which unit tests reach.
* **Authentication, telemetry, API, reports, backups, deployment**: input, output and
  external services. They are most of the repository's lines and little of its
  control: request handlers that read rows, format them and answer.

Three hazards are modelled or listed without a property of their own, with the
reason beside them in `PROJECT.json`: `connectionManager.ts:162` (what the code does
contradicts nothing that is written down), `message-sequencer.ts:19` (a restart, see
above) and `wal-writer.ts:118` (refuted, see above).

`PROJECT.json` lists the files of each component, and the hazards seen in them.

## 6. Plan

The order is by what would hurt most if it were wrong: the ledger first, then the
components whose correctness is a protocol between processes.

| Step | Module | Abstract specification | State |
|---|---|---|---|
| 1 | `AckWatermark`, `WriteAheadLog` | `AckedLog` | checked, proved |
| 2 | `LedgerArchive`, `PartitionDetector` | `AckWatermark` | checked, proved |
| 3 | `JobScheduler` | `JobOutcome` | checked, proved |
| 4 | `ConnectionPool` | | checked, proved |
| 5 | `EventBus` | | checked, proved |
| 6 | `FlowSequencer` | | checked, proved |
| 7 | `WebhookDelivery` | | checked, proved |
| 8 | `MemberGossip` | the join of what was heard | checked, proved |
| 9 | `CircuitBreaker` | | checked, proved |

Every safety property that a run checks is proved. Planned next: the ledger's order of
replay for several callers, with "in the order of arrival" in the place of LSN order; that
a segment trimmed and a record appended by `LedgerArchive` together keep `SegmentWindow`
when file operations fail only in `append()`; abstract specifications of the pool (who is
reachable) and of the delivery of webhooks.
