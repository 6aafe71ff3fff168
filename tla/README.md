# Gascurve: TLA+ models and proofs

Gascurve follows Arbitrum Nitro chains. For every configured chain a *follower*
samples the node's head, stores each block with the predicted base fee, and
serves the result through Postgres to an API with a WebSocket feed. This
directory holds TLA+ models of the parts whose correctness depends on order,
failure and interleaving, the TLC configurations that check them, and TLAPS
proofs of the main results about the core.

## 1. Inventory

| Component | State | Operations | Interacts with |
|---|---|---|---|
| Fast loop (`collector/tick.go`) | head, hash, live start and replay state in memory; `blocks`, samples, checkpoints in the database | sample, catch up, parent check, ancestor search, rewind, replay, persist, publish, fail | RPC pool, store, gap filler through `missing_ranges` and the generation |
| Missing ranges (`collector/fill.go`, `collector.go`) | `missing_ranges`, primary key `(chain_id, from_block)` | record, mark, record failure, advance, rewind, each followed by normalize and replace | written by the fast loop, the filler and the history epoch |
| Gap filler (`collector/fill.go`) | locals of a step, retry lifecycle in the range | pick, mark, fetch, check links, commit under the generation, record failure, defer | fast loop, buckets |
| Buckets (`db/bucket.go`, `db/postgres.go`) | row-backed and additive buckets, fold watermark, prune frontier | rebuild, fold, delete, prune | tick, filler, backfill, repair, slow loop |
| Backfill (`collector/backfill.go`, `history.go`) | cursor, depth target, hold | resolve depth, start segment, replay window, stop with a hole, reset | rewind, owner scan, buckets |
| Owner scan and slow loop (`collector/slow.go`) | log cursor, scan origin, readiness, action caches, batch-report cursor | scan chunk, extend origin, load caches, scan reports, prune | rewind, backfill, replay |
| Poster gas repair (`collector/postergas.go`) | forward-only cursor, skipped blocks, sweeps | repair batch, narrow, give up, sweep again | prune frontier |
| History scheduler (`collector/run.go`) | deferral counters | fill, repair, backfill in turn | fast loop's lag |
| Head loop (`collector/run.go`, `nitro/heads.go`) | latest head, signal of capacity one, polling and retry flags; sockets with cooldowns and leases | head arrives, beat, tick, dial, ping, lose, reconnect | subscription |
| RPC pool, endpoints, pacer (`nitro/`) | active endpoint, cooldown, probe; batch cap, back-off, slots; token bucket, turnstile | pick, verify, fail over, probe; fan out, observe; wait, release, refund | every caller |
| Hub and listener (`api/ws.go`, `db/listener.go`) | ring, owner cursor, client queues and watermarks; health of LISTEN | notify, refresh, reorg, reconcile, subscribe, switch, drop | store, clients |
| Pricer (`pricer/`) | backlog per constraint | step, replay, compare | tick, filler, backfill |
| Monitor, quotes, HTTP handlers, config, metrics, ABI decoding, migrations, web | - | read-only, or pure conversion | - |

What is hard here:

* Two loops write the same tables. Each fetches from the network without the
  chain lock and commits later; only the *generation* checkpoint, bumped by
  every rewind, tells filler, backfill and scans that what they read is of a
  dead fork.
* The chain reorganizes between any two calls, also inside one catch-up.
* A commit can succeed and still report an error; memory must follow the
  database, not the error.
* The process stops anywhere and resumes from the tables alone.
* A block is counted by folding it into a bucket or by rebuilding the bucket
  from rows, and rows are pruned while late fills and rewinds still arrive.
* Replay starts from whatever was stored, in the middle of a chain whose
  pricing parameters change inside blocks.
* Requests of several callers share endpoints that fail, answer 429 or are
  metered, and a caller may give up at any moment.
* The feed reads pages while the table is rewritten and loses notifications.

PROJECT.json lists the hazards one by one, at their lines, with the properties
about them.

## 2. Modules

| Module | Models | Checked by |
|---|---|---|
| `Holes`, `HolesSeq` | `missing_ranges` as a set of ranges with its writers; the same normalization as the code runs it, filter, stable sort, one merging pass over a list | `follower`, `algorithms` |
| `Follower` | fast loop and gap filler over one database and an external chain | `follower`, `follower_scenes` |
| `Buckets` | hour buckets: rebuild from rows, additive fold, fold watermark, prune frontier, rewinds | `indexing` |
| `BucketMath` | what a bucket holds: `BucketBuilder`, `MergeBuckets` and the aggregate query side by side | `algorithms` |
| `Backfill` | backward reconstruction in windows: cursor, segments, depth target, hold, resets by rewind, epoch and restart | `indexing` |
| `OwnerScan` | the owner log scan: origin, chunks, readiness, caches, rewinds that reset it | `indexing` |
| `BatchScan` | batch posting reports and the parameters they are priced with | `algorithms` |
| `Repair`, `History` | poster gas repair; the scheduler of fill, repair and backfill | `loops` |
| `HeadLoop`, `HeadSubscriber` | ticks on heads or on the timer; the WebSocket subscription with watchdog and reconnects | `loops` |
| `Pricer` | the saturating words and the exponential of one step | `algorithms` |
| `Replay` | the state each stored row, window and segment is replayed from | `algorithms` |
| `Pool`, `Throttle`, `LogRange` | failover between endpoints; fan-out of a list with cap, back-off, cooldown; widths of a log scan | `pool`, `throttle`, `rpc` |
| `Pacer`, `Turnstile` | the two-lane call budget, and the first-come lock its turnstile implements | `pacer` |
| `Hub`, `Listener` | the live feed and its sockets; the LISTEN connection and its health | `api_safety`, `api_liveness`, `ghost` |
| `FollowerProofs`, `RowsProofs` | theorems about `Holes` and `Follower` (section 6) | tlapm |
| `PacerProofs`, `PoolProofs`, `EndpointProofs`, `RepairProofs` | theorems about `Pacer`, about `Pool`, about `Throttle` and `LogRange`, about `Repair` | tlapm |
| `OwnerScanProofs`, `HubProofs` | theorems about `OwnerScan`, about `Hub` | tlapm |

The `MC` modules hold the instances. A behaviour of an `MC` module is one
*scene*: a component with its constants, chosen in the initial state and named
by the variable `scene`; the variables of the other components hold a dummy.
`Scenes` is the constant a configuration sets, so that any subset of the scenes
can be run by itself. A property of an `MC` module says which scenes it is
about and cites the component's property, where it is defined.

A component with theorems is not an instance in one of its scenes: `MCFollower`,
`MCIndexing`, `MCLoops`, `MCPacer` and `MCApi` EXTEND `Follower`, `OwnerScan`,
`Repair`, `Pacer` and `Hub`, `MCPool` and `MCThrottle` EXTEND `Pool` and
`Throttle`, and the constants of that scene are the configuration's. What TLC
checks there is the very definition that the theorem states.

### Follower

Database variables: `rows` (table `blocks`), `holes` (`missing_ranges`), `gen`
(generation checkpoint), `live` (`live_start` checkpoint), `folded` (heights
recovered into additive buckets without a row). Memory: `mem` is the part of the
`Follower` struct the loops decide by (`head`, `hash`, whether replay state is
known, `live`, and `up` for the running process). `tick` and `fill` are the tick
and the fill step in flight; each carries the locals alive at its `pc`. `chain`,
`forks` and the fault counter are the environment. `crossed` is a history
variable used only by properties.

A tick is a sequence of actions split where the code calls the network or the
database:

| Action | Code |
|---|---|
| `TickSample` | `tickWith` up to its first decision, `headBehind`, `sampleOnly`, start of `catchUp` |
| `FetchHeaders`, `FailoverSkip` | `fetchHeaders` batch by batch; `errEndpointChanged` when a failover ends an unlimited catch-up |
| `HeadersFetched` | the parent check, `verifyChain`, `process`/`replayLive` with each outcome of the replay |
| `AncestorHeader`, `AncestorNoRow` | `findAncestor`, one header a call |
| `Rewind`, `RewindReload` | the transaction of `rewindToAncestor`; its memory update and the caller's continuation |
| `Persist`, `Publish` | the transaction of `persist`; `publish` |
| `TickFails`, `AnswerLost` | `fail` with `reloadHeadLocked`; a transaction that committed although its caller saw an error |

The filler likewise: `FillStep` (`pickHole`), `FillMark`, `FillFetch`
(`fillBatch`, `holeTail`), `FillUnsupported`, `FillCommit` (`commitFill` under
`withGeneration`), `FillFails`, `FillRetry` (`recordFillFailure`), `FillDefer`
(`recoveryMustWait`), `FillGivesUp`. `Crash` and `EnsureInit` are the process.

A block is its height, hash and parent hash; a hash is the number of the reorg
it was produced after, so (height, hash) names one block of the tree. Rows
without a hash, from before hashes were stored, are left out. The pricer is its
outcome (`Replays`); what it computes is `Replay`. Timestamps, retry counts and
due times are left out: a retry is due whenever the filler likes. The unsigned
subtraction in the catch-up budget is kept: a head below the stored one is over
every budget (`OverBudget`).

### The other components

* **Buckets.** A height is its own timestamp; a bucket is how often it counts
  each height. Tick, fill, rewind and prune are one action each; a fill folds or
  rebuilds per window as `commitFill` and `RebuildBuckets` decide. Reorgs stay
  above the first live block (`Follower`, `Backfill` have the rest). Two history
  variables, `unfolded` and `relived`, hold the heights of which the code loses
  or doubles the count after a rewind (section 5, collector/fill.go:905, 1018).
* **BucketMath.** The four implementations of one bucket: builder, merge, upsert
  and aggregate query, over every small list of blocks, in every order of folds.
* **Backfill.** One action per step of the cursor (check, depth, segment, window
  seed, fetch, commit), beside a fast loop that stores and rewinds, an owner scan
  that completes and deepens, restarts with another depth, a raised epoch. A
  window whose archive sample has the same model as the segment is seeded, one
  with another is not (`SeedWindow`); both happen.
* **OwnerScan.** One action per transaction or memory publication of a pass and
  of a rewind, so that one loop may step between the other's commit and its
  publication (`Overlap`). Reorgs are noticed by the rows the fast loop stores;
  failing database calls are not modelled.
* **BatchScan.** The report step: its cursor, the parameters reconstructed from
  a sampled anchor, recorded setters and the state at the scan's origin.
  `ScanFirst` says that the owner scan has completed first, which the slow tick
  arranges unless that step fails.
* **Replay.** The chain prices every block with the state its parent left and
  then runs its transactions; the model carries the collector's own replays (tick,
  fill, backfill window and segment) and compares what they store with it. The
  history variable `guessed` holds the blocks replayed from a parameter taken
  from the live sample, from the row of the block that changed it, or from an
  older sample than the recorded set (section 5, collector/tick.go:743, 761,
  collector/fill.go:631, 642).
* **Pricer.** Words of a small width with the code's repair of overflow.
* **Repair, History, HeadLoop, HeadSubscriber.** One action per step of a loop
  between two blocking calls; time passes in `Tick` where deadlines matter.
* **Pool, Throttle, LogRange, Pacer.** An action is a critical section of the
  mutex, or a request between two of them. Amounts are integers on a discrete
  clock, so the float epsilon of the pacer is left out. A caller may give up
  while it probes the primary, which counts as a failed probe; a list on a
  metered endpoint is cut by what the pacer holds, and a Fast list on an
  unmetered one takes no slot.
* **Hub.** `Hub.Run` and each socket's goroutines step by step; a refresh is one
  action per query and per critical section, under `refreshMu`. A socket ends in
  the deferred order of `ServeWS`: unsubscribe, cancel, release. A send queue is
  its length and the picture its reader has once it has read all of it.
* **Listener.** `PQListener`'s status machine and pump over an external lib/pq.

## 3. Runs

Each ends within five minutes on two workers, most within two.

| Run | Scenes | Shows |
|---|---|---|
| `follower` | the constants of `Follower.cfg`, on which the theorems' invariants were checked too | safety of tick and filler with two reorgs at any moment and a fault |
| `follower_scenes` | `faults`: two faults, every replay outcome, a reorg deeper than the search; `batches`: ranges longer than a batch; `recovers`: no reorgs; `converges`: unlimited endpoints | the same, and the two liveness results |
| `indexing` | `Buckets` pruned, rewound, with buckets absent; `Backfill` forward, by archive windows, reorged, ending; `OwnerScan` on a legacy chain (its own constants), deepened, forked, reset, completing with an origin and while the loops cross | every block is counted, reconstructed and scanned once, whatever is rewound, pruned or restarted; the walks end |
| `loops` | `HeadLoop` following heads and polling; `HeadSubscriber` settling behind a flaky and a dead socket and the other way round, reconnecting; `History` shared and with a broken hole; `Repair` passing over and repairing | nothing is starved, no head forgotten, no block passed untried |
| `algorithms` | `Pricer` on words, pairs of constraints and the exponential; `BucketMath` with all columns and with NULLs; `HolesSeq`; `Replay` with sets, folded, with floors in one tick and in refilled ranges, on a legacy chain that changes its parameters or moves to sets; `BatchScan` from the genesis, truncated, sampled, forked | pure code against its definition, over every small input; rows, predictions, windows, segments and report costs are what the chain had |
| `pool` | `Pool` with its own constants: three endpoints, the last on another chain, two with history | concurrent failures move the routing once, and to a verified endpoint |
| `throttle` | `Throttle` with its own constants: two workers of an unmetered endpoint, one list of six items, a cap of four with two widths above its floor | a wave of 429s backs off once and does not halve the cap again; a list is answered whole |
| `rpc` | `Pool` with a primary that comes back; `Throttle` with two lists that share a metered endpoint, and with one beside a Fast list; `LogRange` to the end | calls, lists and scans end; a scan returns each block once; the primary is used again |
| `pacer` | its own constants: a budget with a call of two; a shared bucket, turns below one call a second, and both regimes for liveness | budget, sleeps, first-come turnstile, nobody waits for ever |
| `api_safety` | `Hub` cold with two sockets (its own constants), warm, with two networks, with a refresh of several pages, with owner actions across an outage and a rewind beside commits, and beside a failing query; `Listener` | the feed's picture, slots, actions, health |
| `api_liveness` | `Hub` after an outage, after a failed query, and with a silent peer | every socket settles or waits for one notification; silent ones end |
| `ghost` | two networks | refutes `NoGhosts` (section 5) |

Bounds. `Follower`: four blocks are enough for a gap over budget below the head
(a batch of one, one batch), a hole with stored neighbours, and a reorg that
reaches into it, below it, or up to it; `batches` has six blocks and batches of
two so that a range is filled in several commits. Two reorgs put one in the
middle of the repair of another. `Buckets`: twelve blocks give three windows of
the wider width, one below the boundary, one across the frontier, one live; with
rewinds nine or ten, and a retention of four, so that every scene prunes, skips
twice and rewinds once or twice.
`Backfill`: ten blocks with an hour of four and two recorded sets give several
runs and a boundary hour of both kinds of buckets. `OwnerScan`: chunks of two
over six blocks leave a pass between chunks when anything else happens; the head
does not grow where a scan is truncated (section 5, collector/slow.go:249).
`Pool`: three endpoints, so that a failover can skip one. `Throttle`: two workers, so that
a request is on the wire when another opens the cooldown, and a cap two halvings
above its floor, so that halving twice differs from halving once.
`HeadSubscriber`: back-off and cooldown at their default ratio, 3 to 6. `Replay`:
one failed tick or restart in every scene. `Hub`: a ring of four
over a table of four, or of two over one of three so that a refresh reads
several pages, with rewinds and queues short enough to overflow. Counters of the environment (`Max...`) are the named bounds.

Deadlock is checked except in `algorithms`, whose inputs end, and in the runs of
`MCApi`, where every socket may be gone and the chain at its bound. Callers, sockets and networks are symmetric where only safety is asked.

Fairness. Loops that run on timers keep taking steps (`runPolling`,
`runOnHeads`, `runHistory`, the slow loop); a killed process is restarted;
requests are answered or time out; time passes; goroutines that can run do.
Strong fairness is used three times: for a fill that is possible again and again
(`deferredWait` lets it through after `maxRecoveryDeferrals` turns), and for a
`select` or a slot that is ready again and again (Go chooses among ready cases at
random; the slots of an endpoint are a channel, first come first served), and for
a probe of the primary, since a caller's context ends with the process and cannot
end every probe. Nothing is assumed of the collector where the hub is asked to
settle: with the newHeads subscription up it does not sample a quiet chain
(collector/run.go:163).
Nothing is assumed of reorgs, faults, peers, or the moment a retry is due. In an
`MC` module one fairness conjunct covers an action of each of several scenes:
only one scene runs, so it says the same of each.

## 4. Properties

What each says, and of which code, is in the comment before it. The main ones:

* `NothingLost`, `Linked`, `HeadStored`, `RowsStable`, `OwedUntilRecovered`,
  `GapsClose`, `ChainRestored` - the follower: no height between the oldest and
  the newest stored block is lost; adjacent rows are parent and child although
  two loops write them; memory's head is the stored one; rows change only with
  the generation; what is owed leaves only by being recovered. `Linked`,
  `HeadStored` and `RowsStable` are stated up to the first rewind that reaches a
  missing range or stops above a stored block it did not look at (`crossed`);
  section 5 says what happens then.
* `BucketsExact` - buckets; `ReconstructedOnce` - backfill; `TimelineExact`,
  `OriginSound` - owner scan: what `owner_scan_through` vouches for is recorded,
  and what replay reads of it, and the state it starts from is one of the chain;
  `DepthKept` and `WalksEnd` - both walks.
* `ReplayExact`, `PredictionsExact`, `ReportsExact` - replayed numbers are the
  chain's; `PricesExact`, `BucketsAgree`, `NormalizeAgrees` - pure code.
* `RoutingSteady`, `BatchWhole`, `WaveOneStep`, `LogsExact`, `AsksEnd`,
  `PrimaryRegained` - endpoints; `WithinBudget`, `FirstCome` (a refinement of
  `Turnstile`), `EveryWaitEnds` - the pacer.
* `HeadsFollowed`, `Settles`, `LeftRightly`, `EveryJobServed`, `PassedMeansTried`
  - the loops.
* `LoneFollowed`, `RingOnChain`, `SlotsExact`, `ActionsReach`, `ListenHonest`,
  `FeedSettles` - the feed. A query of `Hub.Run` that failed is repeated only
  when its network is notified again, a reconcile whose query failed not at all,
  and one that found no client leaves a warm ring behind for the next subscriber:
  `FeedSettles` lets such a socket wait for the next notification, and
  `ActionsReach` leaves such a network out.

A property of an `MC` module is often the conjunction of several of its
component's, each with its own name and comment there; the component's type
invariant is among them.

Every property has a mutant in PROJECT.json: an operator next to the definition
it would replace, with the error in its comment, with which TLC refutes it.

## 5. Disagreements between the code and its own text

The run `ghost` is listed in PROJECT.json with its finding (`api/ws.go:1011`): a
subscription prepared while its socket ends is registered after the socket was
removed, and stays. The others were met in the same way: a property asked
without the restriction its passing scene makes. Each gives the line, the
property, the constants that refute it (the rest as in the passing scenes of the
component; for `Follower` a `HeaderBatchSize` and `MaxCatchUpBatches` of 1 and a
`MaxHeight` of 4), and what the code does against which text.

* `collector/tick.go:266` (`Follower!Converges`; limited endpoints only,
  `SeedTip = 2`, one reorg, no fault, under `FairSpec`). catchUp's skip path
  seeds the sampled head and records the gap without comparing any parent hash
  with the stored head, so a reorg below a skipped gap is not detected: the
  orphan row stays and fillBatch refuses the gap for ever ("does not build on
  the block"). docs/ARCHITECTURE.md:165 says "Reorgs are detected. Blocks store
  `hash` and `parent_hash`; a head whose parent hash does not match the stored
  head triggers a rewind to the common ancestor".
* `collector/tick.go:538` (`Follower!AncestorOnChain`; `SeedTip = 1`, one
  reorg). findAncestor returns the first height without a row, and a missing
  range is such a height with stored blocks below it that the same reorg
  replaced. The comment at collector/tick.go:522 says "A height without any row
  is the ancestor: nothing below it can be off-chain."
* `collector/tick.go:525` (`Follower!AncestorOnChain`; unlimited endpoints only,
  `MaxReorgDepth = 1`, `SeedTip = 2`, one reorg). findAncestor reads only the
  newest maxReorgDepth+1 rows; when headBehind calls it for a head further below
  than that, the stored off-chain row is not among them and is returned as the
  ancestor. The comment at collector/tick.go:22 says "errReorgTooDeep is
  returned when no common ancestor is found within maxReorgDepth stored blocks".
* `collector/fill.go:217` (`Follower!RangesKeyed`; replays that lose continuity
  or have no state, `SeedTip = 1`, one reorg). normalizeHoles keeps two ranges
  with the same first block apart when their reason or class differs, which a
  skip after a rewind into an existing range produces; missing_ranges declares
  "PRIMARY KEY (chain_id, from_block)"
  (db/migrations/000004_missing_ranges.up.sql:24), so ReplaceMissingRanges and
  the whole tick fail, again on every tick until the older range is gone.
* `collector/tick.go:979` (`Follower!LiveStartFirst`; no reorg, one fault). fail
  reloads the head after an error because, in its comment
  (collector/tick.go:969), "the transaction may have failed after the server
  committed", but not liveStart: memory still has none and the next persist
  (tick.go:934) overwrites the committed live_start. db/db.go:41 says
  "StateLiveStart records the first block the live loop stored".
* `collector/tick.go:980` (`Follower!NothingLost`; `Outage`, no reorg, one
  fault). fail only logs a failed reload and leaves the old head in memory; if
  the commit before it did land, the next tick seeds or skips from the stale
  head and heights above the real one are neither stored nor recorded.
  docs/ARCHITECTURE.md:163 says "After a commit error the follower reloads head
  and state from the database ... so a retry is idempotent".
* `api/ws.go:292` (`Hub!Followed`; cold, two sockets, two commits, queues of 3).
  refreshBlocks releases refreshMu before refreshAndBroadcast, handleLive and
  reconcile take h.mu to fan out, so a refresh started by a subscriber and one
  started by a notification can be delivered in the opposite order; deliver's
  watermark then discards the older blocks (or a stale delta puts dead blocks
  above a reorg). The comment at api/ws.go:284 says "whatever a refresh finds is
  delivered to the network's clients before the lock is released, so no
  committed delta is consumed without being sent".
* `api/ws.go:333` (`Hub!TipProves`; `RingSize = 2`, `HelloBlocks = 1`, one
  fork). The pages of one refresh are separate queries; a rewind between them
  appends blocks of the new fork above blocks of the old one, and since the new
  tip has a row no later refresh notices. The comment at api/ws.go:331 says
  "From the tip itself, so its row proves the ring is still on-chain". What the
  passing run checks is `RingOnChain`, the same for every network on which no
  refresh read on after such a rewind (`faults.torn`).
* `api/ws.go:524` (`Hub!ActionsReach`; `Behind`, two actions, one outage).
  reconcile asks only for owner actions at or above the highest block delivered
  so far, while the owner scan records actions below ones the live path already
  notified; one of those whose notification was lost is skipped.
  docs/ARCHITECTURE.md:324 says the hub "delivers missed owner actions before
  resuming normal fan-out". `ActionsReach` excuses exactly such an action.
* `nitro/pacer.go:208` (`Pacer!AvailableNow`; `Unit = 2`, `Rate = 1`,
  cancellations). Available returns every whole token of a time-shared bucket,
  also while a Fast caller waits and the bulk lane has to yield; pacer.go:197
  says "Available returns the whole tokens a Bulk caller can take without
  waiting".
* `nitro/pacer.go:106` (`Pacer!BulkServed`; `Unit = 1`, `Rate = 1`, two callers,
  under `FairSpec`). With callsPerSecond = 1 reserveRate equals the rate and the
  bucket is not time-shared, so each refilled token is reserve and a Fast call
  per second starves a queued Bulk caller; pacer.go:58 says "so a large Bulk
  batch is never starved by a stream of small calls".
* `nitro/pool.go:601` (`Pool!OncePerEndpoint`; two endpoints, two faults). do
  counts failures, not endpoints: when another caller fails over from the
  fallback back to the primary while this one retries, it picks the primary it
  already failed on, and with two endpoints gives up after it; pool.go:575-577
  says "fails over and retries on the next one, at most once per endpoint".
* `nitro/pool.go:259` (`HeadSubscriber!Settles`; three endpoints, the first two
  dead, `MaxBackoff = 3`, `Cooldown = 6`). WSEndpoint walks from the primary and
  skips only sockets that are still cooling, and the subscriber's back-off
  reaches headsMaxBackoff = 30 s while the cooldown is 60 s by default: after a
  common outage endpoint 0 has recovered from its cooldown every time endpoint 1
  has failed, so the two alternate and endpoint 2 is never dialled although it
  works. Two sockets in front that drop early have the same effect; one of each
  does not, which is what `Settles` checks at the same ratio. heads.go:43-44 says
  of the lease "so a WebSocket that does not work moves the subscription to
  another endpoint".
* `collector/run.go:169` (`HeadLoop!Current`; `PollsFail`, no drops). The
  timer's tick clears retry before it runs and does not set it again when it
  fails, and a failed explicit tick after the acknowledgement sets nothing
  either: with the subscription up and the chain quiet nothing ticks again.
  run.go:118-119 says "After a failed head tick the timer polls once, so a quiet
  chain cannot leave the follower stuck on a stale head."
* `collector/run.go:157` (`HeadLoop!SampledOnAck`; one drop). The loop sees the
  subscription only at a beat: lost and acknowledged again between two beats
  (one second of back-off, or one long tick) it still reads connected with
  polling false, so no explicit tick runs and a block produced in the gap is
  sampled only with the next head. run.go:117-118 says "The first timer beat
  after it comes up runs one explicit tick, so a quiet chain is sampled as soon
  as the subscription is acknowledged."
* `collector/fill.go:905` (`Buckets!CountedOnce`; one rewind, one skip,
  `Retention = 4`). commitFill folds every recovered row of a declined window at
  or above the hole's watermark, but after a rewind above a gap the live loop
  catches up through the gap and stores and counts those heights while the range
  stays recorded; filled once the window is below the prune frontier they are
  added a second time. So are heights that a rewind below the prune frontier
  left counted when the head then falls to an older row and a skip records them
  as missing. The comment at collector/fill.go:938 says "the rows recovered here
  were never in its bucket". The passing run leaves out exactly these heights
  (`relived`).
* `collector/fill.go:1018` (`Buckets!ServedWhole`; one rewind, two skips,
  `Retention = 4`). rewindHoles restarts a row-backed range but keeps its fold
  watermark although the rewind deleted its rows and rebuilt their buckets
  without them; when the range is refilled after the prune frontier passed the
  window, RebuildBuckets declines it and the watermark keeps the rows from being
  folded, and the range is reported filled. The comment at collector/fill.go:941
  says "Treating the silent decline as success would report the gap filled with
  the buckets unchanged". The passing run leaves out exactly these heights
  (`unfolded`).
* `db/postgres.go:663` (`BucketMath!StoresAgree`; a block without a prediction).
  RebuildBuckets computes the replay error as LEAST(floor(abs(predicted_base_fee
  - base_fee) * 10000 / base_fee), MaxInt64); predicted_base_fee is nullable
  since migration 000007 and LEAST of the database skips a NULL argument, so a
  block without a prediction (the first block of every reconstructed run, the
  seeded head) makes the bucket's replay error the largest int64. The comment at
  db/bucket.go:160 says of such a block "zero for a block that carries no
  prediction: an absent one is not a perfect one, so it must not widen the
  bucket's max", and the in-memory store does that.
* `db/postgres.go:685` (`BucketMath!FoldIsRebuild`; a last block without a set).
  RebuildBuckets tags a bucket with the constraint set of its last block only,
  BucketBuilder.Add keeps the set of an earlier block when the last one has none
  of its shape, and MergeBuckets keeps either by the order of the folds. The
  comment at db/postgres.go:615 says RebuildBuckets works by "mirroring
  BucketBuilder in SQL".
* `collector/backfill.go:262` (`Backfill!NothingMissed`; `Hour = 8`, `SeedTip =
  7`, `Sets = {1}`, a fork at 6, `ArchiveWindow = 2`). After a rewind to the
  block right below the first live one the live start is cleared while the
  cursor survives (rewindBackfill keeps it when Top-1 is the ancestor). An
  active run then steps without a boundary, so rows of the boundary hour are
  folded additively and stored as no rows; the next tick derives the live start
  in the same hour and rebuilds the bucket from rows, and the folded blocks are
  lost while the cursor has passed them. The comment at
  collector/backfill.go:140 says blocks are folded with the cursor "so every
  block counts exactly once and no live rebuild sees a half-written fold".
* `collector/backfill.go:646` (`Backfill!NothingMissed`; `Hour = 8`, one epoch,
  one restart, no archive). A raised history_epoch resets the cursor but keeps
  the block rows, also those a half replayed run wrote in the boundary hour;
  startSegment then takes OldestBlock, a row of that run, as the end of
  everything reconstructed, so the blocks between the run's rows and the first
  live block are neither reconstructed nor recorded as missing. The comment at
  collector/backfill.go:140 says "every block counts exactly once".
* `collector/tick.go:743` (`Replay!RowsExact`; floors, `MaxGap = 5`, one fault).
  After a failed tick or a restart the replay continues from the stored head
  with the floor of the live sample when no change below it is recorded. The
  change may lie in the very blocks to be replayed: they are then priced, and
  stored, with the floor set after them. The comment at collector/tick.go:737
  says the live value may stand in "since the catch-up scan finds any change
  after the row", but the scan's pending actions are not consulted here, and
  model/model.go:184 calls the stored value "the floor in force".
  This case and the next three are what `ReplayExact` leaves out, by the history
  variable `guessed`, and nothing else: every scene has a fault.
* `collector/tick.go:761` (`Replay!RowsExact`; legacy, `MaxGap = 5`, one fault).
  stateAtLocked gives the stored head of a legacy chain the live sample's
  parameters with the recorded changes up to it; with none recorded the blocks
  before a pending change are replayed with the parameters after it, or, when
  the chain has just left the legacy model, under the new set. The comment
  at collector/fill.go:616 rules this out for the filler: "never from the live
  sample: a legacy chain whose parameters changed after the gap would otherwise
  be replayed with today's".
* `collector/fill.go:631` (`Replay!RowsExact`; floors, `MaxGap = 1`, `MaxHeight
  = 5`). A row holds the floor that priced its block, so after a block whose own
  owner action changed the floor the next one is replayed with the old floor.
  replayStateLocked has the case (feeChangesInBlock), storedFillState has not;
  the comment at collector/fill.go:614 says it "builds the pricer state at the
  end of a stored block".
* `collector/fill.go:642` (`Replay!RowsExact`; a legacy chain that switches to
  sets, `MaxGap = 1`). shapeAtLocked prefers a legacy state sample to a recorded
  constraint set even when the set is newer: a chain that left the legacy model
  between its last sample and the stored block is replayed as a legacy chain
  when both have one backlog. The comment at collector/fill.go:614 says "the
  shape really in force" there.
* `collector/backfill.go:696` (`Replay!SegmentsPredict`; constraint sets). A
  segment starts at the block that installs its set, is stepped under the new
  set and with no elapsed time, so the prediction it carries to the block after
  is not that block's base fee, though its backlogs are right. The comment at
  collector/tick.go:672 says recorded actions "are applied at their transaction
  boundaries after Step priced" the block.
* `collector/slow.go:249` (`OwnerScan!TimelineComplete`; `SeedTip = 4`, two
  restarts, one epoch, no fork). When a pass ends between recording its origin
  and its first chunk (a failed log read, a rewind, a crash), the next pass
  finds no cursor, computes the cutoff again from a head that has grown, keeps
  the recorded origin and starts at the later cutoff. The blocks between the two
  are never scanned although owner_scan_through then vouches for them.
  db/db.go:50 calls it "the block through which the owner-action timeline is
  complete", and collector/slow.go:241 says the origin is recorded at "the block
  a truncated owner scan starts" from.
* `collector/tick.go:396` (`OwnerScan!TimelineComplete`; `Overlap`, `Depths =
  {Hold}`, `Margin = 0`, `Forks = {2, 3}`). A rewind below the origin deletes
  the scan checkpoints in its transaction and forgets them in memory afterwards.
  A pass that reads the new generation in between finds no cursor but an origin
  in memory, so it starts at a cutoff without recording one; after the
  publication neither side has an origin, and a truncated scan counts as a scan
  from the genesis. db/db.go:50: "the block through which the owner-action
  timeline is complete".
* `collector/slow.go:489` (`OwnerScan!NoDeadActions`; `Archive`, `Overlap`,
  `Forks = {2, 3, 4}`). loadSets reads the caches before f.mu is taken. A rewind
  that commits and reloads them in between is overwritten by the older read:
  actions and sets of the dead fork stay in the timeline until the next pass
  ends. The comment at collector/collector.go:667 promises of a rewind that
  "nothing reads state from a dead fork".
* `collector/slow.go:335` (`OwnerScan!OriginAgrees`; `LegacyChain`, `Overlap`,
  `Forks = {0, 1, 2}`). writeOrigin commits the origin under the generation and
  publishes it later without looking again. A rewind below it in between deletes
  the checkpoint and clears memory, then the dead origin is published; later
  passes take it for known and never record one. collector/collector.go:232:
  "scanOrigin is the owner_scan_origin checkpoint".
* `collector/tick.go:423` (`OwnerScan!OriginReplays`; no `Overlap`, `Depths =
  {Hold}`, `SeedTip = 2`, `Forks = {2, 3}`). The set sampled at an origin is
  recorded at the block after it. A rewind to the origin's own block does not
  reset the scan, as the origin is not above the ancestor, but RewindAfter
  deletes the set, and nothing records it again. The comment at
  collector/slow.go:243 says "the set is recorded as effective at" the block
  after "and the replay starts there".
* `collector/slow.go:665` (`BatchScan!CostsExact`; one reorg, one fault, only
  the charge). The anchor sampled by the slow tick's L1 step is not dropped by a
  rewind and the resolver is taken before the generation is read, so a report
  can be committed with the parameters of a fork that no longer exists. The
  comment at collector/slow.go:662 says "blocks read from a rewound fork are
  discarded".
* `collector/slow.go:785` (`BatchScan!CostsExact`; `ScanFirst = FALSE`). A scan
  that has not completed also has no origin, and paramsAt then takes the default
  charge as known: a report below a recorded setter is priced with it although
  an older setter may lie in the part not scanned yet (the owner scan failed or
  yielded; the batch step runs all the same). docs/SPEC.md:127 says the
  collector "refuses to guess across a setter".

`Follower`'s properties `Linked`, `HeadStored` and `RowsStable` exclude the first
three by `crossed`, and they and `NothingLost` are proved without `Outage`.

## 6. Proofs

The theorems hold for every value of the constants that satisfies the
component's assumption: for the follower any chain length, any number of
reorgs, faults and restarts, any batch size, catch-up budget and ancestor
depth, any mix of endpoints and replay outcomes (`FollowerAssumption`); for the
others any number of callers, workers or endpoints, any rate, width and limit
(`PacerAssumption` and so on, which the `MC` module of the component assumes of
its instances as `Fitting`). The assumptions are those the code's configuration
and constants justify; `RepairAssumption`, for example, asks that the boundary
below which buckets are additive is a multiple of the bucket width
(collector/collector.go:119-121, 738-744; collector/postergas.go:97-108). Every
inductive invariant was checked with TLC before it was proved.

**`FollowerProofs`.** First what `Normalize` and each writer of the ranges
preserve: the union of the ranges (`NormalizeLastPreserves`), the different
first blocks of a stored set, and the cursor: an entry's cursor is that of a
range with the same first block (`NormalizeLastCursors`), so a merge never moves
a cursor over blocks that were not recovered.

Then `Invariant`: `Spec => []IInv`. The types alone are not
inductive, and `OwedUntilRecovered` needs more than types: when a finished batch
removes a range, all of it must have been recovered, including what earlier
batches did. So `IInv` adds that

* the stored ranges have different first blocks (`Stored`), so that advancing a
  range touches one range;
* every range's cursor stands on recovered blocks (`AllSound`);
* the cursor of the fill step in flight does too, *as long as its generation is
  the stored one* (`Attempt`), which is exactly what `withGeneration` compares;
* a batch about to be committed is exactly the stretch from the cursor to its
  end, each height once (`FillBatchOK`).

From it follow `TypesHold`, `KeysUnique` and `OwedHeld`
(`Spec => OwedUntilRecovered`).

**`RowsProofs`.** `NothingLostHolds`: `~Outage /\ Spec => []NothingLost`.
Besides `IInv` the argument needs `CInv`:

* `Between` - `NothingLost` without minimum and maximum;
* `HolesFooted` - a range that was begun follows a stored block, so what the
  filler stores never lies below everything stored;
* `HeadIn` - the head in memory is stored, and is 0 only if nothing is (this is
  what the reload in `fail` maintains, and what breaks when the reload itself is
  refused: hence the hypothesis);
* `TickCover` - what a tick is about to persist, blocks and skipped range
  together, reaches down to that head;
* `FillCover` - the block before the range of a fill of the stored generation is
  stored;

and `Awake`, that only a running process has a tick in flight.

`RowsLinked`, `HeadIsStored`, `RowsKept`: under `~Outage`,
`Linked`, `HeadStored` and `RowsStable`. All three come from one invariant,
`LInv`, that holds until a rewind crosses a missing range:

* every range lies between two stored blocks, with nothing stored where it is
  still to be filled (`Gaps`), and no two ranges touch (`Separate`). Then
  `normalizeHoles` leaves them as they are (`NormalizeSeparate`): a merge cannot
  make a range whose ends were checked against other rows;
* memory's head and hash are those of the newest row, except in a tick that has
  rewound and not reloaded (`HeadLink`);
* each place of a tick and of a fill knows which stored rows its blocks continue
  (`PlaceLink`, `FillLink`); a fill's knowledge is worth something only while
  its generation is the stored one;
* on the chain a parent's hash is never newer than its child's (`ChainInv`), and
  a sample of the newest fork is on the chain (`SampleInv`).

The last point is where the model's environment enters: a reorg produces new
hashes, so a dropped branch never comes back. It is needed because after a
rewind found through a parent hash, catch-up (collector/tick.go:103-121) does
not compare the first new header with the ancestor again.

**`PacerProofs`.** `BudgetKept` needs, beside the balances' bounds, an equation
with slack: what is in the bucket and what has passed in the window never
exceed burst and refill (`WindowOK`). `OneInside` and the refinement need who is
where: the queue has no caller twice, a caller at the turnstile is in the queue
or has been let in and never both, and `held` says whether somebody is inside
(`TurnInv`). `PacerFirstCome` maps `reserve`'s callers to `Turnstile`: `Holder`
is the one caller inside, and each action is a step of it or leaves it alone.
The interesting case is `Abandon`: a caller that gives up after it was let in
must hand the turnstile on.

**`PoolProofs`.** `RoutingKept`: a caller holds an endpoint only while it is
verified, fails only on one that is down or on the wrong chain (`Placed`), and
`probing` is set exactly while one caller probes (`ProbeInv`). With the archive
cursor's own invariant these are inductive, and the step property follows:
failing over compares the endpoint the caller failed on with the active one. A
probe that its caller breaks off is one that failed, and clears the flag as well.

**`EndpointProofs`.** `Throttle`: slots bound the requests on the wire
(`SlotInv`); with one slot nobody past the check leaves a cooldown behind
(`CoolInv`, from which `NothingLeavesCooling`); the requests of a wave left
before the cooldown they ran into (`WaveInv`), so that none of them counts as
fresh; and every item taken below the lowest failure is answered or in a
worker's hands (`BatchInv`), from which `ListsWhole`. `LogRange`: what a scan has
got is the run of blocks up to its start.

**`RepairProofs`.** `RepairTried` and `RepairGaveUpLate`: no row is passed
untried although only the cursor is durable, and the counts are kept per block
and thrown away. The step in flight has every owed row between the cursor and
where it will leave it (`StepInv`), which needs the region pinned against
pruning (`RowsInv`); what was passed over lies above a skipped row, which the
next sweep starts at (`PassInv`).

**`OwnerScanProofs`.** The difficulty is the time between a reorg and the rewind
that notices it: rows, actions, origin and cursor are then of a fork that is
gone, and nothing in the database says so. `Survives(h)` says that the rewind
that is due keeps height `h`, and every part of the invariant speaks of heights
that survive only.

* `Inv`, for every instance: types, the stored rows off the chain are the highest
  ones (`RowsInv`), a pass is of this generation or an earlier one (`PassInv`),
  its cursor is the stored one while its generation is (`CursorInv`), and a
  sampled origin is on the chain if its height survives (`OriginInv`). From it
  `ScanTyped` and `SampleOnChain`.
* `TimelineInv`, for a chain scanned from the genesis (`FromGenesis`): what
  survives up to the cursor is recorded, and memory's caches hold it up to what
  memory vouches for. Both are needed and neither follows from the other: a rewind
  that is committed and not published has lowered the cursor but not
  `mem.through` (`Shown`). From it `TimelineKnown`, that is `TimelineExact`. A
  truncated scan is excluded because the code breaks it there: see
  collector/slow.go:249 and collector/tick.go:396 in section 5.
* `AliveInv` and `AgreeInv`, where no loop steps between a commit of the other's
  and its publication (`Orderly`): what survives of the actions in hand is of the
  chain, and the origin in hand is the stored one. From them `OriginIsSound`,
  that is `OriginSound`, and `OriginOnlyFalls`. Without `Orderly` the code breaks
  them (collector/slow.go:335 and 489), which is why `OriginSound` asks them of
  that case only.

**`HubProofs`.** `SlotsCounted` and `RingHeld` from one invariant, `IInv`:

* `Counted`: the admitted sockets are finitely many, the total is their number
  and an address's count those of that address; admit, release and eviction are
  then facts about the cardinality of a set with one element more or less;
* `Serialized`: a refresh in flight holds its network's `refreshMu`, so no other
  changes the ring under it; what it has read is one block a height, and what it
  is about to append contains the ring's tip;
* `Whole`: in a network where no refresh read on after a rewind, ring and pages
  are `Chained`: if a block of them is in the table, all of them at or below its
  height are. This is what `appendFreshBlocks` relies on when it compares one
  block of the ring with the table. A block newer than every rewind is in the
  table, so the next page can be appended to it.

`Store`, `Losses`, `Memory`, `Sockets` and `Tasks` are the types, with one block
a height in table and ring; they give `HubTyped`. `RingOnChain` is asked outside
`faults.torn`, the networks in which a rewind came between two pages of one
refresh (section 5, api/ws.go:333).

Each of these properties of a run is stated by a theorem: `TypeOK`,
`NothingLost`, `OwedUntilRecovered`, `Linked`, `HeadStored`, `RowsStable`,
`TimelineExact`, `OriginSound`, `PassedMeansTried`, `RoutingSteady`,
`BatchWhole`, `WaveOneStep`, `WithinBudget`, `FirstCome`, `SlotsExact`,
`RingOnChain`.

Only model-checked:

* what needs induction over data, which is out of the prover's reach: that the
  set form of normalization equals the list pass, what the exponential series, a
  fold over blocks or a replay computes for every input (`NormalizeAgrees`,
  `PricesExact`, `BucketsAgree`, `ReplayExact`, `PredictionsExact`,
  `ReportsExact`);
* liveness, and whatever speaks of ENABLED: `GapsClose`, `ChainRestored`,
  `WalksEnd`, `HeadsFollowed`, `Settles`, `EveryJobServed`, `PrimaryRegained`,
  `AsksEnd`, `EveryWaitEnds`, `FeedSettles`;
* safety without a theorem: `BucketsExact`, `ReconstructedOnce`, `DepthKept`
  (but for its step of the origin, `OriginOnlyFalls`), `LeftRightly`,
  `LoneFollowed`, `ActionsReach`, `ListenHonest`. `LogsExact` is a property of an
  instance in its run; what it says of `LogRange` is proved (`ScansExact`).

## 7. What could follow

1. Proofs about `Backfill` (`FloorStep`, `NothingMissed`) and `Buckets`
   (`ServedWhole`): both need an invariant over the segments of the walk and the
   windows of the buckets.
2. `WaitExact` of the pacer, a statement about `Refill` for any balance.
3. `TimelineKnown` for truncated scans, once the scan resumes at the recorded
   origin.

## 8. Not modelled

Whole parts: HTTP handlers and series queries (they read and format), the
monitor and the ETH/USD quote (they observe), ABI and log decoding (byte-level
conversion with table tests), configuration, metrics and logging, the schema
migrations, and the web front end.

Inside the modelled parts: the API's cache of network lookups, its handshake
checks and limits on message rates, the ageing of the quote; rows without a
hash; the due times of retries; the slow tick's statistics; failing database
calls in the owner scan. The in-memory store of the tests
(`db/dbtest/memstore.go`) is a second implementation of the same transactions;
the models follow Postgres.

## 9. Running

    tlc -workers 2 -config Follower.cfg Follower
    tlc -workers 2 -config MCIndexing.cfg MCIndexing
    tlapm RowsProofs.tla

`MCApi` has a configuration for safety, one for liveness and one for `ghost`. To
run one scene of an `MC` module, set `Scenes` in its configuration to that scene.
