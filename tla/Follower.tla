------------------------------ MODULE Follower ------------------------------
(***************************************************************************)
(* One chain's follower: the fast loop's tick (internal/collector/tick.go) *)
(* and the gap filler (internal/collector/fill.go) over one database,      *)
(* under reorgs of the chain, failing calls, commits whose answer is lost  *)
(* and restarts of the process.                                            *)
(*                                                                         *)
(* A block is its height, its hash and its parent's hash.  A hash is the   *)
(* number of the reorg the block was produced after: with the height it    *)
(* names one block of the tree.  The rows all lie in the row-backed part   *)
(* of history (from the hour of the first live block on).                  *)
(***************************************************************************)
EXTENDS Holes, Sequences

CONSTANTS
    MaxHeight,          \* bound: the highest block the chain produces
    MaxReorgs,          \* bound: how often the chain forks
    MaxFaults,          \* bound: failing calls, lost answers, lagging samples, restarts
    SeedTip,            \* the chain's height when the collector first starts
    HeaderBatchSize,    \* cfg.HeaderBatchSize
    MaxCatchUpBatches,  \* cfg.MaxCatchUpBatches
    MaxReorgDepth,      \* maxReorgDepth
    Unlimited,          \* the call policies the pool's endpoints have
    Replays,            \* what replaying fetched headers can come to
    Outage              \* whether the reload after a failed tick can fail too

ASSUME FollowerAssumption ==
    /\ MaxHeight \in Nat \ {0} /\ MaxReorgs \in Nat /\ MaxFaults \in Nat
    /\ SeedTip \in 1 .. MaxHeight
    /\ HeaderBatchSize \in Nat \ {0} /\ MaxCatchUpBatches \in Nat \ {0}
    /\ MaxReorgDepth \in Nat \ {0}
    /\ Unlimited \in SUBSET BOOLEAN /\ Unlimited # {}
    /\ Replays \in SUBSET {"ok", "no_state", "unsupported_model", "replay_discontinuity"}
    /\ Outage \in BOOLEAN

VARIABLES
    chain,      \* the canonical chain the nodes report, external
    forks,      \* how many reorgs there were
    faults,     \* faults so far
    rows,       \* db: the blocks table, a function from the stored heights
    holes,      \* db: the missing_ranges table
    gen,        \* db: the generation checkpoint
    live,       \* db: the live_start checkpoint, 0 when absent
    folded,     \* db: heights recovered into additive buckets, without a row
    mem,        \* the Follower struct
    tick,       \* the tick in flight and its locals
    fill,       \* the fill step in flight and its locals
    crossed     \* history: a rewind reached a hole, or stopped short of a stored block

db == <<rows, holes, gen, live, folded>>
env == <<chain, forks>>
vars == <<chain, forks, faults, rows, holes, gen, live, folded, mem, tick, fill, crossed>>

-----------------------------------------------------------------------------
Height == 1 .. MaxHeight
Hash == 0 .. MaxReorgs
Block == [v : Hash, p : Hash]
Sample == [n : Height, v : Hash, p : Hash]
Table == UNION {[S -> Block] : S \in SUBSET Height}
Hole == HoleRecords(MaxHeight, Hash)
Maybe(S) == {T \in SUBSET S : \A x, y \in T : x = y}
NoRows == [n \in {} |-> [v |-> 0, p |-> 0]]

(* Why a tick walks back: the reported head is below the stored one, at it *)
(* with another hash, or the first missing block has another parent.       *)
RewindFor == {"behind", "same", "parent"}

(* The tick's and the filler's places, with the locals alive there. *)
IdleStep == [pc : {"idle"}]
FetchTick == [pc : {"fetch"}, sample : Sample, stored : Height, unlimited : BOOLEAN,
              headers : Seq(Block), again : BOOLEAN]
WalkTick == [pc : {"ancestor"}, sample : Sample, from : Nat, n : Nat, recent : Table, why : RewindFor]
RewindTick == [pc : {"rewind", "reload"}, sample : Sample, ancestor : Nat, why : RewindFor]
PersistTick == [pc : {"persist"}, sample : Sample, rows : Table, hole : Maybe(Hole)]
PublishTick == [pc : {"publish"}, sample : Sample]
Tick == IdleStep \cup FetchTick \cup WalkTick \cup RewindTick \cup PersistTick \cup PublishTick

FetchFill == [pc : {"fetch"}, gen : Nat, hole : Hole, hash : Hash]
Marks == UNION {[S -> Reasons] : S \in SUBSET (0 .. MaxHeight + 1)}
MarkFill == [pc : {"mark"}, marks : Marks, target : IdleStep \cup FetchFill]
CommitFill == [pc : {"commit"}, gen : Nat, hole : Hole, next : Nat, rows : Table, tail : Table]
FailedFill == [pc : {"failed"}, hole : Hole]
Fill == IdleStep \cup FetchFill \cup MarkFill \cup CommitFill \cup FailedFill

(* The Follower struct. *)
Memory == [up : BOOLEAN, head : 0 .. MaxHeight, hash : Hash \cup {NoHash}, known : BOOLEAN,
           live : 0 .. MaxHeight]

Idle == [pc |-> "idle"]
Down == [up |-> FALSE, head |-> 0, hash |-> NoHash, known |-> FALSE, live |-> 0]

-----------------------------------------------------------------------------
(* The store. *)
UpsertBlocks(old, new) ==
    [n \in DOMAIN old \cup DOMAIN new |-> IF n \in DOMAIN new THEN new[n] ELSE old[n]]

BlocksUpTo(table, n) == Restrict(table, {k \in DOMAIN table : k <= n})

LatestBlock(table) ==
    IF DOMAIN table = {} THEN 0 ELSE Max(DOMAIN table)

OldestBlock(table) ==
    IF DOMAIN table = {} THEN 0 ELSE Min(DOMAIN table)

(* Mutant: the hash of the reloaded head is forgotten. *)
ReloadHeadOnly(m, table) == [m EXCEPT !.head = LatestBlock(table), !.known = FALSE]

(* reloadHeadLocked: the last committed block, the replay state forgotten. *)
ReloadHead(m, table) ==
    LET last == LatestBlock(table)
    IN  [m EXCEPT !.head = last, !.known = FALSE,
                  !.hash = IF last = 0 THEN NoHash ELSE table[last].v]

-----------------------------------------------------------------------------
(* The chain, external: it grows, or drops its last blocks for another one. *)
Mint ==
    /\ Len(chain) < MaxHeight
    /\ chain' = Append(chain, [v |-> forks, p |-> chain[Len(chain)].v])
    /\ UNCHANGED <<forks, faults, db, mem, tick, fill, crossed>>

Reorg ==
    /\ forks < MaxReorgs
    /\ forks' = forks + 1
    /\ \E k \in 1 .. Len(chain) - 1 :
           chain' = Append(SubSeq(chain, 1, k), [v |-> forks + 1, p |-> chain[k].v])
    /\ UNCHANGED <<faults, db, mem, tick, fill, crossed>>

HeaderAt(n) == chain[n]
Fault == faults < MaxFaults /\ faults' = faults + 1

-----------------------------------------------------------------------------
(* The fast loop. *)

(* seed: the sampled head alone, with the range that was skipped. *)
Seed(s, skipped) ==
    [pc |-> "persist", sample |-> s, rows |-> [n \in {s.n} |-> [v |-> s.v, p |-> s.p]], hole |-> skipped]

(* A gap over budget.  The subtraction is unsigned, so a sample below the  *)
(* stored head is over every budget too.                                   *)
OverBudget(s, stored) ==
    s.n < stored \/ s.n - stored > HeaderBatchSize * MaxCatchUpBatches

Skip(s, stored) == Seed(s, {NewHole(stored + 1, s.n - 1, "pending", "catch_up_limit")})

(* catchUp up to its first fetch, under whichever endpoint serves it. *)
CatchUp(s, stored, again) ==
    IF stored = 0 THEN {Seed(s, {})}
    ELSE {IF ~ u /\ OverBudget(s, stored) THEN Skip(s, stored)
          ELSE [pc |-> "fetch", sample |-> s, stored |-> stored, unlimited |-> u,
                headers |-> <<>>, again |-> again] : u \in Unlimited}

(* rewindToAncestor: findAncestor reads the newest rows first. *)
RecentBlocks(table, count) ==
    Restrict(table, {n \in DOMAIN table : Cardinality({k \in DOMAIN table : k > n}) < count})

FindAncestor(s, from, why) ==
    [pc |-> "ancestor", sample |-> s, from |-> from, n |-> from,
     recent |-> RecentBlocks(rows, MaxReorgDepth + 1), why |-> why]

(* tickWith up to its first decision.  A sample of an older block of the   *)
(* canonical chain is a lagging endpoint's, and counts as a fault.         *)
TickSample ==
    /\ mem.up /\ tick.pc = "idle"
    /\ \E n \in 1 .. Len(chain) :
         LET s == [n |-> n, v |-> chain[n].v, p |-> chain[n].p]
             stored == mem.head
         IN  /\ IF n < Len(chain) THEN Fault ELSE UNCHANGED faults
             /\ \/ /\ stored = 0
                   /\ tick' = Seed(s, {})
                \/ /\ n < stored      \* headBehind
                   /\ tick' = IF n \in DOMAIN rows /\ rows[n].v # s.v
                                THEN FindAncestor(s, n, "behind") ELSE Idle
                \/ /\ n = stored /\ stored > 0 /\ mem.hash = s.v   \* sampleOnly
                   /\ tick' = [pc |-> "persist", sample |-> s, rows |-> NoRows, hole |-> {}]
                \/ /\ n = stored /\ stored > 0 /\ mem.hash # s.v
                   /\ tick' = FindAncestor(s, stored - 1, "same")
                \/ /\ n > stored /\ stored > 0
                   /\ tick' \in CatchUp(s, stored, FALSE)
    /\ UNCHANGED <<env, db, mem, fill, crossed>>

NextBatch == tick.stored + 1 + Len(tick.headers)
BatchEnd == Min({NextBatch + HeaderBatchSize - 1, tick.sample.n - 1})

(* fetchHeaders: one batch a call; the chain may fork between two. *)
FetchHeaders ==
    /\ tick.pc = "fetch"
    /\ NextBatch < tick.sample.n
    /\ BatchEnd <= Len(chain)
    /\ tick' = [tick EXCEPT !.headers = @ \o SubSeq(chain, NextBatch, BatchEnd)]
    /\ UNCHANGED <<env, faults, db, mem, fill, crossed>>

(* errEndpointChanged: the pool fell over to a paced endpoint between two  *)
(* batches of an unlimited catch-up.                                       *)
FailoverSkip ==
    /\ tick.pc = "fetch"
    /\ tick.unlimited /\ FALSE \in Unlimited
    /\ tick.headers # <<>> /\ NextBatch < tick.sample.n
    /\ OverBudget(tick.sample, tick.stored)
    /\ tick' = Skip(tick.sample, tick.stored)
    /\ UNCHANGED <<env, faults, db, mem, fill, crossed>>

VerifyChain(hs) == \A i \in 2 .. Len(hs) : hs[i].p = hs[i-1].v

(* process: what the replay of the fetched headers comes to.  The replay   *)
(* state can only be unknown when it must be rebuilt from the stored row.  *)
Process(s, hs) ==
    LET first == s.n - Len(hs) + 1
        replayed == [n \in first .. s.n |-> hs[n - first + 1]]
        skipped(life, reason) == {NewHole(first, s.n - 1, life, reason)}
    IN  {CASE r = "ok" -> [pc |-> "persist", sample |-> s, rows |-> replayed, hole |-> {}]
           [] r = "no_state" -> Seed(s, skipped("blocked", r))
           [] r = "unsupported_model" -> Seed(s, IF first < s.n THEN skipped("blocked", r) ELSE {})
           [] r = "replay_discontinuity" -> Seed(s, skipped("pending", r)) :
             r \in {r \in Replays : r = "no_state" => ~ mem.known}}

Headers == Append(tick.headers, [v |-> tick.sample.v, p |-> tick.sample.p])

(* The rest of tickWith once the headers are there: a first missing block  *)
(* with another parent is a reorg, but only the first catch-up looks.      *)
HeadersFetched ==
    /\ tick.pc = "fetch"
    /\ NextBatch >= tick.sample.n
    /\ IF ~ tick.again /\ Headers[1].p # mem.hash
         THEN tick' = FindAncestor(tick.sample, tick.stored - 1, "parent")
         ELSE VerifyChain(Headers) /\ tick' \in Process(tick.sample, Headers)
    /\ UNCHANGED <<env, faults, db, mem, fill, crossed>>

(* Mutant: the rewind stops one block short. *)
AncestorAbove == [pc |-> "rewind", sample |-> tick.sample, ancestor |-> tick.n + 1, why |-> tick.why]

Ancestor == [pc |-> "rewind", sample |-> tick.sample, ancestor |-> tick.n, why |-> tick.why]

(* findAncestor, one header a call: the first height whose row the node    *)
(* still reports, ...                                                      *)
AncestorHeader ==
    /\ tick.pc = "ancestor"
    /\ tick.from - tick.n < MaxReorgDepth
    /\ tick.n \in DOMAIN tick.recent /\ tick.n <= Len(chain)
    /\ tick' = IF HeaderAt(tick.n).v = tick.recent[tick.n].v THEN Ancestor
               ELSE [tick EXCEPT !.n = @ - 1]
    /\ UNCHANGED <<env, faults, db, mem, fill, crossed>>

(* ... or without a row among the newest, whatever is stored below it.     *)
AncestorNoRow ==
    /\ tick.pc = "ancestor"
    /\ tick.from - tick.n < MaxReorgDepth
    /\ tick.n \notin DOMAIN tick.recent
    /\ tick' = Ancestor
    /\ crossed' = (crossed \/ \E k \in DOMAIN rows : k <= tick.n)
    /\ UNCHANGED <<env, faults, db, mem, fill>>

(* Mutant: the generation is not bumped. *)
RewindQuietly ==
    /\ rows' = BlocksUpTo(rows, tick.ancestor)
    /\ holes' = RewindHoles(holes, tick.ancestor)
    /\ live' = IF mem.live > tick.ancestor THEN 0 ELSE live
    /\ folded' = {n \in folded : n <= tick.ancestor}
    /\ crossed' = (crossed \/ \E h \in holes : h.to >= tick.ancestor)
    /\ UNCHANGED gen

(* The rewind's transaction. *)
RewindTx ==
    /\ gen' = gen + 1
    /\ rows' = BlocksUpTo(rows, tick.ancestor)
    /\ holes' = RewindHoles(holes, tick.ancestor)
    /\ live' = IF mem.live > tick.ancestor THEN 0 ELSE live
    /\ folded' = {n \in folded : n <= tick.ancestor}
    /\ crossed' = (crossed \/ \E h \in holes : h.to >= tick.ancestor)

Rewind ==
    /\ tick.pc = "rewind"
    /\ RewindTx
    /\ tick' = [tick EXCEPT !.pc = "reload"]
    /\ UNCHANGED <<env, faults, mem, fill>>

(* The rest of rewindToAncestor, and where its caller goes on from. *)
StartCleared ==
    IF tick.pc = "reload" THEN [mem EXCEPT !.live = IF @ > tick.ancestor THEN 0 ELSE @] ELSE mem

RewindReload ==
    /\ tick.pc = "reload"
    /\ LET m == ReloadHead(StartCleared, rows)
       IN  /\ mem' = m
           /\ tick' \in IF tick.why = "behind" THEN {Idle}
                        ELSE CatchUp(tick.sample, m.head, tick.why = "parent")
    /\ UNCHANGED <<env, faults, db, fill, crossed>>

(* persist: one transaction, refused when the table's key would break. *)
PersistTx ==
    LET after == IF tick.hole = {} THEN holes
                 ELSE RecordHole(holes, CHOOSE h \in tick.hole : TRUE)
    IN  /\ UniqueStarts(after)
        /\ holes' = after
        /\ rows' = UpsertBlocks(rows, tick.rows)
        /\ live' = IF mem.live = 0 THEN tick.sample.n ELSE live
        /\ UNCHANGED <<gen, folded>>

Persist ==
    /\ tick.pc = "persist"
    /\ PersistTx
    /\ tick' = [pc |-> "publish", sample |-> tick.sample]
    /\ UNCHANGED <<env, faults, mem, fill, crossed>>

(* publish: memory follows the commit. *)
Publish ==
    /\ tick.pc = "publish"
    /\ mem' = [mem EXCEPT !.head = tick.sample.n, !.hash = tick.sample.v, !.known = TRUE,
                          !.live = IF @ = 0 THEN tick.sample.n ELSE @]
    /\ tick' = Idle
    /\ UNCHANGED <<env, faults, db, fill, crossed>>

(* What makes a step of the tick fail without any fault: a header the node *)
(* no longer has, headers that do not link, a reorg that is too deep, the  *)
(* primary key of missing_ranges.                                          *)
TickRefused ==
    \/ /\ tick.pc = "fetch" /\ NextBatch < tick.sample.n
       /\ BatchEnd > Len(chain)
    \/ /\ tick.pc = "fetch" /\ NextBatch >= tick.sample.n
       /\ tick.again \/ Headers[1].p = mem.hash
       /\ ~ VerifyChain(Headers)
    \/ /\ tick.pc = "ancestor"
       /\ \/ tick.from - tick.n >= MaxReorgDepth
          \/ tick.n \in DOMAIN tick.recent /\ tick.n > Len(chain)
    \/ /\ tick.pc = "persist" /\ tick.hole # {}
       /\ ~ UniqueStarts(RecordHole(holes, CHOOSE h \in tick.hole : TRUE))

(* Mutant: a failed tick trusts its memory. *)
NotReloaded(m, table) == {m}

(* fail: the committed head is reloaded, unless the database is out. *)
Reloaded(m, table) == {ReloadHead(m, table)} \cup (IF Outage THEN {m} ELSE {})

TickFails ==
    /\ tick.pc \notin {"idle", "publish"}
    /\ \/ TickRefused /\ UNCHANGED faults /\ mem' = ReloadHead(mem, rows)
       \/ Fault /\ mem' \in Reloaded(StartCleared, rows)
    /\ tick' = Idle
    /\ UNCHANGED <<env, db, fill, crossed>>

(* A transaction that committed although its caller saw an error. *)
AnswerLost ==
    /\ Fault
    /\ \/ tick.pc = "rewind" /\ RewindTx
       \/ tick.pc = "persist" /\ PersistTx /\ UNCHANGED crossed
    /\ mem' \in Reloaded(mem, rows')
    /\ tick' = Idle
    /\ UNCHANGED <<env, fill>>

-----------------------------------------------------------------------------
(* The gap filler. *)

(* targetFor: the block a hole is replayed forward from is stored, or the  *)
(* hole carries the state there.                                           *)
Startable(h) == Start(h) <= h.to /\ (Start(h) - 1 \in DOMAIN rows \/ h.st # NoHash)
StartHash(h) == IF Start(h) - 1 \in DOMAIN rows THEN rows[Start(h) - 1].v ELSE h.st

(* A pass can step over a range whose retry is not due, or whose stored    *)
(* predecessor has no recorded pricer shape while the range carries no     *)
(* state of that block; endsInKnownShape can only refuse a range with a    *)
(* stored block after it.                                                  *)
MayWait == {h \in holes : h.life = "retrying" \/ (Startable(h) /\ h.st # StartHash(h))}
MayBeUnexplained ==
    IF "replay_discontinuity" \in Replays THEN {h \in holes : h.to + 1 \in DOMAIN rows} ELSE {}

(* A blocked range with a state before it loses its mark. *)
FillTarget(h) ==
    [pc |-> "fetch", gen |-> gen, hash |-> StartHash(h),
     hole |-> IF Blocked(h) THEN [h EXCEPT !.reason = "", !.life = "pending"] ELSE h]

(* pickHole, with the marks its pass leaves on what it examined first.     *)
FillPick(waiting, unexplained) ==
    /\ mem.up /\ fill.pc = "idle" /\ holes # {}
    /\ LET examined == {h \in holes \ waiting : h.reason # "unsupported_model"}
           able == {h \in examined \ unexplained : Startable(h)}
           picked == {h \in able : \A k \in able : k # h => PickedBefore(h, k)}
           seen == {h \in examined : \A k \in picked : PickedBefore(h, k)}
           stranded == {h \in seen : ~ Blocked(h) /\ Start(h) <= h.to /\ ~ Startable(h)}
           refused == {h \in seen \cap unexplained : Startable(h)}
           marks == [n \in {h.from : h \in stranded \cup refused} |->
                       IF n \in {h.from : h \in stranded} THEN "no_state" ELSE "replay_discontinuity"]
           target == IF picked = {} THEN Idle ELSE FillTarget(CHOOSE h \in picked : TRUE)
       IN  fill' = IF DOMAIN marks = {} THEN target
                   ELSE [pc |-> "mark", marks |-> marks, target |-> target]
    /\ UNCHANGED <<env, faults, db, mem, tick, crossed>>

FillStep ==
    \E waiting \in SUBSET MayWait, unexplained \in SUBSET MayBeUnexplained :
        FillPick(waiting, unexplained)

(* The marks are applied in a transaction of their own, to whatever holes  *)
(* start there by then.                                                    *)
FillMark ==
    /\ fill.pc = "mark"
    /\ holes' = MarkHoles(holes, fill.marks)
    /\ fill' = fill.target
    /\ UNCHANGED <<env, faults, rows, gen, live, folded, mem, tick, crossed>>

(* The headers of one batch, as many as the budget and the answer allow. *)
FillBatches ==
    LET h == fill.hole
        top == Min({Start(h) + HeaderBatchSize - 1, h.to, Len(chain)})
    IN  {[n \in Start(h) .. e |-> chain[n]] : e \in Start(h) .. top}

(* Mutant: the stored block after the range is not compared. *)
LinksBelow(hdrs, h) == hdrs[Start(h)].p = fill.hash

(* The checks of fillBatch: the batch continues the block it is replayed   *)
(* from and, when it is the last one, the stored block after it builds on  *)
(* it (holeTail).                                                          *)
Links(hdrs, h) ==
    LET e == Max(DOMAIN hdrs)
    IN  /\ hdrs[Start(h)].p = fill.hash
        /\ (e = h.to /\ e + 1 \in DOMAIN rows) => rows[e + 1].p = hdrs[e].v

FillFetch ==
    /\ fill.pc = "fetch"
    /\ \E hdrs \in FillBatches :
         LET h == fill.hole
             e == Max(DOMAIN hdrs)
         IN  /\ Links(hdrs, h)
             /\ fill' = [pc |-> "commit", gen |-> fill.gen, hole |-> h, next |-> e + 1, rows |-> hdrs,
                         tail |-> IF e = h.to THEN Restrict(rows, DOMAIN rows \cap {e + 1}) ELSE NoRows]
    /\ UNCHANGED <<env, faults, db, mem, tick, crossed>>

(* The fetched blocks predate the pricer model: the hole is marked. *)
FillUnsupported ==
    /\ fill.pc = "fetch" /\ "unsupported_model" \in Replays
    /\ \E hdrs \in FillBatches : hdrs[Start(fill.hole)].p = fill.hash
    /\ holes' = IF gen = fill.gen THEN MarkHoles(holes, [n \in {fill.hole.from} |-> "unsupported_model"])
              ELSE holes
    /\ fill' = Idle
    /\ UNCHANGED <<env, faults, rows, gen, live, folded, mem, tick, crossed>>

(* commitFill: rows and progress in one transaction.  Without a live start *)
(* there is no bucket boundary and the batch is only folded.               *)
FillTx ==
    LET h == fill.hole
        e == Max(DOMAIN fill.rows)
    IN  /\ rows' = UpsertBlocks(UpsertBlocks(rows, IF mem.live = 0 THEN NoRows ELSE fill.rows), fill.tail)
        /\ holes' = AdvanceHole(holes, [h EXCEPT !.next = fill.next, !.st = fill.rows[e].v,
                                                 !.life = "pending"])
        /\ folded' = IF mem.live = 0 THEN folded \cup DOMAIN fill.rows ELSE folded
        /\ UNCHANGED <<gen, live>>

(* Mutant: the generation is not compared. *)
FillCommitAnyway ==
    /\ fill.pc = "commit"
    /\ FillTx
    /\ fill' = Idle
    /\ UNCHANGED <<env, faults, mem, tick, crossed>>

FillCommit ==
    /\ fill.pc = "commit"
    /\ IF gen = fill.gen THEN FillTx ELSE UNCHANGED db    \* errStaleGeneration
    /\ fill' = Idle
    /\ UNCHANGED <<env, faults, mem, tick, crossed>>

(* A failed attempt: the node lacks the headers or they do not link, a     *)
(* call fails, a commit fails or its answer is lost.                       *)
FillFails ==
    /\ \/ /\ fill.pc = "fetch"
          /\ FillBatches = {} \/ \E hdrs \in FillBatches : ~ Links(hdrs, fill.hole)
          /\ UNCHANGED <<faults, db>>
       \/ fill.pc = "fetch" /\ Fault /\ UNCHANGED db
       \/ fill.pc = "commit" /\ Fault /\ UNCHANGED db
       \/ fill.pc = "commit" /\ Fault /\ gen = fill.gen /\ FillTx
    /\ fill' = [pc |-> "failed", hole |-> fill.hole]
    /\ UNCHANGED <<env, mem, tick, crossed>>

(* recoveryMustWait: the fast loop is rewinding or behind, and takes all   *)
(* but one of every maxRecoveryDeferrals turns.                            *)
FillDefer ==
    /\ fill.pc = "fetch"
    /\ fill' = Idle
    /\ UNCHANGED <<env, faults, db, mem, tick, crossed>>

(* The transaction of the marks or of the retry lifecycle fails, or the    *)
(* answer to it is lost: the step ends there.                              *)
FillGivesUp ==
    /\ Fault
    /\ \/ fill.pc = "mark" /\ holes' \in {holes, MarkHoles(holes, fill.marks)}
       \/ fill.pc = "failed" /\ UNCHANGED holes
    /\ fill' = Idle
    /\ UNCHANGED <<env, rows, gen, live, folded, mem, tick, crossed>>

(* recordFillFailure: the durable retry lifecycle. *)
FillRetry ==
    /\ fill.pc = "failed"
    /\ holes' = RecordFillFailure(holes, fill.hole)
    /\ fill' = Idle
    /\ UNCHANGED <<env, faults, rows, gen, live, folded, mem, tick, crossed>>

-----------------------------------------------------------------------------
(* The process stops anywhere and starts again: ensureInit. *)
Crash ==
    /\ mem.up /\ Fault
    /\ mem' = Down /\ tick' = Idle /\ fill' = Idle
    /\ UNCHANGED <<env, db, crossed>>

EnsureInit ==
    /\ ~ mem.up
    /\ live' = IF live = 0 THEN OldestBlock(rows) ELSE live
    /\ mem' = ReloadHead([Down EXCEPT !.up = TRUE, !.live = live'], rows)
    /\ UNCHANGED <<env, faults, rows, holes, gen, folded, tick, fill, crossed>>

-----------------------------------------------------------------------------
Init ==
    /\ chain = [n \in 1 .. SeedTip |-> [v |-> 0, p |-> 0]]
    /\ forks = 0 /\ faults = 0
    /\ rows = NoRows /\ holes = {} /\ gen = 0 /\ live = 0 /\ folded = {}
    /\ mem = Down /\ tick = Idle /\ fill = Idle /\ crossed = FALSE

FastLoop == TickSample \/ FetchHeaders \/ FailoverSkip \/ HeadersFetched \/ AncestorHeader
            \/ AncestorNoRow \/ Rewind \/ RewindReload \/ Persist \/ Publish
Filler == FillStep \/ FillMark \/ FillFetch \/ FillUnsupported \/ FillCommit \/ FillRetry

Next ==
    \/ Mint \/ Reorg
    \/ FastLoop \/ TickFails \/ AnswerLost
    \/ Filler \/ FillDefer \/ FillFails \/ FillGivesUp
    \/ Crash \/ EnsureInit

Spec == Init /\ [][Next]_vars

(* Every loop of the process keeps running (runPolling, runOnHeads,        *)
(* runHistory), a fill that can go on is not put off for ever              *)
(* (deferredWait), and the chain produces blocks up to the bound.          *)
Fairness ==
    /\ WF_vars(Mint)
    /\ WF_vars(EnsureInit)
    /\ WF_vars(FastLoop \/ (TickRefused /\ TickFails))
    /\ WF_vars(FillPick({}, {}) \/ FillMark \/ FillCommit \/ FillRetry)
    /\ SF_vars(FillFetch)

FairSpec == Spec /\ Fairness

-----------------------------------------------------------------------------
TypeOK ==
    /\ chain \in Seq(Block) /\ Len(chain) \in Height
    /\ forks \in Hash /\ faults \in 0 .. MaxFaults
    /\ rows \in Table /\ holes \in SUBSET NonEmpty(Hole) /\ gen \in Nat /\ live \in 0 .. MaxHeight
    /\ folded \in SUBSET Height
    /\ mem \in Memory
    /\ tick \in Tick /\ fill \in Fill
    /\ crossed \in BOOLEAN

(* No block is lost between the oldest and the newest stored one: whatever *)
(* the catch-up budget, a replay that breaks off, a reorg, a crash or a    *)
(* lost answer made the fast loop jump over is a recorded missing range,   *)
(* or was recovered (catchUp and process with persist and recordHole,      *)
(* rewindToAncestor, advanceHole).                                         *)
NothingLost ==
    DOMAIN rows # {} =>
        \A n \in OldestBlock(rows) .. LatestBlock(rows) :
            n \in DOMAIN rows \cup Owed(holes) \cup folded

(* The stored blocks form one chain wherever they are adjacent, although   *)
(* two loops write them and each fetched its headers before it took the    *)
(* chain lock (verifyChain, the parent check of tickWith, fillBatch and    *)
(* holeTail, withGeneration).  It holds until a reorg reaches a hole or is *)
(* deeper than the rows findAncestor reads.                                *)
RowsLink == \A n \in DOMAIN rows : n + 1 \in DOMAIN rows => rows[n + 1].p = rows[n].v
Linked == ~ crossed => RowsLink

(* What memory calls the head is the newest stored block, with its hash,   *)
(* through failed commits, lost answers and rewinds (publish, fail,        *)
(* reloadHeadLocked); the filler never writes above it.                    *)
HeadStored ==
    ~ crossed /\ mem.up /\ tick.pc \notin {"publish", "reload"} =>
        /\ mem.head = LatestBlock(rows)
        /\ mem.head # 0 => rows[mem.head].v = mem.hash

(* A stored block is replaced or removed only by a rewind, which bumps the *)
(* generation every other writer compares (bumpGeneration).                *)
RowsStable ==
    [][~ crossed' /\ gen' = gen =>
         \A n \in DOMAIN rows : n \in DOMAIN rows' /\ rows'[n] = rows[n]]_vars

(* A height stays owed until it is recovered: no merge, mark, retry,       *)
(* advance or rewind of the missing ranges drops one (normalizeHoles,      *)
(* advanceHole, rewindHoles).                                              *)
OwedUntilRecovered ==
    [][\A n \in Owed(holes) : n \in Owed(holes') \cup DOMAIN rows' \cup folded']_vars

(* Whatever is skipped, fails or crashes on the way, the follower ends at  *)
(* the chain's head with every gap filled (runHistory, recordFillFailure). *)
Recovers == <>[](mem.head = Len(chain) /\ holes = {})

(* After the reorgs stop every stored block is on the canonical chain and  *)
(* the head is reached (tickWith, headBehind, findAncestor).               *)
OnChain == \A n \in DOMAIN rows : n <= Len(chain) /\ rows[n].v = chain[n].v
Converges == <>[](mem.head = Len(chain) /\ OnChain)

(* tick.go, findAncestor: "A height without any row is the ancestor:       *)
(* nothing below it can be off-chain."                                     *)
AncestorOnChain ==
    tick.pc = "rewind" =>
        \A n \in DOMAIN rows : n <= tick.ancestor => n <= Len(chain) /\ rows[n].v = chain[n].v

(* missing_ranges has PRIMARY KEY (chain_id, from_block): no tick may      *)
(* record a hole that starts where another one does.                       *)
RangesKeyed ==
    tick.pc = "persist" /\ tick.hole # {} =>
        UniqueStarts(RecordHole(holes, CHOOSE h \in tick.hole : TRUE))

(* db.go: "StateLiveStart records the first block the live loop stored".   *)
(* With no reorg every other stored block is above it.                     *)
LiveStartFirst == live # 0 => live = OldestBlock(rows)
=============================================================================
