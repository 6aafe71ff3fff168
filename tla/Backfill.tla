------------------------------ MODULE Backfill ------------------------------
(***************************************************************************)
(* The backfill of one chain (internal/collector/backfill.go): it walks    *)
(* down from the first live block to the configured depth in runs bounded  *)
(* by constraint sets and archive windows, replays each run upwards in     *)
(* batches, and adds the blocks to the buckets.  A bucket from the hour of *)
(* the first live block on is recomputed from block rows; an older one is  *)
(* only ever added to.  Meanwhile the fast loop stores new blocks and      *)
(* rewinds, the owner scan completes and extends its origin, and the       *)
(* process restarts with another depth or a raised history epoch.          *)
(*                                                                         *)
(* A block is its height and its hash, the number of the reorg it was      *)
(* produced after; its timestamp is its height.                            *)
(***************************************************************************)
EXTENDS Integers, FiniteSets, FiniteSetsExt, Functions

CONSTANTS
  MaxHeight,    \* bound: the highest block
  SeedTip,      \* the chain's height when the collector first starts
  Hour,         \* boundaryWidth, in blocks
  Sets,         \* effective blocks of the recorded constraint sets
  Origins,      \* blocks the owner scan's origin may lie at, 0 when it is not truncated
  LegacyOrigin, \* the origin carries a sampled legacy state
  OldModel,     \* blocks below this height ran an older pricer
  ArchiveWindow,\* cfg.BackfillWindow, 0 without an archive endpoint
  Batch,        \* header batch
  Depths,       \* the depths the operator may configure
  Forks,        \* blocks a reorg may keep
  OldCursors,   \* cursors the database may hold at the first start
  MaxReorgs, MaxRestarts, MaxEpochs, MaxFaults   \* bounds

Genesis == -1
Hold == -2
NoHash == -1
Heights == 0..MaxHeight
Hashes == 0..MaxReorgs

BackfillAssumption ==
  /\ MaxHeight \in Nat /\ SeedTip \in 1..MaxHeight
  /\ Hour \in Nat \ {0} /\ Batch \in Nat \ {0}
  /\ Depths \subseteq Nat \cup {Genesis, Hold}
  /\ Origins \subseteq Nat /\ Sets \subseteq Nat /\ Forks \subseteq Nat

VARIABLES
  tip, ver,    \* external: the node's head and the hash at every height
  rows,        \* db: blocks, height -> hash and parent hash
  count,       \* db: how often the buckets count a block, height -> hash -> times
  holes,       \* db: heights the backfill recorded as missing
  cursor,      \* db: backfill_cursor
  gen,         \* db: generation
  live,        \* live_start, 0 when absent
  through,     \* owner_scan_through
  origin,      \* owner_scan_origin, 0 when absent
  depth,       \* cfg.BackfillDepth
  resolved,    \* f.depthResolved
  checked,     \* f.cursorChecked
  step,        \* the backfill step in flight
  spent        \* reorgs, restarts, epochs and faults so far

env == <<tip, ver>>
scan == <<through, origin>>
process == <<depth, resolved, checked>>
vars == <<tip, ver, rows, count, holes, cursor, gen, live, through, origin,
          depth, resolved, checked, step, spent>>

Idle == [pc |-> "idle"]
Least(a, b) == IF a < b THEN a ELSE b
Most(a, b) == IF a > b THEN a ELSE b
Head == IF DOMAIN rows = {} THEN 0 ELSE Max(DOMAIN rows)
OldestBlock == Min(DOMAIN rows)

FreshCursor(target) ==
  [done |-> FALSE, start |-> 0, target |-> target, top |-> 0, active |-> FALSE,
   verified |-> FALSE, seg |-> 0, next |-> 0, skip |-> FALSE, end |-> 0,
   endParent |-> NoHash, runParent |-> NoHash, prev |-> NoHash, set |-> 0]

(* Above every height when no live start is known: nothing is row-backed. *)
NoBoundary == MaxHeight + 1
Boundary == IF live = 0 THEN NoBoundary ELSE live - (live % Hour)

-----------------------------------------------------------------------------
(* Buckets. *)
RebuildBuckets(cnt, table, hs) ==
  [h \in Heights |->
     IF \E k \in hs : k \div Hour = h \div Hour
     THEN [v \in Hashes |-> IF h \in DOMAIN table /\ table[h].v = v THEN 1 ELSE 0]
     ELSE cnt[h]]
FoldBuckets(cnt, hs, at) ==
  [h \in Heights |-> IF h \in hs THEN [cnt[h] EXCEPT ![at[h]] = @ + 1] ELSE cnt[h]]

DeleteBucketsBefore(cnt, b) ==
  [h \in Heights |-> IF b # NoBoundary /\ h < b THEN [v \in Hashes |-> 0] ELSE cnt[h]]

BlockAt(h) == [v |-> ver[h], p |-> ver[h - 1]]
Upsert(table, hs) ==
  [h \in DOMAIN table \cup hs |-> IF h \in hs THEN BlockAt(h) ELSE table[h]]

-----------------------------------------------------------------------------
(* The chain and the fast loop. *)
Mint == /\ tip < MaxHeight
        /\ tip' = tip + 1
        /\ UNCHANGED <<ver, rows, count, holes, cursor, gen, live, scan, process, step, spent>>

(* The node drops the blocks above k; every stored height above it has a row. *)
Reorg(k) ==
  /\ spent.reorgs < MaxReorgs /\ k < tip
  /\ k..Head \subseteq DOMAIN rows /\ k <= Head /\ rows[k].v = ver[k]
  /\ spent' = [spent EXCEPT !.reorgs = @ + 1]
  /\ ver' = [h \in Heights |-> IF h > k THEN spent.reorgs + 1 ELSE ver[h]]
  /\ UNCHANGED <<tip, rows, count, holes, cursor, gen, live, scan, process, step>>

Settled == Head > 0 => rows[Head].v = ver[Head]

(* A tick: the blocks up to the head, or the head alone when none is stored.*)
(* Without a live start the sampled head becomes it.                       *)
Follow ==
  /\ Settled /\ Head < tip
  /\ LET new == IF Head = 0 THEN {tip} ELSE Head + 1..tip
     IN /\ rows' = Upsert(rows, new)
        /\ count' = RebuildBuckets(count, rows', new)
        /\ live' = IF live = 0 THEN tip ELSE live
  /\ UNCHANGED <<env, holes, cursor, gen, scan, process, step, spent>>

(* The highest stored block the node still reports. *)
Ancestor == Max({n \in 0..Head : n = 0 \/ n \notin DOMAIN rows \/ rows[n].v = ver[n]})

ResetTarget(c) ==
  IF depth # Hold \/ c.end = 0 THEN (IF c.target # 0 THEN c.target ELSE c.start) ELSE c.end

RewindBackfill(a) == cursor.top # 0 /\ cursor.top - 1 > a

Rewind ==
  /\ ~Settled
  /\ LET a == Ancestor
         gone == {h \in DOMAIN rows : h > a}
         reset == RewindBackfill(a)
         scanLost == origin > a
     IN /\ gen' = gen + 1
        /\ rows' = Restrict(rows, DOMAIN rows \ gone)
        /\ count' = LET left == RebuildBuckets(count, rows', gone)
                    IN IF reset THEN DeleteBucketsBefore(left, Boundary) ELSE left
        /\ cursor' = IF reset THEN FreshCursor(ResetTarget(cursor)) ELSE cursor
        /\ live' = IF live > a THEN 0 ELSE live
        /\ origin' = IF scanLost THEN 0 ELSE origin
        /\ through' = IF scanLost THEN 0 ELSE Least(through, a)
  /\ UNCHANGED <<env, holes, process, step, spent>>

-----------------------------------------------------------------------------
(* The owner scan, as far as the backfill waits for it. *)
Scan ==
  /\ Head > 0 /\ through < Head
  /\ through' = Head
  /\ IF through = 0 THEN \E o \in Origins : o < Head /\ origin' = o ELSE UNCHANGED origin
  /\ UNCHANGED <<env, rows, count, holes, cursor, gen, live, process, step, spent>>

ExtendScanOrigin ==
  /\ depth # Hold /\ origin > 0
  /\ \E o \in Origins : o < origin /\ origin' = o
  /\ UNCHANGED <<env, rows, count, holes, cursor, gen, live, through, process, step, spent>>

HistoryReady == through > 0 /\ live # 0 /\ through + 1 >= live

-----------------------------------------------------------------------------
(* One step of the backfill. *)
Begin ==
  /\ step.pc = "idle"
  /\ step' = [pc |-> "check", gen |-> gen, c |-> cursor]
  /\ UNCHANGED <<env, rows, count, holes, cursor, gen, live, scan, process, spent>>

(* Plausible error: the generation is not compared at the commit. *)
AlwaysCurrent == TRUE

Current == step.gen = gen
Db == <<rows, count, holes, cursor>>
SaveCursor(c) == cursor' = c /\ UNCHANGED <<rows, count, holes>>

(* An unverified segment of an older collector is discarded, once. *)
Unverified(c) == c.active /\ c.set = 0 /\ ~c.verified

CheckCursor ==
  LET fresh == FreshCursor(ResetTarget(step.c))
      discard == ~checked /\ Unverified(step.c)
  IN /\ step.pc = "check"
     /\ IF discard /\ ~Current
        THEN step' = Idle /\ UNCHANGED <<Db, checked>>
        ELSE /\ checked' = TRUE
             /\ IF discard
                THEN /\ step' = [step EXCEPT !.pc = "depth", !.c = fresh]
                     /\ count' = DeleteBucketsBefore(count, Boundary)
                     /\ cursor' = fresh
                     /\ UNCHANGED <<rows, holes>>
                ELSE step' = [step EXCEPT !.pc = "depth"] /\ UNCHANGED Db
     /\ UNCHANGED <<env, gen, live, scan, depth, resolved, spent>>

CursorFloor(c) == IF c.active /\ c.seg > 0 THEN c.seg ELSE c.end
RecordedTarget(c) == IF c.target # 0 THEN c.target ELSE c.start
DepthCutoff == IF depth = Genesis THEN 0 ELSE Most(Head - depth, 0)

HeldFloor(c) ==
  CASE CursorFloor(c) > 0 -> CursorFloor(c)
    [] CursorFloor(c) = 0 /\ RecordedTarget(c) > 0 -> 0
    [] OTHER -> live

(* Plausible error: a shorter window raises the floor already reached. *)
FollowDepthTarget(c) ==
  IF depth = Hold THEN Most(HeldFloor(c), RecordedTarget(c)) ELSE Most(DepthCutoff, 1)

ResolveDepthTarget(c) ==
  LET t == RecordedTarget(c)
      want == Most(DepthCutoff, 1)
  IN IF depth = Hold THEN Most(HeldFloor(c), t)
     ELSE IF t = 0 THEN want ELSE Least(want, t)

Reopens(c, floor) == c.done /\ c.end > floor

ResolveDepth ==
  LET c == step.c
      resolve == ~resolved \/ c.target = 0 \/ CursorFloor(c) = 0
      target == IF resolve THEN ResolveDepthTarget(c) ELSE c.target
      floor == Most(Most(target, 1), IF origin = 0 THEN 0 ELSE origin + 1)
      d == [c EXCEPT !.target = target, !.start = floor,
                     !.done = @ /\ ~Reopens(c, floor)]
      after(e) == IF e.done THEN Idle
                  ELSE [step EXCEPT !.pc = IF e.active THEN "fetch" ELSE "segment", !.c = e]
  IN /\ step.pc = "depth"
     /\ IF ~HistoryReady
        THEN step' = after(c) /\ UNCHANGED <<Db, resolved>>
        ELSE IF d # c /\ ~Current
        THEN step' = Idle /\ UNCHANGED <<Db, resolved>>
        ELSE /\ SaveCursor(IF d # c THEN d ELSE cursor)
             /\ resolved' = (resolved \/ resolve)
             /\ step' = after(d)
     /\ UNCHANGED <<env, gen, live, scan, depth, checked, spent>>

(* Everything left down to the floor becomes one recorded range. *)
StopWithHole(c) ==
  IF Current
  THEN /\ holes' = holes \cup (c.start..c.end - 1)
       /\ cursor' = [c EXCEPT !.done = TRUE, !.active = FALSE, !.end = c.start,
                              !.endParent = NoHash, !.runParent = NoHash]
       /\ UNCHANGED <<rows, count>>
  ELSE UNCHANGED Db

(* The run that starts at c.seg, moved up to a window the archive can seed, *)
(* if the model sampled there is alike, of the shape of the segment's set.  *)
SeedWindow(c, alike) ==
  LET first == IF c.end - c.start > ArchiveWindow THEN c.end - ArchiveWindow ELSE c.start
  IN IF ArchiveWindow = 0 \/ first < c.seg + 2 \/ ~alike THEN c
     ELSE [c EXCEPT !.seg = first, !.next = first - 1, !.skip = TRUE, !.prev = ver[first - 2]]

StartSegment == \E alike \in BOOLEAN :
  LET c == IF step.c.end # 0 \/ Head = 0 THEN step.c
           ELSE [step.c EXCEPT !.end = OldestBlock, !.top = OldestBlock,
                               !.endParent = rows[OldestBlock].p]
      below == {s \in Sets : s < c.end}
      legacy == LegacyOrigin /\ origin > 0 /\ c.end > origin + 1
      run(seg, set) == SeedWindow([c EXCEPT !.active = TRUE, !.verified = TRUE, !.seg = seg, !.next = seg,
                                            !.prev = NoHash, !.skip = FALSE, !.set = set], alike)
      started == IF below # {} THEN run(Most(Max(below), 1), Max(below)) ELSE run(origin + 1, 0)
  IN /\ step.pc = "segment"
     /\ CASE ~HistoryReady \/ c.end = 0 -> step' = Idle /\ UNCHANGED Db
          [] HistoryReady /\ c.end # 0 /\ c.end <= c.start ->
               /\ step' = Idle
               /\ IF Current THEN SaveCursor([c EXCEPT !.done = TRUE]) ELSE UNCHANGED Db
          [] HistoryReady /\ c.end > c.start /\ (below # {} \/ legacy) ->
               IF Current THEN SaveCursor(started) /\ step' = [step EXCEPT !.pc = "fetch", !.c = started]
                          ELSE step' = Idle /\ UNCHANGED Db
          [] HistoryReady /\ c.end > c.start /\ below = {} /\ ~legacy ->
               step' = Idle /\ StopWithHole(c)
     /\ UNCHANGED <<env, gen, live, scan, process, spent>>

(* The batch builds on the one before it and ends under the block above. *)
Links(c, hs) ==
  /\ c.prev = NoHash \/ c.prev = ver[c.next - 1]
  /\ (Max(hs) + 1 = c.end /\ c.endParent # NoHash) => ver[Max(hs)] = c.endParent

(* Headers, anchors and the boundary are read before the commit. *)
Fetch ==
  LET c == step.c
      hs == c.next..c.next + Least(Batch, c.end - c.next) - 1
      bad == c.next < OldModel
      run == [c EXCEPT !.runParent = IF c.seg \in hs THEN ver[c.seg - 1] ELSE @]
  IN /\ step.pc = "fetch"
     /\ CASE ~Links(c, hs) -> step' = Idle /\ UNCHANGED Db
          [] Links(c, hs) /\ bad -> step' = Idle /\ StopWithHole(c)
          [] Links(c, hs) /\ ~bad ->
               /\ step' = [pc |-> "commit", gen |-> step.gen, c |-> run, boundary |-> Boundary,
                           at |-> [h \in hs |-> BlockAt(h)]]
               /\ UNCHANGED Db
     /\ UNCHANGED <<env, gen, live, scan, process, spent>>

WritesAll(c, hs) == IF c.skip THEN hs \ {Min(hs)} ELSE hs

(* Plausible error: the next run starts where this batch ended. *)
AdvanceToNext(c, hs) ==
  LET next == Max(hs) + 1
  IN [c EXCEPT !.next = next, !.skip = FALSE, !.prev = step.at[Max(hs)].v, !.active = FALSE,
               !.end = c.seg, !.endParent = c.runParent, !.runParent = NoHash]

Advance(c, hs) ==
  LET next == Max(hs) + 1
      moved == [c EXCEPT !.next = next, !.skip = FALSE, !.prev = step.at[Max(hs)].v]
  IN IF next < c.end THEN moved
     ELSE [moved EXCEPT !.active = FALSE, !.end = c.seg, !.endParent = c.runParent,
                        !.runParent = NoHash]

Commit ==
  LET hs == DOMAIN step.at
      written == WritesAll(step.c, hs)
      backed == {h \in written : h >= step.boundary}
      table == [h \in DOMAIN rows \cup backed |-> IF h \in backed THEN step.at[h] ELSE rows[h]]
  IN /\ step.pc = "commit"
     /\ step' = Idle
     /\ IF Current
        THEN /\ rows' = table
             /\ count' = FoldBuckets(RebuildBuckets(count, table, backed), written \ backed,
                                     [h \in hs |-> step.at[h].v])
             /\ cursor' = Advance(step.c, hs)
             /\ UNCHANGED holes
        ELSE UNCHANGED Db
     /\ UNCHANGED <<env, gen, live, scan, process, spent>>

(* A failing call ends the step, which starts over from the stored cursor. *)
StepFails ==
  /\ step.pc # "idle" /\ spent.faults < MaxFaults
  /\ spent' = [spent EXCEPT !.faults = @ + 1]
  /\ step' = Idle
  /\ UNCHANGED <<env, rows, count, holes, cursor, gen, live, scan, process>>

-----------------------------------------------------------------------------
(* The process restarts, with another depth or a raised history epoch. *)
LoadLiveStart == IF live # 0 \/ Head = 0 THEN live ELSE OldestBlock

EpochDeletes(cnt) ==
  LET b == IF LoadLiveStart = 0 THEN NoBoundary ELSE LoadLiveStart - (LoadLiveStart % Hour)
  IN DeleteBucketsBefore(cnt, b)

Restart(d, raise) ==
  /\ spent.restarts < MaxRestarts /\ (raise => spent.epochs < MaxEpochs)
  /\ spent' = [spent EXCEPT !.restarts = @ + 1, !.epochs = IF raise THEN @ + 1 ELSE @]
  /\ depth' = d /\ resolved' = FALSE /\ checked' = FALSE
  /\ step' = Idle
  /\ live' = LoadLiveStart
  /\ IF raise
     THEN /\ gen' = gen + 1
          /\ count' = EpochDeletes(count)
          /\ cursor' = FreshCursor(0)
          /\ through' = 0 /\ origin' = 0
          /\ UNCHANGED <<rows, holes>>
     ELSE UNCHANGED <<gen, Db, scan>>
  /\ UNCHANGED env

Init ==
  /\ tip = SeedTip /\ ver = [h \in Heights |-> 0]
  /\ rows = [h \in {SeedTip} |-> [v |-> 0, p |-> 0]]
  /\ cursor \in OldCursors
  /\ count = [h \in Heights |-> [v \in Hashes |->
       IF v = 0 /\ (h = SeedTip \/ (cursor.active /\ h \in cursor.seg..cursor.next - 1))
       THEN 1 ELSE 0]]
  /\ holes = {} /\ gen = 0
  /\ live = SeedTip /\ through = 0 /\ origin = 0
  /\ depth \in Depths /\ resolved = FALSE /\ checked = FALSE
  /\ step = Idle
  /\ spent = [reorgs |-> 0, restarts |-> 0, epochs |-> 0, faults |-> 0]

Backfilling == Begin \/ CheckCursor \/ ResolveDepth \/ StartSegment \/ Fetch \/ Commit

Next ==
  \/ Mint \/ Follow \/ Rewind
  \/ \E k \in Forks : Reorg(k)
  \/ Scan \/ ExtendScanOrigin
  \/ Backfilling \/ StepFails
  \/ \E d \in Depths, raise \in BOOLEAN : Restart(d, raise)

Spec == Init /\ [][Next]_vars
FairSpec == Spec /\ WF_vars(Backfilling) /\ WF_vars(Scan) /\ WF_vars(Follow) /\ WF_vars(Rewind)

-----------------------------------------------------------------------------
TypeOK ==
  /\ tip \in 1..MaxHeight /\ DOMAIN rows \subseteq 1..MaxHeight
  /\ cursor.end \in 0..MaxHeight /\ cursor.next \in 0..MaxHeight
  /\ (cursor.active => cursor.seg \in 1..cursor.end - 1 /\ cursor.next < cursor.end)
  /\ live \in Heights /\ through \in Heights /\ origin \in Heights
  /\ step.pc \in {"idle", "check", "depth", "segment", "fetch", "commit"}

Times(h) == SumFunction(count[h])
CountedOn(h) == count[h][ver[h]] = 1 /\ Times(h) = 1

(* The buckets never count a block twice, and once the fast loop has       *)
(* caught up with a reorg they count nothing of a dead fork: the walk,     *)
(* its restarts and the rows shared with the live loop never overlap.      *)
CountedOnce ==
  \A h \in Heights : (Settled => count[h][ver[h]] = Times(h)) /\ count[h][ver[h]] <= 1

(* What the cursor claims is there: from the end of the walk up to the     *)
(* head, and in the part of a run already replayed, every block is counted *)
(* or in a recorded range.                                                 *)
NothingMissed ==
  Settled =>
    /\ cursor.end > 0 => \A h \in cursor.end..Head : CountedOn(h) \/ h \in holes
    /\ cursor.active => \A h \in cursor.seg..cursor.next - 1 : CountedOn(h) \/ h \in holes

(* A finished backfill has reached its floor. *)
DoneReaches == cursor.done => cursor.end > 0 /\ cursor.end <= Most(cursor.start, 1)

(* A floor once asked for is never given back: only a held depth raises    *)
(* the target, and only a raised history epoch forgets it.                 *)
FloorStep ==
  cursor.target # 0 /\ (cursor'.target = 0 \/ cursor'.target > cursor.target)
    => depth = Hold \/ spent'.epochs > spent.epochs
FloorKept == [][FloorStep]_vars

(* The backfill ends, and at the floor the configuration asks for: with    *)
(* the depth set to genesis it ends with nothing left above the origin.    *)
Ended == cursor.done /\ (depth = Genesis => cursor.end <= origin + 1)
BackfillEnds == <>[]Ended
=============================================================================
