----------------------------- MODULE OwnerScan -----------------------------
(***************************************************************************)
(* The owner action scan of one chain (internal/collector/slow.go): a pass *)
(* of the slow loop reads the OwnerActs logs above its cursor in chunks,   *)
(* each committed under the generation the pass began with, yields to a    *)
(* busy fast loop, and records that the timeline is complete when it has   *)
(* reached its head.  A chain too long to scan from the genesis starts at  *)
(* an origin, where the pricing state is sampled; a deeper configured      *)
(* depth lowers the origin.                                                *)
(*                                                                         *)
(* Meanwhile the node reorganises, the fast loop stores the actions of new *)
(* blocks and rewinds, in a transaction and then in memory, and the        *)
(* process restarts.  A block is its height and its fork; its timestamp is *)
(* its height.                                                             *)
(***************************************************************************)
EXTENDS Integers, FiniteSets, FiniteSetsExt

CONSTANTS
  MaxHeight, SeedTip,     \* bound: the highest block; the node's head at the first start
  Acting,                 \* heights with an owner action
  Chunk,                  \* ownerLogChunk
  Margin,                 \* originMargin
  Depths,                 \* configured depths
  MaxRecoveryDeferrals,   \* turns a busy fast loop may take, plus one
  Archive, LegacyChain,   \* an archive endpoint serves state; the chain has no constraints
  Forks,                  \* blocks a reorg may keep
  Overlap,                \* one loop may step between the other's commit and its publication
  MaxReorgs, MaxRestarts, MaxEpochs, MaxFaults  \* bounds

Genesis == -1
Hold == -2
Heights == 0..MaxHeight
FirstOriginBlock == 1

OwnerScanAssumption ==
  /\ MaxHeight \in Nat /\ SeedTip \in 1..MaxHeight /\ Acting \subseteq Heights
  /\ Chunk \in Nat \ {0} /\ Margin \in Nat /\ MaxRecoveryDeferrals \in Nat \ {0}
  /\ Depths \subseteq Nat \cup {Genesis, Hold} /\ Forks \subseteq Heights
  /\ {Archive, LegacyChain, Overlap} \subseteq BOOLEAN
  /\ {MaxReorgs, MaxRestarts, MaxEpochs, MaxFaults} \subseteq Nat

VARIABLES
  tip, ver,     \* external: the node's head and the fork of every height
  rows,         \* db: the fork of every stored block
  actions,      \* db: owner_actions, <<height, fork>>
  sets,         \* db: heights of the observed sets recorded for an origin
  missing,      \* db: heights reported missing for want of a state
  ckpt,         \* db: owner_log_cursor, owner_scan_through, owner_scan_origin, generation
  mem,          \* f.head, f.scanOrigin, f.ownerScanThrough, f.scanExtended, the caches
  pub,          \* a committed rewind that memory does not show yet
  pass,         \* the slow loop's pass in flight
  depth,        \* cfg.BackfillDepth
  deferrals,    \* f.ownerScanDeferrals
  spent         \* reorgs, restarts, epochs and faults so far

node == <<tip, ver>>
db == <<rows, actions, sets, missing, ckpt>>
vars == <<tip, ver, rows, actions, sets, missing, ckpt, mem, pub, pass, depth, deferrals, spent>>

Absent == -1
NoOrigin == [block |-> 0, fork |-> 0, archive |-> FALSE]
NoRewind == [ancestor |-> Absent, reset |-> FALSE]
Idle == [pc |-> "idle"]
NoRows == [h \in {} |-> 0]
Greater(a, b) == IF a > b THEN a ELSE b
Lesser(a, b) == IF a < b THEN a ELSE b
Head == Max({0} \cup DOMAIN rows)
Logs(from, to) == {<<h, ver[h]>> : h \in Acting \cap (from..Lesser(to, tip))}
Through(as, k) == {a \in as : a[1] <= k}

-----------------------------------------------------------------------------
(* The node and the fast loop. *)
Mint == /\ tip < MaxHeight
        /\ tip' = tip + 1
        /\ UNCHANGED <<ver, db, mem, pub, pass, depth, deferrals, spent>>

(* One that no stored row shows is the fast loop's own question. *)
Reorg(k) ==
  /\ spent.reorgs < MaxReorgs /\ k < tip
  /\ DOMAIN rows # {} /\ k >= Min(DOMAIN rows) - 1 /\ k < Head
  /\ ver' = [h \in Heights |-> IF h > k THEN spent.reorgs + 1 ELSE ver[h]]
  /\ spent' = [spent EXCEPT !.reorgs = @ + 1]
  /\ UNCHANGED <<tip, db, mem, pub, pass, depth, deferrals>>

Settled == \A h \in DOMAIN rows : rows[h] = ver[h]

(* A tick stores the blocks up to the node's head with their actions; the  *)
(* first one, and one that knows no replay state, stores the head alone.   *)
Tick(known) ==
  /\ pub = NoRewind /\ Settled /\ Head < tip
  /\ known => Head > 0
  /\ ~known => Head = 0 \/ spent.faults < MaxFaults
  /\ LET new == IF known THEN Head + 1..tip ELSE {tip}
     IN /\ rows' = [h \in DOMAIN rows \cup new |-> ver[h]]
        /\ actions' = actions \cup (IF known THEN Logs(Head + 1, tip) ELSE {})
  /\ mem' = [mem EXCEPT !.head = tip, !.actions = IF known THEN actions' ELSE @]
  /\ spent' = IF known \/ Head = 0 THEN spent ELSE [spent EXCEPT !.faults = @ + 1]
  /\ UNCHANGED <<node, sets, missing, ckpt, pub, pass, depth, deferrals>>

RewindCursor(cursor, k) == IF cursor > k THEN k ELSE cursor

(* Plausible error: an origin above the ancestor is kept. *)
NeverResets(k) == FALSE

Resets(k) == ckpt.origin # NoOrigin /\ ckpt.origin.block > k
RewindOwnerScan(c, k) ==
  IF Resets(k)
  THEN [c EXCEPT !.origin = NoOrigin, !.cursor = Absent, !.through = 0]
  ELSE [c EXCEPT !.cursor = RewindCursor(@, k), !.through = RewindCursor(@, k)]

Rewind ==
  /\ pub = NoRewind /\ ~Settled /\ (Overlap \/ pass.pc \notin {"load", "publish"})
  /\ LET same == {h \in DOMAIN rows : rows[h] = ver[h]}
         k == IF same = {} THEN Min(DOMAIN rows) - 1 ELSE Max(same)
     IN /\ rows' = [h \in same |-> rows[h]]
        /\ actions' = Through(actions, k)
        /\ sets' = {h \in sets : h <= k}
        /\ ckpt' = [RewindOwnerScan(ckpt, k) EXCEPT !.gen = @ + 1]
        /\ pub' = [ancestor |-> k, reset |-> Resets(k)]
  /\ UNCHANGED <<node, missing, mem, pass, depth, deferrals, spent>>

OriginAfterRewind == IF pub.reset THEN NoOrigin ELSE mem.origin
(* Memory follows the commit. *)
PublishRewind ==
  /\ pub # NoRewind
  /\ mem' = [head |-> Head, actions |-> actions,
             origin |-> OriginAfterRewind,
             extended |-> mem.extended /\ ~pub.reset,
             through |-> IF pub.reset THEN 0 ELSE Lesser(mem.through, pub.ancestor)]
  /\ pub' = NoRewind
  /\ UNCHANGED <<node, db, pass, depth, deferrals, spent>>

-----------------------------------------------------------------------------
(* A pass. *)
Turn == Overlap \/ pub = NoRewind
Stop == pass' = Idle
(* Plausible error: the generation is not compared. *)
AlwaysCurrent == TRUE

Current == pass.gen = ckpt.gen

DepthCutoff(head) ==
  IF depth = Genesis THEN 0
  ELSE Greater(1, head - Margin - (IF depth = Hold THEN 0 ELSE depth))

ReadGeneration ==
  /\ pass.pc = "idle" /\ Turn
  /\ pass' = [pc |-> "read", gen |-> ckpt.gen]
  /\ UNCHANGED <<node, db, mem, pub, depth, deferrals, spent>>

CurrentHead == IF mem.head > 0 THEN mem.head ELSE tip
ReadCursor ==
  /\ pass.pc = "read" /\ Turn
  /\ pass' = [pc |-> "extend", gen |-> pass.gen, head |-> CurrentHead,
              cursor |-> ckpt.cursor, origin |-> mem.origin, extended |-> mem.extended]
  /\ UNCHANGED <<node, db, mem, pub, depth, deferrals, spent>>

(* The state at the cutoff is read from the archive; on a constraints      *)
(* chain a scan from the first block needs no origin.                      *)
WriteOrigin(cutoff, onlyLegacy, then, from) ==
  pass' = [pc |-> "origin", gen |-> pass.gen, head |-> pass.head, cursor |-> pass.cursor,
           then |-> then, from |-> from, read |-> actions,
           origin |-> IF onlyLegacy /\ ~LegacyChain THEN NoOrigin
                      ELSE [block |-> cutoff, fork |-> IF Archive THEN ver[cutoff] ELSE 0, archive |-> Archive]]

ToStart == pass' = [pc |-> "start", gen |-> pass.gen, head |-> pass.head, cursor |-> pass.cursor]
MarkScanExtended == mem' = [mem EXCEPT !.extended = TRUE]

(* Plausible error: the new origin is written before the actions are read. *)
OriginFirst(cutoff, target) == WriteOrigin(target, target = FirstOriginBlock, "extended", 0)

(* Actions below the old origin first, the new origin last. *)
ActionsFirst(cutoff, target) ==
  pass' = [pc |-> "floor", gen |-> pass.gen, head |-> pass.head, cursor |-> pass.cursor,
           origin |-> pass.origin, from |-> cutoff, target |-> target]
ExtendScanOrigin ==
  /\ pass.pc = "extend" /\ Turn
  /\ LET cutoff == DepthCutoff(pass.head)
         target == Greater(cutoff, FirstOriginBlock)
         settled == \/ depth = Hold
                    \/ pass.origin = NoOrigin /\ (target # FirstOriginBlock \/ ~Archive)
                    \/ pass.origin # NoOrigin /\ (target >= pass.origin.block \/ ~Archive)
     IN \/ pass.extended /\ ToStart /\ UNCHANGED mem
        \/ ~pass.extended /\ settled /\ ToStart /\ MarkScanExtended
        \/ /\ ~pass.extended /\ ~settled /\ pass.origin = NoOrigin
           /\ WriteOrigin(FirstOriginBlock, TRUE, "extended", 0)
           /\ UNCHANGED mem
        \/ /\ ~pass.extended /\ ~settled /\ pass.origin # NoOrigin
           /\ ActionsFirst(cutoff, target)
           /\ UNCHANGED mem
  /\ UNCHANGED <<node, db, pub, depth, deferrals, spent>>

(* Logs are read outside the transaction that stores them. *)
FetchOwnerActions(to) == Logs(pass.from, to)
FloorEnd == Lesser(pass.from + Chunk - 1, pass.origin.block)
FetchFloor ==
  /\ pass.pc = "floor" /\ Turn
  /\ \/ /\ pass.from <= pass.origin.block
        /\ pass' = [pc |-> "store floor", gen |-> pass.gen, head |-> pass.head, cursor |-> pass.cursor,
                    origin |-> pass.origin, from |-> pass.from, target |-> pass.target,
                    to |-> FloorEnd, logs |-> FetchOwnerActions(FloorEnd)]
     \/ pass.from > pass.origin.block /\ WriteOrigin(pass.target, pass.target = FirstOriginBlock, "extended", 0)
  /\ UNCHANGED <<node, db, mem, pub, depth, deferrals, spent>>
ScanOwnerFloor ==
  /\ pass.pc = "store floor" /\ Turn
  /\ IF Current
     THEN /\ actions' = actions \cup pass.logs
          /\ pass' = [pc |-> "floor", gen |-> pass.gen, head |-> pass.head, cursor |-> pass.cursor,
                      origin |-> pass.origin, from |-> pass.to + 1, target |-> pass.target]
     ELSE Stop /\ UNCHANGED actions
  /\ UNCHANGED <<node, rows, sets, missing, ckpt, mem, pub, depth, deferrals, spent>>

Known == mem.origin # NoOrigin

ToScan(from) == pass' = [pc |-> "scan", gen |-> pass.gen, head |-> pass.head, from |-> from, chunks |-> 0]
ScanStart ==
  /\ pass.pc = "start" /\ Turn
  /\ LET cutoff == DepthCutoff(pass.head)
     IN \/ pass.cursor # Absent /\ ToScan(pass.cursor + 1)
        \/ pass.cursor = Absent /\ cutoff <= 1 /\ (Known \/ ~Archive) /\ ToScan(0)
        \/ pass.cursor = Absent /\ cutoff <= 1 /\ ~Known /\ Archive /\ WriteOrigin(FirstOriginBlock, TRUE, "scan", 0)
        \/ pass.cursor = Absent /\ cutoff > 1 /\ Known /\ ToScan(cutoff)
        \/ pass.cursor = Absent /\ cutoff > 1 /\ ~Known /\ WriteOrigin(cutoff, FALSE, "scan", cutoff)
  /\ UNCHANGED <<node, db, mem, pub, depth, deferrals, spent>>

ReplayFrom(origin) == origin.block + 1
CommitOrigin ==
  /\ pass.pc = "origin" /\ Turn
  /\ IF ~Current THEN Stop /\ UNCHANGED <<sets, missing, ckpt>>
     ELSE /\ ckpt' = [ckpt EXCEPT !.origin = pass.origin]
          /\ sets' = sets \cup (IF pass.origin.archive /\ ~LegacyChain THEN {ReplayFrom(pass.origin)} ELSE {})
          /\ missing' = missing \cup (IF pass.origin # NoOrigin /\ ~Archive THEN 0..pass.origin.block - 1 ELSE {})
          /\ pass' = [pass EXCEPT !.pc = IF pass.origin = NoOrigin THEN "publish" ELSE "load"]
  /\ UNCHANGED <<node, rows, actions, mem, pub, depth, deferrals, spent>>
(* The caches are read before the lock that publishes them is taken; when  *)
(* an origin is cleared, before the commit.                                *)
LoadSets ==
  /\ pass.pc = "load" /\ Turn
  /\ pass' = [pass EXCEPT !.pc = "publish", !.read = actions]
  /\ UNCHANGED <<node, db, mem, pub, depth, deferrals, spent>>

ApplySets(read) == read
PublishOrigin ==
  /\ pass.pc = "publish" /\ Turn
  /\ mem' = [mem EXCEPT !.origin = pass.origin, !.actions = ApplySets(pass.read),
                        !.extended = @ \/ pass.then = "extended"]
  /\ IF pass.then = "extended" THEN ToStart ELSE ToScan(pass.from)
  /\ UNCHANGED <<node, db, pub, depth, deferrals, spent>>

(* Every chunk but the first gives way to a busy fast loop, and is counted. *)
Busy(next) == deferrals' = next
OwnerScanMustWait == pass.chunks > 0 /\ deferrals + 1 < MaxRecoveryDeferrals
Yield ==
  /\ pass.pc = "scan" /\ Turn /\ pass.from <= pass.head
  /\ OwnerScanMustWait /\ Busy(deferrals + 1) /\ Stop
  /\ UNCHANGED <<node, db, mem, pub, depth, spent>>
ChunkEnd == Lesser(pass.from + Chunk - 1, pass.head)
FetchChunk ==
  /\ pass.pc = "scan" /\ Turn /\ pass.from <= pass.head
  /\ pass' = [pc |-> "store chunk", gen |-> pass.gen, head |-> pass.head, from |-> pass.from,
              chunks |-> pass.chunks, to |-> ChunkEnd, logs |-> FetchOwnerActions(ChunkEnd)]
  /\ IF pass.chunks > 0 THEN Busy(0) ELSE UNCHANGED deferrals
  /\ UNCHANGED <<node, db, mem, pub, depth, spent>>

(* Plausible error: the cursor waits for the end of the pass. *)
LateCursor(to) == IF to = pass.head THEN to ELSE ckpt.cursor

Checkpoint(to) == to
(* The actions and the cursor in one transaction. *)
ScanOwnerRange ==
  /\ pass.pc = "store chunk" /\ Turn
  /\ IF Current
     THEN /\ actions' = actions \cup pass.logs
          /\ ckpt' = [ckpt EXCEPT !.cursor = Checkpoint(pass.to)]
          /\ pass' = [pc |-> "scan", gen |-> pass.gen, head |-> pass.head, from |-> pass.to + 1,
                      chunks |-> pass.chunks + 1]
     ELSE Stop /\ UNCHANGED <<actions, ckpt>>
  /\ UNCHANGED <<node, rows, sets, missing, mem, pub, depth, deferrals, spent>>

(* The caches, and the checkpoint that the timeline is complete. *)
Complete ==
  /\ pass.pc = "scan" /\ Turn /\ pass.from > pass.head
  /\ LET advances == pass.head > mem.through /\ Current
     IN /\ ckpt' = IF advances THEN [ckpt EXCEPT !.through = pass.head] ELSE ckpt
        /\ mem' = [mem EXCEPT !.actions = actions, !.through = IF advances THEN pass.head ELSE @]
  /\ Stop
  /\ UNCHANGED <<node, rows, actions, sets, missing, pub, depth, deferrals, spent>>

(* Any read of the node may fail, which ends the pass. *)
Fails ==
  /\ pass.pc \in {"read", "extend", "floor", "start", "scan"} /\ Turn
  /\ spent.faults < MaxFaults
  /\ spent' = [spent EXCEPT !.faults = @ + 1]
  /\ Stop
  /\ UNCHANGED <<node, db, mem, pub, depth, deferrals>>

-----------------------------------------------------------------------------

LoadScanState(cleared) == cleared
Restart(d, epoch) ==
  /\ spent.restarts < MaxRestarts
  /\ epoch => spent.epochs < MaxEpochs
  /\ spent' = [spent EXCEPT !.restarts = @ + 1, !.epochs = IF epoch THEN @ + 1 ELSE @]
  /\ depth' = d /\ pass' = Idle /\ pub' = NoRewind /\ deferrals' = 0
  /\ ckpt' = IF epoch THEN [cursor |-> Absent, through |-> 0, origin |-> NoOrigin, gen |-> ckpt.gen + 1]
             ELSE ckpt
  /\ mem' = [head |-> Head, actions |-> actions, extended |-> FALSE,
             origin |-> LoadScanState(ckpt').origin, through |-> LoadScanState(ckpt').through]
  /\ UNCHANGED <<node, rows, actions, sets, missing>>

Init ==
  /\ tip = SeedTip /\ ver = [h \in Heights |-> 0]
  /\ rows = NoRows /\ actions = {} /\ sets = {} /\ missing = {}
  /\ ckpt = [cursor |-> Absent, through |-> 0, origin |-> NoOrigin, gen |-> 0]
  /\ mem = [head |-> 0, actions |-> {}, origin |-> NoOrigin, through |-> 0, extended |-> FALSE]
  /\ pub = NoRewind /\ pass = Idle /\ depth \in Depths /\ deferrals = 0
  /\ spent = [reorgs |-> 0, restarts |-> 0, epochs |-> 0, faults |-> 0]

Slow == \/ ReadGeneration \/ ReadCursor \/ ExtendScanOrigin \/ FetchFloor \/ ScanOwnerFloor
        \/ ScanStart \/ CommitOrigin \/ LoadSets \/ PublishOrigin \/ Yield \/ FetchChunk \/ ScanOwnerRange
        \/ Complete
Fast == (\E known \in BOOLEAN : Tick(known)) \/ Rewind \/ PublishRewind
Next ==
  \/ Slow \/ Fast \/ Mint \/ Fails
  \/ \E k \in Forks : Reorg(k)
  \/ \E d \in Depths, epoch \in BOOLEAN : Restart(d, epoch)
Spec == Init /\ [][Next]_vars
(* Both loops run for as long as the process does. *)
FairSpec == Spec /\ WF_vars(Slow) /\ WF_vars(Fast)

-----------------------------------------------------------------------------
Canonical(h) == <<h, ver[h]>>
Quiet == pub = NoRewind /\ Settled

(* The checkpoints describe blocks that exist and caches hold recorded     *)
(* actions only, whatever was committed in which order.                    *)
TypeOK ==
  /\ ckpt.cursor \in {Absent} \cup Heights /\ ckpt.through \in Heights
  /\ ckpt.origin.block \in Heights /\ mem.origin.block \in Heights
  /\ actions \subseteq Heights \X (0..MaxReorgs) /\ missing \subseteq Heights
  /\ deferrals < MaxRecoveryDeferrals
  /\ ckpt.through <= Greater(ckpt.cursor, 0)

(* Complete: every block of a range the scan vouches for has its actions   *)
(* recorded, is covered by the state sampled at the origin, or is reported *)
(* missing.                                                                *)
Covers(as, origin, through) ==
  \A h \in 1..through :
    \/ h \in Acting => Canonical(h) \in as
    \/ origin # NoOrigin /\ h <= origin.block /\ (origin.archive \/ h \in missing \cup {origin.block})

(* owner_scan_through is "the block through which the owner-action         *)
(* timeline is complete": through crashes, rewinds, yields and failures.   *)
TimelineComplete == Quiet => Covers(actions, ckpt.origin, ckpt.through)

(* ...and what the history loop reads of it in memory is complete as well. *)
CacheComplete == Quiet => Covers(mem.actions, mem.origin, mem.through)

(* Both, for a scan from the genesis. The code does not keep them for one  *)
(* that is cut off while the head grows (collector/slow.go:249) or while a *)
(* rewind overlaps a pass (collector/tick.go:396).                         *)
TimelineExact == TimelineComplete /\ CacheComplete

(* No action of a dead fork is kept for the replays once the rewind that   *)
(* removed it is published.                                                *)
NoDeadActions == Quiet => \A a \in mem.actions : a = Canonical(a[1])

(* A sampled origin is a state of the chain that is followed. *)
OriginOnChain == Quiet /\ ckpt.origin.archive => ckpt.origin.fork = ver[ckpt.origin.block]

(* Between passes memory and database agree on where the scan began. *)
OriginAgrees == pass = Idle /\ pub = NoRewind => mem.origin = ckpt.origin

(* The state a truncated scan starts from is one of the chain; and unless  *)
(* the fast loop steps between a commit and its publication, memory holds  *)
(* that origin and no action of a dead fork beside it.                     *)
OriginSound == OriginOnChain /\ (Overlap \/ (OriginAgrees /\ NoDeadActions))

(* A constraints chain can replay from its origin: the set in force there  *)
(* is recorded at the block after it.                                      *)
OriginReplays ==
  pass = Idle /\ ckpt.origin.archive /\ ~LegacyChain => ckpt.origin.block + 1 \in sets

(* An origin only ever falls, unless a rewind or a new epoch drops it. *)
OriginStep ==
  ckpt.origin # NoOrigin /\ ckpt'.origin # NoOrigin => ckpt'.origin.block <= ckpt.origin.block
OriginFalls == [][OriginStep]_vars

(* However busy the fast loop is, the scan reaches the head. *)
Completed == ckpt.through = Head /\ Head = tip
ScanCompletes == <>[]Completed
=============================================================================
