----------------------------- MODULE MCIndexing -----------------------------
(* Instances of Buckets, Backfill and OwnerScan. A behaviour is one scene: *)
(* one component with its constants.                                       *)
EXTENDS OwnerScan

CONSTANT Scenes   \* the scenes a run explores

VARIABLES
  scene, blocks, holes, frontier, count, dead, generation, fill, skips,
  rewinds, unfolded, relived, nodeTip, nodeVer, cursor, gen, live, through,
  origin, wanted, resolved, checked, step, used

allVars ==
  <<scene, vars, blocks, holes, frontier, count, dead, generation, fill,
    skips, rewinds, unfolded, relived, nodeTip, nodeVer, cursor, gen, live,
    through, origin, wanted, resolved, checked, step, used>>

OnlyGenesis == {Genesis}
AnyDepth == {3, Genesis, Hold}
OneOldHole == {[from |-> 2, to |-> 3, next |-> 0, folded |-> 0]}
(* Cursors an earlier collector may have left. *)
Fresh ==
  [done |-> FALSE, start |-> 0, target |-> 0, top |-> 0, active |-> FALSE,
   verified |-> FALSE, seg |-> 0, next |-> 0, skip |-> FALSE, end |-> 0,
   endParent |-> -1, runParent |-> -1, prev |-> -1, set |-> 0]
Halfway == [Fresh EXCEPT !.active = TRUE, !.seg = 2, !.next = 4, !.end = 9, !.top = 9, !.start = 2]
NoCursor == {Fresh}
OldCollector == {Fresh, Halfway, [Halfway EXCEPT !.target = 2, !.set = 2]}

Pruned == INSTANCE Buckets WITH
  LiveStart <- 5, Widths <- {2, 4}, Batch <- 2, MaxHeight <- 12,
  Retention <- 4, OldHoles <- OneOldHole, MaxSkips <- 2, MaxRewinds <- 0,
  rows <- blocks
Rewound == INSTANCE Buckets WITH
  LiveStart <- 5, Widths <- {2, 4}, Batch <- 2, MaxHeight <- 10,
  Retention <- 4, OldHoles <- OneOldHole, MaxSkips <- 2, MaxRewinds <- 1,
  rows <- blocks
Unheld == INSTANCE Buckets WITH
  LiveStart <- 5, Widths <- {2, 4}, Batch <- 2, MaxHeight <- 9,
  Retention <- 4, OldHoles <- {}, MaxSkips <- 2, MaxRewinds <- 2,
  rows <- blocks
Forward == INSTANCE Backfill WITH
  MaxHeight <- 10, Batch <- 2, LegacyOrigin <- FALSE, Origins <- {0, 3},
  Sets <- {2, 5}, OldModel <- 0, Forks <- {}, OldCursors <- OldCollector,
  Depths <- AnyDepth, MaxReorgs <- 0, MaxEpochs <- 0, MaxFaults <- 1,
  SeedTip <- 9, Hour <- 4, ArchiveWindow <- 0, MaxRestarts <- 2,
  rows <- blocks, tip <- nodeTip, ver <- nodeVer, depth <- wanted,
  spent <- used
Windows == INSTANCE Backfill WITH
  MaxHeight <- 10, Batch <- 2, LegacyOrigin <- FALSE, Origins <- {0},
  Sets <- {2, 5}, OldModel <- 3, Forks <- {}, OldCursors <- NoCursor,
  Depths <- AnyDepth, MaxReorgs <- 0, MaxEpochs <- 1, MaxFaults <- 1,
  SeedTip <- 8, Hour <- 4, ArchiveWindow <- 3, MaxRestarts <- 2,
  rows <- blocks, tip <- nodeTip, ver <- nodeVer, depth <- wanted,
  spent <- used
Reorged == INSTANCE Backfill WITH
  MaxHeight <- 10, Batch <- 2, LegacyOrigin <- FALSE, Origins <- {0},
  Sets <- {2, 5}, OldModel <- 0, Forks <- {6, 8}, OldCursors <- NoCursor,
  Depths <- AnyDepth, MaxReorgs <- 1, MaxEpochs <- 0, MaxFaults <- 1,
  SeedTip <- 8, Hour <- 3, ArchiveWindow <- 2, MaxRestarts <- 0,
  rows <- blocks, tip <- nodeTip, ver <- nodeVer, depth <- wanted,
  spent <- used
Ends == INSTANCE Backfill WITH
  MaxHeight <- 10, Batch <- 2, LegacyOrigin <- TRUE, Origins <- {2, 5},
  Sets <- {6}, OldModel <- 0, Forks <- {}, OldCursors <- NoCursor,
  Depths <- {3, Genesis}, MaxReorgs <- 0, MaxEpochs <- 0, MaxFaults <- 1,
  SeedTip <- 9, Hour <- 4, ArchiveWindow <- 3, MaxRestarts <- 1,
  rows <- blocks, tip <- nodeTip, ver <- nodeVer, depth <- wanted,
  spent <- used
Deepened == INSTANCE OwnerScan WITH
  Acting <- 0 .. 6, Chunk <- 2, Margin <- 1, MaxRecoveryDeferrals <- 2,
  Archive <- TRUE, LegacyChain <- FALSE, Forks <- {}, Overlap <- TRUE,
  MaxReorgs <- 0, MaxRestarts <- 2, MaxEpochs <- 1, MaxFaults <- 1,
  MaxHeight <- 6, SeedTip <- 6, Depths <- {1, Genesis}
Forked == INSTANCE OwnerScan WITH
  Acting <- 0 .. 5, Chunk <- 2, Margin <- 1, MaxRecoveryDeferrals <- 2,
  Archive <- FALSE, LegacyChain <- FALSE, Forks <- {2, 4}, Overlap <- TRUE,
  MaxReorgs <- 1, MaxRestarts <- 1, MaxEpochs <- 0, MaxFaults <- 1,
  MaxHeight <- 5, SeedTip <- 3, Depths <- {Genesis}
Reset == INSTANCE OwnerScan WITH
  Acting <- 0 .. 4, Chunk <- 2, Margin <- 0, MaxRecoveryDeferrals <- 2,
  Archive <- TRUE, LegacyChain <- FALSE, Forks <- {2, 3}, Overlap <- FALSE,
  MaxReorgs <- 1, MaxRestarts <- 0, MaxEpochs <- 0, MaxFaults <- 1,
  MaxHeight <- 4, SeedTip <- 3, Depths <- {Hold}
Completes == INSTANCE OwnerScan WITH
  Acting <- 0 .. 6, Chunk <- 1, Margin <- 4, MaxRecoveryDeferrals <- 3,
  Archive <- TRUE, LegacyChain <- FALSE, Forks <- {5}, Overlap <- FALSE,
  MaxReorgs <- 1, MaxRestarts <- 0, MaxEpochs <- 0, MaxFaults <- 1,
  MaxHeight <- 6, SeedTip <- 5, Depths <- {1}
Crosses == INSTANCE OwnerScan WITH
  Acting <- 0 .. 6, Chunk <- 1, Margin <- 4, MaxRecoveryDeferrals <- 3,
  Archive <- FALSE, LegacyChain <- FALSE, Forks <- {5}, Overlap <- TRUE,
  MaxReorgs <- 1, MaxRestarts <- 0, MaxEpochs <- 0, MaxFaults <- 1,
  MaxHeight <- 6, SeedTip <- 5, Depths <- {1}

(* What the constants of each component must be. *)
ASSUME Fitting ==
  /\ Pruned!BucketsAssumption
  /\ Rewound!BucketsAssumption
  /\ Unheld!BucketsAssumption
  /\ Forward!BackfillAssumption
  /\ Windows!BackfillAssumption
  /\ Reorged!BackfillAssumption
  /\ Ends!BackfillAssumption
  /\ Deepened!OwnerScanAssumption
  /\ Forked!OwnerScanAssumption
  /\ OwnerScanAssumption
  /\ Reset!OwnerScanAssumption
  /\ Completes!OwnerScanAssumption
  /\ Crosses!OwnerScanAssumption

Unused == "unused"
BesideBuckets ==
  <<vars, nodeTip, nodeVer, cursor, gen, live, through, origin, wanted,
    resolved, checked, step, used>>
OnlyBuckets ==
  /\ Init /\ nodeTip = Unused /\ nodeVer = Unused /\ cursor = Unused
  /\ gen = Unused /\ live = Unused /\ through = Unused /\ origin = Unused
  /\ wanted = Unused /\ resolved = Unused /\ checked = Unused
  /\ step = Unused /\ used = Unused
BesideBackfill ==
  <<vars, frontier, dead, generation, fill, skips, rewinds, unfolded, relived>>
OnlyBackfill ==
  /\ Init /\ frontier = Unused /\ dead = Unused /\ generation = Unused
  /\ fill = Unused /\ skips = Unused /\ rewinds = Unused /\ unfolded = Unused
  /\ relived = Unused
BesideOwnerScan ==
  <<blocks, holes, frontier, count, dead, generation, fill, skips, rewinds,
    unfolded, relived, nodeTip, nodeVer, cursor, gen, live, through, origin,
    wanted, resolved, checked, step, used>>
OnlyOwnerScan ==
  /\ blocks = Unused /\ holes = Unused /\ frontier = Unused /\ count = Unused
  /\ dead = Unused /\ generation = Unused /\ fill = Unused /\ skips = Unused
  /\ rewinds = Unused /\ unfolded = Unused /\ relived = Unused
  /\ nodeTip = Unused /\ nodeVer = Unused /\ cursor = Unused /\ gen = Unused
  /\ live = Unused /\ through = Unused /\ origin = Unused /\ wanted = Unused
  /\ resolved = Unused /\ checked = Unused /\ step = Unused /\ used = Unused

SceneInit ==
  /\ scene \in Scenes
  /\ \/ scene = "pruned" /\ Pruned!Init /\ OnlyBuckets
     \/ scene = "rewound" /\ Rewound!Init /\ OnlyBuckets
     \/ scene = "absent" /\ Unheld!Init /\ OnlyBuckets
     \/ scene = "forward" /\ Forward!Init /\ OnlyBackfill
     \/ scene = "windows" /\ Windows!Init /\ OnlyBackfill
     \/ scene = "reorged" /\ Reorged!Init /\ OnlyBackfill
     \/ scene = "ends" /\ Ends!Init /\ OnlyBackfill
     \/ scene = "depths" /\ Deepened!Init /\ OnlyOwnerScan
     \/ scene = "forks" /\ Forked!Init /\ OnlyOwnerScan
     \/ scene = "legacy" /\ Init /\ OnlyOwnerScan
     \/ scene = "reset" /\ Reset!Init /\ OnlyOwnerScan
     \/ scene = "completes" /\ Completes!Init /\ OnlyOwnerScan
     \/ scene = "crosses" /\ Crosses!Init /\ OnlyOwnerScan

(* A step A of the component that scene s is about. *)
InBuckets(s, A) == scene = s /\ A /\ UNCHANGED <<scene, BesideBuckets>>
InBackfill(s, A) == scene = s /\ A /\ UNCHANGED <<scene, BesideBackfill>>
InOwnerScan(s, A) == scene = s /\ A /\ UNCHANGED <<scene, BesideOwnerScan>>
SceneNext ==
  \/ InBuckets("pruned", Pruned!Next)
  \/ InBuckets("rewound", Rewound!Next)
  \/ InBuckets("absent", Unheld!Next)
  \/ InBackfill("forward", Forward!Next)
  \/ InBackfill("windows", Windows!Next)
  \/ InBackfill("reorged", Reorged!Next)
  \/ InBackfill("ends", Ends!Next)
  \/ InOwnerScan("depths", Deepened!Next)
  \/ InOwnerScan("forks", Forked!Next)
  \/ InOwnerScan("legacy", Next)
  \/ InOwnerScan("reset", Reset!Next)
  \/ InOwnerScan("completes", Completes!Next)
  \/ InOwnerScan("crosses", Crosses!Next)
SceneSpec == SceneInit /\ [][SceneNext]_allVars

(* A bucket that is served counts every indexed block of its window, and   *)
(* none counts a block twice, with prunes, up to two skips and up to two   *)
(* rewinds around fills in flight and retried ones; and none counts a      *)
(* block of a dead fork once the rewind has committed (commitFill,         *)
(* rewindToAncestor, DiscardBucketsBelowFrontier, PruneBlocks). Left out   *)
(* are exactly the heights of Buckets' two histories: one a rewind deleted *)
(* under its range's watermark may be missing, and one the live loop       *)
(* stored or skipped although it was owed or counted may count twice.      *)
BucketsExact ==
  /\ scene = "pruned" => Pruned!TypeOK /\ Pruned!ServedWhole /\ Pruned!CountedOnce
  /\ scene = "rewound" => Rewound!ServedWhole /\ Rewound!NothingDead /\ Rewound!CountedOnce
  /\ scene = "absent" => Unheld!ServedWhole /\ Unheld!NothingDead /\ Unheld!CountedOnce

(* The backfill's walk, its restarts and the live rows beside it count     *)
(* every block once: none twice and none of a dead fork; from the end of   *)
(* the walk to the head each is counted or in a recorded range, with up to *)
(* two restarts, a reset, a fault and a reorg between; and a walk that     *)
(* says it is done has reached its floor (backfillStep, rewindBackfill,    *)
(* resetTarget). The boundary hour is at most half of the chain: in one of *)
(* eight blocks a rewind or a raised epoch loses some of them              *)
(* (collector/backfill.go:262 and :646).                                   *)
ReconstructedOnce ==
  /\ scene = "forward" => Forward!TypeOK /\ Forward!CountedOnce /\ Forward!NothingMissed /\ Forward!DoneReaches
  /\ scene = "windows" => Windows!CountedOnce /\ Windows!NothingMissed
  /\ scene = "reorged" => Reorged!CountedOnce /\ Reorged!NothingMissed

(* History once asked for is never given back: the backfill's floor and    *)
(* the scan's origin only fall, but for a held depth, a rewind below them  *)
(* or a raised history epoch (resolveDepth, writeOrigin). And what the     *)
(* scan vouches for was read when the origin was lowered on the way, the   *)
(* constraint set in force at it included, and when a reorg dropped it     *)
(* (extendScanOrigin, rewindOwnerScan). A scan cut off above the genesis   *)
(* goes through restarts and epochs below a head that stands still         *)
(* ("depths") or through a rewind no loop steps into ("reset"); one to the *)
(* genesis, without an archive, through a rewind that overlaps ("forks").  *)
(* Outside are a cut-off scan whose head grows or whose rewind overlaps,   *)
(* and an archive scan read across one (collector/slow.go:249,             *)
(* collector/tick.go:396, collector/slow.go:489).                          *)
DepthKept ==
  /\ [][/\ (scene \in {"forward", "windows"} => Forward!FloorStep)
        /\ (scene = "reset" => Reset!OriginStep)]_allVars
  /\ [](/\ scene = "depths" => Deepened!TimelineExact /\ Deepened!OriginAgrees /\ Deepened!OriginReplays
        /\ scene = "forks" => Forked!TypeOK /\ Forked!TimelineExact /\ Forked!NoDeadActions
        /\ scene = "reset" => Reset!TimelineComplete /\ Reset!OriginSound)

(* The backfill ends, at the floor its configuration asks for, and the     *)
(* owner scan reaches the head however busy the fast loop is.              *)
WalksEnd ==
  <>[](/\ scene = "ends" => Ends!Ended
       /\ scene \in {"completes", "crosses"} => Completed)

(* The loops of a process run. *)
SceneFairness ==
  /\ WF_allVars(InBackfill("ends", Ends!Backfilling))
  /\ WF_allVars(InBackfill("ends", Ends!Scan))
  /\ WF_allVars(InBackfill("ends", Ends!Follow))
  /\ WF_allVars(InBackfill("ends", Ends!Rewind))
  /\ WF_allVars(InOwnerScan("completes", Completes!Slow) \/ InOwnerScan("crosses", Crosses!Slow))
  /\ WF_allVars(InOwnerScan("completes", Completes!Fast) \/ InOwnerScan("crosses", Crosses!Fast))
SceneFairSpec == SceneSpec /\ SceneFairness
=============================================================================
