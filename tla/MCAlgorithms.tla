---------------------------- MODULE MCAlgorithms ----------------------------
(* What is computed: Pricer over small words, BucketMath over a few        *)
(* blocks, HolesSeq over a few ranges; Replay and BatchScan, what is       *)
(* computed for a block from its predecessors and the recorded owner       *)
(* actions. A behaviour is one scene: one component with its constants.    *)
EXTENDS Integers

CONSTANT Scenes   \* the scenes a run explores

VARIABLES
  scene, calm, busy, chain, counted, mem, pg, list, rows, rec, sets, samples,
  hole, origin, head, st, last, faults, guessed, actions, reports, cursor,
  gen, changes, anchor, scanned, step, spent

vars ==
  <<scene, calm, busy, chain, counted, mem, pg, list, rows, rec, sets,
    samples, hole, origin, head, st, last, faults, guessed, actions, reports,
    cursor, gen, changes, anchor, scanned, step, spent>>

(* Blocks that differ in one column at a time from an ordinary one; in     *)
(* OneNull poster gas, floor and ArbOS version are absent in one of them.  *)
(* No block is without a constraint set or a prediction.                   *)
Null == -1
Plain == [gas |-> 5, fee |-> 3, poster |-> 2, floor |-> 2, arbos |-> 2,
          backlogs |-> <<4, 1>>, set |-> 1, error |-> 0]
AllSet == {Plain,
           [Plain EXCEPT !.fee = 8, !.gas = 7, !.error = 2, !.arbos = 3],
           [Plain EXCEPT !.fee = 1, !.set = 2, !.backlogs = <<1, 3, 2>>, !.poster = 0],
           [Plain EXCEPT !.gas = 0, !.poster = 0, !.backlogs = <<>>, !.error = 1]}
OneNull == {Plain,
            [Plain EXCEPT !.poster = Null, !.fee = 4],
            [Plain EXCEPT !.floor = Null, !.poster = 1],
            [Plain EXCEPT !.arbos = Null, !.fee = 2],
            [Plain EXCEPT !.floor = Null, !.poster = Null, !.arbos = Null, !.backlogs = <<6>>]}

(* Blocks of one to three transactions, quiet or with owner actions. *)
Gas(g) == [gas |-> g, acts |-> <<>>]
Act(g, kind, value) == [gas |-> g, acts |-> <<[kind |-> kind, value |-> value]>>]
One(t, w, b) == [target |-> t, window |-> w, backlog |-> b]

OnConstraints == [constraints |-> <<One(1, 4, 3)>>, min |-> 8,
                  legacy |-> [limit |-> 1, inertia |-> 3, tolerance |-> 1, backlog |-> 0]]
OnLegacy == [constraints |-> <<>>, min |-> 8,
             legacy |-> [limit |-> 1, inertia |-> 3, tolerance |-> 1, backlog |-> 4]]

Quiet == <<Gas(3)>>
NewSet == <<Gas(2), Act(3, "set", <<One(2, 3, 5)>>)>>
NewPair == <<Act(1, "set", <<One(1, 4, 0), One(2, 2, 6)>>), Gas(4)>>
NewFloor == <<Gas(4), Act(1, "fee", 12)>>
NewLimit == <<Gas(1), Act(4, "limit", 2)>>
Twice == <<Gas(2), [gas |-> 3, acts |-> <<[kind |-> "fee", value |-> 12],
                                          [kind |-> "set", value |-> <<One(2, 3, 5)>>]>>], Gas(2)>>

Words == INSTANCE Pricer WITH
  OneInBips <- 4, Tolerances <- {1, 7}, Floors <- {3}, Width <- 5,
  Sizes <- {1}, Targets <- {0, 1, 17}, Windows <- {0, 3, 20},
  Gases <- {0, 18, 31}, Times <- {0, 1, 31}
Pairs == INSTANCE Pricer WITH
  OneInBips <- 4, Tolerances <- {}, Floors <- {3}, Width <- 5, Sizes <- {2},
  Targets <- {1, 8}, Windows <- {2}, Gases <- {0, 4, 31}, Times <- {0, 4}
Exponential == INSTANCE Pricer WITH
  OneInBips <- 8, Tolerances <- {}, Floors <- {3}, Width <- 8, Sizes <- {1},
  Targets <- {1}, Windows <- {3}, Gases <- {0, 1}, Times <- {0}
Full == INSTANCE BucketMath WITH
  Shapes <- AllSet, Count <- 4, Widths <- {2, 4}, Legacy <- FALSE,
  MaxBips <- 99
Nulls == INSTANCE BucketMath WITH
  Shapes <- OneNull, Count <- 3, Widths <- {2, 4}, Legacy <- TRUE,
  MaxBips <- 99
Ranges == INSTANCE HolesSeq WITH
  Top <- 4, MaxRanges <- 2
Stored == INSTANCE Replay WITH
  Width <- 16, OneInBips <- 8, Genesis <- OnConstraints, Gaps <- {2},
  RowBacked <- TRUE, Origins <- {0}, AnchorEvery <- 2, MaxFaults <- 1,
  Bodies <- {Quiet, NewPair}, MaxGap <- 2, MaxHeight <- 5
Folded == INSTANCE Replay WITH
  Width <- 16, OneInBips <- 8, Genesis <- OnConstraints, Gaps <- {2},
  RowBacked <- FALSE, Origins <- {0}, AnchorEvery <- 2, MaxFaults <- 1,
  Bodies <- {Quiet, NewSet}, MaxGap <- 2, MaxHeight <- 4
Floors == INSTANCE Replay WITH
  Width <- 16, OneInBips <- 8, Genesis <- OnConstraints, Gaps <- {2},
  RowBacked <- TRUE, Origins <- {0}, AnchorEvery <- 2, MaxFaults <- 1,
  Bodies <- {Quiet, NewFloor, Twice}, MaxGap <- 5, MaxHeight <- 4
Refilled == INSTANCE Replay WITH
  Width <- 16, OneInBips <- 8, Genesis <- OnConstraints, Gaps <- {2},
  RowBacked <- TRUE, Origins <- {0}, AnchorEvery <- 2, MaxFaults <- 1,
  Bodies <- {Quiet, NewFloor}, MaxGap <- 1, MaxHeight <- 5
Legacy == INSTANCE Replay WITH
  Width <- 16, OneInBips <- 8, Genesis <- OnLegacy, Gaps <- {2},
  RowBacked <- TRUE, Origins <- {0, 1}, AnchorEvery <- 2, MaxFaults <- 1,
  Bodies <- {Quiet, NewLimit, NewPair}, MaxGap <- 5, MaxHeight <- 3
Moved == INSTANCE Replay WITH
  Width <- 16, OneInBips <- 8, Genesis <- OnLegacy, Gaps <- {2},
  RowBacked <- TRUE, Origins <- {0}, AnchorEvery <- 2, MaxFaults <- 1,
  Bodies <- {Quiet, NewLimit, NewSet}, MaxGap <- 1, MaxHeight <- 4
FromGenesis == INSTANCE BatchScan WITH
  Params <- {"charge"}, Needed <- {"charge"}, Values <- {1, 2},
  Plain <- FALSE, Cut <- 0, Archive <- TRUE, ScanFirst <- TRUE, Limit <- 2,
  MaxReorgs <- 0, MaxFaults <- 1, Base <- 2, MaxHeight <- 4
Truncated == INSTANCE BatchScan WITH
  Params <- {"charge"}, Needed <- {"charge"}, Values <- {1, 2},
  Plain <- FALSE, Cut <- 2, Archive <- FALSE, ScanFirst <- TRUE, Limit <- 2,
  MaxReorgs <- 0, MaxFaults <- 0, Base <- 3, MaxHeight <- 5
Sampled == INSTANCE BatchScan WITH
  Params <- {"charge", "floor"}, Needed <- {"charge", "floor"},
  Values <- {1}, Plain <- FALSE, Cut <- 2, Archive <- TRUE,
  ScanFirst <- TRUE, Limit <- 2, MaxReorgs <- 0, MaxFaults <- 0, Base <- 3,
  MaxHeight <- 5
Forked == INSTANCE BatchScan WITH
  Params <- {}, Needed <- {}, Values <- {1}, Plain <- TRUE, Cut <- 0,
  Archive <- TRUE, ScanFirst <- TRUE, Limit <- 2, MaxReorgs <- 2,
  MaxFaults <- 0, Base <- 1, MaxHeight <- 3

(* What the constants of each component must be. *)
ASSUME Fitting ==
  /\ Words!PricerAssumption
  /\ Pairs!PricerAssumption
  /\ Exponential!PricerAssumption
  /\ Full!BucketMathAssumption
  /\ Nulls!BucketMathAssumption
  /\ Ranges!HolesSeqAssumption
  /\ Stored!ReplayAssumption
  /\ Folded!ReplayAssumption
  /\ Floors!ReplayAssumption
  /\ Refilled!ReplayAssumption
  /\ Legacy!ReplayAssumption
  /\ Moved!ReplayAssumption
  /\ FromGenesis!BatchScanAssumption
  /\ Truncated!BatchScanAssumption
  /\ Sampled!BatchScanAssumption
  /\ Forked!BatchScanAssumption

Unused == "unused"
BesidePricer ==
  <<chain, counted, mem, pg, list, rows, rec, sets, samples, hole, origin,
    head, st, last, faults, guessed, actions, reports, cursor, gen, changes,
    anchor, scanned, step, spent>>
OnlyPricer ==
  /\ chain = Unused /\ counted = Unused /\ mem = Unused /\ pg = Unused
  /\ list = Unused /\ rows = Unused /\ rec = Unused /\ sets = Unused
  /\ samples = Unused /\ hole = Unused /\ origin = Unused /\ head = Unused
  /\ st = Unused /\ last = Unused /\ faults = Unused /\ guessed = Unused
  /\ actions = Unused /\ reports = Unused /\ cursor = Unused /\ gen = Unused
  /\ changes = Unused /\ anchor = Unused /\ scanned = Unused /\ step = Unused
  /\ spent = Unused
BesideBucketMath ==
  <<calm, busy, list, rows, rec, sets, samples, hole, origin, head, st, last,
    faults, guessed, actions, reports, cursor, gen, changes, anchor, scanned,
    step, spent>>
OnlyBucketMath ==
  /\ calm = Unused /\ busy = Unused /\ list = Unused /\ rows = Unused
  /\ rec = Unused /\ sets = Unused /\ samples = Unused /\ hole = Unused
  /\ origin = Unused /\ head = Unused /\ st = Unused /\ last = Unused
  /\ faults = Unused /\ guessed = Unused /\ actions = Unused
  /\ reports = Unused /\ cursor = Unused /\ gen = Unused /\ changes = Unused
  /\ anchor = Unused /\ scanned = Unused /\ step = Unused /\ spent = Unused
BesideHolesSeq ==
  <<calm, busy, chain, counted, mem, pg, rows, rec, sets, samples, hole,
    origin, head, st, last, faults, guessed, actions, reports, cursor, gen,
    changes, anchor, scanned, step, spent>>
OnlyHolesSeq ==
  /\ calm = Unused /\ busy = Unused /\ chain = Unused /\ counted = Unused
  /\ mem = Unused /\ pg = Unused /\ rows = Unused /\ rec = Unused
  /\ sets = Unused /\ samples = Unused /\ hole = Unused /\ origin = Unused
  /\ head = Unused /\ st = Unused /\ last = Unused /\ faults = Unused
  /\ guessed = Unused /\ actions = Unused /\ reports = Unused
  /\ cursor = Unused /\ gen = Unused /\ changes = Unused /\ anchor = Unused
  /\ scanned = Unused /\ step = Unused /\ spent = Unused
BesideReplay ==
  <<calm, busy, counted, mem, pg, list, actions, reports, cursor, gen,
    changes, anchor, scanned, step, spent>>
OnlyReplay ==
  /\ calm = Unused /\ busy = Unused /\ counted = Unused /\ mem = Unused
  /\ pg = Unused /\ list = Unused /\ actions = Unused /\ reports = Unused
  /\ cursor = Unused /\ gen = Unused /\ changes = Unused /\ anchor = Unused
  /\ scanned = Unused /\ step = Unused /\ spent = Unused
BesideBatchScan ==
  <<calm, busy, counted, mem, pg, list, rec, sets, samples, hole, st, last,
    faults, guessed>>
OnlyBatchScan ==
  /\ calm = Unused /\ busy = Unused /\ counted = Unused /\ mem = Unused
  /\ pg = Unused /\ list = Unused /\ rec = Unused /\ sets = Unused
  /\ samples = Unused /\ hole = Unused /\ st = Unused /\ last = Unused
  /\ faults = Unused /\ guessed = Unused

Init ==
  /\ scene \in Scenes
  /\ \/ scene = "words" /\ Words!Init /\ OnlyPricer
     \/ scene = "pairs" /\ Pairs!Init /\ OnlyPricer
     \/ scene = "exp" /\ Exponential!Init /\ OnlyPricer
     \/ scene = "full" /\ Full!Init /\ OnlyBucketMath
     \/ scene = "nulls" /\ Nulls!Init /\ OnlyBucketMath
     \/ scene = "ranges" /\ Ranges!Init /\ OnlyHolesSeq
     \/ scene = "sets" /\ Stored!Init /\ OnlyReplay
     \/ scene = "folded" /\ Folded!Init /\ OnlyReplay
     \/ scene = "floors" /\ Floors!Init /\ OnlyReplay
     \/ scene = "refilled" /\ Refilled!Init /\ OnlyReplay
     \/ scene = "legacy" /\ Legacy!Init /\ OnlyReplay
     \/ scene = "moved" /\ Moved!Init /\ OnlyReplay
     \/ scene = "genesis" /\ FromGenesis!Init /\ OnlyBatchScan
     \/ scene = "truncated" /\ Truncated!Init /\ OnlyBatchScan
     \/ scene = "sampled" /\ Sampled!Init /\ OnlyBatchScan
     \/ scene = "forks" /\ Forked!Init /\ OnlyBatchScan

(* A step A of the component that scene s is about. *)
InPricer(s, A) == scene = s /\ A /\ UNCHANGED <<scene, BesidePricer>>
InBucketMath(s, A) == scene = s /\ A /\ UNCHANGED <<scene, BesideBucketMath>>
InHolesSeq(s, A) == scene = s /\ A /\ UNCHANGED <<scene, BesideHolesSeq>>
InReplay(s, A) == scene = s /\ A /\ UNCHANGED <<scene, BesideReplay>>
InBatchScan(s, A) == scene = s /\ A /\ UNCHANGED <<scene, BesideBatchScan>>
Next ==
  \/ InPricer("words", Words!Next)
  \/ InPricer("pairs", Pairs!Next)
  \/ InPricer("exp", Exponential!Next)
  \/ InBucketMath("full", Full!Next)
  \/ InBucketMath("nulls", Nulls!Next)
  \/ InHolesSeq("ranges", Ranges!Next)
  \/ InReplay("sets", Stored!Next)
  \/ InReplay("folded", Folded!Next)
  \/ InReplay("floors", Floors!Next)
  \/ InReplay("refilled", Refilled!Next)
  \/ InReplay("legacy", Legacy!Next)
  \/ InReplay("moved", Moved!Next)
  \/ InBatchScan("genesis", FromGenesis!Next)
  \/ InBatchScan("truncated", Truncated!Next)
  \/ InBatchScan("sampled", Sampled!Next)
  \/ InBatchScan("forks", Forked!Next)
Spec == Init /\ [][Next]_vars

(* The pricer's words. Through every wrap and saturation a step pays down  *)
(* what time paid for and adds up the exact exponents, and more gas or     *)
(* less time never makes the next block cheaper (Step, AddGas, the         *)
(* saturating helpers). The multiplier is the exponential's polynomial of  *)
(* degree four, short of it by rounding alone while its products fit a     *)
(* word (ApproxExpBips).                                                   *)
PricesExact ==
  /\ scene = "words" => Words!TypeOK /\ Words!Saturates /\ Words!MoreGasNeverCheaper
  /\ scene = "pairs" => Pairs!Saturates /\ Pairs!MoreGasNeverCheaper
  /\ scene = "exp" => Exponential!MultiplierIsTaylor

(* One bucket, four implementations. A window folded run by run, in any    *)
(* order, is the window recomputed from its rows at once (UpsertBuckets    *)
(* against RebuildBuckets); the in-memory store, which the collector's     *)
(* tests run on, holds what the database holds; and where a fee split is   *)
(* shown it accounts for every wei of the window, with poster gas, floors  *)
(* or ArbOS versions absent in any block of it. Blocks without a           *)
(* constraint set and without a prediction are outside: there the code's   *)
(* aggregates differ (db/postgres.go:685 and :663).                        *)
BucketsAgree ==
  /\ scene = "full" => Full!TypeOK /\ Full!FoldIsRebuild /\ Full!StoresAgree /\ Full!SplitAddsUp
  /\ scene = "nulls" => Nulls!FoldIsRebuild /\ Nulls!StoresAgree /\ Nulls!SplitAddsUp

(* The set form of the missing ranges is what the code's list pass         *)
(* computes, and merging loses no height, invents none, and leaves nothing *)
(* to merge (normalizeHoles, mergeHole, loadHoles and saveHoles).          *)
NormalizeAgrees == scene = "ranges" => Ranges!TypeOK /\ Ranges!NormalizeAgrees /\ Ranges!MergesExactly

(* Whatever is replayed is the chain's. Every stored block has the         *)
(* backlogs the chain ended it with and the floor that priced it,          *)
(* whichever loop replayed it, in whatever batches, with one failed tick   *)
(* or restart anywhere; but for the blocks of `guessed`, whose replay      *)
(* starts from a parameter the code takes on trust (tick.go:743 and :761,  *)
(* fill.go:631 and :642). A backfill window seeded from an archive sample  *)
(* and a segment replayed from the set that starts it, which depend on the *)
(* chain alone, likewise (replayLive, fillBatch, replaySegment,            *)
(* seedWindow).                                                            *)
ReplayExact ==
  /\ scene = "sets" => Stored!TypeOK /\ Stored!RowsExact
  /\ scene = "folded" => Folded!RowsExact
  /\ scene = "floors" => Floors!RowsExact /\ (head = 0 => Floors!WindowsExact /\ Floors!SegmentsExact)
  /\ scene = "refilled" => Refilled!RowsExact
  /\ scene = "legacy" => Legacy!RowsExact /\ (head = 0 => Legacy!WindowsExact)
  /\ scene = "moved" => Moved!RowsExact

(* A prediction is the base fee in the block's own header, across batches, *)
(* ticks and loops; after a seeded block that an owner action repriced it  *)
(* is only an approximation, and none is promised of the blocks of         *)
(* `guessed`. A block is left without one only by a seed,   *)
(* by the first tick of a process, or by a fill that continues from a      *)
(* block row alone (shiftPredictions, publish).                            *)
PredictionsExact ==
  /\ [](/\ scene = "sets" => Stored!PredictionsExact
        /\ scene = "folded" => Folded!PredictionsExact
        /\ scene = "floors" => Floors!PredictionsExact
        /\ scene = "refilled" => Refilled!PredictionsExact
        /\ scene = "legacy" => Legacy!PredictionsExact
        /\ scene = "moved" => Moved!PredictionsExact)
  /\ [][/\ (scene = "sets" => Stored!CarryStep)
        /\ (scene = "folded" => Folded!CarryStep)]_vars

(* The stored batch reports are the chain's. Each has the parameters ArbOS *)
(* charged the batch with, never those of before a setter or of after it   *)
(* (batchCostResolver), on a chain that does not reorg and with the owner  *)
(* scan complete before the batch scan; a report of a dead fork does not   *)
(* survive the rewind, also when the scan had read the block before it     *)
(* (commit under the generation); and one the scan has passed is stored,   *)
(* except where nothing recorded explains its parameters: without an       *)
(* archive, before a later setter. What a fork or an unfinished owner scan *)
(* does to the parameters is outside: slow.go:665 and :785.                *)
ReportsExact ==
  /\ scene = "genesis" => FromGenesis!CostsExact /\ FromGenesis!NoneMissed
  /\ scene = "truncated" => Truncated!CostsExact /\ Truncated!NoneMissed
  /\ scene = "sampled" => Sampled!CostsExact /\ Sampled!NoneMissed
  /\ scene = "forks" => Forked!TypeOK /\ Forked!ReportsOnChain /\ Forked!NoneMissed
=============================================================================
