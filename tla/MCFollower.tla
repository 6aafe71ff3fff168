----------------------------- MODULE MCFollower -----------------------------
(* Scenes of the follower beside the one of Follower.cfg: two faults with  *)
(* every outcome of a replay and a reorg deeper than the ancestor search;  *)
(* ranges longer than a batch; and for liveness a chain without reorgs and *)
(* one with unlimited endpoints. The constants of a configuration bound    *)
(* all of them: the invariants are stated with those.                      *)
EXTENDS Follower

CONSTANT Scenes   \* the scenes a run explores

VARIABLE scene
sceneVars == <<scene, vars>>

Faults == INSTANCE Follower WITH
  MaxHeight <- 4, MaxReorgs <- 1, MaxFaults <- 2, SeedTip <- 1,
  HeaderBatchSize <- 1, MaxCatchUpBatches <- 1, MaxReorgDepth <- 1,
  Unlimited <- BOOLEAN,
  Replays <- {"ok", "no_state", "unsupported_model", "replay_discontinuity"},
  Outage <- FALSE
Batches == INSTANCE Follower WITH
  MaxHeight <- 6, MaxReorgs <- 1, MaxFaults <- 0, SeedTip <- 2,
  HeaderBatchSize <- 2, MaxCatchUpBatches <- 1, MaxReorgDepth <- 4,
  Unlimited <- BOOLEAN, Replays <- {"ok"}, Outage <- FALSE
Recovering == INSTANCE Follower WITH
  MaxHeight <- 5, MaxReorgs <- 0, MaxFaults <- 2, SeedTip <- 1,
  HeaderBatchSize <- 1, MaxCatchUpBatches <- 1, MaxReorgDepth <- 4,
  Unlimited <- BOOLEAN, Replays <- {"ok"}, Outage <- FALSE
Converging == INSTANCE Follower WITH
  MaxHeight <- 4, MaxReorgs <- 2, MaxFaults <- 1, SeedTip <- 2,
  HeaderBatchSize <- 1, MaxCatchUpBatches <- 1, MaxReorgDepth <- 4,
  Unlimited <- {TRUE}, Replays <- {"ok"}, Outage <- FALSE

(* What the constants of every scene must be. *)
ASSUME Fitting ==
  /\ Faults!FollowerAssumption
  /\ Batches!FollowerAssumption
  /\ Recovering!FollowerAssumption
  /\ Converging!FollowerAssumption

SceneInit ==
  /\ scene \in Scenes
  /\ \/ scene = "faults" /\ Faults!Init
     \/ scene = "batches" /\ Batches!Init
     \/ scene = "recovers" /\ Recovering!Init
     \/ scene = "converges" /\ Converging!Init

(* A step A of scene s. *)
In(s, A) == scene = s /\ A /\ UNCHANGED scene
SceneNext ==
  \/ In("faults", Faults!Next)
  \/ In("batches", Batches!Next)
  \/ In("recovers", Recovering!Next)
  \/ In("converges", Converging!Next)
SceneSpec == SceneInit /\ [][SceneNext]_sceneVars

(* Every loop of the process keeps running (runPolling, runOnHeads,        *)
(* runHistory), a fill that can go on is not put off for ever              *)
(* (deferredWait), and the chain produces blocks up to the bound.          *)
SceneFairness ==
  /\ WF_sceneVars(In("recovers", Recovering!Mint))
  /\ WF_sceneVars(In("recovers", Recovering!EnsureInit))
  /\ WF_sceneVars(In("recovers", Recovering!FastLoop \/ (Recovering!TickRefused /\ Recovering!TickFails)))
  /\ WF_sceneVars(In("recovers", Recovering!FillPick({}, {}) \/ Recovering!FillMark
                                 \/ Recovering!FillCommit \/ Recovering!FillRetry))
  /\ SF_sceneVars(In("recovers", Recovering!FillFetch))
  /\ WF_sceneVars(In("converges", Converging!Mint))
  /\ WF_sceneVars(In("converges", Converging!EnsureInit))
  /\ WF_sceneVars(In("converges", Converging!FastLoop \/ (Converging!TickRefused /\ Converging!TickFails)))
FairScenes == SceneSpec /\ SceneFairness

(* Whatever is skipped, fails or crashes on the way, the follower ends at  *)
(* the head of a chain that does not reorganize with every gap filled      *)
(* (runHistory, recordFillFailure).                                        *)
GapsClose == scene = "recovers" => Recovers

(* With unlimited endpoints the store ends on the canonical chain, at its  *)
(* head, after any reorgs (tickWith, headBehind, findAncestor).            *)
ChainRestored == scene = "converges" => Converges
=============================================================================
