------------------------------ MODULE MCLoops -------------------------------
(* Instances of the small machines around the loops: HeadLoop,             *)
(* HeadSubscriber, History and Repair. A behaviour is one scene: one       *)
(* component with its constants.                                           *)
EXTENDS Repair

CONSTANT Scenes   \* the scenes a run explores

VARIABLES
  scene, tip, socket, wire, drops, failures, connected, latest, told, signal,
  beat, polling, retry, tick, sampled, phase, at, left, backoff, cool, upFor,
  ping, verified, down, silent, mishaps, pc, filled, repaired, deferrals,
  work, hole, retried, busy, errors, waited

allVars ==
  <<scene, vars, tip, socket, wire, drops, failures, connected, latest, told,
    signal, beat, polling, retry, tick, sampled, phase, at, left, backoff,
    cool, upFor, ping, verified, down, silent, mishaps, pc, filled, repaired,
    deferrals, work, hole, retried, busy, errors, waited>>

Follows == INSTANCE HeadLoop WITH
  MaxBlocks <- 3, MaxDrops <- 0, MaxFailures <- 2, PollsFail <- FALSE,
  Reorgs <- TRUE
Polls == INSTANCE HeadLoop WITH
  MaxBlocks <- 2, MaxDrops <- 2, MaxFailures <- 2, PollsFail <- TRUE,
  Reorgs <- TRUE
Settling == INSTANCE HeadSubscriber WITH
  N <- 3, Dead <- {1}, Flaky <- {0}, MinBackoff <- 1, MaxBackoff <- 3,
  Cooldown <- 6, HealthyFor <- 2, DropLimit <- 3, PingInterval <- 2,
  Handshake <- 1, MaxFaults <- 2
Swapped == INSTANCE HeadSubscriber WITH
  N <- 3, Dead <- {0}, Flaky <- {1}, MinBackoff <- 1, MaxBackoff <- 3,
  Cooldown <- 6, HealthyFor <- 2, DropLimit <- 3, PingInterval <- 2,
  Handshake <- 1, MaxFaults <- 1
Reconnects == INSTANCE HeadSubscriber WITH
  N <- 2, Dead <- {}, Flaky <- {}, MinBackoff <- 1, MaxBackoff <- 2,
  Cooldown <- 4, HealthyFor <- 3, DropLimit <- 3, PingInterval <- 2,
  Handshake <- 1, MaxFaults <- 4
Sharing == INSTANCE History WITH
  MaxDeferrals <- 3, MaxWork <- 2, Broken <- FALSE, MaxErrors <- 2,
  MaxTurns <- 5
Broken == INSTANCE History WITH
  MaxDeferrals <- 3, MaxWork <- 2, Broken <- TRUE, MaxErrors <- 2,
  MaxTurns <- 5
Repaired == INSTANCE Repair WITH
  Lacking0 <- {1, 3, 4, 5, 6, 7}, Head <- 8, Boundary <- 2, Frontier0 <- 3,
  Width <- 2, Unreadable <- {4, 6}, HeaderBatch <- 4, MinBatch <- 2,
  MaxAttempts <- 2, MaxSweeps <- 3, MaxSkipped <- 2, MaxOutages <- 2,
  MaxFaults <- 1

(* What the constants of each component must be. *)
ASSUME Fitting ==
  /\ Follows!HeadLoopAssumption
  /\ Polls!HeadLoopAssumption
  /\ Settling!HeadSubscriberAssumption
  /\ Swapped!HeadSubscriberAssumption
  /\ Reconnects!HeadSubscriberAssumption
  /\ Sharing!HistoryAssumption
  /\ Broken!HistoryAssumption
  /\ RepairAssumption
  /\ Repaired!RepairAssumption

Unused == "unused"
BesideHeadLoop ==
  <<vars, phase, at, left, backoff, cool, upFor, ping, verified, down,
    silent, mishaps, pc, filled, repaired, deferrals, work, hole, retried,
    busy, errors, waited>>
OnlyHeadLoop ==
  /\ Init /\ phase = Unused /\ at = Unused /\ left = Unused
  /\ backoff = Unused /\ cool = Unused /\ upFor = Unused /\ ping = Unused
  /\ verified = Unused /\ down = Unused /\ silent = Unused
  /\ mishaps = Unused /\ pc = Unused /\ filled = Unused /\ repaired = Unused
  /\ deferrals = Unused /\ work = Unused /\ hole = Unused /\ retried = Unused
  /\ busy = Unused /\ errors = Unused /\ waited = Unused
BesideHeadSubscriber ==
  <<vars, tip, socket, wire, failures, connected, latest, told, signal, beat,
    polling, retry, tick, sampled, pc, filled, repaired, deferrals, work,
    hole, retried, busy, errors, waited>>
OnlyHeadSubscriber ==
  /\ Init /\ tip = Unused /\ socket = Unused /\ wire = Unused
  /\ failures = Unused /\ connected = Unused /\ latest = Unused
  /\ told = Unused /\ signal = Unused /\ beat = Unused /\ polling = Unused
  /\ retry = Unused /\ tick = Unused /\ sampled = Unused /\ pc = Unused
  /\ filled = Unused /\ repaired = Unused /\ deferrals = Unused
  /\ work = Unused /\ hole = Unused /\ retried = Unused /\ busy = Unused
  /\ errors = Unused /\ waited = Unused
BesideHistory ==
  <<vars, tip, socket, wire, drops, failures, connected, latest, told,
    signal, beat, polling, retry, tick, sampled, phase, at, left, backoff,
    cool, upFor, ping, verified, down, silent, mishaps>>
OnlyHistory ==
  /\ Init /\ tip = Unused /\ socket = Unused /\ wire = Unused
  /\ drops = Unused /\ failures = Unused /\ connected = Unused
  /\ latest = Unused /\ told = Unused /\ signal = Unused /\ beat = Unused
  /\ polling = Unused /\ retry = Unused /\ tick = Unused /\ sampled = Unused
  /\ phase = Unused /\ at = Unused /\ left = Unused /\ backoff = Unused
  /\ cool = Unused /\ upFor = Unused /\ ping = Unused /\ verified = Unused
  /\ down = Unused /\ silent = Unused /\ mishaps = Unused
BesideRepair ==
  <<tip, socket, wire, drops, failures, connected, latest, told, signal,
    beat, polling, retry, tick, sampled, phase, at, left, backoff, cool,
    upFor, ping, verified, down, silent, mishaps, pc, filled, repaired,
    deferrals, work, hole, retried, busy, errors, waited>>
OnlyRepair ==
  /\ tip = Unused /\ socket = Unused /\ wire = Unused /\ drops = Unused
  /\ failures = Unused /\ connected = Unused /\ latest = Unused
  /\ told = Unused /\ signal = Unused /\ beat = Unused /\ polling = Unused
  /\ retry = Unused /\ tick = Unused /\ sampled = Unused /\ phase = Unused
  /\ at = Unused /\ left = Unused /\ backoff = Unused /\ cool = Unused
  /\ upFor = Unused /\ ping = Unused /\ verified = Unused /\ down = Unused
  /\ silent = Unused /\ mishaps = Unused /\ pc = Unused /\ filled = Unused
  /\ repaired = Unused /\ deferrals = Unused /\ work = Unused
  /\ hole = Unused /\ retried = Unused /\ busy = Unused /\ errors = Unused
  /\ waited = Unused

SceneInit ==
  /\ scene \in Scenes
  /\ \/ scene = "follows" /\ Follows!Init /\ OnlyHeadLoop
     \/ scene = "down" /\ Polls!Init /\ OnlyHeadLoop
     \/ scene = "settles" /\ Settling!Init /\ OnlyHeadSubscriber
     \/ scene = "swapped" /\ Swapped!Init /\ OnlyHeadSubscriber
     \/ scene = "reconnects" /\ Reconnects!Init /\ OnlyHeadSubscriber
     \/ scene = "shared" /\ Sharing!Init /\ OnlyHistory
     \/ scene = "broken" /\ Broken!Init /\ OnlyHistory
     \/ scene = "passed" /\ Init /\ OnlyRepair
     \/ scene = "repaired" /\ Repaired!Init /\ OnlyRepair

(* A step A of the component that scene s is about. *)
InHeadLoop(s, A) == scene = s /\ A /\ UNCHANGED <<scene, BesideHeadLoop>>
InHeadSubscriber(s, A) == scene = s /\ A /\ UNCHANGED <<scene, BesideHeadSubscriber>>
InHistory(s, A) == scene = s /\ A /\ UNCHANGED <<scene, BesideHistory>>
InRepair(s, A) == scene = s /\ A /\ UNCHANGED <<scene, BesideRepair>>
SceneNext ==
  \/ InHeadLoop("follows", Follows!Next)
  \/ InHeadLoop("down", Polls!Next)
  \/ InHeadSubscriber("settles", Settling!Next)
  \/ InHeadSubscriber("swapped", Swapped!Next)
  \/ InHeadSubscriber("reconnects", Reconnects!Next)
  \/ InHistory("shared", Sharing!Next)
  \/ InHistory("broken", Broken!Next)
  \/ InRepair("passed", Next)
  \/ InRepair("repaired", Repaired!Next)
SceneSpec == SceneInit /\ [][SceneNext]_allVars

(* runOnHeads. "Heads that arrive while a tick is running collapse into    *)
(* one tick at the newest of them": every delivered head gets a tick       *)
(* pinned at it or at a newer one. "a quiet chain cannot leave the         *)
(* follower stuck on a stale head": while only pinned ticks fail, the last *)
(* sample of a quiet chain is its head, first of all after the             *)
(* acknowledgement of the subscription. And with the subscription down for *)
(* good it gets there by polling, whatever was lost or failed before.      *)
HeadsFollowed ==
  /\ [](scene = "follows" => Follows!TypeOK)
  /\ \A n \in 1 .. 3 :
       (scene = "follows" /\ told /\ latest = n) ~> (scene = "follows" => tick.kind = "pinned" /\ tick.at >= n)
  /\ \A i \in 1 .. 3 :
       (scene = "follows" /\ connected /\ tip.id = i) ~> (scene = "follows" => sampled.id >= i)
  /\ <>[](scene = "follows" => sampled = tip)
  /\ <>[](scene = "down" => ~connected) => <>[](scene = "down" => sampled = tip)

(* WSEndpoint and Failed, at the default ratio of back-off and cooldown    *)
(* (30s to 60s): behind one socket that never works and one that drops     *)
(* early, in either order, the subscription ends up on the working one for *)
(* good, whatever outages, drops and silences it had. Two that never work  *)
(* in front of it, or two that drop early, are outside: there the code     *)
(* goes to and fro between the two (nitro/pool.go:259).                    *)
Settles ==
  <>[](/\ scene = "settles" => Settling!OnGood
       /\ scene = "swapped" => Swapped!OnGood)

(* A socket is left when it should be and not before. pingLoop: after it   *)
(* went silent Connected() is believed for two ping intervals at most,     *)
(* even on an idle chain. noteWSFailure: "an ordinary reconnect does not   *)
(* move a follower off a working endpoint": a socket that had held is lost *)
(* without a cooldown.                                                     *)
LeftRightly ==
  /\ [](scene = "reconnects" => Reconnects!TypeOK /\ Reconnects!SilenceNoticed)
  /\ [][(scene = "reconnects" => Reconnects!ReconnectStep)]_allVars

(* runHistory and deferredWait: every job finishes, the repair and the     *)
(* backfill behind a hole that fails for ever and a fast loop that is      *)
(* never idle included. And the repair itself ends: a block that fails for *)
(* ever narrows the batch to itself, is given up, and stops the sweeps,    *)
(* and it gave up only on blocks it tried in every sweep.                  *)
EveryJobServed ==
  /\ [](/\ scene = "shared" => Sharing!TypeOK
        /\ scene = "passed" => TypeOK /\ DoneMeansTried)
  /\ \A j \in {"fill", "repair", "backfill"} : <>(scene = "shared" => work[j] = 0)
  /\ \A j \in {"repair", "backfill"} : <>(scene = "broken" => work[j] = 0)
  /\ <>(scene = "repaired" => cursor.done)

(* One scene runs, so a conjunct below is fairness of one action of each.  *)
(* runOnHeads: both goroutines run, the timer beats, and its select takes  *)
(* either ready case.  HeadSubscriber: its goroutine runs, time passes, an *)
(* outage ends, a flaky peer drops.  runHistory: the loop runs and a retry *)
(* becomes due; nothing is assumed of the fast loop, which may be busy for *)
(* ever.  RepairStep is called by it.                                      *)
SceneFairness ==
  /\ WF_allVars(\/ InHeadLoop("follows", Follows!Lost) \/ InHeadLoop("down", Polls!Lost)
             \/ InHeadSubscriber("settles", Settling!Resolve)
             \/ InHeadSubscriber("swapped", Swapped!Resolve) \/ InHistory("shared", Sharing!Fill)
             \/ InHistory("broken", Broken!Fill) \/ InRepair("repaired", Repaired!RepairStep))
  /\ WF_allVars(\/ InHeadLoop("follows", Follows!Deliver) \/ InHeadLoop("down", Polls!Deliver)
             \/ InHeadSubscriber("settles", Settling!Refused \/ Settling!Acknowledged)
             \/ InHeadSubscriber("swapped", Swapped!Refused \/ Swapped!Acknowledged)
             \/ InHistory("shared", Sharing!Repair) \/ InHistory("broken", Broken!Repair))
  /\ WF_allVars(\/ InHeadLoop("follows", Follows!Signal) \/ InHeadLoop("down", Polls!Signal)
             \/ InHeadSubscriber("settles", Settling!Ping \/ Settling!Unresponsive)
             \/ InHeadSubscriber("swapped", Swapped!Ping \/ Swapped!Unresponsive)
             \/ InHistory("shared", Sharing!Backfill) \/ InHistory("broken", Broken!Backfill))
  /\ WF_allVars(\/ InHeadLoop("follows", Follows!Timer) \/ InHeadLoop("down", Polls!Timer)
             \/ InHeadSubscriber("settles", Settling!Wake)
             \/ InHeadSubscriber("swapped", Swapped!Wake) \/ InHistory("shared", Sharing!Wake)
             \/ InHistory("broken", Broken!Wake))
  /\ WF_allVars(\/ InHeadLoop("follows", Follows!Sample \/ Follows!Ticked \/ Follows!Fails)
             \/ InHeadLoop("down", Polls!Sample \/ Polls!Ticked \/ Polls!Fails)
             \/ InHeadSubscriber("settles", Settling!Tick)
             \/ InHeadSubscriber("swapped", Swapped!Tick) \/ InHistory("shared", Sharing!RetryDue)
             \/ InHistory("broken", Broken!RetryDue))
  /\ SF_allVars(\/ InHeadLoop("follows", Follows!OnSignal) \/ InHeadLoop("down", Polls!OnSignal))
  /\ SF_allVars(\/ InHeadLoop("follows", Follows!OnBeat) \/ InHeadLoop("down", Polls!OnBeat))
  /\ WF_allVars(\/ InHeadSubscriber("settles", at \in {0} \cup down /\ Settling!Closed)
             \/ InHeadSubscriber("swapped", at \in {1} \cup down /\ Swapped!Closed))
  /\ \A e \in 0 .. 2 : WF_allVars(InHeadSubscriber("settles", Settling!Recovers(e))
             \/ InHeadSubscriber("swapped", Swapped!Recovers(e)))
SceneFairSpec == SceneSpec /\ SceneFairness
=============================================================================
