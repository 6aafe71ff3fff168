------------------------------- MODULE MCApi --------------------------------
(* Instances of Hub, the live feed, and Listener, the LISTEN connection it *)
(* reads. A behaviour is one scene: one component with its constants.      *)
EXTENDS Hub, TLC

CONSTANT Scenes   \* the scenes a run explores
CONSTANTS c1, c2, n1, n2

VARIABLES
  scene, link, listening, events, changes, channel, sent, status, out, read

allVars ==
  <<scene, vars, link, listening, events, changes, channel, sent, status,
    out, read>>

OneAddress == [c \in {c1, c2} |-> "a"]

(* No socket has ended, in the scene that is about what open ones get. *)
Served == \A c \in Clients : conn[c].st \in {"new", "accepted", "open"}

(* At most one socket connects, in the scenes that are about one. *)
Alone == Cardinality({c \in Clients : conn[c].st # "new"}) <= 1

WarmHub == INSTANCE Hub WITH
  Clients <- {c1, c2}, Address <- OneAddress, SeedHeight <- 2, RingSize <- 4,
  HelloBlocks <- 2, MaxTotal <- 2, Behind <- FALSE, Networks <- {n1},
  MaxPerIP <- 2, Answers <- {}, Warm <- TRUE, MaxActions <- 0,
  MaxOutages <- 0, MaxFaults <- 0, MissedPingLimit <- 0, MaxHeight <- 4,
  MaxForks <- 1, MaxCommits <- 2, MaxAdvance <- 2, QueueSize <- 3
Switching == INSTANCE Hub WITH
  Clients <- {c1, c2}, Address <- OneAddress, SeedHeight <- 1, RingSize <- 2,
  HelloBlocks <- 1, MaxTotal <- 2, Behind <- FALSE, Networks <- {n1, n2},
  MaxPerIP <- 2, Answers <- {}, Warm <- TRUE, MaxActions <- 0,
  MaxOutages <- 0, MaxFaults <- 0, MissedPingLimit <- 0, MaxHeight <- 2,
  MaxForks <- 1, MaxCommits <- 1, MaxAdvance <- 1, QueueSize <- 2
Paged == INSTANCE Hub WITH
  Clients <- {c1, c2}, Address <- OneAddress, SeedHeight <- 1, RingSize <- 2,
  HelloBlocks <- 1, MaxTotal <- 2, Behind <- FALSE, Networks <- {n1},
  MaxPerIP <- 2, Answers <- {}, Warm <- TRUE, MaxActions <- 0,
  MaxOutages <- 0, MaxFaults <- 0, MissedPingLimit <- 0, MaxHeight <- 3,
  MaxForks <- 1, MaxCommits <- 2, MaxAdvance <- 2, QueueSize <- 3
Acting == INSTANCE Hub WITH
  Clients <- {c1, c2}, Address <- OneAddress, SeedHeight <- 2, RingSize <- 4,
  HelloBlocks <- 2, MaxTotal <- 2, Behind <- TRUE, Networks <- {n1},
  MaxPerIP <- 2, Answers <- {}, Warm <- TRUE, MaxActions <- 2,
  MaxOutages <- 1, MaxFaults <- 0, MissedPingLimit <- 0, MaxHeight <- 2,
  MaxForks <- 1, MaxCommits <- 1, MaxAdvance <- 1, QueueSize <- 2
Missing == INSTANCE Hub WITH
  Clients <- {c1, c2}, Address <- OneAddress, SeedHeight <- 2, RingSize <- 4,
  HelloBlocks <- 2, MaxTotal <- 2, Behind <- TRUE, Networks <- {n1},
  MaxPerIP <- 2, Answers <- {}, Warm <- TRUE, MaxActions <- 2,
  MaxOutages <- 1, MaxFaults <- 1, MissedPingLimit <- 0, MaxHeight <- 2,
  MaxForks <- 1, MaxCommits <- 0, MaxAdvance <- 1, QueueSize <- 2
Outage == INSTANCE Hub WITH
  Clients <- {c1}, Address <- [c \in {c1} |-> "a"], SeedHeight <- 2,
  RingSize <- 4, HelloBlocks <- 2, MaxTotal <- 2, Behind <- FALSE,
  Networks <- {n1}, MaxPerIP <- 2, Answers <- {c1}, Warm <- TRUE,
  MaxActions <- 0, MaxOutages <- 1, MaxFaults <- 0, MissedPingLimit <- 1,
  MaxHeight <- 3, MaxForks <- 1, MaxCommits <- 1, MaxAdvance <- 1,
  QueueSize <- 3
Faulty == INSTANCE Hub WITH
  Clients <- {c1}, Address <- [c \in {c1} |-> "a"], SeedHeight <- 2,
  RingSize <- 4, HelloBlocks <- 2, MaxTotal <- 2, Behind <- FALSE,
  Networks <- {n1}, MaxPerIP <- 2, Answers <- {c1}, Warm <- TRUE,
  MaxActions <- 0, MaxOutages <- 0, MaxFaults <- 1, MissedPingLimit <- 1,
  MaxHeight <- 3, MaxForks <- 1, MaxCommits <- 1, MaxAdvance <- 2,
  QueueSize <- 3
Silent == INSTANCE Hub WITH
  Clients <- {c1, c2}, Address <- OneAddress, SeedHeight <- 2, RingSize <- 4,
  HelloBlocks <- 2, MaxTotal <- 2, Behind <- FALSE, Networks <- {n1},
  MaxPerIP <- 2, Answers <- {c2}, Warm <- TRUE, MaxActions <- 0,
  MaxOutages <- 0, MaxFaults <- 0, MissedPingLimit <- 2, MaxHeight <- 3,
  MaxForks <- 0, MaxCommits <- 0, MaxAdvance <- 2, QueueSize <- 2
Linked == INSTANCE Listener WITH
  MaxEvents <- 5, MaxNotes <- 4, OutSize <- 2

(* What the constants of each component must be. *)
ASSUME Fitting ==
  /\ WarmHub!HubAssumption
  /\ Switching!HubAssumption
  /\ HubAssumption
  /\ Paged!HubAssumption
  /\ Acting!HubAssumption
  /\ Missing!HubAssumption
  /\ Outage!HubAssumption
  /\ Faulty!HubAssumption
  /\ Silent!HubAssumption
  /\ Linked!ListenerAssumption

Unused == "unused"
BesideHub ==
  <<link, listening, events, changes, channel, sent, status, out, read>>
OnlyHub ==
  /\ link = Unused /\ listening = Unused /\ events = Unused
  /\ changes = Unused /\ channel = Unused /\ sent = Unused /\ status = Unused
  /\ out = Unused /\ read = Unused
BesideListener == vars
OnlyListener == Init

SceneInit ==
  /\ scene \in Scenes
  /\ \/ scene = "warm" /\ WarmHub!Init /\ OnlyHub
     \/ scene = "switch" /\ Switching!Init /\ OnlyHub
     \/ scene = "cold" /\ Init /\ OnlyHub
     \/ scene = "paged" /\ Paged!Init /\ OnlyHub
     \/ scene = "actions" /\ Acting!Init /\ OnlyHub
     \/ scene = "missed" /\ Missing!Init /\ OnlyHub
     \/ scene = "outage" /\ Outage!Init /\ OnlyHub
     \/ scene = "failing" /\ Faulty!Init /\ OnlyHub
     \/ scene = "silent" /\ Silent!Init /\ OnlyHub
     \/ scene = "listener" /\ Linked!Init /\ OnlyListener

(* A step A of the component that scene s is about. *)
InHub(s, A) == scene = s /\ A /\ UNCHANGED <<scene, BesideHub>>
InListener(s, A) == scene = s /\ A /\ UNCHANGED <<scene, BesideListener>>
SceneNext ==
  \/ InHub("warm", WarmHub!Next) /\ Alone'
  \/ InHub("switch", Switching!Next) /\ Alone'
  \/ InHub("cold", Next)
  \/ InHub("paged", Paged!Next) /\ Alone'
  \/ InHub("actions", Acting!Next) /\ Alone' /\ Served'
  \/ InHub("missed", Missing!Next) /\ Alone' /\ Served'
  \/ InHub("outage", Outage!Next)
  \/ InHub("failing", Faulty!Next)
  \/ InHub("silent", Silent!Next)
  \/ InListener("listener", Linked!Next)
SceneSpec == SceneInit /\ [][SceneNext]_allVars

(* A subscriber's picture is the hub's: from its hello on, and whatever    *)
(* reorgs and new blocks were fanned out while it registered or changed    *)
(* networks, a socket with nothing under way for its network holds exactly *)
(* the ring's blocks (fanOut, deliver, subscribe). For a lone socket: only *)
(* Hub.Run refreshes a ring that is warm, so no two refreshes of a network *)
(* overtake each other, as they can with two (api/ws.go:292).              *)
LoneFollowed ==
  /\ scene = "warm" => WarmHub!Followed
  /\ scene = "switch" => Switching!Followed /\ Switching!RingOnChain
  /\ scene = "paged" => Paged!Followed
  /\ scene = "cold" => TypeOK

(* Readiness is the truth about the link as soon as the callbacks have     *)
(* run, whatever order the first subscription and the events came in: a    *)
(* replica without a feed must leave the Service (markSubscribed). And     *)
(* nothing is lost unmarked: where two notifications the hub reads one     *)
(* after the other are not consecutive, a Reconnected stands between them. *)
ListenHonest == scene = "listener" => Linked!ListenHonest

(* Once the chain and the database are quiet, every open socket ends with  *)
(* the stored chain and the newest sample, whatever was lost with the      *)
(* connection or failed. Only a rewind nothing was committed after, a      *)
(* query of Hub.Run that failed, and a reconcile that found no client wait *)
(* for the next notification, and one is enough; nothing is assumed of the *)
(* collector, which does not sample a quiet chain while it gets heads      *)
(* (run.go:163). A peer that answers no ping, next to one that does, loses *)
(* its socket and frees its slot.                                          *)
FeedSettles ==
  /\ <>[](scene \in {"outage", "failing"} => Outage!Settled(c1) \/ Outage!Waits(c1))
  /\ (scene = "silent" /\ Silent!Open(c1)) ~> (scene = "silent" => conn[c1].st = "gone")

(* Goroutines are scheduled, lib/pq reconnects, and every ping interval    *)
(* ends.                                                                   *)
SceneFairness ==
  /\ WF_allVars(\/ InHub("outage", Outage!Handle \/ Outage!Refresh(Outage!Loop))
             \/ InHub("failing", Faulty!Handle \/ Faulty!Refresh(Faulty!Loop)))
  /\ WF_allVars(InHub("outage", Outage!Reconnect))
  /\ WF_allVars(\/ InHub("outage", Outage!Serve(c1) \/ Outage!Refresh(c1))
             \/ InHub("failing", Faulty!Serve(c1) \/ Faulty!Refresh(c1)))
  /\ WF_allVars(InHub("outage", Outage!Write(c1)) \/ InHub("failing", Faulty!Write(c1)) \/ InHub("silent", Silent!Write(c1)))
  /\ WF_allVars(InHub("outage", Outage!Ping(c1)) \/ InHub("failing", Faulty!Ping(c1)) \/ InHub("silent", Silent!Ping(c1)))
  /\ WF_allVars(InHub("outage", Outage!Return(c1)) \/ InHub("failing", Faulty!Return(c1)) \/ InHub("silent", Silent!Return(c1)))
SceneFairSpec == SceneSpec /\ SceneFairness

(* Sockets, and the two networks of "switch", are interchangeable where    *)
(* only safety is asked.                                                   *)
Symmetry == Permutations({c1, c2}) \cup Permutations({n1, n2})
=============================================================================
