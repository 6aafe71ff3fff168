------------------------------ MODULE MCPacer -------------------------------
(* Small instances of Pacer, the call budget of an endpoint: one           *)
(* goroutine, the tick, calls in the fast lane. A behaviour is one scene,  *)
(* Pacer with its constants; those of the scene "budget" are the cfg's.    *)
EXTENDS Pacer

CONSTANT Scenes   \* the scenes a run explores
CONSTANTS c1, c2, c3

VARIABLE scene

allVars ==
  <<scene, vars>>

Sharing == INSTANCE Pacer WITH
  Unit <- 1, Rate <- 2, MaxWant <- 1, MaxPacerWait <- 2, Cancels <- TRUE,
  WindowSize <- 0
Alternating == INSTANCE Pacer WITH
  Unit <- 2, Rate <- 1, MaxWant <- 1, MaxPacerWait <- 4, Cancels <- TRUE,
  WindowSize <- 1
Lanes == INSTANCE Pacer WITH
  Unit <- 1, Rate <- 2, MaxWant <- 1, MaxPacerWait <- 2, Cancels <- FALSE,
  WindowSize <- 0
Slow == INSTANCE Pacer WITH
  Unit <- 2, Rate <- 1, MaxWant <- 1, MaxPacerWait <- 4, Cancels <- FALSE,
  WindowSize <- 0

(* What the constants of each component must be. *)
ASSUME Fitting ==
  /\ PacerAssumption
  /\ Sharing!PacerAssumption
  /\ Alternating!PacerAssumption
  /\ Lanes!PacerAssumption
  /\ Slow!PacerAssumption

SceneInit ==
  /\ scene \in Scenes
  /\ \/ scene = "budget" /\ Init
     \/ scene = "shared" /\ Sharing!Init
     \/ scene = "turns" /\ Alternating!Init
     \/ scene = "lanes" /\ Lanes!Init
     \/ scene = "slow" /\ Slow!Init

(* A step A of the component that scene s is about. *)
InPacer(s, A) == scene = s /\ A /\ UNCHANGED scene
SceneNext ==
  \/ InPacer("budget", Next) /\ call'[c3] = call[c3]
  \/ InPacer("shared", Sharing!Next)
  \/ InPacer("turns", Alternating!Next)
  \/ InPacer("lanes", Lanes!Next)
  \/ InPacer("slow", Slow!Next)
SceneSpec == SceneInit /\ [][SceneNext]_allVars

(* A computed sleep covers the shortfall and no more, also across the      *)
(* moment the reserve fills and the shared part grows faster; below one    *)
(* call per second the budget holds as well (openWaitLocked, spend).       *)
WaitsExact ==
  /\ scene = "budget" => TypeOK /\ WaitExact
  /\ scene = "turns" => Alternating!TypeOK /\ Alternating!WithinBudget /\ Alternating!WaitExact

(* Every Pacer.Wait ends at two calls a second and at one every two: while *)
(* callers keep coming in either lane none waits for ever (c1 is the tick, *)
(* c2 and c3 are interchangeable). A callsPerSecond of exactly one is      *)
(* outside: its bucket is all reserve, and a fast call a second starves    *)
(* the bulk lane (nitro/pacer.go:106).                                     *)
Kept == scene \in {"lanes", "slow"}
EveryWaitEnds ==
  /\ []WaitsExact
  /\ \A c \in {c1, c2} : (Kept /\ Waits(c)) ~> (Kept => ~Waits(c))

(* Time passes, a goroutine that can run does, and a select that finds the *)
(* turnstile handed over again and again takes that case in the end: Go    *)
(* chooses between ready cases at random.                                  *)
SceneFairness ==
  /\ WF_allVars(InPacer("lanes", Lanes!Tick) \/ InPacer("slow", Slow!Tick))
  /\ \A c \in {c1, c2, c3} :
       /\ WF_allVars(InPacer("lanes", Lanes!Waiting(c)) \/ InPacer("slow", Slow!Waiting(c)))
       /\ SF_allVars(InPacer("lanes", Lanes!Unpark(c)) \/ InPacer("slow", Slow!Unpark(c)))
SceneFairSpec == SceneSpec /\ SceneFairness
=============================================================================
