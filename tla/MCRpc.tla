------------------------------- MODULE MCRpc --------------------------------
(* Instances of Pool, Throttle and LogRange: whatever a caller asks an     *)
(* endpoint ends. Their safety, LogRange's aside, is in MCPool and         *)
(* MCThrottle. A behaviour is one scene: one component with its constants. *)
EXTENDS Integers

CONSTANT Scenes   \* the scenes a run explores
CONSTANTS c1, c2

VARIABLES
  scene, active, cooling, probing, verified, disabled, at, boot, call, up,
  faults, broke, batchCap, lastLimit, lastRecovery, backoff, blockedUntil,
  now, batch, work, limits, wave, logRange, calm, limit, moves, scan

vars ==
  <<scene, active, cooling, probing, verified, disabled, at, boot, call, up,
    faults, broke, batchCap, lastLimit, lastRecovery, backoff, blockedUntil,
    now, batch, work, limits, wave, logRange, calm, limit, moves, scan>>

Regained == INSTANCE Pool WITH
  Callers <- {c1, c2}, Cooldown <- 1, MaxFaults <- 1, N <- 2, Archives <- {},
  Wrong <- {}, Steady <- {}
Ends == INSTANCE Throttle WITH
  MinBackoff <- 1, MaxBackoff <- 1, Quiet <- 1, Lists <- {c1, c2},
  Fast <- {c2}, Workers <- {c1, c2}, Of <- [c \in {c1, c2} |-> c],
  Holds <- [c \in {c1, c2} |-> IF c = c1 THEN 1 ELSE 2], Slots <- 1,
  Items <- 2, MaxCap <- 2, MinCap <- 1, MaxAttempts <- 2, MaxLimits <- 2,
  MaxTime <- 2
Beside == INSTANCE Throttle WITH
  MinBackoff <- 1, MaxBackoff <- 1, Quiet <- 1, Lists <- {c1, c2},
  Fast <- {c2}, Workers <- {c1, c2}, Of <- [c \in {c1, c2} |-> c],
  Holds <- [c \in {c1, c2} |-> 2], Slots <- 2, Items <- 2, MaxCap <- 2,
  MinCap <- 1, MaxAttempts <- 2, MaxLimits <- 1, MaxTime <- 1
Logs == INSTANCE LogRange WITH
  Scans <- {c1}, To <- 7, MaxLogRange <- 8, Limits <- {0, 1, 2, 3, 8},
  Quiet <- 2, MaxMoves <- 3

(* What the constants of each component must be. *)
ASSUME Fitting ==
  /\ Regained!PoolAssumption
  /\ Ends!ThrottleAssumption
  /\ Beside!ThrottleAssumption
  /\ Logs!LogRangeAssumption

Unused == "unused"
BesidePool ==
  <<batchCap, lastLimit, lastRecovery, backoff, blockedUntil, now, batch,
    work, limits, wave, logRange, calm, limit, moves, scan>>
OnlyPool ==
  /\ batchCap = Unused /\ lastLimit = Unused /\ lastRecovery = Unused
  /\ backoff = Unused /\ blockedUntil = Unused /\ now = Unused
  /\ batch = Unused /\ work = Unused /\ limits = Unused /\ wave = Unused
  /\ logRange = Unused /\ calm = Unused /\ limit = Unused /\ moves = Unused
  /\ scan = Unused
BesideThrottle ==
  <<active, cooling, probing, verified, disabled, at, boot, call, up, faults,
    broke, logRange, calm, limit, moves, scan>>
OnlyThrottle ==
  /\ active = Unused /\ cooling = Unused /\ probing = Unused
  /\ verified = Unused /\ disabled = Unused /\ at = Unused /\ boot = Unused
  /\ call = Unused /\ up = Unused /\ faults = Unused /\ broke = Unused
  /\ logRange = Unused /\ calm = Unused /\ limit = Unused /\ moves = Unused
  /\ scan = Unused
BesideLogRange ==
  <<active, cooling, probing, verified, disabled, at, boot, call, up, faults,
    broke, batchCap, lastLimit, lastRecovery, backoff, blockedUntil, now,
    batch, work, limits, wave>>
OnlyLogRange ==
  /\ active = Unused /\ cooling = Unused /\ probing = Unused
  /\ verified = Unused /\ disabled = Unused /\ at = Unused /\ boot = Unused
  /\ call = Unused /\ up = Unused /\ faults = Unused /\ broke = Unused
  /\ batchCap = Unused /\ lastLimit = Unused /\ lastRecovery = Unused
  /\ backoff = Unused /\ blockedUntil = Unused /\ now = Unused
  /\ batch = Unused /\ work = Unused /\ limits = Unused /\ wave = Unused

Init ==
  /\ scene \in Scenes
  /\ \/ scene = "regained" /\ Regained!Init /\ OnlyPool
     \/ scene = "ends" /\ Ends!Init /\ OnlyThrottle
     \/ scene = "beside" /\ Beside!Init /\ OnlyThrottle
     \/ scene = "logs" /\ Logs!Init /\ OnlyLogRange

(* A step A of the component that scene s is about. *)
InPool(s, A) == scene = s /\ A /\ UNCHANGED <<scene, BesidePool>>
InThrottle(s, A) == scene = s /\ A /\ UNCHANGED <<scene, BesideThrottle>>
InLogRange(s, A) == scene = s /\ A /\ UNCHANGED <<scene, BesideLogRange>>
Next ==
  \/ InPool("regained", Regained!Next)
  \/ InThrottle("ends", Ends!Next)
  \/ InThrottle("beside", Beside!Next)
  \/ InLogRange("logs", Logs!Next)
Spec == Init /\ [][Next]_vars

(* A log scan that ends well returns every block of its range once, in     *)
(* order, however often the width was halved, or grew back, on the way.    *)
LogsExact == scene = "logs" => Logs!TypeOK /\ Logs!LogsExact

(* A primary that is back for good gets the ordinary calls back for good.  *)
PrimaryRegained ==
  <>[](scene = "regained" => 0 \in up) => <>[](scene = "regained" => (Regained!Running => active = 0))

(* Whatever is asked ends. A call of the pool, whatever others do to the   *)
(* routing (the two callers are interchangeable, so one is asked about); a *)
(* list, as each refusal narrows the chunk and each 429 counts: on a       *)
(* metered endpoint that two lists share, where no request leaves during a *)
(* cooldown either of them opened however long it had queued, and beside a *)
(* list of Fast requests that takes no slot; a log scan, as                *)
(* refusals narrow the piece down to a single block and the width does not *)
(* grow back between a refusal and the next ask.                           *)
AsksEnd ==
  /\ [](/\ scene = "regained" => Regained!TypeOK
        /\ scene = "ends" => Ends!TypeOK /\ Ends!CooldownKept)
  /\ (scene = "regained" /\ call[c1].pc = "pick") ~> (scene = "regained" => call[c1].pc = "idle")
  /\ (scene = "ends" /\ batch[c1].on) ~> (scene = "ends" => ~batch[c1].on)
  /\ (scene = "beside" /\ batch[c1].on) ~> (scene = "beside" => ~batch[c1].on)
  /\ (scene = "logs" /\ scan[c1].pc = "ask") ~> (scene = "logs" => scan[c1].pc \in {"done", "failed"})

(* One scene runs, so a conjunct below is fairness of one action of each,  *)
(* or of two actions of it that are never enabled together.                *)
(* Pool: loops call again on their timers, requests time out, time passes, *)
(* and contexts, which end with the process, do not end every probe.       *)
(* Throttle: workers run, slots are handed out in turn, cooldowns end.     *)
(* LogRange: requests are answered and the back-off ends.                  *)
Fairness ==
  /\ WF_vars(InPool("regained", Regained!Tick) \/ InThrottle("ends", Ends!Tick)
             \/ InThrottle("beside", Beside!Tick) \/ InLogRange("logs", Logs!Step(c1)))
  /\ WF_vars(InPool("regained", Regained!BootCheck \/ Regained!BootEnd) \/ InThrottle("ends", Ends!Finish(c1))
             \/ InThrottle("beside", Beside!Finish(c1)))
  /\ \A c \in {c1, c2} :
       /\ WF_vars(InPool("regained", Regained!Begin(c) \/ Regained!Step(c)) \/ InThrottle("ends", Ends!Step(c))
                  \/ InThrottle("beside", Beside!Step(c)))
       /\ SF_vars(InPool("regained", Regained!Probe(c)) \/ InThrottle("ends", Ends!Slot(c))
                  \/ InThrottle("beside", Beside!Slot(c)))
FairSpec == Spec /\ Fairness
=============================================================================
