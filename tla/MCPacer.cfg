CONSTANT Scenes = {"budget", "shared", "turns", "lanes", "slow"}
CONSTANTS c1 = c1 c2 = c2 c3 = c3 NoOne = NoOne
\* Pacer's own: the scene "budget"
CONSTANTS
  Callers = {c1, c2, c3} FastCallers = {c1}
  Unit = 1 Rate = 2 MaxWant = 2 MaxPacerWait = 2 Cancels = TRUE WindowSize = 1
SPECIFICATION SceneFairSpec
INVARIANT WithinBudget
PROPERTY FirstCome
PROPERTY EveryWaitEnds
