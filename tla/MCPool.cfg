CONSTANTS
  N = 3 Archives = {0, 2} Wrong = {2} Steady = {1} Callers = {c1, c2} Cooldown = 1 MaxFaults = 2
SYMMETRY Symmetry
SPECIFICATION Spec
PROPERTY RoutingSteady
