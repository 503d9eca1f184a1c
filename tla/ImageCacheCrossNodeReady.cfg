\* Two eligible nodes, one Image; one warmer daemon restarts once.
CONSTANTS
  Nodes = {n1, n2}
  Caches = {c1}
  Images = {i1}
  Secrets = {s1}
  NodeStates <- MCNodeStatesStable
  NoWarm = NoWarm
  MaxNodeChanges = 0
  MaxCacheEdits = 0
  MaxApiErrors = 0
  MaxRestarts = 1
  MaxCacheDeletes = 0

SPECIFICATION Spec
INVARIANT WarmReadyMeansPulled
