\* Two nodes, one tainted or untainted once, one Image, a secret edit,
\* one failed call or pull, and two warmer daemon starts.
CONSTANTS
  Nodes = {n1, n2}
  Caches = {c1}
  Images = {i1}
  Secrets = {s1, s2}
  NodeStates <- MCNodeStatesStable
  NoWarm = NoWarm
  MaxNodeChanges = 1
  MaxCacheEdits = 1
  MaxApiErrors = 1
  MaxRestarts = 2
  MaxCacheDeletes = 0

SPECIFICATION Spec
INVARIANT TypeOK
