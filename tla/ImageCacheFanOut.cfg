\* Three nodes with two taint or untaint events, one Image deleted once,
\* a secret edit, one failed API call; the warmer daemons started before the Image.
CONSTANTS
  Nodes = {n1, n2, n3}
  Caches = {c1}
  Images = {i1}
  Secrets = {s1, s2}
  NodeStates <- MCNodeStatesStable
  NoWarm = NoWarm
  MaxNodeChanges = 2
  MaxCacheEdits = 1
  MaxApiErrors = 1
  MaxRestarts = 0
  MaxCacheDeletes = 1

SPECIFICATION Spec
PROPERTY WarmsConverge
