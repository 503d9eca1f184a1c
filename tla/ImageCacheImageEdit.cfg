\* Two image references: an Image's image is edited once. Nodes keep their
\* taints, no failures.
CONSTANTS
  Nodes = {n1, n2}
  Caches = {c1}
  Images = {i1, i2}
  Secrets = {s1}
  NodeStates <- MCNodeStatesStable
  NoWarm = NoWarm
  MaxNodeChanges = 0
  MaxCacheEdits = 1
  MaxApiErrors = 0
  MaxRestarts = 0
  MaxCacheDeletes = 0

SPECIFICATION Spec
PROPERTY WarmsConverge
