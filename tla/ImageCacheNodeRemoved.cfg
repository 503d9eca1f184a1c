\* Nodes may leave the cluster. One node event, no edits, no failures.
CONSTANTS
  Nodes = {n1, n2}
  Caches = {c1}
  Images = {i1}
  Secrets = {s1}
  NodeStates <- MCNodeStatesAll
  NoWarm = NoWarm
  MaxNodeChanges = 1
  MaxCacheEdits = 0
  MaxApiErrors = 0
  MaxRestarts = 0
  MaxCacheDeletes = 0

SPECIFICATION Spec
PROPERTY WarmsConverge
