\* One eligible node, one Image, no changes or failures; the warmer daemon
\* was started before the Image was created.
CONSTANTS
  Nodes = {n1}
  Caches = {c1}
  Images = {i1}
  Secrets = {s1}
  NodeStates <- MCNodeStatesStable
  NoWarm = NoWarm
  MaxNodeChanges = 0
  MaxCacheEdits = 0
  MaxApiErrors = 0
  MaxRestarts = 0
  MaxCacheDeletes = 0

SPECIFICATION Spec
PROPERTY FanOutConverges
