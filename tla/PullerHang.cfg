\* One goroutine, one ImageWarm; its secret, if any, has credentials for the
\* registry, so ImagePull goes to the registry, which may never answer.
CONSTANTS
  w1 = w1  w2 = w2  i1 = i1  i2 = i2
  Images = {i1}
  Warms = {w1}
  WarmImage <- MCOneWarm
  NoKey = NoKey
  Callers = {t1}
  SecretKinds <- MCSecretsMatching
  QueueCap = 1
  MaxOps = 1
  Deadline = 1
  MaxProgress = 0

SPECIFICATION Spec
PROPERTY EveryRequestSettles
