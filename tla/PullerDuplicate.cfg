\* Two ImageWarms naming the same image are reconciled by two goroutines.
CONSTANTS
  w1 = w1  w2 = w2  i1 = i1  i2 = i2
  Images = {i1}
  Warms = {w1, w2}
  WarmImage <- MCSharedImage
  NoKey = NoKey
  Callers = {t1, t2}
  SecretKinds <- MCSecretsMatching
  QueueCap = 2
  MaxOps = 2
  Deadline = 1
  MaxProgress = 0

SPECIFICATION Spec
INVARIANT AtMostOneLivePull
