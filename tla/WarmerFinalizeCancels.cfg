\* Two ImageWarms on the node name the same image (two Images cache it);
\* the daemon starts with one of them being deleted.
CONSTANTS
  w1 = w1  w2 = w2  i1 = i1  i2 = i2
  Images = {i1}
  Warms = {w1, w2}
  WarmImage <- MCSharedImage
  NoKey = NoKey
  Callers = {t1, t2}
  SecretKinds <- MCSecretsMatching
  QueueCap = 1
  MaxOps = 1
  Deadline = 1
  MaxProgress = 0

SPECIFICATION Spec
INVARIANT FinalizeSparesLivePulls
