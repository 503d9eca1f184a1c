\* Two reconcile goroutines, two ImageWarms naming one image (two Images
\* cache it), so that a finalizer's StopPullImage finds the other's pull;
\* a channel of capacity 1; two PullImage calls; a
\* secret may lack credentials for the registry, crashing the daemon.
CONSTANTS
  w1 = w1  w2 = w2  i1 = i1  i2 = i2
  Images = {i1}
  Warms = {w1, w2}
  WarmImage <- MCSharedImage
  NoKey = NoKey
  Callers = {t1, t2}
  SecretKinds <- MCSecretsAll
  QueueCap = 1
  MaxOps = 2
  Deadline = 1
  MaxProgress = 1

SPECIFICATION Spec
PROPERTY StreamBounded FinalizerRemoved
PROPERTY ImplementsPullPipeline
