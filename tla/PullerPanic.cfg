\* One goroutine; the secret it finds may lack credentials for the registry.
CONSTANTS
  w1 = w1  w2 = w2  i1 = i1  i2 = i2
  Images = {i1}
  Warms = {w1}
  WarmImage <- MCOneWarm
  NoKey = NoKey
  Callers = {t1}
  SecretKinds <- MCSecretsAll
  QueueCap = 1
  MaxOps = 1
  Deadline = 1
  MaxProgress = 0

SPECIFICATION Spec
INVARIANT WorkerNeverPanics
