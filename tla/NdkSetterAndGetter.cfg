SPECIFICATION Spec
CONSTANTS
  t1 = t1
  t2 = t2
  t3 = t3
  neon = neon
  aes = aes
  Thread = {t1, t2}
  DetectedCount = 0
  DetectedFlags <- MCFlags
  DetectedId = 5
  SetArgs <- MCSetArgs
  Serialised = FALSE
INVARIANT SetSticks
