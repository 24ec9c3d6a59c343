SPECIFICATION Spec
CONSTANTS
  Threads = {t1, t2}
  Devices = {0}
  Keys <- MCTwoKeys
  Values = {0, 1}
  NBufs = 2
  Buckets = {0}
  Hash <- MCOneBucket
INVARIANTS
  CleanIsSaved
