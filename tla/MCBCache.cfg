SPECIFICATION Spec
CONSTANTS
  Threads = {t1}
  Devices = {0, 1}
  Keys <- MCKeys
  Values = {0, 1}
  NBufs = 2
  Buckets = {0, 1}
  Hash <- MCHash
INVARIANTS
  TypeOK
  ChainsEnd
  HashExact
  
  WrittenThrough
  
  RefsExact
