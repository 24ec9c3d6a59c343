SPECIFICATION Spec
CONSTANTS
  MaxLevel = 2
  PageSize = 2
  WordSize = 64
  Sizes <- MCSizes
INVARIANTS
  TypeOK
  kheap_verify_integrity
  BlocksPartition
  FailsOnlyWhenFull
PROPERTIES
  GrantCoversRequest
  ImplementsHeap
