SPECIFICATION Spec
CONSTANTS
  MaxLevel = 2
  PageSize = 2
  WordSize = 64
  Sizes <- MCSizes
PROPERTY OversizeFails
