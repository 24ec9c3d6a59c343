SPECIFICATION Spec
CONSTANTS
  t1 = t1
  t2 = t2
  t3 = t3
  Tasks = {idle, t1, t2, t3}
  Idle = idle
  NULL = NULL
  Quantum <- MCQuanta
  BoostInterval = 4
SYMMETRY MCSymmetry
INVARIANTS
  TypeOK
  QueueWF
  NoLostTask
  QueuedIsSchedulable
  OneRunning
  CallerState
  IdleAvailable
  
  CountNeverShort
PROPERTIES
  BoostPromotesQueued
  OnlyBoostPromotes
