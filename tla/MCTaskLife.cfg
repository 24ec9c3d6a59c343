SPECIFICATION LifeSpec
CONSTANTS
  Tasks = {idle, init, a, b, c}
  Idle = idle
  InitTask = init
  KernelTasks = {init, a, b}
  NULL = NULL
  Quantum <- MCUnitQuanta
  BoostInterval = 3
INVARIANTS
  
  FamilyTree
  NoOrphans
  BlockedIsWaiting
  

  
  
CHECK_DEADLOCK FALSE
SYMMETRY MCSymmetry
