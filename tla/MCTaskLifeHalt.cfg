SPECIFICATION LifeFairSpec
CONSTANTS
  Tasks = {idle, init, a}
  Idle = idle
  InitTask = init
  KernelTasks = {}
  NULL = NULL
  Quantum <- MCUnitQuanta
  BoostInterval = 4
PROPERTY NotifiedParentRuns
CHECK_DEADLOCK FALSE
