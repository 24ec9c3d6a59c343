SPECIFICATION LiveSpec
CONSTANTS
  t1 = t1
  t2 = t2
  t3 = t3
  Tasks = {idle, t1, t2, t3}
  Idle = idle
  NULL = NULL
  Quantum <- MCUnitQuanta
  BoostInterval = 3
PROPERTY ReadyRuns
