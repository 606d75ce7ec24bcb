CONSTANTS
  Bsp = bsp
  APs = {a1}
  Faults = {0, 13, 14}
  Lines = {32, 255}
  TssBytes = {53}
  MaxInterrupts = 3
SPECIFICATION Spec
INVARIANT ShootdownReachesHandler
CHECK_DEADLOCK FALSE
