SPECIFICATION Spec
CONSTANTS
  Bits = 4
  FamBits = 1
  Devices <- MCDevices
  Targets <- MCTargets
  NoTarget = NoTarget
  MaxAlarms = 3
  Stolen = FALSE
INVARIANTS
  HandsRealDevices
  NoneTwice
  NoneMissed
