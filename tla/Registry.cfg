SPECIFICATION Spec
CONSTANTS
  main = main
  s1 = s1
  s2 = s2
  u1 = u1
  u2 = u2
  nobody = nobody
  Codes <- MCCodes
  Roms = {1, 2, 3, 4}
  Canon <- MCCanon
  Strange = {4}
  BusOf <- MCBusOf
  Busses = 2
  Dummy = 3
  Capacity = 2
  Main = main
  Scanners = {s1}
  Users = {u1, u2}
  Nobody = nobody
  Configs <- MCConfigs
  MaxScans = 3
INVARIANTS
  TypeOK
  EachDeviceOnce
  UsedIsAlive
  FoundIsBegun
  NoWaitCycle
