SPECIFICATION Spec
CONSTANTS
  t = t
  a = a
  nobody = nobody
  Channels = {0, 1}
  NoChannel = 255
  MaxFaults = 1
  T = t
  A = a
  Nobody = nobody
  ChannelOf <- MCChannelOf
  Temps <- MCTemps
  Volts = {3}
  InputCount = 2
  CfgData <- MCCfgData
  CfgSize = 2
  Jobs <- MCJobs
INVARIANTS
  ControllerIsRight
  ReadingsAreTrue
  CfgArrives
