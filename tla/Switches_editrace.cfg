SPECIFICATION Spec
CONSTANTS
  light = light
  socket = socket
  devA = devA
  devB = devB
  hall = hall
  AllOff = AllOff
  NoRoom = NoRoom
  Pins = {light, socket}
  Lights = {light}
  Devs = {devA, devB}
  DevOf <- MCDevOf
  Rooms = {hall}
  RoomOf <- MCRoomOf
  Latches = {1, 2}
  FsPins = {}
  PressTimes = {5}
  Entries <- PairEntries
  InitTables <- PairTables
  MaxTable = 3
  RescanDuringPress = FALSE
  EditDuringPress = TRUE
PROPERTIES
  DrivesItsTarget
