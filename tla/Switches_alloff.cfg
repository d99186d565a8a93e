SPECIFICATION Spec
CONSTANTS
  light = light
  socket = socket
  devA = devA
  devB = devB
  hall = hall
  AllOff = AllOff
  NoRoom = NoRoom
  Pins = {light, socket}
  Lights = {light}
  Devs = {devA, devB}
  DevOf <- MCDevOf
  Rooms = {hall}
  RoomOf <- MCRoomOf
  Latches = {1, 2}
  FsPins = {light}
  PressTimes = {5, 20}
  Entries <- MCEntries
  InitTables <- MCTables
  MaxTable = 4
  RescanDuringPress = FALSE
  EditDuringPress = FALSE
INVARIANTS
  AllOffMissesNone
