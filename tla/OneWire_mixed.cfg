SPECIFICATION BusSpec
CONSTANTS
  button = button
  light = light
  socket = socket
  busA = busA
  busB = busB
  Devices = {button, light, socket}
  Channels = {busA, busB}
  BusOf <- MCBusOf
  Worker = worker
  Files = {file}
  Nobody = Nobody
  Together = TRUE
INVARIANTS
  CommandReachesItsDevice
