CONSTANTS
  Parts = {"handle", "settle", "ending"}
  NoDevice = NoDevice
  Sectors = 4
  Unit = 2
  MaxBlocks = 4
  MaxLost = 3
  Buffer = 9
  Lengths = {1, 2, 3, 5}
  DevLen = 2
  ConfLen = 2
  MaxConf = 1
  MaxString = 1
  MaxDesc = 5
  KeySlots = 2
  Devs = {0, 1}
  MouseRoom = 1
  PortSize = 8
  Inputs = 2
  Switches = {0, 2}
  UsbKeySet = {"lctrl", "ralt", "delete", "a", "capslock"}
SPECIFICATION Spec
PROPERTY Settles
CHECK_DEADLOCK FALSE
