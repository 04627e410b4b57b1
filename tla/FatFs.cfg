CONSTANTS
  Parts = {"fat", "gap", "crash", "fault", "io", "dir", "root", "table12", "table16", "table32", "mount", "handle", "name"}
  NoOne = NoOne
  Boots <- SomeBoots
  Devices <- SomeDevices
  IntMax = 7
  FileSizes = {0, 3, 14, 15}
  DirSize = 6
  Sector = 2
  Times <- SomeTimes
  Modes <- SomeModes
  Letters = {"A"}
  Bad = "bad"
  Base = 2
  Ext = 1
  Reserved <- OneName
  MaxPath = 8
SPECIFICATION Spec
INVARIANTS DiskRight CallsRight
PROPERTY StepsRight
CHECK_DEADLOCK FALSE
