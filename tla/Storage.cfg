CONSTANTS
  CommandSlots = 2
  AhciSectors = 2
  AhciUnit = 2
  AhciRequests = 2
  AhciBlocks = 3
  AhciLate = 2
  FloppyDisks <- SomeFloppies
  FloppySpt <- TwoGeometries
  FloppyCylinders = 1
  FloppyRequests = 2
  FloppySectors = 2
  FloppyRetries = 1
  FloppyBad = 1
  IdeTasks = {"t1", "t2"}
  IdeKinds <- TwoDisks
  IdeIdent <- TwoSizes
  IdeUnit = 2
  IdeLimit = 4
  IdeSlack = 2
  IdeRequests <- SomeRequests
  N = 6
  Count = 7
  Tables <- DiskTables
  Guid = {TRUE, FALSE}
  Devices <- DeviceSets
  Labels = {"boot", "usr"}
  Room = 4
  Letters = 3
SPECIFICATION Spec
CHECK_DEADLOCK FALSE
INVARIANTS SectorsRight VolumesRight
PROPERTIES ReportsRight RequestsEnd
