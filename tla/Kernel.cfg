CONSTANTS
  Parts = {"page", "edge", "level", "acpi", "serial", "kmsg", "pci", "net", "heap", "frames"}
  Frames = {f1, f2, f3, f4}
  AcpiTasks = {"t1", "t2"}
  QueueLimit = 2
  SemaphoreUnits = 2
  Processors = 2
  FunctionCount = 3
  RingSize = 3
  NetFrames = 5
  NetReaders = {"r1", "r2"}
  Allocators = {t1, t2}
  HeapSize = 12
  HeapPage = 2
  PerPage = 4
  Sizes = {1, 2, 3}
  Alignments = {1, 2}
  MaxBlocks = 4
  MaxStatic = 5
  PageSize = 2
  BitsPerByte = 2
  Bytes = 10
  BitmapPages = 1
  MinBase = 4
  MemoryMaps <- SomeMaps
  HeapChunks <- ChunksOfHeap
  Limit <- Limits
  Orders = {0, 1, 2}
SPECIFICATION Spec
INVARIANTS MemoryRight DevicesRight
PROPERTY StepsRight
CHECK_DEADLOCK FALSE
