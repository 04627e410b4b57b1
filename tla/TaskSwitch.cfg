CONSTANTS
  c0 = c0
  c1 = c1
  boot0 = boot0
  boot1 = boot1
  NONE = NONE
  Task = {boot0, boot1, caretaker, t}
  Cpu = {c0, c1}
  Bsp = c0
  BootTask <- MCBootTask
  Caretaker = caretaker
  MaxDisable = 2
  Waiters = {t}
  Pinners = {boot0}
  Nesters = {caretaker}
SPECIFICATION Spec
INVARIANTS TypeOK StackExclusive PoolNotRunning UniprocOnBsp NoNullEventCall
PROPERTIES LoadsSavedContext StoppedStaysOut DisabledStays
