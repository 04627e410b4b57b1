CONSTANTS
  Task = {t1, t2, t3}
  Mutex = {m1, m2, m3}
  Slots = 2
  NONE = NONE
SPECIFICATION Spec
INVARIANTS TypeOK MutualExclusion SlotsDistinct LockHasHolder
PROPERTIES WantedIsHeld ImplementsMtxSpec
