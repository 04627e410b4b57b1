CONSTANTS
  NIL = NIL
  Task = {t1, t2}
  First = t1
  Entry = {e1, e2, e3}
  MaxFd = 2
  NONE = NONE
  Users = {t1, t2}
  Driver = {t1}
  NodeCount = 4
  Names = {"d", "f"}
  Path <- Paths
  Disk <- Volume
  MaxCalls = 1
  Openers = {t1, t2}
  Ptys = {p1, p2}
  ArrayCount = 1
SPECIFICATION Spec
CHECK_DEADLOCK FALSE
INVARIANTS NodesRight BytesRight CallsRight
PROPERTIES StepsRight ClosedUnblocks
