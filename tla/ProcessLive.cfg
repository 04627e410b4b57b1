CONSTANTS
  Parts = {"wait", "signals", "sched", "event"}
  FirstTask = "h"
  CreateIn = {"h", "a"}
  Spawns = 2
  SignalNumbers = {2, 9}
  TaskCount = 4
  CpuCount = 2
  Priorities <- FourPriorities
  PinnedTasks = {4}
  MayExit = {2}
  StarvedEvery = 2
  StateLimit = 3
  ApCount = 1
  HaltTasksPerAp = 2
  Rebooters = {"c1"}
  LevelCallers = {"l1"}
  OtherPrograms = {"p1"}
  LastTry = 1
  PanicsOn = {0, 1}
  Sleepers = {2}
  LastSignalled = 2
  MaskSets = {{2}, {2, 9}}
  Kills = 2
  Structures = {"h", "a", "b"}
  LastId = 4
  WaitingIn = {"a"}
  NONE = NONE
  Tasks = {t1, t2}
  Events = {"auto"}
  ManualReset = {}
  Waits <- LongWaits
  Forever = 65535
  TickWrap = 3
  Width = 30
  Second = 5
  CheckEvery = 3
  Ahead = 7
  MaxTime = 12
  Times = {0, 4, 9, 13, 26, 29}
SPECIFICATION Spec
CHECK_DEADLOCK FALSE
PROPERTY WaitsEnd
