SPECIFICATION Spec
CONSTANTS
  a = a
  b = b
  c = c
  Idle = Idle
  NoThread = NoThread
  Defunct = Defunct
  Threads = {a, b, c, Idle}
  BootThreads = {a, Idle}
  Prios = {0, 1}
  PRIORITY_MAX = 3
  IdlePriority = 2
  Queues = {}
  MaxLock = 1
  Masked = {"resume", "delete", "close"}
INVARIANTS SchedulerSound ServiceSound NoLostPreemption NothingDangles
PROPERTIES DispatchesHighest ClosedStaysClosed
SYMMETRY Symmetry
