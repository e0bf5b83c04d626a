SPECIFICATION Spec
CONSTANTS
  a = a
  b = b
  c = c
  Idle = Idle
  NoThread = NoThread
  Defunct = Defunct
  Threads = {a, b, Idle}
  BootThreads = {a, Idle}
  Prios = {0, 1}
  PRIORITY_MAX = 3
  IdlePriority = 2
  Queues = {}
  MaxLock = 0
  Masked = {"resume"}
INVARIANTS DeletedLeavesQueues

