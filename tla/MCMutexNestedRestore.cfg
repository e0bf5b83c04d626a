SPECIFICATION MutexSpec
CONSTANTS
  a = a
  b = b
  c = c
  m1 = m1
  m2 = m2
  Idle = Idle
  NoThread = NoThread
  Defunct = Defunct
  Threads = {a, b, Idle}
  BootThreads = {a, b, Idle}
  Prios = {0, 1}
  PRIORITY_MAX = 3
  IdlePriority = 2
  Mutexes = {m1, m2}
  Queues = {m1, m2}
  Detachable = {}
  MaxLock = 0
  Masked = {"delete"}
  MUTEX_HOLD_MAX = 2
INVARIANTS PriorityRestored
SYMMETRY SymmetryTwo
