SPECIFICATION MutexSpec
CONSTANTS
  a = a
  b = b
  c = c
  m1 = m1
  m2 = m2
  Idle = Idle
  NoThread = NoThread
  Defunct = Defunct
  Threads = {a, b, c, Idle}
  BootThreads = {a, b, c, Idle}
  Prios = {0, 1, 2}
  PRIORITY_MAX = 4
  IdlePriority = 3
  Mutexes = {m1}
  Queues = {m1}
  Detachable = {}
  MaxLock = 0
  Masked = {"delete"}
  MUTEX_HOLD_MAX = 2
INVARIANTS MutexSound PriorityProtocol PriorityRestored NoInversion
SYMMETRY Symmetry
