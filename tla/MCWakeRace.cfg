SPECIFICATION SemSpec
CONSTANTS
  a = a
  b = b
  c = c
  Idle = Idle
  NoThread = NoThread
  Defunct = Defunct
  Sem = Sem
  Threads = {a, b, c, Idle}
  BootThreads = {a, b, c, Idle}
  Prios = {0, 1}
  PRIORITY_MAX = 3
  IdlePriority = 2
  Queues = {Sem}
  MaxLock = 0
  Masked = {"delete"}
  Flag = "prio"
  SEM_VALUE_MAX = 2
  InitialValue = 1
INVARIANTS WakesAThread
SYMMETRY Symmetry
