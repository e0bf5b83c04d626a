SPECIFICATION SemFairSpec
CONSTANTS
  a = a
  b = b
  c = c
  Idle = Idle
  NoThread = NoThread
  Defunct = Defunct
  Sem = Sem
  Threads = {a, b, Idle}
  BootThreads = {a, b, Idle}
  Prios = {0}
  PRIORITY_MAX = 2
  IdlePriority = 1
  Queues = {Sem}
  MaxLock = 0
  Masked = {"delete"}
  Flag = "fifo"
  SEM_VALUE_MAX = 1
  InitialValue = 0

PROPERTIES EveryWaiterServed RoundRobin
