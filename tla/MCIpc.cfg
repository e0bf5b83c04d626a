SPECIFICATION IpcSpec
CONSTANTS
  a = a
  b = b
  m1 = m1
  m2 = m2
  x = x
  y = y
  Idle = Idle
  NoThread = NoThread
  NoRequest = NoRequest
  Unset = Unset
  Null = Null
  Defunct = Defunct
  Receivers = Receivers
  Senders = Senders
  Getters = Getters
  Putters = Putters
  Parts = {"event", "mailbox", "mq", "pool", "dataqueue", "mutexes"}
  Threads = {a, b, Idle}
  BootThreads = {a, b, Idle}
  Prios = {0, 1}
  PRIORITY_MAX = 3
  IdlePriority = 2
  Queues = {Receivers, Senders, Getters, Putters}
  MaxLock = 0
  Masked = {"delete"}
  Flag = "prio"
  Bits = {x, y}
  Requests <- SomeRequests
  Size = 2
  MaxMsgs = 2
  Values = {m1, m2}
  Blocks = {1, 2}
  LWM = 0
  Detachable = {Getters}
  MUTEX_HOLD_MAX = 1
INVARIANTS MbSound RingConsistent NobodyStranded NobodyWaitsInVain DataIntact MutexSound
PROPERTIES ContractSpec ClearTakesOnce InOrder QueueContract
SYMMETRY Symmetry
