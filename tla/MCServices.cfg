SPECIFICATION ServicesFairSpec
CONSTANTS
  t1 = t1
  t2 = t2
  NoTimer = NoTimer
  Parts = {"soft", "hard", "heap"}
  Timers = {t1, t2}
  W = 8
  Times = {1, 2}
  SetBusy = FALSE
  Preempts = FALSE
  MaxLate = 1
  MaxSlip = 1
  H = 3
  MIN = 3
  MemSize = 20
  Base = 1
  Sizes = {1, 4, 8}
  Aligns = {4}
INVARIANTS TimersSound ParkedWithoutTimers NoOversleep HeapSound
PROPERTIES NothingEarly TimersServed
