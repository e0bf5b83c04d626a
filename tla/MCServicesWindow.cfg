SPECIFICATION ServicesSpec
CONSTANTS
  t1 = t1
  t2 = t2
  NoTimer = NoTimer
  Parts = {"soft"}
  Timers = {t1, t2}
  W = 8
  Times = {1, 2}
  SetBusy = FALSE
  Preempts = TRUE
  MaxLate = 1
  MaxSlip = 1
  H = 3
  MIN = 3
  MemSize = 20
  Base = 1
  Sizes = {1, 4, 8}
  Aligns = {4}
INVARIANTS ParkedWithoutTimers
