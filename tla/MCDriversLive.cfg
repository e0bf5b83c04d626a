SPECIFICATION DriversFairSpec
CONSTANTS
  a = a
  b = b
  x = x
  y = y
  o1 = o1
  o2 = o2
  w1 = w1
  w2 = w2
  c1 = c1
  c2 = c2
  Nobody = Nobody
  NoWork = NoWork
  Parts = {"pipe", "serial", "console", "work"}
  Threads = {a, b}
  Queues = {"reader", "writer"}
  Finite = {TRUE, FALSE}
  Readers = {a}
  Writers = {b}
  Capacity = 2
  Sizes = {1, 3}
  Waiters = {a}
  Texts <- ShortTexts
  Depth = 2
  Chars = {x, y}
  Bufsz = 3
  SemMax = 2
  Others = {o1}
  Modes = {TRUE}
  Works = {w1, w2}
  Callers = {c1, c2}
  Habits <- NoHabits
PROPERTIES CloseIsSeen ConsoleResponds WorkGoesOn
