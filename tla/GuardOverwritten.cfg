\* Guards are also assigned to guards that hold a lock.
SPECIFICATION MovingSpec
CONSTANTS
  t1 = t1  t2 = t2  t3 = t3
  None = None
  Threads = {t1, t2, t3}
  Lockers = {1, 2}
  Objects = {1, 2, 3}
  MaxAddress = 3
  Kind <- MCKind
  Home <- MCHome
  DefaultOf <- MCShort
  Timeouts = {0}
  Ordered = {t1, t2}
  Width = 8
  TicksPerMs = 4
INVARIANTS LocksMatchGuards
