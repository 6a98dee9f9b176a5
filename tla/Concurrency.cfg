\* Connections; slots of a worker; two threads that only use lock_all and one
\* that captures anything.
SPECIFICATION ConcSpec
CONSTANTS
  Conns = {c1, c2, c3}
  ConnLimit <- MCConnLimit
  Slots = {w1, w2}
  MaxLost = 2
  t1 = t1  t2 = t2  t3 = t3
  None = None
  Threads = {t1, t2, t3}
  Lockers = {1, 2}
  Objects = {1, 2, 3}
  MaxAddress = 3
  Kind <- MCKind
  Home <- MCHome
  DefaultOf <- MCShort
  Timeouts = {0}
  Ordered = {t1, t2}
  Width = 8
  TicksPerMs = 4
INVARIANTS
  ThreadTypeOK
  ConnSlotsExact
  PeakNeverLost
  NothingLeftBehind
  TypeOK
  MutualExclusion
  LocksMatchGuards
  NoCircularWait
PROPERTIES
  ClassSlotReturned
  TimeoutHasCause
  JobEnds
  CapturesEnd
CHECK_DEADLOCK FALSE
