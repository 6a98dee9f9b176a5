\* The detector is switched off: every default timeout is negative.
SPECIFICATION Spec
CONSTANTS
  t1 = t1  t2 = t2  t3 = t3
  None = None
  Threads = {t1, t2, t3}
  Lockers = {1, 2}
  Objects = {1, 2, 3}
  MaxAddress = 3
  Kind <- MCKind
  Home <- MCHome
  DefaultOf <- MCEndless
  Timeouts = {0}
  Ordered = {t1, t2}
  Width = 8
  TicksPerMs = 4
PROPERTIES NegativeNeverGivesUp
