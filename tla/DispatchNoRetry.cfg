SPECIFICATION PlaygroundSpec
CONSTANTS
  r1 = r1  r2 = r2  r3 = r3  w1 = w1  w2 = w2
  c1 = c1  c2 = c2  n1 = n1
  None = None
  Requests = {r1, r2}
  Workers = {w1, w2}
  Codes = {c1, c2}
  Names = {n1}
  Archives = {}
  Results <- MCResults
  Built <- MCBuilt
  CodeOf <- MCCodeOf
  NameOf <- MCNameOf
  Capacity <- MCOne
  MaxQueue = 1
  Retry = 0
  MaxPolls = 3
  Faults = {"late", "drop", "lose", "delay", "crash", "restart", "slow", "refuse", "stop"}
  MaxCrashes = 1
INVARIANTS PlaygroundTypeOK SlotsExact
PROPERTIES ImplementsSandbox
