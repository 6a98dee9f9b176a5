\* Two requests for one named example, two workers that may poll
\* and post anything at any time; two retries, a queue of one.
SPECIFICATION Spec
CONSTANTS
  r1 = r1  r2 = r2  r3 = r3  w1 = w1  w2 = w2
  c1 = c1  c2 = c2  n1 = n1  x1 = x1  x2 = x2
  None = None
  Requests = {r1, r2}
  Workers = {w1, w2}
  Codes = {c1, c2}
  Names = {n1}
  Archives = {}
  Results = {x1, x2}
  Built = {x1}
  CodeOf <- MCCodeOf
  NameOf <- MCNameOf
  Capacity <- MCCapacity
  MaxQueue = 1
  Retry = 2
  MaxPolls = 2
INVARIANTS TypeOK NoLostWakeup SlotsAccounted QueueSound RequestsTracked NotForgotten DoneIsReleased
  DispatchBudget FirstTimersBounded
