SPECIFICATION PartSpec
SYMMETRY PartSymmetry
CONSTANTS
  Nonces = {n1, n2}
  Askers = {k1, k2}
  PowTtl = 2
  PowUses = 2
  PowMin = 3
  PowMax = 5
  PowQueue = 2
  PowHorizon = 2
  Loads = {0, 2}
  Hashes <- MCHashes
  Addrs = {e1, e2, e3}
  MaxIps = 2
  PerIp = 2
  Window = 1
  MaxClearings = 2
  RateHorizon = 3
  SessionIds = {n1, n2}
  SessionTtl = 2
  SessionMax = 4
  SessionHorizon = 6
  Examples = {e1, e2, e3}
  Programs = {n1, n2}
  small = small
  middle = middle
  large = large
  Answers = {small, middle, large}
  SizeOf <- MCSizeOf
  CacheTtl = 4
  CacheEntries = 2
  CacheBytes = 3
  CacheHorizon = 5
  NumTypes = 2
  Objs = {n1, n2}
  Names = {e1, e2, e3}
  FieldTypes <- MCFieldTypes
  MaxFields = 2
  Null = none
  Vars = {e1, e2, e3}
  MaxBlocks = 3
  MaxEpoch = 2
  Followed = {}
  Idents = {plain, spaced}
  Qualified = {spaced}
  MaxScopes = 2
  MaxDeclarations = 3
  Nobody = none
  None = none
  main = main
  here = here
  aside = aside
  lib = lib
  relative = relative
  based = based
  Files = {main, here, aside, lib}
  Main = main
  Ids = {relative, based}
  Target <- MCTarget
  Missing = none
  MaxImports = 2
INVARIANTS
  NonceBudget
  ChallengeKept
  WindowBudget
  SessionEnds
  CyclesReported
  NoLeak
  ViewsReported
  BorrowsReported
  ImportsFollowText
PROPERTIES
  HonestWorkAccepted
  RefusalIsEarned
  SessionKept
  HitIsCurrent
  EvictionIsNeeded
CHECK_DEADLOCK FALSE
