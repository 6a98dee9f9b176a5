SPECIFICATION BorrowSpec
CONSTANTS
  Idents = {plain, spaced}
  Qualified = {spaced}
  MaxScopes = 3
  MaxDeclarations = 3
  Nobody = none
INVARIANTS
  ResetsReported
CHECK_DEADLOCK FALSE
