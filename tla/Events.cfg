SPECIFICATION Spec
CONSTANTS
  NT = 1
  Qty = 2
  MaxSeen = 1
  Backlog = 2
  MaxTrouble = 1
INVARIANTS
  Converged
  MarkedRight
  BooksComplete
PROPERTIES
  NeverBack
  LedgerSpec
