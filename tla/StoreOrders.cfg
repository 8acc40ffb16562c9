SPECIFICATION Spec
CONSTANTS
  u1 = u1
  u2 = u2
  r1 = r1
  r2 = r2
  None = None
  Users = {u1, u2}
  Products <- MCProducts
  Requests = {r1, r2}
  Ops <- OrderOps
  Opening <- MCOpening
  OpeningCarts <- MCFullCarts
  MaxOrders = 2
  MaxQty = 1
  MaxStock = 2
  Deltas <- MCDeltas
SYMMETRY RequestSymmetry
INVARIANTS
  TypeOK
  StockConserved
  LockedRowsFresh
  NoWaitCycle
PROPERTIES
  Implements
