SPECIFICATION FairSpec
CONSTANTS
  u1 = u1
  r1 = r1
  r2 = r2
  None = None
  Users = {u1}
  Products <- MCProducts
  Requests = {r1, r2}
  Ops <- CartOps
  Opening <- MCOnes
  OpeningCarts <- MCFullCarts
  MaxOrders = 2
  MaxQty = 1
  MaxStock = 1
  Deltas <- MCDeltas
PROPERTIES
  Termination
