SPECIFICATION PaySpec
CONSTANTS
  p1 = p1
  i1 = i1
  i2 = i2
  Ordenes = {p1}
  Renglones = {i1, i2}
  OrdenDe <- MCOrdenDe
  Ordered <- MCOrdered
  UnitCost <- MCUnitCost
  Receipts = {r1, r2}
  Deliveries <- MCDeliveries
  Payables = {r1, r2}
  Receivables = {x1, x2}
  References = {f1, f2, f3, f4}
  Amounts = {2}
  Charges = {4}
  ReceiptTotals = {0, 1, 2, 3, 4}
  CreditLimit = 4
  Connections = {k1, k2}
  NULL = NULL
CHECK_DEADLOCK FALSE
SYMMETRY Symmetry
INVARIANTS StatusMatchesReceipts NeverOverReceived BalanceIsExplained StatusFollowsBalance ReversedOnce PayableMatchesReceipt
