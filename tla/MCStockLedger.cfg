SPECIFICATION StockSpec
CONSTANTS
  plain = plain
  modified = modified
  empty = empty
  Ingredients = {1, 2}
  Orders = {plain, modified, empty}
  Commands = {w1}
  Items <- MCItems
  WasteQty = 1
  Hash <- MCHash
  Sessions = {s1, s2}
  MaxJobs = 5
  NULL = NULL
INVARIANTS KardexAddsUp SourcesAppliedWhole AnnouncedOnce NoDeadlock
PROPERTIES ReplayedStaysReplayed
CHECK_DEADLOCK FALSE
SYMMETRY Symmetry
