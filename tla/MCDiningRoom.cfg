SPECIFICATION DiningSpec
CONSTANTS
  Mesas = {m1, m2}
  Cuentas = {c1, c2, c3}
  Partidas = {i1, i2}
  Meseros = {w1, w2}
  Precios = {3}
  Folios = {f1}
  Razones <- MCRazones
  NULL = NULL
INVARIANTS SeatedAccountIsOpen TotalIsSumOfItems
PROPERTIES SplitReplacesTheAccount
CONSTRAINT Bound
VIEW View
CHECK_DEADLOCK FALSE
SYMMETRY Symmetry
