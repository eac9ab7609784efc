SPECIFICATION ShiftSpec
CONSTANTS
  Turnos = {t1, t2}
  Operadores = {u1, u2}
  Requests = {r1, r2}
  Fondos = {2}
  Montos = {1}
  Tipos = {"EGRESO"}
  Declarados = {1}
  Cobros = {3}
  MaxMovimientos = 2
  MaxVersion = 2
  NULL = NULL
INVARIANTS CutMatchesDrawer AtMostOneOpenTurno
PROPERTIES ClosedTurnoIsFrozen
CHECK_DEADLOCK FALSE
SYMMETRY Symmetry
