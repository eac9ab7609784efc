SPECIFICATION FloorSpec
CONSTANTS
  Mesas = {m1}
  Cuentas = {c1}
  Partidas = {i1, i2}
  Meseros = {w1}
  Precios <- MCPrecios
  Folios = {f1}
  Razones <- MCRazones
  Turnos = {t1}
  Operadores = {u1}
  Requests = {r1}
  Fondos = {0}
  Montos = {1}
  Tipos = {"VENTA_EFECTIVO"}
  Declarados = {1}
  Cobros = {1, 2, 3}
  MaxMovimientos = 2
  MaxVersion = 2
  Tenders = {k1, k2}
  OpIds = {o1, o2}
  Importes = {1, 2}
  Propinas = {0, 1}
  Metodos = {"EFECTIVO", "TARJETA"}
  NULL = NULL
INVARIANTS OnePaymentPerOperation NeverOverpaid DrawerMatchesPayments
PROPERTIES FloorImplementsShift
CONSTRAINT Bound
CHECK_DEADLOCK FALSE
SYMMETRY Symmetry
