----------------------------- MODULE DiningRoom -----------------------------
(***************************************************************************)
(* Tables, accounts and their items: DiningDomainService                   *)
(* (packages/pos/src/dining-service.ts) with its policies (policies.ts)    *)
(* over the SQLite repository of packages/pos-edge-runtime.                *)
(*                                                                         *)
(* Every operation is synchronous: it reads, checks and writes in one turn *)
(* of the event loop, so it is one action.  A caller sends the version it  *)
(* last saw and a stale one is refused without effect; versions and stale  *)
(* callers are therefore left out, as are PINs, reasons, names, times,     *)
(* guest counts and the kitchen state a cancellation quotes.  An item is   *)
(* its total; taxes and discounts are part of it, and nothing keeps the    *)
(* total from being negative.  Tips come with payments, which PosFloor     *)
(* adds: in DiningSpec alone every tip is 0.                               *)
(*                                                                         *)
(* The operations do not open a transaction of their own.  Where one fails *)
(* after it wrote something, what it wrote stays: a transfer to the table  *)
(* the account already has, and a split that names an account id in use.   *)
(***************************************************************************)
EXTENDS Integers, Sequences, FiniteSets, FiniteSetsExt, PosValues

CONSTANTS
    Mesas,          \* table ids
    Cuentas,        \* ids an account may get
    Partidas,       \* ids an item may get
    Meseros,        \* waiters
    Precios,        \* item totals
    Folios,         \* sales folios a caller may pass
    Razones         \* the ratios a caller may split by, a sequence per plan

ASSUME DiningAssumption ==
    /\ Precios \subseteq Int
    /\ \A ratio \in Razones : ratio \in Seq(Int) /\ Len(ratio) >= 2
    /\ Partidas \cap Cuentas = {}
    /\ IsFiniteSet(Partidas)
    /\ NULL \notin Mesas \cup Cuentas \cup Partidas \cup Meseros \cup Folios

VARIABLES
    mesas,          \* the rows of mesas, a Mesa each
    cuentas,        \* the rows of cuentas, a Cuenta each
    partidas,       \* the rows of cuenta_items, a Partida each
    reenviadas      \* history: the accounts an item id in use was sent for,
                    \* and those whose row it overwrote

diningVars == <<mesas, cuentas, partidas, reenviadas>>

-----------------------------------------------------------------------------
(* Rows *)

Mesa == [status: {"AUSENTE", "DISPONIBLE", "OCUPADA", "EN_CUENTA"}, cuenta: Cuentas \cup {NULL}]

AbsentMesa == [status |-> "AUSENTE", cuenta |-> NULL]

Cuenta ==
    [status: {"AUSENTE", "ABIERTA", "IMPRESA", "PAGADA", "ANULADA"},
     mesa: Mesas \cup {NULL}, mesero: Meseros \cup {NULL}, folio: Folios \cup {NULL},
     total: Int, propina: Int, padre: Cuentas \cup {NULL}]

AbsentCuenta ==
    [status |-> "AUSENTE", mesa |-> NULL, mesero |-> NULL, folio |-> NULL,
     total |-> 0, propina |-> 0, padre |-> NULL]

Partida == [status: {"AUSENTE", "ORDENADO", "CANCELADO"}, cuenta: Cuentas \cup {NULL}, total: Int]

AbsentPartida == [status |-> "AUSENTE", cuenta |-> NULL, total |-> 0]

Open(c) == cuentas[c].status \in {"ABIERTA", "IMPRESA"}

ActiveItems(c) == {i \in Partidas : partidas[i].cuenta = c /\ partidas[i].status = "ORDENADO"}

-----------------------------------------------------------------------------
(* Totals and proration *)

Sum(amount, S) == MapThenSumSet(LAMBDA x : amount[x], S)

\* recalculateCuentaTotals with the cancelled items left in.
Recalculated_AllItems(rows, c, propina) ==
    MapThenSumSet(LAMBDA i : rows[i].total, {i \in Partidas : rows[i].cuenta = c}) + propina

\* recalculateCuentaTotals: the items that are not cancelled, and the tips.
Recalculated(rows, c, propina) ==
    MapThenSumSet(LAMBDA i : rows[i].total,
                  {i \in Partidas : rows[i].cuenta = c /\ rows[i].status # "CANCELADO"})
    + propina

\* Division of bigints by a positive one: towards zero.
Quotient(a, b) == IF a >= 0 THEN a \div b ELSE -((-a) \div b)

\* Shares in proportion to the weights, the last part takes what is left.
Prorated(amount, weight) ==
    LET n     == Len(weight)
        whole == Sum(weight, 1..n)
        share == [i \in 1..n |-> Quotient(amount * weight[i], whole)]
    IN  [i \in 1..n |-> IF i < n THEN share[i] ELSE amount - Sum(share, 1..(n - 1))]

\* splitByItems: the totals of the items of each part.
ItemTotals(c, parte, n) ==
    [p \in 1..n |-> MapThenSumSet(LAMBDA x : partidas[x].total,
                                  {x \in ActiveItems(c) : parte[x] = p})]

-----------------------------------------------------------------------------
(* Operations *)

CreateMesa(m) ==
    /\ mesas[m] = AbsentMesa
    /\ mesas' = [mesas EXCEPT ![m].status = "DISPONIBLE"]
    /\ UNCHANGED <<cuentas, partidas, reenviadas>>

Libre == [status |-> "DISPONIBLE", cuenta |-> NULL]

\* An account with or without a table.
OpenCuenta(c, m, w) ==
    /\ cuentas[c] = AbsentCuenta
    /\ m # NULL => mesas[m].status = "DISPONIBLE"
    /\ cuentas' = [cuentas EXCEPT ![c] = [AbsentCuenta EXCEPT !.status = "ABIERTA",
                                                              !.mesa = m, !.mesero = w]]
    /\ mesas' = IF m = NULL THEN mesas
                ELSE [mesas EXCEPT ![m] = [status |-> "OCUPADA", cuenta |-> c]]
    /\ UNCHANGED <<partidas, reenviadas>>

\* The item is counted next to the items the account has.  The client chooses
\* its id: one in use is overwritten, but stays with the account it is of.
AddItem(c, i, precio) ==
    /\ cuentas[c].status = "ABIERTA"
    /\ cuentas' = [cuentas EXCEPT
            ![c].total = Recalculated(partidas, c, cuentas[c].propina) + precio]
    /\ IF partidas[i] = AbsentPartida
       THEN /\ partidas' = [partidas EXCEPT
                    ![i] = [status |-> "ORDENADO", cuenta |-> c, total |-> precio]]
            /\ UNCHANGED reenviadas
       ELSE /\ partidas' = [partidas EXCEPT ![i].status = "ORDENADO", ![i].total = precio]
            /\ reenviadas' = reenviadas \cup {c, partidas[i].cuenta}
    /\ UNCHANGED mesas

\* The table of an account that ends becomes free if it is held by that account.
FreeMesaOf(c) ==
    mesas' = [m \in Mesas |-> IF m = cuentas[c].mesa /\ mesas[m].cuenta = c THEN Libre ELSE mesas[m]]

CloseCuenta(c, closedStatus) ==
    /\ Open(c)
    /\ cuentas' = [cuentas EXCEPT ![c].status = closedStatus]
    /\ FreeMesaOf(c)
    /\ UNCHANGED <<partidas, reenviadas>>

\* The state of the account is not looked at.
CancelItem(c, i) ==
    /\ i \in ActiveItems(c)
    /\ partidas' = [partidas EXCEPT ![i].status = "CANCELADO"]
    /\ cuentas' = [cuentas EXCEPT ![c].total = Recalculated(partidas', c, cuentas[c].propina)]
    /\ UNCHANGED <<mesas, reenviadas>>

\* ReceivingWaiterPinTransferValidationRule
TransferAllowed(c, source, target, w) ==
    /\ Open(c)
    /\ mesas[source].status # "AUSENTE" /\ mesas[target].status # "AUSENTE"
    /\ source = target => w # cuentas[c].mesero
    /\ source # target => mesas[target].status = "DISPONIBLE"

\* The source is the caller's word: it need not be the table of the account,
\* and it is freed whoever holds it.
TransferCuenta(c, source, target, w) ==
    /\ TransferAllowed(c, source, target, w)
    /\ source # target
    /\ mesas' = [mesas EXCEPT ![source] = Libre,
                              ![target] = [status |-> "OCUPADA", cuenta |-> c]]
    /\ cuentas' = [cuentas EXCEPT ![c].mesa = target, ![c].mesero = w]
    /\ UNCHANGED <<partidas, reenviadas>>

\* The rule allows the same table for a new waiter, but the table is saved
\* twice with the version read once: the second save is refused, and the
\* first has already freed the table.
TransferInPlace(c, m, w) ==
    /\ TransferAllowed(c, m, m, w)
    /\ mesas' = [mesas EXCEPT ![m] = Libre]
    /\ UNCHANGED <<cuentas, partidas, reenviadas>>

CancelCuenta(c) ==
    /\ Open(c)
    /\ cuentas' = [cuentas EXCEPT ![c].status = "ANULADA"]
    /\ FreeMesaOf(c)
    /\ UNCHANGED <<partidas, reenviadas>>

\* The parts of a split saved before the first id that is already an account.
Saved(ids) ==
    {p \in DOMAIN ids : \A q \in 1..p : /\ cuentas[ids[q]] = AbsentCuenta
                                       /\ \A h \in 1..(q - 1) : ids[h] # ids[q]}

\* The parts of a split as accounts; their items stay with the original,
\* since the upsert of an item never changes its cuenta_id.
WithParts(c, ids, totals, tips) ==
    [d \in Cuentas |->
        IF \E p \in Saved(ids) : ids[p] = d
        THEN LET p == CHOOSE p \in Saved(ids) : ids[p] = d
             IN  [status |-> "ABIERTA", mesa |-> cuentas[c].mesa, mesero |-> cuentas[c].mesero,
                  folio |-> NULL, total |-> totals[p], propina |-> tips[p], padre |-> c]
        ELSE cuentas[d]]

\* A split that leaves the table with the original account.
SplitCuenta_KeepsTable(c, ids, totals, tips) ==
    /\ Open(c)
    /\ Sum(totals, DOMAIN totals) = cuentas[c].total
    /\ cuentas' = IF Saved(ids) = DOMAIN ids
                  THEN [WithParts(c, ids, totals, tips) EXCEPT ![c].status = "ANULADA"]
                  ELSE WithParts(c, ids, totals, tips)
    /\ UNCHANGED <<mesas, partidas, reenviadas>>

\* A split that goes on when a part could not be inserted.
SplitCuenta_IgnoresConflict(c, ids, totals, tips) ==
    /\ Open(c)
    /\ Sum(totals, DOMAIN totals) = cuentas[c].total
    /\ cuentas' = [WithParts(c, ids, totals, tips) EXCEPT ![c].status = "ANULADA"]
    /\ mesas' = IF cuentas[c].mesa = NULL THEN mesas
                ELSE [mesas EXCEPT ![cuentas[c].mesa].cuenta = ids[1]]
    /\ UNCHANGED <<partidas, reenviadas>>

\* The parts are inserted one by one, then the original is annulled and its
\* table handed to the first part.  An id in use stops it before that.
SplitCuenta(c, ids, totals, tips) ==
    /\ Open(c)
    /\ Sum(totals, DOMAIN totals) = cuentas[c].total
    /\ IF Saved(ids) = DOMAIN ids
       THEN /\ cuentas' = [WithParts(c, ids, totals, tips) EXCEPT ![c].status = "ANULADA"]
            /\ mesas' = IF cuentas[c].mesa = NULL THEN mesas
                        ELSE [mesas EXCEPT ![cuentas[c].mesa].cuenta = ids[1]]
       ELSE /\ cuentas' = WithParts(c, ids, totals, tips)
            /\ UNCHANGED mesas
    /\ UNCHANGED <<partidas, reenviadas>>

SplitByRatio(c, ids, ratio) ==
    /\ Sum(ratio, DOMAIN ratio) > 0
    /\ SplitCuenta(c, ids, Prorated(cuentas[c].total, ratio), Prorated(cuentas[c].propina, ratio))

SplitByItems(c, ids, parte) ==
    LET n     == Len(ids)
        items == ItemTotals(c, parte, n)
        tips  == IF Sum(items, 1..n) > 0 THEN Prorated(cuentas[c].propina, items)
                                         ELSE [p \in 1..n |-> 0]
    IN  /\ ActiveItems(c) # {}
        /\ SplitCuenta(c, ids, [p \in 1..n |-> items[p] + tips[p]], tips)

ReassignWaiter(c, w) ==
    /\ Open(c)
    /\ cuentas' = [cuentas EXCEPT ![c].mesero = w]
    /\ UNCHANGED <<mesas, partidas, reenviadas>>

\* Printing the precuenta assigns the folio; the table is marked whichever
\* account holds it.
RequestCheck(c, next) ==
    /\ Open(c)
    /\ cuentas' = [cuentas EXCEPT ![c].status = "IMPRESA",
                                  ![c].folio = IF @ = NULL THEN next ELSE @]
    /\ mesas' = IF cuentas[c].mesa = NULL THEN mesas
                ELSE [mesas EXCEPT ![cuentas[c].mesa].status = "EN_CUENTA"]
    /\ UNCHANGED <<partidas, reenviadas>>

LiberarMesa(m, force) ==
    /\ mesas[m].status \in {"OCUPADA", "EN_CUENTA"}
    /\ mesas[m].cuenta # NULL /\ ~force => ~Open(mesas[m].cuenta)
    /\ mesas' = [mesas EXCEPT ![m] = Libre]
    /\ UNCHANGED <<cuentas, partidas, reenviadas>>

-----------------------------------------------------------------------------
DiningInit ==
    /\ mesas = [m \in Mesas |-> AbsentMesa]
    /\ cuentas = [c \in Cuentas |-> AbsentCuenta]
    /\ partidas = [i \in Partidas |-> AbsentPartida]
    /\ reenviadas = {}

\* What the POS server exposes; a table is created when the floor is set up.
ServerOps ==
    \/ \E m \in Mesas : CreateMesa(m)
    \/ \E c \in Cuentas, m \in Mesas \cup {NULL}, w \in Meseros : OpenCuenta(c, m, w)
    \/ \E c \in Cuentas, i \in Partidas, p \in Precios : AddItem(c, i, p)
    \/ \E c \in Cuentas, s \in {"PAGADA", "ANULADA"} : CloseCuenta(c, s)

Transfers ==
    \E c \in Cuentas, w \in Meseros, source \in Mesas :
        \/ \E target \in Mesas : TransferCuenta(c, source, target, w)
        \/ TransferInPlace(c, source, w)

\* A plan whose first id is in use fails before it writes anything.
Splits ==
    \E c \in {d \in Cuentas : Open(d)}, ratio \in Razones :
        \E ids \in {s \in [DOMAIN ratio -> Cuentas] : cuentas[s[1]] = AbsentCuenta} :
            \/ SplitByRatio(c, ids, ratio)
            \/ \E parte \in [ActiveItems(c) -> DOMAIN ratio] : SplitByItems(c, ids, parte)

DiningNext ==
    \/ ServerOps
    \/ \E c \in Cuentas, i \in Partidas : CancelItem(c, i)
    \/ Transfers
    \/ \E c \in Cuentas : CancelCuenta(c)
    \/ Splits
    \/ \E c \in Cuentas, w \in Meseros : ReassignWaiter(c, w)
    \/ \E c \in Cuentas, f \in Folios : RequestCheck(c, f)
    \/ \E m \in Mesas, force \in BOOLEAN : LiberarMesa(m, force)

DiningSpec == DiningInit /\ [][DiningNext]_diningVars

-----------------------------------------------------------------------------
(* Properties *)

\* An account that holds the table it names is open: no close, cancellation,
\* split, transfer or forced release, in whatever order, leaves a table with an
\* account that ended there.  A table may still be held by an account that
\* names another one: transferCuenta frees the source it is told, not the table
\* the account is leaving.  Payments, which leave the table alone, are not
\* operations of DiningSpec.
SeatedAccountIsOpen ==
    \A m \in Mesas : LET c == mesas[m].cuenta
                     IN  c # NULL /\ cuentas[c].mesa = m => Open(c)

\* The total of an account that is no part of a split is the sum of its
\* items that are not cancelled, and its tips, through additions,
\* cancellations and splits in any order.  An account for which
\* addItemToCuenta got an item id in use, and the account whose row that
\* overwrote, are excepted: the total counts both and the table keeps one.
TotalIsSumOfItems ==
    \A c \in Cuentas \ reenviadas : cuentas[c].padre = NULL =>
        cuentas[c].total =
            MapThenSumSet(LAMBDA i : partidas[i].total, ActiveItems(c)) + cuentas[c].propina

\* A step that creates parts of an account (splitCuenta) either ends it, and
\* then the new parts are open, bill exactly what it owed and one of them holds
\* the table it named; or it stopped at an id in use, and then the account is
\* as open as before and every table as it was.
SplitReplacesTheAccount ==
    [][\A c \in Cuentas :
        LET parts == {d \in Cuentas : cuentas[d] = AbsentCuenta /\ cuentas'[d].padre = c}
            m     == cuentas[c].mesa
        IN  parts # {} =>
            IF cuentas'[c].status = "ANULADA"
            THEN /\ MapThenSumSet(LAMBDA d : cuentas'[d].total, parts) = cuentas[c].total
                 /\ m # NULL => mesas'[m].cuenta \in parts
            ELSE cuentas'[c] = cuentas[c] /\ mesas' = mesas]_diningVars

=============================================================================
