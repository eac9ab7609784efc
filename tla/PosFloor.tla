------------------------------ MODULE PosFloor ------------------------------
(***************************************************************************)
(* The POS server of a station (packages/pos-edge-runtime/fastify-app.ts): *)
(* the routes on accounts and on the cash shift, and the payments that     *)
(* join the two (PaymentDomainService.submitTender and                     *)
(* executeAtomicSettlement).                                               *)
(*                                                                         *)
(* A tender looks for an earlier payment with its clientOpId, waits for    *)
(* the PIN, and then reads the shift, the account and the payments and     *)
(* commits one transaction, all in one turn of the event loop.  The rows   *)
(* pagos, cuentas and movimientos_caja are written together.               *)
(*                                                                         *)
(* Of the dining operations only those the server exposes occur here: it   *)
(* has no route that prints a precuenta, transfers, splits, cancels or     *)
(* frees a table.  Change, references and the drawer kick are left out.    *)
(***************************************************************************)
EXTENDS DiningRoom, CashShift

CONSTANTS
    Tenders,        \* tenders that may be waiting for a PIN at the same time
    OpIds,          \* clientOpIds
    Importes,       \* amounts a tender may carry
    Propinas,       \* tips a tender may carry
    Metodos         \* payment methods

ASSUME FloorAssumption ==
    /\ Importes \subseteq Int
    /\ Propinas \subseteq Nat
    /\ Metodos \subseteq {"EFECTIVO", "TARJETA", "TRANSFERENCIA"}
    /\ \A m \in Importes, p \in Propinas : m + p \in Cobros

VARIABLES
    pagos,          \* the payments of each account in order of insertion
    tenders,        \* the tenders waiting for a PIN
    manuales        \* history: the cash sales of each shift that came through
                    \* the routes of the shift and not with a payment

floorVars == <<diningVars, shiftVars, pagos, tenders, manuales>>

-----------------------------------------------------------------------------
(* Payments *)

Pago == [op: OpIds, turno: Turnos, operador: Operadores, metodo: Metodos,
         monto: Importes, propina: Propinas]

Tender == [cuenta: Cuentas, pago: Pago]

NoTender == [cuenta |-> NULL]

Total(rows, field) == FoldSeq(LAMBDA p, total : total + p[field], 0, rows)

\* No look-up by clientOpId and no unique index.
Registered_Never(c, op) == FALSE

\* The unique index uq_pagos_cuenta_client_op and both idempotency checks.
Registered(c, op) == \E k \in DOMAIN pagos[c] : pagos[c][k].op = op

RequestTender(k, c, pago) ==
    /\ tenders[k] = NoTender
    /\ ~Registered(c, pago.op)
    /\ tenders' = [tenders EXCEPT ![k] = [cuenta |-> c, pago |-> pago]]
    /\ UNCHANGED <<diningVars, shiftVars, pagos, manuales>>

\* A tender on a shift that is merely there.
Payable_AnyShift(c, pago) ==
    /\ turnos[pago.turno].status # "AUSENTE"
    /\ CanOperate(turnos[pago.turno], pago.operador)
    /\ Open(c)
    /\ pago.monto > 0
    /\ pago.monto <= cuentas[c].total - Total(pagos[c], "monto")

\* The gates of submitTender after the PIN: shift, participation, account,
\* amount.
Payable(c, pago) ==
    /\ turnos[pago.turno].status = "ABIERTO"
    /\ CanOperate(turnos[pago.turno], pago.operador)
    /\ Open(c)
    /\ pago.monto > 0
    /\ pago.monto <= cuentas[c].total - Total(pagos[c], "monto")

\* A payment that leaves a fully paid account open.
SettledCuenta_StaysOpen(c, pago) ==
    [cuentas[c] EXCEPT !.propina = Total(pagos[c], "propina") + pago.propina]

\* The account with the payment: its tips, and PAGADA once nothing remains.
\* The total is not recalculated, and the table is not looked at.
SettledCuenta(c, pago) ==
    [cuentas[c] EXCEPT
        !.propina = Total(pagos[c], "propina") + pago.propina,
        !.status  = IF cuentas[c].total = Total(pagos[c], "monto") + pago.monto
                    THEN "PAGADA" ELSE @]

\* A cash movement that leaves the tip out.
CashTaken_NoTip(pago) == pago.monto

\* The amount of the cash movement.
CashTaken(pago) == pago.monto + pago.propina

\* submitTender after the PIN, through executeAtomicSettlement.
SubmitTender(k) ==
    LET c    == tenders[k].cuenta
        pago == tenders[k].pago
    IN  /\ tenders[k] # NoTender
        /\ Payable(c, pago)
        /\ ~Registered(c, pago.op)
        /\ pagos' = [pagos EXCEPT ![c] = Append(@, pago)]
        /\ cuentas' = [cuentas EXCEPT ![c] = SettledCuenta(c, pago)]
        /\ IF pago.metodo = "EFECTIVO"
           THEN AddMovement(pago.turno, pago.operador, "VENTA_EFECTIVO", CashTaken(pago))
           ELSE UNCHANGED movimientos
        /\ tenders' = [tenders EXCEPT ![k] = NoTender]
        /\ UNCHANGED <<mesas, partidas, reenviadas, turnos, cortes, requests, manuales>>

\* A wrong PIN, a gate that does not pass, or a payment that another tender
\* with the same clientOpId has registered meanwhile: nothing is written.
RefuseTender(k) ==
    /\ tenders[k] # NoTender
    /\ tenders' = [tenders EXCEPT ![k] = NoTender]
    /\ UNCHANGED <<diningVars, shiftVars, pagos, manuales>>

-----------------------------------------------------------------------------
(* The server *)

FloorInit ==
    /\ DiningInit
    /\ ShiftInit
    /\ pagos = [c \in Cuentas |-> <<>>]
    /\ tenders = [k \in Tenders |-> NoTender]
    /\ manuales = [t \in Turnos |-> 0]

\* The cash sales among the movements of a shift.
CashSales(movs) ==
    FoldSeq(LAMBDA m, total : total + IF m.tipo = "VENTA_EFECTIVO" THEN m.monto ELSE 0, 0, movs)

\* The routes of the cash shift.  A stop loses every call in flight.
ShiftRoutes ==
    /\ \E r \in Requests : ShiftRequest(r) \/ ShiftCompletion(r)
    /\ tenders' = IF \E r \in Requests, t \in Turnos : StopWhileOpening(r, t)
                  THEN [k \in Tenders |-> NoTender] ELSE tenders
    /\ manuales' = [t \in Turnos |->
            manuales[t] + CashSales(movimientos'[t]) - CashSales(movimientos[t])]
    /\ UNCHANGED <<diningVars, pagos>>

StopServer ==
    /\ requests' = [r \in Requests |-> Idle]
    /\ tenders' = [k \in Tenders |-> NoTender]
    /\ UNCHANGED <<diningVars, turnos, movimientos, cortes, pagos, manuales>>

FloorNext ==
    \/ ServerOps /\ UNCHANGED <<shiftVars, pagos, tenders, manuales>>
    \/ ShiftRoutes
    \/ \E k \in Tenders :
        \/ \E c \in Cuentas, p \in Pago : RequestTender(k, c, p)
        \/ SubmitTender(k)
        \/ RefuseTender(k)
    \/ StopServer

FloorSpec == FloorInit /\ [][FloorNext]_floorVars

-----------------------------------------------------------------------------
(* Properties *)

\* The payments and the waiting tenders have the columns of the schema.
FloorTypeOK ==
    /\ pagos \in [Cuentas -> Seq(Pago)]
    /\ tenders \in [Tenders -> Tender \cup {NoTender}]

\* Two tenders with one clientOpId that both passed the first look-up and
\* then waited for their PINs register one payment (DATA-COND-015-02).
OnePaymentPerOperation ==
    \A c \in Cuentas : \A j, k \in DOMAIN pagos[c] : pagos[c][j].op = pagos[c][k].op => j = k

\* No account takes more than its total, whatever tenders race and items are
\* added between them, and an account that still owes nothing after a payment
\* is not left open.  Accounts whose total can fall behind what was paid are
\* excepted: addItemToCuenta accepts an item of a negative total, and an item
\* id in use, whose row it overwrites.
NeverOverpaid ==
    \A c \in Cuentas \ reenviadas :
        (\A i \in Partidas : partidas[i].cuenta = c => partidas[i].total >= 0) =>
            /\ Total(pagos[c], "monto") <= cuentas[c].total
            /\ Open(c) /\ pagos[c] # <<>> => Total(pagos[c], "monto") < cuentas[c].total

\* The cash payments of an account taken on a shift, tips included.
CashPayments(c, t) ==
    FoldSeq(LAMBDA p, total : total + IF p.turno = t /\ p.metodo = "EFECTIVO"
                                      THEN p.monto + p.propina ELSE 0,
            0, pagos[c])

\* The cash sales in the drawer of a shift are the cash payments taken on it,
\* tips included, and the sales registered by hand (registrarMovimiento takes
\* any type of movement, a cash sale too): executeAtomicSettlement writes
\* payment and movement or neither, whatever calls wait for a PIN meanwhile.
DrawerMatchesPayments ==
    \A t \in Turnos :
        CashSales(movimientos[t])
            = MapThenSumSet(LAMBDA c : CashPayments(c, t), Cuentas) + manuales[t]

\* Seen from the shift the server is the shift alone: whatever tender raced
\* with a count or a Corte Z, it added a cash sale to an open shift by one of
\* its operators, or nothing.  What CashShiftProofs proves of ShiftSpec holds
\* of the server.
FloorImplementsShift == ShiftSpec

=============================================================================
