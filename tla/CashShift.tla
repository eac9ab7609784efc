------------------------------ MODULE CashShift ------------------------------
(***************************************************************************)
(* The cash shift (TurnoCaja) of one enrolled station: the domain service  *)
(* packages/pos/src/cash-shift-service.ts over the SQLite repository       *)
(* packages/pos-edge-runtime/src/cash-shift-sqlite-repository.ts.          *)
(*                                                                         *)
(* Every operation of the service reads the shift, checks it, and then     *)
(* waits for the operator's PIN: the verification runs argon2 on a thread  *)
(* pool, so other requests run meanwhile.  Only after the answer are the   *)
(* movements listed and the result saved, guarded by the version that was  *)
(* read before the wait.  An operation is therefore two actions, a request *)
(* and its completion; all that follows the PIN answer runs without        *)
(* yielding.  A cash payment (payment-service.ts) inserts a movement       *)
(* without touching the version of the shift.                              *)
(*                                                                         *)
(* Left out: the tenant and station identity checks (one enrolled station),*)
(* names and reasons, Corte X, which writes nothing, and the row of        *)
(* arqueos_ciegos, which repeats three columns of turnos_caja.             *)
(***************************************************************************)
EXTENDS Integers, Sequences, SequencesExt, PosValues

CONSTANTS
    Turnos,         \* ids a shift may get
    Operadores,     \* users
    Requests,       \* calls that may be waiting for a PIN at the same time
    Fondos,         \* opening floats a client may send
    Montos,         \* amounts a client may send
    Tipos,          \* movement types a client may send
    Declarados,     \* counted cash a client may declare
    Cobros,         \* cash amounts a payment may take, tip included
    MaxMovimientos, \* bound on the movements of one shift
    MaxVersion      \* bound on the version of a shift

MovementTypes == {"FONDO_INICIAL", "INGRESO", "EGRESO", "VENTA_EFECTIVO", "DEVOLUCION_EFECTIVO"}

ASSUME ShiftAssumption ==
    /\ Fondos \subseteq Int
    /\ Montos \subseteq Int
    /\ Declarados \subseteq Int
    /\ Cobros \subseteq Int
    /\ Tipos \subseteq MovementTypes
    /\ MaxMovimientos \in Nat
    /\ MaxVersion \in Nat
    /\ NULL \notin Int

VARIABLES
    turnos,         \* the rows of turnos_caja with their operators
    movimientos,    \* movimientos_caja, per shift in order of insertion
    cortes,         \* the Corte Z of each shift in cortes_caja, or NULL
    requests        \* the calls waiting for a PIN

shiftVars == <<turnos, movimientos, cortes, requests>>

-----------------------------------------------------------------------------
(* Rows *)

Movimiento == [operador: Operadores, tipo: MovementTypes, monto: Int]

AbsentTurno ==
    [status |-> "AUSENTE", responsable |-> NULL, openedBy |-> NULL, operadores |-> {},
     fondo |-> 0, declarado |-> NULL, calculado |-> NULL, diferencia |-> NULL, version |-> 0]

TurnoRow ==
    [status: {"AUSENTE", "ABIERTO", "CERRADO_ARQUEO", "CORTE_Z_EMITIDO"},
     responsable: Operadores \cup {NULL}, openedBy: Operadores \cup {NULL},
     operadores: SUBSET Operadores, fondo: Int,
     declarado: Int \cup {NULL}, calculado: Int \cup {NULL}, diferencia: Int \cup {NULL},
     version: Nat]

Idle == [op |-> "ninguna"]

\* getActiveShift: a counted shift still blocks the station until its Corte Z.
ActiveShift(t) == turnos[t].status \in {"ABIERTO", "CERRADO_ARQUEO"}

-----------------------------------------------------------------------------
(* computeBreakdown *)

\* The net cash of one movement; the opening float is counted apart.
NetCash(m) ==
    CASE m.tipo \in {"INGRESO", "VENTA_EFECTIVO"}     -> m.monto
      [] m.tipo \in {"EGRESO", "DEVOLUCION_EFECTIVO"} -> -m.monto
      [] OTHER                                        -> 0

TotalCalculado(fondo, movs) ==
    fondo + FoldSeq(LAMBDA m, total : total + NetCash(m), 0, movs)

\* desgloseOperadores: the net cash each operator moved.
Desglose(movs) ==
    [o \in Operadores |->
        FoldSeq(LAMBDA m, total : IF m.operador = o THEN total + NetCash(m) ELSE total, 0, movs)]

-----------------------------------------------------------------------------
(* SharedShiftAssignmentStrategy *)

CanOperate(turno, u) == u \in {turno.responsable, turno.openedBy} \cup turno.operadores

CanAddOperator(turno, u) ==
    /\ turno.status = "ABIERTO"
    /\ u \in {turno.responsable} \cup turno.operadores

CanClose(turno, u) == u \in {turno.responsable, turno.openedBy} \cup turno.operadores

-----------------------------------------------------------------------------
(* The repository *)

\* INSERT INTO turnos_caja without the partial unique index on ABIERTO.
StationFree_NoIndex == TRUE

\* The partial unique index uq_turnos_caja_active_station.
StationFree == \A t \in Turnos : turnos[t].status # "ABIERTO"

\* An UPDATE whose WHERE clause forgot the version.
VersionMatches_Any(call) == TRUE

\* UPDATE turnos_caja ... WHERE id = ? AND version = ?, else OCCConflictError.
VersionMatches(call) == turnos[call.turno].version = call.seen.version

\* addMovement and the insert of executeAtomicSettlement.
AddMovement(t, u, tipo, monto) ==
    /\ Len(movimientos[t]) < MaxMovimientos
    /\ movimientos' = [movimientos EXCEPT
            ![t] = Append(@, [operador |-> u, tipo |-> tipo, monto |-> monto])]

-----------------------------------------------------------------------------
(* Requests: what an operation checks before it waits for the PIN *)

Wait(r, call) ==
    /\ requests[r] = Idle
    /\ requests' = [requests EXCEPT ![r] = call]
    /\ UNCHANGED <<turnos, movimientos, cortes>>

RequestAbrirTurno(r, u, opener, fondo) ==
    /\ \A t \in Turnos : ~ActiveShift(t)
    /\ fondo >= 0
    /\ Wait(r, [op |-> "abrirTurno", usuario |-> u, openedBy |-> opener, fondo |-> fondo])

RequestAgregarOperador(r, t, u, nuevo) ==
    /\ turnos[t].status = "ABIERTO"
    /\ Wait(r, [op |-> "agregarOperador", turno |-> t, seen |-> turnos[t],
                usuario |-> u, nuevo |-> nuevo])

RequestMovimiento(r, t, u, tipo, monto) ==
    /\ turnos[t].status = "ABIERTO"
    /\ Wait(r, [op |-> "registrarMovimiento", turno |-> t, seen |-> turnos[t],
                usuario |-> u, tipo |-> tipo, monto |-> monto])

RequestArqueo(r, t, u, declarado) ==
    /\ turnos[t].status = "ABIERTO"
    /\ declarado >= 0
    /\ Wait(r, [op |-> "realizarArqueoCiego", turno |-> t, seen |-> turnos[t],
                usuario |-> u, declarado |-> declarado])

RequestCorteZ(r, t, u) ==
    /\ turnos[t].status = "CERRADO_ARQUEO"
    /\ Wait(r, [op |-> "generarCorteZ", turno |-> t, seen |-> turnos[t], usuario |-> u])

-----------------------------------------------------------------------------
(* Completions: what follows the answer to the PIN *)

Waiting(r, op) == requests[r].op = op

Answer(r) == requests' = [requests EXCEPT ![r] = Idle]

\* A wrong PIN, a user the strategy refuses, an amount or a version that does
\* not pass: the operation throws before it writes anything.
Refuse(r) ==
    /\ requests[r] # Idle
    /\ Answer(r)
    /\ UNCHANGED <<turnos, movimientos, cortes>>

\* saveShift inserts the row; the movement of the float, in a transaction of
\* its own, is there unless the process stops between the two.
InsertTurno(call, t) ==
    /\ turnos[t] = AbsentTurno
    /\ StationFree
    /\ turnos' = [turnos EXCEPT
            ![t] = [status |-> "ABIERTO", responsable |-> call.usuario,
                    openedBy |-> call.openedBy, operadores |-> {call.usuario},
                    fondo |-> call.fondo, declarado |-> NULL, calculado |-> NULL,
                    diferencia |-> NULL, version |-> 1]]
    /\ UNCHANGED cortes

AbrirTurno(r, t) ==
    /\ Waiting(r, "abrirTurno")
    /\ InsertTurno(requests[r], t)
    /\ IF requests[r].fondo > 0
       THEN AddMovement(t, requests[r].usuario, "FONDO_INICIAL", requests[r].fondo)
       ELSE UNCHANGED movimientos
    /\ Answer(r)

StopWhileOpening(r, t) ==
    /\ Waiting(r, "abrirTurno")
    /\ requests[r].fondo > 0
    /\ InsertTurno(requests[r], t)
    /\ requests' = [q \in Requests |-> Idle]
    /\ UNCHANGED movimientos

\* The idempotent return for a user who already takes part writes nothing.
AgregarOperador(r) ==
    LET call == requests[r]
    IN  /\ Waiting(r, "agregarOperador")
        /\ CanAddOperator(call.seen, call.usuario)
        /\ call.nuevo \notin call.seen.operadores
        /\ VersionMatches(call)
        /\ call.seen.version < MaxVersion
        /\ turnos' = [turnos EXCEPT
                ![call.turno] = [call.seen EXCEPT !.operadores = @ \cup {call.nuevo},
                                                  !.version = @ + 1]]
        /\ Answer(r)
        /\ UNCHANGED <<movimientos, cortes>>

RegistrarMovimiento(r) ==
    LET call == requests[r]
    IN  /\ Waiting(r, "registrarMovimiento")
        /\ CanOperate(call.seen, call.usuario)
        /\ call.monto > 0
        /\ VersionMatches(call)
        /\ call.seen.version < MaxVersion
        /\ turnos' = [turnos EXCEPT ![call.turno] = [@ EXCEPT !.version = call.seen.version + 1]]
        /\ AddMovement(call.turno, call.usuario, call.tipo, call.monto)
        /\ Answer(r)
        /\ UNCHANGED cortes

\* The movements are listed after the PIN, in the turn of the loop that saves.
RealizarArqueoCiego(r) ==
    LET call  == requests[r]
        total == TotalCalculado(call.seen.fondo, movimientos[call.turno])
    IN  /\ Waiting(r, "realizarArqueoCiego")
        /\ CanOperate(call.seen, call.usuario)
        /\ VersionMatches(call)
        /\ turnos' = [turnos EXCEPT
                ![call.turno] = [@ EXCEPT !.status     = "CERRADO_ARQUEO",
                                          !.declarado  = call.declarado,
                                          !.calculado  = total,
                                          !.diferencia = call.declarado - total,
                                          !.version    = call.seen.version + 1]]
        /\ Answer(r)
        /\ UNCHANGED <<movimientos, cortes>>

GenerarCorteZ(r) ==
    LET call == requests[r]
        movs == movimientos[call.turno]
    IN  /\ Waiting(r, "generarCorteZ")
        /\ CanClose(call.seen, call.usuario)
        /\ VersionMatches(call)
        /\ cortes' = [cortes EXCEPT
                ![call.turno] = [calculado  |-> TotalCalculado(call.seen.fondo, movs),
                                 declarado  |-> call.seen.declarado,
                                 diferencia |-> call.seen.diferencia,
                                 desglose   |-> Desglose(movs)]]
        /\ turnos' = [turnos EXCEPT
                ![call.turno] = [@ EXCEPT !.status  = "CORTE_Z_EMITIDO",
                                          !.version = call.seen.version + 1]]
        /\ Answer(r)
        /\ UNCHANGED movimientos

\* A payment gated on a shift that is merely not cut yet.
CobroEfectivo_AnyActive(t, u, monto) ==
    /\ ActiveShift(t)
    /\ CanOperate(turnos[t], u)
    /\ AddMovement(t, u, "VENTA_EFECTIVO", monto)
    /\ UNCHANGED <<turnos, cortes>>

\* The shift side of a cash payment: submitTender reads the shift after the
\* PIN, requires it ABIERTO and one of its operators, and the settlement
\* inserts the movement in the same turn, without the version of the shift.
CobroEfectivo(t, u, monto) ==
    /\ turnos[t].status = "ABIERTO"
    /\ CanOperate(turnos[t], u)
    /\ AddMovement(t, u, "VENTA_EFECTIVO", monto)
    /\ UNCHANGED <<turnos, cortes>>

\* The process stops: the calls in flight are lost, the rows are not.
Stop ==
    /\ requests # [r \in Requests |-> Idle]
    /\ requests' = [r \in Requests |-> Idle]
    /\ UNCHANGED <<turnos, movimientos, cortes>>

-----------------------------------------------------------------------------
ShiftInit ==
    /\ turnos = [t \in Turnos |-> AbsentTurno]
    /\ movimientos = [t \in Turnos |-> <<>>]
    /\ cortes = [t \in Turnos |-> NULL]
    /\ requests = [r \in Requests |-> Idle]

ShiftRequest(r) ==
    \/ \E u, opener \in Operadores, f \in Fondos : RequestAbrirTurno(r, u, opener, f)
    \/ \E t \in Turnos, u, n \in Operadores : RequestAgregarOperador(r, t, u, n)
    \/ \E t \in Turnos, u \in Operadores, k \in Tipos, m \in Montos :
            RequestMovimiento(r, t, u, k, m)
    \/ \E t \in Turnos, u \in Operadores, d \in Declarados : RequestArqueo(r, t, u, d)
    \/ \E t \in Turnos, u \in Operadores : RequestCorteZ(r, t, u)

ShiftCompletion(r) ==
    \/ \E t \in Turnos : AbrirTurno(r, t) \/ StopWhileOpening(r, t)
    \/ AgregarOperador(r)
    \/ RegistrarMovimiento(r)
    \/ RealizarArqueoCiego(r)
    \/ GenerarCorteZ(r)
    \/ Refuse(r)

\* A cash payment as the shift sees it; the account side is in PosFloor.
CashSale ==
    /\ \E t \in Turnos, u \in Operadores, m \in Cobros : CobroEfectivo(t, u, m)
    /\ UNCHANGED requests

ShiftNext ==
    \/ \E r \in Requests : ShiftRequest(r) \/ ShiftCompletion(r)
    \/ CashSale
    \/ Stop

ShiftSpec == ShiftInit /\ [][ShiftNext]_shiftVars

-----------------------------------------------------------------------------
(* Properties *)

Corte == [calculado: Int, declarado: Int \cup {NULL}, diferencia: Int \cup {NULL},
          desglose: [Operadores -> Int]]

Call ==
    {Idle}
    \cup [op: {"abrirTurno"}, usuario: Operadores, openedBy: Operadores, fondo: Int]
    \cup [op: {"agregarOperador"}, turno: Turnos, seen: TurnoRow, usuario: Operadores,
          nuevo: Operadores]
    \cup [op: {"registrarMovimiento"}, turno: Turnos, seen: TurnoRow, usuario: Operadores,
          tipo: MovementTypes, monto: Int]
    \cup [op: {"realizarArqueoCiego"}, turno: Turnos, seen: TurnoRow, usuario: Operadores,
          declarado: Int]
    \cup [op: {"generarCorteZ"}, turno: Turnos, seen: TurnoRow, usuario: Operadores]

\* The rows have the columns of the schema, a waiting call carries what it read.
ShiftTypeOK ==
    /\ turnos \in [Turnos -> TurnoRow]
    /\ movimientos \in [Turnos -> Seq(Movimiento)]
    /\ cortes \in [Turnos -> Corte \cup {NULL}]
    /\ requests \in [Requests -> Call]

\* Once a shift is counted (realizarArqueoCiego) the stored total is the one
\* its movements still add up to and the stored difference is taken from it,
\* and the Corte Z (generarCorteZ, which recomputes the total but copies the
\* difference) reports the same three figures.  No payment and no movement
\* that was waiting for a PIN may land behind the count.
CutMatchesDrawer ==
    \A t \in Turnos :
        /\ turnos[t].status \in {"CERRADO_ARQUEO", "CORTE_Z_EMITIDO"} =>
            /\ turnos[t].calculado = TotalCalculado(turnos[t].fondo, movimientos[t])
            /\ turnos[t].diferencia = turnos[t].declarado - turnos[t].calculado
        /\ cortes[t] # NULL =>
            /\ cortes[t].calculado = turnos[t].calculado
            /\ cortes[t].declarado = turnos[t].declarado
            /\ cortes[t].diferencia = turnos[t].diferencia

\* Two calls of abrirTurno that both saw the station free, and then waited
\* for their PINs, do not both open a shift.
AtMostOneOpenTurno ==
    \A t, u \in Turnos : turnos[t].status = "ABIERTO" /\ turnos[u].status = "ABIERTO" => t = u

\* A shift whose Corte Z was issued is frozen: no call that read it earlier
\* changes its row, its operators, its movements or its cut; a counted shift
\* only proceeds to the Corte Z, with the movements it was counted with.
ClosedTurnoIsFrozen ==
    [][\A t \in Turnos :
        /\ turnos[t].status = "CORTE_Z_EMITIDO" =>
            turnos'[t] = turnos[t] /\ movimientos'[t] = movimientos[t] /\ cortes'[t] = cortes[t]
        /\ turnos[t].status = "CERRADO_ARQUEO" =>
            /\ turnos'[t].status \in {"CERRADO_ARQUEO", "CORTE_Z_EMITIDO"}
            /\ movimientos'[t] = movimientos[t]]_shiftVars

\* What a waiting call read is older than the row, or is the row: a version
\* names one state of the shift.  The guard on the version protects the
\* checks made before the PIN because of this.
SnapshotsAreVersions ==
    \A r \in Requests : requests[r].op \notin {"ninguna", "abrirTurno"} =>
        LET row  == turnos[requests[r].turno]
            seen == requests[r].seen
        IN  /\ seen.version \in 1..row.version
            /\ seen.version = row.version => seen = row
=============================================================================
