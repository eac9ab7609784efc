-------------------------- MODULE CashShiftProofs --------------------------
(***************************************************************************)
(* Proofs about CashShift for any number of shifts, operators and waiting  *)
(* calls, any amounts and any bounds.                                      *)
(*                                                                         *)
(* The argument: a version names one state of a shift (the snapshot a call *)
(* carries is older than the row or equal to it), so a completion that     *)
(* passes the version guard acts on the row its request checked.  What the *)
(* request found (ABIERTO, or CERRADO_ARQUEO for a Corte Z) therefore      *)
(* still holds when the result is written.  TotalCalculado stays opaque:   *)
(* nothing depends on how the total is computed, only on it being computed *)
(* from the movements that are in the table when the row is saved.         *)
(***************************************************************************)
EXTENDS CashShift, TLAPS

Totals == {TotalCalculado(f, m) : f \in Int, m \in Seq(Movimiento)}

Diferencias == {d - c : d \in Int, c \in Totals}

Row ==
    [status: {"AUSENTE", "ABIERTO", "CERRADO_ARQUEO", "CORTE_Z_EMITIDO"},
     responsable: Operadores \cup {NULL}, openedBy: Operadores \cup {NULL},
     operadores: SUBSET Operadores, fondo: Int,
     declarado: Int \cup {NULL}, calculado: Totals \cup {NULL},
     diferencia: Diferencias \cup {NULL},
     version: Nat]

\* What a waiting call carries, and what its request found.
CallOK(call) ==
    /\ call.op \in {"ninguna", "abrirTurno", "agregarOperador", "registrarMovimiento",
                    "realizarArqueoCiego", "generarCorteZ"}
    /\ call.op = "abrirTurno" =>
        call.usuario \in Operadores /\ call.openedBy \in Operadores /\ call.fondo \in Int
    /\ call.op \notin {"ninguna", "abrirTurno"} =>
        call.turno \in Turnos /\ call.seen \in Row /\ call.usuario \in Operadores
    /\ call.op \in {"agregarOperador", "registrarMovimiento", "realizarArqueoCiego"} =>
        call.seen.status = "ABIERTO"
    /\ call.op = "agregarOperador" => call.nuevo \in Operadores
    /\ call.op = "registrarMovimiento" => call.tipo \in MovementTypes /\ call.monto \in Int
    /\ call.op = "realizarArqueoCiego" => call.declarado \in Int
    /\ call.op = "generarCorteZ" => call.seen.status = "CERRADO_ARQUEO"

Shape ==
    /\ turnos \in [Turnos -> Row]
    /\ movimientos \in [Turnos -> Seq(Movimiento)]
    /\ cortes = [t \in Turnos |-> cortes[t]]
    /\ requests = [r \in Requests |-> requests[r]]
    /\ \A r \in Requests : CallOK(requests[r])

CorteOnlyAtTheEnd == \A t \in Turnos : cortes[t] # NULL => turnos[t].status = "CORTE_Z_EMITIDO"

VersionsStartAtOne == \A t \in Turnos : turnos[t].status # "AUSENTE" => turnos[t].version >= 1

\* The inductive invariant.
IInv ==
    /\ Shape
    /\ VersionsStartAtOne
    /\ SnapshotsAreVersions
    /\ CorteOnlyAtTheEnd
    /\ CutMatchesDrawer
    /\ AtMostOneOpenTurno

\* The initial tables satisfy the invariant.
LEMMA InitIInv == ShiftInit => IInv
<1> SUFFICES ASSUME ShiftInit PROVE IInv
  OBVIOUS
<1>1. AbsentTurno \in Row
  BY DEF AbsentTurno, Row
<1>2. CallOK(Idle)
  BY DEF CallOK, Idle
<1>3. Shape
  BY <1>1, <1>2 DEF Shape, ShiftInit
<1>4. SnapshotsAreVersions
  BY DEF SnapshotsAreVersions, ShiftInit, Idle
<1>5. VersionsStartAtOne /\ CorteOnlyAtTheEnd /\ CutMatchesDrawer /\ AtMostOneOpenTurno
  BY DEF VersionsStartAtOne, CorteOnlyAtTheEnd, CutMatchesDrawer, AtMostOneOpenTurno, ShiftInit, AbsentTurno
<1> QED
  BY <1>3, <1>4, <1>5 DEF IInv

\* A request only adds a call, whose snapshot is the row as it is now.
LEMMA WaitKeepsIInv ==
  ASSUME IInv, NEW r \in Requests, NEW call, Wait(r, call), CallOK(call),
         call.op \notin {"ninguna", "abrirTurno"} =>
            call.seen = turnos[call.turno] /\ call.seen.status # "AUSENTE"
  PROVE  IInv'
<1> USE DEF IInv
<1>1. Shape'
  BY DEF Shape, Wait
<1>2. SnapshotsAreVersions'
  <2> SUFFICES ASSUME NEW q \in Requests, requests'[q].op \notin {"ninguna", "abrirTurno"}
               PROVE  /\ requests'[q].seen.version \in 1..turnos[requests'[q].turno].version
                      /\ requests'[q].seen.version = turnos[requests'[q].turno].version =>
                            requests'[q].seen = turnos[requests'[q].turno]
    BY DEF SnapshotsAreVersions, Wait
  <2>1. CASE q = r
    <3>1. requests'[q] = call
      BY <2>1 DEF Wait, Shape
    <3>2. call.turno \in Turnos /\ call.seen = turnos[call.turno]
      BY <3>1 DEF CallOK
    <3>3. call.seen.version \in Nat /\ call.seen.version >= 1
      BY <3>1, <3>2 DEF Shape, Row, VersionsStartAtOne
    <3> QED
      BY <3>1, <3>2, <3>3
  <2>2. CASE q # r
    BY <2>2 DEF SnapshotsAreVersions, Wait, Shape
  <2> QED
    BY <2>1, <2>2
<1>3. VersionsStartAtOne' /\ CorteOnlyAtTheEnd' /\ CutMatchesDrawer' /\ AtMostOneOpenTurno'
  BY DEF VersionsStartAtOne, CorteOnlyAtTheEnd, CutMatchesDrawer, AtMostOneOpenTurno, Wait
<1> QED
  BY <1>1, <1>2, <1>3

\* Each request waits with a call of that kind.
LEMMA RequestKeepsIInv ==
  ASSUME IInv, NEW r \in Requests, ShiftRequest(r)
  PROVE  IInv'
<1> USE ShiftAssumption
<1>0. turnos \in [Turnos -> Row]
  BY DEF IInv, Shape
<1>1. ASSUME NEW u \in Operadores, NEW opener \in Operadores, NEW f \in Fondos,
             RequestAbrirTurno(r, u, opener, f)
      PROVE  IInv'
  <2> DEFINE call == [op |-> "abrirTurno", usuario |-> u, openedBy |-> opener, fondo |-> f]
  <2>1. Wait(r, call) /\ CallOK(call) /\ call.op = "abrirTurno"
    BY <1>1 DEF RequestAbrirTurno, CallOK
  <2> HIDE DEF call
  <2> QED
    BY <2>1, WaitKeepsIInv
<1>2. ASSUME NEW t \in Turnos, NEW u \in Operadores, NEW n \in Operadores,
             RequestAgregarOperador(r, t, u, n)
      PROVE  IInv'
  <2> DEFINE call == [op |-> "agregarOperador", turno |-> t, seen |-> turnos[t],
                      usuario |-> u, nuevo |-> n]
  <2>1. /\ Wait(r, call) /\ CallOK(call)
        /\ call.seen = turnos[call.turno] /\ call.seen.status = "ABIERTO"
    BY <1>0, <1>2 DEF RequestAgregarOperador, CallOK
  <2> HIDE DEF call
  <2> QED
    BY <2>1, WaitKeepsIInv
<1>3. ASSUME NEW t \in Turnos, NEW u \in Operadores, NEW k \in Tipos, NEW m \in Montos,
             RequestMovimiento(r, t, u, k, m)
      PROVE  IInv'
  <2> DEFINE call == [op |-> "registrarMovimiento", turno |-> t, seen |-> turnos[t],
                      usuario |-> u, tipo |-> k, monto |-> m]
  <2>1. /\ Wait(r, call) /\ CallOK(call)
        /\ call.seen = turnos[call.turno] /\ call.seen.status = "ABIERTO"
    BY <1>0, <1>3 DEF RequestMovimiento, CallOK
  <2> HIDE DEF call
  <2> QED
    BY <2>1, WaitKeepsIInv
<1>4. ASSUME NEW t \in Turnos, NEW u \in Operadores, NEW d \in Declarados,
             RequestArqueo(r, t, u, d)
      PROVE  IInv'
  <2> DEFINE call == [op |-> "realizarArqueoCiego", turno |-> t, seen |-> turnos[t],
                      usuario |-> u, declarado |-> d]
  <2>1. /\ Wait(r, call) /\ CallOK(call)
        /\ call.seen = turnos[call.turno] /\ call.seen.status = "ABIERTO"
    BY <1>0, <1>4 DEF RequestArqueo, CallOK
  <2> HIDE DEF call
  <2> QED
    BY <2>1, WaitKeepsIInv
<1>5. ASSUME NEW t \in Turnos, NEW u \in Operadores, RequestCorteZ(r, t, u)
      PROVE  IInv'
  <2> DEFINE call == [op |-> "generarCorteZ", turno |-> t, seen |-> turnos[t], usuario |-> u]
  <2>1. /\ Wait(r, call) /\ CallOK(call)
        /\ call.seen = turnos[call.turno] /\ call.seen.status = "CERRADO_ARQUEO"
    BY <1>0, <1>5 DEF RequestCorteZ, CallOK
  <2> HIDE DEF call
  <2> QED
    BY <2>1, WaitKeepsIInv
<1> QED
  BY <1>1, <1>2, <1>3, <1>4, <1>5 DEF ShiftRequest

\* The calls that are left after a step that only drops calls.
Drops == /\ requests' = [r \in Requests |-> requests'[r]]
         /\ \A r \in Requests : requests'[r] \in {requests[r], Idle}

\* Answering a call drops it.
LEMMA AnswerDrops ==
  ASSUME Shape, NEW r \in Requests, Answer(r)
  PROVE  Drops
BY DEF Shape, Answer, Drops

\* Calls that are dropped or kept stay well formed.
LEMMA DropsKeepCalls ==
  ASSUME Shape, Drops
  PROVE  \A r \in Requests : CallOK(requests'[r])
<1>1. CallOK(Idle)
  BY DEF CallOK, Idle
<1> QED
  BY <1>1 DEF Shape, Drops

\* A row saved under a higher version leaves every snapshot older or current.
LEMMA SaveKeepsSnapshots ==
  ASSUME IInv, Drops, NEW t \in Turnos, NEW row \in Row,
         turnos' = [turnos EXCEPT ![t] = row], row.version > turnos[t].version
  PROVE  SnapshotsAreVersions'
<1> SUFFICES ASSUME NEW q \in Requests, requests'[q].op \notin {"ninguna", "abrirTurno"}
             PROVE  /\ requests'[q].seen.version \in 1..turnos'[requests'[q].turno].version
                    /\ requests'[q].seen.version = turnos'[requests'[q].turno].version =>
                          requests'[q].seen = turnos'[requests'[q].turno]
  BY DEF SnapshotsAreVersions
<1> DEFINE call == requests[q]
<1>1. requests'[q] = call /\ call.op \notin {"ninguna", "abrirTurno"}
  BY DEF Drops, Idle
<1>2. call.turno \in Turnos /\ call.seen.version \in Nat
  BY <1>1 DEF IInv, Shape, CallOK, Row
<1>3. /\ call.seen.version \in 1..turnos[call.turno].version
      /\ call.seen.version = turnos[call.turno].version => call.seen = turnos[call.turno]
  BY <1>1 DEF IInv, SnapshotsAreVersions
<1>4. turnos[call.turno].version \in Nat /\ turnos[t].version \in Nat /\ row.version \in Nat
  BY <1>2 DEF IInv, Shape, Row
<1>5. CASE call.turno = t
  <2>1. turnos'[call.turno] = row
    BY <1>5 DEF IInv, Shape
  <2> QED
    BY <1>1, <1>2, <1>3, <1>4, <1>5, <2>1
<1>6. CASE call.turno # t
  <2>1. turnos'[call.turno] = turnos[call.turno]
    BY <1>2, <1>6 DEF IInv, Shape
  <2> QED
    BY <1>1, <1>3, <2>1
<1> QED
  BY <1>5, <1>6

\* A call that passes the version guard acts on the row its request read.
LEMMA GuardMeansCurrent ==
  ASSUME IInv, NEW r \in Requests, requests[r].op \notin {"ninguna", "abrirTurno"},
         VersionMatches(requests[r])
  PROVE  /\ requests[r].turno \in Turnos
         /\ requests[r].usuario \in Operadores
         /\ requests[r].seen \in Row
         /\ requests[r].seen = turnos[requests[r].turno]
BY DEF IInv, Shape, CallOK, SnapshotsAreVersions, VersionMatches

\* The figures of one shift agree.
Agrees(turno, movs, corte) ==
    /\ turno.status \in {"CERRADO_ARQUEO", "CORTE_Z_EMITIDO"} =>
        /\ turno.calculado = TotalCalculado(turno.fondo, movs)
        /\ turno.diferencia = turno.declarado - turno.calculado
    /\ corte # NULL =>
        /\ corte.calculado = turno.calculado
        /\ corte.declarado = turno.declarado
        /\ corte.diferencia = turno.diferencia

\* Saving one row under a higher version keeps the invariant when the figures
\* of that shift agree afterwards and it does not become a second open shift.
LEMMA SaveKeepsIInv ==
  ASSUME IInv, Drops, NEW t \in Turnos, NEW row \in Row, NEW movs \in Seq(Movimiento), NEW corte,
         turnos' = [turnos EXCEPT ![t] = row], row.version > turnos[t].version,
         movimientos' = [movimientos EXCEPT ![t] = movs],
         cortes' = [cortes EXCEPT ![t] = corte],
         Agrees(row, movs, corte),
         corte # NULL => row.status = "CORTE_Z_EMITIDO",
         row.status = "ABIERTO" => turnos[t].status = "ABIERTO" \/ StationFree
  PROVE  IInv'
<1>1. /\ turnos' \in [Turnos -> Row] /\ turnos'[t] = row
      /\ \A s \in Turnos : s # t => turnos'[s] = turnos[s]
  BY DEF IInv, Shape
<1>2. /\ movimientos' \in [Turnos -> Seq(Movimiento)] /\ movimientos'[t] = movs
      /\ \A s \in Turnos : s # t => movimientos'[s] = movimientos[s]
  BY DEF IInv, Shape
<1>3. /\ cortes' = [s \in Turnos |-> cortes'[s]] /\ cortes'[t] = corte
      /\ \A s \in Turnos : s # t => cortes'[s] = cortes[s]
  BY DEF IInv, Shape
<1>4. Shape'
  <2>1. \A q \in Requests : CallOK(requests'[q])
    BY DropsKeepCalls DEF IInv
  <2> QED
    BY <1>1, <1>2, <1>3, <2>1 DEF Shape, Drops
<1>5. SnapshotsAreVersions'
  BY SaveKeepsSnapshots
<1>6. VersionsStartAtOne'
  <2>1. row.version \in Nat /\ turnos[t].version \in Nat
    BY DEF IInv, Shape, Row
  <2> QED
    BY <1>1, <2>1 DEF VersionsStartAtOne, IInv
<1>7. CorteOnlyAtTheEnd'
  BY <1>1, <1>3 DEF CorteOnlyAtTheEnd, IInv
<1>8. CutMatchesDrawer'
  <2>1. \A s \in Turnos : Agrees(turnos'[s], movimientos'[s], cortes'[s])
    <3> SUFFICES ASSUME NEW s \in Turnos PROVE Agrees(turnos'[s], movimientos'[s], cortes'[s])
      OBVIOUS
    <3>1. CASE s = t
      BY <1>1, <1>2, <1>3, <3>1
    <3>2. CASE s # t
      BY <1>1, <1>2, <1>3, <3>2 DEF CutMatchesDrawer, IInv, Agrees
    <3> QED
      BY <3>1, <3>2
  <2> QED
    BY <2>1 DEF CutMatchesDrawer, Agrees
<1>9. AtMostOneOpenTurno'
  BY <1>1 DEF AtMostOneOpenTurno, StationFree, IInv
<1> QED
  BY <1>4, <1>5, <1>6, <1>7, <1>8, <1>9 DEF IInv

\* A movement appended to a shift is a row of its sequence.
LEMMA AddMovementAppends ==
  ASSUME Shape, NEW t \in Turnos, NEW u \in Operadores, NEW k \in MovementTypes, NEW m \in Int,
         AddMovement(t, u, k, m)
  PROVE  \E movs \in Seq(Movimiento) : movimientos' = [movimientos EXCEPT ![t] = movs]
<1>1. [operador |-> u, tipo |-> k, monto |-> m] \in Movimiento
  BY DEF Movimiento
<1>2. Append(movimientos[t], [operador |-> u, tipo |-> k, monto |-> m]) \in Seq(Movimiento)
  BY <1>1 DEF Shape
<1> QED
  BY <1>2 DEF AddMovement

\* Opening a shift, whether or not the movement of the float is written.
LEMMA InsertKeepsIInv ==
  ASSUME IInv, NEW r \in Requests, NEW t \in Turnos, Waiting(r, "abrirTurno"),
         InsertTurno(requests[r], t), Drops,
         \/ UNCHANGED movimientos
         \/ AddMovement(t, requests[r].usuario, "FONDO_INICIAL", requests[r].fondo)
  PROVE  IInv'
<1> DEFINE call == requests[r]
           row  == [status |-> "ABIERTO", responsable |-> call.usuario,
                    openedBy |-> call.openedBy, operadores |-> {call.usuario},
                    fondo |-> call.fondo, declarado |-> NULL, calculado |-> NULL,
                    diferencia |-> NULL, version |-> 1]
<1>1. call.usuario \in Operadores /\ call.openedBy \in Operadores /\ call.fondo \in Int
  BY DEF IInv, Shape, CallOK, Waiting
<1>2. row \in Row /\ row.version = 1 /\ row.status = "ABIERTO"
  <2>1. {call.usuario} \in SUBSET Operadores
    BY <1>1
  <2> HIDE DEF call
  <2> QED
    BY <1>1, <2>1 DEF Row
<1>3. /\ turnos[t] = AbsentTurno /\ StationFree
      /\ turnos' = [turnos EXCEPT ![t] = row] /\ cortes' = cortes
  BY DEF InsertTurno
<1>4. turnos[t].version = 0 /\ turnos[t].status = "AUSENTE"
  BY <1>3 DEF AbsentTurno
<1> HIDE DEF row
<1>5. PICK movs \in Seq(Movimiento) : movimientos' = [movimientos EXCEPT ![t] = movs]
  <2>1. CASE UNCHANGED movimientos
    BY <2>1 DEF IInv, Shape
  <2>2. CASE AddMovement(t, call.usuario, "FONDO_INICIAL", call.fondo)
    BY <1>1, <2>2, AddMovementAppends DEF IInv, MovementTypes
  <2> QED
    BY <2>1, <2>2
<1>6. cortes' = [cortes EXCEPT ![t] = NULL]
  BY <1>3, <1>4 DEF CorteOnlyAtTheEnd, IInv, Shape
<1>7. row.version > turnos[t].version /\ Agrees(row, movs, NULL)
  BY <1>2, <1>4 DEF Agrees
<1> QED
  BY <1>2, <1>3, <1>5, <1>6, <1>7, SaveKeepsIInv

\* A new participant.
LEMMA AgregarKeepsIInv ==
  ASSUME IInv, NEW r \in Requests, AgregarOperador(r)
  PROVE  IInv'
<1> DEFINE call == requests[r]
           row  == [call.seen EXCEPT !.operadores = @ \cup {call.nuevo}, !.version = @ + 1]
<1>1. call.op = "agregarOperador" /\ VersionMatches(call) /\ Drops
  BY AnswerDrops DEF AgregarOperador, Waiting, IInv
<1>2. call.turno \in Turnos /\ call.seen \in Row /\ call.seen = turnos[call.turno]
  BY <1>1, GuardMeansCurrent
<1>3. call.seen.status = "ABIERTO" /\ call.nuevo \in Operadores
  BY <1>1 DEF IInv, Shape, CallOK
<1>4. /\ turnos' = [turnos EXCEPT ![call.turno] = row]
      /\ movimientos' = movimientos /\ cortes' = cortes
  BY DEF AgregarOperador
<1> HIDE DEF call
<1>5. row \in Row /\ row.status = "ABIERTO" /\ row.version > turnos[call.turno].version
  <2>1. /\ call.seen.operadores \cup {call.nuevo} \in SUBSET Operadores
        /\ call.seen.version \in Nat /\ call.seen.version + 1 \in Nat
    BY <1>2, <1>3 DEF Row
  <2>2. row.status = "ABIERTO" /\ row.version = call.seen.version + 1
    BY <1>2, <1>3 DEF Row
  <2>3. row \in Row
    <3>1. /\ row = [call.seen EXCEPT !.operadores = call.seen.operadores \cup {call.nuevo},
                                     !.version = call.seen.version + 1]
      BY <1>2 DEF Row
    <3> QED
      BY <1>2, <2>1, <3>1 DEF Row
  <2> QED
    BY <1>2, <2>1, <2>2, <2>3
<1> HIDE DEF row
<1>6. cortes[call.turno] = NULL
  BY <1>2, <1>3 DEF IInv, CorteOnlyAtTheEnd
<1>7. /\ movimientos[call.turno] \in Seq(Movimiento)
      /\ movimientos' = [movimientos EXCEPT ![call.turno] = movimientos[call.turno]]
      /\ cortes' = [cortes EXCEPT ![call.turno] = NULL]
  BY <1>2, <1>4, <1>6 DEF IInv, Shape
<1>8. Agrees(row, movimientos[call.turno], NULL)
  BY <1>5 DEF Agrees
<1> QED
  BY <1>1, <1>2, <1>3, <1>4, <1>5, <1>7, <1>8, SaveKeepsIInv

\* A movement recorded by an operator.
LEMMA MovimientoKeepsIInv ==
  ASSUME IInv, NEW r \in Requests, RegistrarMovimiento(r)
  PROVE  IInv'
<1> DEFINE call == requests[r]
           row  == [turnos[call.turno] EXCEPT !.version = call.seen.version + 1]
<1>1. call.op = "registrarMovimiento" /\ VersionMatches(call) /\ Drops
  BY AnswerDrops DEF RegistrarMovimiento, Waiting, IInv
<1>2. /\ call.turno \in Turnos /\ call.seen \in Row /\ call.seen = turnos[call.turno]
      /\ call.usuario \in Operadores
  BY <1>1, GuardMeansCurrent
<1>3. call.seen.status = "ABIERTO" /\ call.tipo \in MovementTypes /\ call.monto \in Int
  BY <1>1 DEF IInv, Shape, CallOK
<1>4. /\ turnos' = [turnos EXCEPT ![call.turno] = row]
      /\ AddMovement(call.turno, call.usuario, call.tipo, call.monto)
      /\ cortes' = cortes
  BY DEF RegistrarMovimiento
<1> HIDE DEF call
<1>5. row \in Row /\ row.status = "ABIERTO" /\ row.version > turnos[call.turno].version
  BY <1>2, <1>3 DEF Row
<1> HIDE DEF row
<1>6. PICK movs \in Seq(Movimiento) : movimientos' = [movimientos EXCEPT ![call.turno] = movs]
  BY <1>2, <1>3, <1>4, AddMovementAppends DEF IInv
<1>7. cortes[call.turno] = NULL
  BY <1>2, <1>3 DEF IInv, CorteOnlyAtTheEnd
<1>8. cortes' = [cortes EXCEPT ![call.turno] = NULL]
  BY <1>2, <1>4, <1>7 DEF IInv, Shape
<1>9. Agrees(row, movs, NULL)
  BY <1>5 DEF Agrees
<1> QED
  BY <1>1, <1>2, <1>3, <1>4, <1>5, <1>6, <1>8, <1>9, SaveKeepsIInv

\* The blind count: the total is that of the movements in the table.
LEMMA ArqueoKeepsIInv ==
  ASSUME IInv, NEW r \in Requests, RealizarArqueoCiego(r)
  PROVE  IInv'
<1> DEFINE call  == requests[r]
           movs  == movimientos[call.turno]
           total == TotalCalculado(call.seen.fondo, movs)
           row   == [turnos[call.turno] EXCEPT !.status     = "CERRADO_ARQUEO",
                                               !.declarado  = call.declarado,
                                               !.calculado  = total,
                                               !.diferencia = call.declarado - total,
                                               !.version    = call.seen.version + 1]
<1>1. call.op = "realizarArqueoCiego" /\ VersionMatches(call) /\ Drops
  BY AnswerDrops DEF RealizarArqueoCiego, Waiting, IInv
<1>2. call.turno \in Turnos /\ call.seen \in Row /\ call.seen = turnos[call.turno]
  BY <1>1, GuardMeansCurrent
<1>3. call.seen.status = "ABIERTO" /\ call.declarado \in Int
  BY <1>1 DEF IInv, Shape, CallOK
<1>4. /\ turnos' = [turnos EXCEPT ![call.turno] = row]
      /\ movimientos' = movimientos /\ cortes' = cortes
  BY DEF RealizarArqueoCiego
<1>5. movs \in Seq(Movimiento)
  BY <1>2 DEF IInv, Shape
<1> HIDE DEF call, movs
<1>6. total \in Totals /\ call.declarado - total \in Diferencias
  BY <1>2, <1>3, <1>5 DEF Totals, Diferencias, Row
<1> HIDE DEF total
<1>7. /\ row \in Row /\ row.status = "CERRADO_ARQUEO" /\ row.fondo = call.seen.fondo
      /\ row.calculado = total /\ row.declarado = call.declarado
      /\ row.diferencia = call.declarado - total
      /\ row.version = call.seen.version + 1 /\ call.seen.version \in Nat
  <2>1. call.seen.version \in Nat /\ call.seen.version + 1 \in Nat
    BY <1>2 DEF Row
  <2>2. row \in Row
    BY <1>2, <1>3, <1>6, <2>1 DEF Row
  <2>3. /\ row.status = "CERRADO_ARQUEO" /\ row.fondo = call.seen.fondo
        /\ row.calculado = total /\ row.declarado = call.declarado
        /\ row.diferencia = call.declarado - total
        /\ row.version = call.seen.version + 1
    BY <1>2 DEF Row
  <2> QED
    BY <2>1, <2>2, <2>3
<1> HIDE DEF row
<1>8. cortes[call.turno] = NULL
  BY <1>2, <1>3 DEF IInv, CorteOnlyAtTheEnd
<1>9. /\ movimientos' = [movimientos EXCEPT ![call.turno] = movs]
      /\ cortes' = [cortes EXCEPT ![call.turno] = NULL]
  BY <1>2, <1>4, <1>8 DEF IInv, Shape, movs
<1>10. Agrees(row, movs, NULL)
  BY <1>7 DEF Agrees, total
<1>11. row.version > turnos[call.turno].version
  BY <1>2, <1>7
<1> QED
  BY <1>1, <1>2, <1>4, <1>5, <1>7, <1>9, <1>10, <1>11, SaveKeepsIInv

\* The Corte Z: nothing was appended since the count, so the total it
\* recomputes is the stored one.
LEMMA CorteZKeepsIInv ==
  ASSUME IInv, NEW r \in Requests, GenerarCorteZ(r)
  PROVE  IInv'
<1> DEFINE call  == requests[r]
           movs  == movimientos[call.turno]
           row   == [turnos[call.turno] EXCEPT !.status  = "CORTE_Z_EMITIDO",
                                               !.version = call.seen.version + 1]
           corte == [calculado  |-> TotalCalculado(call.seen.fondo, movs),
                     declarado  |-> call.seen.declarado,
                     diferencia |-> call.seen.diferencia,
                     desglose   |-> Desglose(movs)]
<1>1. call.op = "generarCorteZ" /\ VersionMatches(call) /\ Drops
  BY AnswerDrops DEF GenerarCorteZ, Waiting, IInv
<1>2. call.turno \in Turnos /\ call.seen \in Row /\ call.seen = turnos[call.turno]
  BY <1>1, GuardMeansCurrent
<1>3. call.seen.status = "CERRADO_ARQUEO"
  BY <1>1 DEF IInv, Shape, CallOK
<1>4. /\ turnos' = [turnos EXCEPT ![call.turno] = row]
      /\ movimientos' = movimientos /\ cortes' = [cortes EXCEPT ![call.turno] = corte]
  BY DEF GenerarCorteZ
<1>5. /\ movs \in Seq(Movimiento)
      /\ movimientos' = [movimientos EXCEPT ![call.turno] = movs]
  BY <1>2, <1>4 DEF IInv, Shape
<1>6. /\ call.seen.calculado = TotalCalculado(call.seen.fondo, movs)
      /\ call.seen.diferencia = call.seen.declarado - call.seen.calculado
  BY <1>2, <1>3 DEF IInv, CutMatchesDrawer
<1> HIDE DEF call, movs
<1>7. /\ row \in Row /\ row.status = "CORTE_Z_EMITIDO" /\ row.fondo = call.seen.fondo
      /\ row.calculado = call.seen.calculado /\ row.declarado = call.seen.declarado
      /\ row.diferencia = call.seen.diferencia
      /\ row.version = call.seen.version + 1 /\ call.seen.version \in Nat
  <2>1. call.seen.version \in Nat /\ call.seen.version + 1 \in Nat
    BY <1>2 DEF Row
  <2>2. row \in Row
    BY <1>2, <2>1 DEF Row
  <2>3. /\ row.status = "CORTE_Z_EMITIDO" /\ row.fondo = call.seen.fondo
        /\ row.calculado = call.seen.calculado /\ row.declarado = call.seen.declarado
        /\ row.diferencia = call.seen.diferencia
        /\ row.version = call.seen.version + 1
    BY <1>2 DEF Row
  <2> QED
    BY <2>1, <2>2, <2>3
<1> HIDE DEF row
<1>8. /\ corte.calculado = TotalCalculado(call.seen.fondo, movs)
      /\ corte.declarado = call.seen.declarado
      /\ corte.diferencia = call.seen.diferencia
  OBVIOUS
<1> HIDE DEF corte
<1>9. Agrees(row, movs, corte)
  BY <1>6, <1>7, <1>8 DEF Agrees
<1>10. row.version > turnos[call.turno].version
  BY <1>2, <1>7
<1> QED
  BY <1>1, <1>2, <1>4, <1>5, <1>7, <1>9, <1>10, SaveKeepsIInv

\* A step that leaves the rows, the cuts and the counted movements alone and
\* only drops calls keeps the invariant.
LEMMA DropKeepsIInv ==
  ASSUME IInv, Drops, UNCHANGED <<turnos, cortes>>,
         movimientos' \in [Turnos -> Seq(Movimiento)],
         \A t \in Turnos : turnos[t].status # "ABIERTO" => movimientos'[t] = movimientos[t]
  PROVE  IInv'
<1>1. Shape'
  <2>1. \A q \in Requests : CallOK(requests'[q])
    BY DropsKeepCalls DEF IInv
  <2> QED
    BY <2>1 DEF Shape, Drops, IInv
<1>2. SnapshotsAreVersions'
  BY DEF SnapshotsAreVersions, Drops, Idle, IInv
<1>3. CutMatchesDrawer'
  <2>1. \A t \in Turnos : Agrees(turnos'[t], movimientos'[t], cortes'[t])
    <3> SUFFICES ASSUME NEW t \in Turnos PROVE Agrees(turnos'[t], movimientos'[t], cortes'[t])
      OBVIOUS
    <3>1. Agrees(turnos[t], movimientos[t], cortes[t])
      BY DEF IInv, CutMatchesDrawer, Agrees
    <3>2. CASE turnos[t].status = "ABIERTO"
      BY <3>1, <3>2 DEF Agrees
    <3>3. CASE turnos[t].status # "ABIERTO"
      BY <3>1, <3>3
    <3> QED
      BY <3>2, <3>3
  <2> QED
    BY <2>1 DEF CutMatchesDrawer, Agrees
<1>4. VersionsStartAtOne' /\ CorteOnlyAtTheEnd' /\ AtMostOneOpenTurno'
  BY DEF VersionsStartAtOne, CorteOnlyAtTheEnd, AtMostOneOpenTurno, IInv
<1> QED
  BY <1>1, <1>2, <1>3, <1>4 DEF IInv

\* Every step keeps the invariant.
LEMMA NextIInv == IInv /\ [ShiftNext]_shiftVars => IInv'
<1> SUFFICES ASSUME IInv, [ShiftNext]_shiftVars PROVE IInv'
  OBVIOUS
<1>0. Shape /\ movimientos \in [Turnos -> Seq(Movimiento)]
  BY DEF IInv, Shape
<1>1. ASSUME NEW r \in Requests, ShiftRequest(r) PROVE IInv'
  BY <1>1, RequestKeepsIInv
<1>2. ASSUME NEW r \in Requests, ShiftCompletion(r) PROVE IInv'
  <2>1. ASSUME NEW t \in Turnos, AbrirTurno(r, t) PROVE IInv'
    <3>1. Drops
      BY <1>0, <2>1, AnswerDrops DEF AbrirTurno
    <3>2. /\ Waiting(r, "abrirTurno") /\ InsertTurno(requests[r], t)
          /\ \/ UNCHANGED movimientos
             \/ AddMovement(t, requests[r].usuario, "FONDO_INICIAL", requests[r].fondo)
      BY <2>1 DEF AbrirTurno
    <3> QED
      BY <3>1, <3>2, InsertKeepsIInv
  <2>2. ASSUME NEW t \in Turnos, StopWhileOpening(r, t) PROVE IInv'
    <3>1. Drops
      BY <2>2 DEF StopWhileOpening, Drops
    <3>2. Waiting(r, "abrirTurno") /\ InsertTurno(requests[r], t) /\ UNCHANGED movimientos
      BY <2>2 DEF StopWhileOpening
    <3> QED
      BY <3>1, <3>2, InsertKeepsIInv
  <2>3. CASE Refuse(r)
    BY <1>0, <2>3, AnswerDrops, DropKeepsIInv DEF Refuse
  <2> QED
    BY <1>2, <2>1, <2>2, <2>3, AgregarKeepsIInv, MovimientoKeepsIInv, ArqueoKeepsIInv,
       CorteZKeepsIInv DEF ShiftCompletion
<1>3. CASE CashSale
  <2>1. PICK t \in Turnos, u \in Operadores, m \in Cobros : CobroEfectivo(t, u, m)
    BY <1>3 DEF CashSale
  <2>2. Drops
    BY <1>0, <1>3 DEF CashSale, Drops, Shape
  <2>3. /\ turnos[t].status = "ABIERTO" /\ UNCHANGED <<turnos, cortes>>
        /\ AddMovement(t, u, "VENTA_EFECTIVO", m)
    BY <2>1 DEF CobroEfectivo
  <2>4. PICK movs \in Seq(Movimiento) : movimientos' = [movimientos EXCEPT ![t] = movs]
    BY <1>0, <2>3, ShiftAssumption, AddMovementAppends DEF MovementTypes
  <2> QED
    BY <1>0, <2>2, <2>3, <2>4, DropKeepsIInv
<1>4. CASE Stop
  <2>1. Drops
    BY <1>4 DEF Stop, Drops
  <2> QED
    BY <1>0, <1>4, <2>1, DropKeepsIInv DEF Stop
<1>5. CASE UNCHANGED shiftVars
  <2>1. Drops
    BY <1>0, <1>5 DEF shiftVars, Drops, Shape
  <2> QED
    BY <1>0, <1>5, <2>1, DropKeepsIInv DEF shiftVars
<1> QED
  BY <1>1, <1>2, <1>3, <1>4, <1>5 DEF ShiftNext

\* The inductive invariant holds in every reachable state.
THEOREM Invariance == ShiftSpec => []IInv
BY InitIInv, NextIInv, PTL DEF ShiftSpec

\* No movement lands behind the count: the figures of the arqueo and of the
\* Corte Z are always those of the movements in the table.
THEOREM CutIsExact == ShiftSpec => []CutMatchesDrawer
<1>1. IInv => CutMatchesDrawer
  BY DEF IInv
<1> QED
  BY <1>1, Invariance, PTL

\* A station never has two open shifts.
THEOREM OneOpenTurno == ShiftSpec => []AtMostOneOpenTurno
<1>1. IInv => AtMostOneOpenTurno
  BY DEF IInv
<1> QED
  BY <1>1, Invariance, PTL

\* A version names one state of a shift for every call in flight.
THEOREM SnapshotsStayVersions == ShiftSpec => []SnapshotsAreVersions
<1>1. IInv => SnapshotsAreVersions
  BY DEF IInv
<1> QED
  BY <1>1, Invariance, PTL

\* What a step may do to one shift once it is counted.
FrozenStep(t) ==
    /\ turnos[t].status = "CORTE_Z_EMITIDO" =>
        turnos'[t] = turnos[t] /\ movimientos'[t] = movimientos[t] /\ cortes'[t] = cortes[t]
    /\ turnos[t].status = "CERRADO_ARQUEO" =>
        /\ turnos'[t].status \in {"CERRADO_ARQUEO", "CORTE_Z_EMITIDO"}
        /\ movimientos'[t] = movimientos[t]

\* A completion that passes the version guard found the shift open, or
\* counted when it issues the Corte Z, and writes no other shift.
LEMMA CompletionFreezes ==
  ASSUME IInv, NEW r \in Requests, ShiftCompletion(r), NEW t \in Turnos
  PROVE  FrozenStep(t)
<1> DEFINE call == requests[r]
<1>0. /\ turnos \in [Turnos -> Row] /\ movimientos \in [Turnos -> Seq(Movimiento)]
      /\ cortes = [s \in Turnos |-> cortes[s]]
  BY DEF IInv, Shape
<1>1. ASSUME NEW s \in Turnos, AbrirTurno(r, s) \/ StopWhileOpening(r, s) PROVE FrozenStep(t)
  <2>1. turnos[s].status = "AUSENTE"
    BY <1>1 DEF AbrirTurno, StopWhileOpening, InsertTurno, AbsentTurno
  <2>2. CASE s = t
    BY <2>1, <2>2 DEF FrozenStep
  <2>3. CASE s # t
    BY <1>0, <1>1, <2>3 DEF FrozenStep, AbrirTurno, StopWhileOpening, InsertTurno, AddMovement
  <2> QED
    BY <2>2, <2>3
<1>2. CASE AgregarOperador(r) \/ RegistrarMovimiento(r) \/ RealizarArqueoCiego(r)
  <2>1. /\ call.op \in {"agregarOperador", "registrarMovimiento", "realizarArqueoCiego"}
        /\ VersionMatches(call)
    BY <1>2 DEF AgregarOperador, RegistrarMovimiento, RealizarArqueoCiego, Waiting
  <2>2. call.turno \in Turnos /\ call.seen = turnos[call.turno]
    BY <2>1, GuardMeansCurrent
  <2>3. call.seen.status = "ABIERTO"
    BY <2>1 DEF IInv, Shape, CallOK
  <2>4. CASE call.turno = t
    BY <2>2, <2>3, <2>4 DEF FrozenStep
  <2>5. CASE call.turno # t
    BY <1>0, <1>2, <2>2, <2>5
       DEF FrozenStep, AgregarOperador, RegistrarMovimiento, RealizarArqueoCiego, AddMovement
  <2> QED
    BY <2>4, <2>5
<1>3. CASE GenerarCorteZ(r)
  <2>1. call.op = "generarCorteZ" /\ VersionMatches(call)
    BY <1>3 DEF GenerarCorteZ, Waiting
  <2>2. call.turno \in Turnos /\ call.seen = turnos[call.turno] /\ call.seen \in Row
    BY <2>1, GuardMeansCurrent
  <2>3. call.seen.status = "CERRADO_ARQUEO"
    BY <2>1 DEF IInv, Shape, CallOK
  <2>4. CASE call.turno = t
    <3>1. turnos'[t].status = "CORTE_Z_EMITIDO" /\ movimientos' = movimientos
      BY <1>0, <1>3, <2>2, <2>4 DEF GenerarCorteZ, Row
    <3> QED
      BY <2>2, <2>3, <2>4, <3>1 DEF FrozenStep
  <2>5. CASE call.turno # t
    BY <1>0, <1>3, <2>2, <2>5 DEF FrozenStep, GenerarCorteZ
  <2> QED
    BY <2>4, <2>5
<1>4. CASE Refuse(r)
  BY <1>4 DEF Refuse, FrozenStep
<1> QED
  BY <1>1, <1>2, <1>3, <1>4 DEF ShiftCompletion

\* A shift whose Corte Z was issued never changes again, and a counted shift
\* keeps its movements and only proceeds to its Corte Z.
THEOREM ClosedStaysFrozen == ShiftSpec => ClosedTurnoIsFrozen
<1>1. ASSUME IInv, [ShiftNext]_shiftVars, NEW t \in Turnos PROVE FrozenStep(t)
  <2>0. movimientos \in [Turnos -> Seq(Movimiento)]
    BY <1>1 DEF IInv, Shape
  <2>1. ASSUME NEW r \in Requests, ShiftRequest(r) PROVE FrozenStep(t)
    BY <2>1 DEF ShiftRequest, RequestAbrirTurno, RequestAgregarOperador, RequestMovimiento,
                RequestArqueo, RequestCorteZ, Wait, FrozenStep
  <2>2. CASE CashSale
    BY <2>0, <2>2 DEF CashSale, CobroEfectivo, AddMovement, FrozenStep
  <2>3. CASE Stop \/ UNCHANGED shiftVars
    BY <2>3 DEF Stop, shiftVars, FrozenStep
  <2> QED
    BY <1>1, <2>1, <2>2, <2>3, CompletionFreezes DEF ShiftNext
<1>2. IInv /\ [ShiftNext]_shiftVars =>
        [\A t \in Turnos :
            /\ turnos[t].status = "CORTE_Z_EMITIDO" =>
                turnos'[t] = turnos[t] /\ movimientos'[t] = movimientos[t] /\ cortes'[t] = cortes[t]
            /\ turnos[t].status = "CERRADO_ARQUEO" =>
                /\ turnos'[t].status \in {"CERRADO_ARQUEO", "CORTE_Z_EMITIDO"}
                /\ movimientos'[t] = movimientos[t]]_shiftVars
  BY <1>1 DEF FrozenStep
<1> QED
  BY <1>2, Invariance, PTL DEF ShiftSpec, ClosedTurnoIsFrozen
=============================================================================
