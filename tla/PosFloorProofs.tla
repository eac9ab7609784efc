--------------------------- MODULE PosFloorProofs ---------------------------
(***************************************************************************)
(* The POS server implements the cash shift, for any number of accounts,   *)
(* shifts, calls and tenders; so what CashShiftProofs shows of the shift   *)
(* alone holds while payments race with it.  And an operation of a client  *)
(* registers at most one payment.                                          *)
(*                                                                         *)
(* The inductive invariant is the type of the payments and of the waiting  *)
(* tenders: a tender that is settled names a shift, an operator and an     *)
(* amount, which the abstract cash sale quantifies over.                   *)
(***************************************************************************)
EXTENDS PosFloor, CashShiftProofs

\* Every step keeps the type of payments and tenders: a tender becomes a
\* payment of the account it names.
LEMMA FloorTypeStep ==
    ASSUME FloorTypeOK, [FloorNext]_floorVars
    PROVE  FloorTypeOK'
<1>1. CASE ServerOps /\ UNCHANGED <<shiftVars, pagos, tenders, manuales>>
  BY <1>1 DEF FloorTypeOK
<1>2. CASE ShiftRoutes
  BY <1>2 DEF FloorTypeOK, ShiftRoutes
<1>3. ASSUME NEW k \in Tenders, NEW c \in Cuentas, NEW p \in Pago, RequestTender(k, c, p)
      PROVE  FloorTypeOK'
  <2>1. [cuenta |-> c, pago |-> p] \in Tender
    BY DEF Tender
  <2> QED
    BY <1>3, <2>1 DEF FloorTypeOK, RequestTender
<1>4. ASSUME NEW k \in Tenders, SubmitTender(k)
      PROVE  FloorTypeOK'
  <2>1. tenders[k] \in Tender
    BY <1>4 DEF FloorTypeOK, SubmitTender
  <2>2. tenders[k].cuenta \in Cuentas /\ tenders[k].pago \in Pago
    BY <2>1 DEF Tender
  <2>3. pagos' \in [Cuentas -> Seq(Pago)]
    BY <1>4, <2>2 DEF FloorTypeOK, SubmitTender
  <2>4. tenders' \in [Tenders -> Tender \cup {NoTender}]
    BY <1>4 DEF FloorTypeOK, SubmitTender
  <2> QED
    BY <2>3, <2>4 DEF FloorTypeOK
<1>5. ASSUME NEW k \in Tenders, RefuseTender(k)
      PROVE  FloorTypeOK'
  BY <1>5 DEF FloorTypeOK, RefuseTender
<1>6. CASE StopServer
  BY <1>6 DEF FloorTypeOK, StopServer
<1>7. CASE UNCHANGED floorVars
  BY <1>7 DEF FloorTypeOK, floorVars
<1> QED
  BY <1>1, <1>2, <1>3, <1>4, <1>5, <1>6, <1>7 DEF FloorNext

\* Payments and tenders always have their types.
THEOREM FloorTypeCorrect == FloorSpec => []FloorTypeOK
<1>1. FloorInit => FloorTypeOK
  BY DEF FloorInit, FloorTypeOK
<1> QED
  BY <1>1, FloorTypeStep, PTL DEF FloorSpec

\* A settled tender is a cash sale of the shift, or does not touch it.
LEMMA SubmitTenderIsCashSale ==
    ASSUME FloorTypeOK, NEW k \in Tenders, SubmitTender(k)
    PROVE  CashSale \/ UNCHANGED shiftVars
<1> DEFINE pago == tenders[k].pago
<1>1. tenders[k] \in Tender
  BY DEF FloorTypeOK, SubmitTender
<1>2. pago \in Pago
  BY <1>1 DEF Tender
<1>3. /\ pago.turno \in Turnos
      /\ pago.operador \in Operadores
      /\ pago.monto \in Importes
      /\ pago.propina \in Propinas
  BY <1>2 DEF Pago
<1>4. pago.monto + pago.propina \in Cobros
  BY <1>3, FloorAssumption
<1>5. CASE pago.metodo = "EFECTIVO"
  <2>1. CobroEfectivo(pago.turno, pago.operador, pago.monto + pago.propina)
    BY <1>5 DEF SubmitTender, Payable, CobroEfectivo, CashTaken
  <2>2. UNCHANGED requests
    BY DEF SubmitTender
  <2> HIDE DEF pago
  <2> QED
    BY <1>3, <1>4, <2>1, <2>2 DEF CashSale
<1>6. CASE pago.metodo # "EFECTIVO"
  BY <1>6 DEF SubmitTender, shiftVars
<1> QED
  BY <1>5, <1>6

\* A step of the server is a step of the shift or leaves the shift alone.
LEMMA FloorStepIsShiftStep ==
    ASSUME FloorTypeOK, [FloorNext]_floorVars
    PROVE  [ShiftNext]_shiftVars
<1>1. CASE ServerOps /\ UNCHANGED <<shiftVars, pagos, tenders, manuales>>
  BY <1>1
<1>2. CASE ShiftRoutes
  BY <1>2 DEF ShiftRoutes, ShiftNext
<1>3. ASSUME NEW k \in Tenders, NEW c \in Cuentas, NEW p \in Pago, RequestTender(k, c, p)
      PROVE  UNCHANGED shiftVars
  BY <1>3 DEF RequestTender
<1>4. ASSUME NEW k \in Tenders, SubmitTender(k)
      PROVE  [ShiftNext]_shiftVars
  BY <1>4, SubmitTenderIsCashSale DEF ShiftNext
<1>5. ASSUME NEW k \in Tenders, RefuseTender(k)
      PROVE  UNCHANGED shiftVars
  BY <1>5 DEF RefuseTender
<1>6. CASE StopServer
  <2>1. CASE requests = [r \in Requests |-> Idle]
    BY <1>6, <2>1 DEF StopServer, shiftVars
  <2>2. CASE requests # [r \in Requests |-> Idle]
    BY <1>6, <2>2 DEF StopServer, Stop, ShiftNext
  <2> QED
    BY <2>1, <2>2
<1>7. CASE UNCHANGED floorVars
  BY <1>7 DEF floorVars, shiftVars
<1> QED
  BY <1>1, <1>2, <1>3, <1>4, <1>5, <1>6, <1>7 DEF FloorNext

\* The server implements the shift: the specification of the shift alone is
\* true of the variables of the shift, whatever the accounts do.
THEOREM FloorRefinesShift == FloorSpec => FloorImplementsShift
<1>1. FloorInit => ShiftInit
  BY DEF FloorInit
<1>2. FloorTypeOK /\ [FloorNext]_floorVars => [ShiftNext]_shiftVars
  BY FloorStepIsShiftStep
<1> QED
  BY <1>1, <1>2, FloorTypeCorrect, PTL DEF FloorSpec, FloorImplementsShift, ShiftSpec

\* On the server, too, a counted shift stays the one that was counted.
THEOREM FloorCutIsExact == FloorSpec => []CutMatchesDrawer
BY FloorRefinesShift, CutIsExact, PTL DEF FloorImplementsShift

\* A step inserts no second payment for a clientOpId: the look-up inside the
\* transaction reads the payments the insertion extends.
LEMMA OnePaymentStep ==
    ASSUME FloorTypeOK, OnePaymentPerOperation, [FloorNext]_floorVars
    PROVE  OnePaymentPerOperation'
<1>1. ASSUME NEW k \in Tenders, SubmitTender(k)
      PROVE  OnePaymentPerOperation'
  <2> DEFINE c == tenders[k].cuenta
  <2> DEFINE pago == tenders[k].pago
  <2>1. c \in Cuentas /\ pago \in Pago
    BY <1>1 DEF FloorTypeOK, SubmitTender, Tender
  <2>2. ~Registered(c, pago.op)
    BY <1>1 DEF SubmitTender
  <2>3. pagos' = [pagos EXCEPT ![c] = Append(@, pago)]
    BY <1>1 DEF SubmitTender
  <2> HIDE DEF c, pago
  <2>4. SUFFICES ASSUME NEW d \in Cuentas, NEW i \in DOMAIN pagos'[d], NEW j \in DOMAIN pagos'[d],
                        pagos'[d][i].op = pagos'[d][j].op
                 PROVE  i = j
    BY DEF OnePaymentPerOperation
  <2>5. CASE d # c
    BY <2>3, <2>5, <2>4 DEF OnePaymentPerOperation, FloorTypeOK
  <2>6. CASE d = c
    <3>1. pagos[c] \in Seq(Pago) /\ pagos'[c] = Append(pagos[c], pago)
      BY <2>1, <2>3 DEF FloorTypeOK
    <3>2. \A n \in 1..Len(pagos[c]) : pagos'[c][n] = pagos[c][n] /\ n \in DOMAIN pagos[c]
      BY <3>1, <2>1
    <3>3. pagos'[c][Len(pagos[c]) + 1] = pago
      BY <3>1, <2>1
    <3>4. i \in 1..(Len(pagos[c]) + 1) /\ j \in 1..(Len(pagos[c]) + 1)
      BY <2>6, <3>1, <2>1
    <3>5. \A n \in 1..Len(pagos[c]) : pagos[c][n].op # pago.op
      BY <2>2, <3>2 DEF Registered
    <3>6. Len(pagos[c]) \in Nat
      BY <3>1
    <3>7. CASE i \in 1..Len(pagos[c]) /\ j \in 1..Len(pagos[c])
      BY <3>7, <3>2, <2>4, <2>6, <2>1 DEF OnePaymentPerOperation
    <3>8. CASE i \in 1..Len(pagos[c]) /\ j = Len(pagos[c]) + 1
      BY <3>8, <3>2, <3>3, <3>5, <2>4, <2>6
    <3>9. CASE i = Len(pagos[c]) + 1 /\ j \in 1..Len(pagos[c])
      BY <3>9, <3>2, <3>3, <3>5, <2>4, <2>6
    <3> QED
      BY <3>4, <3>6, <3>7, <3>8, <3>9
  <2> QED
    BY <2>5, <2>6
<1>2. ASSUME UNCHANGED pagos
      PROVE  OnePaymentPerOperation'
  BY <1>2 DEF OnePaymentPerOperation
<1>3. [FloorNext]_floorVars => UNCHANGED pagos \/ \E k \in Tenders : SubmitTender(k)
  BY DEF FloorNext, floorVars, ShiftRoutes, RequestTender, RefuseTender, StopServer
<1> QED
  BY <1>1, <1>2, <1>3

\* At most one payment per account and clientOpId, whatever tenders wait at
\* the same time.
THEOREM PaymentsAreIdempotent == FloorSpec => []OnePaymentPerOperation
<1>1. FloorInit => OnePaymentPerOperation
  BY DEF FloorInit, OnePaymentPerOperation
<1> QED
  BY <1>1, OnePaymentStep, FloorTypeCorrect, PTL DEF FloorSpec
=============================================================================
