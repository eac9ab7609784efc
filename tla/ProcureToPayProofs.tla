------------------------- MODULE ProcureToPayProofs -------------------------
(***************************************************************************)
(* The composition implements FinanceLedger: procurement's steps do not    *)
(* touch the accounts, and a delivered event asks for an amount that a     *)
(* receipt can come to, since the event is written with the receipt and    *)
(* never changed.  What is proved of the accounts alone therefore holds    *)
(* whatever orders and receipts do.                                        *)
(***************************************************************************)
EXTENDS ProcureToPay, FinanceLedgerProofs

\* An announced total is the one of a delivery.
RegisteredOK == registered \in [Receipts -> ReceiptTotals \cup {NULL}]

LEMMA RegisteredStep == RegisteredOK /\ [PayNext]_payVars => RegisteredOK'
<1> SUFFICES ASSUME RegisteredOK, [PayNext]_payVars PROVE RegisteredOK'
  OBVIOUS
<1>1. CASE UNCHANGED registered
  BY <1>1 DEF RegisteredOK
<1>2. ASSUME NEW p \in Ordenes, NEW r \in Receipts, NEW lines \in Deliveries,
             ConfirmPurchaseReceipt(p, r, lines)
      PROVE  RegisteredOK'
  <2>1. registered' = [registered EXCEPT ![r] = TotalAmount(lines)]
    BY <1>2 DEF ConfirmPurchaseReceipt
  <2>2. TotalAmount(lines) \in ReceiptTotals
    BY PayAssumption
  <2> QED BY <2>1, <2>2 DEF RegisteredOK
<1>3. CASE ProcurementNext
  BY <1>1, <1>2, <1>3 DEF ProcurementNext, CreatePurchaseOrder, SendPurchaseOrder, CancelPurchaseOrder
<1>4. CASE UNCHANGED procurementVars
  BY <1>1, <1>4 DEF procurementVars
<1>5. CASE UNCHANGED payVars
  BY <1>1, <1>5 DEF payVars
<1> QED BY <1>3, <1>4, <1>5 DEF PayNext

\* Orders, receipts and the delivery of their events leave the accounts to
\* finance: every step is a step of FinanceLedger or does not change it.
THEOREM PayImplementsFinance == PaySpec => FinanceSpec
<1>1. PayInit => FinanceInit /\ RegisteredOK
  BY DEF PayInit, ProcurementInit, RegisteredOK
<1>2. RegisteredOK /\ [PayNext]_payVars => [FinanceNext]_financeVars
  <2> SUFFICES ASSUME RegisteredOK, [PayNext]_payVars PROVE [FinanceNext]_financeVars
    OBVIOUS
  <2>1. CASE UNCHANGED financeVars
    BY <2>1
  <2>2. CASE FinanceCalls
    BY <2>2 DEF FinanceNext
  <2>3. ASSUME NEW r \in Receipts, OnPurchaseReceiptConfirmed(r)
        PROVE  FinanceNext
    <3>1. r \in Payables /\ registered[r] \in ReceiptTotals
      BY <2>3, PayAssumption DEF OnPurchaseReceiptConfirmed, RegisteredOK
    <3>2. ProcessPurchaseReceiptEvent(r, registered[r])
      BY <2>3 DEF OnPurchaseReceiptConfirmed
    <3> QED BY <3>1, <3>2 DEF FinanceNext
  <2>4. CASE UNCHANGED payVars
    BY <2>4 DEF payVars, financeVars
  <2> QED BY <2>1, <2>2, <2>3, <2>4 DEF PayNext
<1> QED BY <1>1, <1>2, RegisteredStep, PTL DEF PaySpec, FinanceSpec

\* Whatever is ordered, received, delivered twice, paid and reversed, the
\* status of a document agrees with its balance.
THEOREM PayStatusIsSound == PaySpec => []StatusFollowsBalance
BY PayImplementsFinance, StatusIsSound, PTL

\* Whatever is ordered, received, delivered twice, paid and reversed, a
\* payment is reversed at most once.
THEOREM PayReversalIsUnique == PaySpec => []ReversedOnce
BY PayImplementsFinance, ReversalIsUnique, PTL
=============================================================================
