----------------------------- MODULE ProcureToPay -----------------------------
(***************************************************************************)
(* From the purchase order to the payment: a confirmed receipt enqueues    *)
(* RecepcionCompraRegistrada in its transaction, the outbox delivers it at *)
(* least once and in any order, and finance opens a payable for it         *)
(* (onPurchaseReceiptConfirmed).                                           *)
(***************************************************************************)
EXTENDS Procurement, FinanceLedger

ASSUME PayAssumption ==
    /\ Payables = Receipts
    /\ \A lines \in Deliveries : TotalAmount(lines) \in ReceiptTotals

payVars == <<ordenes, receipts, registered, docs, txs, ops>>

PayInit == ProcurementInit /\ FinanceInit

\* onPurchaseReceiptConfirmed: a delivery of the event.  Only the first one
\* that gets through has an effect.
OnPurchaseReceiptConfirmed(r) ==
    /\ registered[r] # NULL
    /\ ProcessPurchaseReceiptEvent(r, registered[r])

PayNext ==
    \/ ProcurementNext /\ UNCHANGED financeVars
    \/ FinanceCalls /\ UNCHANGED procurementVars
    \/ \E r \in Receipts : OnPurchaseReceiptConfirmed(r) /\ UNCHANGED procurementVars

PaySpec == PayInit /\ [][PayNext]_payVars

-----------------------------------------------------------------------------
(* Properties *)

\* A payable is owed for a confirmed receipt, and for what was received at
\* the accepted costs, not for what was ordered.
PayableMatchesReceipt ==
    \A r \in Payables :
        docs[r] # NoDoc =>
            /\ receipts[r] # NULL
            /\ docs[r].total = FoldSeq(LAMBDA l, total : total + l.qty * l.cost, 0, receipts[r].lines)
=============================================================================
