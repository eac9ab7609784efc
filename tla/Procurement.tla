----------------------------- MODULE Procurement -----------------------------
(***************************************************************************)
(* Purchase orders and their receipts: PostgresProcurementService of       *)
(* packages/cloud-server/src/index.ts over the rules of                    *)
(* packages/procurement/src.                                               *)
(*                                                                         *)
(* Every operation on an order first locks its row (SELECT ... FOR UPDATE) *)
(* and holds the lock to the end, so that an operation is one step; two    *)
(* orders that race for one receipt number meet at its unique index.       *)
(* Suppliers, branches, warehouses and dates are left out: an order has    *)
(* the right ones or the operation fails without effect.                   *)
(***************************************************************************)
EXTENDS Integers, Sequences, SequencesExt, PosValues

CONSTANTS
    Ordenes,        \* purchase orders
    Renglones,      \* the items of all orders
    OrdenDe,        \* the order of each item
    Ordered,        \* the quantity ordered of each item
    UnitCost,       \* the unit cost ordered of each item
    Receipts,       \* receipt numbers
    Deliveries      \* the lists of lines a client may confirm

ASSUME ProcurementAssumption ==
    /\ OrdenDe \in [Renglones -> Ordenes]
    /\ Ordered \in [Renglones -> Nat \ {0}]
    /\ UnitCost \in [Renglones -> Nat]
    /\ Deliveries \subseteq Seq([item: Renglones, qty: Int, cost: Int])

VARIABLES
    ordenes,        \* the status of each purchase order
    receipts,       \* the order and the lines of each receipt
    registered      \* RecepcionCompraRegistrada: the total of each receipt announced

procurementVars == <<ordenes, receipts, registered>>

-----------------------------------------------------------------------------
(* Purchase orders *)

CreatePurchaseOrder(p) ==
    /\ ordenes[p] = NULL
    /\ ordenes' = [ordenes EXCEPT ![p] = "DRAFT"]
    /\ UNCHANGED <<receipts, registered>>

\* validatePoTransition.
PoTransition(from, to) ==
    \/ from = to
    \/ from = "DRAFT" /\ to \in {"SENT", "CANCELLED"}
    \/ from = "SENT" /\ to \in {"PARTIAL", "RECEIVED", "CANCELLED"}
    \/ from = "PARTIAL" /\ to = "RECEIVED"

SendPurchaseOrder(p) ==
    /\ PoTransition(ordenes[p], "SENT")
    /\ ordenes' = [ordenes EXCEPT ![p] = "SENT"]
    /\ UNCHANGED <<receipts, registered>>

\* An order may be cancelled as long as it was not fully received.
CanCancelPo_Partial(p) == ordenes[p] \in {"DRAFT", "SENT", "PARTIAL", "CANCELLED"}

\* validateCanCancelPo, with the count of confirmed receipts.
CanCancelPo(p) ==
    \/ ordenes[p] = "CANCELLED"
    \/ /\ ordenes[p] \notin {NULL, "RECEIVED", "PARTIAL"}
       /\ \A r \in Receipts : receipts[r] # NULL => receipts[r].orden # p
       /\ PoTransition(ordenes[p], "CANCELLED")

CancelPurchaseOrder(p) ==
    /\ CanCancelPo(p)
    /\ ordenes' = [ordenes EXCEPT ![p] = "CANCELLED"]
    /\ UNCHANGED <<receipts, registered>>

-----------------------------------------------------------------------------
(* Receipts *)

\* SUM(received_quantity) of an item over a list of lines, and over the
\* confirmed receipts.
QtyIn(lines, i) == FoldSeq(LAMBDA l, total : total + IF l.item = i THEN l.qty ELSE 0, 0, lines)

ReceivedQty(rs, i) ==
    FoldFunction(LAMBDA r, total : total + IF r = NULL THEN 0 ELSE QtyIn(r.lines, i), 0, rs)

\* The amount at the ordered costs.
TotalAmount_Ordered(lines) == FoldSeq(LAMBDA l, total : total + l.qty * UnitCost[l.item], 0, lines)

\* calculateReceiptTotalAmount, at the accepted costs.
TotalAmount(lines) == FoldSeq(LAMBDA l, total : total + l.qty * l.cost, 0, lines)

\* A line compared with the order alone.
LineAccepted_NotCumulative(p, l) ==
    /\ OrdenDe[l.item] = p
    /\ l.qty > 0
    /\ l.cost >= 0
    /\ l.qty <= Ordered[l.item]

\* The checks of one line: it belongs to the order, its quantity is positive,
\* and evaluateOverReceipt with what earlier receipts brought.  A cost other
\* than the ordered one is up to the price variance policy.
LineAccepted(p, l) ==
    /\ OrdenDe[l.item] = p
    /\ l.qty > 0
    /\ l.cost >= 0
    /\ ReceivedQty(receipts, l.item) + l.qty <= Ordered[l.item]

\* determinePostReceiptPoStatus over the items of the order.
PostReceiptStatus(p, rs) ==
    IF \A i \in Renglones : OrdenDe[i] = p => ReceivedQty(rs, i) >= Ordered[i]
    THEN "RECEIVED" ELSE "PARTIAL"

\* confirmPurchaseReceipt.  A number that is already taken is accepted as a
\* duplicate or refused as a conflict, and nothing changes.
ConfirmPurchaseReceipt(p, r, lines) ==
    LET confirmed == [receipts EXCEPT ![r] = [orden |-> p, lines |-> lines]]
    IN  /\ receipts[r] = NULL
        /\ ordenes[p] \in {"SENT", "PARTIAL"}
        /\ lines # <<>>
        /\ \A k \in DOMAIN lines : LineAccepted(p, lines[k])
        /\ receipts' = confirmed
        /\ ordenes' = [ordenes EXCEPT ![p] = PostReceiptStatus(p, confirmed)]
        /\ registered' = [registered EXCEPT ![r] = TotalAmount(lines)]

-----------------------------------------------------------------------------
(* The service *)

ProcurementInit ==
    /\ ordenes = [p \in Ordenes |-> NULL]
    /\ receipts = [r \in Receipts |-> NULL]
    /\ registered = [r \in Receipts |-> NULL]

ProcurementNext ==
    \E p \in Ordenes :
        \/ CreatePurchaseOrder(p)
        \/ SendPurchaseOrder(p)
        \/ CancelPurchaseOrder(p)
        \/ \E r \in Receipts, lines \in Deliveries : ConfirmPurchaseReceipt(p, r, lines)

ProcurementSpec == ProcurementInit /\ [][ProcurementNext]_procurementVars

-----------------------------------------------------------------------------
(* Properties *)

\* The status of an order tells what was received: nothing unless PARTIAL or
\* RECEIVED, something in both, everything exactly when RECEIVED.
StatusMatchesReceipts ==
    \A p \in Ordenes :
        LET mine == {r \in Receipts : receipts[r] # NULL /\ receipts[r].orden = p}
            full == \A i \in Renglones : OrdenDe[i] = p => ReceivedQty(receipts, i) >= Ordered[i]
        IN  /\ mine # {} <=> ordenes[p] \in {"PARTIAL", "RECEIVED"}
            /\ ordenes[p] = "RECEIVED" => full
            /\ ordenes[p] = "PARTIAL" => ~full

\* "Default implementation MUST NOT silently over-receive beyond ordered
\* quantity": no sequence of partial receipts brings more of an item than
\* was ordered.
NeverOverReceived == \A i \in Renglones : ReceivedQty(receipts, i) <= Ordered[i]
=============================================================================
