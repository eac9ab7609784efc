---------------------------- MODULE FinanceLedger ----------------------------
(***************************************************************************)
(* Accounts payable and receivable: PostgresFinanceService of              *)
(* packages/cloud-server/src/index.ts over the rules of                    *)
(* packages/finance/src.                                                   *)
(*                                                                         *)
(* A payable is the debt of a purchase receipt, a receivable the charge of *)
(* a reference account.  Payments and settlements are rows of two          *)
(* append-only tables, and the balance and the status of the document are  *)
(* kept beside them.                                                       *)
(*                                                                         *)
(* Every operation looks for its reference first, without a lock, and only *)
(* then locks the document, looks again and writes.  The first look-up     *)
(* either ends the operation without effect or is repeated under the lock  *)
(* (an insert of a document: by ON CONFLICT), so that an operation is one  *)
(* step.  What is read before and not read again is the customer's balance *)
(* of a credit check: such a charge is two steps.                          *)
(*                                                                         *)
(* Nothing in the service sets the states CANCELLED, OVERDUE and           *)
(* DEFAULTED.  Branches, suppliers and dates are left out: with other ones *)
(* an operation fails without effect.                                      *)
(***************************************************************************)
EXTENDS Integers, FiniteSets, FiniteSetsExt, PosValues

CONSTANTS
    Payables,       \* purchase receipts, the keys of accounts_payable
    Receivables,    \* reference accounts, the keys of accounts_receivable
    References,     \* reference_ids of payments, settlements and reversals
    Charges,        \* amounts a charge may carry
    ReceiptTotals,  \* amounts a purchase receipt may come to
    Amounts,        \* amounts a payment or a settlement may carry
    CreditLimit,    \* what the credit validator allows the one customer
    Connections     \* charges past their credit check at the same time

ASSUME FinanceAssumption ==
    /\ Payables \cap Receivables = {}
    /\ Charges \subseteq Int
    /\ ReceiptTotals \subseteq Int
    /\ Amounts \subseteq Int
    /\ CreditLimit \in Int
    /\ NULL \notin References \cup Int

VARIABLES
    docs,           \* accounts_payable and accounts_receivable
    txs,            \* accounts_payable_payments and accounts_receivable_settlements
    ops             \* the charges past their credit check

financeVars == <<docs, txs, ops>>

-----------------------------------------------------------------------------
(* Documents and transactions *)

Docs == Payables \cup Receivables

NoDoc == [status |-> "ABSENT", total |-> 0, balance |-> 0]

Doc == [status: {"ABSENT", "PENDING", "PARTIAL", "PAID"}, total: Int, balance: Int]

Book(d) == IF d \in Payables THEN "AP" ELSE "AR"

Tx == [book: {"AP", "AR"}, ref: References, doc: Docs, kind: {"APPLY", "REVERSAL"},
       amount: Int, of: References \cup {NULL}]

NoOp == [doc |-> NULL, amount |-> 0]

\* The look-ups by reference_id, and uq_ap_payments_org_ref and
\* uq_ar_settlements_org_ref.
Recorded(d, ref) == \E t \in txs : t.book = Book(d) /\ t.ref = ref

\* SUM(balance_due) over the open receivables of the customer.
OpenBalance == MapThenSumSet(LAMBDA d : IF docs[d].status = "PENDING" THEN docs[d].balance ELSE 0, Receivables)

\* INSERT ... ON CONFLICT DO NOTHING, with the CHECK on a positive total.
Insert(d, amount) ==
    /\ docs[d] = NoDoc
    /\ amount > 0
    /\ docs' = [docs EXCEPT ![d] = [status |-> "PENDING", total |-> amount, balance |-> amount]]

\* processPurchaseReceiptEvent, with a resolver that answered.
ProcessPurchaseReceiptEvent(d, amount) ==
    /\ Insert(d, amount)
    /\ UNCHANGED <<txs, ops>>

\* createReceivableCharge without a credit check.
CreateReceivableCharge(d, amount) ==
    /\ Insert(d, amount)
    /\ UNCHANGED <<txs, ops>>

\* createReceivableCharge up to the answer of the credit validator, and from
\* there on.
CheckCredit(k, d, amount) ==
    /\ ops[k] = NoOp
    /\ docs[d] = NoDoc
    /\ OpenBalance + amount <= CreditLimit
    /\ ops' = [ops EXCEPT ![k] = [doc |-> d, amount |-> amount]]
    /\ UNCHANGED <<docs, txs>>

CompleteCharge(k) ==
    /\ ops[k] # NoOp
    /\ \/ Insert(ops[k].doc, ops[k].amount)
       \/ UNCHANGED docs       \* a conflict, an error or a crash
    /\ ops' = [ops EXCEPT ![k] = NoOp]
    /\ UNCHANGED txs

\* A payment that closes the document whatever its amount.
Applied_Closes(d, amount) == [docs[d] EXCEPT !.balance = 0, !.status = "PAID"]

\* applyPaymentToAccountsPayable and applySettlementToAccountsReceivable.
Applied(d, amount) ==
    LET balance == docs[d].balance - amount
    IN  [status  |-> IF balance = 0 THEN "PAID"
                     ELSE IF d \in Payables THEN "PARTIAL" ELSE docs[d].status,
         total   |-> docs[d].total,
         balance |-> balance]

\* A payment or a settlement, under the lock on the document.
ApplyTx(d, ref, amount) ==
    /\ docs[d].status \notin {"ABSENT", "PAID"}
    /\ ~Recorded(d, ref)
    /\ amount > 0
    /\ amount <= docs[d].balance
    /\ txs' = txs \cup {[book |-> Book(d), ref |-> ref, doc |-> d, kind |-> "APPLY",
                         amount |-> amount, of |-> NULL]}
    /\ docs' = [docs EXCEPT ![d] = Applied(d, amount)]
    /\ UNCHANGED ops

ApplyAccountsPayablePayment(d, ref, amount) == d \in Payables /\ ApplyTx(d, ref, amount)

SettleReceivable(d, ref, amount) == d \in Receivables /\ ApplyTx(d, ref, amount)

\* A reversal that leaves the status as it was.
Reversed_KeepsStatus(d, amount) == [docs[d] EXCEPT !.balance = @ + amount]

\* reversePaymentOnAccountsPayable and reverseSettlementOnAccountsReceivable.
Reversed(d, amount) ==
    LET balance == docs[d].balance + amount
    IN  [status  |-> IF d \in Payables /\ balance # docs[d].total THEN "PARTIAL" ELSE "PENDING",
         total   |-> docs[d].total,
         balance |-> balance]

\* No look for earlier reversals.
AlreadyReversed_Never(t) == FALSE

\* The sum of the reversals of a payment reaches its amount, or a settlement
\* has one: both as soon as there is one, for a reversal is always complete.
AlreadyReversed(t) == \E u \in txs : u.book = t.book /\ u.of = t.ref

\* The reversal of one of them.
ReverseTx(d, ref, of) ==
    /\ docs[d].status # "ABSENT"
    /\ ~Recorded(d, ref)
    /\ \E t \in txs :
        /\ t.book = Book(d) /\ t.ref = of /\ t.doc = d
        /\ t.kind = "APPLY"
        /\ ~AlreadyReversed(t)
        /\ docs[d].balance + t.amount <= docs[d].total
        /\ txs' = txs \cup {[book |-> Book(d), ref |-> ref, doc |-> d, kind |-> "REVERSAL",
                             amount |-> t.amount, of |-> of]}
        /\ docs' = [docs EXCEPT ![d] = Reversed(d, t.amount)]
    /\ UNCHANGED ops

ReverseAccountsPayablePayment(d, ref, of) == d \in Payables /\ ReverseTx(d, ref, of)

ReverseAccountsReceivableSettlement(d, ref, of) == d \in Receivables /\ ReverseTx(d, ref, of)

-----------------------------------------------------------------------------
(* The service *)

FinanceInit ==
    /\ docs = [d \in Docs |-> NoDoc]
    /\ txs = {}
    /\ ops = [k \in Connections |-> NoOp]

\* The calls of finance's own clients.
FinanceCalls ==
    \/ \E d \in Receivables, amount \in Charges : CreateReceivableCharge(d, amount)
    \/ \E k \in Connections, d \in Receivables, amount \in Charges : CheckCredit(k, d, amount)
    \/ \E k \in Connections : CompleteCharge(k)
    \/ \E d \in Docs, ref \in References, amount \in Amounts :
        \/ ApplyAccountsPayablePayment(d, ref, amount)
        \/ SettleReceivable(d, ref, amount)
    \/ \E d \in Docs, ref, of \in References :
        \/ ReverseAccountsPayablePayment(d, ref, of)
        \/ ReverseAccountsReceivableSettlement(d, ref, of)

FinanceNext ==
    \/ FinanceCalls
    \/ \E d \in Payables, amount \in ReceiptTotals : ProcessPurchaseReceiptEvent(d, amount)

FinanceSpec == FinanceInit /\ [][FinanceNext]_financeVars

-----------------------------------------------------------------------------
(* Properties *)

\* Documents, transactions and operations have the columns of the schema.
FinanceTypeOK ==
    /\ docs \in [Docs -> Doc]
    /\ txs \subseteq Tx
    /\ ops \in [Connections -> [doc: Receivables, amount: Charges] \cup {NoOp}]

\* The balance kept beside the transactions is the one they add up to,
\* whatever payments and reversals raced.
BalanceIsExplained ==
    \A d \in Docs :
        docs[d].balance = docs[d].total
            - MapThenSumSet(LAMBDA t : IF t.kind = "APPLY" THEN t.amount ELSE -t.amount,
                            {t \in txs : t.doc = d})

\* The status says what the balance says: PAID when nothing is due, PENDING
\* when a payable is untouched, PARTIAL in between; an unpaid receivable is
\* PENDING.  The balance never leaves the range 0 .. total.
StatusFollowsBalance ==
    \A d \in Docs : docs[d] # NoDoc =>
        /\ docs[d].balance \in 0..docs[d].total
        /\ docs[d].status = IF docs[d].balance = 0 THEN "PAID"
                            ELSE IF d \in Payables /\ docs[d].balance < docs[d].total THEN "PARTIAL"
                            ELSE "PENDING"

\* One transaction per reference; a reversal undoes a payment of its document
\* by its amount; and a payment is reversed once, under whatever references
\* and between whatever other payments the reversals come.
ReversedOnce ==
    /\ \A t, u \in txs :
        /\ t.book = u.book /\ t.ref = u.ref => t = u
        /\ t.book = u.book /\ t.kind = "REVERSAL" /\ u.kind = "REVERSAL" /\ t.of = u.of => t = u
    /\ \A t \in txs : t.kind = "REVERSAL" =>
        \E u \in txs : u.kind = "APPLY" /\ u.doc = t.doc /\ u.ref = t.of /\ u.amount = t.amount
=============================================================================
