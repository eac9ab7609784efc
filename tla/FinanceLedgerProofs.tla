------------------------- MODULE FinanceLedgerProofs -------------------------
(***************************************************************************)
(* What FinanceLedger promises for every set of documents, references and  *)
(* amounts.  The balances can only be kept in range because every recorded *)
(* amount is positive, and a reversal can only be unique because a         *)
(* reversal carries the reference of its payment and a payment none:       *)
(* FinanceInv adds both to the properties.                                 *)
(***************************************************************************)
EXTENDS FinanceLedger, TLAPS

\* What the rows of the two append-only tables look like.
TxsSound ==
    \A t \in txs :
        /\ t.amount > 0
        /\ t.book = Book(t.doc)
        /\ t.kind = "APPLY" => t.of = NULL

FinanceInv ==
    /\ FinanceTypeOK
    /\ TxsSound
    /\ StatusFollowsBalance
    /\ ReversedOnce

LEMMA FinanceInitial == FinanceInit => FinanceInv
BY FinanceAssumption
   DEF FinanceInit, FinanceInv, FinanceTypeOK, TxsSound, StatusFollowsBalance, ReversedOnce,
       NoDoc, Doc, NoOp

\* The insert of a document, by an event or by a charge.
LEMMA InsertSound ==
    ASSUME FinanceInv, NEW d \in Docs, NEW amount \in Int, Insert(d, amount), UNCHANGED txs
    PROVE  /\ docs' \in [Docs -> Doc]
           /\ TxsSound' /\ StatusFollowsBalance' /\ ReversedOnce'
<1>1. docs \in [Docs -> Doc] /\ docs'[d] = [status |-> "PENDING", total |-> amount, balance |-> amount]
      /\ \A e \in Docs \ {d} : docs'[e] = docs[e]
  BY DEF FinanceInv, FinanceTypeOK, Insert
<1>2. docs' \in [Docs -> Doc]
  BY <1>1 DEF Insert, Doc
<1>3. TxsSound' /\ ReversedOnce'
  BY DEF FinanceInv, TxsSound, ReversedOnce
<1>4. StatusFollowsBalance'
  BY <1>1 DEF StatusFollowsBalance, FinanceInv, Insert, NoDoc, Doc
<1> QED BY <1>2, <1>3, <1>4

\* A payment or a settlement.
LEMMA ApplySound ==
    ASSUME FinanceInv, NEW d \in Docs, NEW ref \in References, NEW amount \in Amounts,
           ApplyTx(d, ref, amount)
    PROVE  FinanceInv'
<1> DEFINE new == [book |-> Book(d), ref |-> ref, doc |-> d, kind |-> "APPLY",
                   amount |-> amount, of |-> NULL]
<1>1. docs \in [Docs -> Doc] /\ txs \subseteq Tx /\ amount \in Int
  BY FinanceAssumption DEF FinanceInv, FinanceTypeOK
<1>2. docs'[d] = Applied(d, amount) /\ \A e \in Docs \ {d} : docs'[e] = docs[e]
  BY <1>1 DEF ApplyTx
<1>3. docs[d] # NoDoc
  BY DEF ApplyTx, NoDoc
<1>4. Applied(d, amount) \in Doc
  <2>1. docs[d] \in Doc
    BY <1>1
  <2> QED BY <2>1, <1>1 DEF Applied, Doc
<1>5. FinanceTypeOK'
  <2>1. new \in Tx
    BY <1>1 DEF Tx, Book
  <2>2. docs' \in [Docs -> Doc]
    BY <1>1, <1>4 DEF ApplyTx
  <2> QED BY <2>1, <2>2, <1>1 DEF ApplyTx, FinanceInv, FinanceTypeOK
<1>6. TxsSound'
  BY DEF ApplyTx, FinanceInv, TxsSound, Book
<1>7. StatusFollowsBalance'
  BY <1>1, <1>2, <1>3 DEF ApplyTx, Applied, FinanceInv, StatusFollowsBalance, Doc
<1>8. ReversedOnce'
  <2>1. txs' = txs \cup {new}
    BY DEF ApplyTx
  <2>2. \A t \in txs : ~(t.book = new.book /\ t.ref = new.ref)
    BY DEF ApplyTx, Recorded
  <2>3. new.kind # "REVERSAL"
    OBVIOUS
  <2> QED BY <2>1, <2>2, <2>3 DEF FinanceInv, ReversedOnce
<1> QED BY <1>5, <1>6, <1>7, <1>8 DEF FinanceInv

\* The reversal of a payment or a settlement.
LEMMA ReverseSound ==
    ASSUME FinanceInv, NEW d \in Docs, NEW ref \in References, NEW of \in References,
           ReverseTx(d, ref, of)
    PROVE  FinanceInv'
<1>1. PICK t \in txs :
        /\ t.book = Book(d) /\ t.ref = of /\ t.doc = d
        /\ t.kind = "APPLY"
        /\ ~AlreadyReversed(t)
        /\ docs[d].balance + t.amount <= docs[d].total
        /\ txs' = txs \cup {[book |-> Book(d), ref |-> ref, doc |-> d, kind |-> "REVERSAL",
                             amount |-> t.amount, of |-> of]}
        /\ docs' = [docs EXCEPT ![d] = Reversed(d, t.amount)]
  BY DEF ReverseTx
<1> DEFINE new == [book |-> Book(d), ref |-> ref, doc |-> d, kind |-> "REVERSAL",
                   amount |-> t.amount, of |-> of]
<1>2. docs \in [Docs -> Doc] /\ txs \subseteq Tx /\ t.amount \in Int /\ t.amount > 0
  BY DEF FinanceInv, FinanceTypeOK, TxsSound, Tx
<1>3. docs'[d] = Reversed(d, t.amount) /\ \A e \in Docs \ {d} : docs'[e] = docs[e]
  BY <1>1, <1>2
<1>4. docs[d] # NoDoc
  BY DEF ReverseTx, NoDoc
<1>5. FinanceTypeOK'
  <2>1. new \in Tx
    BY <1>2 DEF Tx, Book
  <2>2. docs[d] \in Doc
    BY <1>2
  <2>3. Reversed(d, t.amount) \in Doc
    BY <2>2, <1>2 DEF Reversed, Doc
  <2>4. docs' \in [Docs -> Doc]
    BY <1>1, <1>2, <2>3
  <2> QED BY <1>1, <1>2, <2>1, <2>4 DEF ReverseTx, FinanceInv, FinanceTypeOK
<1>6. TxsSound'
  BY <1>1, <1>2 DEF FinanceInv, TxsSound, Book
<1>7. StatusFollowsBalance'
  BY <1>1, <1>2, <1>3, <1>4 DEF Reversed, FinanceInv, StatusFollowsBalance, Doc
<1>8. ReversedOnce'
  <2>1. txs' = txs \cup {new}
    BY <1>1
  <2>2. \A u \in txs : ~(u.book = new.book /\ u.ref = new.ref)
    BY DEF ReverseTx, Recorded
  <2>3. \A u \in txs : ~(u.book = new.book /\ u.of = new.of)
    BY <1>1 DEF AlreadyReversed
  <2>4. t.kind = "APPLY" /\ t.doc = new.doc /\ t.ref = new.of /\ t.amount = new.amount
    BY <1>1
  <2>5. \A u, v \in txs' :
            /\ u.book = v.book /\ u.ref = v.ref => u = v
            /\ u.book = v.book /\ u.kind = "REVERSAL" /\ v.kind = "REVERSAL" /\ u.of = v.of => u = v
    BY <2>1, <2>2, <2>3 DEF FinanceInv, ReversedOnce
  <2>6. \A u \in txs' : u.kind = "REVERSAL" =>
            \E v \in txs' : v.kind = "APPLY" /\ v.doc = u.doc /\ v.ref = u.of /\ v.amount = u.amount
    BY <2>1, <2>4 DEF FinanceInv, ReversedOnce
  <2> QED BY <2>5, <2>6 DEF ReversedOnce
<1> QED BY <1>5, <1>6, <1>7, <1>8 DEF FinanceInv

LEMMA FinanceStep == FinanceInv /\ [FinanceNext]_financeVars => FinanceInv'
<1> SUFFICES ASSUME FinanceInv, [FinanceNext]_financeVars PROVE FinanceInv'
  OBVIOUS
<1> USE FinanceAssumption
<1>1. CASE UNCHANGED financeVars
  BY <1>1 DEF financeVars, FinanceInv, FinanceTypeOK, TxsSound, StatusFollowsBalance, ReversedOnce
<1>2. ASSUME NEW d \in Payables, NEW amount \in ReceiptTotals, ProcessPurchaseReceiptEvent(d, amount)
      PROVE  FinanceInv'
  <2>1. d \in Docs /\ amount \in Int /\ Insert(d, amount) /\ UNCHANGED <<txs, ops>>
    BY <1>2 DEF ProcessPurchaseReceiptEvent, Docs
  <2> QED BY <2>1, InsertSound DEF FinanceInv, FinanceTypeOK
<1>3. ASSUME NEW d \in Receivables, NEW amount \in Charges, CreateReceivableCharge(d, amount)
      PROVE  FinanceInv'
  <2>1. d \in Docs /\ amount \in Int /\ Insert(d, amount) /\ UNCHANGED <<txs, ops>>
    BY <1>3 DEF CreateReceivableCharge, Docs
  <2> QED BY <2>1, InsertSound DEF FinanceInv, FinanceTypeOK
<1>4. ASSUME NEW k \in Connections, NEW d \in Receivables, NEW amount \in Charges,
             CheckCredit(k, d, amount)
      PROVE  FinanceInv'
  BY <1>4 DEF CheckCredit, FinanceInv, FinanceTypeOK, TxsSound, StatusFollowsBalance, ReversedOnce
<1>5. ASSUME NEW k \in Connections, CompleteCharge(k)
      PROVE  FinanceInv'
  <2>1. ops' \in [Connections -> [doc: Receivables, amount: Charges] \cup {NoOp}]
    BY <1>5 DEF CompleteCharge, FinanceInv, FinanceTypeOK
  <2>2. CASE Insert(ops[k].doc, ops[k].amount)
    <3>1. ops[k].doc \in Docs /\ ops[k].amount \in Int /\ UNCHANGED txs
      BY <1>5 DEF CompleteCharge, FinanceInv, FinanceTypeOK, Docs
    <3> QED BY <2>1, <2>2, <3>1, InsertSound DEF FinanceInv, FinanceTypeOK
  <2>3. CASE UNCHANGED docs
    BY <1>5, <2>1, <2>3 DEF CompleteCharge, FinanceInv, FinanceTypeOK, TxsSound,
                            StatusFollowsBalance, ReversedOnce
  <2> QED BY <1>5, <2>2, <2>3 DEF CompleteCharge
<1>6. ASSUME NEW d \in Docs, NEW ref \in References, NEW amount \in Amounts, ApplyTx(d, ref, amount)
      PROVE  FinanceInv'
  BY <1>6, ApplySound
<1>7. ASSUME NEW d \in Docs, NEW ref \in References, NEW of \in References, ReverseTx(d, ref, of)
      PROVE  FinanceInv'
  BY <1>7, ReverseSound
<1> QED BY <1>1, <1>2, <1>3, <1>4, <1>5, <1>6, <1>7
        DEF FinanceNext, FinanceCalls, ApplyAccountsPayablePayment, SettleReceivable,
            ReverseAccountsPayablePayment, ReverseAccountsReceivableSettlement

\* FinanceInv holds in every state of the service.
THEOREM FinanceInvariance == FinanceSpec => []FinanceInv
BY FinanceInitial, FinanceStep, PTL DEF FinanceSpec

\* Status and balance of a document agree, and the balance stays between
\* zero and the total, for all documents, references and amounts.
THEOREM StatusIsSound == FinanceSpec => []StatusFollowsBalance
<1>1. FinanceInv => StatusFollowsBalance
  BY DEF FinanceInv
<1> QED BY <1>1, FinanceInvariance, PTL

\* A payment or a settlement is reversed at most once, by its own amount, and
\* a reference is used once.
THEOREM ReversalIsUnique == FinanceSpec => []ReversedOnce
<1>1. FinanceInv => ReversedOnce
  BY DEF FinanceInv
<1> QED BY <1>1, FinanceInvariance, PTL
=============================================================================
