# TLA+ verification of TRIDENTPOS

TRIDENTPOS is a restaurant ERP and point of sale: stations in a branch work offline on
SQLite, an edge runtime serves them over HTTP, and a cloud on PostgreSQL hands out folio
ranges, ingests what the edge did and talks to outside services. This directory models the
parts of it where interleaving, loss, repetition and crashes decide correctness, checks
them with TLC on small instances, and proves the central results with TLAPS for every
instance.

## The system and its parts

| part | source (under `src/packages/`) | modules |
|---|---|---|
| Folio leases: epochs, fencing, disaster recovery | `database/src/leases.ts`, `sync/src/router.ts`, `edge/src/db/folio-persistence.ts` | `FolioLease`, `FolioLeaseProofs` |
| Cloud ingestion engine | `database/src/outbox/ingested-idempotency-engine.ts` | `IngestionEngine`, `IngestionEngineProofs` |
| Edge outbox, batches, acknowledgements, WAL | `edge/src/db/outbox-persistence.ts`, `edge/src/db/wal-manager.ts`, `sync/src/edge-client.ts` | `SyncPipeline` |
| Cloud integration outbox and DLQ | `database/src/outbox/cloud-integration-outbox.ts` | `CloudIntegrationOutbox` |
| WebSocket client of a station | `sync/src/edge-client.ts`, `sync/src/stream-gateway.ts` | `EdgeSyncClient` |
| Cash shifts | `pos/src/cash-shift-service.ts`, `pos-edge-runtime/src/cash-shift-sqlite-repository.ts` | `CashShift`, `CashShiftProofs` |
| Tables, accounts, items, splits | `pos/src/dining-service.ts`, `pos/src/policies.ts` | `DiningRoom` |
| Payments and the POS server | `pos/src/payment-service.ts`, `pos-edge-runtime/src/payment-sqlite-repository.ts`, `pos-edge-runtime/src/fastify-app.ts` | `PosFloor`, `PosFloorProofs` |
| Stock ledger: waste, kitchen depletion, quarantine | `cloud-server/src/index.ts`, `inventory/src/kardex-domain.ts` | `StockLedger` |
| Purchase orders and receipts | `cloud-server/src/index.ts`, `procurement/src` | `Procurement`, `ProcureToPay`, `ProcureToPayProofs` |
| Payables and receivables | `cloud-server/src/index.ts`, `finance/src` | `FinanceLedger`, `FinanceLedgerProofs`, `ProcureToPay` |
| Not modelled yet | see the end of this file and `PROJECT.json` | |

How they interact: the POS server changes accounts and shifts (`DiningRoom`, `CashShift`),
joined by payments (`PosFloor`). Changes that matter to the cloud are written with an event
into the outbox of the same SQLite transaction; the client (`EdgeSyncClient`) carries batches
to the cloud, whose engine (`IngestionEngine`) applies each aggregate's events in order and
once (`SyncPipeline` is the composition). Sales folios come from ranges the cloud leases to
edge hosts (`FolioLease`). In the cloud, what the kitchen produced depletes the stock
(`StockLedger`), and a confirmed purchase receipt announces the debt that finance records and
pays (`Procurement`, `FinanceLedger`; `ProcureToPay` is the composition).

```
PosValues <- DiningRoom --+
          <- CashShift  --+-- PosFloor        PosFloor implements CashShift
IngestionEngine ------------- SyncPipeline
Procurement   --+-- ProcureToPay              ProcureToPay implements FinanceLedger
FinanceLedger --+
FolioLease   CloudIntegrationOutbox   EdgeSyncClient   StockLedger
```

The `MC*` modules add what only TLC needs: symmetry, bounds, a view, prices, ratios, recipes
and deliveries. `PROJECT.json` maps each definition to the lines it stands for.

## Modules and code

### FolioLease

One folio type of one branch. State: the rows of `folio_leases`, the row of
`local_folio_leases` of every host, the messages in flight and, as history, the folios each
host handed out. `allocateLease` and `heartbeat` run in one transaction under
`pg_advisory_xact_lock` on this triple, so each is one action; so are `setActiveLease`,
`consumeNextFolio` and `revokeLease`, which are SQLite transactions. Sets of messages only
grow: a message may be lost (never read), late, reordered or repeated. A replacement host is
allocated by the disaster-recovery path, which abandons the authoritative row while the old
host (the zombie) keeps going.

### IngestionEngine and SyncPipeline

`processEvent` runs in one transaction under an advisory lock on the stream and has four
cases, each an action: a known key (`DuplicateEvent`), a sequence number that was passed
(`StaleEvent`), a gap (`BufferEvent`), and the next number (`ApplyEvent`, which also drains
the buffered run behind it). A call whose handler throws is rolled back and changes nothing,
so `Poison` operations never apply. The drain loop is one function on `1 .. n - k`.

`SyncPipeline` adds the edge: `MutateCuenta` and `SaveCorteZ` write a row and its event in
one transaction (`executeWithOutbox`); `PartialPayment` raises an account's
version and writes no event, on the accounts in `SilentCuentas`. A flush sends at
most `BatchLimit` PENDING rows. `disk` is what survives a power failure: under
`synchronous=NORMAL` a commit reaches it at a checkpoint; a Corte Z commits under `FULL`. The
batch processor between gateway and engine is not in the repository, so any event ever sent
may be processed at any time, in any order, any number of times.

What SYNCED is worth depends on power failures. A host that lost a committed version uses its
sequence number again for a new operation; if the cloud had applied the lost event, the engine
answers the new one as stale (`DUPLICATE_ACCEPTED`), the edge marks it SYNCED, and it is never
applied. `SyncedMeansApplied` says that this is the only way a SYNCED event is missing from
the cloud, and is checked where it happens (`sync_durability`). `CloudIsPrefixOfEdge` and
`EveryEventSynced` are claims about a host that keeps its power.

### CloudIntegrationOutbox

The rows with lock, retry count and due time; claims that a worker has not reported on. A
worker crashes, or stalls past the two-minute lock and reports late. The worker loop is not
in the repository. It is taken to report on, or crash with, everything it claimed before it
claims again: because the claim token is the worker id, the code could not tell two claims of
the same worker apart.

### CashShift

Each operation is two actions, the request (reads, checks) and its completion after the PIN
answer (lists movements, saves under the version it read), since PIN verification is the one
real `await` of the operation. What follows it runs in one turn of the event loop: the
database calls are synchronous. `CobroEfectivo` is the cash payment, which inserts a movement
without touching the version. `StopServer` drops all waiting calls.

### DiningRoom, PosFloor

`DiningRoom` has every state-changing operation of `DiningDomainService`. Operations are
synchronous, hence one action each, but open no transaction of their own: the two that can
fail half way (a transfer to the table the account has, a split that names a used account id)
are modelled with what they leave behind. `PosFloor` is the server: the routes it exposes,
the shift routes, and tenders in two steps, the replay check before the PIN and the atomic
settlement after it.

Inputs are what the code lets through, and the properties say where that takes them:

- The client chooses an item's id. One in use is counted a second time in the total, while the
  upsert overwrites the row and leaves it with its account. `reenviadas`, a history variable,
  holds the accounts concerned; `TotalIsSumOfItems` and `NeverOverpaid` except them.
- A transfer frees the table named as its source, whoever holds it, so an account may hold a
  table it no longer names. `SeatedAccountIsOpen` is about the table the account names.
- Item totals, ratios and hence totals may be negative (bigint division is `Quotient`, towards
  zero). `NeverOverpaid` excepts accounts with a negative item: their total can fall below
  what was paid.
- `registrarMovimiento` takes a cash sale by hand. `manuales`, a history variable, adds those
  up for each shift, and `DrawerMatchesPayments` counts them next to the payments.
- A part of a split owns no items, so an item added to it replaces its share of the bill by
  that item. `TotalIsSumOfItems` is about accounts that are no part of a split, and
  `SplitReplacesTheAccount` about the moment of the split.

### EdgeSyncClient

The socket, its callbacks, the reconnect timer, the heartbeat and the kill switch. Time
passes in heartbeat intervals; a timeout is due two ticks after its ping, and the next tick
overwrites its handle while the timer keeps running, as in the code. Two assumptions are not
in the code: callers call `connect()` only when no socket, timer or token request is pending,
and the kill switch changes only through the gateway. `OneConnection` and
`DisabledStaysOffline` rest on them.

### StockLedger

A transaction is a session: `Begin`, then one action per advisory lock together with the
reads and the insert made under it, then `Commit` or `Abort`. Rows become visible at the
commit. `RegisterWaste` locks its ingredient; `OnKdsOrderProduced` and
`ReplayQuarantinedDepletion` lock the source event, decide whether the order is a duplicate,
goes to quarantine or is applied, and then take its ingredients one after the other in the
order of `aggregateIngredientQuantities`. `Abort` is possible at every moment. A lock is
taken on the hash of its key (`Hash`), injective in the run.

### Procurement, FinanceLedger, ProcureToPay

Operations on a purchase order hold its row lock from start to end and are one action each.
`ConfirmPurchaseReceipt` checks each line against what earlier receipts brought, as the code
does, saves the receipt, derives the status and announces the total. Finance operations
repeat their look-up under the lock or end in an `ON CONFLICT`, so they are one action too;
a credit-checked charge is two, because the balance it reads is not read again. A reversal
is always of the whole payment. `ProcureToPay` delivers the announcement of a receipt late,
repeatedly or never.

## What TLC checks

Ten runs pass, two show a disagreement between code and documentation.

| run | states | question | properties |
|---|---|---|---|
| `folio` | 11,909 | a zombie and its replacement over an unreliable network | `TypeOK`, `NoFolioIssuedTwice`, `FoliosIncrease`, `LeasesOnlyAdvance`, `ZombieIsFenced` |
| `sync` | 17,455 | edge and cloud together, messages lost, repeated, reordered; no power failure | `CloudIsPrefixOfEdge`, `EveryEventSynced` |
| `sync_durability` | 688,682 | power failures between checkpoints, gaps, a handler that throws | `SyncedMeansApplied`, `AppliedInSequence`, `NothingLeftInBuffer`, `OutboxMatchesVersion`, `CorteZSurvives` |
| `cloud_outbox` | 18,533 | competing workers, crashes, late reports | `DlqMatchesOutbox`, `OnlyLatestClaimReports`, `EveryEventResolved` |
| `cash_shift` | 1,862,283 | two operations waiting for a PIN, cash sales, a stop | `CutMatchesDrawer`, `AtMostOneOpenTurno`, `ClosedTurnoIsFrozen` |
| `dining` | 212,779 | sequences of table and account operations, wrong sources and half-failed splits included | `SeatedAccountIsOpen`, `TotalIsSumOfItems`, `SplitReplacesTheAccount` |
| `pos_floor` | 681,240 | payments retried and racing with each other, with sales by hand and with the cut | `OnePaymentPerOperation`, `NeverOverpaid`, `DrawerMatchesPayments`, `FloorImplementsShift` |
| `edge_client` | 292,162 | connects, closes, silence, heartbeats, kill switch in every order | `OneConnection`, `DisabledStaysOffline`, `ScheduledReconnects`, `DeadLinkIsNoticed` |
| `stock_ledger` | 75,809 | waste, redelivered orders, quarantine and replay racing for locks, rolled back at any moment | `KardexAddsUp`, `SourcesAppliedWhole`, `AnnouncedOnce`, `NoDeadlock`, `ReplayedStaysReplayed` |
| `procure_to_pay` | 48,766 | partial receipts, events late or twice, payments and reversals in every order | `StatusMatchesReceipts`, `NeverOverReceived`, `BalanceIsExplained`, `StatusFollowsBalance`, `ReversedOnce`, `PayableMatchesReceipt` |

The type invariant of `FolioLease` is checked in its run; those of `IngestionEngine`,
`CashShift`, `PosFloor` and `FinanceLedger` are conjuncts of proved inductive invariants. Every checked property has a mutant: an operator
next to the definition it replaces (named `Definition_WhatIsWrong`) that makes TLC find the
property violated.

### Bounds

- `folio`: two hosts and two leases are the zombie and its replacement; blocks of one and two
  folios give an exhausted lease, a partly used one and the last folio of a range.
- `sync`: three events over two accounts and one Corte Z, two per batch, so that a batch
  splits an account's events. No version-only operation happens (`SilentCuentas = {}`) and the
  Corte Z is that of shift 1; outside these two conditions `EveryEventSynced` is false, see
  below.
- `sync_durability`: one power failure, at any point; version-only operations on `c2`; four
  operations, the last of which the handler always refuses. The other three are symmetric.
- `cloud_outbox`: two workers, two events, two retries, two faults: a takeover after a stall,
  a late report, a crash with a claim, and an exhausted event all fit.
- `cash_shift`: two shifts, operators and waiting calls; versions to 2 and two movements per
  shift reach opening, a movement, the blind count and the cut.
- `dining`: two tables, three accounts and two items of 3. Ratios 1:2 and -1:3 (a negative
  part, and on a total of 3 a share rounded towards zero). `Bound` follows two opened accounts,
  or one and its parts, which are a conflicting transfer and a split with an id in use; and
  behaviours up to the first item id sent again, after which the properties no longer speak of
  the account. The view leaves out what no guard or property reads: folio, waiter, tip, and how
  an account ended.
- `pos_floor`: one account and shift, two tenders, amounts 1 and 2, tips 0 and 1, two items
  of 2 or -1: an exact, a partial and an excessive payment of each other's remainder. The
  movements by hand are cash sales of 1; `cash_shift` has withdrawals. Behaviours are
  followed up to the first item id sent again.
- `edge_client`: two sockets (the old and the new one), two commands in flight, three
  unanswered pings.
- `stock_ledger`: two connections and five transactions over three orders (a plain one, one
  with modifiers, one that consumes nothing), one waste command and two ingredients that the
  recipes name in opposite orders: a race, a redelivery, a quarantine, its replay and a
  redelivery after it fit.
- `procure_to_pay`: an order of two items in two receipts; two receivables; four references,
  enough for two payments and a reversal of each; payments of 2 on totals up to 4.

Deadlock is checked in `edge_client`; in `stock_ledger` the property `NoDeadlock` says it of
the locks. The other models stop where their
bounds are used up.

### Fairness

- `ZombieIsFenced`: hosts send heartbeats (weak), and a heartbeat request and its 403 that
  are possible again and again get through once (strong): the heartbeat is periodic and the
  network is not cut for ever.
- `EveryEventSynced`: the client flushes on every connection, and for each operation some copy of its event is
  ingested and some copy of the acknowledgement is delivered (weak). PENDING rows are sent
  again by each flush, so this asks only that not every copy is lost.
- `EveryEventResolved`: a worker that lives reports, some worker polls, locks and backoffs
  expire. Crashes and stalls are bounded (`MaxFaults`), not unfair.
- `ScheduledReconnects`, `DeadLinkIsNoticed`: timers and pending callbacks fire (weak: the
  event loop), tokens and connections succeed when tried again and again (strong).

### Disagreements

- `sync_version_gap`, `EveryEventSynced`: a payment that does not settle the account raises
  its version without an event (`payment-sqlite-repository.ts:187`). The next event of the
  account leaves a gap that no resend fills (`SYNC_AND_OFFLINE_ARCHITECTURE.md:73`), and waits
  in the reordering buffer for ever.
- `procurement_over_receipt`, `NeverOverReceived`: each line of a receipt is checked against
  the total of earlier receipts (`cloud-server/src/index.ts:2090`), so two lines for one item
  of the order both pass and bring more than was ordered. The architecture change request
  (`ARCHITECTURE_CHANGE_REQUEST_WP019_PROCUREMENT_RECONCILIATION.md:238`) excludes that.
  `procure_to_pay` checks the same property for receipts that name an item once.

Two more differences are modelled and listed among the hazards without a run: a 201 that
arrives again after a 403 makes a REVOKED lease that issued nothing ACTIVE
(`SYNC_AND_OFFLINE_ARCHITECTURE.md:54`; folios stay unique all the same), and a settled
account keeps its table (`RESTAURANT_SOFTWARE_RECONSTRUCTION_SPEC.md:348`; `DiningSpec` has no
payments, so `SeatedAccountIsOpen` does not speak of it). A tip paid with a partial payment
enters the total when the next item is added, and is then due as well; `PosFloor` models it
and no property is about it.

## What is proved

| module | theorem | says |
|---|---|---|
| `FolioLeaseProofs` | `TypeCorrect`, `FolioUniqueness`, `FolioMonotonicity` | types; no folio is issued twice by any hosts; each host's folios increase |
| `IngestionEngineProofs` | `CausalOrder`, `Idempotency`, `DrainIsComplete` | events apply as 1, 2, 3, ...; an operation applies once; nothing applicable stays buffered |
| `CashShiftProofs` | `Invariance`, `CutIsExact`, `OneOpenTurno`, `SnapshotsStayVersions`, `ClosedStaysFrozen` | the Corte Z equals the drawer, one open shift, a version names one state, a cut shift never changes |
| `PosFloorProofs` | `FloorTypeCorrect`, `FloorRefinesShift`, `FloorCutIsExact`, `PaymentsAreIdempotent` | the floor implements the shift, hence the exact cut with real payments; one payment per operation |
| `FinanceLedgerProofs` | `FinanceInvariance`, `StatusIsSound`, `ReversalIsUnique` | status and balance agree and stay in range; a reference names one transaction and a payment is reversed once |
| `ProcureToPayProofs` | `PayImplementsFinance`, `PayStatusIsSound`, `PayReversalIsUnique` | the composition implements the finance ledger, hence both results hold with payables that come from receipts |

The assumptions are the named `ASSUME`s of the modules (numbers are numbers, `NULL` is no
value, payment amounts are amounts of a cash sale, receipt totals are totals finance knows);
TLC evaluates them in every run whose module extends the one that states them.

- Folios. `NoFolioIssuedTwice` is not inductive: it says nothing of ranges. The invariant
  adds that ranges are ordered as epochs are (`RangesOrdered`), that a 201 carries the range
  of its row and there is one per row (`ResponsesMatchRows`), that an installed lease came
  with a 201 to that very host (`LocalMatchesResponse`), and that each issued folio lies in a
  range granted to its host (`IssuedWasGranted`). Uniqueness across hosts follows from disjoint
  ranges, and inside a host from `FoliosIncrease`.
- Ingestion. `AppliedInSequence`, `AppliedOnce` and `NothingLeftInBuffer` become inductive
  together with `AppliedIsLogged`: the log guards the operation, the sequence number the order.
- Shift. A call's snapshot is older than the row or equal to it (`SnapshotsAreVersions`), so
  a completion that passes the version guard acts on the row its request checked. How totals
  are computed stays opaque: it matters only that they are computed from the movements present
  when the row is saved, and that no movement enters a shift that is not ABIERTO.
- Floor. The mapping is the identity on the shift's variables. A settled cash tender is
  `CobroEfectivo`, every other step is a step of the shift or leaves it unchanged; `CutIsExact`
  carries over.
- Finance. `ReversedOnce` is inductive only with what a recorded transaction looks like
  (`TxsSound`: its amount is positive, it is in the book of its document, and a payment names
  no other transaction), and `StatusFollowsBalance` needs those positive amounts: they are why a
  reversal always leaves something due.
- Procure to pay. The mapping is the identity on finance's variables. A delivery is
  `ProcessPurchaseReceiptEvent` with an announced total, which is one of `ReceiptTotals`
  (`RegisteredOK`); purchase operations leave finance alone.

Only model-checked: liveness (fairness and ENABLED are beyond the prover), the action
properties of folio leases and the integration outbox, the invariants of `DiningRoom`,
`CloudIntegrationOutbox`, `SyncPipeline`, `EdgeSyncClient`, `StockLedger` and `Procurement`,
`NeverOverpaid`, `DrawerMatchesPayments`, `BalanceIsExplained`, and sums over data (proration, totals), which need induction over data.

## Not modelled

Request parsing and validation, serialisation, tenant identity (fixed in every module),
cryptography and the user interfaces are left out by intent. Other parts are planned; the
hazards known so far are in `PROJECT.json`, some without a property yet (the transfer that
fails half way, a batch full of rows that cannot become SYNCED, the Corte Z of a later shift,
two charges that pass one credit check, `WriteSerializer.clear`). Two limits of the code itself: a client disabled while its
socket closes hears of no later command and only a local call brings it back; lock keys are
32-bit hashes, and a collision could put two of them in a cycle that PostgreSQL breaks.

### Plan

1. Rest of the cloud services (`cloud-server/src/index.ts`): consumer inbox, invoice life
   cycle with the PAC connector, scheduled payments, cash reconciliation. To be proved: one
   effect per inbound event.
2. Edge runtime: write serializer, catalogue deltas and checkpoints, PIN lockout, pairing and
   trusted time. To be proved: exclusion of writes, monotone checkpoints.
3. Kitchen display and printer queue with retries; loyalty balances; delivery webhooks.
4. Recipe explosion and unit conversion as functions against a reference definition.
5. Proofs for `DiningRoom` (`SeatedAccountIsOpen`), `CloudIntegrationOutbox`
   (`DlqMatchesOutbox`), `SyncPipeline` (`SyncedMeansApplied`, `CloudIsPrefixOfEdge`) and
   `StockLedger` (`NoDeadlock`).
