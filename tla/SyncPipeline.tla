---------------------------- MODULE SyncPipeline ----------------------------
(***************************************************************************)
(* Edge-to-cloud synchronisation: the operations of the edge runtime that  *)
(* write an aggregate and enqueue its event (fastify-app.ts,               *)
(* payment-sqlite-repository.ts, cash-shift-sqlite-repository.ts), the     *)
(* transactional outbox (outbox-persistence.ts), the upstream batches and  *)
(* their acknowledgements (edge-client.ts, stream-gateway.ts), composed    *)
(* with the cloud's IngestionEngine.                                       *)
(*                                                                         *)
(* The batch processor between gateway and engine is not in the            *)
(* repository: an event that was ever sent may be processed at any time,   *)
(* in any order, more than once or never, and so may its acknowledgement   *)
(* be delivered.                                                           *)
(***************************************************************************)
EXTENDS IngestionEngine, SequencesExt

CONSTANTS
    Cuentas,         \* streams whose sequence number is the row version
    Cortes,          \* streams of a Corte Z: one event, numbered by the shift
    ShiftNumber,     \* the number of the shift the Cortes close
    SilentCuentas,   \* the accounts on which version-only operations happen
    BatchLimit,      \* events per flush
    MaxVersion,      \* bound: version of an account
    MaxPowerLosses   \* bound: power failures of the edge host

ASSUME StreamsAssumption == Streams = Cuentas \cup Cortes /\ Cuentas \cap Cortes = {}
ASSUME NumbersAssumption ==
    /\ ShiftNumber \in Nat \ {0} /\ BatchLimit \in Nat \ {0}
    /\ MaxVersion \in Nat /\ MaxPowerLosses \in Nat

VARIABLES
    version,        \* edge: version of each account row, 0 before it exists
    outbox_queue,   \* edge: rows [event, status] in order of created_at
    sent,           \* events carried by some UPSTREAM_BATCH
    acks,           \* results carried by some UPSTREAM_ACK
    used,           \* the clientOpIds drawn so far (UUIDs never repeat)
    disk,           \* edge: the committed state that survives a power failure
    losses          \* power failures so far

edgeVars == <<version, outbox_queue, used>>
vars == <<engineVars, edgeVars, sent, acks, disk, losses>>

Row(e) == [event |-> e, status |-> "PENDING"]

Init ==
    /\ EngineInit
    /\ version = [c \in Cuentas |-> 0]
    /\ outbox_queue = <<>>
    /\ sent = {}
    /\ acks = {}
    /\ used = {}
    /\ disk = [version |-> version, outbox |-> outbox_queue]
    /\ losses = 0

-----------------------------------------------------------------------------
(* The edge host *)

\* Mutant: the event carries the version read before the update.
MutateCuenta_StaleVersion(c) ==
    /\ version[c] < MaxVersion
    /\ \E op \in Ops \ used :
         /\ version' = [version EXCEPT ![c] = @ + 1]
         /\ outbox_queue' = Append(outbox_queue,
              Row([stream |-> c, op |-> op, seq |-> IF version[c] = 0 THEN 1 ELSE version[c]]))
         /\ used' = used \cup {op}
    /\ UNCHANGED <<engineVars, sent, acks, disk, losses>>

\* executeWithOutbox: the row and its event commit in one transaction.
\* POST /cuentas, POST /ordenes/partidas, PUT /cuentas/:id/cerrar and the
\* settling payment: aggregateSequenceNumber is the saved version.
MutateCuenta(c) ==
    /\ version[c] < MaxVersion
    /\ \E op \in Ops \ used :
         /\ version' = [version EXCEPT ![c] = @ + 1]
         /\ outbox_queue' = Append(outbox_queue,
              Row([stream |-> c, op |-> op, seq |-> version[c] + 1]))
         /\ used' = used \cup {op}
    /\ UNCHANGED <<engineVars, sent, acks, disk, losses>>

\* executeAtomicSettlementSync with a tender that does not settle the account:
\* the version is raised and no event is enqueued.
PartialPayment(c) ==
    /\ c \in SilentCuentas
    /\ version[c] \in 1 .. MaxVersion - 1
    /\ version' = [version EXCEPT ![c] = @ + 1]
    /\ UNCHANGED <<engineVars, outbox_queue, used, sent, acks, disk, losses>>

\* Mutant: the transaction runs with synchronous = NORMAL.
SaveCorteZ_Normal(z) ==
    /\ \A i \in DOMAIN outbox_queue : outbox_queue[i].event.stream # z
    /\ \E op \in Ops \ used :
         /\ outbox_queue' = Append(outbox_queue,
              Row([stream |-> z, op |-> op, seq |-> ShiftNumber]))
         /\ used' = used \cup {op}
    /\ UNCHANGED <<engineVars, version, sent, acks, disk, losses>>

\* saveCorteZSync: the aggregate is the new corte, the number is the shift's.
\* The transaction runs with synchronous = FULL, which also makes everything
\* committed before it durable.
SaveCorteZ(z) ==
    /\ \A i \in DOMAIN outbox_queue : outbox_queue[i].event.stream # z
    /\ \E op \in Ops \ used :
         /\ outbox_queue' = Append(outbox_queue,
              Row([stream |-> z, op |-> op, seq |-> ShiftNumber]))
         /\ used' = used \cup {op}
    /\ disk' = IF losses < MaxPowerLosses
               THEN [version |-> version, outbox |-> outbox_queue'] ELSE disk
    /\ UNCHANGED <<engineVars, version, sent, acks, losses>>

\* getPendingEvents: WHERE status = 'PENDING' ORDER BY created_at LIMIT n
PendingEvents ==
    LET pending == SelectSeq(outbox_queue, LAMBDA r : r.status = "PENDING") IN
    SubSeq(pending, 1, IF Len(pending) < BatchLimit THEN Len(pending) ELSE BatchLimit)

\* flushOutbox, up to the point where the batch is sent.
FlushOutbox ==
    /\ PendingEvents # <<>>
    /\ sent' = sent \cup {PendingEvents[i].event : i \in DOMAIN PendingEvents}
    /\ UNCHANGED <<engineVars, edgeVars, acks, disk, losses>>

\* Mutants of the terminal statuses: every answer, or APPLIED only.
Terminal_Any(ack) == TRUE
Terminal_AppliedOnly(ack) == ack.status = "APPLIED"

\* markSynced: a terminal status with a verified receipt for this row.
Terminal(ack) == ack.status \in {"APPLIED", "DUPLICATE_ACCEPTED"}
MarkSynced(ack) ==
    /\ Terminal(ack)
    /\ \E i \in DOMAIN outbox_queue :
         /\ outbox_queue[i].event = ack.event
         /\ outbox_queue' = [outbox_queue EXCEPT ![i].status = "SYNCED"]
    /\ UNCHANGED <<engineVars, version, used, sent, acks, disk, losses>>

\* A WAL checkpoint: what has been committed so far is durable.  With
\* synchronous = NORMAL nothing else makes it so.
Checkpoint ==
    /\ losses < MaxPowerLosses
    /\ disk' = [version |-> version, outbox |-> outbox_queue]
    /\ UNCHANGED <<engineVars, edgeVars, sent, acks, losses>>

\* A power failure loses the transactions committed since then.
PowerLoss ==
    /\ losses < MaxPowerLosses
    /\ losses' = losses + 1
    /\ version' = disk.version
    /\ outbox_queue' = disk.outbox
    /\ UNCHANGED <<engineVars, used, sent, acks, disk>>

-----------------------------------------------------------------------------
(* The cloud *)

Answer(e, status) == acks' = acks \cup {[event |-> e, status |-> status]}

Ingest(e) ==
    /\ \/ (DuplicateEvent(e) \/ StaleEvent(e)) /\ Answer(e, "DUPLICATE_ACCEPTED")
       \/ BufferEvent(e) /\ Answer(e, "REQUIRES_RECONCILIATION")
       \/ ApplyEvent(e) /\ Answer(e, "APPLIED")
    /\ UNCHANGED <<edgeVars, sent, disk, losses>>

-----------------------------------------------------------------------------
Next ==
    \/ \E c \in Cuentas : MutateCuenta(c)
    \/ \E c \in Cuentas : PartialPayment(c)
    \/ \E z \in Cortes : SaveCorteZ(z)
    \/ FlushOutbox
    \/ \E e \in sent : Ingest(e)
    \/ \E ack \in acks : MarkSynced(ack)
    \/ Checkpoint
    \/ PowerLoss

Spec == Init /\ [][Next]_vars

\* The client flushes on every connection, the network lets a batch and its
\* acknowledgement through again and again, and the cloud answers.
Fairness ==
    /\ WF_vars(FlushOutbox)
    /\ \A op \in Ops : WF_vars(\E e \in sent : e.op = op /\ Ingest(e))
    /\ \A op \in Ops : WF_vars(\E ack \in acks : ack.event.op = op /\ MarkSynced(ack))

FairSpec == Spec /\ Fairness

-----------------------------------------------------------------------------
(* Properties *)

\* What SYNCED is worth: an event the edge marks SYNCED, and will never send
\* again, has been applied in the cloud, unless the cloud applied another event
\* under its number that a power failure made the edge forget.  The number was
\* then used again, and the engine's answer to a stale number is the terminal
\* DUPLICATE_ACCEPTED, although the new event was never applied.
SyncedMeansApplied ==
    LET queued == {outbox_queue[i].event : i \in DOMAIN outbox_queue}
        synced == {outbox_queue[i].event :
                      i \in {j \in DOMAIN outbox_queue : outbox_queue[j].status = "SYNCED"}}
    IN  \A e \in synced \ ingested_idempotency_log :
            \E f \in ingested_idempotency_log \ queued : f.stream = e.stream /\ f.seq = e.seq

\* No invention and causal order end to end, as long as the host has not lost
\* power: what the cloud has applied of an account is what the edge did first,
\* in the order it did it.  A power failure may take from the edge events the
\* cloud has applied.
CloudIsPrefixOfEdge ==
    losses = 0 => \A c \in Cuentas :
        LET local == SelectSeq(outbox_queue, LAMBDA r : r.event.stream = c) IN
        /\ Len(applied[c]) <= Len(local)
        /\ \A i \in DOMAIN applied[c] : applied[c][i] = local[i].event

\* Atomicity of executeWithOutbox, power failures included: unless version-only
\* operations touched it, an account's outbox events are numbered 1 to the
\* account's version, so row and events were saved, or lost, together.
OutboxMatchesVersion ==
    \A c \in Cuentas \ SilentCuentas :
        LET local == SelectSeq(outbox_queue, LAMBDA r : r.event.stream = c) IN
        /\ Len(local) = version[c]
        /\ \A i \in DOMAIN local : local[i].event.seq = i

\* Durability of the Corte Z (ADR-004): once saved, its event is never lost, by
\* a power failure at any later point included.
CorteZSurvives ==
    [][\A i \in DOMAIN outbox_queue :
         outbox_queue[i].event.stream \in Cortes =>
             i \in DOMAIN outbox_queue' /\ outbox_queue'[i].event = outbox_queue[i].event]_vars

\* Every event of the outbox is eventually marked SYNCED (flushOutbox, the
\* engine, markSynced).  It holds where every change of a version has its event
\* and the host keeps its power; a version-only operation refutes it.
EveryEventSynced ==
    \A op \in Ops :
        (\E i \in DOMAIN outbox_queue : outbox_queue[i].event.op = op)
            ~> (\E i \in DOMAIN outbox_queue :
                    outbox_queue[i].event.op = op /\ outbox_queue[i].status = "SYNCED")
=============================================================================
