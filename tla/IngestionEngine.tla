--------------------------- MODULE IngestionEngine ---------------------------
(***************************************************************************)
(* The cloud side of event ingestion: IngestedIdempotencyEngine.processEvent *)
(* (packages/database/src/outbox/ingested-idempotency-engine.ts) over the    *)
(* tables aggregate_sequences, ingested_idempotency_log and                  *)
(* reordering_buffer_queue (migration 20260904210000).  A stream is one      *)
(* (organization, branch, aggregate type, aggregate id).                     *)
(*                                                                           *)
(* processEvent runs in the caller's transaction under an advisory lock on   *)
(* the stream, so one call is one action; a call that throws is rolled back  *)
(* and changes nothing.  Any event may arrive at any time, any number of     *)
(* times.                                                                    *)
(***************************************************************************)
EXTENDS Integers, Sequences

CONSTANTS
    Streams,     \* aggregate streams
    Ops,         \* clientOpIds
    Poison       \* the operations whose domain handler always throws

ASSUME PoisonAssumption == Poison \subseteq Ops

VARIABLES
    aggregate_sequences,       \* current_sequence_number of each stream
    ingested_idempotency_log,  \* the events recorded as APPLIED
    reordering_buffer_queue,   \* rows [event, status]
    applied                    \* history: the handler calls committed on each stream

engineVars == <<aggregate_sequences, ingested_idempotency_log, reordering_buffer_queue, applied>>

\* The action and the payload of an event are determined by its clientOpId.
Event == [stream: Streams, op: Ops, seq: Nat \ {0}]
BufferRow == [event: Event, status: {"BUFFERED", "DRAINED"}]

\* formatIdempotencyKey
Key(e) == <<e.stream, e.op>>

EngineInit ==
    /\ aggregate_sequences = [s \in Streams |-> 0]
    /\ ingested_idempotency_log = {}
    /\ reordering_buffer_queue = {}
    /\ applied = [s \in Streams |-> <<>>]

Logged(e) == \E f \in ingested_idempotency_log : Key(f) = Key(e)

\* A BUFFERED row of stream s with sequence number k; there is at most one
\* (uq_reordering_buffer_seq).
BufferedAt(s, k) ==
    \E r \in reordering_buffer_queue :
        r.event.stream = s /\ r.event.seq = k /\ r.status = "BUFFERED"
BufferedEvent(s, k) ==
    (CHOOSE r \in reordering_buffer_queue :
        r.event.stream = s /\ r.event.seq = k /\ r.status = "BUFFERED").event

-----------------------------------------------------------------------------
(* The cases of processEvent *)

\* The key is in the log: the persisted receipt is returned.
DuplicateEvent(e) ==
    /\ Logged(e)
    /\ UNCHANGED engineVars

\* Case A, incoming < expected: a receipt is issued, nothing is changed.
StaleEvent(e) ==
    /\ ~Logged(e)
    /\ e.seq < aggregate_sequences[e.stream] + 1
    /\ UNCHANGED engineVars

\* Case B, incoming > expected: the event waits in the reordering buffer.
\* ON CONFLICT (idempotency_key) DO NOTHING; another key under the same
\* sequence number violates uq_reordering_buffer_seq and throws.
BufferEvent(e) ==
    /\ ~Logged(e)
    /\ e.seq > aggregate_sequences[e.stream] + 1
    /\ \/ /\ \E r \in reordering_buffer_queue : Key(r.event) = Key(e)
          /\ UNCHANGED reordering_buffer_queue
       \/ /\ \A r \in reordering_buffer_queue :
               /\ Key(r.event) # Key(e)
               /\ r.event.stream = e.stream => r.event.seq # e.seq
          /\ reordering_buffer_queue' =
               reordering_buffer_queue \cup {[event |-> e, status |-> "BUFFERED"]}
    /\ UNCHANGED <<aggregate_sequences, ingested_idempotency_log, applied>>

\* Mutant: the buffer is not drained.
DrainsTo_Nothing(s, k, n) == n = k

\* The contiguous run of buffered events behind sequence number k ends at n.
DrainsTo(s, k, n) ==
    /\ k <= n
    /\ \A i \in k + 1 .. n : BufferedAt(s, i)
    /\ ~BufferedAt(s, n + 1)

DrainedEvents(s, k, n) == [i \in 1 .. n - k |-> BufferedEvent(s, k + i)]

\* The log's unique keys and the handlers let every drained event through.
Drainable(e, run) ==
    /\ e.op \notin Poison
    /\ \A i \in DOMAIN run : run[i].op \notin Poison /\ ~Logged(run[i]) /\ Key(run[i]) # Key(e)
    /\ \A i, j \in DOMAIN run : Key(run[i]) = Key(run[j]) => i = j

\* Mutant: an event past a gap is applied at once.
ApplyEvent_AcceptsGap(e) ==
    /\ ~Logged(e)
    /\ e.seq > aggregate_sequences[e.stream]
    /\ aggregate_sequences' = [aggregate_sequences EXCEPT ![e.stream] = e.seq]
    /\ applied' = [applied EXCEPT ![e.stream] = Append(@, e)]
    /\ ingested_idempotency_log' = ingested_idempotency_log \cup {e}
    /\ UNCHANGED reordering_buffer_queue

\* Case C, incoming = expected: apply it, then drain the buffer in order.
ApplyEvent(e) ==
    /\ ~Logged(e)
    /\ e.seq = aggregate_sequences[e.stream] + 1
    /\ \E n \in {e.seq} \cup {r.event.seq : r \in reordering_buffer_queue} :
         LET run == DrainedEvents(e.stream, e.seq, n) IN
         /\ DrainsTo(e.stream, e.seq, n)
         /\ Drainable(e, run)
         /\ aggregate_sequences' = [aggregate_sequences EXCEPT ![e.stream] = n]
         /\ applied' = [applied EXCEPT ![e.stream] = @ \o (<<e>> \o run)]
         /\ ingested_idempotency_log' =
              ingested_idempotency_log \cup {e} \cup {run[i] : i \in DOMAIN run}
         /\ reordering_buffer_queue' =
              {IF r.event.stream = e.stream /\ r.event.seq \in e.seq + 1 .. n
               THEN [r EXCEPT !.status = "DRAINED"] ELSE r : r \in reordering_buffer_queue}

ProcessEvent(e) == DuplicateEvent(e) \/ StaleEvent(e) \/ BufferEvent(e) \/ ApplyEvent(e)

-----------------------------------------------------------------------------
EngineNext == \E e \in Event : ProcessEvent(e)

EngineSpec == EngineInit /\ [][EngineNext]_engineVars

-----------------------------------------------------------------------------
(* Properties *)

\* The tables are well formed.
EngineTypeOK ==
    /\ aggregate_sequences \in [Streams -> Nat]
    /\ ingested_idempotency_log \subseteq Event
    /\ reordering_buffer_queue \subseteq BufferRow
    /\ applied \in [Streams -> Seq(Event)]

\* Causal order: the events applied to a stream carry the sequence numbers
\* 1, 2, 3, ... without a gap or a repetition, however they arrived, and
\* current_sequence_number counts them.
AppliedInSequence ==
    \A s \in Streams :
        /\ Len(applied[s]) = aggregate_sequences[s]
        /\ \A i \in DOMAIN applied[s] : applied[s][i].seq = i

\* Idempotency: no operation takes effect twice on a stream, whether it is
\* redelivered, buffered and redelivered, or drained.
AppliedOnce ==
    \A s \in Streams : \A i, j \in DOMAIN applied[s] :
        applied[s][i].op = applied[s][j].op => i = j

\* Draining is complete: no event that waits in the buffer could be applied
\* now or has been overtaken by the stream.
NothingLeftInBuffer ==
    \A r \in reordering_buffer_queue :
        r.status = "BUFFERED" => r.event.seq > aggregate_sequences[r.event.stream] + 1

=============================================================================
