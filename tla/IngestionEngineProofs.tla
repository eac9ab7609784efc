----------------------- MODULE IngestionEngineProofs ------------------------
(***************************************************************************)
(* Proofs about IngestionEngine, for every set of streams and operations   *)
(* and for every order, repetition and sequence number of arrival.         *)
(***************************************************************************)
EXTENDS IngestionEngine, TLAPS

\* Every applied event is in the log, under its own stream.
AppliedIsLogged ==
    \A s \in Streams : \A i \in DOMAIN applied[s] :
        /\ applied[s][i] \in ingested_idempotency_log
        /\ applied[s][i].stream = s

EngineInv ==
    /\ EngineTypeOK
    /\ AppliedInSequence
    /\ AppliedIsLogged
    /\ AppliedOnce
    /\ NothingLeftInBuffer

\* The empty cloud tables satisfy the inductive invariant.
LEMMA EngineInitInv == EngineInit => EngineInv
  BY DEF EngineInit, EngineInv, EngineTypeOK, AppliedInSequence, AppliedIsLogged, AppliedOnce,
         NothingLeftInBuffer

\* The event BufferedEvent picks is the one of a BUFFERED row.
LEMMA BufferedEventIsBuffered ==
    ASSUME EngineTypeOK, NEW s, NEW k, BufferedAt(s, k)
    PROVE  /\ BufferedEvent(s, k) \in Event
           /\ BufferedEvent(s, k).stream = s
           /\ BufferedEvent(s, k).seq = k
<1> DEFINE P(r) == r.event.stream = s /\ r.event.seq = k /\ r.status = "BUFFERED"
           row == CHOOSE r \in reordering_buffer_queue : P(r)
<1>1. \E r \in reordering_buffer_queue : P(r)
  BY DEF BufferedAt
<1>2. row \in reordering_buffer_queue /\ P(row)
  BY <1>1
<1>3. BufferedEvent(s, k) = row.event
  BY DEF BufferedEvent
<1> QED
  BY <1>2, <1>3 DEF EngineTypeOK, BufferRow

\* Indexing the history of a stream after an event and its run are appended.
LEMMA AppendedHistory ==
    ASSUME NEW old \in Seq(Event), NEW e \in Event, NEW m \in Nat, NEW run \in [1 .. m -> Event]
    PROVE  /\ run \in Seq(Event) /\ DOMAIN run = 1 .. m
           /\ old \o (<<e>> \o run) \in Seq(Event)
           /\ Len(old \o (<<e>> \o run)) = Len(old) + 1 + m
           /\ \A i \in 1 .. Len(old) : (old \o (<<e>> \o run))[i] = old[i]
           /\ (old \o (<<e>> \o run))[Len(old) + 1] = e
           /\ \A i \in 1 .. m : (old \o (<<e>> \o run))[Len(old) + 1 + i] = run[i]
<1>1. run \in Seq(Event) /\ Len(run) = m /\ DOMAIN run = 1 .. m
  OBVIOUS
<1>2. /\ <<e>> \o run \in Seq(Event)
      /\ Len(<<e>> \o run) = 1 + m
      /\ (<<e>> \o run)[1] = e
      /\ \A i \in 1 .. m : (<<e>> \o run)[1 + i] = run[i]
  BY <1>1
<1> DEFINE tail == <<e>> \o run
<1>3. tail \in Seq(Event) /\ Len(tail) = 1 + m
  BY <1>2
<1>4. /\ old \o tail \in Seq(Event)
      /\ Len(old \o tail) = Len(old) + 1 + m
      /\ \A i \in 1 .. Len(old) : (old \o tail)[i] = old[i]
      /\ \A i \in 1 .. 1 + m : (old \o tail)[Len(old) + i] = tail[i]
  <2> HIDE DEF tail
  <2> QED
    BY <1>3
<1>5. (old \o tail)[Len(old) + 1] = tail[1]
  BY <1>4
<1>6. \A i \in 1 .. m : (old \o tail)[Len(old) + 1 + i] = tail[1 + i]
  <2> SUFFICES ASSUME NEW i \in 1 .. m PROVE (old \o tail)[Len(old) + 1 + i] = tail[1 + i]
    OBVIOUS
  <2>1. 1 + i \in 1 .. 1 + m /\ Len(old) + (1 + i) = Len(old) + 1 + i
    OBVIOUS
  <2> HIDE DEF tail
  <2> QED
    BY <1>4, <2>1
<1> QED
  BY <1>1, <1>2, <1>4, <1>5, <1>6

\* Case C keeps the invariant: the event and its run extend the stream by the
\* next sequence numbers, with operations that are new to it.
LEMMA ApplyEventStep ==
    ASSUME EngineInv, NEW e \in Event, ApplyEvent(e)
    PROVE  EngineInv'
<1> USE DEF EngineInv
<1> DEFINE s == e.stream
           old == applied[s]
           new == applied'[s]
           Run(n) == DrainedEvents(s, e.seq, n)
<1>1. PICK n \in {e.seq} \cup {r.event.seq : r \in reordering_buffer_queue} :
         /\ DrainsTo(s, e.seq, n)
         /\ Drainable(e, Run(n))
         /\ aggregate_sequences' = [aggregate_sequences EXCEPT ![s] = n]
         /\ applied' = [applied EXCEPT ![s] = @ \o (<<e>> \o Run(n))]
         /\ ingested_idempotency_log' =
              ingested_idempotency_log \cup {e} \cup {Run(n)[i] : i \in DOMAIN Run(n)}
         /\ reordering_buffer_queue' =
              {IF r.event.stream = s /\ r.event.seq \in e.seq + 1 .. n
               THEN [r EXCEPT !.status = "DRAINED"] ELSE r : r \in reordering_buffer_queue}
  BY DEF ApplyEvent
<1> DEFINE m == n - e.seq
           run == Run(n)
<1>2. /\ s \in Streams /\ e.seq \in Nat /\ e.seq >= 1
      /\ n \in Nat /\ m \in Nat
      /\ ~Logged(e) /\ e.seq = aggregate_sequences[s] + 1
  <2>1. n \in Nat
    BY DEF Event, EngineTypeOK, BufferRow
  <2> QED
    BY <1>1, <2>1 DEF Event, DrainsTo, ApplyEvent
<1>3. /\ old \in Seq(Event)
      /\ Len(old) = e.seq - 1
      /\ DOMAIN old = 1 .. e.seq - 1
      /\ \A i \in DOMAIN old : old[i].seq = i
  BY <1>2 DEF EngineTypeOK, AppliedInSequence
<1>4. /\ run \in [1 .. m -> Event]
      /\ \A i \in 1 .. m : run[i].seq = e.seq + i /\ run[i].stream = s
  <2>1. \A i \in 1 .. m : run[i] = BufferedEvent(s, e.seq + i)
    BY DEF DrainedEvents
  <2>2. ASSUME NEW i \in 1 .. m PROVE BufferedAt(s, e.seq + i)
    <3>1. e.seq + i \in e.seq + 1 .. n
      BY <1>2
    <3> QED
      BY <1>1, <3>1 DEF DrainsTo
  <2>3. \A i \in 1 .. m : run[i] \in Event /\ run[i].seq = e.seq + i /\ run[i].stream = s
    BY <2>1, <2>2, BufferedEventIsBuffered
  <2> QED
    BY <2>3 DEF DrainedEvents
<1>5. run \in [1 .. m -> Event] /\ old \in Seq(Event) /\ e \in Event /\ m \in Nat
  BY <1>2, <1>3, <1>4
<1> DEFINE whole == old \o (<<e>> \o run)
<1>6. /\ new = whole
      /\ \A t \in Streams \ {s} : applied'[t] = applied[t]
      /\ DOMAIN applied' = Streams
      /\ ingested_idempotency_log' =
           ingested_idempotency_log \cup {e} \cup {run[i] : i \in DOMAIN run}
      /\ Drainable(e, run)
      /\ m = n - e.seq
      /\ aggregate_sequences' \in [Streams -> Nat]
      /\ aggregate_sequences'[s] = n
      /\ \A t \in Streams \ {s} : aggregate_sequences'[t] = aggregate_sequences[t]
  BY <1>1, <1>2 DEF EngineTypeOK
<1> HIDE DEF old, new, run, m
<1>7. /\ DOMAIN run = 1 .. m
      /\ whole \in Seq(Event)
      /\ Len(whole) = Len(old) + 1 + m
      /\ \A i \in 1 .. Len(old) : whole[i] = old[i]
      /\ whole[Len(old) + 1] = e
      /\ \A i \in 1 .. m : whole[Len(old) + 1 + i] = run[i]
  <2>1. /\ DOMAIN run = 1 .. m
        /\ old \o (<<e>> \o run) \in Seq(Event)
        /\ Len(old \o (<<e>> \o run)) = Len(old) + 1 + m
        /\ \A i \in 1 .. Len(old) : (old \o (<<e>> \o run))[i] = old[i]
        /\ (old \o (<<e>> \o run))[Len(old) + 1] = e
        /\ \A i \in 1 .. m : (old \o (<<e>> \o run))[Len(old) + 1 + i] = run[i]
    BY <1>5, AppendedHistory
  <2> QED
    BY <2>1
<1> HIDE DEF whole
<1>8. /\ Len(old) + 1 = e.seq
      /\ Len(whole) = n
      /\ DOMAIN new = 1 .. n
      /\ Len(new) = n
      /\ \A i \in 1 .. e.seq - 1 : new[i] = old[i]
      /\ new[e.seq] = e
      /\ \A i \in 1 .. m : new[e.seq + i] = run[i]
  <2>1. Len(old) + 1 = e.seq
    BY <1>2, <1>3
  <2>2. Len(whole) = n
    BY <1>2, <1>6, <1>7, <2>1
  <2>3. DOMAIN whole = 1 .. n
    BY <1>7, <2>2
  <2> QED
    BY <1>3, <1>6, <1>7, <2>1, <2>2, <2>3
<1>9. ASSUME NEW i \in 1 .. n
      PROVE  \/ i \in 1 .. e.seq - 1 /\ new[i] = old[i]
             \/ i = e.seq /\ new[i] = e
             \/ i - e.seq \in 1 .. m /\ new[i] = run[i - e.seq]
  <2>1. CASE i < e.seq
    BY <1>2, <1>8, <2>1
  <2>2. CASE i = e.seq
    BY <1>8, <2>2
  <2>3. CASE i > e.seq
    <3>1. i - e.seq \in 1 .. m /\ e.seq + (i - e.seq) = i
      BY <1>2, <1>6, <2>3
    <3> QED
      BY <1>8, <3>1
  <2> QED
    BY <1>2, <2>1, <2>2, <2>3
<1>10. EngineTypeOK'
  <2>1. applied' \in [Streams -> Seq(Event)]
    BY <1>1, <1>6, <1>7 DEF EngineTypeOK, new
  <2>2. ingested_idempotency_log' \subseteq Event
    <3>1. \A i \in DOMAIN run : run[i] \in Event
      BY <1>5
    <3> QED
      BY <1>6, <3>1 DEF EngineTypeOK
  <2>3. reordering_buffer_queue' \subseteq BufferRow
    BY <1>1 DEF EngineTypeOK, BufferRow
  <2> QED
    BY <1>6, <2>1, <2>2, <2>3 DEF EngineTypeOK
<1>11. applied'[s] = new
  BY DEF new
<1>12. AppliedInSequence'
  <2> SUFFICES ASSUME NEW t \in Streams
               PROVE  /\ Len(applied'[t]) = aggregate_sequences'[t]
                      /\ \A i \in DOMAIN applied'[t] : applied'[t][i].seq = i
    BY DEF AppliedInSequence
  <2>1. CASE t # s
    BY <1>6, <2>1 DEF AppliedInSequence
  <2>2. CASE t = s
    <3>1. ASSUME NEW i \in 1 .. n PROVE new[i].seq = i
      <4>1. CASE i \in 1 .. e.seq - 1 /\ new[i] = old[i]
        BY <1>3, <4>1
      <4>2. CASE i = e.seq /\ new[i] = e
        BY <4>2
      <4>3. CASE i - e.seq \in 1 .. m /\ new[i] = run[i - e.seq]
        <5>1. run[i - e.seq].seq = e.seq + (i - e.seq)
          BY <1>4, <4>3
        <5> QED
          BY <1>2, <4>3, <5>1
      <4> QED
        BY <1>9, <4>1, <4>2, <4>3
    <3> QED
      BY <1>6, <1>8, <1>11, <2>2, <3>1
  <2> QED
    BY <2>1, <2>2
<1>13. AppliedIsLogged'
  <2> SUFFICES ASSUME NEW t \in Streams, NEW i \in DOMAIN applied'[t]
               PROVE  /\ applied'[t][i] \in ingested_idempotency_log'
                      /\ applied'[t][i].stream = t
    BY DEF AppliedIsLogged
  <2>1. CASE t # s
    BY <1>6, <2>1 DEF AppliedIsLogged
  <2>2. CASE t = s
    <3>1. i \in 1 .. n
      BY <1>8, <1>11, <2>2
    <3>2. \A j \in 1 .. m : run[j] \in ingested_idempotency_log'
      BY <1>6, <1>7
    <3>3. CASE i \in 1 .. e.seq - 1 /\ new[i] = old[i]
      <4>1. old[i] \in ingested_idempotency_log /\ old[i].stream = s
        BY <1>2, <1>3, <3>3 DEF AppliedIsLogged, old
      <4> QED
        BY <1>6, <1>11, <2>2, <3>3, <4>1
    <3>4. CASE i = e.seq /\ new[i] = e
      BY <1>6, <1>11, <2>2, <3>4
    <3>5. CASE i - e.seq \in 1 .. m /\ new[i] = run[i - e.seq]
      BY <1>4, <1>11, <2>2, <3>2, <3>5
    <3> QED
      BY <1>9, <3>1, <3>3, <3>4, <3>5
  <2> QED
    BY <2>1, <2>2
<1>14. AppliedOnce'
  <2>1. \A i \in 1 .. e.seq - 1 : old[i].op # e.op /\ \A j \in 1 .. m : old[i].op # run[j].op
    <3> SUFFICES ASSUME NEW i \in 1 .. e.seq - 1
                 PROVE  old[i].op # e.op /\ \A j \in 1 .. m : old[i].op # run[j].op
      OBVIOUS
    <3>1. old[i] \in ingested_idempotency_log /\ old[i].stream = s
      BY <1>2, <1>3 DEF AppliedIsLogged, old
    <3>2. \A j \in 1 .. m : ~Logged(run[j])
      BY <1>6, <1>7 DEF Drainable
    <3> QED
      BY <1>2, <1>4, <3>1, <3>2 DEF Logged, Key
  <2>2. \A j \in 1 .. m : run[j].op # e.op
    BY <1>4, <1>6, <1>7 DEF Drainable, Key
  <2>3. \A j, k \in 1 .. m : run[j].op = run[k].op => j = k
    <3>1. \A j, k \in 1 .. m : Key(run[j]) = Key(run[k]) => j = k
      BY <1>6, <1>7 DEF Drainable
    <3>2. \A j \in 1 .. m : run[j].stream = s
      BY <1>4
    <3> QED
      BY <3>1, <3>2 DEF Key
  <2>4. ASSUME NEW i \in 1 .. n, NEW j \in 1 .. n, new[i].op = new[j].op
        PROVE  i = j
    <3>1. CASE i \in 1 .. e.seq - 1 /\ j \in 1 .. e.seq - 1
      <4>1. old[i].op = old[j].op
        BY <1>8, <2>4, <3>1
      <4> QED
        BY <1>2, <1>3, <3>1, <4>1 DEF AppliedOnce, old
    <3>2. CASE i \in 1 .. e.seq - 1 /\ j \notin 1 .. e.seq - 1
      <4>1. new[j] = e \/ \E k \in 1 .. m : new[j] = run[k]
        BY <1>9, <3>2
      <4> QED
        BY <1>8, <2>1, <2>4, <3>2, <4>1
    <3>3. CASE i \notin 1 .. e.seq - 1 /\ j \in 1 .. e.seq - 1
      <4>1. new[i] = e \/ \E k \in 1 .. m : new[i] = run[k]
        BY <1>9, <3>3
      <4> QED
        BY <1>8, <2>1, <2>4, <3>3, <4>1
    <3>4. CASE i \notin 1 .. e.seq - 1 /\ j \notin 1 .. e.seq - 1
      <4>1. (i = e.seq /\ new[i] = e) \/ (i - e.seq \in 1 .. m /\ new[i] = run[i - e.seq])
        BY <1>9, <3>4
      <4>2. (j = e.seq /\ new[j] = e) \/ (j - e.seq \in 1 .. m /\ new[j] = run[j - e.seq])
        BY <1>9, <3>4
      <4>3. CASE i = e.seq /\ new[i] = e /\ j = e.seq
        BY <4>3
      <4>4. CASE i = e.seq /\ new[i] = e /\ j - e.seq \in 1 .. m /\ new[j] = run[j - e.seq]
        BY <2>2, <2>4, <4>4
      <4>5. CASE j = e.seq /\ new[j] = e /\ i - e.seq \in 1 .. m /\ new[i] = run[i - e.seq]
        BY <2>2, <2>4, <4>5
      <4>6. CASE /\ i - e.seq \in 1 .. m /\ new[i] = run[i - e.seq]
                 /\ j - e.seq \in 1 .. m /\ new[j] = run[j - e.seq]
        <5>1. i - e.seq = j - e.seq
          BY <2>3, <2>4, <4>6
        <5> QED
          BY <1>2, <5>1
      <4> QED
        BY <4>1, <4>2, <4>3, <4>4, <4>5, <4>6
    <3> QED
      BY <3>1, <3>2, <3>3, <3>4
  <2> SUFFICES ASSUME NEW t \in Streams, NEW i \in DOMAIN applied'[t], NEW j \in DOMAIN applied'[t],
                      applied'[t][i].op = applied'[t][j].op
               PROVE  i = j
    BY DEF AppliedOnce
  <2>5. CASE t # s
    BY <1>6, <2>5 DEF AppliedOnce
  <2>6. CASE t = s
    BY <1>8, <1>11, <2>4, <2>6
  <2> QED
    BY <2>5, <2>6
<1>15. NothingLeftInBuffer'
  <2> SUFFICES ASSUME NEW q \in reordering_buffer_queue', q.status = "BUFFERED"
               PROVE  q.event.seq > aggregate_sequences'[q.event.stream] + 1
    BY DEF NothingLeftInBuffer
  <2>1. PICK r \in reordering_buffer_queue :
          q = IF r.event.stream = s /\ r.event.seq \in e.seq + 1 .. n
              THEN [r EXCEPT !.status = "DRAINED"] ELSE r
    BY <1>1
  <2>2. r \in BufferRow
    BY DEF EngineTypeOK
  <2>3. q = r /\ ~(r.event.stream = s /\ r.event.seq \in e.seq + 1 .. n)
    BY <2>1, <2>2 DEF BufferRow
  <2>4. /\ r.event.seq \in Nat /\ r.event.stream \in Streams
        /\ r.event.seq > aggregate_sequences[r.event.stream] + 1
    BY <2>2, <2>3 DEF BufferRow, Event, NothingLeftInBuffer
  <2>5. CASE r.event.stream # s
    BY <1>6, <2>3, <2>4, <2>5
  <2>6. CASE r.event.stream = s
    <3>1. aggregate_sequences'[s] = n
      BY <1>6
    <3>2. r.event.seq > e.seq
      BY <1>2, <2>4, <2>6
    <3>3. r.event.seq # n + 1
      BY <1>1, <2>3, <2>6 DEF DrainsTo, BufferedAt
    <3> QED
      BY <1>2, <2>3, <2>4, <2>6, <3>1, <3>2, <3>3
  <2> QED
    BY <2>5, <2>6
<1> QED
  BY <1>10, <1>12, <1>13, <1>14, <1>15

\* Buffering an event touches neither the streams nor the log.
LEMMA BufferEventStep ==
    ASSUME EngineInv, NEW e \in Event, BufferEvent(e)
    PROVE  EngineInv'
<1> USE DEF EngineInv
<1>1. UNCHANGED <<aggregate_sequences, ingested_idempotency_log, applied>>
  BY DEF BufferEvent
<1>2. /\ reordering_buffer_queue' \subseteq
            reordering_buffer_queue \cup {[event |-> e, status |-> "BUFFERED"]}
      /\ e.seq > aggregate_sequences[e.stream] + 1
  BY DEF BufferEvent
<1>3. EngineTypeOK'
  BY <1>1, <1>2 DEF EngineTypeOK, BufferRow
<1>4. NothingLeftInBuffer'
  BY <1>1, <1>2 DEF NothingLeftInBuffer
<1> QED
  BY <1>1, <1>3, <1>4 DEF AppliedInSequence, AppliedIsLogged, AppliedOnce

\* The engine invariant is inductive, whatever event is processed.
LEMMA EngineStepInv ==
    ASSUME EngineInv, (\E e \in Event : ProcessEvent(e)) \/ UNCHANGED engineVars
    PROVE  EngineInv'
<1>1. CASE UNCHANGED engineVars
  BY <1>1 DEF EngineInv, engineVars, EngineTypeOK, AppliedInSequence, AppliedIsLogged,
              AppliedOnce, NothingLeftInBuffer
<1>2. ASSUME NEW e \in Event, ProcessEvent(e) PROVE EngineInv'
  <2>1. CASE ApplyEvent(e)
    BY <2>1, ApplyEventStep
  <2>2. CASE BufferEvent(e)
    BY <2>2, BufferEventStep
  <2>3. CASE DuplicateEvent(e) \/ StaleEvent(e)
    BY <1>1, <2>3 DEF DuplicateEvent, StaleEvent
  <2> QED
    BY <1>2, <2>1, <2>2, <2>3 DEF ProcessEvent
<1> QED
  BY <1>1, <1>2

\* The inductive invariant holds in every reachable state.
LEMMA EngineAlwaysInv == EngineSpec => []EngineInv
<1>1. EngineInv /\ [EngineNext]_engineVars => EngineInv'
  BY EngineStepInv DEF EngineNext
<1> QED
  BY <1>1, EngineInitInv, PTL DEF EngineSpec

\* processEvent applies the events of a stream in the order 1, 2, 3, ... and
\* current_sequence_number counts them, for any arrivals.
THEOREM CausalOrder == EngineSpec => []AppliedInSequence
<1>1. EngineInv => AppliedInSequence
  BY DEF EngineInv
<1> QED
  BY <1>1, EngineAlwaysInv, PTL

\* No operation takes effect twice on a stream.
THEOREM Idempotency == EngineSpec => []AppliedOnce
<1>1. EngineInv => AppliedOnce
  BY DEF EngineInv
<1> QED
  BY <1>1, EngineAlwaysInv, PTL

\* The drain loop leaves no event behind that could be applied.
THEOREM DrainIsComplete == EngineSpec => []NothingLeftInBuffer
<1>1. EngineInv => NothingLeftInBuffer
  BY DEF EngineInv
<1> QED
  BY <1>1, EngineAlwaysInv, PTL
=============================================================================
