-------------------------- MODULE FolioLeaseProofs --------------------------
(***************************************************************************)
(* Proofs about FolioLease, for every set of hosts, every set of block     *)
(* sizes and every number of leases.                                       *)
(***************************************************************************)
EXTENDS FolioLease, TLAPS

-----------------------------------------------------------------------------
(* The inductive invariant *)

\* Ranges are non-empty, and ordered the way epochs are: no recycling.
RangesOrdered ==
    /\ \A l \in folio_leases : 1 <= l.rangeStart /\ l.rangeStart <= l.rangeEnd
    /\ \A l, m \in folio_leases : l.epochId = m.epochId => l = m
    /\ \A l, m \in folio_leases : l.epochId < m.epochId => l.rangeEnd < m.rangeStart

\* A 201 response carries the range of a row, and there is one per row.
ResponsesMatchRows ==
    /\ \A r \in responses : \E l \in folio_leases :
         /\ l.epochId = r.epochId
         /\ l.rangeStart = r.rangeStart
         /\ l.rangeEnd = r.rangeEnd
    /\ \A r, q \in responses : r.epochId = q.epochId => r = q

\* An installed lease came with a 201 response to that very host, and its
\* current folio is inside the range.
LocalMatchesResponse ==
    \A h \in Hosts : Installed(h) =>
        /\ \E r \in responses :
             /\ r.host = h
             /\ r.epochId = local_folio_leases[h].epochId
             /\ r.rangeStart = local_folio_leases[h].rangeStart
             /\ r.rangeEnd = local_folio_leases[h].rangeEnd
        /\ local_folio_leases[h].rangeStart <= local_folio_leases[h].currentFolio + 1
        /\ local_folio_leases[h].currentFolio <= local_folio_leases[h].rangeEnd

\* Every issued folio lies in a range granted to the host that issued it, and
\* behind the host's current folio.
IssuedWasGranted ==
    \A h \in Hosts : \A i \in DOMAIN issued[h] :
        /\ Installed(h)
        /\ issued[h][i] <= local_folio_leases[h].currentFolio
        /\ \E r \in responses :
             r.host = h /\ r.rangeStart <= issued[h][i] /\ issued[h][i] <= r.rangeEnd

IInv ==
    /\ TypeOK
    /\ RangesOrdered
    /\ ResponsesMatchRows
    /\ LocalMatchesResponse
    /\ IssuedWasGranted
    /\ FoliosIncrease

-----------------------------------------------------------------------------
\* Two responses whose ranges share a folio are the same response.
LEMMA GrantedRangesDisjoint ==
    ASSUME TypeOK, RangesOrdered, ResponsesMatchRows,
           NEW r \in responses, NEW q \in responses, NEW f \in Nat,
           r.rangeStart <= f, f <= r.rangeEnd,
           q.rangeStart <= f, f <= q.rangeEnd
    PROVE  r = q
<1>1. PICK l \in folio_leases : /\ l.epochId = r.epochId
                                /\ l.rangeStart = r.rangeStart
                                /\ l.rangeEnd = r.rangeEnd
  BY DEF ResponsesMatchRows
<1>2. PICK m \in folio_leases : /\ m.epochId = q.epochId
                                /\ m.rangeStart = q.rangeStart
                                /\ m.rangeEnd = q.rangeEnd
  BY DEF ResponsesMatchRows
<1>3. /\ l.epochId \in Nat /\ m.epochId \in Nat
      /\ l.rangeStart \in Nat /\ l.rangeEnd \in Nat
      /\ m.rangeStart \in Nat /\ m.rangeEnd \in Nat
  BY DEF TypeOK, FolioLeaseRecord
<1>4. ~(l.epochId < m.epochId) /\ ~(m.epochId < l.epochId)
  BY <1>1, <1>2, <1>3 DEF RangesOrdered
<1>5. l.epochId = m.epochId
  BY <1>3, <1>4
<1> QED
  BY <1>1, <1>2, <1>5 DEF ResponsesMatchRows

\* The inductive invariant contains the property the theorem is about.
LEMMA InvImpliesUnique == IInv => NoFolioIssuedTwice
<1> SUFFICES ASSUME IInv,
                    NEW g \in Hosts, NEW h \in Hosts,
                    NEW i \in DOMAIN issued[g], NEW j \in DOMAIN issued[h],
                    issued[g][i] = issued[h][j]
             PROVE  g = h /\ i = j
  BY DEF NoFolioIssuedTwice
<1>1. issued[g] \in Seq(Nat) /\ issued[h] \in Seq(Nat)
  BY DEF IInv, TypeOK
<1>2. issued[g][i] \in Nat /\ i \in Nat /\ j \in Nat
  BY <1>1
<1>3. PICK r \in responses : /\ r.host = g
                             /\ r.rangeStart <= issued[g][i]
                             /\ issued[g][i] <= r.rangeEnd
  BY DEF IInv, IssuedWasGranted
<1>4. PICK q \in responses : /\ q.host = h
                             /\ q.rangeStart <= issued[h][j]
                             /\ issued[h][j] <= q.rangeEnd
  BY DEF IInv, IssuedWasGranted
<1>5. r = q
  BY <1>2, <1>3, <1>4, GrantedRangesDisjoint DEF IInv
<1>6. g = h
  BY <1>3, <1>4, <1>5
<1>7. ~(i < j) /\ ~(j < i)
  BY <1>1, <1>2, <1>6 DEF IInv, FoliosIncrease
<1> QED
  BY <1>2, <1>6, <1>7

\* The initial states satisfy the inductive invariant.
LEMMA InitIInv == Init => IInv
  BY DEF Init, IInv, TypeOK, RangesOrdered, ResponsesMatchRows, LocalMatchesResponse,
         IssuedWasGranted, FoliosIncrease, Installed

-----------------------------------------------------------------------------
(* Steps of the cloud *)

\* Giving a lease up for contingency changes its status and nothing else.
LEMMA AbandonKeepsRange ==
    ASSUME TypeOK, NEW l \in folio_leases
    PROVE  /\ Abandon(l) \in FolioLeaseRecord
           /\ Abandon(l).epochId = l.epochId
           /\ Abandon(l).rangeStart = l.rangeStart
           /\ Abandon(l).rangeEnd = l.rangeEnd
  BY DEF TypeOK, Abandon, FolioLeaseRecord, CloudFolioLeaseStatus

\* An accepted heartbeat changes the high-water mark and the status only.
LEMMA BeatenKeepsRange ==
    ASSUME TypeOK, NEW l \in folio_leases, NEW b \in beats
    PROVE  /\ Beaten(l, b) \in FolioLeaseRecord
           /\ Beaten(l, b).epochId = l.epochId
           /\ Beaten(l, b).rangeStart = l.rangeStart
           /\ Beaten(l, b).rangeEnd = l.rangeEnd
  BY DEF TypeOK, Beaten, FolioLeaseRecord, HeartbeatRequest, CloudFolioLeaseStatus

\* allocateLease hands out a range and an epoch beyond all earlier ones.
LEMMA AllocateLeaseStep ==
    ASSUME IInv, NEW h \in Hosts, NEW size \in BlockSizes, NEW dr \in BOOLEAN,
           AllocateLease(h, size, dr)
    PROVE  IInv'
<1> USE DEF IInv
<1>1. PICK start \in StartCandidates, ep \in EpochCandidates :
         /\ NextRangeStart(start)
         /\ NextEpoch(ep)
         /\ folio_leases' = {Abandon(l) : l \in folio_leases} \cup
              {[epochId |-> ep, fencingToken |-> ep,
                rangeStart |-> start, rangeEnd |-> start + size - 1,
                highWaterMark |-> start - 1, status |-> "ACTIVE"]}
         /\ responses' = responses \cup
              {[host |-> h, epochId |-> ep, fencingToken |-> ep,
                rangeStart |-> start, rangeEnd |-> start + size - 1]}
  BY DEF AllocateLease
<1> DEFINE row == [epochId |-> ep, fencingToken |-> ep,
                   rangeStart |-> start, rangeEnd |-> start + size - 1,
                   highWaterMark |-> start - 1, status |-> "ACTIVE"]
           response == [host |-> h, epochId |-> ep, fencingToken |-> ep,
                        rangeStart |-> start, rangeEnd |-> start + size - 1]
<1>2. /\ UNCHANGED <<beats, fences, local_folio_leases, issued>>
      /\ size \in Nat /\ size >= 1
  BY BlockSizesAssumption DEF AllocateLease
<1>3. /\ start \in Nat /\ start >= 1
      /\ ep \in Nat
      /\ \A l \in folio_leases : l.rangeEnd < start /\ l.epochId < ep
  <2>1. \A l \in folio_leases : l.rangeEnd \in Nat /\ l.epochId \in Nat
    BY DEF TypeOK, FolioLeaseRecord
  <2>2. start \in Nat /\ start >= 1 /\ ep \in Nat
    BY <2>1 DEF StartCandidates, EpochCandidates
  <2>3. \A l \in folio_leases : l.rangeEnd < start
    BY <1>1 DEF NextRangeStart
  <2>4. \A l \in folio_leases : l.epochId < ep
    BY <1>1 DEF NextEpoch
  <2> QED
    BY <2>2, <2>3, <2>4
<1>4. /\ row \in FolioLeaseRecord
      /\ response \in LeaseResponse
  BY <1>2, <1>3 DEF FolioLeaseRecord, LeaseResponse, CloudFolioLeaseStatus
<1>5. TypeOK'
  <2>1. folio_leases' \subseteq FolioLeaseRecord
    BY <1>1, <1>4, AbandonKeepsRange
  <2>2. responses' \subseteq LeaseResponse
    BY <1>1, <1>4 DEF TypeOK
  <2> QED
    BY <1>2, <2>1, <2>2 DEF TypeOK
<1>6. \A l \in folio_leases' : l = row \/ \E k \in folio_leases : l = Abandon(k)
  BY <1>1
<1>7. RangesOrdered'
  <2>1. ASSUME NEW l \in folio_leases'
        PROVE  1 <= l.rangeStart /\ l.rangeStart <= l.rangeEnd
    BY <1>2, <1>3, <1>6, AbandonKeepsRange DEF RangesOrdered
  <2>2. ASSUME NEW l \in folio_leases', NEW m \in folio_leases', l.epochId = m.epochId
        PROVE  l = m
    <3>1. CASE l = row /\ m = row
      BY <3>1
    <3>2. CASE l = row /\ m # row
      <4>1. PICK k \in folio_leases : m = Abandon(k)
        BY <1>6, <3>2
      <4> QED
        BY <1>3, <2>2, <3>2, <4>1, AbandonKeepsRange DEF TypeOK, FolioLeaseRecord
    <3>3. CASE l # row /\ m = row
      <4>1. PICK k \in folio_leases : l = Abandon(k)
        BY <1>6, <3>3
      <4> QED
        BY <1>3, <2>2, <3>3, <4>1, AbandonKeepsRange DEF TypeOK, FolioLeaseRecord
    <3>4. CASE l # row /\ m # row
      <4>1. PICK k \in folio_leases : l = Abandon(k)
        BY <1>6, <3>4
      <4>2. PICK n \in folio_leases : m = Abandon(n)
        BY <1>6, <3>4
      <4>3. k = n
        BY <2>2, <4>1, <4>2, AbandonKeepsRange DEF RangesOrdered
      <4> QED
        BY <4>1, <4>2, <4>3
    <3> QED
      BY <3>1, <3>2, <3>3, <3>4
  <2>3. ASSUME NEW l \in folio_leases', NEW m \in folio_leases', l.epochId < m.epochId
        PROVE  l.rangeEnd < m.rangeStart
    <3>1. CASE l = row /\ m = row
      BY <1>3, <2>3, <3>1
    <3>2. CASE l = row /\ m # row
      <4>1. PICK k \in folio_leases : m = Abandon(k)
        BY <1>6, <3>2
      <4>2. m.epochId = k.epochId
        BY <4>1, AbandonKeepsRange
      <4>3. k.epochId \in Nat /\ ep \in Nat /\ k.epochId < ep
        BY <1>3 DEF TypeOK, FolioLeaseRecord
      <4>4. l.epochId = ep
        BY <3>2
      <4> QED
        BY <2>3, <4>2, <4>3, <4>4
    <3>3. CASE l # row /\ m = row
      <4>1. PICK k \in folio_leases : l = Abandon(k)
        BY <1>6, <3>3
      <4>2. l.rangeEnd = k.rangeEnd
        BY <4>1, AbandonKeepsRange
      <4>3. k.rangeEnd < start /\ m.rangeStart = start
        BY <1>3, <3>3
      <4> QED
        BY <4>2, <4>3
    <3>4. CASE l # row /\ m # row
      <4>1. PICK k \in folio_leases : l = Abandon(k)
        BY <1>6, <3>4
      <4>2. PICK n \in folio_leases : m = Abandon(n)
        BY <1>6, <3>4
      <4> QED
        BY <2>3, <4>1, <4>2, AbandonKeepsRange DEF RangesOrdered
    <3> QED
      BY <3>1, <3>2, <3>3, <3>4
  <2> QED
    BY <2>1, <2>2, <2>3 DEF RangesOrdered
<1>8. ResponsesMatchRows'
  <2>1. ASSUME NEW r \in responses'
        PROVE  \E l \in folio_leases' : /\ l.epochId = r.epochId
                                        /\ l.rangeStart = r.rangeStart
                                        /\ l.rangeEnd = r.rangeEnd
    <3>1. CASE r = response
      <4>1. row \in folio_leases'
        BY <1>1
      <4>2. /\ row.epochId = r.epochId
            /\ row.rangeStart = r.rangeStart
            /\ row.rangeEnd = r.rangeEnd
        BY <3>1
      <4> QED
        BY <4>1, <4>2
    <3>2. CASE r \in responses
      <4>1. PICK k \in folio_leases : /\ k.epochId = r.epochId
                                      /\ k.rangeStart = r.rangeStart
                                      /\ k.rangeEnd = r.rangeEnd
        BY <3>2 DEF ResponsesMatchRows
      <4>2. Abandon(k) \in folio_leases'
        BY <1>1
      <4> QED
        BY <4>1, <4>2, AbandonKeepsRange
    <3> QED
      BY <1>1, <3>1, <3>2
  <2>2. \A r \in responses : r.epochId \in Nat /\ r.epochId < ep
    BY <1>3 DEF ResponsesMatchRows, TypeOK, LeaseResponse
  <2>3. ASSUME NEW r \in responses', NEW q \in responses', r.epochId = q.epochId
        PROVE  r = q
    BY <1>1, <1>3, <2>2, <2>3 DEF ResponsesMatchRows
  <2> QED
    BY <2>1, <2>3 DEF ResponsesMatchRows
<1>9. responses \subseteq responses'
  BY <1>1
<1>10. LocalMatchesResponse'
  BY <1>2, <1>9 DEF LocalMatchesResponse, Installed
<1>11. IssuedWasGranted'
  BY <1>2, <1>9 DEF IssuedWasGranted, Installed
<1>12. FoliosIncrease'
  BY <1>2 DEF FoliosIncrease
<1> QED
  BY <1>5, <1>7, <1>8, <1>10, <1>11, <1>12

\* An accepted heartbeat replaces a row by one with the same epoch and range.
LEMMA HeartbeatAcceptedStep ==
    ASSUME IInv, NEW b \in beats, HeartbeatAccepted(b)
    PROVE  IInv'
<1> USE DEF IInv
<1>1. PICK row \in folio_leases : folio_leases' = (folio_leases \ {row}) \cup {Beaten(row, b)}
  BY DEF HeartbeatAccepted
<1>2. UNCHANGED <<responses, beats, fences, local_folio_leases, issued>>
  BY DEF HeartbeatAccepted
<1>3. /\ Beaten(row, b) \in FolioLeaseRecord
      /\ Beaten(row, b).epochId = row.epochId
      /\ Beaten(row, b).rangeStart = row.rangeStart
      /\ Beaten(row, b).rangeEnd = row.rangeEnd
  BY BeatenKeepsRange
<1>4. TypeOK'
  BY <1>1, <1>2, <1>3 DEF TypeOK
<1>5. \A l \in folio_leases' : \/ l = Beaten(row, b)
                               \/ l \in folio_leases /\ l # row
  BY <1>1
<1>6. RangesOrdered'
  BY <1>3, <1>5 DEF RangesOrdered
<1>7. ResponsesMatchRows'
  <2>1. ASSUME NEW r \in responses
        PROVE  \E l \in folio_leases' : /\ l.epochId = r.epochId
                                        /\ l.rangeStart = r.rangeStart
                                        /\ l.rangeEnd = r.rangeEnd
    BY <1>1, <1>3 DEF ResponsesMatchRows
  <2> QED
    BY <1>2, <2>1 DEF ResponsesMatchRows
<1>8. LocalMatchesResponse' /\ IssuedWasGranted' /\ FoliosIncrease'
  BY <1>2 DEF LocalMatchesResponse, IssuedWasGranted, FoliosIncrease, Installed
<1> QED
  BY <1>4, <1>6, <1>7, <1>8

-----------------------------------------------------------------------------
(* Steps of an edge host *)

\* Installing a lease never moves the current folio back: a newer epoch has a
\* later range, and a replay of the installed epoch regresses or changes nothing.
LEMMA SetActiveLeaseStep ==
    ASSUME IInv, NEW h \in Hosts, NEW r \in responses, SetActiveLease(h, r)
    PROVE  IInv'
<1> USE DEF IInv
<1> DEFINE new == local_folio_leases'[h]
           old == local_folio_leases[h]
<1>1. /\ UNCHANGED <<folio_leases, responses, beats, fences, issued>>
      /\ r.host = h
      /\ new = [epochId |-> r.epochId, fencingToken |-> r.fencingToken,
                rangeStart |-> r.rangeStart, rangeEnd |-> r.rangeEnd,
                currentFolio |-> r.rangeStart - 1,
                status |-> IF r.rangeStart - 1 = r.rangeEnd THEN "EXHAUSTED" ELSE "ACTIVE"]
      /\ \A g \in Hosts \ {h} : local_folio_leases'[g] = local_folio_leases[g]
      /\ DOMAIN local_folio_leases' = Hosts
      /\ local_folio_leases' = [local_folio_leases EXCEPT ![h] = new]
  BY DEF SetActiveLease, TypeOK
<1>2. PICK l \in folio_leases : /\ l.epochId = r.epochId
                                /\ l.rangeStart = r.rangeStart
                                /\ l.rangeEnd = r.rangeEnd
  BY DEF ResponsesMatchRows
<1>3. /\ r.epochId \in Nat /\ r.fencingToken \in Nat
      /\ r.rangeStart \in Nat /\ r.rangeEnd \in Nat
      /\ 1 <= r.rangeStart /\ r.rangeStart <= r.rangeEnd
  BY <1>2 DEF TypeOK, LeaseResponse, RangesOrdered
<1>4. new \in LocalFolioLeaseRecord
  BY <1>1, <1>3 DEF LocalFolioLeaseRecord, LocalFolioLeaseStatus
<1>5. TypeOK'
  BY <1>1, <1>4 DEF TypeOK
<1>6. new # NoLease
  BY <1>1 DEF NoLease
<1>7. Installed(h) => old.currentFolio <= new.currentFolio
  <2> SUFFICES ASSUME Installed(h) PROVE old.currentFolio <= r.rangeStart - 1
    BY <1>1
  <2>1. old \in LocalFolioLeaseRecord
    BY DEF TypeOK, Installed
  <2>2. CASE r.epochId > old.epochId
    <3>1. PICK q \in responses : /\ q.epochId = old.epochId
                                 /\ q.rangeEnd = old.rangeEnd
      BY DEF LocalMatchesResponse
    <3>2. PICK m \in folio_leases : m.epochId = q.epochId /\ m.rangeEnd = q.rangeEnd
      BY DEF ResponsesMatchRows
    <3>3. m.rangeEnd < l.rangeStart
      BY <1>2, <2>1, <2>2, <3>1, <3>2, <1>3 DEF RangesOrdered, LocalFolioLeaseRecord
    <3>4. old.currentFolio <= old.rangeEnd
      BY DEF LocalMatchesResponse
    <3> QED
      BY <1>2, <1>3, <2>1, <3>1, <3>2, <3>3, <3>4 DEF LocalFolioLeaseRecord
  <2>3. CASE r.rangeStart - 1 >= old.currentFolio
    BY <1>3, <2>1, <2>3 DEF LocalFolioLeaseRecord
  <2> QED
    BY <2>2, <2>3 DEF SetActiveLease
<1>8. LocalMatchesResponse'
  <2> SUFFICES ASSUME NEW g \in Hosts, Installed(g)'
               PROVE  /\ \E q \in responses' :
                           /\ q.host = g
                           /\ q.epochId = local_folio_leases'[g].epochId
                           /\ q.rangeStart = local_folio_leases'[g].rangeStart
                           /\ q.rangeEnd = local_folio_leases'[g].rangeEnd
                      /\ local_folio_leases'[g].rangeStart <= local_folio_leases'[g].currentFolio + 1
                      /\ local_folio_leases'[g].currentFolio <= local_folio_leases'[g].rangeEnd
    BY DEF LocalMatchesResponse
  <2>1. CASE g = h
    BY <1>1, <1>3, <2>1
  <2>2. CASE g # h
    BY <1>1, <2>2 DEF LocalMatchesResponse, Installed
  <2> QED
    BY <2>1, <2>2
<1>9. IssuedWasGranted'
  <2> SUFFICES ASSUME NEW g \in Hosts, NEW i \in DOMAIN issued[g]
               PROVE  /\ Installed(g)'
                      /\ issued[g][i] <= local_folio_leases'[g].currentFolio
                      /\ \E q \in responses : /\ q.host = g
                                              /\ q.rangeStart <= issued[g][i]
                                              /\ issued[g][i] <= q.rangeEnd
    BY <1>1 DEF IssuedWasGranted
  <2>1. CASE g = h
    <3>1. /\ Installed(h) /\ issued[h][i] <= old.currentFolio
          /\ issued[h][i] \in Nat
          /\ old \in LocalFolioLeaseRecord
      BY <2>1 DEF IssuedWasGranted, TypeOK, Installed
    <3> QED
      BY <1>1, <1>3, <1>4, <1>6, <1>7, <2>1, <3>1
      DEF IssuedWasGranted, Installed, LocalFolioLeaseRecord
  <2>2. CASE g # h
    BY <1>1, <2>2 DEF IssuedWasGranted, Installed
  <2> QED
    BY <2>1, <2>2
<1>10. RangesOrdered' /\ ResponsesMatchRows' /\ FoliosIncrease'
  BY <1>1 DEF RangesOrdered, ResponsesMatchRows, FoliosIncrease
<1> QED
  BY <1>5, <1>8, <1>9, <1>10

\* The next folio follows the current one and stays in the granted range.
LEMMA ConsumeNextFolioStep ==
    ASSUME IInv, NEW h \in Hosts, ConsumeNextFolio(h)
    PROVE  IInv'
<1> USE DEF IInv
<1> DEFINE lease == local_folio_leases[h]
           folio == NextFolio(lease)
<1>1. /\ UNCHANGED <<folio_leases, responses, beats, fences>>
      /\ Installed(h)
      /\ lease \in LocalFolioLeaseRecord
      /\ lease.currentFolio < lease.rangeEnd
  BY DEF ConsumeNextFolio, Installed, TypeOK
<1>2. PICK r \in responses : /\ r.host = h
                             /\ r.rangeStart = lease.rangeStart
                             /\ r.rangeEnd = lease.rangeEnd
                             /\ r.epochId = lease.epochId
  BY <1>1 DEF LocalMatchesResponse
<1>3. /\ folio = lease.currentFolio + 1
      /\ folio \in Nat
      /\ r.rangeStart <= folio /\ folio <= r.rangeEnd
  BY <1>1, <1>2 DEF LocalMatchesResponse, NextFolio, LocalFolioLeaseRecord
<1>4. /\ local_folio_leases'[h] =
           [lease EXCEPT !.currentFolio = folio,
                         !.status = IF folio = lease.rangeEnd THEN "EXHAUSTED" ELSE "ACTIVE"]
      /\ \A g \in Hosts \ {h} : local_folio_leases'[g] = local_folio_leases[g]
      /\ local_folio_leases' = [local_folio_leases EXCEPT ![h] = local_folio_leases'[h]]
  BY DEF ConsumeNextFolio, TypeOK
<1>5. /\ local_folio_leases'[h] \in LocalFolioLeaseRecord
      /\ local_folio_leases'[h].epochId = lease.epochId
      /\ local_folio_leases'[h].rangeStart = lease.rangeStart
      /\ local_folio_leases'[h].rangeEnd = lease.rangeEnd
      /\ local_folio_leases'[h].currentFolio = folio
      /\ local_folio_leases'[h].status # "NONE"
  BY <1>1, <1>3, <1>4 DEF LocalFolioLeaseRecord, LocalFolioLeaseStatus
<1>6. local_folio_leases'[h] # NoLease
  BY <1>5 DEF NoLease
<1>7. /\ issued'[h] = Append(issued[h], folio)
      /\ \A g \in Hosts \ {h} : issued'[g] = issued[g]
      /\ issued[h] \in Seq(Nat)
      /\ issued' = [issued EXCEPT ![h] = Append(issued[h], folio)]
  BY DEF ConsumeNextFolio, TypeOK
<1>8. TypeOK'
  <2>1. local_folio_leases' \in [Hosts -> LocalFolioLeaseRecord \cup {NoLease}]
    BY <1>4, <1>5 DEF TypeOK
  <2>2. issued' \in [Hosts -> Seq(Nat)]
    BY <1>3, <1>7 DEF TypeOK
  <2> QED
    BY <1>1, <2>1, <2>2 DEF TypeOK
<1>9. LocalMatchesResponse'
  <2> SUFFICES ASSUME NEW g \in Hosts, Installed(g)'
               PROVE  /\ \E q \in responses' :
                           /\ q.host = g
                           /\ q.epochId = local_folio_leases'[g].epochId
                           /\ q.rangeStart = local_folio_leases'[g].rangeStart
                           /\ q.rangeEnd = local_folio_leases'[g].rangeEnd
                      /\ local_folio_leases'[g].rangeStart <= local_folio_leases'[g].currentFolio + 1
                      /\ local_folio_leases'[g].currentFolio <= local_folio_leases'[g].rangeEnd
    BY DEF LocalMatchesResponse
  <2>1. CASE g = h
    BY <1>1, <1>2, <1>3, <1>5, <2>1 DEF LocalFolioLeaseRecord
  <2>2. CASE g # h
    BY <1>1, <1>4, <2>2 DEF LocalMatchesResponse, Installed
  <2> QED
    BY <2>1, <2>2
<1>10. \A i \in DOMAIN issued'[h] :
          \/ i \in DOMAIN issued[h] /\ issued'[h][i] = issued[h][i] /\ i < Len(issued[h]) + 1
          \/ i = Len(issued[h]) + 1 /\ issued'[h][i] = folio
  BY <1>3, <1>7
<1>11. \A i \in DOMAIN issued[h] : issued[h][i] < folio
  <2> SUFFICES ASSUME NEW i \in DOMAIN issued[h] PROVE issued[h][i] < folio
    OBVIOUS
  <2>1. issued[h][i] \in Nat /\ issued[h][i] <= lease.currentFolio
    BY <1>7 DEF IssuedWasGranted
  <2> QED
    BY <1>1, <1>3, <2>1 DEF LocalFolioLeaseRecord
<1>12. IssuedWasGranted'
  <2> SUFFICES ASSUME NEW g \in Hosts, NEW i \in DOMAIN issued'[g]
               PROVE  /\ Installed(g)'
                      /\ issued'[g][i] <= local_folio_leases'[g].currentFolio
                      /\ \E q \in responses : /\ q.host = g
                                              /\ q.rangeStart <= issued'[g][i]
                                              /\ issued'[g][i] <= q.rangeEnd
    BY <1>1 DEF IssuedWasGranted
  <2>1. CASE g # h
    BY <1>1, <1>4, <1>7, <2>1 DEF IssuedWasGranted, Installed
  <2>2. CASE g = h /\ i \in DOMAIN issued[h] /\ issued'[h][i] = issued[h][i]
    <3>1. issued[h][i] \in Nat /\ issued[h][i] < folio
      BY <1>7, <1>11, <2>2
    <3> QED
      BY <1>3, <1>5, <1>6, <2>2, <3>1 DEF IssuedWasGranted, Installed
  <2>3. CASE g = h /\ issued'[h][i] = folio
    BY <1>2, <1>3, <1>5, <1>6, <2>3 DEF Installed
  <2> QED
    BY <1>10, <2>1, <2>2, <2>3
<1>13. FoliosIncrease'
  <2> SUFFICES ASSUME NEW g \in Hosts, NEW i \in DOMAIN issued'[g], NEW j \in DOMAIN issued'[g],
                      i < j
               PROVE  issued'[g][i] < issued'[g][j]
    BY DEF FoliosIncrease
  <2>1. CASE g # h
    BY <1>7, <2>1 DEF FoliosIncrease
  <2>2. CASE g = h
    <3>1. i \in Nat /\ j \in Nat /\ Len(issued[h]) \in Nat
      BY <1>3, <1>7, <2>2
    <3>2. j \in DOMAIN issued[h] => i \in DOMAIN issued[h]
      BY <1>7, <1>10, <2>2, <3>1
    <3> QED
      BY <1>10, <1>11, <2>2, <3>1, <3>2 DEF FoliosIncrease
  <2> QED
    BY <2>1, <2>2
<1>14. RangesOrdered' /\ ResponsesMatchRows'
  BY <1>1 DEF RangesOrdered, ResponsesMatchRows
<1> QED
  BY <1>8, <1>9, <1>12, <1>13, <1>14

\* Fencing a host changes the status of its row and nothing else.
LEMMA RevokeLeaseStep ==
    ASSUME IInv, NEW h \in Hosts, RevokeLease(h)
    PROVE  IInv'
<1> USE DEF IInv
<1>1. /\ UNCHANGED <<folio_leases, responses, beats, fences, issued>>
      /\ Installed(h)
      /\ local_folio_leases[h] \in LocalFolioLeaseRecord
      /\ local_folio_leases' =
           [local_folio_leases EXCEPT ![h] = [local_folio_leases[h] EXCEPT !.status = "REVOKED"]]
  BY DEF RevokeLease, Installed, TypeOK
<1>2. /\ local_folio_leases'[h] = [local_folio_leases[h] EXCEPT !.status = "REVOKED"]
      /\ \A g \in Hosts \ {h} : local_folio_leases'[g] = local_folio_leases[g]
  BY <1>1 DEF TypeOK
<1>3. /\ local_folio_leases'[h] \in LocalFolioLeaseRecord
      /\ local_folio_leases'[h].epochId = local_folio_leases[h].epochId
      /\ local_folio_leases'[h].rangeStart = local_folio_leases[h].rangeStart
      /\ local_folio_leases'[h].rangeEnd = local_folio_leases[h].rangeEnd
      /\ local_folio_leases'[h].currentFolio = local_folio_leases[h].currentFolio
      /\ local_folio_leases'[h].status # "NONE"
  BY <1>1, <1>2 DEF LocalFolioLeaseRecord, LocalFolioLeaseStatus
<1>4. TypeOK'
  BY <1>1, <1>2, <1>3 DEF TypeOK
<1>5. \A g \in Hosts : Installed(g)' <=> Installed(g)
  BY <1>1, <1>2, <1>3 DEF Installed, NoLease
<1>6. \A g \in Hosts :
        /\ local_folio_leases'[g].epochId = local_folio_leases[g].epochId
        /\ local_folio_leases'[g].rangeStart = local_folio_leases[g].rangeStart
        /\ local_folio_leases'[g].rangeEnd = local_folio_leases[g].rangeEnd
        /\ local_folio_leases'[g].currentFolio = local_folio_leases[g].currentFolio
  BY <1>2, <1>3
<1>7. LocalMatchesResponse'
  BY <1>1, <1>5, <1>6 DEF LocalMatchesResponse
<1>8. IssuedWasGranted'
  BY <1>1, <1>5, <1>6 DEF IssuedWasGranted
<1>9. RangesOrdered' /\ ResponsesMatchRows' /\ FoliosIncrease'
  BY <1>1 DEF RangesOrdered, ResponsesMatchRows, FoliosIncrease
<1> QED
  BY <1>4, <1>7, <1>8, <1>9

-----------------------------------------------------------------------------
\* Steps that only send a message, or change nothing.
LEMMA MessageStep ==
    ASSUME IInv,
           \/ UNCHANGED vars
           \/ \E h \in Hosts : SendHeartbeat(h)
           \/ \E b \in beats : HeartbeatRevoked(b)
    PROVE  IInv'
<1> USE DEF IInv
<1>1. UNCHANGED <<folio_leases, responses, local_folio_leases, issued>>
  BY DEF vars, SendHeartbeat, HeartbeatRevoked
<1>2. beats' \subseteq HeartbeatRequest /\ fences' \subseteq Hosts
  <2>1. CASE UNCHANGED vars
    BY <2>1 DEF vars, TypeOK
  <2>2. CASE \E h \in Hosts : SendHeartbeat(h)
    BY <2>2 DEF SendHeartbeat, TypeOK, HeartbeatRequest, LocalFolioLeaseRecord, Installed
  <2>3. CASE \E b \in beats : HeartbeatRevoked(b)
    BY <2>3 DEF HeartbeatRevoked, TypeOK, HeartbeatRequest
  <2> QED
    BY <2>1, <2>2, <2>3
<1>3. TypeOK'
  BY <1>1, <1>2 DEF TypeOK
<1> QED
  BY <1>1, <1>3 DEF RangesOrdered, ResponsesMatchRows, LocalMatchesResponse,
                    IssuedWasGranted, FoliosIncrease, Installed

\* The invariant is inductive.
LEMMA NextIInv == IInv /\ [Next]_vars => IInv'
<1> SUFFICES ASSUME IInv, [Next]_vars PROVE IInv'
  OBVIOUS
<1>1. CASE \E h \in Hosts, size \in BlockSizes, dr \in BOOLEAN : AllocateLease(h, size, dr)
  BY <1>1, AllocateLeaseStep
<1>2. CASE \E b \in beats : HeartbeatAccepted(b)
  BY <1>2, HeartbeatAcceptedStep
<1>3. CASE \E h \in Hosts, r \in responses : SetActiveLease(h, r)
  BY <1>3, SetActiveLeaseStep
<1>4. CASE \E h \in Hosts : ConsumeNextFolio(h)
  BY <1>4, ConsumeNextFolioStep
<1>5. CASE \E h \in Hosts : RevokeLease(h)
  BY <1>5, RevokeLeaseStep
<1>6. CASE \/ UNCHANGED vars
           \/ \E h \in Hosts : SendHeartbeat(h)
           \/ \E b \in beats : HeartbeatRevoked(b)
  BY <1>6, MessageStep
<1> QED
  BY <1>1, <1>2, <1>3, <1>4, <1>5, <1>6 DEF Next

\* The rows, messages and installed leases are always well formed.
THEOREM TypeCorrect == Spec => []TypeOK
<1>1. IInv => TypeOK
  BY DEF IInv
<1> QED
  BY <1>1, InitIInv, NextIInv, PTL DEF Spec

\* allocateLease, setActiveLease and consumeNextFolio together never hand out a
\* folio number twice, whatever is lost, delayed, reordered or delivered again.
THEOREM FolioUniqueness == Spec => []NoFolioIssuedTwice
<1> QED
  BY InvImpliesUnique, InitIInv, NextIInv, PTL DEF Spec

\* Each host hands out its folios in increasing order.
THEOREM FolioMonotonicity == Spec => []FoliosIncrease
<1>1. IInv => FoliosIncrease
  BY DEF IInv
<1> QED
  BY <1>1, InitIInv, NextIInv, PTL DEF Spec
=============================================================================
