------------------------------ MODULE FolioLease ------------------------------
(***************************************************************************)
(* Folio leases with epochs and fencing, for one (organization, branch,    *)
(* folio type): the cloud table folio_leases and its two operations        *)
(* (CloudLeaseManager in packages/database/src/leases.ts), the row of      *)
(* local_folio_leases kept by every edge host of the branch                *)
(* (FolioPersistence in packages/edge/src/db/folio-persistence.ts), and    *)
(* the HTTP exchanges between them (packages/sync/src/router.ts).          *)
(*                                                                         *)
(* A cloud operation runs in one transaction under an advisory lock on     *)
(* exactly this triple, so it is one action.  Messages are never removed:  *)
(* each may be lost, delayed, reordered or delivered again.                *)
(***************************************************************************)
EXTENDS Integers, Sequences, FiniteSets

CONSTANTS
    Hosts,        \* edge hosts of the branch: the original, replacements, zombies
    BlockSizes,   \* block sizes a host may ask for
    MaxLeases     \* bound: rows of folio_leases

ASSUME BlockSizesAssumption == BlockSizes \subseteq Nat \ {0}
ASSUME MaxLeasesAssumption == MaxLeases \in Nat

VARIABLES
    folio_leases,       \* cloud: every lease ever allocated
    responses,          \* 201 responses of POST /leases/request
    beats,              \* requests of POST /leases/heartbeat
    fences,             \* 403 LEASE_REVOKED responses to a heartbeat
    local_folio_leases, \* edge: the installed lease of each host, or NoLease
    issued              \* history: the folios each host has handed out, in order

vars == <<folio_leases, responses, beats, fences, local_folio_leases, issued>>

CloudFolioLeaseStatus == {"ALLOCATED", "ACTIVE", "EXHAUSTED", "REVOKED",
                          "ABANDONED_CONTINGENCY_RANGE", "RECONCILED"}
LocalFolioLeaseStatus == {"ACTIVE", "EXHAUSTED", "REVOKED"}

GREENFIELD_INITIAL_RANGE_START == 1

\* The random id and fencing token of a row are drawn once per row and every
\* row has its own epoch, so both are named by the epoch they were drawn for.
FolioLeaseRecord == [epochId: Nat, fencingToken: Nat, rangeStart: Nat, rangeEnd: Nat,
                     highWaterMark: Nat, status: CloudFolioLeaseStatus]
LeaseResponse == [host: Hosts, epochId: Nat, fencingToken: Nat,
                  rangeStart: Nat, rangeEnd: Nat]
HeartbeatRequest == [host: Hosts, epochId: Nat, fencingToken: Nat, currentFolio: Nat]
LocalFolioLeaseRecord == [epochId: Nat, fencingToken: Nat, rangeStart: Nat, rangeEnd: Nat,
                          currentFolio: Nat, status: LocalFolioLeaseStatus]

\* A host without a row: every field is a placeholder, status tells it apart.
NoLease == [epochId |-> 0, fencingToken |-> 0, rangeStart |-> 1, rangeEnd |-> 0,
            currentFolio |-> 0, status |-> "NONE"]
Installed(h) == local_folio_leases[h] # NoLease

Init ==
    /\ folio_leases = {}
    /\ responses = {}
    /\ beats = {}
    /\ fences = {}
    /\ local_folio_leases = [h \in Hosts |-> NoLease]
    /\ issued = [h \in Hosts |-> <<>>]

-----------------------------------------------------------------------------
(* CloudLeaseManager *)

Authoritative(l) == l.status \in {"ACTIVE", "ALLOCATED"}

\* Mutant: only the authoritative rows count as history, so a used-up range is
\* granted again.
NextRangeStart_AuthoritativeOnly(start) ==
    IF \A l \in folio_leases : ~Authoritative(l) THEN start = GREENFIELD_INITIAL_RANGE_START
    ELSE \E l \in folio_leases : Authoritative(l) /\ start = l.rangeEnd + 1

\* range_start of the next lease: one past the largest range_end of the history.
NextRangeStart(start) ==
    IF folio_leases = {} THEN start = GREENFIELD_INITIAL_RANGE_START
    ELSE /\ \E l \in folio_leases : start = l.rangeEnd + 1
         /\ \A l \in folio_leases : l.rangeEnd < start

\* epoch of the next lease: one past the largest epoch of the history.
NextEpoch(ep) ==
    IF folio_leases = {} THEN ep = 1
    ELSE /\ \E l \in folio_leases : ep = l.epochId + 1
         /\ \A l \in folio_leases : l.epochId < ep

\* The first authoritative row in ORDER BY range_end DESC.
ActiveLeaseRow(l) ==
    /\ Authoritative(l)
    /\ \A m \in folio_leases : Authoritative(m) => m.rangeEnd <= l.rangeEnd

\* Mutant: the superseded row gets a status of no row.
Abandon_UnknownStatus(l) == IF ActiveLeaseRow(l) THEN [l EXCEPT !.status = "ABANDONED"] ELSE l

\* Governed disaster recovery: the superseded lease keeps its range for ever.
Abandon(l) ==
    IF ActiveLeaseRow(l) THEN [l EXCEPT !.status = "ABANDONED_CONTINGENCY_RANGE"] ELSE l

\* The rows the new lease may follow: the candidates for the two maxima.
StartCandidates == {1} \cup {l.rangeEnd + 1 : l \in folio_leases}
EpochCandidates == {1} \cup {l.epochId + 1 : l \in folio_leases}

\* allocateLease, with or without isDisasterRecoveryReplacement.  The route
\* refuses the flag in a public payload, so dr is set only by the cloud's own
\* recovery operation.  ACTIVE_LEASE_EXISTS is the disabled case.
AllocateLease(h, blockSize, dr) ==
    /\ Cardinality(folio_leases) < MaxLeases
    /\ (\E l \in folio_leases : Authoritative(l)) => dr
    /\ \E start \in StartCandidates, ep \in EpochCandidates :
         /\ NextRangeStart(start)
         /\ NextEpoch(ep)
         /\ folio_leases' = {Abandon(l) : l \in folio_leases} \cup
              {[epochId |-> ep, fencingToken |-> ep,
                rangeStart |-> start, rangeEnd |-> start + blockSize - 1,
                highWaterMark |-> start - 1, status |-> "ACTIVE"]}
         /\ responses' = responses \cup
              {[host |-> h, epochId |-> ep, fencingToken |-> ep,
                rangeStart |-> start, rangeEnd |-> start + blockSize - 1]}
    /\ UNCHANGED <<beats, fences, local_folio_leases, issued>>

\* ORDER BY range_end DESC LIMIT 1
Latest(l) == \A m \in folio_leases : m.rangeEnd <= l.rangeEnd

\* Mutant: epochs are compared only for equality, older ones fall through.
Fenced_SameEpochOnly(b, l) ==
    /\ b.epochId = l.epochId
    /\ l.status \in {"REVOKED", "ABANDONED_CONTINGENCY_RANGE"}

\* The heartbeat b is rejected with 403 LEASE_REVOKED by the latest row l.
Fenced(b, l) ==
    \/ b.epochId < l.epochId
    \/ /\ b.epochId = l.epochId
       /\ b.fencingToken = l.fencingToken
       /\ b.currentFolio \in l.rangeStart - 1 .. l.rangeEnd
       /\ b.currentFolio >= l.highWaterMark
       /\ l.status \in {"REVOKED", "ABANDONED_CONTINGENCY_RANGE"}

\* Mutant: no check against the recorded high-water mark.
Accepted_NoRegressionCheck(b, l) ==
    /\ b.epochId = l.epochId
    /\ b.fencingToken = l.fencingToken
    /\ b.currentFolio \in l.rangeStart - 1 .. l.rangeEnd
    /\ l.status \notin {"REVOKED", "ABANDONED_CONTINGENCY_RANGE"}

\* The heartbeat b passes every check against the latest row l.
Accepted(b, l) ==
    /\ b.epochId = l.epochId
    /\ b.fencingToken = l.fencingToken
    /\ b.currentFolio \in l.rangeStart - 1 .. l.rangeEnd
    /\ b.currentFolio >= l.highWaterMark
    /\ l.status \notin {"REVOKED", "ABANDONED_CONTINGENCY_RANGE"}

\* The high-water mark and the status an accepted heartbeat writes.
Beaten(l, b) == [l EXCEPT !.highWaterMark = b.currentFolio,
                          !.status = IF b.currentFolio = l.rangeEnd THEN "EXHAUSTED" ELSE "ACTIVE"]

HeartbeatAccepted(b) ==
    /\ \E l \in folio_leases :
         /\ Latest(l)
         /\ Accepted(b, l)
         /\ folio_leases' = (folio_leases \ {l}) \cup {Beaten(l, b)}
    /\ UNCHANGED <<responses, beats, fences, local_folio_leases, issued>>

HeartbeatRevoked(b) ==
    /\ \E l \in folio_leases : Latest(l) /\ Fenced(b, l)
    /\ fences' = fences \cup {b.host}
    /\ UNCHANGED <<folio_leases, responses, beats, local_folio_leases, issued>>

-----------------------------------------------------------------------------
(* FolioPersistence *)

\* Mutant: a replayed 201 of the same epoch resets the consumed folios.
SetActiveLease_NoRegressionCheck(h, r) ==
    /\ r.host = h
    /\ Installed(h) => r.epochId >= local_folio_leases[h].epochId
    /\ local_folio_leases' = [local_folio_leases EXCEPT ![h] =
         [epochId |-> r.epochId, fencingToken |-> r.fencingToken,
          rangeStart |-> r.rangeStart, rangeEnd |-> r.rangeEnd,
          currentFolio |-> r.rangeStart - 1, status |-> "ACTIVE"]]
    /\ UNCHANGED <<folio_leases, responses, beats, fences, issued>>

\* setActiveLease with the fields of a 201 response.  A stale epoch, and a
\* same-epoch input that conflicts or regresses, are rejected.
SetActiveLease(h, r) ==
    LET current == local_folio_leases[h]
        initialFolio == r.rangeStart - 1 IN
    /\ r.host = h
    /\ Installed(h) =>
         \/ r.epochId > current.epochId
         \/ /\ r.epochId = current.epochId
            /\ r.fencingToken = current.fencingToken
            /\ r.rangeStart = current.rangeStart
            /\ r.rangeEnd = current.rangeEnd
            /\ initialFolio >= current.currentFolio
    /\ local_folio_leases' = [local_folio_leases EXCEPT ![h] =
         [epochId |-> r.epochId, fencingToken |-> r.fencingToken,
          rangeStart |-> r.rangeStart, rangeEnd |-> r.rangeEnd,
          currentFolio |-> initialFolio,
          status |-> IF initialFolio = r.rangeEnd THEN "EXHAUSTED" ELSE "ACTIVE"]]
    /\ UNCHANGED <<folio_leases, responses, beats, fences, issued>>

\* The folio consumeNextFolio hands out from the lease l.
NextFolio(l) == IF l.currentFolio < l.rangeStart THEN l.rangeStart ELSE l.currentFolio + 1

\* The transaction commits with synchronous = FULL before the number is
\* returned: a crash can waste a folio, never give it back.
ConsumeNextFolio(h) ==
    LET lease == local_folio_leases[h] IN
    /\ Installed(h)
    /\ lease.status = "ACTIVE"
    /\ lease.currentFolio < lease.rangeEnd
    /\ local_folio_leases' = [local_folio_leases EXCEPT
         ![h].currentFolio = NextFolio(lease),
         ![h].status = IF NextFolio(lease) = lease.rangeEnd THEN "EXHAUSTED" ELSE "ACTIVE"]
    /\ issued' = [issued EXCEPT ![h] = Append(@, NextFolio(lease))]
    /\ UNCHANGED <<folio_leases, responses, beats, fences>>

\* The host reports its row; heartbeat sending is done by the host program.
SendHeartbeat(h) ==
    LET lease == local_folio_leases[h] IN
    /\ Installed(h)
    /\ beats' = beats \cup {[host |-> h, epochId |-> lease.epochId,
                             fencingToken |-> lease.fencingToken,
                             currentFolio |-> lease.currentFolio]}
    /\ UNCHANGED <<folio_leases, responses, fences, local_folio_leases, issued>>

\* revokeLease on a 403: by folio type, whatever epoch the 403 was about.
RevokeLease(h) ==
    /\ h \in fences
    /\ Installed(h)
    /\ local_folio_leases' = [local_folio_leases EXCEPT ![h].status = "REVOKED"]
    /\ UNCHANGED <<folio_leases, responses, beats, fences, issued>>

-----------------------------------------------------------------------------
Next ==
    \/ \E h \in Hosts, size \in BlockSizes, dr \in BOOLEAN : AllocateLease(h, size, dr)
    \/ \E b \in beats : HeartbeatAccepted(b)
    \/ \E b \in beats : HeartbeatRevoked(b)
    \/ \E h \in Hosts, r \in responses : SetActiveLease(h, r)
    \/ \E h \in Hosts : ConsumeNextFolio(h)
    \/ \E h \in Hosts : SendHeartbeat(h)
    \/ \E h \in Hosts : RevokeLease(h)

Spec == Init /\ [][Next]_vars

\* Heartbeats are periodic (NOMINAL_HEARTBEAT_INTERVAL), requests are retried
\* until they get through, and a received 403 is handled.
Fairness ==
    /\ \A h \in Hosts : WF_vars(SendHeartbeat(h)) /\ SF_vars(RevokeLease(h))
    /\ \A h \in Hosts : SF_vars(\E b \in beats : b.host = h /\ HeartbeatRevoked(b))

FairSpec == Spec /\ Fairness

-----------------------------------------------------------------------------
(* Properties *)

\* The rows, messages and installed leases are well formed.
TypeOK ==
    /\ folio_leases \subseteq FolioLeaseRecord
    /\ responses \subseteq LeaseResponse
    /\ beats \subseteq HeartbeatRequest
    /\ fences \subseteq Hosts
    /\ local_folio_leases \in [Hosts -> LocalFolioLeaseRecord \cup {NoLease}]
    /\ issued \in [Hosts -> Seq(Nat)]

\* No folio number is ever handed out twice, by any two hosts (a fenced zombie
\* that is still offline and its replacement included) or by one host at two
\* times: allocateLease never recycles a range and consumeNextFolio is monotonic.
NoFolioIssuedTwice ==
    \A g, h \in Hosts : \A i \in DOMAIN issued[g], j \in DOMAIN issued[h] :
        issued[g][i] = issued[h][j] => g = h /\ i = j

\* A host hands out its folios in increasing order, across leases and replayed
\* 201 responses (setActiveLease refuses stale epochs and regressions).
FoliosIncrease ==
    \A h \in Hosts : \A i, j \in DOMAIN issued[h] : i < j => issued[h][i] < issued[h][j]

\* The cloud's view of a lease only moves forward: its range never changes, the
\* high-water mark never falls, and a range given up for contingency is never
\* taken back (delayed and duplicated heartbeats included).
LeasesOnlyAdvance ==
    [][\A l \in folio_leases : \E m \in folio_leases' :
         /\ m.epochId = l.epochId
         /\ m.rangeStart = l.rangeStart /\ m.rangeEnd = l.rangeEnd
         /\ m.highWaterMark >= l.highWaterMark
         /\ l.status = "ABANDONED_CONTINGENCY_RANGE" => m.status = l.status]_vars

\* Zombie protection (rule 4 of the folio protocol): a host whose installed
\* lease has been superseded ends up fenced, or with a newer lease.
Superseded(h) ==
    Installed(h) /\ \E l \in folio_leases : l.epochId > local_folio_leases[h].epochId
ZombieIsFenced ==
    \A h \in Hosts : \A ep \in 1..MaxLeases :
        Superseded(h) /\ local_folio_leases[h].epochId = ep
            ~> local_folio_leases[h].status = "REVOKED" \/ local_folio_leases[h].epochId > ep

=============================================================================
